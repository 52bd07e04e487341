-------------------------- MODULE ConsensusProofs --------------------------
(***************************************************************************)
(* Proofs about Consensus for every number of replicas, attempts and       *)
(* faults.                                                                 *)
(***************************************************************************)
EXTENDS Consensus, FiniteSetTheorems, TLAPS

-----------------------------------------------------------------------------
(* The head count: when the test of AttemptConsensus makes quorums that    *)
(* meet.                                                                   *)

\* In a cluster of odd size the code's test is the one its comment states
\* (app.cc:305, declaration.h:424).
THEOREM OddRuleIsMajority ==
  ASSUME NEW k \in Nat, NEW num \in Nat
  PROVE  Enough(num, 2 * k + 1) <=> DocumentedEnough(num, 2 * k + 1)
<1>1. CeilHalf(2 * k + 1) = k + 1 /\ (2 * k + 1) \div 2 = k
  BY DEF CeilHalf
<1> QED BY <1>1 DEF Enough, DocumentedEnough

\* In a cluster of even size it is not: half of the replicas are enough.
THEOREM EvenRuleIsHalf ==
  ASSUME NEW k \in Nat, NEW num \in Nat
  PROVE  /\ Enough(num, 2 * k) <=> num >= k
         /\ DocumentedEnough(num, 2 * k) <=> num > k
<1>1. CeilHalf(2 * k) = k /\ (2 * k) \div 2 = k
  BY DEF CeilHalf
<1> QED BY <1>1 DEF Enough, DocumentedEnough

\* Two sets of replicas of an odd cluster that pass the test have one in common: a
\* proposer that hears a quorum hears of what an earlier quorum accepted.
THEOREM OddQuorumsMeet ==
  ASSUME NEW k \in Nat, NEW S \in SUBSET (1 .. 2 * k + 1), NEW T \in SUBSET (1 .. 2 * k + 1),
         Enough(Cardinality(S), 2 * k + 1), Enough(Cardinality(T), 2 * k + 1)
  PROVE  S \cap T # {}
<1> DEFINE U == 1 .. 2 * k + 1
<1>1. IsFiniteSet(U) /\ Cardinality(U) = 2 * k + 1
  BY FS_Interval
<1>2. S \in SUBSET U /\ T \in SUBSET U
  OBVIOUS
<1> HIDE DEF U
<1>3. IsFiniteSet(S) /\ IsFiniteSet(T)
  BY <1>1, <1>2, FS_Subset
<1>4. Cardinality(S) \in Nat /\ Cardinality(T) \in Nat
  BY <1>3, FS_CardinalityType
<1>5. Cardinality(S) > k /\ Cardinality(T) > k
  <2>1. CeilHalf(2 * k + 1) = k + 1
    BY DEF CeilHalf
  <2> QED BY <1>4, <2>1 DEF Enough
<1>6. Cardinality(S) + Cardinality(T) > Cardinality(U)
  BY <1>1, <1>4, <1>5
<1> QED BY <1>1, <1>2, <1>6, FS_MajoritiesIntersect

-----------------------------------------------------------------------------
(* The log of one key on one replica.                                      *)

EntryType == Entry(Payload \cup {Nothing})
LogType == [Round -> EntryType \cup {Absent}]

\* An accepted entry holds a value that was asked for, never the empty string.
FullEntries(lg) == \A r \in Known(lg) : lg[r].a_server_id > 0 => lg[r].accepted_value \in Payload

\* Set_Log(key, round) adds at most that round and changes no other entry.
LEMMA TouchLog ==
  ASSUME NEW lg \in LogType, NEW r \in Round
  PROVE  /\ Touch(lg, r) \in LogType
         /\ Known(Touch(lg, r)) = Known(lg) \cup {r}
         /\ FullEntries(lg) => FullEntries(Touch(lg, r))
<1>1. NewEntry \in EntryType
  BY DEF NewEntry, EntryType, Entry, ProposeId
<1>2. EntryType \cap {Absent} = {}
  BY ConstantsAssumption DEF EntryType
<1>3. EntryAt(lg, r) \in EntryType
  BY <1>1, <1>2 DEF EntryAt, LogType
<1>4. Touch(lg, r) \in LogType
  BY <1>3 DEF Touch, LogType
<1>5. Known(Touch(lg, r)) = Known(lg) \cup {r}
  BY <1>2, <1>3 DEF Touch, Known, LogType
<1>6. ASSUME FullEntries(lg) PROVE FullEntries(Touch(lg, r))
  BY <1>5, <1>6, <1>2, <1>3 DEF FullEntries, Touch, LogType, EntryAt, NewEntry, Known
<1> QED BY <1>4, <1>5, <1>6

\* Set_Log(key, round, a_server, op, value) likewise.
LEMMA AcceptLog ==
  ASSUME NEW lg \in LogType, NEW r \in Round, NEW v \in Payload
  PROVE  /\ Accept(lg, r, v) \in LogType
         /\ Known(Accept(lg, r, v)) = Known(lg) \cup {r}
         /\ FullEntries(lg) => FullEntries(Accept(lg, r, v))
<1>1. NewEntry \in EntryType
  BY DEF NewEntry, EntryType, Entry, ProposeId
<1>2. EntryType \cap {Absent} = {}
  BY ConstantsAssumption DEF EntryType
<1>3. EntryAt(lg, r) \in EntryType
  BY <1>1, <1>2 DEF EntryAt, LogType
<1> DEFINE e == [EntryAt(lg, r) EXCEPT !.a_server_id = ProposeId, !.accepted_value = v]
<1>4. e \in EntryType /\ e.accepted_value = v
  BY <1>3 DEF EntryType, Entry, ProposeId
<1> HIDE DEF e
<1>5. Accept(lg, r, v) = [lg EXCEPT ![r] = e]
  BY DEF Accept, e
<1>6. Accept(lg, r, v) \in LogType
  BY <1>4, <1>5 DEF LogType
<1>7. Known(Accept(lg, r, v)) = Known(lg) \cup {r}
  BY <1>2, <1>4, <1>5 DEF Known, LogType
<1>8. ASSUME FullEntries(lg) PROVE FullEntries(Accept(lg, r, v))
  BY <1>4, <1>5, <1>7, <1>8 DEF FullEntries, LogType, Known
<1> QED BY <1>6, <1>7, <1>8

-----------------------------------------------------------------------------
(* The locals of one AttemptConsensus.                                     *)

Waits == {"propose", "accept", "success"}

\* set asks for what a client writes, elect_leader for its replica to lead.
Asked(n, k, v, by) ==
  \/ by = "set" /\ k \in ClientKey /\ v \in Value
  \/ by = "elect_leader" /\ k = LeaderKey /\ v = n

\* A proposer adopts a value, never the empty string.
GoodTask(t) ==
  /\ t \in Task /\ Asked(t.node, t.key, t.value, t.by)
  /\ t.accepted_id > 0 => t.accepted_value \in Payload

\* What an attempt never changes: its replica, its request and its round.
SameRequest(t, u) ==
  u.node = t.node /\ u.key = t.key /\ u.value = t.value /\ u.round = t.round /\ u.by = t.by

\* Past the proposals, neither does it change the value it settled on.
SameChoice(t, u) == SameRequest(t, u) /\ u.accepted_id = t.accepted_id /\ u.accepted_value = t.accepted_value

\* What a proposer asks its acceptors to accept is a value of the protocol, never the
\* empty default of a log entry.
LEMMA ChosenPayload ==
  ASSUME NEW t, GoodTask(t)
  PROVE  Chosen(t) \in Payload
BY DEF GoodTask, Chosen, Task

\* The test after a loop changes only where the attempt is and whom it has yet to call.
LEMMA AdvanceTask ==
  ASSUME NEW t, GoodTask(t), t.pc \in Waits
  PROVE  GoodTask(Advance(t)) /\ SameChoice(t, Advance(t)) /\ Advance(t).acked = t.acked
<1> t \in Task /\ Node \subseteq Node
  BY DEF GoodTask
<1> DEFINE Goal(u) == GoodTask(u) /\ SameChoice(t, u) /\ u.acked = t.acked
<1>1. Goal(t)
  BY DEF SameChoice, SameRequest
<1>2. Goal([t EXCEPT !.pc = "accept", !.todo = t.live])
  BY DEF GoodTask, Task, Stage, SameChoice, SameRequest
<1>3. Goal([t EXCEPT !.pc = "fail", !.live = {}])
  BY DEF GoodTask, Task, Ended, SameChoice, SameRequest
<1>4. Goal([t EXCEPT !.pc = "success", !.todo = Node, !.live = {}])
  BY DEF GoodTask, Task, Stage, SameChoice, SameRequest
<1>5. Goal([t EXCEPT !.pc = "return"])
  BY DEF GoodTask, Task, Stage, SameChoice, SameRequest
<1> HIDE DEF Goal
<1>6. Goal(Advance(t))
  BY <1>1, <1>2, <1>3, <1>4, <1>5 DEF Advance, Waits
<1> QED BY <1>6 DEF Goal

\* A call that counts for nothing leaves the attempt's choice as it is.
LEMMA PassedTask ==
  ASSUME NEW t, GoodTask(t), t.pc \in Waits, NEW n
  PROVE  GoodTask(Passed(t, n)) /\ SameChoice(t, Passed(t, n)) /\ Passed(t, n).acked = t.acked
<1> DEFINE u == [t EXCEPT !.todo = @ \ {n}]
<1>1. GoodTask(u) /\ SameChoice(t, u) /\ u.acked = t.acked /\ u.pc \in Waits
  BY DEF GoodTask, Task, SameChoice, SameRequest
<1> HIDE DEF u
<1>2. Passed(t, n) = Advance(u)
  BY DEF Passed, u
<1> QED BY <1>1, <1>2, AdvanceTask DEF SameChoice, SameRequest

\* An answer to propose makes the proposer adopt the entry's value or keep its own.
LEMMA PromisedTask ==
  ASSUME NEW t, GoodTask(t), t.pc = "propose", NEW n, NEW e \in EntryType,
         e.a_server_id > 0 => e.accepted_value \in Payload
  PROVE  GoodTask(Promised(t, n, e)) /\ SameRequest(t, Promised(t, n, e))
         /\ Promised(t, n, e).acked = t.acked
<1> DEFINE u == [t EXCEPT
    !.todo = @ \ {n},
    !.promised = @ + 1,
    !.accepted_value = IF e.a_server_id > t.accepted_id THEN e.accepted_value ELSE @,
    !.accepted_id = IF e.a_server_id > @ THEN e.a_server_id ELSE @]
<1>1. u \in Task
  <2> DEFINE val == IF e.a_server_id > t.accepted_id THEN e.accepted_value ELSE t.accepted_value
             id  == IF e.a_server_id > t.accepted_id THEN e.a_server_id ELSE t.accepted_id
  <2>1. val \in Payload \cup {Nothing} /\ id \in {0, ProposeId}
    BY DEF GoodTask, Task, EntryType, Entry
  <2> DEFINE rest == t.todo \ {n}
             count == t.promised + 1
  <2>2. rest \in SUBSET Node /\ count \in Nat /\ t \in Task
    BY DEF GoodTask, Task
  <2> DEFINE counted == [t EXCEPT !.todo = rest, !.promised = count]
  <2>3. u = [counted EXCEPT !.accepted_value = val, !.accepted_id = id]
    BY DEF GoodTask, Task
  <2> HIDE DEF val, id, rest, count, u
  <2>4. counted \in Task
    BY <2>2 DEF Task
  <2> HIDE DEF counted
  <2> QED BY <2>1, <2>3, <2>4 DEF Task
<1>2. u.accepted_id > 0 => u.accepted_value \in Payload
  BY DEF GoodTask, Task, EntryType, Entry, ProposeId
<1>3. SameRequest(t, u) /\ u.acked = t.acked /\ u.pc \in Waits
  BY DEF GoodTask, Task, SameRequest, Waits
<1> HIDE DEF u
<1>4. Promised(t, n, e) = Advance(u)
  BY DEF Promised, u
<1> QED BY <1>1, <1>2, <1>3, <1>4, AdvanceTask DEF GoodTask, SameChoice, SameRequest

\* An answer to accept is counted once, for the replica that gave it.
LEMMA AckedTask ==
  ASSUME NEW t, GoodTask(t), t.pc = "accept", NEW n \in Node
  PROVE  GoodTask(Acked(t, n)) /\ SameChoice(t, Acked(t, n)) /\ Acked(t, n).acked = t.acked \cup {n}
<1> DEFINE u == [t EXCEPT !.todo = @ \ {n}, !.acked = @ \cup {n}]
<1>1. GoodTask(u) /\ SameChoice(t, u) /\ u.acked = t.acked \cup {n} /\ u.pc \in Waits
  BY DEF GoodTask, Task, SameChoice, SameRequest, Waits
<1> HIDE DEF u
<1>2. Acked(t, n) = Advance(u)
  BY DEF Acked, u
<1> QED BY <1>1, <1>2, AdvanceTask DEF SameChoice, SameRequest

\* Waiting for a store, and going on after it.
LEMMA StoringTask ==
  ASSUME NEW t, GoodTask(t), NEW n
  PROVE  /\ GoodTask(Waiting(t)) /\ SameChoice(t, Waiting(t)) /\ Waiting(t).acked = t.acked
         /\ GoodTask(Resumed(t, n)) /\ SameChoice(t, Resumed(t, n)) /\ Resumed(t, n).acked = t.acked
<1>1. GoodTask(Waiting(t)) /\ SameChoice(t, Waiting(t)) /\ Waiting(t).acked = t.acked
  BY DEF Waiting, GoodTask, Task, SameChoice, SameRequest, Stage
<1> DEFINE u == [t EXCEPT !.pc = "success"]
<1>2. GoodTask(u) /\ SameChoice(t, u) /\ u.acked = t.acked /\ u.pc \in Waits
  BY DEF GoodTask, Task, SameChoice, SameRequest, Waits, Stage
<1> HIDE DEF u
<1>3. Resumed(t, n) = Passed(u, n)
  BY DEF Resumed, u
<1>4. GoodTask(Resumed(t, n)) /\ SameChoice(t, Resumed(t, n)) /\ Resumed(t, n).acked = t.acked
  BY <1>2, <1>3, PassedTask DEF SameChoice, SameRequest
<1> QED BY <1>1, <1>4

-----------------------------------------------------------------------------
(* The type invariant.  Rounds are bounded by the number of attempts, so   *)
(* that the log never needs a round outside Round: each attempt counts the *)
(* rounds of a log that holds only rounds of earlier attempts.             *)

AttInv ==
  /\ att \in Seq(Task)
  /\ Len(att) <= MaxAttempts
  /\ \A a \in DOMAIN att : GoodTask(att[a]) /\ att[a].round < a

LogInv ==
  /\ log \in [Node -> [Key -> LogType]]
  /\ \A n \in Node, k \in Key :
       FullEntries(log[n][k]) /\ \A r \in Known(log[n][k]) : r < Len(att)

RestInv ==
  /\ kv \in [Node -> [DataKey -> Payload \cup {Nothing}]]
  /\ leader \in [Node -> Payload \cup {Nothing}]
  /\ up \in [Node -> BOOLEAN]
  /\ running \subseteq (DOMAIN att) \X {"propose", "accept", "success", "store"} \X Node
  /\ faults \in 0 .. MaxFaults
  /\ votes \subseteq Node \X Key \X Round \X Payload
  /\ ver \in [Node -> [Key -> Round \cup {-1}]]

TypeInv == AttInv /\ LogInv /\ RestInv

\* The inductive invariant is at least as strong as the types.
LEMMA TypeInvImpliesTypeOK == TypeInv => TypeOK
BY DEF TypeInv, TypeOK, AttInv, LogInv, RestInv, LogType, EntryType

\* How a step changes att, when no attempt begins.
AttStep ==
  /\ att' \in Seq(Task)
  /\ Len(att') = Len(att) /\ DOMAIN att' = DOMAIN att
  /\ \A a \in DOMAIN att : GoodTask(att'[a]) /\ SameRequest(att[a], att'[a])

\* How a handler changes log.
LogStep(a, n) ==
  \E lg \in LogType :
    /\ FullEntries(lg)
    /\ Known(lg) = Known(log[n][att[a].key]) \cup {att[a].round}
    /\ log' = [log EXCEPT ![n][att[a].key] = lg]

\* A step of one proposer.
LEMMA UpdateAtt ==
  ASSUME AttInv, NEW a \in DOMAIN att, NEW u, GoodTask(u), SameRequest(att[a], u),
         att' = [att EXCEPT ![a] = u]
  PROVE  AttStep
<1>1. u \in Task /\ DOMAIN att = 1 .. Len(att) /\ Len(att) \in Nat
  BY DEF GoodTask, AttInv
<1>2. att' \in Seq(Task) /\ Len(att') = Len(att) /\ DOMAIN att' = DOMAIN att
  BY <1>1 DEF AttInv
<1>3. ASSUME NEW b \in DOMAIN att PROVE GoodTask(att'[b]) /\ SameRequest(att[b], att'[b])
  BY DEF AttInv, SameRequest
<1> QED BY <1>2, <1>3 DEF AttStep

\* A step that leaves the attempts alone.
LEMMA KeepAtt ==
  ASSUME AttInv, UNCHANGED att
  PROVE  AttStep
BY DEF AttInv, AttStep, SameRequest

\* Steps of the attempts keep their types.
LEMMA AttStepInv ==
  ASSUME AttInv, AttStep
  PROVE  AttInv'
BY DEF AttInv, AttStep, SameRequest

\* A handler's change to one entry keeps the log's types, and keeps its rounds among
\* those of the attempts.
LEMMA LogStepInv ==
  ASSUME AttInv, LogInv, AttStep, NEW a \in DOMAIN att, NEW n \in Node, LogStep(a, n)
  PROVE  LogInv'
<1> DEFINE k == att[a].key
           r == att[a].round
<1>1. PICK lg \in LogType : FullEntries(lg) /\ Known(lg) = Known(log[n][k]) \cup {r}
                            /\ log' = [log EXCEPT ![n][k] = lg]
  BY DEF LogStep
<1>2. k \in Key /\ r \in Round /\ r < Len(att) /\ Len(att') = Len(att) /\ Len(att) \in Nat
  BY DEF AttInv, AttStep, GoodTask, Task, Round
<1> HIDE DEF k, r
<1>3. log' \in [Node -> [Key -> LogType]]
  BY <1>1, <1>2 DEF LogInv
<1>4. ASSUME NEW m \in Node, NEW j \in Key
      PROVE  FullEntries(log'[m][j]) /\ \A s \in Known(log'[m][j]) : s < Len(att)
  <2>1. CASE m = n /\ j = k
    <3>1. log'[m][j] = lg
      BY <1>1, <1>2, <2>1 DEF LogInv
    <3> QED BY <3>1, <1>1, <1>2 DEF LogInv
  <2>2. CASE ~ (m = n /\ j = k)
    <3>1. log'[m][j] = log[m][j]
      BY <1>1, <1>2, <2>2 DEF LogInv
    <3> QED BY <3>1 DEF LogInv
  <2> QED BY <2>1, <2>2
<1> QED BY <1>2, <1>3, <1>4 DEF LogInv, FullEntries

\* A step that leaves the log alone.
LEMMA KeepLog ==
  ASSUME LogInv, AttStep, UNCHANGED log
  PROVE  LogInv'
BY DEF LogInv, AttStep, FullEntries

\* The rounds of a log, counted.
LEMMA CountKnown ==
  ASSUME NEW lg \in LogType, NEW b \in Nat, \A r \in Known(lg) : r < b
  PROVE  NumKnown(lg) \in Nat /\ NumKnown(lg) <= b
<1>1. Known(lg) \in SUBSET (0 .. b - 1)
  BY DEF Known, LogType, Round
<1>2. IsFiniteSet(0 .. b - 1) /\ Cardinality(0 .. b - 1) = b
  BY FS_Interval
<1>3. IsFiniteSet(Known(lg)) /\ Cardinality(Known(lg)) <= b
  BY <1>1, <1>2, FS_Subset
<1>4. Cardinality(Known(lg)) \in Nat
  BY <1>3, FS_CardinalityType
<1> QED BY <1>3, <1>4 DEF NumKnown

\* A new attempt's round is within bounds: a log has no more rounds than there are
\* attempts.
LEMMA BeginInv ==
  ASSUME TypeInv, NEW n \in Node, NEW k \in Key, NEW v \in Payload, NEW by,
         Asked(n, k, v, by), Begin(n, k, v, by)
  PROVE  TypeInv'
<1> DEFINE t == [pc |-> "ping", by |-> by, node |-> n, key |-> k, value |-> v,
                 round |-> NumKnown(log[n][k]), live |-> {}, todo |-> {}, promised |-> 0,
                 accepted_id |-> 0, accepted_value |-> Nothing, acked |-> {}]
<1>1. Len(att) \in Nat /\ DOMAIN att = 1 .. Len(att) /\ Len(att) < MaxAttempts
  BY DEF TypeInv, AttInv, Begin
<1>2. NumKnown(log[n][k]) \in Nat /\ NumKnown(log[n][k]) <= Len(att)
  BY <1>1, CountKnown DEF TypeInv, LogInv
<1>3. t.round \in Round /\ t.round < Len(att) + 1
  BY <1>1, <1>2, ConstantsAssumption DEF Round
<1>4. GoodTask(t)
  BY <1>3 DEF GoodTask, Asked, Task, Stage
<1>5. att' = Append(att, t)
  BY DEF Begin
<1> HIDE DEF t
<1>6. att' \in Seq(Task) /\ Len(att') = Len(att) + 1 /\ DOMAIN att' = 1 .. Len(att) + 1
  BY <1>1, <1>4, <1>5 DEF TypeInv, AttInv, GoodTask
<1>7. \A a \in DOMAIN att' : att'[a] = IF a = Len(att) + 1 THEN t ELSE att[a]
  BY <1>1, <1>5, <1>6 DEF TypeInv, AttInv
<1>8. AttInv'
  <2>1. ASSUME NEW a \in DOMAIN att' PROVE GoodTask(att'[a]) /\ att'[a].round < a
    BY <1>1, <1>3, <1>4, <1>6, <1>7 DEF TypeInv, AttInv
  <2> QED BY <1>1, <1>6, <2>1, ConstantsAssumption DEF AttInv
<1>9. LogInv'
  <2>1. UNCHANGED log
    BY DEF Begin
  <2>2. ASSUME NEW m \in Node, NEW j \in Key, NEW s \in Known(log[m][j])
        PROVE  s < Len(att')
    <3>1. s \in Round /\ s < Len(att)
      BY DEF TypeInv, LogInv, Known, LogType
    <3> QED BY <3>1, <1>1, <1>6 DEF Round
  <2> QED BY <2>1, <2>2 DEF TypeInv, LogInv, FullEntries
<1>10. RestInv'
  BY <1>1, <1>6 DEF TypeInv, RestInv, Begin
<1> QED BY <1>8, <1>9, <1>10 DEF TypeInv

\* What the handlers do to the log, for an attempt that exists.
LEMMA HandlersLogStep ==
  ASSUME TypeInv, NEW a \in DOMAIN att, NEW n \in Node
  PROVE  /\ HandlePropose(a, n) => LogStep(a, n)
         /\ HandleAccept(a, n) => LogStep(a, n)
         /\ LogSuccess(a, n) => LogStep(a, n)
<1> DEFINE k == att[a].key
           r == att[a].round
           c == Chosen(att[a])
<1>1. GoodTask(att[a]) /\ k \in Key /\ r \in Round
  BY DEF TypeInv, AttInv, GoodTask, Task
<1>2. c \in Payload
  BY <1>1, ChosenPayload
<1>3. log[n][k] \in LogType /\ FullEntries(log[n][k]) /\ log[n] \in [Key -> LogType]
      /\ log \in [Node -> [Key -> LogType]]
  BY <1>1 DEF TypeInv, LogInv
<1> DEFINE touched == Touch(log[n][k], r)
           accepted == Accept(log[n][k], r, c)
<1>4. touched \in LogType /\ FullEntries(touched) /\ Known(touched) = Known(log[n][k]) \cup {r}
  BY <1>1, <1>3, TouchLog
<1>5. accepted \in LogType /\ FullEntries(accepted) /\ Known(accepted) = Known(log[n][k]) \cup {r}
  BY <1>1, <1>2, <1>3, AcceptLog
<1>6. HandlePropose(a, n) => log' = [log EXCEPT ![n][k] = touched]
  BY <1>1, <1>3 DEF HandlePropose
<1>7. HandleAccept(a, n) \/ LogSuccess(a, n) => log' = [log EXCEPT ![n][k] = accepted]
  BY <1>1, <1>3 DEF HandleAccept, LogSuccess
<1> HIDE DEF touched, accepted
<1> QED BY <1>4, <1>5, <1>6, <1>7 DEF LogStep

\* What AcceptAnswered and its late and unanswered forms add to votes.
LEMMA HandleAcceptVotes ==
  ASSUME TypeInv, NEW a \in DOMAIN att, NEW n \in Node, HandleAccept(a, n)
  PROVE  votes' \subseteq Node \X Key \X Round \X Payload
<1>1. Chosen(att[a]) \in Payload
  BY ChosenPayload DEF TypeInv, AttInv
<1>2. att[a].key \in Key /\ att[a].round \in Round
  BY DEF TypeInv, AttInv, GoodTask, Task
<1> QED BY <1>1, <1>2 DEF HandleAccept, TypeInv, RestInv

\* What storing a value, or taking a leader, changes.
LEMMA AssignTypes ==
  ASSUME TypeInv, NEW a \in DOMAIN att, NEW n \in Node, Assign(n, att[a])
  PROVE  /\ kv' \in [Node -> [DataKey -> Payload \cup {Nothing}]]
         /\ leader' \in [Node -> Payload \cup {Nothing}]
         /\ ver' \in [Node -> [Key -> Round \cup {-1}]]
<1>1. Chosen(att[a]) \in Payload
  BY ChosenPayload DEF TypeInv, AttInv
<1>2. att[a].key \in Key /\ att[a].round \in Round
  BY DEF TypeInv, AttInv, GoodTask, Task
<1>3. ver' \in [Node -> [Key -> Round \cup {-1}]]
  BY <1>2 DEF Assign, TypeInv, RestInv
<1>4. CASE att[a].key = LeaderKey
  BY <1>1, <1>3, <1>4 DEF Assign, TypeInv, RestInv
<1>5. CASE att[a].key # LeaderKey
  <2>1. att[a].key \in DataKey
    BY <1>2, <1>5 DEF Key
  <2>2. kv' = [kv EXCEPT ![n][att[a].key] = Chosen(att[a])] /\ UNCHANGED leader
    BY <1>5 DEF Assign
  <2> DEFINE k == att[a].key
             c == Chosen(att[a])
  <2>3. kv' = [kv EXCEPT ![n] = [kv[n] EXCEPT ![k] = c]] /\ k \in DataKey /\ c \in Payload
    BY <1>1, <2>1, <2>2 DEF TypeInv, RestInv
  <2> HIDE DEF k, c
  <2>4. kv' \in [Node -> [DataKey -> Payload \cup {Nothing}]]
    <3>1. [kv[n] EXCEPT ![k] = c] \in [DataKey -> Payload \cup {Nothing}]
      BY <2>3 DEF TypeInv, RestInv
    <3> QED BY <2>3, <3>1 DEF TypeInv, RestInv
  <2>5. leader' \in [Node -> Payload \cup {Nothing}]
    BY <2>2 DEF TypeInv, RestInv
  <2> QED BY <1>3, <2>4, <2>5
<1> QED BY <1>4, <1>5

-----------------------------------------------------------------------------
(* Every step either begins an attempt, or keeps all requests and rounds   *)
(* and adds to at most one log the round of an attempt that has begun.     *)

BeginStep ==
  \E n \in Node, k \in Key, v \in Payload, by \in {"set", "elect_leader"} :
    Asked(n, k, v, by) /\ Begin(n, k, v, by)

LogChange == UNCHANGED log \/ \E a \in DOMAIN att, n \in Node : LogStep(a, n)

Effect == AttStep /\ LogChange /\ RestInv'

\* The loop of pings changes one attempt and the count of failed calls.
LEMMA PingEffect ==
  ASSUME TypeInv, NEW a \in DOMAIN att, Ping(a)
  PROVE  Effect
<1> DEFINE t == att[a]
<1>1. GoodTask(t)
  BY DEF TypeInv, AttInv
<1>2. PICK missed \in SUBSET {n \in Node : up[n] /\ <<t.node, n>> \in Lossy} :
        LET live == {n \in Node : up[n]} \ missed IN
        /\ faults + Cardinality(missed) <= MaxFaults
        /\ faults' = faults + Cardinality(missed)
        /\ att' = [att EXCEPT ![a] =
             IF Enough(Cardinality(live), NumReplicas)
               THEN [t EXCEPT !.pc = "propose", !.live = live, !.todo = live]
               ELSE [t EXCEPT !.pc = "fail"]]
  BY DEF Ping
<1> DEFINE live == {n \in Node : up[n]} \ missed
           u == IF Enough(Cardinality(live), NumReplicas)
                  THEN [t EXCEPT !.pc = "propose", !.live = live, !.todo = live]
                  ELSE [t EXCEPT !.pc = "fail"]
<1>3. live \in SUBSET Node
  OBVIOUS
<1> HIDE DEF live
<1>4. /\ GoodTask([t EXCEPT !.pc = "propose", !.live = live, !.todo = live])
      /\ SameRequest(t, [t EXCEPT !.pc = "propose", !.live = live, !.todo = live])
  BY <1>1, <1>3 DEF GoodTask, Task, Stage, SameRequest
<1>5. GoodTask([t EXCEPT !.pc = "fail"]) /\ SameRequest(t, [t EXCEPT !.pc = "fail"])
  BY <1>1 DEF GoodTask, Task, Ended, SameRequest
<1>6. GoodTask(u) /\ SameRequest(t, u)
  BY <1>4, <1>5
<1>7. att' = [att EXCEPT ![a] = u]
  BY <1>2 DEF live
<1> HIDE DEF u
<1>8. AttStep
  BY <1>6, <1>7, UpdateAtt DEF TypeInv
<1>9. Cardinality(missed) \in Nat
  <2>1. IsFiniteSet(Node)
    BY FS_Interval, ConstantsAssumption DEF Node
  <2>2. missed \in SUBSET Node
    BY <1>2
  <2> QED BY <2>1, <2>2, FS_Subset, FS_CardinalityType
<1>10. faults' \in 0 .. MaxFaults
  BY <1>2, <1>9, ConstantsAssumption DEF TypeInv, RestInv
<1>11. RestInv'
  BY <1>8, <1>10 DEF TypeInv, RestInv, Ping, AttStep
<1> QED BY <1>8, <1>11 DEF Effect, LogChange, Ping

\* Returning OK changes the attempt and, for an election, the candidate's leader.
LEMMA ReturnEffect ==
  ASSUME TypeInv, NEW a \in DOMAIN att, Return(a)
  PROVE  Effect
<1> DEFINE u == [att[a] EXCEPT !.pc = "ok"]
<1>1. GoodTask(att[a]) /\ att[a].node \in Node
  BY DEF TypeInv, AttInv, GoodTask, Task
<1>2. GoodTask(u) /\ SameRequest(att[a], u)
  BY <1>1 DEF GoodTask, Task, Ended, SameRequest
<1>3. att' = [att EXCEPT ![a] = u]
  BY DEF Return
<1> HIDE DEF u
<1>4. AttStep
  BY <1>2, <1>3, UpdateAtt DEF TypeInv
<1>5. UNCHANGED <<kv, leader, ver>> \/ Assign(att[a].node, att[a])
  BY DEF Return
<1>6. /\ kv' \in [Node -> [DataKey -> Payload \cup {Nothing}]]
      /\ leader' \in [Node -> Payload \cup {Nothing}]
      /\ ver' \in [Node -> [Key -> Round \cup {-1}]]
  BY <1>1, <1>5, AssignTypes DEF TypeInv, RestInv
<1>7. RestInv'
  BY <1>4, <1>6 DEF TypeInv, RestInv, Return, AttStep
<1> QED BY <1>4, <1>7 DEF Effect, LogChange, Return

\* The calls whose handlers run and answer.
LEMMA AnsweredEffect ==
  ASSUME TypeInv, NEW a \in DOMAIN att, NEW n \in Node
  PROVE  /\ ProposeAnswered(a, n) => Effect
         /\ AcceptAnswered(a, n) => Effect
         /\ SuccessCalled(a, n) => Effect
<1>1. GoodTask(att[a]) /\ AttInv
  BY DEF TypeInv, AttInv
<1>2. ASSUME ProposeAnswered(a, n) PROVE Effect
  <2> DEFINE e == EntryAt(log[n][att[a].key], att[a].round)
  <2>1. att[a].pc = "propose" /\ HandlePropose(a, n)
    BY <1>2 DEF ProposeAnswered, Calls
  <2>2. e \in EntryType /\ (e.a_server_id > 0 => e.accepted_value \in Payload)
    <3>1. att[a].key \in Key /\ att[a].round \in Round
      BY <1>1 DEF GoodTask, Task
    <3>2. log[n][att[a].key] \in LogType /\ FullEntries(log[n][att[a].key])
      BY <3>1 DEF TypeInv, LogInv
    <3>3. NewEntry \in EntryType /\ ~ (NewEntry.a_server_id > 0)
      BY DEF NewEntry, EntryType, Entry, ProposeId
    <3> QED BY <3>1, <3>2, <3>3 DEF EntryAt, LogType, FullEntries, Known
  <2> HIDE DEF e
  <2>3. /\ GoodTask(Passed(att[a], n)) /\ SameRequest(att[a], Passed(att[a], n))
        /\ GoodTask(Promised(att[a], n, e)) /\ SameRequest(att[a], Promised(att[a], n, e))
    BY <1>1, <2>1, <2>2, PassedTask, PromisedTask DEF Waits, SameChoice
  <2>4. \/ att' = [att EXCEPT ![a] = Passed(att[a], n)]
        \/ att' = [att EXCEPT ![a] = Promised(att[a], n, e)]
    BY <1>2 DEF ProposeAnswered, e
  <2>5. AttStep
    BY <1>1, <2>3, <2>4, UpdateAtt
  <2>6. RestInv'
    BY <1>2, <2>5 DEF TypeInv, RestInv, ProposeAnswered, AttStep
  <2> QED BY <2>1, <2>5, <2>6, HandlersLogStep DEF Effect, LogChange
<1>3. ASSUME AcceptAnswered(a, n) PROVE Effect
  <2>1. att[a].pc = "accept" /\ HandleAccept(a, n) /\ att' = [att EXCEPT ![a] = Acked(att[a], n)]
    BY <1>3 DEF AcceptAnswered, Calls
  <2>2. AttStep
    BY <1>1, <2>1, AckedTask, UpdateAtt DEF SameChoice
  <2>3. votes' \subseteq Node \X Key \X Round \X Payload
    BY <2>1, HandleAcceptVotes
  <2>4. RestInv'
    BY <1>3, <2>2, <2>3 DEF TypeInv, RestInv, AcceptAnswered, AttStep
  <2> QED BY <2>1, <2>2, <2>4, HandlersLogStep DEF Effect, LogChange
<1>4. ASSUME SuccessCalled(a, n) PROVE Effect
  <2>1. att[a].pc = "success" /\ LogSuccess(a, n)
    BY <1>4 DEF SuccessCalled, Calls
  <2>2. \/ att' = [att EXCEPT ![a] = Waiting(att[a])]
        \/ att' = [att EXCEPT ![a] = Passed(att[a], n)]
    BY <1>4 DEF SuccessCalled
  <2>3. AttStep
    BY <1>1, <2>1, <2>2, PassedTask, StoringTask, UpdateAtt DEF SameChoice, Waits
  <2>4. running' \subseteq (DOMAIN att) \X {"propose", "accept", "success", "store"} \X Node
    BY <1>4 DEF SuccessCalled, TypeInv, RestInv
  <2>5. RestInv'
    BY <1>4, <2>3, <2>4 DEF TypeInv, RestInv, SuccessCalled, AttStep
  <2> QED BY <2>1, <2>3, <2>5, HandlersLogStep DEF Effect, LogChange
<1> QED BY <1>2, <1>3, <1>4

\* The calls that fail.
LEMMA FailedEffect ==
  ASSUME TypeInv, NEW a \in DOMAIN att, NEW n \in Node
  PROVE  /\ Unreachable(a, n) => Effect
         /\ RequestLost(a, n) => Effect
         /\ ReplyLost(a, n) => Effect
         /\ TimedOut(a, n) => Effect
         /\ StoreTimedOut(a, n) => Effect
<1>1. GoodTask(att[a]) /\ AttInv
  BY DEF TypeInv, AttInv
<1>2. ASSUME NEW pc \in Waits, Calls(a, n, pc), att' = [att EXCEPT ![a] = Passed(@, n)]
      PROVE  AttStep
  <2>1. att[a].pc \in Waits
    BY <1>2 DEF Calls
  <2>2. GoodTask(Passed(att[a], n)) /\ SameRequest(att[a], Passed(att[a], n))
    BY <1>1, <2>1, PassedTask DEF SameChoice
  <2> QED BY <1>1, <1>2, <2>2, UpdateAtt
<1>3. ASSUME NEW mode, Fault(a, n, mode) PROVE faults' \in 0 .. MaxFaults
  BY <1>3, ConstantsAssumption DEF Fault, TypeInv, RestInv
<1>4. ASSUME Unreachable(a, n) PROVE Effect
  <2>1. AttStep
    BY <1>2, <1>4 DEF Unreachable, Waits
  <2>2. RestInv'
    BY <1>4, <2>1 DEF TypeInv, RestInv, Unreachable, AttStep
  <2> QED BY <1>4, <2>1, <2>2 DEF Effect, LogChange, Unreachable
<1>5. ASSUME RequestLost(a, n) PROVE Effect
  <2>1. AttStep
    BY <1>2, <1>5 DEF RequestLost, Waits
  <2>2. faults' \in 0 .. MaxFaults
    BY <1>3, <1>5 DEF RequestLost
  <2>3. RestInv'
    BY <1>5, <2>1, <2>2 DEF TypeInv, RestInv, RequestLost, AttStep
  <2> QED BY <1>5, <2>1, <2>3 DEF Effect, LogChange, RequestLost
<1>6. ASSUME ReplyLost(a, n) PROVE Effect
  <2>1. AttStep
    BY <1>2, <1>6 DEF ReplyLost, Waits
  <2>2. faults' \in 0 .. MaxFaults
    BY <1>3, <1>6 DEF ReplyLost
  <2>3. (HandlePropose(a, n) /\ UNCHANGED votes) \/ HandleAccept(a, n)
    BY <1>6 DEF ReplyLost
  <2>4. votes' \subseteq Node \X Key \X Round \X Payload
    BY <2>3, HandleAcceptVotes DEF TypeInv, RestInv
  <2>5. RestInv'
    BY <1>6, <2>1, <2>2, <2>4 DEF TypeInv, RestInv, ReplyLost, AttStep
  <2> QED BY <2>1, <2>3, <2>5, HandlersLogStep DEF Effect, LogChange
<1>7. ASSUME TimedOut(a, n) PROVE Effect
  <2>1. PICK pc \in Waits : Calls(a, n, pc) /\ running' = running \cup {<<a, pc, n>>}
    BY <1>7 DEF TimedOut, Waits
  <2>2. AttStep
    BY <1>2, <1>7, <2>1 DEF TimedOut
  <2>3. faults' \in 0 .. MaxFaults
    BY <1>3, <1>7 DEF TimedOut
  <2>4. running' \subseteq (DOMAIN att) \X {"propose", "accept", "success", "store"} \X Node
    BY <2>1 DEF TypeInv, RestInv, Waits
  <2>5. RestInv'
    BY <1>7, <2>2, <2>3, <2>4 DEF TypeInv, RestInv, TimedOut, AttStep
  <2> QED BY <1>7, <2>2, <2>5 DEF Effect, LogChange, TimedOut
<1>8. ASSUME StoreTimedOut(a, n) PROVE Effect
  <2>1. att' = [att EXCEPT ![a] = Resumed(att[a], n)]
    BY <1>8 DEF StoreTimedOut
  <2>2. AttStep
    BY <1>1, <2>1, StoringTask, UpdateAtt DEF SameChoice
  <2>3. faults' \in 0 .. MaxFaults
    BY <1>3, <1>8 DEF StoreTimedOut, TypeInv, RestInv
  <2>4. RestInv'
    BY <1>8, <2>2, <2>3 DEF TypeInv, RestInv, StoreTimedOut, AttStep
  <2> QED BY <1>8, <2>2, <2>4 DEF Effect, LogChange, StoreTimedOut
<1> QED BY <1>4, <1>5, <1>6, <1>7, <1>8

\* The handlers that run on their own.
LEMMA HandlerEffect ==
  ASSUME TypeInv, NEW a \in DOMAIN att, NEW n \in Node
  PROVE  /\ Store(a, n) => Effect
         /\ LatePropose(a, n) => Effect
         /\ LateAccept(a, n) => Effect
         /\ LateSuccess(a, n) => Effect
<1>1. GoodTask(att[a]) /\ AttInv
  BY DEF TypeInv, AttInv
<1>2. ASSUME Store(a, n) PROVE Effect
  <2>1. \/ att' = [att EXCEPT ![a] = Resumed(att[a], n)]
        \/ att' = [att EXCEPT ![a] = att[a]]
    BY <1>2 DEF Store
  <2>2. SameRequest(att[a], att[a])
    BY DEF SameRequest
  <2>3. AttStep
    BY <1>1, <2>1, <2>2, StoringTask, UpdateAtt DEF SameChoice
  <2>4. Assign(n, att[a])
    BY <1>2 DEF Store
  <2>5. RestInv'
    BY <1>2, <2>3, <2>4, AssignTypes DEF TypeInv, RestInv, Store, AttStep
  <2> QED BY <1>2, <2>3, <2>5 DEF Effect, LogChange, Store
<1>3. ASSUME LatePropose(a, n) PROVE Effect
  <2>1. AttStep
    BY <1>1, <1>3, KeepAtt DEF LatePropose
  <2>2. RestInv'
    BY <1>3, <2>1 DEF TypeInv, RestInv, LatePropose, AttStep
  <2> QED BY <1>3, <2>1, <2>2, HandlersLogStep DEF Effect, LogChange, LatePropose
<1>4. ASSUME LateAccept(a, n) PROVE Effect
  <2>1. AttStep
    BY <1>1, <1>4, KeepAtt DEF LateAccept
  <2>2. votes' \subseteq Node \X Key \X Round \X Payload
    BY <1>4, HandleAcceptVotes DEF LateAccept
  <2>3. RestInv'
    BY <1>4, <2>1, <2>2 DEF TypeInv, RestInv, LateAccept, AttStep
  <2> QED BY <1>4, <2>1, <2>3, HandlersLogStep DEF Effect, LogChange, LateAccept
<1>5. ASSUME LateSuccess(a, n) PROVE Effect
  <2>1. AttStep
    BY <1>1, <1>5, KeepAtt DEF LateSuccess
  <2>2. running' \subseteq (DOMAIN att) \X {"propose", "accept", "success", "store"} \X Node
    BY <1>5 DEF LateSuccess, TypeInv, RestInv
  <2>3. RestInv'
    BY <1>5, <2>1, <2>2 DEF TypeInv, RestInv, LateSuccess, AttStep
  <2> QED BY <1>5, <2>1, <2>3, HandlersLogStep DEF Effect, LogChange, LateSuccess
<1> QED BY <1>2, <1>3, <1>4, <1>5

\* A crash ends attempts and drops handlers, and touches no log.
LEMMA CrashEffect ==
  ASSUME TypeInv, NEW n \in Node, Crash(n)
  PROVE  Effect
<1> DEFINE dead(a) == [att[a] EXCEPT !.pc = "dead", !.live = {}]
<1>1. AttInv /\ att \in Seq(Task) /\ Len(att) \in Nat /\ DOMAIN att = 1 .. Len(att)
  BY DEF TypeInv, AttInv
<1>2. \A a \in DOMAIN att : att'[a] = dead(a) \/ att'[a] = att[a]
  BY DEF Crash
<1>3. ASSUME NEW a \in DOMAIN att PROVE GoodTask(att'[a]) /\ SameRequest(att[a], att'[a])
  <2>1. GoodTask(att[a])
    BY <1>1 DEF AttInv
  <2>2. GoodTask(dead(a)) /\ SameRequest(att[a], dead(a))
    BY <2>1 DEF GoodTask, Task, Ended, SameRequest
  <2> QED BY <1>2, <2>1, <2>2 DEF SameRequest
<1>4. DOMAIN att' = 1 .. Len(att) /\ att' = [a \in 1 .. Len(att) |-> att'[a]]
  BY <1>1 DEF Crash
<1>5. att' \in [1 .. Len(att) -> Task]
  BY <1>1, <1>3, <1>4 DEF GoodTask
<1>6. att' \in Seq(Task) /\ Len(att') = Len(att)
  BY <1>1, <1>5
<1>7. AttStep
  BY <1>1, <1>3, <1>4, <1>6 DEF AttStep
<1>8. RestInv'
  BY <1>7 DEF TypeInv, RestInv, Crash, AttStep
<1> QED BY <1>7, <1>8 DEF Effect, LogChange, Crash

\* A request or an election begins an attempt, with a value fit for its key.
LEMMA RequestBegins ==
  /\ \A n \in Node, k \in ClientKey, v \in Value : Set(n, k, v) => BeginStep
  /\ \A n \in Electors : Elect(n) => BeginStep
<1>1. ASSUME NEW n \in Node, NEW k \in ClientKey, NEW v \in Value, Set(n, k, v) PROVE BeginStep
  <2>1. k \in Key /\ v \in Payload
    BY ConstantsAssumption DEF Payload
  <2>2. Begin(n, k, v, "set") /\ Asked(n, k, v, "set")
    BY <1>1 DEF Set, Asked
  <2> QED BY <2>1, <2>2 DEF BeginStep
<1>2. ASSUME NEW n \in Electors, Elect(n) PROVE BeginStep
  <2>1. n \in Node /\ LeaderKey \in Key /\ n \in Payload
    BY ConstantsAssumption DEF Key, Payload
  <2>2. Begin(n, LeaderKey, n, "elect_leader") /\ Asked(n, LeaderKey, n, "elect_leader")
    BY <1>2 DEF Elect, Asked
  <2> QED BY <2>1, <2>2 DEF BeginStep
<1> QED BY <1>1, <1>2

\* A step begins an attempt or has the effect the lemmas above describe.
LEMMA StepEffect ==
  ASSUME TypeInv, [Next]_vars
  PROVE  BeginStep \/ Effect
<1>1. ASSUME UNCHANGED vars PROVE Effect
  <2>1. AttStep
    BY <1>1, KeepAtt DEF TypeInv, vars
  <2>2. RestInv'
    BY <1>1 DEF TypeInv, RestInv, vars
  <2> QED BY <1>1, <2>1, <2>2 DEF Effect, LogChange, vars
<1>2. CASE \E n \in Node, k \in ClientKey, v \in Value : Set(n, k, v)
  BY <1>2, RequestBegins
<1>3. CASE \E n \in Electors : Elect(n)
  BY <1>3, RequestBegins
<1>4. CASE \E a \in DOMAIN att : Ping(a) \/ Return(a)
  BY <1>4, PingEffect, ReturnEffect
<1>5. CASE \E a \in DOMAIN att, n \in Node : ProposerStep(a, n) \/ HandlerStep(a, n)
  BY <1>5, AnsweredEffect, FailedEffect, HandlerEffect DEF ProposerStep, HandlerStep
<1>6. CASE \E n \in Crashable : Crash(n)
  BY <1>6, CrashEffect, ConstantsAssumption
<1>7. CASE Idle
  BY <1>1, <1>7 DEF Idle
<1> QED BY <1>1, <1>2, <1>3, <1>4, <1>5, <1>6, <1>7 DEF Next

\* Such an effect keeps the types.
LEMMA EffectInv ==
  ASSUME TypeInv, Effect
  PROVE  TypeInv'
<1>1. AttInv'
  BY AttStepInv DEF TypeInv, Effect
<1>2. LogInv'
  BY LogStepInv, KeepLog DEF TypeInv, Effect, LogChange
<1> QED BY <1>1, <1>2 DEF TypeInv, Effect

\* The replicas begin with empty logs.
LEMMA InitTypes == Init => TypeInv
<1> SUFFICES ASSUME Init PROVE TypeInv
  OBVIOUS
<1>1. EmptyLog \in LogType /\ Known(EmptyLog) = {}
  BY DEF EmptyLog, LogType, Known
<1>2. LogInv
  BY <1>1 DEF Init, LogInv, FullEntries
<1>3. AttInv
  BY ConstantsAssumption DEF Init, AttInv
<1>4. leader \in [Node -> Payload \cup {Nothing}]
  BY DEF Init, Payload
<1>5. RestInv
  BY <1>4, ConstantsAssumption DEF Init, RestInv
<1> QED BY <1>2, <1>3, <1>5 DEF TypeInv

\* The inductive form of the types: a log holds only rounds of attempts that have begun.
THEOREM TypeInvariant == Spec => []TypeInv
<1>1. TypeInv /\ [Next]_vars => TypeInv'
  BY StepEffect, BeginInv, EffectInv DEF BeginStep
<1> QED BY <1>1, InitTypes, PTL DEF Spec

\* Every variable keeps its type, whatever the number of replicas and attempts; in
\* particular no log ever needs a round beyond the number of attempts begun.
THEOREM TypeCorrect == Spec => []TypeOK
BY TypeInvariant, TypeInvImpliesTypeOK, PTL

-----------------------------------------------------------------------------
(* NoRoundSkipped is inductive, given the types.                           *)

Rounds(k) == {att[a].round : a \in {b \in DOMAIN att : att[b].key = k}}

\* A proposer that counts c rounds in its log cannot be past a round nobody knows: all
\* the rounds it counts would be below that round, and there are too few of those.
LEMMA CountIsNotPastAHole ==
  ASSUME NEW S, NEW K \in SUBSET S, S \subseteq Nat,
         \A r \in S : 0 .. r - 1 \subseteq S
  PROVE  0 .. Cardinality(K) - 1 \subseteq S \/ ~ IsFiniteSet(K)
<1> SUFFICES ASSUME IsFiniteSet(K), NEW h \in 0 .. Cardinality(K) - 1, h \notin S
             PROVE  FALSE
  OBVIOUS
<1>1. Cardinality(K) \in Nat
  BY FS_CardinalityType
<1>2. h \in Nat /\ h < Cardinality(K)
  BY <1>1
<1>3. K \in SUBSET (0 .. h - 1)
  <2> SUFFICES ASSUME NEW r \in K PROVE r \in 0 .. h - 1
    OBVIOUS
  <2>1. r \in Nat /\ r \in S /\ r # h
    OBVIOUS
  <2>2. ~ (h < r)
    BY <1>2, <2>1
  <2> QED BY <1>2, <2>1, <2>2
<1> DEFINE below == 0 .. h - 1
<1>4. IsFiniteSet(below) /\ Cardinality(below) = h
  BY <1>2, FS_Interval
<1>5. K \in SUBSET below
  BY <1>3
<1> HIDE DEF below
<1>6. Cardinality(K) <= Cardinality(below)
  BY <1>4, <1>5, FS_Subset
<1> QED BY <1>1, <1>2, <1>4, <1>6

\* A log without holes is counted to the round after its last.
LEMMA CountIsNext ==
  ASSUME NEW K, K \subseteq Nat, IsFiniteSet(K), \A s \in K : 0 .. s \subseteq K
  PROVE  /\ Cardinality(K) \in Nat /\ 0 .. Cardinality(K) - 1 \subseteq K
         /\ \A s \in K : s < Cardinality(K)
<1>1. Cardinality(K) \in Nat
  BY FS_CardinalityType
<1>2. 0 .. Cardinality(K) - 1 \subseteq K
  <2>1. \A s \in K : 0 .. s - 1 \subseteq K
    OBVIOUS
  <2>2. K \in SUBSET K
    OBVIOUS
  <2> QED BY <2>1, <2>2, CountIsNotPastAHole
<1>3. ASSUME NEW s \in K PROVE s < Cardinality(K)
  <2>1. s \in Nat /\ 0 .. s \in SUBSET K
    OBVIOUS
  <2>2. Cardinality(0 .. s) = s + 1
    BY <2>1, FS_Interval
  <2>3. Cardinality(0 .. s) <= Cardinality(K)
    BY <2>1, FS_Subset
  <2> QED BY <1>1, <2>1, <2>2, <2>3
<1> QED BY <1>1, <1>2, <1>3

\* A new attempt takes a round below which all rounds are known.
LEMMA BeginSkipsNoRound ==
  ASSUME TypeInv, NoRoundSkipped, NEW n \in Node, NEW k \in Key, NEW v \in Payload,
         NEW by, Begin(n, k, v, by), TypeInv'
  PROVE  NoRoundSkipped'
<1> DEFINE r0 == NumKnown(log[n][k])
<1>1. \A j \in Key : Seen(j)' = Seen(j)
  BY DEF Begin, Seen
<1>2. \A j \in Key : Seen(j) \subseteq Nat
  <2>1. \A m \in Node, j \in Key : Known(log[m][j]) \subseteq Round
    BY DEF Known, TypeInv, LogInv, LogType
  <2>2. Round \subseteq Nat
    BY DEF Round
  <2> QED BY <2>1, <2>2 DEF Seen
<1>3. 0 .. r0 - 1 \subseteq Seen(k)
  <2>1. Known(log[n][k]) \in SUBSET Seen(k)
    BY DEF Seen
  <2>2. IsFiniteSet(Known(log[n][k]))
    <3>1. Known(log[n][k]) \in SUBSET Round
      BY DEF Known, TypeInv, LogInv, LogType
    <3>2. IsFiniteSet(Round)
      BY FS_Interval, ConstantsAssumption DEF Round
    <3> QED BY <3>1, <3>2, FS_Subset
  <2>3. \A r \in Seen(k) : 0 .. r - 1 \subseteq Seen(k)
    BY DEF NoRoundSkipped
  <2> QED BY <1>2, <2>1, <2>2, <2>3, CountIsNotPastAHole DEF NumKnown
<1>4. ASSUME NEW a \in DOMAIN att'
      PROVE  \/ a \in DOMAIN att /\ att'[a] = att[a]
             \/ att'[a].key = k /\ att'[a].round = r0
  <2>1. Len(att) \in Nat /\ DOMAIN att = 1 .. Len(att) /\ att \in Seq(Task)
    BY DEF TypeInv, AttInv
  <2> DEFINE t == [pc |-> "ping", by |-> by, node |-> n, key |-> k, value |-> v,
                   round |-> NumKnown(log[n][k]), live |-> {}, todo |-> {}, promised |-> 0,
                   accepted_id |-> 0, accepted_value |-> Nothing, acked |-> {}]
  <2>2. att' = Append(att, t) /\ t.key = k /\ t.round = r0
    BY DEF Begin
  <2> HIDE DEF t
  <2>3. a \in 1 .. Len(att) + 1
    BY <1>4, <2>1, <2>2
  <2>4. CASE a = Len(att) + 1
    BY <2>1, <2>2, <2>4
  <2>5. CASE a # Len(att) + 1
    BY <2>1, <2>2, <2>3, <2>5
  <2> QED BY <2>4, <2>5
<1> HIDE DEF r0
<1> SUFFICES ASSUME NEW j \in Key, NEW r \in Seen(j)' \cup Rounds(j)'
             PROVE  0 .. r - 1 \subseteq Seen(j)'
  BY DEF NoRoundSkipped, Rounds
<1>5. CASE r \in Seen(j)'
  BY <1>1, <1>5 DEF NoRoundSkipped
<1>6. CASE r \in Rounds(j)'
  <2>1. PICK a \in DOMAIN att' : att'[a].key = j /\ att'[a].round = r
    BY <1>6 DEF Rounds
  <2>2. CASE a \in DOMAIN att /\ att'[a] = att[a]
    BY <1>1, <2>1, <2>2 DEF NoRoundSkipped
  <2>3. CASE att'[a].key = k /\ att'[a].round = r0
    BY <1>1, <1>3, <2>1, <2>3
  <2> QED BY <1>4, <2>2, <2>3
<1> QED BY <1>5, <1>6

\* Every other step adds to the logs only rounds that attempts have.
LEMMA EffectSkipsNoRound ==
  ASSUME TypeInv, NoRoundSkipped, Effect
  PROVE  NoRoundSkipped'
<1>1. \A j \in Key : Rounds(j)' = Rounds(j)
  BY DEF Effect, AttStep, SameRequest, Rounds
<1>2. ASSUME NEW j \in Key
      PROVE  Seen(j)' = Seen(j) \/ \E r \in Rounds(j) : Seen(j)' = Seen(j) \cup {r}
  <2>1. CASE UNCHANGED log
    BY <2>1 DEF Seen
  <2>2. CASE \E a \in DOMAIN att, n \in Node : LogStep(a, n)
    <3>1. PICK a \in DOMAIN att, n \in Node : LogStep(a, n)
      BY <2>2
    <3> DEFINE k == att[a].key
               r == att[a].round
    <3>2. PICK lg \in LogType : Known(lg) = Known(log[n][k]) \cup {r}
                                /\ log' = [log EXCEPT ![n][k] = lg]
      BY <3>1 DEF LogStep
    <3>3. k \in Key /\ r \in Rounds(k)
      BY DEF TypeInv, AttInv, GoodTask, Task, Rounds
    <3> HIDE DEF k, r
    <3>4. CASE j = k
      <4>1. \A m \in Node : Known(log'[m][j]) = Known(log[m][j]) \cup (IF m = n THEN {r} ELSE {})
        BY <3>2, <3>3, <3>4 DEF TypeInv, LogInv
      <4>2. Seen(j)' = Seen(j) \cup {r}
        BY <4>1 DEF Seen
      <4> QED BY <3>3, <3>4, <4>2
    <3>5. CASE j # k
      <4>1. \A m \in Node : log'[m][j] = log[m][j]
        BY <3>2, <3>3, <3>5 DEF TypeInv, LogInv
      <4> QED BY <4>1 DEF Seen
    <3> QED BY <3>4, <3>5
  <2> QED BY <2>1, <2>2 DEF Effect, LogChange
<1> SUFFICES ASSUME NEW j \in Key, NEW r \in Seen(j)' \cup Rounds(j)'
             PROVE  0 .. r - 1 \subseteq Seen(j)'
  BY DEF NoRoundSkipped, Rounds
<1>3. r \in Seen(j) \cup Rounds(j) /\ Seen(j) \subseteq Seen(j)'
  BY <1>1, <1>2
<1>4. 0 .. r - 1 \subseteq Seen(j)
  BY <1>3 DEF NoRoundSkipped, Rounds
<1> QED BY <1>3, <1>4

\* Whatever calls are lost or late, whoever proposes and crashes, and however many at
\* a time, the rounds of a key are used without gaps.
THEOREM RoundsHaveNoGaps == Spec => []NoRoundSkipped
<1>1. Init => NoRoundSkipped
  <2> SUFFICES ASSUME Init PROVE NoRoundSkipped
    OBVIOUS
  <2>1. Known(EmptyLog) = {}
    BY DEF EmptyLog, Known
  <2>2. \A k \in Key : Seen(k) = {} /\ Rounds(k) = {}
    BY <2>1 DEF Init, Seen, Rounds
  <2> QED BY <2>2 DEF NoRoundSkipped, Rounds
<1>2. TypeInv /\ NoRoundSkipped /\ [Next]_vars => NoRoundSkipped'
  BY StepEffect, BeginInv, BeginSkipsNoRound, EffectSkipsNoRound DEF BeginStep
<1>3. Spec => []TypeInv
  BY TypeInvariant
<1> QED BY <1>1, <1>2, <1>3, PTL DEF Spec
===========================================================================
