-------------------------- MODULE OneProposerProofs --------------------------
(***************************************************************************)
(* Proofs about Consensus when a key has one proposer at a time and no     *)
(* handler outlives its call: what a replica has stored does not go back.  *)
(***************************************************************************)
EXTENDS DecisionProofs

-----------------------------------------------------------------------------
(* Where an attempt is when a call is over.                                *)

\* The call to n of an attempt t in phase pc is over: the loop goes on with the replicas
\* that are left, or a later phase begins.
CallOver(t, pc, u, n) ==
  /\ GoodTask(u) /\ SameRequest(t, u)
  /\ \/ t.todo \ {n} # {} /\ u.todo = t.todo \ {n} /\ u.pc = pc
     \/ /\ t.todo \ {n} = {}
        /\ \/ pc = "propose" /\ u.pc \in {"accept", "fail"}
           \/ pc = "accept" /\ u.pc = "success" /\ u.todo = Node
           \/ pc = "accept" /\ u.pc = "fail"
           \/ pc = "success" /\ u.pc = "return"

\* The test after a loop, once the call to n is crossed off.
LEMMA AdvanceOver ==
  ASSUME NEW t, GoodTask(t), NEW n, NEW w, GoodTask(w), SameRequest(t, w), w.pc \in Waits,
         w.todo = t.todo \ {n}
  PROVE  CallOver(t, w.pc, Advance(w), n)
<1> w \in Task /\ t \in Task
  BY DEF GoodTask
<1>1. GoodTask(Advance(w)) /\ SameRequest(t, Advance(w))
  BY AdvanceTask DEF SameChoice, SameRequest
<1>2. CASE w.todo # {}
  <2>1. Advance(w) = w
    BY <1>2 DEF Advance
  <2> QED BY <1>1, <1>2, <2>1 DEF CallOver
<1>3. CASE w.todo = {}
  <2>1. CASE w.pc = "propose"
    <3>1. Advance(w).pc \in {"accept", "fail"}
      BY <1>3, <2>1 DEF Advance, Task
    <3> QED BY <1>1, <1>3, <2>1, <3>1 DEF CallOver
  <2>2. CASE w.pc = "accept"
    <3>1. (Advance(w).pc = "success" /\ Advance(w).todo = Node) \/ Advance(w).pc = "fail"
      BY <1>3, <2>2 DEF Advance, Task
    <3> QED BY <1>1, <1>3, <2>2, <3>1 DEF CallOver
  <2>3. CASE w.pc = "success"
    <3>1. Advance(w).pc = "return"
      BY <1>3, <2>3 DEF Advance, Task
    <3> QED BY <1>1, <1>3, <2>3, <3>1 DEF CallOver
  <2> QED BY <2>1, <2>2, <2>3 DEF Waits
<1> QED BY <1>2, <1>3

\* A call that failed or was refused, an answer to accept, the end of a store.
LEMMA CallsOver ==
  ASSUME NEW t, GoodTask(t), NEW n \in Node
  PROVE  /\ t.pc \in Waits => CallOver(t, t.pc, Passed(t, n), n)
         /\ t.pc = "accept" => CallOver(t, "accept", Acked(t, n), n)
         /\ CallOver(t, "success", Resumed(t, n), n)
<1>1. ASSUME NEW s, GoodTask(s), s.pc \in Waits PROVE CallOver(s, s.pc, Passed(s, n), n)
  <2> DEFINE w == [s EXCEPT !.todo = @ \ {n}]
  <2>1. GoodTask(w) /\ SameRequest(s, w) /\ w.pc = s.pc /\ w.todo = s.todo \ {n}
    BY <1>1 DEF GoodTask, Task, SameRequest
  <2>2. Passed(s, n) = Advance(w)
    BY DEF Passed
  <2> HIDE DEF w
  <2> QED BY <1>1, <2>1, <2>2, AdvanceOver
<1>2. ASSUME t.pc = "accept" PROVE CallOver(t, "accept", Acked(t, n), n)
  <2> DEFINE w == [t EXCEPT !.todo = @ \ {n}, !.acked = @ \cup {n}]
  <2>1. GoodTask(w) /\ SameRequest(t, w) /\ w.pc = "accept" /\ w.todo = t.todo \ {n}
    BY <1>2 DEF GoodTask, Task, SameRequest
  <2>2. Acked(t, n) = Advance(w)
    BY DEF Acked
  <2> HIDE DEF w
  <2> QED BY <1>2, <2>1, <2>2, AdvanceOver DEF Waits
<1>3. CallOver(t, "success", Resumed(t, n), n)
  <2> DEFINE s == [t EXCEPT !.pc = "success"]
  <2>1. GoodTask(s) /\ SameRequest(t, s) /\ s.pc = "success" /\ s.todo = t.todo
    BY DEF GoodTask, Task, SameRequest, Stage
  <2>2. Resumed(t, n) = Passed(s, n)
    BY DEF Resumed
  <2> HIDE DEF s
  <2>3. CallOver(s, "success", Passed(s, n), n)
    BY <1>1, <2>1 DEF Waits
  <2> QED BY <2>1, <2>2, <2>3 DEF CallOver, SameRequest
<1> QED BY <1>1, <1>2, <1>3

\* An answer to propose.
LEMMA PromisedOver ==
  ASSUME NEW t, GoodTask(t), t.pc = "propose", NEW n, NEW e \in EntryType,
         e.a_server_id > 0 => e.accepted_value \in Payload
  PROVE  CallOver(t, "propose", Promised(t, n, e), n)
<1> DEFINE w == [t EXCEPT
    !.todo = @ \ {n},
    !.promised = @ + 1,
    !.accepted_value = IF e.a_server_id > t.accepted_id THEN e.accepted_value ELSE @,
    !.accepted_id = IF e.a_server_id > @ THEN e.a_server_id ELSE @]
<1>1. w.pc = "propose" /\ w.todo = t.todo \ {n}
  BY DEF GoodTask, Task
<1>2. GoodTask(Promised(t, n, e)) /\ SameRequest(t, Promised(t, n, e))
  BY PromisedTask
<1>3. Promised(t, n, e) = Advance(w)
  BY DEF Promised
<1> HIDE DEF w
<1>4. CASE w.todo # {}
  <2>1. Advance(w) = w
    BY <1>4 DEF Advance
  <2> QED BY <1>1, <1>2, <1>3, <1>4, <2>1 DEF CallOver
<1>5. CASE w.todo = {}
  <2>1. Advance(w).pc \in {"accept", "fail"}
    <3>1. Advance(w) = [w EXCEPT !.pc = "accept", !.todo = w.live] \/ Advance(w) = [w EXCEPT !.pc = "fail", !.live = {}]
      BY <1>1, <1>5 DEF Advance
    <3>2. "pc" \in DOMAIN w
      BY DEF w, GoodTask, Task
    <3> QED BY <3>1, <3>2
  <2> QED BY <1>1, <1>2, <1>3, <1>5, <2>1 DEF CallOver
<1> QED BY <1>4, <1>5

-----------------------------------------------------------------------------
(* One step of one attempt.                                                *)

\* The logs learn rounds and forget none.
LogGrows == \A n \in Node, k \in Key : Known(log[n][k]) \subseteq Known(log'[n][k])

\* What a handler writes to a log.
LEMMA LogStepKnown ==
  ASSUME TypeInv, NEW a \in DOMAIN att, NEW n \in Node, LogStep(a, n)
  PROVE  /\ Known(log'[n][att[a].key]) = Known(log[n][att[a].key]) \cup {att[a].round}
         /\ \A m \in Node, k \in Key : ~ (m = n /\ k = att[a].key) => log'[m][k] = log[m][k]
         /\ LogGrows
<1> DEFINE j == att[a].key
<1>1. PICK lg \in LogType : /\ Known(lg) = Known(log[n][j]) \cup {att[a].round}
                            /\ log' = [log EXCEPT ![n][j] = lg]
  BY DEF LogStep
<1>2. j \in Key
  BY DEF TypeInv, AttInv, GoodTask, Task
<1> HIDE DEF j
<1>3. \A m \in Node, k \in Key : log'[m][k] = IF m = n /\ k = j THEN lg ELSE log[m][k]
  BY <1>1, <1>2 DEF TypeInv, LogInv
<1>4. LogGrows
  BY <1>1, <1>3 DEF LogGrows
<1> QED BY <1>1, <1>2, <1>3, <1>4 DEF j

\* No step takes a round from a log.
LEMMA EffectLogGrows ==
  ASSUME TypeInv, [Next]_vars
  PROVE  LogGrows
<1>1. CASE BeginStep
  BY <1>1 DEF BeginStep, Begin, LogGrows
<1>2. CASE Effect
  <2>1. CASE UNCHANGED log
    BY <2>1 DEF LogGrows
  <2>2. CASE \E a \in DOMAIN att, n \in Node : LogStep(a, n)
    BY <2>2, LogStepKnown
  <2> QED BY <1>2, <2>1, <2>2 DEF Effect, LogChange
<1> QED BY <1>1, <1>2, StepEffect

-----------------------------------------------------------------------------
(* One proposer at a time.                                                 *)

\* The replicas that can propose: a candidate, and whoever can become the leader, by its
\* flag, as a candidate or because a client writes it.
Proposers ==
  Flagged \cup Electors \cup {n \in Node : LeaderKey \in ClientKey /\ n \in Value}

\* A key has one proposer at a time, handlers end with their calls, proposers do not
\* crash, and a replica's calls to itself do not fail.
OneProposer ==
  /\ MaxRunning <= 1
  /\ "late" \notin FaultModes
  /\ Crashable \cap Proposers = {}
  /\ \A n \in Node : <<n, n>> \notin Lossy

\* A proposer has its own round in its own log once it has proposed to itself.
OwnRound(t) ==
  \/ t.pc = "propose" /\ t.node \in t.todo
  \/ t.round \in Known(log[t.node][t.key])

\* An attempt that is under way is the last for its key.
AttAlone(a) ==
  /\ att[a].node \in Proposers
  /\ Active(a) => \A b \in DOMAIN att : att[b].key = att[a].key => b <= a
  /\ Active(a) /\ att[a].pc # "ping" => OwnRound(att[a])

\* Between success's test and its store no later round comes to the log.
StoreAlone(a, n) ==
  /\ att[a].pc = "storing" /\ IsNext(att[a], n)
  /\ att[a].round \in Known(log[n][att[a].key])
  /\ ~ Outdated(log[n][att[a].key], att[a].round)

VerKnown == \A n \in Node, k \in Key : ver[n][k] \in Known(log[n][k]) \cup {-1}

OneInv ==
  /\ OneProposer
  /\ \A n \in Proposers : up[n]
  /\ \A a \in DOMAIN att : AttAlone(a)
  /\ \A c \in running : c[2] = "store" /\ StoreAlone(c[1], c[3])
  /\ VerKnown

\* Two attempts under way are for two keys.
LEMMA ActiveAlone ==
  ASSUME TypeInv, OneInv, NEW a \in DOMAIN att, NEW b \in DOMAIN att, Active(a), Active(b),
         att[a].key = att[b].key
  PROVE  a = b
<1>1. a \in Nat /\ b \in Nat
  BY DEF TypeInv, AttInv
<1>2. a <= b /\ b <= a
  BY DEF OneInv, AttAlone
<1> QED BY <1>1, <1>2

\* How one attempt may move, its handlers aside: the attempt it becomes is under way only
\* if it was, and has proposed to itself if it is past that call.
OneMove(a) ==
  \E u : /\ att' = [att EXCEPT ![a] = u]
         /\ SameRequest(att[a], u)
         /\ u.pc \in Stage => att[a].pc \in Stage
         /\ u.pc \in Stage /\ u.pc # "ping" =>
              \/ u.pc = "propose" /\ u.node \in u.todo
              \/ u.round \in Known(log'[u.node][u.key])

\* Such a move leaves the key with one proposer.
LEMMA MoveAlone ==
  ASSUME TypeInv, OneInv, LogGrows, NEW a \in DOMAIN att, OneMove(a)
  PROVE  \A b \in DOMAIN att' : AttAlone(b)'
<1>1. PICK u : /\ att' = [att EXCEPT ![a] = u]
               /\ SameRequest(att[a], u)
               /\ u.pc \in Stage => att[a].pc \in Stage
               /\ u.pc \in Stage /\ u.pc # "ping" =>
                    \/ u.pc = "propose" /\ u.node \in u.todo
                    \/ u.round \in Known(log'[u.node][u.key])
  BY DEF OneMove
<1>2. DOMAIN att' = DOMAIN att
  BY <1>1
<1>3. \A b \in DOMAIN att : att'[b] = IF b = a THEN u ELSE att[b]
  BY <1>1 DEF TypeInv, AttInv
<1>4. \A b \in DOMAIN att : SameRequest(att[b], att'[b]) /\ (Active(b)' => Active(b))
  BY <1>1, <1>3 DEF SameRequest, Active
<1> SUFFICES ASSUME NEW b \in DOMAIN att PROVE AttAlone(b)'
  BY <1>2
<1>5. AttAlone(b) /\ att[b].node \in Node /\ att[b].key \in Key
  BY DEF OneInv, TypeInv, AttInv, GoodTask, Task
<1>6. Active(b)' => \A c \in DOMAIN att' : att'[c].key = att'[b].key => c <= b
  BY <1>2, <1>4, <1>5 DEF AttAlone, SameRequest
<1>7. Active(b)' /\ att'[b].pc # "ping" => OwnRound(att[b])'
  <2>1. CASE b = a
    BY <1>1, <1>3, <2>1 DEF OwnRound, Active
  <2>2. CASE b # a
    <3>1. att'[b] = att[b]
      BY <1>3, <2>2
    <3> QED BY <1>5, <3>1 DEF AttAlone, OwnRound, Active, LogGrows
  <2> QED BY <2>1, <2>2
<1> QED BY <1>4, <1>5, <1>6, <1>7 DEF AttAlone, SameRequest

\* A step of one attempt, or of one of its handlers, leaves the stores of other attempts
\* as they were between their test and their store.
LEMMA StoresAlone ==
  ASSUME TypeInv, OneInv, NEW a \in DOMAIN att, att[a].pc \in Stage \ {"storing"}, NEW u,
         att' = [att EXCEPT ![a] = u],
         UNCHANGED log \/ \E n \in Node : LogStep(a, n)
  PROVE  \A c \in running : c[2] = "store" /\ StoreAlone(c[1], c[3])'
<1> SUFFICES ASSUME NEW c \in running PROVE c[2] = "store" /\ StoreAlone(c[1], c[3])'
  OBVIOUS
<1>1. PICK b \in DOMAIN att, n \in Node : c[1] = b /\ c[3] = n
  BY DEF TypeInv, RestInv
<1>2. c[2] = "store" /\ StoreAlone(b, n)
  BY <1>1 DEF OneInv
<1>3. b # a /\ Active(a) /\ Active(b)
  BY <1>2 DEF StoreAlone, Active, Stage
<1>4. att'[b] = att[b] /\ att[b].key # att[a].key /\ att[b].key \in Key
  BY <1>3, ActiveAlone DEF TypeInv, AttInv, GoodTask, Task
<1>5. log'[n][att[b].key] = log[n][att[b].key]
  BY <1>4, LogStepKnown
<1> QED BY <1>1, <1>2, <1>4, <1>5 DEF StoreAlone

-----------------------------------------------------------------------------
(* Action by action.                                                       *)

\* The end of a call: of one to another replica, or of the proposer's to itself, which
\* wrote the round to its log.
LEMMA CallMoves ==
  ASSUME TypeInv, OneInv, LogGrows, NEW a \in DOMAIN att, NEW n \in Node, NEW pc \in Waits,
         att[a].pc = pc \/ (att[a].pc = "storing" /\ pc = "success"),
         NEW u, att' = [att EXCEPT ![a] = u], CallOver(att[a], pc, u, n),
         n # att[a].node \/ att[a].round \in Known(log'[att[a].node][att[a].key])
  PROVE  OneMove(a)
<1> DEFINE t == att[a]
<1>1. t.node \in Node /\ t.key \in Key /\ SameRequest(t, u)
  BY DEF TypeInv, AttInv, GoodTask, Task, CallOver
<1>2. t.pc \in Stage /\ t.pc # "ping"
  BY DEF Waits, Stage
<1>3. OwnRound(t)
  BY <1>2 DEF OneInv, AttAlone, Active
<1>4. t.round \in Known(log[t.node][t.key]) => t.round \in Known(log'[t.node][t.key])
  BY <1>1 DEF LogGrows
<1>5. \/ u.pc \notin Stage
      \/ u.pc = "propose" /\ t.node \in u.todo
      \/ t.round \in Known(log'[t.node][t.key])
  BY <1>3, <1>4 DEF CallOver, OwnRound, Waits, Stage
<1> HIDE DEF t
<1>6. \/ u.pc \notin Stage
      \/ u.pc = "propose" /\ u.node \in u.todo
      \/ u.round \in Known(log'[u.node][u.key])
  BY <1>1, <1>5 DEF SameRequest
<1> QED BY <1>1, <1>2, <1>6 DEF OneMove, t

\* What is left to show of a step that stores nothing.
LEMMA QuietStep ==
  ASSUME TypeInv, OneInv, LogGrows, UNCHANGED <<ver, up>>,
         \A a \in DOMAIN att' : AttAlone(a)',
         \A c \in running' : c[2] = "store" /\ StoreAlone(c[1], c[3])'
  PROVE  OneInv'
BY DEF OneInv, VerKnown, LogGrows, OneProposer

\* A new attempt is the last for its key, since none is under way.
LEMMA BeginAlone ==
  ASSUME TypeInv, OneInv, NEW n \in Proposers, NEW k \in Key, NEW v, NEW by, Begin(n, k, v, by)
  PROVE  OneInv'
<1> DEFINE t == [pc |-> "ping", by |-> by, node |-> n, key |-> k, value |-> v,
                 round |-> NumKnown(log[n][k]), live |-> {}, todo |-> {}, promised |-> 0,
                 accepted_id |-> 0, accepted_value |-> Nothing, acked |-> {}]
           A == {a \in DOMAIN att : Active(a) /\ att[a].key = k}
<1>1. att' = Append(att, t) /\ UNCHANGED <<log, up, running, ver>> /\ Cardinality(A) < MaxRunning
  BY DEF Begin
<1>2. t.node = n /\ t.key = k /\ t.value = v /\ t.pc = "ping"
  OBVIOUS
<1> HIDE DEF t
<1>3. A = {}
  <2>1. IsFiniteSet(DOMAIN att)
    BY FS_Interval DEF TypeInv, AttInv
  <2>2. IsFiniteSet(A)
    BY <2>1, FS_Subset
  <2>3. Cardinality(A) \in Nat
    BY <2>2, FS_CardinalityType
  <2>4. MaxRunning <= 1 /\ MaxRunning \in Nat
    BY ConstantsAssumption DEF OneInv, OneProposer
  <2>5. Cardinality(A) = 0
    BY <1>1, <2>3, <2>4
  <2> QED BY <2>2, <2>5, FS_EmptySet
<1>4. Len(att) \in Nat /\ DOMAIN att = 1 .. Len(att) /\ DOMAIN att' = 1 .. Len(att) + 1
      /\ att'[Len(att) + 1] = t /\ \A a \in DOMAIN att : att'[a] = att[a]
  BY <1>1 DEF TypeInv, AttInv
<1>5. ASSUME NEW a \in DOMAIN att' PROVE AttAlone(a)'
  <2>1. CASE a = Len(att) + 1
    BY <1>1, <1>2, <1>4, <2>1 DEF AttAlone, Active
  <2>2. CASE a # Len(att) + 1
    <3>1. a \in DOMAIN att /\ att'[a] = att[a] /\ AttAlone(a)
      BY <1>4, <2>2 DEF OneInv
    <3>2. Active(a)' => \A b \in DOMAIN att' : att'[b].key = att'[a].key => b <= a
      <4>1. Active(a)' => att[a].key # k
        BY <1>3, <3>1 DEF Active
      <4>2. Active(a)' => \A b \in DOMAIN att : att[b].key = att[a].key => b <= a
        BY <3>1 DEF AttAlone, Active
      <4> QED BY <1>2, <1>4, <3>1, <4>1, <4>2
    <3> QED BY <1>1, <3>1, <3>2 DEF AttAlone, Active, OwnRound
  <2> QED BY <2>1, <2>2
<1>6. ASSUME NEW c \in running' PROVE c[2] = "store" /\ StoreAlone(c[1], c[3])'
  <2>1. c \in running /\ c[1] \in DOMAIN att
    BY <1>1, <1>6 DEF TypeInv, RestInv
  <2> QED BY <1>1, <1>4, <2>1 DEF OneInv, StoreAlone
<1>7. LogGrows
  BY <1>1 DEF LogGrows
<1> QED BY <1>1, <1>5, <1>6, <1>7, QuietStep

\* Who writes leads, by its flag or because it was elected.
LEMMA RequestsAlone ==
  ASSUME TypeInv, ValidInv, OneInv
  PROVE  /\ \A n \in Node, k \in ClientKey, v \in Value : Set(n, k, v) => OneInv'
         /\ \A n \in Electors : Elect(n) => OneInv'
<1>1. ASSUME NEW a \in DOMAIN att, att[a].key = LeaderKey, att[a].value \in Node
      PROVE  att[a].value \in Proposers
  <2>1. GoodTask(att[a]) /\ att[a].node \in Proposers
    BY DEF TypeInv, AttInv, OneInv, AttAlone
  <2> QED BY <1>1, <2>1 DEF GoodTask, Asked, Proposers
<1>2. ASSUME NEW n \in Node, NEW k \in ClientKey, NEW v \in Value, Set(n, k, v) PROVE OneInv'
  <2>1. n # Nothing /\ k \in Key
    BY ConstantsAssumption DEF Payload
  <2>2. n \in Requested(LeaderKey) \cup Flagged
    BY <1>2, <2>1 DEF Set, ValidInv, LeadersValid, AskedFor
  <2>3. n \in Proposers
    BY <1>1, <2>2 DEF Requested, Proposers
  <2> QED BY <1>2, <2>1, <2>3, BeginAlone DEF Set
<1>3. ASSUME NEW n \in Electors, Elect(n) PROVE OneInv'
  <2>1. LeaderKey \in Key /\ n \in Proposers
    BY DEF Key, Proposers
  <2> QED BY <1>3, <2>1, BeginAlone DEF Elect
<1> QED BY <1>2, <1>3

\* The loop of pings: the proposer answers itself.
LEMMA PingAlone ==
  ASSUME TypeInv, OneInv, NEW a \in DOMAIN att, Ping(a)
  PROVE  OneInv'
<1> DEFINE t == att[a]
<1>1. GoodTask(t) /\ t \in Task /\ t.node \in Node /\ t.pc = "ping" /\ up[t.node]
  BY DEF Ping, TypeInv, AttInv, GoodTask, Task
<1>2. UNCHANGED <<log, ver, up, running>>
  BY DEF Ping
<1>3. PICK live \in SUBSET Node : /\ t.node \in live
                    /\ \/ att' = [att EXCEPT ![a] = [t EXCEPT !.pc = "propose", !.live = live, !.todo = live]]
                       \/ att' = [att EXCEPT ![a] = [t EXCEPT !.pc = "fail"]]
  <2>1. PICK missed \in SUBSET {n \in Node : up[n] /\ <<t.node, n>> \in Lossy} :
          LET live == {n \in Node : up[n]} \ missed IN
          att' = [att EXCEPT ![a] =
               IF Enough(Cardinality(live), NumReplicas)
                 THEN [t EXCEPT !.pc = "propose", !.live = live, !.todo = live]
                 ELSE [t EXCEPT !.pc = "fail"]]
    BY DEF Ping
  <2>2. t.node \notin missed
    BY <1>1 DEF OneInv, OneProposer
  <2> QED BY <1>1, <2>1, <2>2
<1> DEFINE u == [t EXCEPT !.pc = "propose", !.live = live, !.todo = live]
           f == [t EXCEPT !.pc = "fail"]
<1>4. SameRequest(t, u) /\ u.pc = "propose" /\ u.node = t.node /\ u.todo = live
  BY <1>1 DEF Task, SameRequest
<1>5. SameRequest(t, f) /\ f.pc = "fail"
  BY <1>1 DEF Task, SameRequest
<1>6. att' = [att EXCEPT ![a] = u] \/ att' = [att EXCEPT ![a] = f]
  BY <1>3
<1> HIDE DEF t, u, f
<1>7. OneMove(a)
  BY <1>1, <1>3, <1>4, <1>5, <1>6 DEF OneMove, t, Stage
<1>8. LogGrows
  BY <1>2 DEF LogGrows
<1>9. \A c \in running : c[2] = "store" /\ StoreAlone(c[1], c[3])'
  BY <1>1, <1>2, <1>6, StoresAlone DEF Stage, t
<1> QED BY <1>2, <1>7, <1>8, <1>9, MoveAlone, QuietStep

\* A call of attempt a to n in phase pc is over, whether its handler wrote to n's log or
\* not; only the proposer's own log must have the round.
LEMMA OverAlone ==
  ASSUME TypeInv, OneInv, LogGrows, NEW a \in DOMAIN att, NEW n \in Node, NEW pc \in Waits,
         att[a].pc = pc, UNCHANGED <<ver, up, running>>,
         NEW u, att' = [att EXCEPT ![a] = u], CallOver(att[a], pc, u, n),
         LogStep(a, n) \/ (n # att[a].node /\ UNCHANGED log)
  PROVE  OneInv'
<1>1. n # att[a].node \/ att[a].round \in Known(log'[att[a].node][att[a].key])
  BY LogStepKnown
<1>2. OneMove(a)
  BY <1>1, CallMoves
<1>3. \A c \in running : c[2] = "store" /\ StoreAlone(c[1], c[3])'
  BY StoresAlone DEF Waits, Stage
<1> QED BY <1>2, <1>3, MoveAlone, QuietStep

\* The calls whose handlers run and answer.
LEMMA AnsweredAlone ==
  ASSUME TypeInv, OneInv, LogGrows, NEW a \in DOMAIN att, NEW n \in Node
  PROVE  /\ ProposeAnswered(a, n) => OneInv'
         /\ AcceptAnswered(a, n) => OneInv'
         /\ SuccessCalled(a, n) => OneInv'
<1> DEFINE k == att[a].key
           r == att[a].round
<1>1. GoodTask(att[a]) /\ k \in Key /\ r \in Round
  BY DEF TypeInv, AttInv, GoodTask, Task
<1>2. ASSUME ProposeAnswered(a, n) PROVE OneInv'
  <2> DEFINE e == EntryAt(log[n][k], r)
  <2>1. att[a].pc = "propose" /\ UNCHANGED <<ver, up, running>> /\ HandlePropose(a, n)
    BY <1>2 DEF ProposeAnswered, Calls
  <2>2. e \in EntryType /\ (e.a_server_id > 0 => e.accepted_value \in Payload)
    <3>1. log[n][k] \in LogType /\ FullEntries(log[n][k])
      BY <1>1 DEF TypeInv, LogInv
    <3>2. NewEntry \in EntryType /\ ~ (NewEntry.a_server_id > 0)
      BY DEF NewEntry, EntryType, Entry, ProposeId
    <3> QED BY <1>1, <3>1, <3>2 DEF EntryAt, LogType, FullEntries, Known
  <2>3. \/ att' = [att EXCEPT ![a] = Passed(att[a], n)]
        \/ att' = [att EXCEPT ![a] = Promised(att[a], n, e)]
    BY <1>2 DEF ProposeAnswered
  <2> HIDE DEF e
  <2>4. CallOver(att[a], "propose", Passed(att[a], n), n)
    BY <1>1, <2>1, CallsOver DEF Waits
  <2>5. CallOver(att[a], "propose", Promised(att[a], n, e), n)
    BY <1>1, <2>1, <2>2, PromisedOver
  <2>6. LogStep(a, n)
    BY <2>1, HandlersLogStep
  <2> QED BY <2>1, <2>3, <2>4, <2>5, <2>6, OverAlone DEF Waits
<1>3. ASSUME AcceptAnswered(a, n) PROVE OneInv'
  <2>1. /\ att[a].pc = "accept" /\ UNCHANGED <<ver, up, running>> /\ HandleAccept(a, n)
        /\ att' = [att EXCEPT ![a] = Acked(att[a], n)]
    BY <1>3 DEF AcceptAnswered, Calls
  <2>2. CallOver(att[a], "accept", Acked(att[a], n), n) /\ LogStep(a, n)
    BY <1>1, <2>1, CallsOver, HandlersLogStep
  <2> QED BY <2>1, <2>2, OverAlone DEF Waits
<1>4. ASSUME SuccessCalled(a, n) PROVE OneInv'
  <2>1. /\ att[a].pc = "success" /\ UNCHANGED <<ver, up>> /\ LogSuccess(a, n)
        /\ IsNext(att[a], n)
    BY <1>4 DEF SuccessCalled, Calls
  <2>2. LogStep(a, n)
    BY <2>1, HandlersLogStep
  <2>3. CASE ~ PassesTest(a, n)
    <3>1. att' = [att EXCEPT ![a] = Passed(att[a], n)] /\ UNCHANGED running
      BY <1>4, <2>3 DEF SuccessCalled
    <3>2. CallOver(att[a], "success", Passed(att[a], n), n)
      BY <1>1, <2>1, CallsOver DEF Waits
    <3> QED BY <2>1, <2>2, <3>1, <3>2, OverAlone DEF Waits
  <2>4. CASE PassesTest(a, n)
    <3> DEFINE u == Waiting(att[a])
    <3>1. att' = [att EXCEPT ![a] = u] /\ running' = running \cup {<<a, "store", n>>}
      BY <1>4, <2>4 DEF SuccessCalled
    <3>2. SameRequest(att[a], u) /\ u.pc = "storing" /\ u.todo = att[a].todo
      BY <1>1 DEF Waiting, GoodTask, Task, SameRequest
    <3> HIDE DEF u
    <3>3. OwnRound(att[a])
      BY <2>1 DEF OneInv, AttAlone, Active, Stage
    <3>4. att[a].node \in Node /\ att[a].round \in Known(log[att[a].node][k])
      BY <1>1, <2>1, <3>3 DEF OwnRound, GoodTask, Task
    <3>5. OneMove(a)
      BY <1>1, <2>1, <3>1, <3>2, <3>4 DEF OneMove, SameRequest, Stage, LogGrows
    <3>6. \A c \in running : c[2] = "store" /\ StoreAlone(c[1], c[3])'
      BY <2>1, <2>2, <3>1, StoresAlone DEF Stage
    <3>7. StoreAlone(a, n)'
      <4>1. att'[a] = u
        BY <3>1 DEF TypeInv, AttInv
      <4>2. IsNext(u, n) /\ u.key = k /\ u.round = r
        BY <2>1, <3>2 DEF IsNext, SameRequest
      <4>3. r \in Known(log'[n][k])
        BY <2>2, LogStepKnown
      <4> QED BY <2>4, <3>2, <4>1, <4>2, <4>3 DEF StoreAlone, PassesTest
    <3>8. \A c \in running' : c[2] = "store" /\ StoreAlone(c[1], c[3])'
      BY <3>1, <3>6, <3>7
    <3> QED BY <2>1, <3>5, <3>8, MoveAlone, QuietStep
  <2> QED BY <2>3, <2>4
<1> QED BY <1>2, <1>3, <1>4

\* The calls that fail are those to other replicas.
LEMMA FailedAlone ==
  ASSUME TypeInv, OneInv, LogGrows, NEW a \in DOMAIN att, NEW n \in Node
  PROVE  /\ Unreachable(a, n) => OneInv'
         /\ RequestLost(a, n) => OneInv'
         /\ ReplyLost(a, n) => OneInv'
         /\ TimedOut(a, n) => OneInv'
         /\ StoreTimedOut(a, n) => OneInv'
<1>1. GoodTask(att[a]) /\ att[a].node \in Node /\ \A m \in Node : <<m, m>> \notin Lossy
  BY DEF TypeInv, AttInv, GoodTask, Task, OneInv, OneProposer
<1>2. ASSUME NEW pc \in Waits, Calls(a, n, pc), att' = [att EXCEPT ![a] = Passed(@, n)],
             UNCHANGED <<ver, up, running>>, LogStep(a, n) \/ (n # att[a].node /\ UNCHANGED log)
      PROVE  OneInv'
  <2>1. att[a].pc = pc /\ att' = [att EXCEPT ![a] = Passed(att[a], n)]
    BY <1>2 DEF Calls
  <2>2. CallOver(att[a], pc, Passed(att[a], n), n)
    BY <1>1, <2>1, CallsOver
  <2> QED BY <1>2, <2>1, <2>2, OverAlone
<1>3. ASSUME NEW mode, Fault(a, n, mode) PROVE n # att[a].node
  BY <1>1, <1>3 DEF Fault
<1>4. ASSUME Unreachable(a, n) PROVE OneInv'
  <2>1. PICK pc \in Waits : Calls(a, n, pc)
    BY <1>4 DEF Unreachable, Waits
  <2>2. n # att[a].node
    BY <1>4, <2>1 DEF Unreachable, Calls
  <2> QED BY <1>2, <1>4, <2>1, <2>2 DEF Unreachable
<1>5. ASSUME RequestLost(a, n) PROVE OneInv'
  <2>1. PICK pc \in Waits : Calls(a, n, pc)
    BY <1>5 DEF RequestLost, Waits
  <2>2. n # att[a].node
    BY <1>3, <1>5 DEF RequestLost
  <2> QED BY <1>2, <1>5, <2>1, <2>2 DEF RequestLost
<1>6. ASSUME ReplyLost(a, n) PROVE OneInv'
  <2>1. PICK pc \in Waits : Calls(a, n, pc)
    BY <1>6 DEF ReplyLost, Waits
  <2>2. LogStep(a, n)
    BY <1>6, HandlersLogStep DEF ReplyLost
  <2> QED BY <1>2, <1>6, <2>1, <2>2 DEF ReplyLost
<1>7. ASSUME TimedOut(a, n) PROVE OneInv'
  BY <1>7 DEF TimedOut, Fault, OneInv, OneProposer
<1>8. ASSUME StoreTimedOut(a, n) PROVE OneInv'
  <2>1. /\ att[a].pc = "storing" /\ IsNext(att[a], n) /\ <<a, "store", n>> \notin running
        /\ att' = [att EXCEPT ![a] = Resumed(att[a], n)] /\ UNCHANGED <<log, ver, up, running>>
    BY <1>8 DEF StoreTimedOut, Calls, Fault, OneInv, OneProposer
  <2>2. CallOver(att[a], "success", Resumed(att[a], n), n)
    BY <1>1, CallsOver
  <2>3. att[a].round \in Known(log[att[a].node][att[a].key])
    BY <2>1 DEF OneInv, AttAlone, OwnRound, Active, Stage
  <2>4. OneMove(a)
    BY <2>1, <2>2, <2>3, CallMoves DEF Waits
  <2>5. ASSUME NEW c \in running PROVE c[2] = "store" /\ StoreAlone(c[1], c[3])'
    <3>1. PICK b \in DOMAIN att, m \in Node : c[1] = b /\ c[3] = m /\ c = <<b, "store", m>>
      BY DEF TypeInv, RestInv, OneInv
    <3>2. StoreAlone(b, m)
      BY <3>1 DEF OneInv
    <3>3. b # a
      BY <2>1, <3>1, <3>2 DEF StoreAlone, IsNext, Node
    <3>4. att'[b] = att[b]
      BY <2>1, <3>3 DEF TypeInv, AttInv
    <3> QED BY <2>1, <3>1, <3>2, <3>4 DEF StoreAlone
  <2> QED BY <2>1, <2>4, <2>5, MoveAlone, QuietStep
<1> QED BY <1>4, <1>5, <1>6, <1>7, <1>8

\* A store, or an election's own assignment, sets the version of one key of one replica.
LEMMA AssignVer ==
  ASSUME TypeInv, NEW a \in DOMAIN att, NEW n \in Node, Assign(n, att[a])
  PROVE  \A m \in Node, k \in Key :
           ver'[m][k] = IF m = n /\ k = att[a].key THEN att[a].round ELSE ver[m][k]
<1>1. att[a].key \in Key
  BY DEF TypeInv, AttInv, GoodTask, Task
<1> QED BY <1>1 DEF Assign, TypeInv, RestInv

\* The handlers that run on their own are stores their proposers wait for.
LEMMA HandlerAlone ==
  ASSUME TypeInv, OneInv, LogGrows, NEW a \in DOMAIN att, NEW n \in Node, HandlerStep(a, n)
  PROVE  OneInv'
<1>1. Store(a, n)
  BY DEF HandlerStep, LatePropose, LateAccept, LateSuccess, OneInv
<1>2. <<a, "store", n>> \in running /\ StoreAlone(a, n)
  BY <1>1 DEF Store, OneInv
<1>3. GoodTask(att[a]) /\ att[a].key \in Key
  BY DEF TypeInv, AttInv, GoodTask, Task
<1>4. /\ att' = [att EXCEPT ![a] = Resumed(att[a], n)] /\ UNCHANGED <<log, up>>
      /\ running' = running \ {<<a, "store", n>>} /\ Assign(n, att[a])
  BY <1>1, <1>2 DEF Store, StoreAlone
<1>5. att[a].pc = "storing" /\ IsNext(att[a], n)
  BY <1>2 DEF StoreAlone
<1>6. CallOver(att[a], "success", Resumed(att[a], n), n)
  BY <1>3, CallsOver
<1>7. att[a].round \in Known(log[att[a].node][att[a].key])
  BY <1>5 DEF OneInv, AttAlone, OwnRound, Active, Stage
<1>8. OneMove(a)
  BY <1>4, <1>5, <1>6, <1>7, CallMoves DEF Waits
<1>9. ASSUME NEW c \in running' PROVE c[2] = "store" /\ StoreAlone(c[1], c[3])'
  <2>1. PICK b \in DOMAIN att, m \in Node : c[1] = b /\ c[3] = m /\ c = <<b, "store", m>>
    BY <1>4 DEF TypeInv, RestInv, OneInv
  <2>2. StoreAlone(b, m) /\ c # <<a, "store", n>>
    BY <1>4, <2>1 DEF OneInv
  <2>3. b # a
    BY <1>5, <2>1, <2>2 DEF StoreAlone, IsNext, Node
  <2>4. att'[b] = att[b]
    BY <1>4, <2>3 DEF TypeInv, AttInv
  <2> QED BY <1>4, <2>1, <2>2, <2>4 DEF StoreAlone
<1>10. VerKnown'
  BY <1>2, <1>4, AssignVer DEF VerKnown, StoreAlone, OneInv
<1> QED BY <1>4, <1>8, <1>9, <1>10, MoveAlone DEF OneInv, OneProposer

\* A candidate that takes its leader has the round in its log.
LEMMA ReturnAlone ==
  ASSUME TypeInv, OneInv, LogGrows, NEW a \in DOMAIN att, Return(a)
  PROVE  OneInv'
<1> DEFINE u == [att[a] EXCEPT !.pc = "ok"]
<1>1. /\ att[a].pc = "return" /\ UNCHANGED <<log, up, running>> /\ att' = [att EXCEPT ![a] = u]
      /\ UNCHANGED ver \/ Assign(att[a].node, att[a])
  BY DEF Return
<1>2. SameRequest(att[a], u) /\ u.pc = "ok" /\ att[a].node \in Node
  BY DEF TypeInv, AttInv, GoodTask, Task, SameRequest
<1> HIDE DEF u
<1>3. OneMove(a)
  BY <1>1, <1>2 DEF OneMove, Stage
<1>4. \A c \in running : c[2] = "store" /\ StoreAlone(c[1], c[3])'
  BY <1>1, StoresAlone DEF Stage
<1>5. att[a].round \in Known(log[att[a].node][att[a].key])
  BY <1>1 DEF OneInv, AttAlone, OwnRound, Active, Stage
<1>6. VerKnown'
  BY <1>1, <1>2, <1>5, AssignVer DEF VerKnown, OneInv
<1> QED BY <1>1, <1>3, <1>4, <1>6, MoveAlone DEF OneInv, OneProposer

\* Who crashes does not propose: its handlers are gone, no attempt is.
LEMMA CrashAlone ==
  ASSUME TypeInv, OneInv, NEW n \in Crashable, Crash(n)
  PROVE  OneInv'
<1>1. UNCHANGED <<log, ver>> /\ running' \subseteq running /\ n \notin Proposers
      /\ \A m \in Node : m # n => up'[m] = up[m]
  BY DEF Crash, OneInv, OneProposer, TypeInv, RestInv
<1>2. \A m \in Proposers : up'[m]
  BY <1>1, ConstantsAssumption DEF OneInv, Proposers
<1>3. DOMAIN att' = DOMAIN att /\ \A a \in DOMAIN att : att'[a] = att[a]
  BY <1>1 DEF Crash, OneInv, AttAlone
<1>4. \A a \in DOMAIN att' : AttAlone(a)'
  BY <1>1, <1>3 DEF OneInv, AttAlone, Active, OwnRound
<1>5. ASSUME NEW c \in running' PROVE c[2] = "store" /\ StoreAlone(c[1], c[3])'
  <2>1. c \in running /\ c[1] \in DOMAIN att
    BY <1>1 DEF TypeInv, RestInv
  <2> QED BY <1>1, <1>3, <2>1 DEF OneInv, StoreAlone
<1> QED BY <1>1, <1>2, <1>4, <1>5 DEF OneInv, OneProposer, VerKnown

\* Every step keeps the invariant.
LEMMA NextAlone ==
  ASSUME TypeInv, ValidInv, OneInv, [Next]_vars
  PROVE  OneInv'
<1>1. LogGrows
  BY EffectLogGrows
<1>2. CASE \E n \in Node, k \in ClientKey, v \in Value : Set(n, k, v)
  BY <1>2, RequestsAlone
<1>3. CASE \E n \in Electors : Elect(n)
  BY <1>3, RequestsAlone
<1>4. CASE \E a \in DOMAIN att : Ping(a) \/ Return(a)
  BY <1>1, <1>4, PingAlone, ReturnAlone
<1>5. CASE \E a \in DOMAIN att, n \in Node : ProposerStep(a, n)
  BY <1>1, <1>5, AnsweredAlone, FailedAlone DEF ProposerStep
<1>6. CASE \E a \in DOMAIN att, n \in Node : HandlerStep(a, n)
  BY <1>1, <1>6, HandlerAlone
<1>7. CASE \E n \in Crashable : Crash(n)
  BY <1>7, CrashAlone
<1>8. CASE UNCHANGED vars
  BY <1>8 DEF vars, OneInv, OneProposer, AttAlone, Active, OwnRound, StoreAlone, VerKnown
<1> QED BY <1>2, <1>3, <1>4, <1>5, <1>6, <1>7, <1>8 DEF Next, Idle

\* At first nothing is under way.
LEMMA InitAlone ==
  ASSUME OneProposer, Init
  PROVE  OneInv
BY ConstantsAssumption DEF Init, OneInv, Proposers, VerKnown

\* No action but a store or the return of an election changes a version, and a store only
\* to that of a later round.
LEMMA StepForward ==
  ASSUME TypeInv, OneInv, [Next]_vars, NEW n \in Node, NEW k \in Key, ver'[n][k] < ver[n][k]
  PROVE  k = LeaderKey /\ Elects(n)
<1>1. \A r \in Known(log[n][k]) : r \in Int
  <2>1. DOMAIN log[n][k] = Round
    BY DEF TypeInv, LogInv, LogType
  <2> QED BY <2>1, ConstantsAssumption DEF Known, Round
<1>2. ver[n][k] \in Int
  BY DEF TypeInv, RestInv, Round
<1>3. ASSUME UNCHANGED ver PROVE FALSE
  BY <1>2, <1>3
<1>4. CASE \E a \in DOMAIN att, m \in Node : HandlerStep(a, m)
  <2>1. PICK a \in DOMAIN att, m \in Node : HandlerStep(a, m)
    BY <1>4
  <2>2. Store(a, m)
    BY <1>3, <2>1 DEF HandlerStep, LatePropose, LateAccept, LateSuccess
  <2>3. Assign(m, att[a]) /\ StoreAlone(a, m)
    BY <2>2 DEF Store, OneInv
  <2>4. m = n /\ k = att[a].key /\ ver'[n][k] = att[a].round
    BY <1>2, <2>3, AssignVer
  <2>5. att[a].round \in Nat
    BY DEF TypeInv, AttInv, GoodTask, Task, Round
  <2>6. ver[n][k] <= att[a].round
    BY <1>1, <2>3, <2>4, <2>5 DEF OneInv, VerKnown, StoreAlone, Outdated
  <2> QED BY <1>2, <2>4, <2>5, <2>6
<1>5. CASE \E a \in DOMAIN att : Ping(a) \/ Return(a)
  <2>1. PICK a \in DOMAIN att : Return(a)
    BY <1>3, <1>5 DEF Ping
  <2>2. att[a].pc = "return" /\ att' = [att EXCEPT ![a].pc = "ok"]
        /\ att[a].by = "elect_leader" /\ Assign(att[a].node, att[a])
    BY <1>3, <2>1 DEF Return
  <2>3. att[a] \in Task /\ att[a].key = LeaderKey
    BY <2>2 DEF TypeInv, AttInv, GoodTask, Asked
  <2>4. att[a].node = n /\ k = LeaderKey
    BY <1>2, <2>2, <2>3, AssignVer DEF Task
  <2>5. att'[a].pc = "ok"
    BY <2>2, <2>3 DEF Task, TypeInv, AttInv
  <2> QED BY <2>2, <2>4, <2>5 DEF Elects
<1>6. CASE \E a \in DOMAIN att, m \in Node : ProposerStep(a, m)
  BY <1>3, <1>6 DEF ProposerStep, ProposeAnswered, AcceptAnswered, SuccessCalled, Unreachable,
                    RequestLost, ReplyLost, TimedOut, StoreTimedOut
<1> QED BY <1>3, <1>4, <1>5, <1>6 DEF Next, Set, Elect, Begin, Crash, Idle, vars

\* With one proposer at a time for a key, whatever calls are lost or unanswered, whatever
\* holes the logs have and whoever else crashes, success's test keeps every replica from
\* going back; only elect_leader can take a candidate back to an earlier leader.
THEOREM StoresGoForward == OneProposer /\ Spec => NeverGoesBack
<1> DEFINE Inv == TypeInv /\ ValidInv /\ OneInv
<1>1. OneProposer /\ Init => Inv
  BY InitTypes, InitValid, InitAlone
<1>2. Inv /\ [Next]_vars => Inv'
  <2> SUFFICES ASSUME Inv, [Next]_vars PROVE Inv'
    OBVIOUS
  <2>1. TypeInv'
    BY StepEffect, BeginInv, EffectInv DEF BeginStep
  <2> QED BY <2>1, NextValid, NextAlone
<1>3. Inv /\ [Next]_vars =>
        [\A n \in Node, k \in Key : ver'[n][k] < ver[n][k] => k = LeaderKey /\ Elects(n)]_vars
  BY StepForward
<1> QED BY <1>1, <1>2, <1>3, PTL DEF Spec, NeverGoesBack
=============================================================================
