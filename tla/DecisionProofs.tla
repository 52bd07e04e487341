--------------------------- MODULE DecisionProofs ---------------------------
(***************************************************************************)
(* Proofs that no replica of Consensus stores a value that a quorum has    *)
(* not accepted, nor one that no request for its key asked for.            *)
(***************************************************************************)
EXTENDS ConsensusProofs, WellFoundedInduction

\* The replicas that ran accept for the value an attempt settled on, in the votes vs.
VotersOf(t, vs) == {n \in Node : <<n, t.key, t.round, Chosen(t)>> \in vs}
IsDecided(t, vs) == Enough(Cardinality(VotersOf(t, vs)), NumReplicas)

\* Past its proposals an attempt keeps the value it settled on.
Settled(t) == t.pc \notin {"ping", "propose"}

\* The attempt's count of acceptances is backed by votes, and it is in or past its last
\* phase only with a quorum of them.
Sound(t, vs) ==
  /\ t.acked \subseteq VotersOf(t, vs)
  /\ ~ Settled(t) => t.acked = {}
  /\ t.pc \in {"success", "storing", "return", "ok"} => IsDecided(t, vs)

RunningDecided ==
  \A a \in DOMAIN att, n \in Node :
    <<a, "success", n>> \in running \/ <<a, "store", n>> \in running
      => Settled(att[a]) /\ IsDecided(att[a], votes)

DecisionInv ==
  /\ \A a \in DOMAIN att : Sound(att[a], votes)
  /\ RunningDecided
  /\ StoredIsDecided

-----------------------------------------------------------------------------
(* Quorums of votes.                                                       *)

\* A larger set of voters still passes the head count.
LEMMA MoreIsEnough ==
  ASSUME NEW S \in SUBSET Node, NEW T \in SUBSET Node, S \subseteq T,
         Enough(Cardinality(S), NumReplicas)
  PROVE  Enough(Cardinality(T), NumReplicas)
<1>1. IsFiniteSet(Node)
  BY FS_Interval, ConstantsAssumption DEF Node
<1>2. IsFiniteSet(T) /\ IsFiniteSet(S)
  BY <1>1, FS_Subset
<1>3. Cardinality(S) <= Cardinality(T)
  BY <1>2, FS_Subset
<1>4. Cardinality(S) \in Nat /\ Cardinality(T) \in Nat
  BY <1>2, FS_CardinalityType
<1>5. CeilHalf(NumReplicas) \in Int
  BY ConstantsAssumption DEF CeilHalf
<1> QED BY <1>3, <1>4, <1>5 DEF Enough

\* Votes are never taken back.
LEMMA DecidedForGood ==
  ASSUME NEW t, NEW vs, NEW ws, vs \subseteq ws
  PROVE  /\ VotersOf(t, vs) \subseteq VotersOf(t, ws)
         /\ IsDecided(t, vs) => IsDecided(t, ws)
         /\ Sound(t, vs) => Sound(t, ws)
<1>1. VotersOf(t, vs) \subseteq VotersOf(t, ws) /\ VotersOf(t, ws) \subseteq Node
  BY DEF VotersOf
<1>2. IsDecided(t, vs) => IsDecided(t, ws)
  BY <1>1, MoreIsEnough DEF IsDecided
<1> QED BY <1>1, <1>2 DEF Sound

\* An attempt that keeps its round and its choice keeps its voters.
LEMMA SameVoters ==
  ASSUME NEW t, NEW u, SameChoice(t, u), NEW vs
  PROVE  VotersOf(u, vs) = VotersOf(t, vs) /\ (IsDecided(u, vs) <=> IsDecided(t, vs))
BY DEF SameChoice, SameRequest, VotersOf, Chosen, IsDecided

-----------------------------------------------------------------------------
(* The steps of one attempt keep it sound.                                 *)

\* The phase that follows: the last one is entered only with enough acceptances.
LEMMA AdvancePhase ==
  ASSUME NEW t, GoodTask(t), t.pc \in Waits
  PROVE  LET u == Advance(t) IN
         /\ t.pc = "propose" => u.pc \in {"propose", "accept", "fail"}
         /\ t.pc = "accept" => \/ u.pc \in {"accept", "fail"}
                               \/ u.pc = "success" /\ Enough(Cardinality(t.acked), NumReplicas)
         /\ t.pc = "success" => u.pc \in {"success", "return"}
BY DEF Advance, Waits, GoodTask, Task

\* The test after a loop keeps an attempt's acceptances true votes, and lets only a
\* decided value into the last phase.
LEMMA AdvanceSound ==
  ASSUME NEW t, GoodTask(t), t.pc \in Waits, NEW vs, Sound(t, vs)
  PROVE  Sound(Advance(t), vs) /\ (Settled(t) => Settled(Advance(t)))
<1> DEFINE u == Advance(t)
<1>1. SameChoice(t, u) /\ u.acked = t.acked
  BY AdvanceTask
<1>2. VotersOf(u, vs) = VotersOf(t, vs) /\ (IsDecided(u, vs) <=> IsDecided(t, vs))
  BY <1>1, SameVoters
<1>3. Enough(Cardinality(t.acked), NumReplicas) => IsDecided(t, vs)
  <2>1. t.acked \subseteq VotersOf(t, vs) /\ VotersOf(t, vs) \in SUBSET Node /\ t.acked \in SUBSET Node
    BY DEF Sound, VotersOf
  <2> QED BY <2>1, MoreIsEnough DEF IsDecided
<1>4. /\ t.pc = "propose" => u.pc \in {"propose", "accept", "fail"}
      /\ t.pc = "accept" => \/ u.pc \in {"accept", "fail"}
                            \/ u.pc = "success" /\ Enough(Cardinality(t.acked), NumReplicas)
      /\ t.pc = "success" => u.pc \in {"success", "return"}
  BY AdvancePhase
<1> HIDE DEF u
<1>5. Sound(u, vs) /\ (Settled(t) => Settled(u))
  BY <1>1, <1>2, <1>3, <1>4 DEF Sound, Settled, Waits
<1> QED BY <1>5 DEF u

\* A call that counts for nothing keeps an attempt sound.
LEMMA PassedSound ==
  ASSUME NEW t, GoodTask(t), t.pc \in Waits, NEW n, NEW vs, Sound(t, vs)
  PROVE  Sound(Passed(t, n), vs) /\ (Settled(t) => Settled(Passed(t, n)))
<1> DEFINE u == [t EXCEPT !.todo = @ \ {n}]
<1>1. GoodTask(u) /\ SameChoice(t, u) /\ u.acked = t.acked /\ u.pc = t.pc
  BY DEF GoodTask, Task, SameChoice, SameRequest
<1> HIDE DEF u
<1>2. Sound(u, vs) /\ (Settled(t) => Settled(u))
  BY <1>1, SameVoters DEF Sound, Settled
<1>3. Passed(t, n) = Advance(u)
  BY DEF Passed, u
<1> QED BY <1>1, <1>2, <1>3, AdvanceSound

\* An answer to propose keeps an attempt sound: no acceptance is counted before the
\* value is settled.
LEMMA PromisedSound ==
  ASSUME NEW t, GoodTask(t), t.pc = "propose", NEW n, NEW e \in EntryType,
         e.a_server_id > 0 => e.accepted_value \in Payload, NEW vs, Sound(t, vs)
  PROVE  Sound(Promised(t, n, e), vs)
<1> DEFINE u == Promised(t, n, e)
           before == [t EXCEPT
             !.todo = @ \ {n},
             !.promised = @ + 1,
             !.accepted_value = IF e.a_server_id > t.accepted_id THEN e.accepted_value ELSE @,
             !.accepted_id = IF e.a_server_id > @ THEN e.a_server_id ELSE @]
<1>1. u = Advance(before)
  BY DEF Promised
<1>2. before.pc = "propose" /\ t.acked = {}
  BY DEF GoodTask, Task, Sound, Settled
<1>3. u.acked = {} /\ GoodTask(u)
  BY <1>2, PromisedTask
<1> HIDE DEF before
<1>4. u.pc \in {"propose", "accept", "fail"}
  BY <1>1, <1>2 DEF Advance, Promised
<1> HIDE DEF u
<1>5. Sound(u, vs)
  BY <1>3, <1>4 DEF Sound, Settled
<1> QED BY <1>5 DEF u

\* An answer to accept keeps an attempt sound: the vote is there.
LEMMA AckedSound ==
  ASSUME NEW t, GoodTask(t), t.pc = "accept", NEW vs, Sound(t, vs), NEW n \in VotersOf(t, vs)
  PROVE  Sound(Acked(t, n), vs) /\ Settled(Acked(t, n))
<1> DEFINE u == [t EXCEPT !.todo = @ \ {n}, !.acked = @ \cup {n}]
<1>1. n \in Node
  BY DEF VotersOf
<1>2. GoodTask(u) /\ SameChoice(t, u) /\ u.acked = t.acked \cup {n} /\ u.pc = "accept"
  BY <1>1 DEF GoodTask, Task, SameChoice, SameRequest
<1> HIDE DEF u
<1>3. Sound(u, vs) /\ Settled(u)
  BY <1>2, SameVoters DEF Sound, Settled
<1>4. Acked(t, n) = Advance(u)
  BY DEF Acked, u
<1> QED BY <1>2, <1>3, <1>4, AdvanceSound DEF Waits

\* Waiting for a store, and going on after it, keeps an attempt sound.
LEMMA StoringSound ==
  ASSUME NEW t, GoodTask(t), t.pc \in {"success", "storing"}, NEW n, NEW vs, Sound(t, vs)
  PROVE  /\ Sound(Waiting(t), vs) /\ Settled(Waiting(t))
         /\ Sound(Resumed(t, n), vs) /\ Settled(Resumed(t, n))
<1>1. SameChoice(t, Waiting(t)) /\ Waiting(t).acked = t.acked /\ Waiting(t).pc = "storing"
  BY StoringTask DEF Waiting, GoodTask, Task
<1>2. Sound(Waiting(t), vs) /\ Settled(Waiting(t))
  BY <1>1, SameVoters DEF Sound, Settled
<1> DEFINE u == [t EXCEPT !.pc = "success"]
<1>3. GoodTask(u) /\ SameChoice(t, u) /\ u.acked = t.acked /\ u.pc = "success"
  BY DEF GoodTask, Task, Stage, SameChoice, SameRequest
<1> HIDE DEF u
<1>4. Sound(u, vs) /\ Settled(u)
  BY <1>3, SameVoters DEF Sound, Settled
<1>5. Resumed(t, n) = Passed(u, n)
  BY DEF Resumed, u
<1> QED BY <1>2, <1>3, <1>4, <1>5, PassedSound DEF Waits

-----------------------------------------------------------------------------
(* What a step does to attempts, votes, handlers and stores.               *)

AttemptsSound ==
  \A a \in DOMAIN att :
    /\ Sound(att'[a], votes')
    /\ Settled(att[a]) => SameChoice(att[a], att'[a]) /\ Settled(att'[a])

\* A handler gets to store only what is decided.
NewHandlers ==
  \A a \in DOMAIN att, n \in Node :
    <<a, "success", n>> \in running' \/ <<a, "store", n>> \in running'
      => Settled(att[a]) /\ IsDecided(att[a], votes)

StoresDecided ==
  \/ UNCHANGED <<kv, leader, ver>>
  \/ \E a \in DOMAIN att, n \in Node : Assign(n, att[a]) /\ IsDecided(att[a], votes)

DecisionEffect ==
  /\ DOMAIN att' = DOMAIN att
  /\ votes \subseteq votes'
  /\ AttemptsSound
  /\ NewHandlers
  /\ StoresDecided

\* One attempt moves on.
LEMMA OneAttempt ==
  ASSUME TypeInv, DecisionInv, votes \subseteq votes', NEW a \in DOMAIN att, NEW u,
         att' = [att EXCEPT ![a] = u], Sound(u, votes'),
         Settled(att[a]) => SameChoice(att[a], u) /\ Settled(u)
  PROVE  AttemptsSound /\ DOMAIN att' = DOMAIN att
<1>1. \A b \in DOMAIN att : Sound(att[b], votes')
  BY DecidedForGood DEF DecisionInv
<1>2. \A b \in DOMAIN att : att'[b] = IF b = a THEN u ELSE att[b]
  BY DEF TypeInv, AttInv
<1> QED BY <1>1, <1>2 DEF AttemptsSound, SameChoice, SameRequest

\* No attempt moves on.
LEMMA NoAttempt ==
  ASSUME TypeInv, DecisionInv, votes \subseteq votes', UNCHANGED att
  PROVE  AttemptsSound /\ DOMAIN att' = DOMAIN att
BY DecidedForGood DEF AttemptsSound, DecisionInv, SameChoice, SameRequest

\* Storing the value of a settled attempt stores a decided value.
LEMMA AssignDecided ==
  ASSUME TypeInv, DecisionInv, TypeInv', votes \subseteq votes', NEW a \in DOMAIN att, NEW n \in Node,
         Assign(n, att[a]), IsDecided(att[a], votes)
  PROVE  StoredIsDecided'
<1> DEFINE k == att[a].key
           r == att[a].round
           c == Chosen(att[a])
<1>1. k \in Key /\ r \in Round
  BY DEF TypeInv, AttInv, GoodTask, Task
<1>2. IsDecided(att[a], votes')
  BY DecidedForGood
<1>3. Enough(Cardinality({m \in Node : <<m, k, r, c>> \in votes'}), NumReplicas)
  BY <1>2 DEF IsDecided, VotersOf
<1>4. /\ ver' = [ver EXCEPT ![n][k] = r]
      /\ k = LeaderKey => leader' = [leader EXCEPT ![n] = c] /\ UNCHANGED kv
      /\ k # LeaderKey => kv' = [kv EXCEPT ![n][k] = c] /\ UNCHANGED leader
  BY DEF Assign
<1> HIDE DEF k, r, c
<1>5. ASSUME NEW m \in Node, NEW j \in Key, ver'[m][j] # -1
      PROVE  Decided(j, ver[m][j], Held(m, j))'
  <2>1. CASE m = n /\ j = k
    <3>1. ver'[m][j] = r
      BY <1>1, <1>4, <2>1 DEF TypeInv, RestInv
    <3>2. Held(m, j)' = c
      <4>1. CASE j = LeaderKey
        BY <1>4, <2>1, <4>1 DEF Held, TypeInv, RestInv
      <4>2. CASE j # LeaderKey
        <5>1. j \in DataKey
          BY <4>2 DEF Key
        <5> QED BY <1>4, <2>1, <4>2, <5>1 DEF Held, TypeInv, RestInv
      <4> QED BY <4>1, <4>2
    <3> QED BY <1>3, <2>1, <3>1, <3>2 DEF Decided, Voters
  <2>2. CASE ~ (m = n /\ j = k)
    <3>1. ver'[m][j] = ver[m][j]
      BY <1>1, <1>4, <2>2 DEF TypeInv, RestInv
    <3>2. Held(m, j)' = Held(m, j)
      <4>1. CASE j = LeaderKey
        BY <1>4, <2>2, <4>1 DEF Held, TypeInv, RestInv
      <4>2. CASE j # LeaderKey
        <5>1. j \in DataKey
          BY <4>2 DEF Key
        <5>2. kv'[m][j] = kv[m][j]
          BY <1>1, <1>4, <2>2, <5>1 DEF TypeInv, RestInv, Key
        <5> QED BY <4>2, <5>2 DEF Held
      <4> QED BY <4>1, <4>2
    <3>3. Decided(j, ver[m][j], Held(m, j))
      BY <1>5, <3>1 DEF DecisionInv, StoredIsDecided
    <3> DEFINE S == {x \in Node : <<x, j, ver[m][j], Held(m, j)>> \in votes}
               T == {x \in Node : <<x, j, ver[m][j], Held(m, j)>> \in votes'}
    <3>4. S \in SUBSET Node /\ T \in SUBSET Node /\ S \subseteq T
      OBVIOUS
    <3>5. Enough(Cardinality(S), NumReplicas)
      BY <3>3 DEF Decided, Voters
    <3>6. Enough(Cardinality(T), NumReplicas)
      BY <3>4, <3>5, MoreIsEnough
    <3> QED BY <3>1, <3>2, <3>6 DEF Decided, Voters
  <2> QED BY <2>1, <2>2
<1> QED BY <1>5 DEF StoredIsDecided

\* A step that stores nothing.
LEMMA KeepDecided ==
  ASSUME DecisionInv, votes \subseteq votes', UNCHANGED <<kv, leader, ver>>
  PROVE  StoredIsDecided'
<1> SUFFICES ASSUME NEW m \in Node, NEW j \in Key, ver[m][j] # -1
             PROVE  Decided(j, ver[m][j], Held(m, j))'
  BY DEF StoredIsDecided
<1>1. Decided(j, ver[m][j], Held(m, j))
  BY DEF DecisionInv, StoredIsDecided
<1> DEFINE S == {x \in Node : <<x, j, ver[m][j], Held(m, j)>> \in votes}
           T == {x \in Node : <<x, j, ver[m][j], Held(m, j)>> \in votes'}
<1>2. S \in SUBSET Node /\ T \in SUBSET Node /\ S \subseteq T
  OBVIOUS
<1>3. Enough(Cardinality(T), NumReplicas)
  BY <1>1, <1>2, MoreIsEnough DEF Decided, Voters
<1> QED BY <1>3 DEF Decided, Voters, Held

\* A step whose attempts stay sound and whose new handlers and stores belong to settled
\* attempts keeps the invariant.
LEMMA DecisionStep ==
  ASSUME TypeInv, TypeInv', DecisionInv, DecisionEffect
  PROVE  DecisionInv'
<1>1. \A a \in DOMAIN att' : Sound(att'[a], votes')
  BY DEF DecisionEffect, AttemptsSound
<1>2. RunningDecided'
  <2> SUFFICES ASSUME NEW a \in DOMAIN att, NEW n \in Node,
                      <<a, "success", n>> \in running' \/ <<a, "store", n>> \in running'
               PROVE  Settled(att'[a]) /\ IsDecided(att'[a], votes')
    BY DEF RunningDecided, DecisionEffect
  <2>1. Settled(att[a]) /\ IsDecided(att[a], votes)
    BY DEF DecisionEffect, NewHandlers
  <2>2. SameChoice(att[a], att'[a]) /\ Settled(att'[a])
    BY <2>1 DEF DecisionEffect, AttemptsSound
  <2>3. IsDecided(att[a], votes')
    BY <2>1, DecidedForGood DEF DecisionEffect
  <2> QED BY <2>2, <2>3, SameVoters
<1>3. StoredIsDecided'
  BY AssignDecided, KeepDecided DEF DecisionEffect, StoresDecided
<1> QED BY <1>1, <1>2, <1>3 DEF DecisionInv

-----------------------------------------------------------------------------
(* Action by action.                                                       *)

\* Handlers that are already running, or whose attempt is in its last phase, may store.
LEMMA OldHandlers ==
  ASSUME DecisionInv,
         \A a \in DOMAIN att, n \in Node, s \in {"success", "store"} :
           <<a, s, n>> \in running' =>
             \/ <<a, "success", n>> \in running
             \/ <<a, "store", n>> \in running
             \/ att[a].pc = "success"
  PROVE  NewHandlers
BY DEF NewHandlers, DecisionInv, RunningDecided, Sound, Settled

\* The loop of pings.
LEMMA PingDecides ==
  ASSUME TypeInv, DecisionInv, NEW a \in DOMAIN att, Ping(a)
  PROVE  DecisionEffect
<1> DEFINE t == att[a]
<1>1. GoodTask(t) /\ Sound(t, votes) /\ t.pc = "ping"
  BY DEF TypeInv, AttInv, DecisionInv, Ping
<1>2. PICK live : \/ att' = [att EXCEPT ![a] = [t EXCEPT !.pc = "propose", !.live = live, !.todo = live]]
                  \/ att' = [att EXCEPT ![a] = [t EXCEPT !.pc = "fail"]]
  BY DEF Ping
<1>3. Sound([t EXCEPT !.pc = "propose", !.live = live, !.todo = live], votes)
  BY <1>1 DEF Sound, Settled, GoodTask, Task
<1>4. Sound([t EXCEPT !.pc = "fail"], votes)
  BY <1>1 DEF Sound, Settled, GoodTask, Task
<1>5. UNCHANGED <<votes, running, kv, leader, ver>>
  BY DEF Ping
<1>6. ~ Settled(t)
  BY <1>1 DEF Settled
<1>7. AttemptsSound /\ DOMAIN att' = DOMAIN att
  <2> HIDE DEF t
  <2>1. CASE att' = [att EXCEPT ![a] = [t EXCEPT !.pc = "propose", !.live = live, !.todo = live]]
    BY <1>3, <1>5, <1>6, <2>1, OneAttempt DEF t
  <2>2. CASE att' = [att EXCEPT ![a] = [t EXCEPT !.pc = "fail"]]
    BY <1>4, <1>5, <1>6, <2>2, OneAttempt DEF t
  <2> QED BY <1>2, <2>1, <2>2
<1>8. NewHandlers
  BY <1>5, OldHandlers
<1> QED BY <1>5, <1>7, <1>8 DEF DecisionEffect, StoresDecided

\* The candidate that returns OK takes a leader a quorum has accepted.
LEMMA ReturnDecides ==
  ASSUME TypeInv, DecisionInv, NEW a \in DOMAIN att, Return(a)
  PROVE  DecisionEffect
<1> DEFINE u == [att[a] EXCEPT !.pc = "ok"]
<1>1. GoodTask(att[a]) /\ Sound(att[a], votes) /\ att[a].pc = "return" /\ att[a].node \in Node
  BY DEF TypeInv, AttInv, DecisionInv, Return, GoodTask, Task
<1>2. SameChoice(att[a], u) /\ u.acked = att[a].acked /\ u.pc = "ok"
  BY <1>1 DEF GoodTask, Task, SameChoice, SameRequest
<1>3. att' = [att EXCEPT ![a] = u] /\ UNCHANGED <<votes, running>>
  BY DEF Return
<1> HIDE DEF u
<1>4. Sound(u, votes) /\ Settled(u)
  BY <1>1, <1>2, SameVoters DEF Sound, Settled
<1>5. AttemptsSound /\ DOMAIN att' = DOMAIN att
  BY <1>2, <1>3, <1>4, OneAttempt
<1>6. NewHandlers
  BY <1>3, OldHandlers
<1>7. IsDecided(att[a], votes)
  BY <1>1 DEF Sound
<1>8. StoresDecided
  BY <1>1, <1>7 DEF Return, StoresDecided
<1> QED BY <1>3, <1>5, <1>6, <1>8 DEF DecisionEffect

\* The calls whose handlers run and answer.
LEMMA AnsweredDecides ==
  ASSUME TypeInv, DecisionInv, NEW a \in DOMAIN att, NEW n \in Node
  PROVE  /\ ProposeAnswered(a, n) => DecisionEffect
         /\ AcceptAnswered(a, n) => DecisionEffect
         /\ SuccessCalled(a, n) => DecisionEffect
<1>1. GoodTask(att[a]) /\ Sound(att[a], votes)
  BY DEF TypeInv, AttInv, DecisionInv
<1>2. ASSUME ProposeAnswered(a, n) PROVE DecisionEffect
  <2> DEFINE e == EntryAt(log[n][att[a].key], att[a].round)
  <2>1. att[a].pc = "propose" /\ UNCHANGED <<votes, running, kv, leader, ver>>
    BY <1>2 DEF ProposeAnswered, Calls
  <2>2. e \in EntryType /\ (e.a_server_id > 0 => e.accepted_value \in Payload)
    <3>1. att[a].key \in Key /\ att[a].round \in Round
      BY <1>1 DEF GoodTask, Task
    <3>2. log[n][att[a].key] \in LogType /\ FullEntries(log[n][att[a].key])
      BY <3>1 DEF TypeInv, LogInv
    <3>3. NewEntry \in EntryType /\ ~ (NewEntry.a_server_id > 0)
      BY DEF NewEntry, EntryType, Entry, ProposeId
    <3> QED BY <3>1, <3>2, <3>3 DEF EntryAt, LogType, FullEntries, Known
  <2> HIDE DEF e
  <2>3. Sound(Passed(att[a], n), votes) /\ Sound(Promised(att[a], n, e), votes)
    BY <1>1, <2>1, <2>2, PassedSound, PromisedSound DEF Waits
  <2>4. \/ att' = [att EXCEPT ![a] = Passed(att[a], n)]
        \/ att' = [att EXCEPT ![a] = Promised(att[a], n, e)]
    BY <1>2 DEF ProposeAnswered, e
  <2>5. ~ Settled(att[a])
    BY <2>1 DEF Settled
  <2>6. AttemptsSound /\ DOMAIN att' = DOMAIN att
    BY <2>1, <2>3, <2>4, <2>5, OneAttempt
  <2>7. NewHandlers
    BY <2>1, OldHandlers
  <2> QED BY <2>1, <2>6, <2>7 DEF DecisionEffect, StoresDecided
<1>3. ASSUME AcceptAnswered(a, n) PROVE DecisionEffect
  <2>1. att[a].pc = "accept" /\ UNCHANGED <<running, kv, leader, ver>>
        /\ att' = [att EXCEPT ![a] = Acked(att[a], n)]
    BY <1>3 DEF AcceptAnswered, Calls
  <2>2. votes' = votes \cup {<<n, att[a].key, att[a].round, Chosen(att[a])>>}
    BY <1>3 DEF AcceptAnswered, HandleAccept
  <2>3. n \in VotersOf(att[a], votes') /\ votes \subseteq votes'
    BY <2>2 DEF VotersOf
  <2>4. Sound(att[a], votes')
    BY <1>1, <2>3, DecidedForGood
  <2>5. Sound(Acked(att[a], n), votes') /\ Settled(Acked(att[a], n)) /\ SameChoice(att[a], Acked(att[a], n))
    BY <1>1, <2>1, <2>3, <2>4, AckedSound, AckedTask
  <2>6. AttemptsSound /\ DOMAIN att' = DOMAIN att
    BY <2>1, <2>3, <2>5, OneAttempt
  <2>7. NewHandlers
    BY <2>1, OldHandlers
  <2> QED BY <2>1, <2>3, <2>6, <2>7 DEF DecisionEffect, StoresDecided
<1>4. ASSUME SuccessCalled(a, n) PROVE DecisionEffect
  <2>1. att[a].pc = "success" /\ UNCHANGED <<votes, kv, leader, ver>>
    BY <1>4 DEF SuccessCalled, Calls
  <2>2. running' = running \/ running' = running \cup {<<a, "store", n>>}
    BY <1>4 DEF SuccessCalled
  <2>3. \/ att' = [att EXCEPT ![a] = Waiting(att[a])]
        \/ att' = [att EXCEPT ![a] = Passed(att[a], n)]
    BY <1>4 DEF SuccessCalled
  <2>4. /\ Sound(Waiting(att[a]), votes) /\ Settled(Waiting(att[a])) /\ SameChoice(att[a], Waiting(att[a]))
        /\ Sound(Passed(att[a], n), votes) /\ SameChoice(att[a], Passed(att[a], n))
        /\ Settled(Passed(att[a], n))
    BY <1>1, <2>1, StoringSound, StoringTask, PassedSound, PassedTask DEF Waits, Settled
  <2>5. AttemptsSound /\ DOMAIN att' = DOMAIN att
    BY <2>1, <2>3, <2>4, OneAttempt
  <2>6. NewHandlers
    BY <2>1, <2>2, OldHandlers
  <2> QED BY <2>1, <2>5, <2>6 DEF DecisionEffect, StoresDecided
<1> QED BY <1>2, <1>3, <1>4

\* The calls that fail.
LEMMA FailedDecides ==
  ASSUME TypeInv, DecisionInv, NEW a \in DOMAIN att, NEW n \in Node
  PROVE  /\ Unreachable(a, n) => DecisionEffect
         /\ RequestLost(a, n) => DecisionEffect
         /\ ReplyLost(a, n) => DecisionEffect
         /\ TimedOut(a, n) => DecisionEffect
         /\ StoreTimedOut(a, n) => DecisionEffect
<1>1. GoodTask(att[a]) /\ Sound(att[a], votes)
  BY DEF TypeInv, AttInv, DecisionInv
<1>2. ASSUME NEW pc \in Waits, Calls(a, n, pc), att' = [att EXCEPT ![a] = Passed(@, n)],
             votes \subseteq votes'
      PROVE  AttemptsSound /\ DOMAIN att' = DOMAIN att
  <2>1. att[a].pc \in Waits /\ att' = [att EXCEPT ![a] = Passed(att[a], n)]
    BY <1>2 DEF Calls
  <2>2. Sound(att[a], votes')
    BY <1>1, <1>2, DecidedForGood
  <2>3. /\ Sound(Passed(att[a], n), votes') /\ SameChoice(att[a], Passed(att[a], n))
        /\ Settled(att[a]) => Settled(Passed(att[a], n))
    BY <1>1, <2>1, <2>2, PassedSound, PassedTask
  <2> QED BY <1>2, <2>1, <2>3, OneAttempt
<1>3. ASSUME Unreachable(a, n) PROVE DecisionEffect
  <2>1. UNCHANGED <<votes, running, kv, leader, ver>>
    BY <1>3 DEF Unreachable
  <2>2. AttemptsSound /\ DOMAIN att' = DOMAIN att
    BY <1>2, <1>3, <2>1 DEF Unreachable, Waits
  <2> QED BY <2>1, <2>2, OldHandlers DEF DecisionEffect, StoresDecided
<1>4. ASSUME RequestLost(a, n) PROVE DecisionEffect
  <2>1. UNCHANGED <<votes, running, kv, leader, ver>>
    BY <1>4 DEF RequestLost
  <2>2. AttemptsSound /\ DOMAIN att' = DOMAIN att
    BY <1>2, <1>4, <2>1 DEF RequestLost, Waits
  <2> QED BY <2>1, <2>2, OldHandlers DEF DecisionEffect, StoresDecided
<1>5. ASSUME ReplyLost(a, n) PROVE DecisionEffect
  <2>1. UNCHANGED <<running, kv, leader, ver>> /\ votes \subseteq votes'
    BY <1>5 DEF ReplyLost, HandleAccept
  <2>2. AttemptsSound /\ DOMAIN att' = DOMAIN att
    BY <1>2, <1>5, <2>1 DEF ReplyLost, Waits
  <2> QED BY <2>1, <2>2, OldHandlers DEF DecisionEffect, StoresDecided
<1>6. ASSUME TimedOut(a, n) PROVE DecisionEffect
  <2>1. PICK pc \in Waits : Calls(a, n, pc) /\ running' = running \cup {<<a, pc, n>>}
    BY <1>6 DEF TimedOut, Waits
  <2>2. UNCHANGED <<votes, kv, leader, ver>>
    BY <1>6 DEF TimedOut
  <2>3. AttemptsSound /\ DOMAIN att' = DOMAIN att
    BY <1>2, <1>6, <2>1, <2>2 DEF TimedOut
  <2>4. att[a].pc = pc
    BY <2>1 DEF Calls
  <2>5. NewHandlers
    BY <2>1, <2>4, OldHandlers DEF Waits
  <2> QED BY <2>2, <2>3, <2>5 DEF DecisionEffect, StoresDecided
<1>7. ASSUME StoreTimedOut(a, n) PROVE DecisionEffect
  <2>1. UNCHANGED <<votes, running, kv, leader, ver>> /\ att[a].pc = "storing"
        /\ att' = [att EXCEPT ![a] = Resumed(att[a], n)]
    BY <1>7 DEF StoreTimedOut, Calls
  <2>2. Sound(Resumed(att[a], n), votes) /\ Settled(Resumed(att[a], n))
        /\ SameChoice(att[a], Resumed(att[a], n))
    BY <1>1, <2>1, StoringSound, StoringTask
  <2>3. AttemptsSound /\ DOMAIN att' = DOMAIN att
    BY <2>1, <2>2, OneAttempt
  <2> QED BY <2>1, <2>3, OldHandlers DEF DecisionEffect, StoresDecided
<1> QED BY <1>3, <1>4, <1>5, <1>6, <1>7

\* The handlers that run on their own: a late success stores what its proposer, long
\* gone, had settled.
LEMMA HandlerDecides ==
  ASSUME TypeInv, DecisionInv, NEW a \in DOMAIN att, NEW n \in Node
  PROVE  /\ Store(a, n) => DecisionEffect
         /\ LatePropose(a, n) => DecisionEffect
         /\ LateAccept(a, n) => DecisionEffect
         /\ LateSuccess(a, n) => DecisionEffect
<1>1. GoodTask(att[a]) /\ Sound(att[a], votes)
  BY DEF TypeInv, AttInv, DecisionInv
<1>2. ASSUME Store(a, n) PROVE DecisionEffect
  <2>1. UNCHANGED votes /\ running' \subseteq running /\ Assign(n, att[a])
    BY <1>2 DEF Store
  <2>2. IsDecided(att[a], votes)
    BY <1>2 DEF Store, DecisionInv, RunningDecided
  <2>3. \/ att[a].pc = "storing" /\ att' = [att EXCEPT ![a] = Resumed(att[a], n)]
        \/ att' = [att EXCEPT ![a] = att[a]]
    BY <1>2 DEF Store
  <2>4. att[a].pc = "storing" =>
          /\ Sound(Resumed(att[a], n), votes) /\ Settled(Resumed(att[a], n))
          /\ SameChoice(att[a], Resumed(att[a], n))
    BY <1>1, StoringSound, StoringTask
  <2>5. SameChoice(att[a], att[a])
    BY DEF SameChoice, SameRequest
  <2>6. AttemptsSound /\ DOMAIN att' = DOMAIN att
    BY <1>1, <2>1, <2>3, <2>4, <2>5, OneAttempt
  <2>7. NewHandlers
    BY <2>1, OldHandlers
  <2> QED BY <2>1, <2>2, <2>6, <2>7 DEF DecisionEffect, StoresDecided
<1>3. ASSUME LatePropose(a, n) PROVE DecisionEffect
  <2>1. UNCHANGED <<votes, att, kv, leader, ver>> /\ running' \subseteq running
    BY <1>3 DEF LatePropose
  <2>2. AttemptsSound /\ NewHandlers
    BY <2>1, NoAttempt, OldHandlers
  <2> QED BY <2>1, <2>2 DEF DecisionEffect, StoresDecided
<1>4. ASSUME LateAccept(a, n) PROVE DecisionEffect
  <2>1. UNCHANGED <<att, kv, leader, ver>> /\ running' \subseteq running /\ votes \subseteq votes'
    BY <1>4 DEF LateAccept, HandleAccept
  <2>2. AttemptsSound /\ NewHandlers
    BY <2>1, NoAttempt, OldHandlers
  <2> QED BY <2>1, <2>2 DEF DecisionEffect, StoresDecided
<1>5. ASSUME LateSuccess(a, n) PROVE DecisionEffect
  <2>1. UNCHANGED <<votes, att, kv, leader, ver>> /\ <<a, "success", n>> \in running
        /\ running' \subseteq running \cup {<<a, "store", n>>}
    BY <1>5 DEF LateSuccess
  <2>2. AttemptsSound
    BY <2>1, NoAttempt
  <2>3. NewHandlers
    BY <2>1, OldHandlers
  <2> QED BY <2>1, <2>2, <2>3 DEF DecisionEffect, StoresDecided
<1> QED BY <1>2, <1>3, <1>4, <1>5

\* A crash leaves votes and stores as they are.
LEMMA CrashDecides ==
  ASSUME TypeInv, DecisionInv, NEW n \in Node, Crash(n)
  PROVE  DecisionEffect
<1>1. UNCHANGED <<votes, kv, leader, ver>> /\ running' \subseteq running /\ DOMAIN att' = DOMAIN att
  BY DEF Crash
<1>2. ASSUME NEW a \in DOMAIN att
      PROVE  Sound(att'[a], votes) /\ (Settled(att[a]) => SameChoice(att[a], att'[a]) /\ Settled(att'[a]))
  <2> DEFINE u == [att[a] EXCEPT !.pc = "dead", !.live = {}]
  <2>1. att'[a] = u \/ att'[a] = att[a]
    BY DEF Crash
  <2>2. GoodTask(att[a]) /\ Sound(att[a], votes)
    BY DEF TypeInv, AttInv, DecisionInv
  <2>3. SameChoice(att[a], u) /\ u.acked = att[a].acked /\ u.pc = "dead"
    BY <2>2 DEF GoodTask, Task, SameChoice, SameRequest
  <2> HIDE DEF u
  <2>4. Sound(u, votes) /\ Settled(u)
    BY <2>2, <2>3, SameVoters DEF Sound, Settled
  <2> QED BY <2>1, <2>2, <2>3, <2>4 DEF SameChoice, SameRequest
<1>3. AttemptsSound
  BY <1>1, <1>2 DEF AttemptsSound
<1> QED BY <1>1, <1>3, OldHandlers DEF DecisionEffect, StoresDecided

\* A new attempt has no acceptances yet, and changes nothing else.
LEMMA BeginDecides ==
  ASSUME TypeInv, TypeInv', DecisionInv, NEW n \in Node, NEW k \in Key, NEW v \in Payload, NEW by,
         Begin(n, k, v, by)
  PROVE  DecisionInv'
<1> DEFINE t == [pc |-> "ping", by |-> by, node |-> n, key |-> k, value |-> v,
                 round |-> NumKnown(log[n][k]), live |-> {}, todo |-> {}, promised |-> 0,
                 accepted_id |-> 0, accepted_value |-> Nothing, acked |-> {}]
<1>1. Len(att) \in Nat /\ DOMAIN att = 1 .. Len(att) /\ att \in Seq(Task)
  BY DEF TypeInv, AttInv
<1>2. att' = Append(att, t) /\ UNCHANGED <<votes, running, kv, leader, ver>>
  BY DEF Begin
<1>3. Sound(t, votes)
  BY DEF Sound, Settled
<1> HIDE DEF t
<1>4. DOMAIN att' = 1 .. Len(att) + 1 /\ att'[Len(att) + 1] = t
      /\ \A a \in DOMAIN att : att'[a] = att[a]
  BY <1>1, <1>2
<1>5. \A a \in DOMAIN att' : Sound(att'[a], votes')
  BY <1>1, <1>2, <1>3, <1>4 DEF DecisionInv
<1>6. RunningDecided'
  <2> SUFFICES ASSUME NEW a \in DOMAIN att', NEW m \in Node,
                      <<a, "success", m>> \in running \/ <<a, "store", m>> \in running
               PROVE  Settled(att'[a]) /\ IsDecided(att'[a], votes)
    BY <1>2 DEF RunningDecided
  <2>1. a \in DOMAIN att
    BY DEF TypeInv, RestInv
  <2> QED BY <1>4, <2>1 DEF DecisionInv, RunningDecided
<1>7. StoredIsDecided'
  BY <1>2, KeepDecided
<1> QED BY <1>5, <1>6, <1>7 DEF DecisionInv

\* Every step keeps the invariant.
LEMMA NextDecides ==
  ASSUME TypeInv, TypeInv', DecisionInv, [Next]_vars
  PROVE  DecisionInv'
<1>1. ASSUME UNCHANGED vars PROVE DecisionEffect
  <2>1. UNCHANGED <<votes, running, att, kv, leader, ver>>
    BY <1>1 DEF vars
  <2> QED BY <2>1, NoAttempt, OldHandlers DEF DecisionEffect, StoresDecided
<1>2. CASE BeginStep
  BY <1>2, BeginDecides DEF BeginStep
<1>3. CASE \E a \in DOMAIN att : Ping(a) \/ Return(a)
  BY <1>3, PingDecides, ReturnDecides, DecisionStep
<1>4. CASE \E a \in DOMAIN att, n \in Node : ProposerStep(a, n) \/ HandlerStep(a, n)
  BY <1>4, AnsweredDecides, FailedDecides, HandlerDecides, DecisionStep DEF ProposerStep, HandlerStep
<1>5. CASE \E n \in Crashable : Crash(n)
  BY <1>5, CrashDecides, DecisionStep, ConstantsAssumption
<1>6. CASE Idle \/ UNCHANGED vars
  BY <1>1, <1>6, DecisionStep DEF Idle
<1> QED BY <1>2, <1>3, <1>4, <1>5, <1>6, RequestBegins DEF Next

\* At first nothing is proposed, counted or stored.
LEMMA InitDecides == Init => DecisionInv
BY DEF Init, DecisionInv, RunningDecided, StoredIsDecided

\* The inductive form: proposers and handlers, too, are about to store only what is decided.
LEMMA DecisionInvariant == Spec => []DecisionInv
<1>1. Init => DecisionInv
  BY InitDecides
<1>2. TypeInv /\ TypeInv' /\ DecisionInv /\ [Next]_vars => DecisionInv'
  BY NextDecides
<1>3. Spec => []TypeInv
  BY TypeInvariant
<1> QED BY <1>1, <1>2, <1>3, PTL DEF Spec

\* Whatever calls are lost or late, whoever proposes and crashes, and however many at
\* a time: what a replica stores, and the leader it takes, a quorum has accepted.
THEOREM StoresAreDecided == Spec => []StoredIsDecided
<1>1. DecisionInv => StoredIsDecided
  BY DEF DecisionInv
<1> QED BY <1>1, DecisionInvariant, PTL

-----------------------------------------------------------------------------
(* What no step undoes.                                                    *)

\* What a step of the protocol never undoes: votes, attempts and having a leader.
Grows ==
  /\ votes \subseteq votes'
  /\ DOMAIN att \subseteq DOMAIN att'
  /\ \A a \in DOMAIN att : SameRequest(att[a], att'[a])
  /\ \A n \in Node : leader[n] # Nothing => leader'[n] # Nothing

\* An election that succeeds leaves its candidate with a leader.
OkHasLeader ==
  \A a \in DOMAIN att :
    att'[a].pc = "ok" /\ att[a].by = "elect_leader" =>
      att[a].pc = "ok" \/ leader'[att[a].node] # Nothing

\* Only its return makes an attempt succeed: no other step of its proposer does.
LEMMA NotYetOk ==
  ASSUME NEW t, GoodTask(t), NEW n
  PROVE  /\ t.pc \in Waits => Passed(t, n).pc # "ok"
         /\ t.pc = "accept" /\ n \in Node => Acked(t, n).pc # "ok"
         /\ Waiting(t).pc # "ok" /\ Resumed(t, n).pc # "ok"
<1>1. ASSUME NEW u, GoodTask(u), u.pc \in Waits PROVE Advance(u).pc # "ok"
  BY <1>1, AdvancePhase DEF Waits
<1>2. ASSUME NEW u, GoodTask(u), u.pc \in Waits PROVE Passed(u, n).pc # "ok"
  <2> DEFINE w == [u EXCEPT !.todo = @ \ {n}]
  <2>1. GoodTask(w) /\ w.pc \in Waits
    BY <1>2 DEF GoodTask, Task
  <2> HIDE DEF w
  <2>2. Passed(u, n) = Advance(w)
    BY DEF Passed, w
  <2> QED BY <1>1, <2>1, <2>2
<1>3. ASSUME t.pc = "accept", n \in Node PROVE Acked(t, n).pc # "ok"
  <2> DEFINE w == [t EXCEPT !.todo = @ \ {n}, !.acked = @ \cup {n}]
  <2>1. GoodTask(w) /\ w.pc \in Waits
    BY <1>3 DEF GoodTask, Task, Waits
  <2> HIDE DEF w
  <2>2. Acked(t, n) = Advance(w)
    BY DEF Acked, w
  <2> QED BY <1>1, <2>1, <2>2
<1>4. Waiting(t).pc # "ok"
  BY DEF Waiting, GoodTask, Task
<1>5. Resumed(t, n).pc # "ok"
  <2> DEFINE w == [t EXCEPT !.pc = "success"]
  <2>1. GoodTask(w) /\ w.pc \in Waits
    BY DEF GoodTask, Task, Waits, Stage
  <2> HIDE DEF w
  <2> QED BY <1>2, <2>1 DEF Resumed, w
<1> QED BY <1>2, <1>3, <1>4, <1>5

\* Nor does an answer to propose.
LEMMA PromisedNotOk ==
  ASSUME NEW t, GoodTask(t), t.pc = "propose", NEW n, NEW e \in EntryType,
         e.a_server_id > 0 => e.accepted_value \in Payload
  PROVE  Promised(t, n, e).pc # "ok"
<1> DEFINE u == Promised(t, n, e)
           before == [t EXCEPT
             !.todo = @ \ {n},
             !.promised = @ + 1,
             !.accepted_value = IF e.a_server_id > t.accepted_id THEN e.accepted_value ELSE @,
             !.accepted_id = IF e.a_server_id > @ THEN e.a_server_id ELSE @]
<1>1. u = Advance(before) /\ before.pc = "propose"
  BY DEF Promised, GoodTask, Task
<1>2. GoodTask(u)
  BY PromisedTask
<1> HIDE DEF before
<1>3. u.pc \in {"propose", "accept", "fail"}
  BY <1>1, <1>2 DEF Advance, Promised
<1> QED BY <1>3

\* A step of one attempt that does not return it.
LEMMA OneNotOk ==
  ASSUME TypeInv, NEW a \in DOMAIN att, NEW u, att' = [att EXCEPT ![a] = u],
         u.pc # "ok"
  PROVE  OkHasLeader
BY DEF OkHasLeader, TypeInv, AttInv

\* Storing never leaves a replica without the leader it had.
LEMMA AssignLeads ==
  ASSUME TypeInv, NEW a \in DOMAIN att, NEW n \in Node, Assign(n, att[a])
  PROVE  /\ \A m \in Node : leader[m] # Nothing => leader'[m] # Nothing
         /\ att[a].key = LeaderKey => leader'[n] # Nothing
<1>1. Chosen(att[a]) # Nothing
  BY ChosenPayload, ConstantsAssumption DEF TypeInv, AttInv
<1> QED BY <1>1 DEF Assign, TypeInv, RestInv

VotesAndLeadersStay ==
  votes \subseteq votes' /\ \A n \in Node : leader[n] # Nothing => leader'[n] # Nothing

\* The proposer's own steps.
LEMMA OwnStepsGrow ==
  ASSUME TypeInv, NEW a \in DOMAIN att
  PROVE  /\ Ping(a) => VotesAndLeadersStay /\ OkHasLeader
         /\ Return(a) => VotesAndLeadersStay /\ OkHasLeader
<1> DEFINE t == att[a]
<1>1. GoodTask(t) /\ t.node \in Node
  BY DEF TypeInv, AttInv, GoodTask, Task
<1>2. ASSUME Ping(a) PROVE VotesAndLeadersStay /\ OkHasLeader
  <2>1. PICK live : \/ att' = [att EXCEPT ![a] = [t EXCEPT !.pc = "propose", !.live = live, !.todo = live]]
                    \/ att' = [att EXCEPT ![a] = [t EXCEPT !.pc = "fail"]]
    BY <1>2 DEF Ping
  <2>2. /\ [t EXCEPT !.pc = "propose", !.live = live, !.todo = live].pc # "ok"
        /\ [t EXCEPT !.pc = "fail"].pc # "ok"
    BY <1>1 DEF GoodTask, Task
  <2> HIDE DEF t
  <2>3. OkHasLeader
    BY <2>1, <2>2, OneNotOk
  <2> QED BY <1>2, <2>3 DEF Ping, VotesAndLeadersStay
<1>3. ASSUME Return(a) PROVE VotesAndLeadersStay /\ OkHasLeader
  <2>1. UNCHANGED <<leader>> \/ Assign(t.node, t)
    BY <1>3 DEF Return
  <2>2. VotesAndLeadersStay
    BY <1>1, <1>3, <2>1, AssignLeads DEF Return, VotesAndLeadersStay
  <2>3. t.by = "elect_leader" => leader'[t.node] # Nothing
    BY <1>1, <1>3, AssignLeads DEF Return, GoodTask, Asked
  <2>4. \A b \in DOMAIN att : b # a => att'[b] = att[b]
    BY <1>3 DEF Return
  <2>5. OkHasLeader
    BY <2>3, <2>4 DEF OkHasLeader
  <2> QED BY <2>2, <2>5
<1> QED BY <1>2, <1>3

\* The calls, answered or not.
LEMMA CallsGrow ==
  ASSUME TypeInv, NEW a \in DOMAIN att, NEW n \in Node, ProposerStep(a, n)
  PROVE  VotesAndLeadersStay /\ OkHasLeader
<1>1. GoodTask(att[a])
  BY DEF TypeInv, AttInv
<1>2. VotesAndLeadersStay
  BY DEF ProposerStep, ProposeAnswered, AcceptAnswered, SuccessCalled, Unreachable, RequestLost,
         ReplyLost, TimedOut, StoreTimedOut, HandleAccept, VotesAndLeadersStay
<1>3. CASE ProposeAnswered(a, n)
  <2> DEFINE e == EntryAt(log[n][att[a].key], att[a].round)
  <2>1. att[a].pc = "propose"
    BY <1>3 DEF ProposeAnswered, Calls
  <2>2. att[a].key \in Key /\ att[a].round \in Round
    BY <1>1 DEF GoodTask, Task
  <2>3. log[n][att[a].key] \in LogType /\ FullEntries(log[n][att[a].key])
    BY <2>2 DEF TypeInv, LogInv
  <2>4. NewEntry \in EntryType /\ ~ (NewEntry.a_server_id > 0)
    BY DEF NewEntry, EntryType, Entry, ProposeId
  <2>5. e \in EntryType /\ (e.a_server_id > 0 => e.accepted_value \in Payload)
    BY <2>2, <2>3, <2>4 DEF EntryAt, LogType, FullEntries, Known
  <2>6. \/ att' = [att EXCEPT ![a] = Passed(att[a], n)]
        \/ att' = [att EXCEPT ![a] = Promised(att[a], n, e)]
    BY <1>3 DEF ProposeAnswered
  <2> HIDE DEF e
  <2>7. Passed(att[a], n).pc # "ok" /\ Promised(att[a], n, e).pc # "ok"
    BY <1>1, <2>1, <2>5, NotYetOk, PromisedNotOk DEF Waits
  <2> QED BY <1>2, <2>6, <2>7, OneNotOk
<1>4. CASE AcceptAnswered(a, n)
  <2>1. att[a].pc = "accept" /\ att' = [att EXCEPT ![a] = Acked(att[a], n)]
    BY <1>4 DEF AcceptAnswered, Calls
  <2> QED BY <1>1, <1>2, <2>1, NotYetOk, OneNotOk
<1>5. CASE ~ ProposeAnswered(a, n) /\ ~ AcceptAnswered(a, n)
  <2>1. \/ att' = [att EXCEPT ![a] = Waiting(att[a])]
        \/ att[a].pc \in Waits /\ att' = [att EXCEPT ![a] = Passed(att[a], n)]
        \/ att' = [att EXCEPT ![a] = Resumed(att[a], n)]
    BY <1>5 DEF ProposerStep, SuccessCalled, Unreachable, RequestLost, ReplyLost, TimedOut,
                StoreTimedOut, Calls, Waits
  <2> QED BY <1>1, <1>2, <2>1, NotYetOk, OneNotOk
<1> QED BY <1>3, <1>4, <1>5

\* Handlers that run on their own.
LEMMA HandlersGrow ==
  ASSUME TypeInv, NEW a \in DOMAIN att, NEW n \in Node, HandlerStep(a, n)
  PROVE  VotesAndLeadersStay /\ OkHasLeader
<1>1. CASE Store(a, n)
  <2>1. VotesAndLeadersStay
    BY <1>1, AssignLeads DEF Store, VotesAndLeadersStay
  <2>2. \/ att' = [att EXCEPT ![a] = Resumed(att[a], n)]
        \/ att' = [att EXCEPT ![a] = att[a]]
    BY <1>1 DEF Store
  <2>3. GoodTask(att[a])
    BY DEF TypeInv, AttInv
  <2>4. CASE att' = [att EXCEPT ![a] = att[a]]
    BY <2>1, <2>4 DEF OkHasLeader, TypeInv, AttInv
  <2>5. CASE att' = [att EXCEPT ![a] = Resumed(att[a], n)]
    BY <2>1, <2>3, <2>5, NotYetOk, OneNotOk
  <2> QED BY <2>2, <2>4, <2>5
<1>2. CASE ~ Store(a, n)
  BY <1>2 DEF HandlerStep, LatePropose, LateAccept, LateSuccess, HandleAccept,
              VotesAndLeadersStay, OkHasLeader
<1> QED BY <1>1, <1>2

\* A request undoes nothing.
LEMMA BeginGrows ==
  ASSUME TypeInv, NEW n \in Node, NEW k \in Key, NEW v \in Payload, NEW by,
         Begin(n, k, v, by)
  PROVE  Grows /\ OkHasLeader
<1>1. UNCHANGED <<leader, votes>> /\ DOMAIN att \subseteq DOMAIN att'
      /\ \A a \in DOMAIN att : att'[a] = att[a]
  BY DEF Begin, TypeInv, AttInv
<1> QED BY <1>1 DEF Grows, OkHasLeader, SameRequest

\* Nor does a crash.
LEMMA CrashGrows ==
  ASSUME TypeInv, NEW n, Crash(n)
  PROVE  VotesAndLeadersStay /\ OkHasLeader
<1>1. \A a \in DOMAIN att : att'[a] = att[a] \/ att'[a].pc = "dead"
  BY DEF Crash, TypeInv, AttInv, GoodTask, Task
<1> QED BY <1>1 DEF Crash, VotesAndLeadersStay, OkHasLeader

\* No step of the protocol undoes votes, attempts or having a leader.
LEMMA NextGrows ==
  ASSUME TypeInv, [Next]_vars
  PROVE  Grows /\ OkHasLeader
<1>1. CASE BeginStep
  BY <1>1, BeginGrows DEF BeginStep
<1>2. CASE ~ BeginStep
  <2>1. AttStep
    BY <1>2, StepEffect DEF Effect
  <2>2. ASSUME UNCHANGED vars PROVE VotesAndLeadersStay /\ OkHasLeader
    BY <2>2 DEF vars, VotesAndLeadersStay, OkHasLeader
  <2>3. ASSUME NEW n \in Crashable, Crash(n) PROVE VotesAndLeadersStay /\ OkHasLeader
    BY <2>3, CrashGrows
  <2>4. VotesAndLeadersStay /\ OkHasLeader
    BY <1>2, <2>2, <2>3, OwnStepsGrow, CallsGrow, HandlersGrow, RequestBegins DEF Next, Idle
  <2> QED BY <2>1, <2>4 DEF Grows, VotesAndLeadersStay, AttStep
<1> QED BY <1>1, <1>2

\* An attempt that has succeeded has succeeded for good.
OkForGood == \A a \in DOMAIN att : att[a].pc = "ok" => att'[a].pc = "ok"

\* No proposer takes another step once it has returned, nor does a crash undo it.
LEMMA NextOkForGood ==
  ASSUME TypeInv, [Next]_vars
  PROVE  OkForGood
<1> SUFFICES ASSUME NEW b \in DOMAIN att, att[b].pc = "ok"
             PROVE  att'[b].pc = "ok"
  BY DEF OkForGood
<1>1. att \in Seq(Task) /\ ~ Active(b)
  BY DEF TypeInv, AttInv, Active, Stage
<1>2. ASSUME NEW a \in DOMAIN att, NEW u, att[a].pc # "ok", att' = [att EXCEPT ![a] = u]
      PROVE  att'[b] = att[b]
  BY <1>1, <1>2
<1>3. CASE BeginStep
  BY <1>1, <1>3 DEF BeginStep, Begin
<1>4. CASE \E a \in DOMAIN att : Ping(a) \/ Return(a)
  <2>1. PICK a \in DOMAIN att : att[a].pc # "ok" /\ \E u : att' = [att EXCEPT ![a] = u]
    BY <1>4 DEF Ping, Return
  <2> QED BY <1>2, <2>1
<1>5. CASE \E a \in DOMAIN att, n \in Node : ProposerStep(a, n)
  <2>1. PICK a \in DOMAIN att : att[a].pc # "ok" /\ \E u : att' = [att EXCEPT ![a] = u]
    BY <1>5 DEF ProposerStep, ProposeAnswered, AcceptAnswered, SuccessCalled, Unreachable,
                RequestLost, ReplyLost, TimedOut, StoreTimedOut, Calls
  <2> QED BY <1>2, <2>1
<1>6. CASE \E a \in DOMAIN att, n \in Node : HandlerStep(a, n)
  <2>1. PICK a \in DOMAIN att, n \in Node : HandlerStep(a, n)
    BY <1>6
  <2>2. CASE Store(a, n)
    <3>1. \/ att[a].pc = "storing" /\ att' = [att EXCEPT ![a] = Resumed(att[a], n)]
          \/ att' = [att EXCEPT ![a] = att[a]]
      BY <2>2 DEF Store
    <3> QED BY <1>1, <1>2, <3>1
  <2>3. CASE ~ Store(a, n)
    BY <2>1, <2>3 DEF HandlerStep, LatePropose, LateAccept, LateSuccess
  <2> QED BY <2>2, <2>3
<1>7. CASE \E n \in Crashable : Crash(n)
  BY <1>1, <1>7 DEF Crash
<1>8. CASE Idle \/ UNCHANGED vars
  BY <1>8 DEF Idle, vars
<1> QED BY <1>3, <1>4, <1>5, <1>6, <1>7, <1>8, RequestBegins DEF Next

-----------------------------------------------------------------------------
(* The latest of a set of rounds.                                          *)

\* A set of rounds has a latest one, or is empty.
LEMMA LatestExists ==
  ASSUME NEW S \in SUBSET Round
  PROVE  \E r \in S \cup {-1} : \A s \in S : s <= r
<1> DEFINE Below == {b \in Nat : \A s \in S : s < b}
<1>1. MaxAttempts \in Below
  BY ConstantsAssumption DEF Round
<1>2. PICK b \in Below : \A c \in Below : ~ (<<c, b>> \in OpToRel(<, Nat))
  BY <1>1, NatLessThanWellFounded, WFMin
<1>3. \A c \in Below : ~ (c < b)
  BY <1>2 DEF OpToRel
<1>4. b - 1 \in S \cup {-1}
  <2>1. CASE b = 0
    BY <2>1
  <2>2. CASE b # 0
    <3>1. b - 1 \in Nat /\ ~ (b - 1 \in Below)
      BY <1>3, <2>2
    <3>2. PICK s \in S : ~ (s < b - 1)
      BY <3>1
    <3> QED BY <3>2 DEF Round
  <2> QED BY <2>1, <2>2
<1>5. \A s \in S : s <= b - 1
  BY DEF Round
<1> QED BY <1>4, <1>5

\* The latest of a set of rounds is one of them, or -1 if there is none.
LEMMA LatestIsRound ==
  ASSUME NEW S \in SUBSET Round
  PROVE  Latest(S) \in S \cup {-1}
<1>1. \E r \in S \cup {-1} : \A s \in S : s <= r
  BY LatestExists
<1> QED BY <1>1 DEF Latest

\* No round of the set is later.
LEMMA LatestIsLast ==
  ASSUME NEW S \in SUBSET Round
  PROVE  \A s \in S : s <= Latest(S)
<1>1. \E r \in S \cup {-1} : \A s \in S : s <= r
  BY LatestExists
<1> QED BY <1>1 DEF Latest

-----------------------------------------------------------------------------
(* Validity: the logs, stores and leaders hold, for a key, only what a     *)
(* request for that key asked for.                                         *)

\* What an attempt proposes, and the value it has adopted, are among the values V.
Backed(t, V) == t.value \in V /\ (t.accepted_id > 0 => t.accepted_value \in V)

\* The values a log has accepted are among V.
BackedLog(lg, V) == \A r \in Known(lg) : lg[r].a_server_id > 0 => lg[r].accepted_value \in V

\* What a replica may take for the leader.
AskedFor == Requested(LeaderKey) \cup Flagged \cup {Nothing}

AttsValid == \A a \in DOMAIN att, k \in Key : att[a].key = k => Backed(att[a], Requested(k))
LogsValid == \A n \in Node, k \in Key : BackedLog(log[n][k], Requested(k))
StoresValid == \A n \in Node, k \in DataKey : ver[n][k] # -1 => kv[n][k] \in Requested(k)
LeadersValid == \A n \in Node : leader[n] \in AskedFor

ValidInv == AttsValid /\ LogsValid /\ StoresValid /\ LeadersValid

-----------------------------------------------------------------------------
(* Attempts and logs, one at a time.                                       *)

\* The value of accept_request is the request's own or the one adopted.
LEMMA ChosenBacked ==
  ASSUME NEW t, NEW V, Backed(t, V)
  PROVE  Chosen(t) \in V
BY DEF Backed, Chosen

\* An attempt that keeps its choice stays backed.
LEMMA SameBacked ==
  ASSUME NEW t, NEW u, SameChoice(t, u), NEW V, Backed(t, V)
  PROVE  Backed(u, V)
BY DEF Backed, SameChoice, SameRequest

\* Adopting a value from a log that holds only values of V.
LEMMA PromisedBacked ==
  ASSUME NEW t, GoodTask(t), t.pc = "propose", NEW n, NEW e \in EntryType,
         NEW V, V \subseteq Payload, e.a_server_id > 0 => e.accepted_value \in V, Backed(t, V)
  PROVE  Backed(Promised(t, n, e), V)
<1> DEFINE u == [t EXCEPT
    !.todo = @ \ {n},
    !.promised = @ + 1,
    !.accepted_value = IF e.a_server_id > t.accepted_id THEN e.accepted_value ELSE @,
    !.accepted_id = IF e.a_server_id > @ THEN e.a_server_id ELSE @]
<1>1. Promised(t, n, e) = Advance(u)
  BY DEF Promised
<1>2. Backed(u, V)
  BY DEF Backed, GoodTask, Task, EntryType, Entry, ProposeId
<1>3. u.pc = "propose"
  BY DEF GoodTask, Task
<1> HIDE DEF u
<1>4. Backed([u EXCEPT !.pc = "accept", !.todo = u.live], V) /\ Backed([u EXCEPT !.pc = "fail", !.live = {}], V)
  BY <1>2 DEF Backed
<1> QED BY <1>1, <1>2, <1>3, <1>4 DEF Advance

\* Set_Log(key, round) accepts nothing.
LEMMA TouchBacked ==
  ASSUME NEW lg \in LogType, NEW r \in Round, NEW V, BackedLog(lg, V)
  PROVE  BackedLog(Touch(lg, r), V)
<1>1. ~ (NewEntry.a_server_id > 0)
  BY DEF NewEntry
<1> QED BY <1>1 DEF BackedLog, Touch, EntryAt, Known, LogType

\* Set_Log with a value of V accepts no other.
LEMMA AcceptBacked ==
  ASSUME NEW lg \in LogType, NEW r \in Round, NEW V, NEW v \in V, BackedLog(lg, V)
  PROVE  BackedLog(Accept(lg, r, v), V)
<1> DEFINE e == [EntryAt(lg, r) EXCEPT !.a_server_id = ProposeId, !.accepted_value = v]
<1>1. EntryAt(lg, r) \in EntryType
  BY DEF EntryAt, NewEntry, LogType, EntryType, Entry, ProposeId
<1>2. e.accepted_value = v
  BY <1>1 DEF EntryType, Entry
<1> HIDE DEF e
<1>3. Accept(lg, r, v) = [lg EXCEPT ![r] = e]
  BY DEF Accept, e
<1> QED BY <1>2, <1>3 DEF BackedLog, Known, LogType

-----------------------------------------------------------------------------
(* What a step does to attempts, logs and stores.                          *)

AttsBacked == \A a \in DOMAIN att, k \in Key : att[a].key = k => Backed(att'[a], Requested(k))
LogsBacked == \A n \in Node, k \in Key : BackedLog(log'[n][k], Requested(k))
StoresBacked ==
  \/ UNCHANGED <<kv, leader, ver>>
  \/ \E a \in DOMAIN att, n \in Node : Assign(n, att[a])

ValidEffect == AttsBacked /\ LogsBacked /\ StoresBacked

\* What is asked for is of the protocol, never the empty string.
LEMMA RequestedPayload ==
  ASSUME TypeInv, NEW k
  PROVE  Requested(k) \subseteq Payload
BY DEF TypeInv, AttInv, GoodTask, Task, Requested

\* No step takes a request back.
LEMMA SameRequests ==
  ASSUME AttStep, NEW k
  PROVE  Requested(k)' = Requested(k)
BY DEF AttStep, SameRequest, Requested

\* The attempts, when one of them keeps its choice or adopts a value asked for.
LEMMA OneBacked ==
  ASSUME TypeInv, ValidInv, NEW a \in DOMAIN att, NEW u, att' = [att EXCEPT ![a] = u],
         SameChoice(att[a], u) \/ Backed(u, Requested(att[a].key))
  PROVE  AttsBacked
<1> SUFFICES ASSUME NEW b \in DOMAIN att, NEW k \in Key, att[b].key = k
             PROVE  Backed(att'[b], Requested(k))
  BY DEF AttsBacked
<1>1. Backed(att[b], Requested(k))
  BY DEF ValidInv, AttsValid
<1>2. att'[b] = IF b = a THEN u ELSE att[b]
  BY DEF TypeInv, AttInv
<1> QED BY <1>1, <1>2, SameBacked

\* The attempts, when none of them moves on.
LEMMA NoneBacked ==
  ASSUME ValidInv, UNCHANGED att
  PROVE  AttsBacked
BY DEF ValidInv, AttsValid, AttsBacked

\* The logs, when no handler runs.
LEMMA NoLogBacked ==
  ASSUME ValidInv, UNCHANGED log
  PROVE  LogsBacked
BY DEF ValidInv, LogsValid, LogsBacked

\* The logs, when the handler of one call runs.
LEMMA HandlersBacked ==
  ASSUME TypeInv, ValidInv, NEW a \in DOMAIN att, NEW n \in Node
  PROVE  /\ HandlePropose(a, n) => LogsBacked
         /\ HandleAccept(a, n) => LogsBacked
         /\ LogSuccess(a, n) => LogsBacked
<1> DEFINE k == att[a].key
           r == att[a].round
           c == Chosen(att[a])
<1>1. k \in Key /\ r \in Round
  BY DEF TypeInv, AttInv, GoodTask, Task
<1>2. c \in Requested(k)
  BY <1>1, ChosenBacked DEF ValidInv, AttsValid
<1>3. log \in [Node -> [Key -> LogType]] /\ log[n][k] \in LogType /\ BackedLog(log[n][k], Requested(k))
  BY <1>1 DEF TypeInv, LogInv, ValidInv, LogsValid
<1>4. ASSUME NEW lg, BackedLog(lg, Requested(k)), log' = [log EXCEPT ![n][k] = lg]
      PROVE  LogsBacked
  <2> HIDE DEF k
  <2> SUFFICES ASSUME NEW m \in Node, NEW j \in Key
               PROVE  BackedLog(log'[m][j], Requested(j))
    BY DEF LogsBacked
  <2>1. log'[m][j] = IF m = n /\ j = k THEN lg ELSE log[m][j]
    BY <1>1, <1>3, <1>4
  <2> QED BY <1>4, <2>1 DEF ValidInv, LogsValid
<1> DEFINE touched == Touch(log[n][k], r)
           accepted == Accept(log[n][k], r, c)
<1>5. BackedLog(touched, Requested(k)) /\ BackedLog(accepted, Requested(k))
  <2> HIDE DEF k, r, c
  <2> QED BY <1>1, <1>2, <1>3, TouchBacked, AcceptBacked
<1>6. HandlePropose(a, n) => log' = [log EXCEPT ![n][k] = touched]
  BY <1>1, <1>3 DEF HandlePropose
<1>7. HandleAccept(a, n) \/ LogSuccess(a, n) => log' = [log EXCEPT ![n][k] = accepted]
  BY <1>1, <1>3 DEF HandleAccept, LogSuccess
<1> HIDE DEF touched, accepted
<1> QED BY <1>4, <1>5, <1>6, <1>7

\* A store, or a leader taken, is what a request for its key asked for.
LEMMA AssignValid ==
  ASSUME TypeInv, ValidInv, NEW a \in DOMAIN att, NEW n \in Node, Assign(n, att[a])
  PROVE  /\ \A m \in Node, k \in DataKey : ver'[m][k] # -1 => kv'[m][k] \in Requested(k)
         /\ \A m \in Node : leader'[m] \in AskedFor
<1> DEFINE k == att[a].key
           r == att[a].round
           c == Chosen(att[a])
<1>1. k \in Key /\ r \in Round
  BY DEF TypeInv, AttInv, GoodTask, Task
<1>2. c \in Requested(k)
  BY <1>1, ChosenBacked DEF ValidInv, AttsValid
<1>3. /\ ver' = [ver EXCEPT ![n][k] = r]
      /\ k = LeaderKey => leader' = [leader EXCEPT ![n] = c] /\ UNCHANGED kv
      /\ k # LeaderKey => kv' = [kv EXCEPT ![n][k] = c] /\ UNCHANGED leader
  BY DEF Assign
<1> HIDE DEF k, r, c
<1>4. ASSUME NEW m \in Node PROVE leader'[m] \in AskedFor
  <2>1. leader[m] \in AskedFor
    BY DEF ValidInv, LeadersValid, AskedFor
  <2> QED BY <1>2, <1>3, <2>1 DEF TypeInv, RestInv, AskedFor
<1>5. ASSUME NEW m \in Node, NEW j \in DataKey, ver'[m][j] # -1 PROVE kv'[m][j] \in Requested(j)
  <2>1. j \in Key /\ j # LeaderKey
    BY ConstantsAssumption DEF Key
  <2>2. CASE m = n /\ j = k
    <3>1. kv'[m][j] = c
      BY <1>3, <2>1, <2>2 DEF TypeInv, RestInv
    <3> QED BY <1>2, <2>2, <3>1
  <2>3. CASE ~ (m = n /\ j = k)
    <3>1. ver'[m][j] = ver[m][j]
      BY <1>1, <1>3, <2>1, <2>3 DEF TypeInv, RestInv
    <3>2. kv'[m][j] = kv[m][j]
      <4>1. CASE k = LeaderKey
        BY <1>3, <4>1
      <4>2. CASE k # LeaderKey
        <5>1. k \in DataKey
          BY <1>1, <4>2 DEF Key
        <5> QED BY <1>3, <2>3, <4>2, <5>1 DEF TypeInv, RestInv
      <4> QED BY <4>1, <4>2
    <3> QED BY <1>5, <3>1, <3>2 DEF ValidInv, StoresValid
  <2> QED BY <2>2, <2>3
<1> QED BY <1>4, <1>5

\* A step with such an effect keeps the invariant.
LEMMA ValidStep ==
  ASSUME TypeInv, TypeInv', ValidInv, AttStep, ValidEffect
  PROVE  ValidInv'
<1>1. \A k : Requested(k)' = Requested(k)
  BY SameRequests
<1>2. AttsValid'
  BY <1>1 DEF AttsValid, ValidEffect, AttsBacked, AttStep, SameRequest
<1>3. LogsValid'
  BY <1>1 DEF LogsValid, ValidEffect, LogsBacked
<1>4. /\ \A m \in Node, k \in DataKey : ver'[m][k] # -1 => kv'[m][k] \in Requested(k)
      /\ \A m \in Node : leader'[m] \in AskedFor
  <2>1. CASE UNCHANGED <<kv, leader, ver>>
    BY <2>1 DEF ValidInv, StoresValid, LeadersValid, AskedFor
  <2>2. CASE \E a \in DOMAIN att, n \in Node : Assign(n, att[a])
    BY <2>2, AssignValid
  <2> QED BY <2>1, <2>2 DEF ValidEffect, StoresBacked
<1>5. StoresValid' /\ LeadersValid'
  BY <1>1, <1>4 DEF StoresValid, LeadersValid, AskedFor
<1> QED BY <1>2, <1>3, <1>5 DEF ValidInv

-----------------------------------------------------------------------------
(* Action by action.                                                       *)

\* The loop of pings and the return adopt nothing.
LEMMA OwnStepsValid ==
  ASSUME TypeInv, ValidInv, NEW a \in DOMAIN att
  PROVE  /\ Ping(a) => ValidEffect
         /\ Return(a) => ValidEffect
<1> DEFINE t == att[a]
<1>1. GoodTask(t) /\ t.node \in Node
  BY DEF TypeInv, AttInv, GoodTask, Task
<1>2. ASSUME Ping(a) PROVE ValidEffect
  <2>1. PICK live : \/ att' = [att EXCEPT ![a] = [t EXCEPT !.pc = "propose", !.live = live, !.todo = live]]
                    \/ att' = [att EXCEPT ![a] = [t EXCEPT !.pc = "fail"]]
    BY <1>2 DEF Ping
  <2>2. /\ SameChoice(t, [t EXCEPT !.pc = "propose", !.live = live, !.todo = live])
        /\ SameChoice(t, [t EXCEPT !.pc = "fail"])
    BY <1>1 DEF GoodTask, Task, SameChoice, SameRequest
  <2>3. UNCHANGED <<log, kv, leader, ver>>
    BY <1>2 DEF Ping
  <2> HIDE DEF t
  <2>4. AttsBacked
    BY <2>1, <2>2, OneBacked DEF t
  <2> QED BY <2>3, <2>4, NoLogBacked DEF ValidEffect, StoresBacked
<1>3. ASSUME Return(a) PROVE ValidEffect
  <2> DEFINE u == [t EXCEPT !.pc = "ok"]
  <2>1. SameChoice(t, u) /\ att' = [att EXCEPT ![a] = u]
    BY <1>1, <1>3 DEF Return, GoodTask, Task, SameChoice, SameRequest
  <2>2. UNCHANGED log /\ StoresBacked
    BY <1>1, <1>3 DEF Return, StoresBacked
  <2> HIDE DEF u
  <2>3. AttsBacked
    BY <2>1, OneBacked
  <2> QED BY <2>2, <2>3, NoLogBacked DEF ValidEffect
<1> QED BY <1>2, <1>3

\* The calls whose handlers run and answer: a promise brings back the value of an
\* entry of the same key.
LEMMA AnsweredValid ==
  ASSUME TypeInv, ValidInv, NEW a \in DOMAIN att, NEW n \in Node
  PROVE  /\ ProposeAnswered(a, n) => ValidEffect
         /\ AcceptAnswered(a, n) => ValidEffect
         /\ SuccessCalled(a, n) => ValidEffect
<1> DEFINE k == att[a].key
<1>1. GoodTask(att[a]) /\ k \in Key /\ att[a].round \in Round /\ Backed(att[a], Requested(k))
  BY DEF TypeInv, AttInv, GoodTask, Task, ValidInv, AttsValid
<1>2. ASSUME ProposeAnswered(a, n) PROVE ValidEffect
  <2> DEFINE e == EntryAt(log[n][k], att[a].round)
  <2>1. att[a].pc = "propose" /\ UNCHANGED <<kv, leader, ver>> /\ HandlePropose(a, n)
    BY <1>2 DEF ProposeAnswered, Calls
  <2>2. log[n][k] \in LogType /\ BackedLog(log[n][k], Requested(k))
    BY <1>1 DEF TypeInv, LogInv, ValidInv, LogsValid
  <2>3. NewEntry \in EntryType /\ ~ (NewEntry.a_server_id > 0)
    BY DEF NewEntry, EntryType, Entry, ProposeId
  <2>4. e \in EntryType /\ (e.a_server_id > 0 => e.accepted_value \in Requested(k))
    BY <1>1, <2>2, <2>3 DEF EntryAt, LogType, BackedLog, Known
  <2>5. \/ att' = [att EXCEPT ![a] = Passed(att[a], n)]
        \/ att' = [att EXCEPT ![a] = Promised(att[a], n, e)]
    BY <1>2 DEF ProposeAnswered
  <2> HIDE DEF e
  <2>6. SameChoice(att[a], Passed(att[a], n)) /\ Backed(Promised(att[a], n, e), Requested(k))
    BY <1>1, <2>1, <2>4, RequestedPayload, PassedTask, PromisedBacked DEF Waits
  <2>7. AttsBacked
    BY <2>5, <2>6, OneBacked
  <2> QED BY <2>1, <2>7, HandlersBacked DEF ValidEffect, StoresBacked
<1>3. ASSUME AcceptAnswered(a, n) PROVE ValidEffect
  <2>1. /\ att[a].pc = "accept" /\ UNCHANGED <<kv, leader, ver>> /\ HandleAccept(a, n)
        /\ att' = [att EXCEPT ![a] = Acked(att[a], n)]
    BY <1>3 DEF AcceptAnswered, Calls
  <2>2. AttsBacked
    BY <1>1, <2>1, AckedTask, OneBacked
  <2> QED BY <2>1, <2>2, HandlersBacked DEF ValidEffect, StoresBacked
<1>4. ASSUME SuccessCalled(a, n) PROVE ValidEffect
  <2>1. att[a].pc = "success" /\ UNCHANGED <<kv, leader, ver>> /\ LogSuccess(a, n)
    BY <1>4 DEF SuccessCalled, Calls
  <2>2. \/ att' = [att EXCEPT ![a] = Waiting(att[a])]
        \/ att' = [att EXCEPT ![a] = Passed(att[a], n)]
    BY <1>4 DEF SuccessCalled
  <2>3. AttsBacked
    BY <1>1, <2>1, <2>2, StoringTask, PassedTask, OneBacked DEF Waits
  <2> QED BY <2>1, <2>3, HandlersBacked DEF ValidEffect, StoresBacked
<1> QED BY <1>2, <1>3, <1>4

\* The calls that fail: the handler may have run all the same.
LEMMA FailedValid ==
  ASSUME TypeInv, ValidInv, NEW a \in DOMAIN att, NEW n \in Node
  PROVE  /\ Unreachable(a, n) => ValidEffect
         /\ RequestLost(a, n) => ValidEffect
         /\ ReplyLost(a, n) => ValidEffect
         /\ TimedOut(a, n) => ValidEffect
         /\ StoreTimedOut(a, n) => ValidEffect
<1>1. GoodTask(att[a])
  BY DEF TypeInv, AttInv
<1>2. ASSUME NEW pc \in Waits, Calls(a, n, pc), att' = [att EXCEPT ![a] = Passed(@, n)]
      PROVE  AttsBacked
  <2>1. att[a].pc \in Waits /\ att' = [att EXCEPT ![a] = Passed(att[a], n)]
    BY <1>2 DEF Calls
  <2> QED BY <1>1, <2>1, PassedTask, OneBacked
<1>3. ASSUME Unreachable(a, n) PROVE ValidEffect
  <2>1. AttsBacked /\ UNCHANGED <<log, kv, leader, ver>>
    BY <1>2, <1>3 DEF Unreachable, Waits
  <2> QED BY <2>1, NoLogBacked DEF ValidEffect, StoresBacked
<1>4. ASSUME RequestLost(a, n) PROVE ValidEffect
  <2>1. AttsBacked /\ UNCHANGED <<log, kv, leader, ver>>
    BY <1>2, <1>4 DEF RequestLost, Waits
  <2> QED BY <2>1, NoLogBacked DEF ValidEffect, StoresBacked
<1>5. ASSUME ReplyLost(a, n) PROVE ValidEffect
  <2>1. AttsBacked /\ UNCHANGED <<kv, leader, ver>>
    BY <1>2, <1>5 DEF ReplyLost, Waits
  <2>2. HandlePropose(a, n) \/ HandleAccept(a, n)
    BY <1>5 DEF ReplyLost
  <2> QED BY <2>1, <2>2, HandlersBacked DEF ValidEffect, StoresBacked
<1>6. ASSUME TimedOut(a, n) PROVE ValidEffect
  <2>1. AttsBacked /\ UNCHANGED <<log, kv, leader, ver>>
    BY <1>2, <1>6 DEF TimedOut, Waits
  <2> QED BY <2>1, NoLogBacked DEF ValidEffect, StoresBacked
<1>7. ASSUME StoreTimedOut(a, n) PROVE ValidEffect
  <2>1. att' = [att EXCEPT ![a] = Resumed(att[a], n)] /\ UNCHANGED <<log, kv, leader, ver>>
    BY <1>7 DEF StoreTimedOut
  <2>2. AttsBacked
    BY <1>1, <2>1, StoringTask, OneBacked
  <2> QED BY <2>1, <2>2, NoLogBacked DEF ValidEffect, StoresBacked
<1> QED BY <1>3, <1>4, <1>5, <1>6, <1>7

\* The handlers that run on their own write what their proposer had settled on.
LEMMA HandlerValid ==
  ASSUME TypeInv, ValidInv, NEW a \in DOMAIN att, NEW n \in Node
  PROVE  /\ Store(a, n) => ValidEffect
         /\ LatePropose(a, n) => ValidEffect
         /\ LateAccept(a, n) => ValidEffect
         /\ LateSuccess(a, n) => ValidEffect
<1>1. GoodTask(att[a]) /\ SameChoice(att[a], att[a])
  BY DEF TypeInv, AttInv, SameChoice, SameRequest
<1>2. ASSUME Store(a, n) PROVE ValidEffect
  <2>1. Assign(n, att[a]) /\ UNCHANGED log
    BY <1>2 DEF Store
  <2>2. \/ att' = [att EXCEPT ![a] = Resumed(att[a], n)]
        \/ att' = [att EXCEPT ![a] = att[a]]
    BY <1>2 DEF Store
  <2>3. AttsBacked
    BY <1>1, <2>2, StoringTask, OneBacked
  <2> QED BY <2>1, <2>3, NoLogBacked DEF ValidEffect, StoresBacked
<1>3. ASSUME LatePropose(a, n) PROVE ValidEffect
  BY <1>3, NoneBacked, HandlersBacked DEF LatePropose, ValidEffect, StoresBacked
<1>4. ASSUME LateAccept(a, n) PROVE ValidEffect
  BY <1>4, NoneBacked, HandlersBacked DEF LateAccept, ValidEffect, StoresBacked
<1>5. ASSUME LateSuccess(a, n) PROVE ValidEffect
  BY <1>5, NoneBacked, HandlersBacked DEF LateSuccess, ValidEffect, StoresBacked
<1> QED BY <1>2, <1>3, <1>4, <1>5

\* A crash leaves logs and stores as they are, and its attempts their choices.
LEMMA CrashValid ==
  ASSUME TypeInv, ValidInv, NEW n \in Node, Crash(n)
  PROVE  ValidEffect
<1>1. UNCHANGED <<log, kv, leader, ver>>
  BY DEF Crash
<1>2. ASSUME NEW a \in DOMAIN att PROVE SameChoice(att[a], att'[a])
  <2>1. GoodTask(att[a])
    BY DEF TypeInv, AttInv
  <2>2. att'[a] = [att[a] EXCEPT !.pc = "dead", !.live = {}] \/ att'[a] = att[a]
    BY DEF Crash
  <2> QED BY <2>1, <2>2 DEF GoodTask, Task, SameChoice, SameRequest
<1>3. AttsBacked
  BY <1>2, SameBacked DEF AttsBacked, ValidInv, AttsValid
<1> QED BY <1>1, <1>3, NoLogBacked DEF ValidEffect, StoresBacked

\* A new attempt adds its value to what is asked for.
LEMMA BeginValid ==
  ASSUME TypeInv, ValidInv, NEW n \in Node, NEW k \in Key, NEW v \in Payload, NEW by,
         Begin(n, k, v, by)
  PROVE  ValidInv'
<1> DEFINE t == [pc |-> "ping", by |-> by, node |-> n, key |-> k, value |-> v,
                 round |-> NumKnown(log[n][k]), live |-> {}, todo |-> {}, promised |-> 0,
                 accepted_id |-> 0, accepted_value |-> Nothing, acked |-> {}]
<1>1. Len(att) \in Nat /\ DOMAIN att = 1 .. Len(att)
  BY DEF TypeInv, AttInv
<1>2. att' = Append(att, t) /\ UNCHANGED <<log, kv, leader, ver>>
  BY DEF Begin
<1>3. t.key = k /\ t.value = v /\ ~ (t.accepted_id > 0)
  OBVIOUS
<1> HIDE DEF t
<1>4. /\ DOMAIN att' = DOMAIN att \cup {Len(att) + 1} /\ att'[Len(att) + 1] = t
      /\ \A a \in DOMAIN att : att'[a] = att[a]
  BY <1>1, <1>2 DEF TypeInv, AttInv
<1>5. \A j : Requested(j) \subseteq Requested(j)'
  BY <1>4 DEF Requested
<1>6. t.value \in Requested(k)'
  BY <1>3, <1>4 DEF Requested
<1>7. AttsValid'
  <2> SUFFICES ASSUME NEW a \in DOMAIN att', NEW j \in Key, att'[a].key = j
               PROVE  Backed(att'[a], Requested(j)')
    BY DEF AttsValid
  <2>1. CASE a \in DOMAIN att
    <3>1. Backed(att[a], Requested(j))
      BY <1>4, <2>1 DEF ValidInv, AttsValid
    <3> QED BY <1>4, <1>5, <2>1, <3>1 DEF Backed
  <2>2. CASE a = Len(att) + 1
    BY <1>3, <1>4, <1>6, <2>2 DEF Backed
  <2> QED BY <1>4, <2>1, <2>2
<1>8. LogsValid'
  BY <1>2, <1>5 DEF ValidInv, LogsValid, BackedLog
<1>9. StoresValid' /\ LeadersValid'
  BY <1>2, <1>5 DEF ValidInv, StoresValid, LeadersValid, AskedFor
<1> QED BY <1>7, <1>8, <1>9 DEF ValidInv

\* Every step keeps the invariant.
LEMMA NextValid ==
  ASSUME TypeInv, TypeInv', ValidInv, [Next]_vars
  PROVE  ValidInv'
<1>1. CASE BeginStep
  BY <1>1, BeginValid DEF BeginStep
<1>2. CASE ~ BeginStep
  <2>1. AttStep
    BY <1>2, StepEffect DEF Effect
  <2>2. ASSUME UNCHANGED vars PROVE ValidEffect
    BY <2>2, NoneBacked, NoLogBacked DEF vars, ValidEffect, StoresBacked
  <2>3. CASE \E a \in DOMAIN att : Ping(a) \/ Return(a)
    BY <2>1, <2>3, OwnStepsValid, ValidStep
  <2>4. CASE \E a \in DOMAIN att, n \in Node : ProposerStep(a, n) \/ HandlerStep(a, n)
    BY <2>1, <2>4, AnsweredValid, FailedValid, HandlerValid, ValidStep DEF ProposerStep, HandlerStep
  <2>5. CASE \E n \in Crashable : Crash(n)
    BY <2>1, <2>5, CrashValid, ValidStep, ConstantsAssumption
  <2>6. CASE Idle \/ UNCHANGED vars
    BY <2>1, <2>2, <2>6, ValidStep DEF Idle
  <2> QED BY <1>2, <2>3, <2>4, <2>5, <2>6, RequestBegins DEF Next
<1> QED BY <1>1, <1>2

\* At first there are no requests, and nothing else.
LEMMA InitValid == Init => ValidInv
<1> SUFFICES ASSUME Init PROVE ValidInv
  OBVIOUS
<1>1. Known(EmptyLog) = {}
  BY DEF EmptyLog, Known
<1> QED BY <1>1 DEF Init, ValidInv, AttsValid, LogsValid, BackedLog, StoresValid, LeadersValid,
                 AskedFor, Key

\* The inductive form: proposers, too, hold only values asked for.
LEMMA ValidInvariant == Spec => []ValidInv
<1>1. Init => ValidInv
  BY InitValid
<1>2. TypeInv /\ TypeInv' /\ ValidInv /\ [Next]_vars => ValidInv'
  BY NextValid
<1>3. Spec => []TypeInv
  BY TypeInvariant
<1> QED BY <1>1, <1>2, <1>3, PTL DEF Spec

\* No value is made up and none crosses keys, whatever proposers adopt from logs that
\* differ, and whichever handlers run late.
THEOREM OnlyRequested == Spec => []Validity
<1>1. ValidInv => Validity
  BY DEF ValidInv, LogsValid, BackedLog, StoresValid, Validity
<1> QED BY <1>1, ValidInvariant, PTL

\* What was asked of the key "leader", replicas and clients asked for.
LEMMA AskedByWhom ==
  ASSUME TypeInv
  PROVE  AskedFor \subseteq Candidates \cup ClientLeaders \cup {Nothing}
<1>1. ASSUME NEW a \in DOMAIN att, att[a].key = LeaderKey
      PROVE  att[a].value \in Candidates \cup ClientLeaders
  BY <1>1 DEF TypeInv, AttInv, GoodTask, Asked, Candidates, ClientLeaders
<1> QED BY <1>1 DEF AskedFor, Requested, Candidates

\* The leader a replica forwards to asked to lead or was started as one, or else a client
\* has written it.
THEOREM LeadersAsked == Spec => []LeaderIsCandidate
<1>1. TypeInv /\ ValidInv => LeaderIsCandidate
  BY AskedByWhom DEF ValidInv, LeadersValid, LeaderIsCandidate
<1> QED BY <1>1, ValidInvariant, TypeInvariant, PTL

-----------------------------------------------------------------------------
(* All the invariants at once, for the modules that compose Consensus with *)
(* a program around it.                                                    *)

CoreInv == TypeInv /\ DecisionInv /\ ValidInv

\* A leader, where there is one, is a member, if no client writes "leader".
LEMMA LeaderIsNode ==
  ASSUME CoreInv, LeaderKey \notin ClientKey, NEW n \in Node
  PROVE  leader[n] \in Node \cup {Nothing}
<1>1. Requested(LeaderKey) \subseteq Node
  <2> SUFFICES ASSUME NEW a \in DOMAIN att, att[a].key = LeaderKey PROVE att[a].value \in Node
    BY DEF Requested
  <2> QED BY DEF CoreInv, TypeInv, AttInv, GoodTask, Asked, Task
<1> QED BY <1>1, ConstantsAssumption DEF CoreInv, ValidInv, LeadersValid, AskedFor

\* As long as no client writes "leader", memberList->at(Cluster::leader) finds a member.
THEOREM LeadersAreMembers ==
  LeaderKey \notin ClientKey /\ Spec => [](\A n \in Node : leader[n] \in Node \cup {Nothing})
<1> SUFFICES ASSUME LeaderKey \notin ClientKey
             PROVE  Spec => [](\A n \in Node : leader[n] \in Node \cup {Nothing})
  OBVIOUS
<1>1. TypeInv /\ DecisionInv /\ ValidInv => \A n \in Node : leader[n] \in Node \cup {Nothing}
  BY LeaderIsNode DEF CoreInv
<1>2. Spec => []TypeInv
  BY TypeInvariant
<1>3. Spec => []ValidInv
  BY ValidInvariant
<1> QED BY <1>1, <1>2, <1>3, DecisionInvariant, PTL

-----------------------------------------------------------------------------
(* The protocol's own steps keep them, and so do assignments of values     *)
(* that are accounted for.                                                 *)

\* An attempt for what set or elect_leader may ask.
LEMMA BeginKeeps ==
  ASSUME CoreInv, NEW n \in Node, NEW k \in Key, NEW v \in Payload, NEW by,
         Asked(n, k, v, by), Begin(n, k, v, by)
  PROVE  CoreInv' /\ Grows /\ OkHasLeader
<1>1. TypeInv'
  BY BeginInv DEF CoreInv
<1>2. DecisionInv' /\ ValidInv' /\ Grows /\ OkHasLeader
  BY <1>1, BeginDecides, BeginValid, BeginGrows DEF CoreInv
<1> QED BY <1>1, <1>2 DEF CoreInv

\* coordinate's own request to trigger_election.
LEMMA ElectKeeps ==
  ASSUME CoreInv, NEW n \in Node, Elect(n)
  PROVE  CoreInv' /\ Grows /\ OkHasLeader
<1>1. /\ LeaderKey \in Key /\ n \in Payload /\ Begin(n, LeaderKey, n, "elect_leader")
      /\ Asked(n, LeaderKey, n, "elect_leader")
  BY DEF Key, Payload, Elect, Asked
<1> QED BY <1>1, BeginKeeps

\* The protocol's steps.
LEMMA NextKeeps ==
  ASSUME CoreInv, [Next]_vars
  PROVE  CoreInv' /\ Grows /\ OkHasLeader
<1>1. Grows /\ OkHasLeader
  BY NextGrows DEF CoreInv
<1>2. CASE BeginStep
  BY <1>2, BeginKeeps DEF BeginStep
<1>3. CASE Effect
  <2>1. TypeInv'
    BY <1>3, EffectInv DEF CoreInv
  <2>2. DecisionInv' /\ ValidInv'
    BY <2>1, NextDecides, NextValid DEF CoreInv
  <2> QED BY <1>1, <2>1, <2>2 DEF CoreInv
<1> QED BY <1>2, <1>3, StepEffect DEF CoreInv

\* A process that ends, whichever it is.
LEMMA CrashKeeps ==
  ASSUME CoreInv, NEW n \in Node, Crash(n)
  PROVE  CoreInv' /\ Grows /\ OkHasLeader
<1>1. AttStep /\ TypeInv'
  BY CrashEffect, EffectInv DEF CoreInv, Effect
<1>2. DecisionInv' /\ ValidInv'
  BY <1>1, CrashDecides, DecisionStep, CrashValid, ValidStep DEF CoreInv
<1>3. VotesAndLeadersStay /\ OkHasLeader
  BY CrashGrows DEF CoreInv
<1> QED BY <1>1, <1>2, <1>3 DEF CoreInv, Grows, VotesAndLeadersStay, AttStep

\* A step of coordinate, or the start of a process: the attempts, their handlers and
\* the votes stay, and what is stored is accounted for.
LEMMA QuietKeeps ==
  ASSUME CoreInv, UNCHANGED <<att, running, votes>>, RestInv',
         UNCHANGED log \/ \E n \in Node : log' = [log EXCEPT ![n] = [k \in Key |-> EmptyLog]],
         \A m \in Node, k \in Key : ver'[m][k] # -1 => Decided(k, ver'[m][k], Held(m, k)'),
         \A m \in Node, k \in DataKey : ver'[m][k] # -1 => kv'[m][k] \in Requested(k),
         \A m \in Node : leader'[m] \in AskedFor
  PROVE  CoreInv'
<1>1. \A k : Requested(k)' = Requested(k)
  BY DEF Requested
<1>2. ASSUME NEW m \in Node, NEW k \in Key
      PROVE  log'[m][k] = log[m][k] \/ log'[m][k] = EmptyLog
  BY DEF CoreInv, TypeInv, LogInv
<1>3. EmptyLog \in LogType /\ Known(EmptyLog) = {}
  BY DEF EmptyLog, LogType, Known
<1>4. log' \in [Node -> [Key -> LogType]]
  <2>1. [k \in Key |-> EmptyLog] \in [Key -> LogType]
    BY <1>3
  <2> HIDE DEF EmptyLog
  <2> QED BY <2>1 DEF CoreInv, TypeInv, LogInv
<1>5. LogInv'
  <2>1. ASSUME NEW m \in Node, NEW k \in Key
        PROVE  FullEntries(log'[m][k]) /\ \A r \in Known(log'[m][k]) : r < Len(att)
    BY <1>2, <1>3 DEF CoreInv, TypeInv, LogInv, FullEntries
  <2> QED BY <1>4, <2>1 DEF LogInv
<1>6. TypeInv'
  BY <1>5 DEF CoreInv, TypeInv, AttInv
<1>7. DecisionInv'
  <2>1. RunningDecided' /\ \A a \in DOMAIN att' : Sound(att'[a], votes')
    BY DEF CoreInv, DecisionInv, RunningDecided
  <2>2. StoredIsDecided'
    BY DEF StoredIsDecided, Decided, Voters
  <2> QED BY <2>1, <2>2 DEF DecisionInv
<1>8. LogsValid'
  <2>1. ASSUME NEW m \in Node, NEW k \in Key PROVE BackedLog(log'[m][k], Requested(k))
    BY <1>2, <1>3 DEF CoreInv, ValidInv, LogsValid, BackedLog
  <2> QED BY <1>1, <2>1 DEF LogsValid
<1>9. AttsValid' /\ StoresValid' /\ LeadersValid'
  BY <1>1 DEF CoreInv, ValidInv, AttsValid, StoresValid, LeadersValid, AskedFor
<1> QED BY <1>6, <1>7, <1>8, <1>9 DEF CoreInv, ValidInv
=============================================================================
