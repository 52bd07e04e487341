-------------------------- MODULE OneClientProofs ---------------------------
(***************************************************************************)
(* Proofs about Forwarding with one client, which waits for each answer    *)
(* before it asks for more, and a leader that may die: it has one write of *)
(* a key under way, the replicas that run agree when it is done, and a get *)
(* sees what was acknowledged before it arrived.                           *)
(***************************************************************************)
EXTENDS ForwardingProofs

-----------------------------------------------------------------------------
(* One client at a time: who waits for whom.                               *)

\* The invocations that are not over.
Live == {i \in DOMAIN calls : calls[i].pc \notin Over}

\* An attempt to write a key is waited for by the handler that began it.
Owned(a) == \E i \in DOMAIN calls : calls[i].pc = "deciding" /\ calls[i].on = a
Owners == \A a \in DOMAIN att : Active(a) /\ att[a].key \in DataKey => Owned(a)

\* One request of a client is open at a time.
OneOpen == \A i, j \in Live : calls[i].client /\ calls[j].client => i = j

\* What a handler's step does to the invocations: it moves its own, and may add one that it
\* then waits for.
LEMMA ServeMoves ==
  ASSUME ForwardInv, NEW i \in DOMAIN calls, Serve(i)
  PROVE  /\ calls[i].pc \notin Over /\ DOMAIN calls \subseteq DOMAIN calls'
         /\ \A j \in DOMAIN calls : j # i => calls'[j] = calls[j]
         /\ calls'[i].client = calls[i].client /\ calls'[i].node = calls[i].node
         /\ ~ Forward(i) => DOMAIN calls' = DOMAIN calls /\ calls'[i].pc # "calling"
         /\ Forward(i) =>
              \E new \in Nat :
                /\ new = Len(calls) + 1 /\ new \notin DOMAIN calls /\ DOMAIN calls' = DOMAIN calls \cup {new}
                /\ calls'[i].pc = "calling" /\ calls'[i].on = new
                /\ calls'[new].pc = "arrived" /\ calls'[new].client = FALSE
<1> PICK c \in Call : c = calls[i]
  BY AtCall
<1>1. calls \in Seq(Call)
  BY DEF ForwardInv, CallsInv
<1>2. c.pc \notin Over
  BY DEF Serve, NoLeader, Lead, ReadLocal, Decide, DecideAnswered, Redirect, Forward, ForwardUnanswered, ForwardThrows,
         ForwardAnswered, ForwardTimedOut, ElectSelf, ElectionLost, ElectionAnswered, ElectionTimedOut, Over
<1>3. ASSUME NEW d, calls' = [calls EXCEPT ![i] = d], d.client = c.client, d.node = c.node
      PROVE  /\ DOMAIN calls' = DOMAIN calls /\ calls'[i] = d
             /\ \A j \in DOMAIN calls : j # i => calls'[j] = calls[j]
  BY <1>1, <1>3
<1>4. ASSUME NEW pc, Goes(i, pc)
      PROVE  \E d : calls' = [calls EXCEPT ![i] = d] /\ d.client = c.client /\ d.node = c.node /\ d.pc = pc
  <2> PICK d : d = [c EXCEPT !.pc = pc]
    OBVIOUS
  <2>1. d.client = c.client /\ d.node = c.node /\ d.pc = pc
    BY DEF Call
  <2>2. calls' = [calls EXCEPT ![i] = d]
    BY <1>4 DEF Goes
  <2> QED BY <2>1, <2>2
<1>5. ASSUME NEW pc, NEW x, calls' = [calls EXCEPT ![i].pc = pc, ![i].on = x]
      PROVE  \E d : calls' = [calls EXCEPT ![i] = d] /\ d.client = c.client /\ d.node = c.node /\ d.pc = pc
  <2> PICK d : d = [c EXCEPT !.pc = pc, !.on = x]
    OBVIOUS
  <2>1. d.client = c.client /\ d.node = c.node /\ d.pc = pc
    BY DEF Call
  <2>2. calls' = [calls EXCEPT ![i] = d]
    BY <1>1, <1>5
  <2> QED BY <2>1, <2>2
<1>6. ASSUME NEW pc, NEW x, calls' = [calls EXCEPT ![i].pc = pc, ![i].seen = x]
      PROVE  \E d : calls' = [calls EXCEPT ![i] = d] /\ d.client = c.client /\ d.node = c.node /\ d.pc = pc
  <2> PICK d : d = [c EXCEPT !.pc = pc, !.seen = x]
    OBVIOUS
  <2>1. d.client = c.client /\ d.node = c.node /\ d.pc = pc
    BY DEF Call
  <2>2. calls' = [calls EXCEPT ![i] = d]
    BY <1>1, <1>6
  <2> QED BY <2>1, <2>2
<1>7. ASSUME NEW pc, NEW x, calls' = [calls EXCEPT ![i].pc = pc, ![i].again = x]
      PROVE  \E d : calls' = [calls EXCEPT ![i] = d] /\ d.client = c.client /\ d.node = c.node /\ d.pc = pc
  <2> PICK d : d = [c EXCEPT !.pc = pc, !.again = x]
    OBVIOUS
  <2>1. d.client = c.client /\ d.node = c.node /\ d.pc = pc
    BY DEF Call
  <2>2. calls' = [calls EXCEPT ![i] = d]
    BY <1>1, <1>7
  <2> QED BY <2>1, <2>2
<1>8. CASE ~ Forward(i)
  <2>1. \E pc : /\ pc # "calling"
                /\ \E d : calls' = [calls EXCEPT ![i] = d] /\ d.client = c.client /\ d.node = c.node /\ d.pc = pc
    <3>1. CASE \/ NoLeader(i) \/ Lead(i) \/ DecideAnswered(i) \/ Redirect(i) \/ ForwardThrows(i)
               \/ ElectionLost(i) \/ ElectionTimedOut(i)
      <4>1. \E pc \in {"aborted", "leading", "forwarding", "ok"} : Goes(i, pc)
        BY <3>1 DEF NoLeader, Lead, DecideAnswered, Redirect, ForwardThrows, ElectionLost, ElectionTimedOut
      <4> QED BY <4>1, <1>4
    <3>2. ASSUME Fails(i) PROVE \E pc \in {"aborted", "stranded"} : Goes(i, pc)
      BY <3>2 DEF Fails
    <3>3. CASE ForwardUnanswered(i) \/ ForwardTimedOut(i)
      <4>1. \E pc \in {"aborted", "stranded"} : Goes(i, pc)
        BY <3>2, <3>3 DEF ForwardUnanswered, ForwardTimedOut
      <4> QED BY <4>1, <1>4
    <3>4. CASE ReadLocal(i)
      <4> PICK x : x = ver[c.node][c.key]
        OBVIOUS
      <4> PICK ok : ok = "ok"
        OBVIOUS
      <4>1. calls' = [calls EXCEPT ![i].pc = ok, ![i].seen = x]
        BY <3>4 DEF ReadLocal
      <4>2. \E d : calls' = [calls EXCEPT ![i] = d] /\ d.client = c.client /\ d.node = c.node /\ d.pc = ok
        BY ONLY <4>1, <1>6
      <4> QED BY <4>2
    <3>5. CASE ForwardAnswered(i)
      <4>1. \/ Fails(i)
            \/ calls' = [calls EXCEPT ![i].pc = "ok", ![i].seen = calls[calls[i].on].seen]
        BY <3>5 DEF ForwardAnswered
      <4>2. CASE Fails(i)
        <5>1. \E pc \in {"aborted", "stranded"} : Goes(i, pc)
          BY <3>2, <4>2
        <5> QED BY <5>1, <1>4
      <4>3. CASE calls' = [calls EXCEPT ![i].pc = "ok", ![i].seen = calls[calls[i].on].seen]
        <5> PICK x : x = calls[calls[i].on].seen
          OBVIOUS
        <5> PICK ok : ok = "ok"
          OBVIOUS
        <5>1. calls' = [calls EXCEPT ![i].pc = ok, ![i].seen = x]
          BY <4>3
        <5>2. \E d : calls' = [calls EXCEPT ![i] = d] /\ d.client = c.client /\ d.node = c.node /\ d.pc = ok
          BY ONLY <5>1, <1>6
        <5> QED BY <5>2
      <4> QED BY <4>1, <4>2, <4>3
    <3>6. CASE Decide(i) \/ ElectSelf(i)
      <4>1. \E pc \in {"deciding", "electing"} : calls' = [calls EXCEPT ![i].pc = pc, ![i].on = Len(att) + 1]
        BY <3>6 DEF Decide, ElectSelf
      <4> QED BY <4>1, <1>5
    <3>7. CASE ElectionAnswered(i)
      <4>1. \/ Goes(i, "aborted")
            \/ calls' = [calls EXCEPT ![i].pc = "forwarding", ![i].again = TRUE]
        BY <3>7 DEF ElectionAnswered
      <4>2. CASE Goes(i, "aborted")
        BY <4>2, <1>4
      <4>3. CASE calls' = [calls EXCEPT ![i].pc = "forwarding", ![i].again = TRUE]
        BY <4>3, <1>7
      <4> QED BY <4>1, <4>2, <4>3
    <3> QED BY <1>8, <3>1, <3>3, <3>4, <3>5, <3>6, <3>7 DEF Serve
  <2>2. PICK d : calls' = [calls EXCEPT ![i] = d] /\ d.client = c.client /\ d.node = c.node /\ d.pc # "calling"
    BY <2>1
  <2> QED BY <1>2, <1>3, <1>8, <2>2
<1>9. CASE Forward(i)
  <2> PICK d : d = [c EXCEPT !.pc = "calling", !.on = Len(calls) + 1]
    OBVIOUS
  <2> PICK new : new = NewCall(c.op, LeaderOf(i), c.key, c.value, FALSE)
    OBVIOUS
  <2>1. d.client = c.client /\ d.node = c.node /\ d.pc = "calling" /\ d.on = Len(calls) + 1
    BY DEF Call
  <2>2. new.pc = "arrived" /\ new.client = FALSE
    BY DEF NewCall
  <2> PICK last : last = Len(calls) + 1
    OBVIOUS
  <2>3. [calls EXCEPT ![i].pc = "calling", ![i].on = last] = [calls EXCEPT ![i] = d]
    BY <1>1
  <2>4. calls' = Append([calls EXCEPT ![i] = d], new)
    BY <1>9, <2>3 DEF Forward
  <2> PICK before : before = [calls EXCEPT ![i] = d]
    OBVIOUS
  <2>5. DOMAIN before = DOMAIN calls /\ before[i] = d /\ \A j \in DOMAIN calls : j # i => before[j] = calls[j]
    BY <1>1
  <2>6. d \in Call /\ new \in Call
    <3>1. Len(calls) + 1 \in 0 .. MaxAttempts + MaxCalls
      BY <1>1, <1>9, ConstantsAssumption, ForwardingAssumption DEF Forward
    <3>2. d \in Call
      BY <3>1 DEF Call
    <3>3. c.op \in {"get", "set"} /\ c.key \in Key /\ c.value \in Value \cup {Nothing} /\ FALSE \in BOOLEAN
      BY DEF Call
    <3>4. LeaderOf(i) \in Node
      BY <1>9 DEF Forward
    <3>5. new \in Call
      BY <3>3, <3>4, NewCallType
    <3> QED BY <3>2, <3>5
  <2>7. before \in Seq(Call) /\ Len(before) = Len(calls) /\ Len(calls) \in Nat
    BY <1>1, <2>6
  <2>8. calls' = Append(before, new)
    BY <2>4
  <2>9. calls \in Seq(Call) /\ Len(calls) \in Nat /\ last = Len(calls) + 1
    BY <1>1
  <2>10. /\ DOMAIN calls' = DOMAIN calls \cup {last} /\ calls'[last] = new
         /\ \A j \in DOMAIN calls : calls'[j] = before[j]
    BY ONLY <2>6, <2>7, <2>8, <2>9
  <2>11. last \in Nat /\ last \notin DOMAIN calls
    BY ONLY <2>9
  <2>12. calls'[i] = d /\ \A j \in DOMAIN calls : j # i => calls'[j] = calls[j]
    BY <2>5, <2>10
  <2>13. /\ last = Len(calls) + 1 /\ last \in Nat /\ last \notin DOMAIN calls
         /\ DOMAIN calls' = DOMAIN calls \cup {last}
         /\ calls'[i].pc = "calling" /\ calls'[i].on = last
         /\ calls'[last].pc = "arrived" /\ calls'[last].client = FALSE
    BY <2>1, <2>2, <2>9, <2>10, <2>11, <2>12
  <2>14. calls'[i].client = calls[i].client /\ calls'[i].node = calls[i].node /\ calls[i].pc \notin Over
    BY <1>2, <2>1, <2>12
  <2> HIDE <1>1, <1>3, <1>4, <1>5, <1>6, <1>7
  <2> QED BY <1>9, <2>12, <2>13, <2>14
<1> QED BY <1>8, <1>9

-----------------------------------------------------------------------------
(* What the protocol does to the attempts.                                 *)

\* The test after a loop does not kill its proposer.
LEMMA AdvanceLives ==
  ASSUME NEW t, GoodTask(t), t.pc # "dead"
  PROVE  Advance(t).pc # "dead"
BY DEF Advance, GoodTask, Task

\* Nor does any answer, or its absence.
LEMMA AnswersLive ==
  ASSUME NEW t, GoodTask(t), t.pc # "dead", NEW n \in Node
  PROVE  /\ Passed(t, n).pc # "dead" /\ Acked(t, n).pc # "dead"
         /\ Waiting(t).pc # "dead" /\ Resumed(t, n).pc # "dead"
<1>1. ASSUME NEW u, GoodTask(u), u.pc # "dead" PROVE Passed(u, n).pc # "dead"
  <2> PICK w : w = [u EXCEPT !.todo = @ \ {n}]
    OBVIOUS
  <2>1. GoodTask(w) /\ w.pc # "dead"
    BY <1>1 DEF GoodTask, Task
  <2> QED BY <2>1, AdvanceLives DEF Passed
<1>2. Acked(t, n).pc # "dead"
  <2> PICK w : w = [t EXCEPT !.todo = @ \ {n}, !.acked = @ \cup {n}]
    OBVIOUS
  <2>1. GoodTask(w) /\ w.pc # "dead"
    BY DEF GoodTask, Task
  <2> QED BY <2>1, AdvanceLives DEF Acked
<1>3. Waiting(t).pc # "dead"
  BY DEF Waiting, GoodTask, Task
<1>4. Resumed(t, n).pc # "dead"
  <2> PICK w : w = [t EXCEPT !.pc = "success"]
    OBVIOUS
  <2>1. GoodTask(w) /\ w.pc # "dead"
    BY DEF GoodTask, Task, Stage
  <2> QED BY <1>1, <2>1 DEF Resumed
<1> QED BY <1>1, <1>2, <1>3, <1>4

LEMMA PromiseLives ==
  ASSUME NEW t, GoodTask(t), t.pc # "dead", NEW n, NEW e \in EntryType,
         e.a_server_id > 0 => e.accepted_value \in Payload
  PROVE  Promised(t, n, e).pc # "dead"
<1> PICK before :
       before = [t EXCEPT
             !.todo = @ \ {n},
             !.promised = @ + 1,
             !.accepted_value = IF e.a_server_id > t.accepted_id THEN e.accepted_value ELSE @,
             !.accepted_id = IF e.a_server_id > @ THEN e.a_server_id ELSE @]
  OBVIOUS
<1>1. before.pc = t.pc /\ before.pc \in Stage \cup Ended
  BY DEF GoodTask, Task
<1>2. Promised(t, n, e) = Advance(before)
  BY DEF Promised
<1>3. before = [before EXCEPT !.pc = t.pc] /\ DOMAIN before = DOMAIN t
  BY <1>1 DEF GoodTask, Task
<1> QED BY <1>1, <1>2, <1>3 DEF Advance, GoodTask, Task

\* A step of the protocol begins no attempt, revives none and kills none, and nobody gets
\* another leader but by an election.
LEMMA StepLives ==
  ASSUME TypeInv, NEW a \in DOMAIN att, NEW n \in Node,
         Ping(a) \/ Return(a) \/ ProposerStep(a, n) \/ HandlerStep(a, n)
  PROVE  /\ AttStep /\ UNCHANGED up
         /\ \A b \in DOMAIN att : att'[b].pc \in Stage => Active(b)
         /\ \A b \in DOMAIN att : att'[b].pc = "dead" => att[b].pc = "dead"
         /\ att[a].key # LeaderKey => UNCHANGED leader
<1> PICK t \in Task : t = att[a]
  BY DEF TypeInv, AttInv
<1>1. GoodTask(t) /\ att \in Seq(Task) /\ att' \in Seq(Task) /\ AttStep /\ UNCHANGED up
  BY StepOfOne DEF TypeInv, AttInv, Effect, AttStep
<1>2. ASSUME NEW u, att' = [att EXCEPT ![a] = u], u.pc \in Stage => Active(a), u.pc = "dead" => t.pc = "dead"
      PROVE  /\ \A b \in DOMAIN att : att'[b].pc \in Stage => Active(b)
             /\ \A b \in DOMAIN att : att'[b].pc = "dead" => att[b].pc = "dead"
  <2>1. att'[a] = u /\ \A b \in DOMAIN att : b # a => att'[b] = att[b]
    BY <1>1, <1>2
  <2> QED BY <1>2, <2>1 DEF Active
<1>3. ASSUME Active(a), NEW u, att' = [att EXCEPT ![a] = u], u.pc # "dead"
      PROVE  /\ \A b \in DOMAIN att : att'[b].pc \in Stage => Active(b)
             /\ \A b \in DOMAIN att : att'[b].pc = "dead" => att[b].pc = "dead"
  BY <1>2, <1>3
<1>4. Active(a) => t.pc # "dead"
  BY DEF Active, Stage
<1>5. CASE Ping(a)
  <2>1. Active(a) /\ UNCHANGED leader
    BY <1>5 DEF Ping, Active, Stage
  <2>2. PICK live, u : /\ u = [t EXCEPT !.pc = "propose", !.live = live, !.todo = live] \/ u = [t EXCEPT !.pc = "fail"]
                       /\ att' = [att EXCEPT ![a] = u]
    BY <1>5 DEF Ping
  <2>3. u.pc # "dead"
    BY <2>2 DEF Task
  <2> QED BY <1>1, <1>3, <2>1, <2>2, <2>3
<1>6. CASE Return(a)
  <2>1. Active(a) /\ (t.key # LeaderKey => UNCHANGED leader)
    BY <1>1, <1>6 DEF Return, Active, Stage, GoodTask, Asked
  <2> PICK u : u = [t EXCEPT !.pc = "ok"]
    OBVIOUS
  <2>2. att' = [att EXCEPT ![a] = u]
    BY <1>6 DEF Return
  <2>3. u.pc # "dead"
    BY DEF Task
  <2> QED BY <1>1, <1>3, <2>1, <2>2, <2>3
<1>7. CASE ProposeAnswered(a, n)
  <2>1. Active(a) /\ UNCHANGED leader
    BY <1>7 DEF ProposeAnswered, Calls, Active, Stage
  <2> PICK e : e = EntryAt(log[n][att[a].key], att[a].round)
    OBVIOUS
  <2>2. e \in EntryType /\ (e.a_server_id > 0 => e.accepted_value \in Payload)
    <3>1. att[a].key \in Key /\ att[a].round \in Round
      BY <1>1 DEF GoodTask, Task
    <3>2. log[n][att[a].key] \in LogType /\ FullEntries(log[n][att[a].key])
      BY <3>1 DEF TypeInv, LogInv
    <3>3. NewEntry \in EntryType /\ ~ (NewEntry.a_server_id > 0)
      BY DEF NewEntry, EntryType, Entry, ProposeId
    <3> QED BY <3>1, <3>2, <3>3 DEF EntryAt, LogType, FullEntries, Known
  <2>3. Passed(t, n).pc # "dead" /\ Promised(t, n, e).pc # "dead"
    BY <1>1, <1>4, <2>1, <2>2, AnswersLive, PromiseLives
  <2>4. \/ att' = [att EXCEPT ![a] = Passed(t, n)]
        \/ att' = [att EXCEPT ![a] = Promised(t, n, e)]
    BY <1>7 DEF ProposeAnswered
  <2> QED BY <1>1, <1>3, <2>1, <2>3, <2>4
<1>8. CASE \/ AcceptAnswered(a, n) \/ SuccessCalled(a, n) \/ Unreachable(a, n) \/ RequestLost(a, n)
           \/ ReplyLost(a, n) \/ TimedOut(a, n) \/ StoreTimedOut(a, n)
  <2>1. Active(a) /\ UNCHANGED leader
    BY <1>8 DEF AcceptAnswered, SuccessCalled, Unreachable, RequestLost, ReplyLost, TimedOut,
                StoreTimedOut, Calls, Active, Stage
  <2>2. \E u \in {Acked(t, n), Passed(t, n), Waiting(t), Resumed(t, n)} : att' = [att EXCEPT ![a] = u]
    BY <1>8 DEF AcceptAnswered, SuccessCalled, Unreachable, RequestLost, ReplyLost, TimedOut, StoreTimedOut
  <2>3. \A u \in {Acked(t, n), Passed(t, n), Waiting(t), Resumed(t, n)} : u.pc # "dead"
    BY <1>1, <1>4, <2>1, AnswersLive
  <2> QED BY <1>1, <1>3, <2>1, <2>2, <2>3
<1>9. CASE HandlerStep(a, n)
  <2>1. t.key # LeaderKey => UNCHANGED leader
    BY <1>9 DEF HandlerStep, Store, Assign, LatePropose, LateAccept, LateSuccess
  <2>2. \/ t.pc = "storing" /\ att' = [att EXCEPT ![a] = Resumed(t, n)]
        \/ UNCHANGED att
        \/ att' = [att EXCEPT ![a] = t]
    BY <1>9 DEF HandlerStep, Store, LatePropose, LateAccept, LateSuccess
  <2>3. CASE t.pc = "storing" /\ att' = [att EXCEPT ![a] = Resumed(t, n)]
    <3>1. Active(a) /\ Resumed(t, n).pc # "dead"
      BY <1>1, <2>3, AnswersLive DEF Active, Stage
    <3> QED BY <1>1, <1>3, <2>1, <2>3, <3>1
  <2>4. CASE UNCHANGED att \/ att' = [att EXCEPT ![a] = t]
    <3>1. UNCHANGED att
      BY <1>1, <2>4
    <3> QED BY <1>1, <2>1, <3>1 DEF Active
  <2> QED BY <2>2, <2>3, <2>4
<1> QED BY <1>5, <1>6, <1>7, <1>8, <1>9 DEF ProposerStep

\* The same, of a step of whatever attempt and replica.
LEMMA ProtocolLives ==
  ASSUME TypeInv, Protocol
  PROVE  /\ AttStep /\ UNCHANGED up
         /\ \A b \in DOMAIN att : att'[b].pc \in Stage => Active(b)
         /\ \A b \in DOMAIN att : att'[b].pc = "dead" => att[b].pc = "dead"
         /\ (\A b \in DOMAIN att : att[b].key # LeaderKey) => UNCHANGED leader
<1>1. 1 \in Node
  BY ConstantsAssumption DEF Node
<1>2. PICK a \in DOMAIN att, n \in Node :
        Ping(a) \/ Return(a) \/ ProposerStep(a, n) \/ HandlerStep(a, n)
  BY <1>1 DEF Protocol
<1> QED BY <1>2, StepLives

-----------------------------------------------------------------------------
(* Who waits for whom.                                                     *)

\* A set of numbers has a least one.
LEMMA LeastOf ==
  ASSUME NEW S \in SUBSET Nat, NEW x \in S
  PROVE  \E m \in S : \A y \in S : m <= y
<1>1. PICK m \in S : \A y \in S : ~ (<<y, m>> \in OpToRel(<, Nat))
  BY NatLessThanWellFounded, WFMin
<1>2. \A y \in S : ~ (y < m)
  BY <1>1 DEF OpToRel
<1> QED BY <1>2

\* The call a handler waits for came later.
LEMMA CalledLater ==
  ASSUME ForwardInv, NEW p \in DOMAIN calls, calls[p].pc = "calling"
  PROVE  calls[p].on > p /\ calls[p].on \in DOMAIN calls
<1>1. CallSound(p)
  BY AtCall
<1>2. Calling(calls[p], p)
  BY <1>1 DEF CallSound
<1> QED BY <1>2 DEF Calling

\* The first invocation that is not over is a client's.
LEMMA FirstIsClient ==
  ASSUME ForwardInv, Attended, NEW j \in Live
  PROVE  \E r \in Live : r <= j /\ calls[r].client
<1>1. Live \in SUBSET Nat /\ \A i \in Live : i \in DOMAIN calls
  BY DEF Live, ForwardInv, CallsInv
<1>2. PICK r \in Live : \A y \in Live : r <= y
  BY <1>1, LeastOf
<1>3. ASSUME ~ calls[r].client PROVE FALSE
  <2>1. PICK p \in DOMAIN calls : calls[p].pc = "calling" /\ calls[p].on = r
    BY <1>1, <1>3 DEF Attended, Live
  <2>2. r > p
    BY <2>1, CalledLater
  <2>3. p \in Live
    BY <2>1 DEF Live, Over
  <2>4. p \in Nat /\ r \in Nat /\ r <= p
    BY <1>1, <1>2, <2>3
  <2> QED BY <2>2, <2>4
<1> QED BY <1>2, <1>3

\* With one request open and every forwarded one attended, the invocations in progress are
\* a chain: each but the last waits for a later one.
LEMMA Chain ==
  ASSUME ForwardInv, OneOpen, Attended
  PROVE  \A i, j \in Live : i < j => calls[i].pc = "calling" /\ calls[i].on <= j
<1> DEFINE Behind(j) == \A i \in Live : i < j => calls[i].pc = "calling" /\ calls[i].on <= j
           Bad == {j \in Live : ~ Behind(j)}
<1>1. Live \in SUBSET Nat /\ \A i \in Live : i \in DOMAIN calls
  BY DEF Live, ForwardInv, CallsInv
<1>2. SUFFICES ASSUME NEW x \in Bad PROVE FALSE
  OBVIOUS
<1>3. PICK j \in Bad : \A y \in Bad : j <= y
  <2>1. Bad \in SUBSET Nat
    BY <1>1
  <2> HIDE DEF Bad
  <2> QED BY <1>2, <2>1, LeastOf
<1>4. PICK i \in Live : i < j /\ ~ (calls[i].pc = "calling" /\ calls[i].on <= j)
  BY <1>3
<1>5. j \in Live /\ j \in Nat /\ i \in Nat
  BY <1>1
<1>6. ~ calls[j].client
  <2>1. PICK r \in Live : r <= i /\ calls[r].client
    BY FirstIsClient
  <2>2. r \in Nat /\ r # j
    BY <1>1, <1>4, <1>5, <2>1
  <2> QED BY <1>5, <2>1, <2>2 DEF OneOpen
<1>7. PICK p \in DOMAIN calls : calls[p].pc = "calling" /\ calls[p].on = j
  BY <1>1, <1>5, <1>6 DEF Attended, Live
<1>8. p \in Live /\ p \in Nat /\ p < j
  <2>1. p \in Live
    BY <1>7 DEF Live, Over
  <2>2. j > p
    BY <1>7, CalledLater
  <2> QED BY <1>1, <1>5, <2>1, <2>2
<1>9. ASSUME NEW y \in Live, y < j PROVE Behind(y)
  <2>1. y \in Nat /\ ~ (j <= y)
    BY <1>1, <1>5, <1>9
  <2>2. y \notin Bad
    BY <1>3, <2>1
  <2> QED BY <2>2
<1>10. CASE i = p
  BY <1>4, <1>5, <1>7, <1>10
<1>11. CASE i < p
  <2>1. calls[i].pc = "calling" /\ calls[i].on <= p
    BY <1>8, <1>9, <1>11
  <2>2. calls[i].on \in Int
    BY <1>1, AtCall DEF Call
  <2> QED BY <1>4, <1>5, <1>8, <2>1, <2>2
<1>12. CASE p < i
  <2>1. calls[p].on <= i
    BY <1>4, <1>8, <1>9, <1>12
  <2> QED BY <1>4, <1>5, <1>7, <2>1
<1> QED BY <1>5, <1>8, <1>10, <1>11, <1>12

\* Two writes of a key are waited for by two handlers, which the chain does not allow.
LEMMA ChainShows ==
  ASSUME ForwardInv, Owners, OneOpen
  PROVE  WritesApart
<1> SUFFICES ASSUME Attended, NEW a \in DOMAIN att, NEW b \in DOMAIN att, Active(a), Active(b),
                    att[a].key = att[b].key, att[a].key \in DataKey
             PROVE  a = b
  BY DEF WritesApart
<1>1. PICK i \in DOMAIN calls : calls[i].pc = "deciding" /\ calls[i].on = a
  BY DEF Owners, Owned
<1>2. PICK j \in DOMAIN calls : calls[j].pc = "deciding" /\ calls[j].on = b
  BY DEF Owners, Owned
<1>3. i \in Live /\ j \in Live /\ i \in Nat /\ j \in Nat
  BY <1>1, <1>2 DEF Live, Over, ForwardInv, CallsInv
<1>4. ~ (i < j) /\ ~ (j < i)
  BY <1>1, <1>2, <1>3, Chain
<1> QED BY <1>1, <1>2, <1>3, <1>4

-----------------------------------------------------------------------------
(* What every step does to the invocations and the attempts.               *)

\* An attempt that begins is one more.
LEMMA BeginAdds ==
  ASSUME TypeInv, NEW n, NEW k, NEW v, NEW by, Begin(n, k, v, by)
  PROVE  /\ UNCHANGED <<up, leader, faults>>
         /\ \E b \in Nat :
              /\ b = Len(att) + 1 /\ b \notin DOMAIN att /\ DOMAIN att' = DOMAIN att \cup {b}
              /\ att'[b].pc = "ping" /\ att'[b].node = n /\ att'[b].key = k
              /\ \A a \in DOMAIN att : att'[a] = att[a]
<1> PICK t : t = [pc |-> "ping", by |-> by, node |-> n, key |-> k, value |-> v,
                  round |-> NumKnown(log[n][k]), live |-> {}, todo |-> {}, promised |-> 0,
                  accepted_id |-> 0, accepted_value |-> Nothing, acked |-> {}]
  OBVIOUS
<1>1. att' = Append(att, t) /\ t.pc = "ping" /\ t.node = n /\ t.key = k
  BY DEF Begin
<1>2. att \in Seq(Task)
  BY DEF TypeInv, AttInv
<1> PICK b \in Nat : b = Len(att) + 1
  BY <1>2
<1>3. /\ DOMAIN att' = DOMAIN att \cup {b} /\ b \notin DOMAIN att /\ att'[b] = t
      /\ \A a \in DOMAIN att : att'[a] = att[a]
  BY <1>1, <1>2
<1> QED BY <1>1, <1>3 DEF Begin

\* A crash ends the attempts of its replica.
LEMMA CrashKills ==
  ASSUME TypeInv, NEW n, Crash(n)
  PROVE  /\ DOMAIN att' = DOMAIN att
         /\ \A a \in DOMAIN att : /\ att'[a].key = att[a].key
                                  /\ att'[a].pc \in Stage => Active(a) /\ att[a].node # n
<1>1. ASSUME NEW a \in DOMAIN att
      PROVE  /\ att'[a].key = att[a].key
             /\ att'[a].pc \in Stage => Active(a) /\ att[a].node # n
  <2> PICK t \in Task : t = att[a]
    BY DEF TypeInv, AttInv
  <2>1. CASE Active(a) /\ att[a].node = n
    <3> PICK u : u = [t EXCEPT !.pc = "dead", !.live = {}]
      OBVIOUS
    <3>1. att'[a] = u
      BY <2>1 DEF Crash
    <3>2. u.key = t.key /\ u.pc = "dead"
      BY DEF Task
    <3> QED BY <3>1, <3>2 DEF Stage
  <2>2. CASE ~ (Active(a) /\ att[a].node = n)
    BY <2>2 DEF Crash, Active
  <2> QED BY <2>1, <2>2
<1> QED BY <1>1 DEF Crash

\* A client's request is one more invocation.
LEMMA RequestAdds ==
  ASSUME ForwardInv, NEW n \in Node, NEW op \in {"get", "set"}, NEW k \in Key,
         NEW v \in Value \cup {Nothing}, Request(n, op, k, v)
  PROVE  \E new \in Nat :
           /\ new = Len(calls) + 1 /\ new \notin DOMAIN calls /\ DOMAIN calls' = DOMAIN calls \cup {new}
           /\ calls'[new].pc = "arrived" /\ calls'[new].client = TRUE
           /\ \A j \in DOMAIN calls : calls'[j] = calls[j]
<1> PICK d : d = NewCall(op, n, k, v, TRUE)
  OBVIOUS
<1>1. d \in Call /\ d.pc = "arrived" /\ d.client = TRUE
  <2>1. d \in Call
    BY NewCallType
  <2> QED BY <2>1 DEF NewCall
<1>2. calls' = Append(calls, d) /\ calls \in Seq(Call) /\ d \in Call
  BY <1>1 DEF Request, ForwardInv, CallsInv
<1> PICK new \in Nat : new = Len(calls) + 1
  BY <1>2
<1>3. /\ DOMAIN calls' = DOMAIN calls \cup {new} /\ new \notin DOMAIN calls /\ calls'[new] = d
      /\ \A j \in DOMAIN calls : calls'[j] = calls[j]
  BY ONLY <1>2, new = Len(calls) + 1
<1> QED BY <1>1, <1>3

\* A crash ends the invocations of its replica and leaves the others.
LEMMA StopMoves ==
  ASSUME ForwardInv, NEW n, Stop(n)
  PROVE  /\ DOMAIN calls' = DOMAIN calls
         /\ \A j \in DOMAIN calls :
              /\ calls'[j].client = calls[j].client /\ calls'[j].node = calls[j].node
              /\ calls'[j] # calls[j] => calls[j].node = n /\ calls'[j].pc = "gone"
              /\ calls[j].node = n => calls'[j].pc \in Over
<1>1. ASSUME NEW j \in DOMAIN calls
      PROVE  /\ calls'[j].client = calls[j].client /\ calls'[j].node = calls[j].node
             /\ calls'[j] # calls[j] => calls[j].node = n /\ calls'[j].pc = "gone"
             /\ calls[j].node = n => calls'[j].pc \in Over
  <2> PICK c \in Call : c = calls[j]
    BY AtCall
  <2>1. CASE c.node = n /\ c.pc \notin Over
    <3> PICK d : d = [c EXCEPT !.pc = "gone"]
      OBVIOUS
    <3>1. calls'[j] = d
      BY <2>1 DEF Stop
    <3>2. d.client = c.client /\ d.node = c.node /\ d.pc = "gone"
      BY DEF Call
    <3> QED BY <2>1, <3>1, <3>2 DEF Over
  <2>2. CASE ~ (c.node = n /\ c.pc \notin Over)
    <3>1. calls'[j] = calls[j]
      BY <2>2 DEF Stop
    <3> QED BY <2>2, <3>1
  <2> QED BY <2>1, <2>2
<1> QED BY <1>1 DEF Stop

\* What a step can be.
LEMMA KindsOfStep ==
  ASSUME [ForwardNext]_forwardVars
  PROVE  \/ \E n \in Node, op \in {"get", "set"}, k \in Key, v \in Value \cup {Nothing} : Request(n, op, k, v)
         \/ \E i \in DOMAIN calls : Serve(i)
         \/ \E n \in Electors : Coordinates(n)
         \/ (Protocol /\ UNCHANGED calls)
         \/ \E n \in Crashable : Stop(n)
         \/ UNCHANGED forwardVars
BY ConstantsAssumption, ForwardingAssumption DEF ForwardNext, Idle, forwardVars, Key

\* The steps of get and set that begin no attempt leave all attempts and replicas alone.
LEMMA ServeKinds ==
  ASSUME NEW i \in DOMAIN calls, Serve(i), ~ Decide(i), ~ ElectSelf(i)
  PROVE  /\ UNCHANGED <<log, kv, leader, up, att, running, votes, ver>>
         /\ UNCHANGED faults \/ faults' = faults + 1
BY DEF Serve, NoLeader, Lead, ReadLocal, DecideAnswered, Redirect, Forward, ForwardUnanswered, ForwardThrows,
       ForwardAnswered, ForwardTimedOut, ElectionLost, ElectionAnswered, ElectionTimedOut, CallFails, vars

\* Only its end is what the handler that began an attempt goes on after.
LEMMA DecidingServes ==
  ASSUME NEW i \in DOMAIN calls, Serve(i), calls[i].pc = "deciding"
  PROVE  DecideAnswered(i) /\ ~ Active(calls[i].on)
BY DEF Serve, NoLeader, Lead, ReadLocal, Decide, DecideAnswered, Redirect, Forward, ForwardUnanswered, ForwardThrows,
       ForwardAnswered, ForwardTimedOut, ElectSelf, ElectionLost, ElectionAnswered, ElectionTimedOut,
       Active, Stage

\* A handler waits for the attempt it begins.
LEMMA BegunOwned ==
  ASSUME ForwardInv, NEW i \in DOMAIN calls, NEW pc, NEW x,
         calls' = [calls EXCEPT ![i].pc = pc, ![i].on = x]
  PROVE  calls'[i].pc = pc /\ calls'[i].on = x
<1> PICK c \in Call : c = calls[i]
  BY AtCall
<1> PICK d : d = [c EXCEPT !.pc = pc, !.on = x]
  OBVIOUS
<1>1. d.pc = pc /\ d.on = x
  BY DEF Call
<1>2. calls' = [calls EXCEPT ![i] = d] /\ calls \in Seq(Call)
  BY DEF ForwardInv, CallsInv
<1> QED BY <1>1, <1>2

\* Every write under way keeps the handler that waits for it.
LEMMA OwnersKeep ==
  ASSUME ForwardInv, Owners, [ForwardNext]_forwardVars
  PROVE  Owners'
<1> SUFFICES ASSUME NEW b \in DOMAIN att', att'[b].pc \in Stage, att'[b].key \in DataKey
             PROVE  \E i \in DOMAIN calls' : calls'[i].pc = "deciding" /\ calls'[i].on = b
  BY DEF Owners, Owned, Active
<1>1. TypeInv /\ LeaderKey \notin DataKey
  BY ConstantsAssumption DEF ForwardInv, CoreInv
<1>2. ASSUME b \in DOMAIN att, Active(b), att'[b].key = att[b].key
      PROVE  \E j \in DOMAIN calls : calls[j].pc = "deciding" /\ calls[j].on = b
  BY <1>2 DEF Owners, Owned
<1>3. ASSUME UNCHANGED calls, b \in DOMAIN att, Active(b), att'[b].key = att[b].key
      PROVE  \E i \in DOMAIN calls' : calls'[i].pc = "deciding" /\ calls'[i].on = b
  BY <1>2, <1>3
<1>4. CASE \E n \in Node, op \in {"get", "set"}, k \in Key, v \in Value \cup {Nothing} : Request(n, op, k, v)
  <2>1. PICK n \in Node, op \in {"get", "set"}, k \in Key, v \in Value \cup {Nothing} : Request(n, op, k, v)
    BY <1>4
  <2>2. UNCHANGED att
    BY <2>1 DEF Request, vars
  <2>3. DOMAIN calls \subseteq DOMAIN calls' /\ \A j \in DOMAIN calls : calls'[j] = calls[j]
    BY <2>1, RequestAdds
  <2> QED BY <1>2, <2>2, <2>3 DEF Active
<1>5. ASSUME NEW i \in DOMAIN calls, Serve(i)
      PROVE  \E j \in DOMAIN calls' : calls'[j].pc = "deciding" /\ calls'[j].on = b
  <2>1. DOMAIN calls \subseteq DOMAIN calls' /\ \A j \in DOMAIN calls : j # i => calls'[j] = calls[j]
    BY <1>5, ServeMoves
  <2>2. ASSUME b \in DOMAIN att, Active(b), att'[b].key = att[b].key
        PROVE  \E j \in DOMAIN calls' : calls'[j].pc = "deciding" /\ calls'[j].on = b
    <3>1. PICK j \in DOMAIN calls : calls[j].pc = "deciding" /\ calls[j].on = b
      BY <1>2, <2>2
    <3>2. j # i
      BY <1>5, <2>2, <3>1, DecidingServes
    <3> QED BY <2>1, <3>1, <3>2
  <2>3. CASE ~ Decide(i) /\ ~ ElectSelf(i)
    <3>1. UNCHANGED att
      BY <1>5, <2>3, ServeKinds
    <3> QED BY <2>2, <3>1 DEF Active
  <2>4. CASE Decide(i)
    <3>1. Begin(calls[i].node, calls[i].key, calls[i].value, "set")
          /\ calls' = [calls EXCEPT ![i].pc = "deciding", ![i].on = Len(att) + 1]
      BY <2>4 DEF Decide
    <3>2. /\ DOMAIN att' = DOMAIN att \cup {Len(att) + 1}
          /\ \A a \in DOMAIN att : att'[a] = att[a]
      BY <1>1, <3>1, BeginAdds
    <3>3. CASE b = Len(att) + 1
      <4> PICK pc : pc = "deciding"
        OBVIOUS
      <4>1. calls' = [calls EXCEPT ![i].pc = pc, ![i].on = b]
        BY <3>1, <3>3
      <4>2. calls'[i].pc = pc /\ calls'[i].on = b
        BY ONLY ForwardInv, i \in DOMAIN calls, <4>1, BegunOwned
      <4> QED BY <2>1, <4>2
    <3>4. CASE b \in DOMAIN att
      BY <2>2, <3>2, <3>4 DEF Active
    <3> QED BY <3>2, <3>3, <3>4
  <2>5. CASE ElectSelf(i)
    <3> PICK n : n = calls[i].node
      OBVIOUS
    <3> PICK by : by = "elect_leader"
      OBVIOUS
    <3>1. Begin(n, LeaderKey, n, by)
      BY <2>5 DEF ElectSelf, Elect
    <3>2. /\ DOMAIN att' = DOMAIN att \cup {Len(att) + 1} /\ att'[Len(att) + 1].key = LeaderKey
          /\ \A a \in DOMAIN att : att'[a] = att[a]
      BY ONLY <1>1, <3>1, BeginAdds
    <3>3. b \in DOMAIN att
      BY <1>1, <3>2
    <3> QED BY <2>2, <3>2, <3>3 DEF Active
  <2> QED BY <2>3, <2>4, <2>5
<1>6. ASSUME NEW n \in Electors, Coordinates(n)
      PROVE  \E i \in DOMAIN calls' : calls'[i].pc = "deciding" /\ calls'[i].on = b
  <2> PICK by : by = "elect_leader"
    OBVIOUS
  <2>1. Begin(n, LeaderKey, n, by) /\ UNCHANGED calls
    BY <1>6 DEF Coordinates, Elect
  <2>2. /\ DOMAIN att' = DOMAIN att \cup {Len(att) + 1} /\ att'[Len(att) + 1].key = LeaderKey
        /\ \A a \in DOMAIN att : att'[a] = att[a]
    BY ONLY <1>1, <2>1, BeginAdds
  <2>3. b \in DOMAIN att
    BY <1>1, <2>2
  <2> QED BY <1>3, <2>1, <2>2, <2>3 DEF Active
<1>7. CASE Protocol /\ UNCHANGED calls
  <2>1. AttStep /\ \A a \in DOMAIN att : att'[a].pc \in Stage => Active(a)
    BY <1>1, <1>7, ProtocolLives
  <2>2. b \in DOMAIN att /\ att'[b].key = att[b].key
    BY <2>1 DEF AttStep, SameRequest
  <2> QED BY <1>3, <1>7, <2>1, <2>2
<1>8. ASSUME NEW n \in Crashable, Stop(n)
      PROVE  \E i \in DOMAIN calls' : calls'[i].pc = "deciding" /\ calls'[i].on = b
  <2>1. b \in DOMAIN att /\ Active(b) /\ att'[b].key = att[b].key /\ att[b].node # n
    BY <1>1, <1>8, CrashKills DEF Stop
  <2>2. PICK j \in DOMAIN calls : calls[j].pc = "deciding" /\ calls[j].on = b
    BY <1>2, <2>1
  <2>3. CallSound(j)
    BY AtCall
  <2>4. calls[j].node = att[b].node
    BY <2>2, <2>3 DEF CallSound, Deciding
  <2>5. j \in DOMAIN calls' /\ calls'[j] = calls[j]
    BY <1>8, <2>1, <2>4, StopMoves
  <2> QED BY <2>2, <2>5
<1>9. CASE UNCHANGED forwardVars
  <2>1. UNCHANGED <<att, calls>>
    BY <1>9 DEF forwardVars, vars
  <2> QED BY <1>3, <2>1 DEF Active
<1> QED BY <1>4, <1>5, <1>6, <1>7, <1>8, <1>9, KindsOfStep

\* A client that waits for its answer before it goes on has one request open.
LEMMA OneOpenKeeps ==
  ASSUME ForwardInv, MaxOpen <= 1, OneOpen, [ForwardNext]_forwardVars
  PROVE  OneOpen'
<1> DEFINE Opened(j) == j \in DOMAIN calls /\ calls[j].pc \notin Over /\ calls[j].client
<1> SUFFICES ASSUME NEW i \in DOMAIN calls', NEW j \in DOMAIN calls',
                    calls'[i].pc \notin Over, calls'[j].pc \notin Over, calls'[i].client, calls'[j].client
             PROVE  i = j
  BY DEF OneOpen, Live
<1>1. ASSUME Opened(i), Opened(j) PROVE i = j
  BY <1>1 DEF OneOpen, Live
<1>2. CASE \E n \in Node, op \in {"get", "set"}, k \in Key, v \in Value \cup {Nothing} : Request(n, op, k, v)
  <2>1. PICK n \in Node, op \in {"get", "set"}, k \in Key, v \in Value \cup {Nothing} : Request(n, op, k, v)
    BY <1>2
  <2>2. IsFiniteSet(Open)
    <3>1. Open \subseteq 1 .. Len(calls) /\ Len(calls) \in Nat
      BY DEF Open, Requests, ForwardInv, CallsInv
    <3>2. IsFiniteSet(1 .. Len(calls))
      BY <3>1, FS_Interval
    <3> QED BY <3>1, <3>2, FS_Subset
  <2>3. Open = {}
    <3>1. Cardinality(Open) < MaxOpen /\ MaxOpen \in Nat
      BY <2>1, ForwardingAssumption DEF Request
    <3>2. Cardinality(Open) \in Nat
      BY <2>2, FS_CardinalityType
    <3>3. Cardinality(Open) = 0
      BY <3>1, <3>2
    <3> QED BY <2>2, <3>3, FS_EmptySet
  <2>4. DOMAIN calls' = DOMAIN calls \cup {Len(calls) + 1} /\ \A x \in DOMAIN calls : calls'[x] = calls[x]
    BY <2>1, RequestAdds
  <2>5. \A x \in DOMAIN calls : ~ Opened(x)
    BY <2>3 DEF Open, Requests
  <2> QED BY <2>4, <2>5
<1>3. ASSUME NEW x \in DOMAIN calls, Serve(x) PROVE i = j
  <2>1. /\ calls[x].pc \notin Over /\ DOMAIN calls \subseteq DOMAIN calls'
        /\ \A y \in DOMAIN calls : y # x => calls'[y] = calls[y]
        /\ calls'[x].client = calls[x].client
    BY <1>3, ServeMoves
  <2>2. \A y \in DOMAIN calls' : y \in DOMAIN calls \/ calls'[y].client = FALSE
    <3>1. CASE Forward(x)
      BY <1>3, <3>1, ServeMoves
    <3>2. CASE ~ Forward(x)
      BY <1>3, <3>2, ServeMoves
    <3> QED BY <3>1, <3>2
  <2>3. \A y \in DOMAIN calls : calls'[y].pc \notin Over /\ calls'[y].client => Opened(y)
    BY <2>1
  <2>4. i \in DOMAIN calls /\ j \in DOMAIN calls
    BY <2>2
  <2> QED BY <1>1, <2>3, <2>4
<1>4. ASSUME NEW n \in Crashable, Stop(n) PROVE i = j
  <2>1. DOMAIN calls' = DOMAIN calls
        /\ \A y \in DOMAIN calls : calls'[y].pc \notin Over => calls'[y] = calls[y]
    BY <1>4, StopMoves DEF Over
  <2> QED BY <1>1, <2>1
<1>5. CASE UNCHANGED calls
  BY <1>1, <1>5
<1>6. \A n \in Electors : Coordinates(n) => UNCHANGED calls
  BY DEF Coordinates
<1>7. UNCHANGED forwardVars => UNCHANGED calls
  BY DEF forwardVars
<1> QED BY <1>2, <1>3, <1>4, <1>5, <1>6, <1>7, KindsOfStep

\* At first nothing is under way.
LEMMA FirstOwners == ForwardInit => Owners /\ OneOpen /\ CallersWait
<1> SUFFICES ASSUME ForwardInit PROVE Owners /\ OneOpen /\ CallersWait
  OBVIOUS
<1> PICK l \in Flagged, keys \in [1 .. Cardinality(DataKey) -> DataKey] : Prepared(l, keys)
  BY DEF ForwardInit
<1>1. DOMAIN calls = {}
  BY DEF Prepared
<1>2. \A a \in DOMAIN att : ~ Active(a)
  <2> SUFFICES ASSUME NEW a \in DOMAIN att PROVE ~ Active(a)
    OBVIOUS
  <2>1. att[a] = FirstWrite(l, keys[a])
    BY DEF Prepared
  <2>2. att[a].pc = "ok"
    BY <2>1 DEF FirstWrite
  <2> QED BY <2>2 DEF Active, Stage
<1> QED BY <1>1, <1>2 DEF Owners, OneOpen, Live, CallersWait, Attended

\* A client that waits for its answer before it goes on never has two writes of a key under
\* way while every forwarded request has a caller that waits for it: a set that is sent
\* again after an election (rpc.cc:421-438) does not overtake the one sent before.
THEOREM WritesStayApart == MaxOpen <= 1 /\ ForwardSpec => []WritesApart
<1> SUFFICES ASSUME MaxOpen <= 1 PROVE ForwardSpec => []WritesApart
  OBVIOUS
<1>1. ForwardInit => ForwardInv /\ Owners /\ OneOpen
  BY ForwardStarts, FirstOwners
<1>2. ForwardInv /\ Owners /\ OneOpen /\ [ForwardNext]_forwardVars => (ForwardInv /\ Owners /\ OneOpen)'
  BY ForwardNextKeeps, OwnersKeep, OneOpenKeeps
<1>3. ForwardInv /\ Owners /\ OneOpen => WritesApart
  BY ChainShows
<1> QED BY <1>1, <1>2, <1>3, PTL DEF ForwardSpec

\* Writes do not overlap as long as no call fails and nobody gives a request up.
LEMMA WaitingShows == ForwardInv /\ Owners /\ OneOpen /\ CallersWait => Apart
BY ChainShows DEF CallersWait, WritesApart, Apart

\* One client's requests, in a state where a forwarded request is waited for.
LEMMA OneClientKeeps ==
  ASSUME MaxOpen <= 1
  PROVE  /\ ForwardInit => ForwardInv /\ Owners /\ OneOpen /\ Agreed /\ ReadsInv
         /\ ForwardInv /\ Owners /\ OneOpen /\ [ForwardNext]_forwardVars => (ForwardInv /\ Owners /\ OneOpen)'
         /\ ForwardInv /\ Agreed /\ ReadsInv /\ Apart /\ Apart' /\ [ForwardNext]_forwardVars
            => (Agreed /\ ReadsInv)'
<1>1. ForwardInit => ForwardInv /\ Owners /\ OneOpen /\ Agreed /\ ReadsInv
  BY ForwardStarts, FirstOwners, FirstAgrees, FirstReads
<1>2. ForwardInv /\ Owners /\ OneOpen /\ [ForwardNext]_forwardVars => (ForwardInv /\ Owners /\ OneOpen)'
  BY ForwardNextKeeps, OwnersKeep, OneOpenKeeps
<1>3. ForwardInv /\ Agreed /\ ReadsInv /\ Apart /\ Apart' /\ [ForwardNext]_forwardVars
      => (Agreed /\ ReadsInv)'
  BY NextAgrees, NextReads
<1> QED BY <1>1, <1>2, <1>3

\* When the client is done and nothing is under way, the replicas that run hold the same
\* values (entrypoint.cc:220-269): no call fails, one client waits for each answer, and
\* nobody gives up a request that is still worked on.
THEOREM StoresInAgreement == MaxOpen <= 1 /\ ForwardSpec /\ []CallersWait => []StoresAgree
<1> SUFFICES ASSUME MaxOpen <= 1 PROVE ForwardSpec /\ []CallersWait => []StoresAgree
  OBVIOUS
<1>1. ForwardInit => ForwardInv /\ Owners /\ OneOpen /\ Agreed /\ ReadsInv
  BY OneClientKeeps
<1>2. ForwardInv /\ Owners /\ OneOpen /\ [ForwardNext]_forwardVars => (ForwardInv /\ Owners /\ OneOpen)'
  BY OneClientKeeps
<1>3. ForwardInv /\ Owners /\ OneOpen /\ CallersWait => Apart
  BY WaitingShows
<1>4. ForwardInv /\ Agreed /\ ReadsInv /\ Apart /\ Apart' /\ [ForwardNext]_forwardVars
      => (Agreed /\ ReadsInv)'
  BY OneClientKeeps
<1>5. Agreed => StoresAgree
  BY AgreedShows
<1> QED BY <1>1, <1>2, <1>3, <1>4, <1>5, PTL DEF ForwardSpec

\* A get that any replica answers sees what was acknowledged before it arrived
\* (rpc.cc:334-344), under the same conditions.
THEOREM ReadsSeeWrites == MaxOpen <= 1 /\ ForwardSpec /\ []CallersWait => []ReadsSeeAcknowledged
<1> SUFFICES ASSUME MaxOpen <= 1 PROVE ForwardSpec /\ []CallersWait => []ReadsSeeAcknowledged
  OBVIOUS
<1>1. ForwardInit => ForwardInv /\ Owners /\ OneOpen /\ Agreed /\ ReadsInv
  BY OneClientKeeps
<1>2. ForwardInv /\ Owners /\ OneOpen /\ [ForwardNext]_forwardVars => (ForwardInv /\ Owners /\ OneOpen)'
  BY OneClientKeeps
<1>3. ForwardInv /\ Owners /\ OneOpen /\ CallersWait => Apart
  BY WaitingShows
<1>4. ForwardInv /\ Agreed /\ ReadsInv /\ Apart /\ Apart' /\ [ForwardNext]_forwardVars
      => (Agreed /\ ReadsInv)'
  BY OneClientKeeps
<1>5. ReadsInv => ReadsSeeAcknowledged
  BY ReadsShow
<1> QED BY <1>1, <1>2, <1>3, <1>4, <1>5, PTL DEF ForwardSpec

-----------------------------------------------------------------------------
(* One client, and a leader that may die.                                  *)

\* No handler of l waits for a call of its own.
LeaderCalls(l) ==
  faults = 0 => \A i \in DOMAIN calls : calls[i].node = l => calls[i].pc # "calling"

\* Every replica takes l for the leader, and nothing has failed.
Steady(l) ==
  /\ \A n \in Node : leader[n] = l
  /\ \A a \in DOMAIN att : att[a].key # LeaderKey
  /\ \A i \in DOMAIN calls :
       /\ calls[i].pc \notin {"stranded", "electing", "aborted", "gone"}
       /\ calls[i].node = l => calls[i].pc # "forwarding"

\* So it is until l dies, or the last call is made.
Undisturbed(l) ==
  faults = 0 /\ up[l] =>
    /\ \A n \in Node : up[n]
    /\ \A a \in DOMAIN att : att[a].pc # "dead"
    /\ Len(calls) < MaxCalls => Steady(l)

\* Where a handler goes.
LEMMA GoesTo ==
  ASSUME ForwardInv, NEW i \in DOMAIN calls, NEW pc,
         \/ Goes(i, pc)
         \/ \E x : calls' = [calls EXCEPT ![i].pc = pc, ![i].on = x]
         \/ \E x : calls' = [calls EXCEPT ![i].pc = pc, ![i].seen = x]
         \/ \E x : calls' = [calls EXCEPT ![i].pc = pc, ![i].again = x]
  PROVE  calls'[i].pc = pc
<1> PICK c \in Call : c = calls[i]
  BY AtCall
<1>0. calls \in Seq(Call)
  BY DEF ForwardInv, CallsInv
<1>1. CASE Goes(i, pc)
  <2> PICK d : d = [c EXCEPT !.pc = pc]
    OBVIOUS
  <2>1. calls' = [calls EXCEPT ![i] = d] /\ d.pc = pc
    BY <1>1 DEF Goes, Call
  <2> QED BY <1>0, <2>1
<1>2. ASSUME NEW x, calls' = [calls EXCEPT ![i].pc = pc, ![i].on = x] PROVE calls'[i].pc = pc
  <2> PICK d : d = [c EXCEPT !.pc = pc, !.on = x]
    OBVIOUS
  <2>1. calls' = [calls EXCEPT ![i] = d]
    BY <1>0, <1>2
  <2>2. d.pc = pc
    BY DEF Call
  <2> QED BY <1>0, <2>1, <2>2
<1>3. ASSUME NEW x, calls' = [calls EXCEPT ![i].pc = pc, ![i].seen = x] PROVE calls'[i].pc = pc
  <2> PICK d : d = [c EXCEPT !.pc = pc, !.seen = x]
    OBVIOUS
  <2>1. calls' = [calls EXCEPT ![i] = d]
    BY <1>0, <1>3
  <2>2. d.pc = pc
    BY DEF Call
  <2> QED BY <1>0, <2>1, <2>2
<1>4. ASSUME NEW x, calls' = [calls EXCEPT ![i].pc = pc, ![i].again = x] PROVE calls'[i].pc = pc
  <2> PICK d : d = [c EXCEPT !.pc = pc, !.again = x]
    OBVIOUS
  <2>1. calls' = [calls EXCEPT ![i] = d]
    BY <1>0, <1>4
  <2>2. d.pc = pc
    BY DEF Call
  <2> QED BY <1>0, <2>1, <2>2
<1> QED BY <1>1, <1>2, <1>3, <1>4

\* A failed call is never taken back, nor does a replica that crashed run again.
LEMMA FaultsStay ==
  ASSUME ForwardInv, [ForwardNext]_forwardVars
  PROVE  /\ faults' = 0 => faults = 0
         /\ \A n \in Node : up'[n] => up[n]
<1>1. TypeInv /\ faults \in Nat /\ up \in [Node -> BOOLEAN]
  BY DEF ForwardInv, CoreInv, TypeInv, RestInv
<1>2. CASE UNCHANGED vars
  BY <1>2 DEF vars
<1>3. CASE UNCHANGED <<log, kv, leader, up, att, running, votes, ver>> /\ faults' = faults + 1
  BY <1>1, <1>3
<1>4. CASE \E n \in Node, j \in Key, v \in Payload, by \in Bys : Begin(n, j, v, by)
  BY <1>4 DEF Begin
<1>5. CASE Protocol
  <2>1. 1 \in Node
    BY ConstantsAssumption DEF Node
  <2>2. PICK a \in DOMAIN att, n \in Node :
          Ping(a) \/ Return(a) \/ ProposerStep(a, n) \/ HandlerStep(a, n)
    BY <1>5, <2>1 DEF Protocol
  <2> QED BY <1>1, <2>2, HarmStays, StepOfOne
<1>6. CASE \E n \in Crashable : Crash(n)
  BY <1>1, <1>6, ConstantsAssumption DEF Crash
<1> QED BY <1>2, <1>3, <1>4, <1>5, <1>6, ForwardMoves

\* Nobody gives up a request that is worked on, unless a call fails or a handler dies while
\* it waits for another.
LEMMA CallersWaitKeeps ==
  ASSUME ForwardInv, [ForwardNext]_forwardVars, CallersWait, NEW l \in Node, Crashable \subseteq {l},
         LeaderCalls(l)
  PROVE  CallersWait'
<1> SUFFICES ASSUME faults' = 0, NEW j \in DOMAIN calls', calls'[j].pc \notin Over, ~ calls'[j].client
             PROVE  \E p \in DOMAIN calls' : calls'[p].pc = "calling" /\ calls'[p].on = j
  BY DEF CallersWait, Attended
<1>1. faults = 0 /\ Attended
  BY FaultsStay DEF CallersWait
<1>2. ASSUME j \in DOMAIN calls, calls[j].pc \notin Over, ~ calls[j].client
      PROVE  \E p \in DOMAIN calls : calls[p].pc = "calling" /\ calls[p].on = j
  BY <1>1, <1>2 DEF Attended
<1>3. CASE \E n \in Node, op \in {"get", "set"}, k \in Key, v \in Value \cup {Nothing} : Request(n, op, k, v)
  <2>1. PICK n \in Node, op \in {"get", "set"}, k \in Key, v \in Value \cup {Nothing} : Request(n, op, k, v)
    BY <1>3
  <2>2. PICK new : /\ DOMAIN calls' = DOMAIN calls \cup {new} /\ calls'[new].client = TRUE
                   /\ \A x \in DOMAIN calls : calls'[x] = calls[x]
    BY <2>1, RequestAdds
  <2>3. j \in DOMAIN calls
    BY <2>2
  <2> QED BY <1>2, <2>2, <2>3
<1>4. ASSUME NEW x \in DOMAIN calls, Serve(x)
      PROVE  \E p \in DOMAIN calls' : calls'[p].pc = "calling" /\ calls'[p].on = j
  <2>1. /\ calls[x].pc \notin Over /\ DOMAIN calls \subseteq DOMAIN calls'
        /\ \A y \in DOMAIN calls : y # x => calls'[y] = calls[y]
        /\ calls'[x].client = calls[x].client
    BY <1>4, ServeMoves
  <2>2. CASE j \notin DOMAIN calls
    <3>1. Forward(x)
      BY <1>4, <2>2, ServeMoves
    <3>2. PICK new \in Nat : /\ DOMAIN calls' = DOMAIN calls \cup {new}
                             /\ calls'[x].pc = "calling" /\ calls'[x].on = new
      BY <1>4, <3>1, ServeMoves
    <3>3. j = new
      BY <2>2, <3>2
    <3> QED BY <2>1, <3>2, <3>3
  <2>3. CASE j \in DOMAIN calls
    <3>1. calls[j].pc \notin Over /\ ~ calls[j].client
      BY <2>1, <2>3
    <3>2. PICK p \in DOMAIN calls : calls[p].pc = "calling" /\ calls[p].on = j
      BY <1>2, <2>3, <3>1
    <3>3. p # x
      <4>1. SUFFICES ASSUME calls[x].pc = "calling", calls[x].on = j PROVE FALSE
        BY <3>2
      <4>2. ForwardAnswered(x) \/ ForwardTimedOut(x)
        BY <1>4, <4>1 DEF Serve, NoLeader, Lead, ReadLocal, Decide, DecideAnswered, Redirect, Forward,
              ForwardUnanswered, ForwardThrows, ElectSelf, ElectionLost, ElectionAnswered, ElectionTimedOut
      <4>3. ~ ForwardAnswered(x)
        BY <3>1, <4>1 DEF ForwardAnswered, Over
      <4>4. ~ ForwardTimedOut(x)
        BY <1>1 DEF ForwardTimedOut, CallFails
      <4> QED BY <4>2, <4>3, <4>4
    <3> QED BY <2>1, <3>2, <3>3
  <2> QED BY <2>2, <2>3
<1>5. ASSUME NEW n \in Crashable, Stop(n)
      PROVE  \E p \in DOMAIN calls' : calls'[p].pc = "calling" /\ calls'[p].on = j
  <2>1. /\ DOMAIN calls' = DOMAIN calls
        /\ \A y \in DOMAIN calls : calls'[y] # calls[y] => calls[y].node = l /\ calls'[y].pc = "gone"
    BY <1>5, StopMoves
  <2>2. calls'[j] = calls[j]
    BY <2>1 DEF Over
  <2>3. PICK p \in DOMAIN calls : calls[p].pc = "calling" /\ calls[p].on = j
    BY <1>2, <2>1, <2>2
  <2>4. calls'[p] = calls[p]
    BY <1>1, <2>1, <2>3 DEF LeaderCalls
  <2> QED BY <2>1, <2>3, <2>4
<1>6. CASE UNCHANGED calls
  BY <1>2, <1>6
<1>7. \A n \in Electors : Coordinates(n) => UNCHANGED calls
  BY DEF Coordinates
<1>8. UNCHANGED forwardVars => UNCHANGED calls
  BY DEF forwardVars
<1> QED BY <1>3, <1>4, <1>5, <1>6, <1>7, <1>8, KindsOfStep

\* The one leader, alive, never waits for a call: it forwards nothing.
LEMMA LeaderCallsKeep ==
  ASSUME ForwardInv, [ForwardNext]_forwardVars, NEW l \in Node, LeaderCalls(l), Undisturbed(l)
  PROVE  LeaderCalls(l)'
<1> SUFFICES ASSUME faults' = 0, NEW j \in DOMAIN calls', calls'[j].node = l, calls'[j].pc = "calling"
             PROVE  FALSE
  BY DEF LeaderCalls
<1>1. faults = 0
  BY FaultsStay
<1>2. ASSUME j \in DOMAIN calls, calls[j].node = l, calls[j].pc = "calling" PROVE FALSE
  BY <1>1, <1>2 DEF LeaderCalls
<1>3. CASE \E n \in Node, op \in {"get", "set"}, k \in Key, v \in Value \cup {Nothing} : Request(n, op, k, v)
  <2>1. PICK n \in Node, op \in {"get", "set"}, k \in Key, v \in Value \cup {Nothing} : Request(n, op, k, v)
    BY <1>3
  <2>2. PICK new : /\ DOMAIN calls' = DOMAIN calls \cup {new} /\ calls'[new].pc = "arrived"
                   /\ \A x \in DOMAIN calls : calls'[x] = calls[x]
    BY <2>1, RequestAdds
  <2> QED BY <1>2, <2>2
<1>4. ASSUME NEW x \in DOMAIN calls, Serve(x) PROVE FALSE
  <2>1. /\ calls[x].pc \notin Over
        /\ \A y \in DOMAIN calls : y # x => calls'[y] = calls[y]
        /\ calls'[x].node = calls[x].node
    BY <1>4, ServeMoves
  <2>2. CASE ~ Forward(x)
    <3>1. DOMAIN calls' = DOMAIN calls /\ calls'[x].pc # "calling"
      BY <1>4, <2>2, ServeMoves
    <3> QED BY <1>2, <2>1, <3>1
  <2>3. CASE Forward(x)
    <3>1. PICK new \in Nat : DOMAIN calls' = DOMAIN calls \cup {new} /\ calls'[new].pc = "arrived"
      BY <1>4, <2>3, ServeMoves
    <3>2. j \in DOMAIN calls
      BY <3>1
    <3>3. j = x /\ calls[x].node = l
      BY <1>2, <2>1, <3>2
    <3>4. calls[x].pc = "forwarding" /\ Len(calls) < MaxCalls
      BY <2>3 DEF Forward
    <3>5. up[l]
      <4>1. CallSound(x)
        BY AtCall
      <4> QED BY <2>1, <3>3, <4>1 DEF CallSound
    <3> QED BY <1>1, <3>3, <3>4, <3>5 DEF Undisturbed, Steady
  <2> QED BY <2>2, <2>3
<1>5. ASSUME NEW n \in Crashable, Stop(n) PROVE FALSE
  <2>1. /\ DOMAIN calls' = DOMAIN calls /\ calls'[j].node = calls[j].node
        /\ calls'[j] # calls[j] => calls'[j].pc = "gone"
    BY <1>5, StopMoves
  <2> QED BY <1>2, <2>1
<1>6. CASE UNCHANGED calls
  BY <1>2, <1>6
<1>7. \A n \in Electors : Coordinates(n) => UNCHANGED calls
  BY DEF Coordinates
<1>8. UNCHANGED forwardVars => UNCHANGED calls
  BY DEF forwardVars
<1> QED BY <1>3, <1>4, <1>5, <1>6, <1>7, <1>8, KindsOfStep

\* While every replica runs and nothing has failed, no attempt to write a key fails.
LEMMA NoneFails ==
  ASSUME ForwardInv, Agreed, faults = 0, \A n \in Node : up[n], \A a \in DOMAIN att : att[a].pc # "dead",
         NEW a \in DOMAIN att, att[a].key \in DataKey
  PROVE  att[a].pc # "fail"
<1>1. KeyInv(att[a].key) /\ a \in Of(att[a].key)
  BY DEF Agreed, Unharmed, Of
<1>2. att[a].pc = "fail" => ~ Quorate
  BY <1>1 DEF KeyInv, UpTask, Counted
<1>3. Quorate
  <2>1. Ups = Node
    BY DEF Ups
  <2> QED BY <2>1, AllAreEnough DEF Quorate
<1> QED BY <1>2, <1>3

\* A handler's step, while the one leader lives and calls are left.
LEMMA SteadyServes ==
  ASSUME ForwardInv, Agreed, NEW l \in Node, faults = 0, faults' = 0, \A n \in Node : up[n],
         \A a \in DOMAIN att : att[a].pc # "dead", Steady(l), Len(calls) < MaxCalls,
         NEW i \in DOMAIN calls, Serve(i), LeaderKey \notin ClientKey
  PROVE  /\ ~ ElectSelf(i)
         /\ calls'[i].pc \notin {"stranded", "electing", "aborted", "gone"}
         /\ calls[i].node = l => calls'[i].pc # "forwarding"
<1>1. /\ calls[i].pc \notin {"stranded", "electing", "aborted", "gone"}
      /\ calls[i].node = l => calls[i].pc # "forwarding"
      /\ calls[i].node \in Node /\ CallSound(i) /\ LeaderOf(i) = l /\ up[LeaderOf(i)] /\ l # Nothing
      /\ Len(calls) # MaxCalls /\ faults' # faults + 1
  <2>1. calls[i].node \in Node /\ CallSound(i)
    BY AtCall
  <2>2. l # Nothing
    BY ConstantsAssumption DEF Payload
  <2>3. Len(calls) # MaxCalls /\ faults' # faults + 1
    <3>1. Len(calls) \in Nat /\ MaxCalls \in Nat
      BY ForwardingAssumption DEF ForwardInv, CallsInv
    <3> QED BY <3>1
  <2> QED BY <2>1, <2>2, <2>3 DEF Steady, LeaderOf
<1>2. ~ NoLeader(i) /\ ~ ForwardUnanswered(i) /\ ~ ForwardThrows(i) /\ ~ ForwardTimedOut(i)
      /\ ~ ElectSelf(i) /\ ~ ElectionLost(i) /\ ~ ElectionAnswered(i) /\ ~ ElectionTimedOut(i)
  BY <1>1 DEF NoLeader, ForwardUnanswered, ForwardThrows, ForwardTimedOut, ElectSelf, ElectionLost, ElectionAnswered,
              ElectionTimedOut, CallFails
<1>3. ASSUME Lead(i) PROVE calls'[i].pc = "leading"
  BY <1>3, GoesTo DEF Lead
<1>4. ASSUME ReadLocal(i) PROVE calls'[i].pc = "ok"
  <2>1. \E x : calls' = [calls EXCEPT ![i].pc = "ok", ![i].seen = x]
    BY <1>4 DEF ReadLocal
  <2> QED BY <2>1, GoesTo
<1>5. ASSUME Decide(i) PROVE calls'[i].pc = "deciding"
  <2>1. \E x : calls' = [calls EXCEPT ![i].pc = "deciding", ![i].on = x]
    BY <1>5 DEF Decide
  <2> QED BY <2>1, GoesTo
<1>6. ASSUME DecideAnswered(i) PROVE calls'[i].pc = "ok"
  <2>1. Deciding(calls[i])
    BY <1>1, <1>6 DEF DecideAnswered, CallSound
  <2>2. PICK a \in DOMAIN att : a = calls[i].on /\ att[a].key = calls[i].key
    BY <2>1 DEF Deciding
  <2>3. calls[i].key \in DataKey
    BY <1>1, ConstantsAssumption DEF CallSound, Wanted, Key
  <2>4. att[calls[i].on].pc # "fail"
    BY <2>2, <2>3, NoneFails
  <2>5. Goes(i, "ok")
    BY <1>6, <2>4 DEF DecideAnswered
  <2> QED BY <2>5, GoesTo
<1>7. ASSUME Redirect(i) PROVE calls'[i].pc = "forwarding" /\ calls[i].node # l
  <2>1. Goes(i, "forwarding") /\ calls[i].node # l
    BY <1>1, <1>7 DEF Redirect
  <2> QED BY <2>1, GoesTo
<1>8. ASSUME Forward(i) PROVE calls'[i].pc = "calling"
  BY <1>8, ServeMoves
<1>9. ASSUME ForwardAnswered(i) PROVE calls'[i].pc = "ok"
  <2>1. calls[i].on \in DOMAIN calls
    BY <1>9, CalledLater DEF ForwardAnswered
  <2>2. calls[calls[i].on].pc \notin {"aborted", "gone"}
    BY <2>1 DEF Steady
  <2>3. \E x : calls' = [calls EXCEPT ![i].pc = "ok", ![i].seen = x]
    BY <1>9, <2>2 DEF ForwardAnswered
  <2> QED BY <2>3, GoesTo
<1> QED BY <1>2, <1>3, <1>4, <1>5, <1>6, <1>7, <1>8, <1>9 DEF Serve

\* So it stays, as long as nothing fails and the leader lives.
LEMMA UndisturbedKeeps ==
  ASSUME ForwardInv, Agreed, [ForwardNext]_forwardVars, NEW l \in Node, Crashable \subseteq {l}, Electors = {},
         LeaderKey \notin ClientKey, Undisturbed(l)
  PROVE  Undisturbed(l)'
<1> SUFFICES ASSUME faults' = 0, up'[l]
             PROVE  /\ \A n \in Node : up'[n]
                    /\ \A a \in DOMAIN att' : att'[a].pc # "dead"
                    /\ Len(calls') < MaxCalls => Steady(l)'
  BY DEF Undisturbed
<1>1. /\ TypeInv /\ faults = 0 /\ up[l] /\ (\A n \in Node : up[n])
      /\ \A a \in DOMAIN att : att[a].pc # "dead"
      /\ Len(calls) < MaxCalls => Steady(l)
  <2>1. TypeInv /\ faults = 0 /\ up[l]
    BY FaultsStay DEF ForwardInv, CoreInv
  <2> QED BY <2>1 DEF Undisturbed
<1>2. LeaderKey \notin DataKey /\ Len(calls) \in Nat /\ calls \in Seq(Call)
  BY ConstantsAssumption DEF ForwardInv, CallsInv
<1>3. ASSUME UNCHANGED <<up, att, leader>>,
             Len(calls') < MaxCalls =>
               /\ Len(calls) < MaxCalls
               /\ Steady(l) => \A i \in DOMAIN calls' :
                    /\ calls'[i].pc \notin {"stranded", "electing", "aborted", "gone"}
                    /\ calls'[i].node = l => calls'[i].pc # "forwarding"
      PROVE  /\ \A n \in Node : up'[n]
             /\ \A a \in DOMAIN att' : att'[a].pc # "dead"
             /\ Len(calls') < MaxCalls => Steady(l)'
  BY <1>1, <1>3 DEF Steady
<1>4. CASE \E n \in Node, op \in {"get", "set"}, k \in Key, v \in Value \cup {Nothing} : Request(n, op, k, v)
  <2>1. PICK n \in Node, op \in {"get", "set"}, k \in Key, v \in Value \cup {Nothing} : Request(n, op, k, v)
    BY <1>4
  <2>2. PICK new : /\ DOMAIN calls' = DOMAIN calls \cup {new} /\ calls'[new].pc = "arrived"
                   /\ \A x \in DOMAIN calls : calls'[x] = calls[x]
    BY <2>1, RequestAdds
  <2>3. UNCHANGED <<up, att, leader>> /\ Len(calls) < MaxCalls
    BY <2>1 DEF Request, vars
  <2>4. Steady(l) => \A i \in DOMAIN calls' :
                    /\ calls'[i].pc \notin {"stranded", "electing", "aborted", "gone"}
                    /\ calls'[i].node = l => calls'[i].pc # "forwarding"
    BY <2>2 DEF Steady
  <2> QED BY <1>3, <2>3, <2>4
<1>5. ASSUME NEW i \in DOMAIN calls, Serve(i)
      PROVE  /\ \A n \in Node : up'[n]
             /\ \A a \in DOMAIN att' : att'[a].pc # "dead"
             /\ Len(calls') < MaxCalls => Steady(l)'
  <2>1. /\ DOMAIN calls \subseteq DOMAIN calls' /\ calls'[i].node = calls[i].node
        /\ \A y \in DOMAIN calls : y # i => calls'[y] = calls[y]
    BY <1>5, ServeMoves
  <2>2. Len(calls') < MaxCalls => Len(calls) < MaxCalls
    <3>1. calls' \in Seq(Call)
      BY ForwardNextKeeps DEF ForwardInv, CallsInv
    <3>2. Len(calls) <= Len(calls') /\ Len(calls') \in Nat
      BY <1>2, <2>1, <3>1
    <3> QED BY <1>2, <3>2, ForwardingAssumption
  <2>3. \A y \in DOMAIN calls' : y \in DOMAIN calls \/ calls'[y].pc = "arrived"
    <3>1. CASE Forward(i)
      <4>1. PICK new \in Nat : DOMAIN calls' = DOMAIN calls \cup {new} /\ calls'[new].pc = "arrived"
        BY <1>5, <3>1, ServeMoves
      <4> QED BY <4>1
    <3>2. CASE ~ Forward(i)
      BY <1>5, <3>2, ServeMoves
    <3> QED BY <3>1, <3>2
  <2>4. ASSUME Len(calls) < MaxCalls, Steady(l)
        PROVE  /\ ~ ElectSelf(i)
               /\ \A y \in DOMAIN calls' :
                    /\ calls'[y].pc \notin {"stranded", "electing", "aborted", "gone"}
                    /\ calls'[y].node = l => calls'[y].pc # "forwarding"
    <3>1. /\ ~ ElectSelf(i)
          /\ calls'[i].pc \notin {"stranded", "electing", "aborted", "gone"}
          /\ calls[i].node = l => calls'[i].pc # "forwarding"
      BY <1>1, <1>5, <2>4, SteadyServes
    <3>2. \A y \in DOMAIN calls : y # i =>
             /\ calls'[y].pc \notin {"stranded", "electing", "aborted", "gone"}
             /\ calls'[y].node = l => calls'[y].pc # "forwarding"
      BY <2>1, <2>4 DEF Steady
    <3> QED BY <2>1, <2>3, <3>1, <3>2
  <2>5. CASE ~ Decide(i) /\ ~ ElectSelf(i)
    <3>1. UNCHANGED <<up, att, leader>>
      BY <1>5, <2>5, ServeKinds
    <3> QED BY <1>3, <2>2, <2>4, <3>1
  <2>6. CASE Decide(i) \/ ElectSelf(i)
    <3> PICK n : n = calls[i].node
      OBVIOUS
    <3>1. PICK k, v, by : Begin(n, k, v, by) /\ (Decide(i) => k = calls[i].key)
      BY <2>6 DEF Decide, ElectSelf, Elect
    <3>0. TypeInv /\ Begin(n, k, v, by)
      BY <1>1, <3>1
    <3>2. PICK b : /\ UNCHANGED <<up, leader>> /\ DOMAIN att' = DOMAIN att \cup {b}
                   /\ att'[b].pc = "ping" /\ att'[b].key = k
                   /\ \A a \in DOMAIN att : att'[a] = att[a]
      BY ONLY <3>0, BeginAdds
    <3>3. ASSUME Len(calls') < MaxCalls PROVE Steady(l)'
      <4>1. Len(calls) < MaxCalls /\ Steady(l)
        BY <1>1, <2>2, <3>3
      <4>2. k # LeaderKey
        <5>1. Decide(i)
          BY <2>4, <2>6, <4>1
        <5>2. calls[i].key # LeaderKey
          BY <1>2, AtCall DEF CallSound, Wanted
        <5> QED BY <3>1, <5>1, <5>2
      <4> QED BY <2>4, <3>2, <4>1, <4>2 DEF Steady
    <3> QED BY <1>1, <3>2, <3>3
  <2> QED BY <2>5, <2>6
<1>6. CASE Protocol /\ UNCHANGED calls
  <2>1. /\ UNCHANGED <<up, calls>> /\ DOMAIN att' = DOMAIN att
        /\ \A a \in DOMAIN att : att'[a].key = att[a].key
        /\ \A a \in DOMAIN att : att'[a].pc = "dead" => att[a].pc = "dead"
        /\ (\A a \in DOMAIN att : att[a].key # LeaderKey) => UNCHANGED leader
    BY <1>1, <1>6, ProtocolLives DEF AttStep, SameRequest
  <2> QED BY <1>1, <2>1 DEF Steady
<1>7. ~ \E n \in Crashable : Stop(n)
  <2> SUFFICES ASSUME Stop(l) PROVE FALSE
    OBVIOUS
  <2>1. up \in [Node -> BOOLEAN] /\ up' = [up EXCEPT ![l] = FALSE]
    BY <1>1 DEF Stop, Crash, TypeInv, RestInv
  <2> QED BY <2>1
<1>8. CASE UNCHANGED forwardVars
  <2>1. UNCHANGED <<up, att, leader, calls>>
    BY <1>8 DEF forwardVars, vars
  <2> QED BY <1>3, <2>1 DEF Steady
<1> QED BY <1>4, <1>5, <1>6, <1>7, <1>8, KindsOfStep

\* One client, which leaves the key "leader" alone, replicas that have all found the leader
\* and do not start again, and no replica but the leader that dies.
OneClient ==
  /\ MaxOpen <= 1 /\ LeaderKey \notin ClientKey
  /\ Untold = {} /\ Electors = {}
  /\ \E l \in Node : Flagged = {l} /\ Crashable \subseteq {l}

\* At first every replica takes the leader for it.
LEMMA FirstUndisturbed ==
  ASSUME NEW l \in Node, Untold = {}, Flagged = {l}, ForwardInit
  PROVE  LeaderCalls(l) /\ Undisturbed(l)
<1> PICK keys \in [1 .. Cardinality(DataKey) -> DataKey] : Prepared(l, keys)
  BY DEF ForwardInit
<1>1. DOMAIN calls = {}
  BY DEF Prepared
<1>2. (\A n \in Node : up[n]) /\ \A n \in Node : leader[n] = l
  BY DEF Prepared
<1>3. ASSUME NEW a \in DOMAIN att PROVE att[a].pc # "dead" /\ att[a].key # LeaderKey
  <2>1. a \in DOMAIN keys /\ att[a] = FirstWrite(l, keys[a]) /\ keys[a] \in DataKey
    BY <1>3 DEF Prepared
  <2>2. att[a].pc = "ok" /\ att[a].key = keys[a]
    BY <2>1, FirstWriteSound
  <2> QED BY <2>1, <2>2, ConstantsAssumption
<1> QED BY <1>1, <1>2, <1>3 DEF LeaderCalls, Undisturbed, Steady

\* Nobody gives a request up while the replica it was forwarded to is at work on it
\* (rpc.cc:319-344, 411-445), as long as no call fails: the only replica that dies is the
\* leader, which waits for nobody.
THEOREM RequestsAttended == OneClient /\ ForwardSpec => []CallersWait
<1> SUFFICES ASSUME OneClient PROVE ForwardSpec => []CallersWait
  OBVIOUS
<1> PICK l \in Node : Flagged = {l} /\ Crashable \subseteq {l}
  BY DEF OneClient
<1>1. MaxOpen <= 1 /\ LeaderKey \notin ClientKey /\ Untold = {} /\ Electors = {}
  BY DEF OneClient
<1> DEFINE AllWait == CallersWait /\ LeaderCalls(l) /\ Undisturbed(l)
<1>2. ForwardInit => ForwardInv /\ Owners /\ OneOpen /\ Agreed /\ ReadsInv /\ AllWait
  BY <1>1, OneClientKeeps, FirstOwners, FirstUndisturbed
<1>3. ForwardInv /\ Owners /\ OneOpen /\ [ForwardNext]_forwardVars => (ForwardInv /\ Owners /\ OneOpen)'
  BY <1>1, OneClientKeeps
<1>4. ForwardInv /\ Owners /\ OneOpen /\ CallersWait => Apart
  BY WaitingShows
<1>5. ForwardInv /\ Agreed /\ ReadsInv /\ Apart /\ Apart' /\ [ForwardNext]_forwardVars
      => (Agreed /\ ReadsInv)'
  BY <1>1, OneClientKeeps
<1>6. ForwardInv /\ Agreed /\ AllWait /\ [ForwardNext]_forwardVars => AllWait'
  BY <1>1, CallersWaitKeeps, LeaderCallsKeep, UndisturbedKeeps
<1>7. AllWait => CallersWait
  OBVIOUS
<1> HIDE DEF AllWait
<1> QED BY <1>2, <1>3, <1>4, <1>5, <1>6, <1>7, PTL DEF ForwardSpec

\* With one client and a leader that may die, the replicas that run end up with the same
\* values, and a get sees what was acknowledged before it arrived, as long as no call fails.
THEOREM OneClientAgrees == OneClient /\ ForwardSpec => [](StoresAgree /\ ReadsSeeAcknowledged)
<1>1. OneClient => MaxOpen <= 1
  BY DEF OneClient
<1> QED BY <1>1, RequestsAttended, StoresInAgreement, ReadsSeeWrites, PTL
=============================================================================
