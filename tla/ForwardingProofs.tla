-------------------------- MODULE ForwardingProofs --------------------------
(***************************************************************************)
(* Proofs about Forwarding: what a replica promises its clients with OK,   *)
(* however often the request is forwarded and whoever leads by then; and   *)
(* that replicas agree, and gets see what was acknowledged, when the       *)
(* writes of a key do not overlap and no call fails.                       *)
(***************************************************************************)
EXTENDS Forwarding, OneProposerProofs

-----------------------------------------------------------------------------
(* The locals of get and set.                                              *)

\* What a handler never changes of its invocation.
SameCall(c, d) ==
  d.op = c.op /\ d.node = c.node /\ d.key = c.key /\ d.value = c.value /\ d.since = c.since

\* The attempt a set waits for is its own, begun after it arrived.
Deciding(c) ==
  \E a \in DOMAIN att :
    /\ a = c.on /\ a > c.since /\ c.op = "set"
    /\ att[a].node = c.node /\ att[a].key = c.key /\ att[a].value = c.value

\* The election a handler waits for is its replica's, and gives it a leader.
Electing(c) ==
  \E a \in DOMAIN att :
    /\ a = c.on /\ att[a].node = c.node /\ att[a].by = "elect_leader" /\ att[a].key = LeaderKey
    /\ att[a].pc = "ok" => leader[c.node] # Nothing

\* The call a handler waits for is later and asks for the same.
Calling(c, i) ==
  \E j \in DOMAIN calls :
    /\ j = c.on /\ j > i /\ calls[j].since >= c.since
    /\ calls[j].op = c.op /\ calls[j].key = c.key /\ calls[j].value = c.value

\* The request's value was written by an attempt begun after it arrived.
Acknowledges(c) ==
  \E a \in DOMAIN att :
    a > c.since /\ att[a].key = c.key /\ att[a].value = c.value /\ att[a].pc = "ok"

\* What clients ask for.
Wanted(op, k, v) == (op = "get" /\ k \in DataKey) \/ (op = "set" /\ k \in ClientKey /\ v \in Value)

CallSound(i) ==
  LET c == calls[i] IN
  /\ c.pc \notin Over => up[c.node]
  /\ Wanted(c.op, c.key, c.value)
  /\ c.since <= Len(att)
  /\ c.pc = "forwarding" => leader[c.node] # Nothing
  /\ c.pc = "deciding" => Deciding(c)
  /\ c.pc = "electing" => Electing(c)
  /\ c.pc = "calling" => Calling(c, i)
  /\ c.pc = "ok" /\ c.op = "set" => Acknowledges(c)

CallsInv ==
  /\ calls \in Seq(Call)
  /\ Len(calls) <= MaxCalls
  /\ \A i \in DOMAIN calls : CallSound(i)

ForwardInv == CoreInv /\ CallsInv

-----------------------------------------------------------------------------
(* Steps in general.                                                       *)

\* What every step does to the attempts, the votes and the leaders.
Moves == CoreInv' /\ Grows /\ OkHasLeader /\ OkForGood

\* The requests in progress stay the requests they are.
SameCalls ==
  DOMAIN calls \subseteq DOMAIN calls' /\ \A j \in DOMAIN calls : SameCall(calls[j], calls'[j])

\* A handler that does not move.
LEMMA CallStays ==
  ASSUME ForwardInv, Moves, SameCalls, NEW j \in DOMAIN calls,
         calls'[j] = calls[j], calls[j].pc \notin Over => up'[calls[j].node]
  PROVE  CallSound(j)'
<1> DEFINE c == calls[j]
<1>0. c \in Call /\ CallSound(j) /\ calls'[j] = c
  BY DEF ForwardInv, CallsInv
<1>1. c \in Call /\ c.node \in Node /\ CallSound(j) /\ calls'[j] = c
  BY <1>0 DEF Call
<1>2. att \in Seq(Task) /\ att' \in Seq(Task) /\ DOMAIN att \subseteq DOMAIN att'
  BY DEF ForwardInv, Moves, CoreInv, TypeInv, AttInv, Grows
<1>3. Len(att) <= Len(att')
  BY <1>2
<1>4. c.since \in Nat
  BY <1>1 DEF Call
<1>5. calls'[j].pc \notin Over => up'[calls'[j].node]
  BY <1>1
<1>6. calls'[j].since <= Len(att')
  BY <1>1, <1>2, <1>3, <1>4 DEF CallSound
<1>7. calls'[j].pc = "forwarding" => leader'[calls'[j].node] # Nothing
  BY <1>1 DEF CallSound, Moves, Grows
<1>8. calls'[j].pc = "deciding" => Deciding(calls[j])'
  BY <1>1, <1>2 DEF CallSound, Deciding, Moves, Grows, SameRequest
<1>9. calls'[j].pc = "electing" => Electing(calls[j])'
  BY <1>1, <1>2 DEF CallSound, Electing, Moves, Grows, SameRequest, OkHasLeader
<1>10. calls'[j].pc = "calling" => Calling(calls[j], j)'
  BY <1>1 DEF CallSound, Calling, SameCalls, SameCall
<1>11. calls'[j].pc = "ok" /\ calls'[j].op = "set" => Acknowledges(calls[j])'
  BY <1>1, <1>2 DEF CallSound, Acknowledges, Moves, Grows, SameRequest, OkForGood
<1>12. Wanted(calls'[j].op, calls'[j].key, calls'[j].value)
  BY <1>1 DEF CallSound
<1> HIDE DEF c
<1> QED BY <1>5, <1>6, <1>7, <1>8, <1>9, <1>10, <1>11, <1>12 DEF CallSound

\* One handler moves.
LEMMA OneCall ==
  ASSUME ForwardInv, Moves, UNCHANGED up, NEW i \in DOMAIN calls,
         NEW d \in Call, SameCall(calls[i], d), calls' = [calls EXCEPT ![i] = d],
         CallSound(i)'
  PROVE  ForwardInv'
<1>1. /\ calls' \in Seq(Call) /\ Len(calls') = Len(calls) /\ DOMAIN calls' = DOMAIN calls
      /\ calls'[i] = d /\ \A j \in DOMAIN calls : j # i => calls'[j] = calls[j]
  BY DEF ForwardInv, CallsInv
<1>2. SameCalls
  BY <1>1 DEF SameCalls, SameCall
<1>3. ASSUME NEW j \in DOMAIN calls, j # i PROVE CallSound(j)'
  BY <1>1, <1>2, <1>3, CallStays DEF ForwardInv, CallsInv, CallSound
<1> QED BY <1>1, <1>3 DEF ForwardInv, CallsInv, Moves

\* A step that moves no handler.
LEMMA NoCall ==
  ASSUME ForwardInv, Moves, UNCHANGED <<up, calls>>
  PROVE  ForwardInv'
<1>1. SameCalls
  BY DEF SameCalls, SameCall
<1>2. \A j \in DOMAIN calls : CallSound(j)'
  BY <1>1, CallStays DEF ForwardInv, CallsInv, CallSound
<1> QED BY <1>2 DEF ForwardInv, CallsInv, Moves

\* A step of the handlers alone.
LEMMA Quiet ==
  ASSUME ForwardInv, UNCHANGED vars
  PROVE  Moves
BY NextKeeps, NextOkForGood DEF ForwardInv, CoreInv, Moves

\* A call that fails changes nothing but the count of failures.
LEMMA CallFailsMoves ==
  ASSUME ForwardInv, NEW i, NEW m, NEW mode, CallFails(i, m, mode)
  PROVE  Moves
<1>1. /\ UNCHANGED <<log, kv, leader, up, att, running, votes, ver>> /\ faults' = faults + 1
      /\ faults < MaxFaults /\ CoreInv
  BY DEF CallFails, ForwardInv
<1>2. RestInv'
  BY <1>1, ConstantsAssumption DEF CoreInv, TypeInv, RestInv
<1>3. \A n \in Node, k \in Key : ver'[n][k] # -1 => Decided(k, ver'[n][k], Held(n, k)')
  BY <1>1 DEF CoreInv, DecisionInv, StoredIsDecided, Held
<1>4. /\ \A n \in Node, k \in DataKey : ver'[n][k] # -1 => kv'[n][k] \in Requested(k)
      /\ \A n \in Node : leader'[n] \in AskedFor
  BY <1>1 DEF CoreInv, ValidInv, StoresValid, LeadersValid, AskedFor
<1>5. CoreInv'
  BY <1>1, <1>2, <1>3, <1>4, QuietKeeps
<1>6. Grows /\ OkHasLeader /\ OkForGood
  BY <1>1 DEF Grows, OkHasLeader, OkForGood, SameRequest
<1> QED BY <1>5, <1>6 DEF Moves

\* A handler that goes on to something it may go on to.
LEMMA MovesOn ==
  ASSUME ForwardInv, Moves, UNCHANGED up, NEW i \in DOMAIN calls, calls[i].pc \notin Over,
         NEW d \in Call, SameCall(calls[i], d), calls' = [calls EXCEPT ![i] = d],
         d.pc # "calling",
         d.pc = "forwarding" => leader'[d.node] # Nothing,
         d.pc = "deciding" => Deciding(d)',
         d.pc = "electing" => Electing(d)',
         d.pc = "ok" /\ d.op = "set" => Acknowledges(d)'
  PROVE  ForwardInv'
<1>1. calls \in Seq(Call) /\ calls'[i] = d /\ CallSound(i)
  BY DEF ForwardInv, CallsInv
<1>2. up'[d.node] /\ Wanted(d.op, d.key, d.value)
  BY <1>1 DEF CallSound, SameCall
<1>3. d.since <= Len(att')
  <2>1. att \in Seq(Task) /\ att' \in Seq(Task) /\ DOMAIN att \subseteq DOMAIN att'
    BY DEF ForwardInv, Moves, CoreInv, TypeInv, AttInv, Grows
  <2>2. d.since \in Nat /\ d.since <= Len(att)
    BY <1>1 DEF CallSound, SameCall, Call
  <2> QED BY <2>1, <2>2
<1>4. CallSound(i)'
  BY <1>1, <1>2, <1>3 DEF CallSound
<1> QED BY <1>4, OneCall

-----------------------------------------------------------------------------
(* Action by action.                                                       *)

\* A request that arrives, from a client or from another replica.
LEMMA NewCallType ==
  ASSUME ForwardInv, NEW op \in {"get", "set"}, NEW n \in Node, NEW k \in Key,
         NEW v \in Value \cup {Nothing}, NEW client \in BOOLEAN
  PROVE  LET d == NewCall(op, n, k, v, client) IN
         /\ d \in Call /\ d.pc = "arrived" /\ d.op = op /\ d.node = n /\ d.key = k /\ d.value = v
         /\ d.since = Len(att)
<1>1. Len(att) \in 0 .. MaxAttempts
  BY ConstantsAssumption DEF ForwardInv, CoreInv, TypeInv, AttInv
<1>2. Acknowledged(k) \in SUBSET Round
  BY DEF ForwardInv, CoreInv, TypeInv, AttInv, GoodTask, Task, Acknowledged
<1>3. Latest(Acknowledged(k)) \in Round \cup {-1}
  BY <1>2, LatestIsRound
<1>4. 0 \in 0 .. MaxAttempts + MaxCalls
  BY ConstantsAssumption, ForwardingAssumption
<1> QED BY <1>1, <1>3, <1>4 DEF NewCall, Call

\* Another call at the end of calls.
LEMMA OneMore ==
  ASSUME ForwardInv, UNCHANGED vars, Len(calls) < MaxCalls,
         NEW op \in {"get", "set"}, NEW n \in Node, NEW k \in Key, NEW v \in Value \cup {Nothing},
         NEW client \in BOOLEAN, Wanted(op, k, v), up[n],
         NEW before \in Seq(Call), DOMAIN before = DOMAIN calls,
         calls' = Append(before, NewCall(op, n, k, v, client)),
         \A j \in DOMAIN calls : SameCall(calls[j], before[j]),
         \A j \in DOMAIN calls : calls'[j] = calls[j] \/ CallSound(j)'
  PROVE  ForwardInv'
<1> DEFINE d == NewCall(op, n, k, v, client)
<1>1. /\ d \in Call /\ d.pc = "arrived" /\ d.op = op /\ d.node = n /\ d.key = k /\ d.value = v
      /\ d.since = Len(att)
  BY NewCallType
<1>2. calls' = Append(before, d)
  OBVIOUS
<1> HIDE DEF d
<1>3. calls \in Seq(Call) /\ Len(before) = Len(calls) /\ Len(calls) \in Nat /\ MaxCalls \in Nat
  BY ForwardingAssumption DEF ForwardInv, CallsInv
<1> PICK last \in Nat : last = Len(calls) + 1
  BY <1>3
<1>4. /\ calls' \in Seq(Call) /\ Len(calls') <= MaxCalls
      /\ DOMAIN calls' = DOMAIN calls \cup {last}
      /\ calls'[last] = d
      /\ \A j \in DOMAIN calls : calls'[j] = before[j]
  BY <1>1, <1>2, <1>3
<1>5. SameCalls
  BY <1>4 DEF SameCalls
<1>6. Moves /\ UNCHANGED <<up, att>>
  BY Quiet DEF vars
<1>7. \A j \in DOMAIN calls : CallSound(j)'
  BY <1>5, <1>6, CallStays DEF ForwardInv, CallsInv, CallSound
<1>8. att \in Seq(Task)
  BY DEF ForwardInv, CoreInv, TypeInv, AttInv
<1>9. CallSound(last)'
  BY <1>1, <1>4, <1>6, <1>8 DEF CallSound
<1> QED BY <1>4, <1>6, <1>7, <1>9 DEF ForwardInv, CallsInv, Moves

\* A client's request.
LEMMA RequestStep ==
  ASSUME ForwardInv, NEW n \in Node, NEW op \in {"get", "set"}, NEW k \in Key,
         NEW v \in Value \cup {Nothing}, Wanted(op, k, v), Request(n, op, k, v)
  PROVE  ForwardInv'
<1>1. /\ calls \in Seq(Call) /\ \A j \in DOMAIN calls : SameCall(calls[j], calls[j])
      /\ calls' = Append(calls, NewCall(op, n, k, v, TRUE)) /\ up[n] /\ UNCHANGED vars
      /\ Len(calls) < MaxCalls
  BY DEF ForwardInv, CallsInv, SameCall, Request
<1>2. \A j \in DOMAIN calls : calls'[j] = calls[j]
  <2> DEFINE d == NewCall(op, n, k, v, TRUE)
  <2>1. calls' = Append(calls, d) /\ d \in Call
    BY ZenonT(60), <1>1, NewCallType
  <2>2. calls \in Seq(Call)
    BY <1>1
  <2> HIDE DEF d
  <2> QED BY <2>1, <2>2
<1> QED BY <1>1, <1>2, OneMore

\* What runs is a call of one of its own replica's requests.
LEMMA AtCall ==
  ASSUME ForwardInv, NEW i \in DOMAIN calls
  PROVE  calls[i] \in Call /\ calls[i].node \in Node /\ CallSound(i)
<1>1. calls[i] \in Call /\ CallSound(i)
  BY DEF ForwardInv, CallsInv
<1> QED BY <1>1 DEF Call

\* A handler that only goes on: an answer, the choice between leading and forwarding, or
\* a call that failed.
LEMMA GoesOn ==
  ASSUME ForwardInv, Moves, UNCHANGED up, NEW i \in DOMAIN calls, calls[i].pc \notin Over,
         NEW pc \in {"leading", "forwarding", "stranded", "ok", "aborted"}, Goes(i, pc),
         pc = "forwarding" => leader[calls[i].node] # Nothing,
         pc = "ok" => Deciding(calls[i]) /\ att[calls[i].on].pc = "ok"
  PROVE  ForwardInv'
<1>1. calls[i] \in Call /\ calls[i].node \in Node /\ CallSound(i)
  BY AtCall
<1>2. PICK d \in Call : d = [calls[i] EXCEPT !.pc = pc] /\ SameCall(calls[i], d) /\ d.pc = pc
  <2> DEFINE c == calls[i]
             e == [c EXCEPT !.pc = pc]
  <2>1. c \in Call /\ pc \in {"arrived", "leading", "deciding", "forwarding", "calling", "stranded",
                              "electing"} \cup Over
    BY <1>1 DEF Over
  <2> HIDE DEF c
  <2>2. e \in Call /\ SameCall(c, e) /\ e.pc = pc
    BY <2>1 DEF Call, SameCall
  <2> QED BY <2>2 DEF c
<1>3. calls' = [calls EXCEPT ![i] = d]
  BY <1>2 DEF Goes
<1>4. d.pc = "forwarding" => leader'[d.node] # Nothing
  BY <1>1, <1>2 DEF Moves, Grows, SameCall
<1>5. d.pc = "ok" => Acknowledges(d)'
  <2>1. SUFFICES ASSUME pc = "ok" PROVE Acknowledges(d)'
    BY <1>2
  <2>2. PICK a \in DOMAIN att :
          /\ a = calls[i].on /\ a > calls[i].since
          /\ att[a].key = calls[i].key /\ att[a].value = calls[i].value /\ att[a].pc = "ok"
    BY <2>1 DEF Deciding
  <2>3. /\ a \in DOMAIN att' /\ att'[a].key = calls[i].key /\ att'[a].value = calls[i].value
        /\ att'[a].pc = "ok"
    BY <2>2 DEF Moves, Grows, SameRequest, OkForGood
  <2> QED BY <1>2, <2>2, <2>3 DEF Acknowledges, SameCall
<1> QED BY <1>2, <1>3, <1>4, <1>5, MovesOn

\* The steps of a handler that calls nobody, and the calls that fail.
LEMMA LocalSteps ==
  ASSUME ForwardInv, NEW i \in DOMAIN calls
  PROVE  /\ NoLeader(i) => ForwardInv'
         /\ Lead(i) => ForwardInv'
         /\ Redirect(i) => ForwardInv'
         /\ DecideAnswered(i) => ForwardInv'
         /\ ForwardUnanswered(i) => ForwardInv'
         /\ ForwardThrows(i) => ForwardInv'
         /\ ForwardTimedOut(i) => ForwardInv'
         /\ ElectionLost(i) => ForwardInv'
         /\ ElectionTimedOut(i) => ForwardInv'
<1>1. CallSound(i)
  BY AtCall
<1>2. UNCHANGED vars => Moves /\ UNCHANGED up
  BY Quiet DEF vars
<1>3. \A m, mode : CallFails(i, m, mode) => Moves /\ UNCHANGED up
  BY CallFailsMoves DEF CallFails
<1>4. NoLeader(i) => ForwardInv'
  BY <1>2, GoesOn DEF NoLeader, Over
<1>5. Lead(i) => ForwardInv'
  BY <1>2, GoesOn DEF Lead, Over
<1>6. Redirect(i) => ForwardInv'
  BY <1>2, GoesOn DEF Redirect, LeaderOf, Over
<1>7. DecideAnswered(i) => ForwardInv'
  BY <1>1, <1>2, GoesOn DEF DecideAnswered, CallSound, Over
<1>8. ASSUME calls[i].pc \in {"forwarding", "calling"}, Moves, UNCHANGED up, Fails(i)
      PROVE  ForwardInv'
  BY <1>8, GoesOn DEF Fails, Over
<1>9. ForwardUnanswered(i) => ForwardInv'
  BY <1>2, <1>3, <1>8 DEF ForwardUnanswered
<1>10. ForwardTimedOut(i) => ForwardInv'
  BY <1>3, <1>8 DEF ForwardTimedOut
<1>11. ElectionLost(i) => ForwardInv'
  BY <1>3, GoesOn DEF ElectionLost, Over
<1>12. ElectionTimedOut(i) => ForwardInv'
  BY <1>3, GoesOn DEF ElectionTimedOut, Over
<1>13. ForwardThrows(i) => ForwardInv'
  BY <1>2, GoesOn DEF ForwardThrows, Over
<1> QED BY <1>4, <1>5, <1>6, <1>7, <1>9, <1>10, <1>11, <1>12, <1>13

\* Get_KV, and the answer OK of the replica a request was forwarded to.
LEMMA AnswerSteps ==
  ASSUME ForwardInv, NEW i \in DOMAIN calls
  PROVE  /\ ReadLocal(i) => ForwardInv'
         /\ ForwardAnswered(i) => ForwardInv'
<1> PICK c \in Call : c = calls[i]
  BY AtCall
<1>1. calls[i] = c /\ c.node \in Node /\ CallSound(i)
  BY AtCall
<1>2. UNCHANGED vars => Moves /\ UNCHANGED <<up, att>>
  BY Quiet DEF vars
<1>3. ASSUME UNCHANGED vars, c.pc \notin Over, NEW r \in Round \cup {-1},
             calls' = [calls EXCEPT ![i].pc = "ok", ![i].seen = r],
             c.op = "set" => Acknowledges(c)
      PROVE  ForwardInv'
  <2> DEFINE e == [c EXCEPT !.pc = "ok", !.seen = r]
  <2>1. calls' = [calls EXCEPT ![i] = e]
    BY <1>1, <1>3 DEF ForwardInv, CallsInv
  <2>2. e \in Call /\ SameCall(c, e) /\ e.pc = "ok" /\ e.op = c.op
    BY DEF Call, SameCall, Over
  <2> HIDE DEF e
  <2>3. c.op = "set" => Acknowledges(e)'
    BY <1>2, <1>3, <2>2 DEF Acknowledges, SameCall
  <2>4. Moves /\ UNCHANGED up /\ calls[i].pc \notin Over /\ SameCall(calls[i], e)
    BY <1>1, <1>2, <1>3, <2>2
  <2>5. e.op = "set" => Acknowledges(e)'
    BY <2>2, <2>3
  <2> QED BY <2>1, <2>2, <2>4, <2>5, MovesOn
<1>4. ASSUME ReadLocal(i) PROVE ForwardInv'
  <2>1. c.op = "get" /\ c.pc \notin Over /\ UNCHANGED vars
        /\ calls' = [calls EXCEPT ![i].pc = "ok", ![i].seen = ver[c.node][c.key]]
    BY <1>1, <1>4 DEF ReadLocal, Over
  <2>2. c.key \in Key
    BY DEF Call
  <2>3. ver[c.node][c.key] \in Round \cup {-1}
    BY <1>1, <2>2 DEF ForwardInv, CoreInv, TypeInv, RestInv
  <2> QED BY <1>3, <2>1, <2>3
<1>5. ASSUME ForwardAnswered(i) PROVE ForwardInv'
  <2> PICK d \in Call : d = calls[c.on] /\ d.op = c.op /\ d.key = c.key /\ d.value = c.value
                        /\ d.since >= c.since /\ (d.pc = "ok" /\ d.op = "set" => Acknowledges(d))
    <3>1. PICK j \in DOMAIN calls :
            /\ j = c.on /\ calls[j].since >= c.since
            /\ calls[j].op = c.op /\ calls[j].key = c.key /\ calls[j].value = c.value
      BY <1>1, <1>5 DEF ForwardAnswered, CallSound, Calling
    <3>2. calls[j] \in Call /\ CallSound(j)
      BY AtCall
    <3> QED BY <3>1, <3>2 DEF CallSound
  <2>1. c.pc = "calling" /\ UNCHANGED vars
        /\ \/ d.pc = "ok" /\ calls' = [calls EXCEPT ![i].pc = "ok", ![i].seen = d.seen]
           \/ d.pc \in {"aborted", "gone"} /\ Fails(i)
    BY <1>1, <1>5 DEF ForwardAnswered
  <2>2. CASE d.pc = "ok" /\ calls' = [calls EXCEPT ![i].pc = "ok", ![i].seen = d.seen]
    <3>1. d.seen \in Round \cup {-1}
      BY DEF Call
    <3>2. c.op = "set" => Acknowledges(c)
      <4>1. att \in Seq(Task) /\ c.since \in Nat /\ d.since \in Nat
        BY DEF ForwardInv, CoreInv, TypeInv, AttInv, Call
      <4> QED BY <2>2, <4>1 DEF Acknowledges
    <3> QED BY <1>3, <2>1, <2>2, <3>1, <3>2 DEF Over
  <2>3. CASE Fails(i)
    BY <1>1, <1>2, <2>1, <2>3, GoesOn DEF Fails, Over
  <2> QED BY <2>1, <2>2, <2>3
<1> QED BY <1>4, <1>5

\* The election is over.
LEMMA ElectionStep ==
  ASSUME ForwardInv, NEW i \in DOMAIN calls, ElectionAnswered(i)
  PROVE  ForwardInv'
<1> PICK c \in Call : c = calls[i]
  BY AtCall
<1>1. calls[i] = c /\ c.node \in Node /\ CallSound(i) /\ c.pc = "electing"
  BY AtCall DEF ElectionAnswered
<1>2. Moves /\ UNCHANGED <<up, leader>>
  BY Quiet DEF ElectionAnswered, vars
<1>3. CASE Goes(i, "aborted")
  BY <1>1, <1>2, <1>3, GoesOn DEF Over
<1>4. CASE att[c.on].pc = "ok" /\ calls' = [calls EXCEPT ![i].pc = "forwarding", ![i].again = TRUE]
  <2> DEFINE e == [c EXCEPT !.pc = "forwarding", !.again = TRUE]
  <2>1. calls' = [calls EXCEPT ![i] = e]
    BY <1>1, <1>4 DEF ForwardInv, CallsInv
  <2>2. e \in Call /\ SameCall(c, e) /\ e.pc = "forwarding"
    BY DEF Call, SameCall
  <2> HIDE DEF e
  <2>3. leader'[e.node] # Nothing
    BY <1>1, <1>2, <1>4, <2>2 DEF CallSound, Electing, SameCall
  <2> QED BY <1>1, <1>2, <2>1, <2>2, <2>3, MovesOn DEF Over
<1> QED BY <1>1, <1>3, <1>4 DEF ElectionAnswered

\* An attempt that begins is the last one, with the request it was begun for.
LEMMA BeginIsLast ==
  ASSUME ForwardInv, NEW n \in Node, NEW k \in Key, NEW v \in Payload, NEW by,
         Asked(n, k, v, by), Begin(n, k, v, by)
  PROVE  /\ Moves /\ UNCHANGED up
         /\ \E a \in Attempt :
              /\ a = Len(att) + 1 /\ a \in DOMAIN att'
              /\ att'[a].node = n /\ att'[a].key = k /\ att'[a].value = v /\ att'[a].pc = "ping"
              /\ att'[a].by = by
<1>1. /\ att \in Seq(Task) /\ Len(att) < MaxAttempts /\ UNCHANGED up
  BY DEF ForwardInv, CoreInv, TypeInv, AttInv, Begin
<1>2. CoreInv' /\ Grows /\ OkHasLeader
  BY BeginKeeps DEF ForwardInv
<1>3. OkForGood
  BY <1>1 DEF Begin, OkForGood
<1> DEFINE t == [pc |-> "ping", by |-> by, node |-> n, key |-> k, value |-> v,
                 round |-> NumKnown(log[n][k]), live |-> {}, todo |-> {}, promised |-> 0,
                 accepted_id |-> 0, accepted_value |-> Nothing, acked |-> {}]
<1>4. att' = Append(att, t) /\ t.pc = "ping" /\ t.node = n /\ t.key = k /\ t.value = v
      /\ t.by = by
  BY DEF Begin
<1> HIDE DEF t
<1>5. att' \in Seq(Task)
  BY <1>2 DEF CoreInv, TypeInv, AttInv
<1>6. Len(att) + 1 \in Attempt /\ Len(att) + 1 \in DOMAIN att' /\ att'[Len(att) + 1] = t
  BY <1>1, <1>4, ConstantsAssumption DEF Attempt
<1> QED BY <1>1, <1>2, <1>3, <1>4, <1>6 DEF Moves

\* AttemptConsensus for a set, and for an election of one's own.
LEMMA BeginSteps ==
  ASSUME ForwardInv, NEW i \in DOMAIN calls
  PROVE  /\ Decide(i) => ForwardInv'
         /\ ElectSelf(i) => ForwardInv'
<1> PICK c \in Call : c = calls[i]
  BY AtCall
<1>1. calls[i] = c /\ c.node \in Node /\ CallSound(i) /\ c.key \in Key
      /\ c.since <= Len(att) /\ c.since \in Nat
  BY AtCall DEF CallSound, Call
<1>2. Len(att) \in Nat
  BY DEF ForwardInv, CoreInv, TypeInv, AttInv
<1>3. Attempt \subseteq 0 .. MaxAttempts + MaxCalls
  BY ConstantsAssumption, ForwardingAssumption DEF Attempt
<1>4. ASSUME NEW pc \in {"deciding", "electing"}, NEW a \in Attempt,
             Moves, UNCHANGED up, c.pc \notin Over,
             calls' = [calls EXCEPT ![i].pc = pc, ![i].on = a],
             pc = "deciding" => Deciding([c EXCEPT !.pc = pc, !.on = a])',
             pc = "electing" => Electing([c EXCEPT !.pc = pc, !.on = a])'
      PROVE  ForwardInv'
  <2> DEFINE e == [c EXCEPT !.pc = pc, !.on = a]
  <2>1. calls' = [calls EXCEPT ![i] = e]
    BY <1>1, <1>4 DEF ForwardInv, CallsInv
  <2>2. a \in 0 .. MaxAttempts + MaxCalls
    BY <1>3
  <2>3. e \in Call /\ SameCall(c, e) /\ e.pc = pc
    BY <2>2 DEF Call, SameCall
  <2>4. (pc = "deciding" => Deciding(e)') /\ (pc = "electing" => Electing(e)')
    BY <1>4
  <2> HIDE DEF e
  <2>5. Moves /\ UNCHANGED up /\ calls[i].pc \notin Over /\ SameCall(calls[i], e)
    BY <1>1, <1>4, <2>3
  <2> QED BY <2>1, <2>3, <2>4, <2>5, MovesOn
<1>5. ASSUME Decide(i) PROVE ForwardInv'
  <2>1. c.pc = "leading" /\ c.op = "set" /\ Begin(c.node, c.key, c.value, "set")
        /\ calls' = [calls EXCEPT ![i].pc = "deciding", ![i].on = Len(att) + 1]
    BY <1>1, <1>5 DEF Decide
  <2>2. Asked(c.node, c.key, c.value, "set") /\ c.value \in Payload
    BY <1>1, <2>1 DEF Asked, Wanted, Payload, CallSound
  <2>3. PICK a \in Attempt :
          /\ Moves /\ UNCHANGED up /\ a = Len(att) + 1 /\ a \in DOMAIN att'
          /\ att'[a].node = c.node /\ att'[a].key = c.key /\ att'[a].value = c.value
    BY <1>1, <2>1, <2>2, BeginIsLast
  <2>4. Deciding([c EXCEPT !.pc = "deciding", !.on = a])'
    BY <1>1, <1>2, <2>1, <2>3 DEF Deciding, Call
  <2> QED BY <1>4, <2>1, <2>3, <2>4 DEF Over
<1>6. ASSUME ElectSelf(i) PROVE ForwardInv'
  <2>1. c.pc = "stranded" /\ Begin(c.node, LeaderKey, c.node, "elect_leader")
        /\ calls' = [calls EXCEPT ![i].pc = "electing", ![i].on = Len(att) + 1]
    BY <1>1, <1>6 DEF ElectSelf, Elect
  <2>2. LeaderKey \in Key /\ c.node \in Payload /\ Asked(c.node, LeaderKey, c.node, "elect_leader")
    BY <1>1 DEF Key, Payload, Asked
  <2>3. PICK a \in Attempt :
          /\ Moves /\ UNCHANGED up /\ a = Len(att) + 1 /\ a \in DOMAIN att'
          /\ att'[a].node = c.node /\ att'[a].key = LeaderKey /\ att'[a].pc = "ping"
          /\ att'[a].by = "elect_leader"
    BY <1>1, <2>1, <2>2, BeginIsLast
  <2>4. Electing([c EXCEPT !.pc = "electing", !.on = a])'
    BY <2>3 DEF Electing, Call
  <2> QED BY <1>4, <2>1, <2>3, <2>4 DEF Over
<1> QED BY <1>5, <1>6

\* The request goes to whoever is taken for the leader.
LEMMA ForwardStep ==
  ASSUME ForwardInv, NEW i \in DOMAIN calls, Forward(i)
  PROVE  ForwardInv'
<1> PICK c \in Call : c = calls[i]
  BY AtCall
<1> PICK m : m = LeaderOf(i)
  OBVIOUS
<1>1. /\ calls[i] = c /\ c.node \in Node /\ CallSound(i) /\ c.pc = "forwarding" /\ up[m]
      /\ m \in Node /\ Len(calls) < MaxCalls /\ UNCHANGED vars
  BY AtCall DEF Forward
<1>2. /\ calls \in Seq(Call) /\ Len(calls) \in Nat /\ Len(calls) + 1 \in 0 .. MaxAttempts + MaxCalls
      /\ att \in Seq(Task) /\ UNCHANGED <<att, up>>
  BY <1>1, ConstantsAssumption, ForwardingAssumption
     DEF ForwardInv, CallsInv, CoreInv, TypeInv, AttInv, vars
<1>3. /\ c.op \in {"get", "set"} /\ c.key \in Key /\ c.value \in Value \cup {Nothing}
      /\ Wanted(c.op, c.key, c.value) /\ c.since <= Len(att) /\ c.since \in Nat
  BY <1>1 DEF Call, CallSound
<1> PICK last \in 0 .. MaxAttempts + MaxCalls : last = Len(calls) + 1
  BY <1>2
<1> DEFINE e == [c EXCEPT !.pc = "calling", !.on = last]
<1>4. e \in Call /\ SameCall(c, e) /\ e.pc = "calling" /\ e.on = last
  BY DEF Call, SameCall
<1> PICK op \in {"get", "set"}, k \in Key, v \in Value \cup {Nothing} :
       op = c.op /\ k = c.key /\ v = c.value
  BY <1>3
<1> DEFINE d == NewCall(op, m, k, v, FALSE)
<1>5. d \in Call /\ d.op = op /\ d.key = k /\ d.value = v /\ d.since = Len(att)
  <2>1. m \in Node
    BY <1>1
  <2>2. d \in Call
    BY <2>1, NewCallType
  <2> QED BY <2>2 DEF NewCall
<1> DEFINE before == [calls EXCEPT ![i] = e]
<1>6. calls' = Append(before, d)
  BY <1>1 DEF Forward
<1> HIDE DEF d, e
<1>7. /\ before \in Seq(Call) /\ DOMAIN before = DOMAIN calls /\ Len(before) = Len(calls)
      /\ before[i] = e /\ \A j \in DOMAIN calls : j # i => before[j] = calls[j]
  BY <1>2, <1>4
<1> HIDE DEF before
<1>8. /\ last \in DOMAIN calls' /\ calls'[last] = d /\ last > i
      /\ \A j \in DOMAIN calls : calls'[j] = before[j]
  <2>1. d \in Call /\ before \in Seq(Call) /\ Len(before) = Len(calls)
    BY <1>5, <1>7
  <2> QED BY <1>2, <1>6, <2>1
<1>9. Calling(e, i)'
  BY <1>3, <1>4, <1>5, <1>8 DEF Calling, SameCall
<1>10. CallSound(i)'
  BY <1>1, <1>2, <1>3, <1>4, <1>7, <1>8, <1>9 DEF CallSound, SameCall, Over
<1>11. \A j \in DOMAIN calls : calls'[j] = calls[j] \/ CallSound(j)'
  BY <1>7, <1>8, <1>10
<1>12. \A j \in DOMAIN calls : SameCall(calls[j], before[j])
  BY <1>1, <1>4, <1>7 DEF SameCall
<1>13. calls' = Append(before, NewCall(op, m, k, v, FALSE))
  BY <1>6 DEF d
<1> QED BY <1>1, <1>3, <1>7, <1>11, <1>12, <1>13, OneMore

\* A process that stops takes its handlers with it.
LEMMA StopStep ==
  ASSUME ForwardInv, NEW n \in Crashable, Stop(n)
  PROVE  ForwardInv'
<1>1. Moves
  BY NextKeeps, NextOkForGood DEF ForwardInv, CoreInv, Moves, Stop, Next
<1>2. /\ calls \in Seq(Call) /\ Len(calls) <= MaxCalls /\ up \in [Node -> BOOLEAN]
      /\ \A m \in Node : m # n => up'[m] = up[m]
  BY DEF ForwardInv, CallsInv, CoreInv, TypeInv, RestInv, Stop, Crash
<1> DEFINE Gone(c) == [c EXCEPT !.pc = "gone"]
<1>3. ASSUME NEW c \in Call
      PROVE  Gone(c) \in Call /\ SameCall(c, Gone(c)) /\ Gone(c).pc = "gone" /\ SameCall(c, c)
  BY DEF Call, SameCall, Over
<1>4. calls' = [i \in DOMAIN calls |->
                  IF calls[i].node = n /\ calls[i].pc \notin Over THEN Gone(calls[i]) ELSE calls[i]]
  BY DEF Stop
<1> HIDE DEF Gone
<1>5. /\ calls' \in Seq(Call) /\ Len(calls') = Len(calls) /\ DOMAIN calls' = DOMAIN calls
      /\ SameCalls
  BY <1>2, <1>3, <1>4 DEF SameCalls
<1>6. ASSUME NEW i \in DOMAIN calls PROVE CallSound(i)'
  <2> PICK c \in Call : c = calls[i]
    BY AtCall
  <2>1. calls[i] = c /\ c.node \in Node /\ CallSound(i)
    BY AtCall
  <2>2. CASE c.node = n /\ c.pc \notin Over
    <3>1. calls'[i] = Gone(c)
      BY <1>4, <2>1, <2>2
    <3>2. Gone(c).pc = "gone" /\ SameCall(c, Gone(c))
      BY <1>3
    <3>3. Wanted(c.op, c.key, c.value) /\ c.since <= Len(att) /\ c.since \in Nat
      BY <2>1 DEF CallSound, Call
    <3>4. att \in Seq(Task) /\ att' \in Seq(Task) /\ DOMAIN att \subseteq DOMAIN att'
      BY <1>1 DEF ForwardInv, Moves, CoreInv, TypeInv, AttInv, Grows
    <3>5. c.since <= Len(att')
      BY <3>3, <3>4
    <3> QED BY <3>1, <3>2, <3>3, <3>5 DEF CallSound, SameCall, Over
  <2>3. CASE ~ (c.node = n /\ c.pc \notin Over)
    <3>1. calls'[i] = calls[i]
      BY <1>4, <2>1, <2>3
    <3>2. calls[i].pc \notin Over => up'[calls[i].node]
      BY <1>2, <2>1, <2>3 DEF CallSound
    <3> QED BY <1>1, <1>5, <3>1, <3>2, CallStays
  <2> QED BY <2>2, <2>3
<1> QED BY <1>1, <1>2, <1>5, <1>6 DEF ForwardInv, CallsInv, Moves

\* The replication protocol, and the elections replicas begin when they start.
LEMMA ProtocolSteps ==
  ASSUME ForwardInv
  PROVE  /\ Protocol /\ UNCHANGED calls => ForwardInv'
         /\ Idle /\ UNCHANGED calls => ForwardInv'
         /\ UNCHANGED forwardVars => ForwardInv'
         /\ \A n \in Electors : Coordinates(n) => ForwardInv'
<1>1. [Next]_vars => Moves
  BY NextKeeps, NextOkForGood DEF ForwardInv, CoreInv, Moves
<1>2. ASSUME Protocol PROVE UNCHANGED up
  <2>1. ASSUME NEW a, Ping(a) \/ Return(a) PROVE UNCHANGED up
    BY <2>1 DEF Ping, Return
  <2>2. ASSUME NEW a, NEW n, ProposerStep(a, n) PROVE UNCHANGED up
    BY <2>2 DEF ProposerStep, ProposeAnswered, AcceptAnswered, SuccessCalled, Unreachable,
                RequestLost, ReplyLost, TimedOut, StoreTimedOut
  <2>3. ASSUME NEW a, NEW n, HandlerStep(a, n) PROVE UNCHANGED up
    BY <2>3 DEF HandlerStep, Store, LatePropose, LateAccept, LateSuccess
  <2> QED BY <1>2, <2>1, <2>2, <2>3 DEF Protocol
<1>3. Protocol => Next
  BY DEF Protocol, Next
<1>4. Protocol /\ UNCHANGED calls => ForwardInv'
  BY <1>1, <1>2, <1>3, NoCall
<1>5. Idle /\ UNCHANGED calls => ForwardInv'
  BY <1>1, NoCall DEF Idle, vars
<1>6. UNCHANGED forwardVars => ForwardInv'
  BY <1>1, NoCall DEF forwardVars, vars
<1>7. ASSUME NEW n \in Electors, Coordinates(n) PROVE ForwardInv'
  <2>1. n \in Node /\ Elect(n) /\ UNCHANGED <<calls, up>>
    BY <1>7, ConstantsAssumption DEF Coordinates, Elect, Begin
  <2>2. Next
    BY <1>7, <2>1 DEF Next
  <2> QED BY <1>1, <2>1, <2>2, NoCall
<1> QED BY <1>4, <1>5, <1>6, <1>7

\* Every step keeps the invariant.
LEMMA ForwardNextKeeps ==
  ASSUME ForwardInv, [ForwardNext]_forwardVars
  PROVE  ForwardInv'
<1>0. DataKey \subseteq Key /\ ClientKey \subseteq Key
  BY ConstantsAssumption DEF Key
<1>1. CASE \/ \E n \in Contact, k \in ClientKey, v \in Value \ {Written} : Request(n, "set", k, v)
           \/ \E n \in Contact, k \in DataKey : Request(n, "get", k, Nothing)
  BY <1>0, <1>1, RequestStep, ForwardingAssumption DEF Wanted
<1>2. CASE \E i \in DOMAIN calls : Serve(i)
  BY <1>2, LocalSteps, AnswerSteps, ElectionStep, BeginSteps, ForwardStep DEF Serve
<1>3. CASE \E n \in Crashable : Stop(n)
  BY <1>3, StopStep
<1>4. CASE \/ \E n \in Electors : Coordinates(n)
           \/ Protocol /\ UNCHANGED calls
           \/ Idle /\ UNCHANGED calls
           \/ UNCHANGED forwardVars
  BY <1>4, ProtocolSteps
<1> QED BY <1>1, <1>2, <1>3, <1>4 DEF ForwardNext

-----------------------------------------------------------------------------
(* The initial states: every key written once.                             *)

\* The first write of a key is an attempt that a quorum let succeed.
LEMMA FirstWriteSound ==
  ASSUME NEW l \in Node, NEW k \in DataKey
  PROVE  LET t == FirstWrite(l, k) IN
         /\ GoodTask(t) /\ t.pc = "ok" /\ t.node = l /\ t.key = k /\ t.round = 0
         /\ t.value = Written /\ t.acked = Node /\ t.accepted_id = 0 /\ Chosen(t) = Written
<1>1. /\ 0 \in Round /\ NumReplicas \in Nat /\ Written \in Payload /\ k \in Key
      /\ k \in ClientKey /\ Written \in Value
  BY ConstantsAssumption, ForwardingAssumption DEF Round, Payload, Key
<1> QED BY <1>1 DEF FirstWrite, GoodTask, Asked, Task, Ended, Chosen

\* All replicas together are enough.
LEMMA AllAreEnough == Enough(Cardinality(Node), NumReplicas)
<1>1. Cardinality(Node) = NumReplicas
  BY FS_Interval, ConstantsAssumption DEF Node
<1>2. CeilHalf(NumReplicas) \in Int /\ CeilHalf(NumReplicas) <= NumReplicas
  BY ConstantsAssumption DEF CeilHalf
<1> QED BY <1>1, <1>2, ConstantsAssumption DEF Enough

\* The logs after the first writes.
LEMMA FirstLogs ==
  /\ EmptyLog \in LogType /\ Known(EmptyLog) = {}
  /\ Accept(EmptyLog, 0, Written) \in LogType
  /\ Known(Accept(EmptyLog, 0, Written)) = {0}
  /\ BackedLog(Accept(EmptyLog, 0, Written), {Written})
<1>1. EmptyLog \in LogType /\ Known(EmptyLog) = {}
  BY DEF EmptyLog, LogType, Known
<1>2. 0 \in Round /\ Written \in Payload
  BY ConstantsAssumption, ForwardingAssumption DEF Round, Payload
<1>3. /\ Accept(EmptyLog, 0, Written) \in LogType
      /\ Known(Accept(EmptyLog, 0, Written)) = Known(EmptyLog) \cup {0}
  BY <1>1, <1>2, AcceptLog
<1>4. BackedLog(EmptyLog, {Written})
  BY <1>1 DEF BackedLog
<1>5. BackedLog(Accept(EmptyLog, 0, Written), {Written})
  BY <1>1, <1>2, <1>4, AcceptBacked
<1> QED BY <1>1, <1>3, <1>5

\* Such replicas satisfy the invariants of the protocol, and no handler runs yet.
LEMMA ForwardStarts == ForwardInit => ForwardInv
<1> SUFFICES ASSUME ForwardInit PROVE ForwardInv
  OBVIOUS
<1> PICK l \in Flagged, keys \in [1 .. Cardinality(DataKey) -> DataKey] : Prepared(l, keys)
  BY DEF ForwardInit
<1>2. /\ l \in Node /\ Written \in Payload /\ 0 \in Round /\ DataKey \subseteq Key
      /\ LeaderKey \notin DataKey /\ LeaderKey \in Key /\ Node \subseteq Payload
      /\ MaxFaults \in Nat /\ MaxCalls \in Nat /\ Key = DataKey \cup {LeaderKey}
  BY ConstantsAssumption, ForwardingAssumption DEF Payload, Round, Key
<1>3. /\ Cardinality(DataKey) \in Nat /\ Cardinality(DataKey) <= MaxAttempts
      /\ DOMAIN keys = 1 .. Cardinality(DataKey) /\ \A a \in DOMAIN keys : keys[a] \in DataKey
  BY ConstantsAssumption, ForwardingAssumption
<1>4. \A a \in DOMAIN keys :
        /\ GoodTask(att[a]) /\ att[a].pc = "ok" /\ att[a].node = l /\ att[a].key = keys[a]
        /\ att[a].round = 0 /\ att[a].value = Written /\ att[a].acked = Node
        /\ att[a].accepted_id = 0 /\ Chosen(att[a]) = Written
  <2>1. ASSUME NEW a \in DOMAIN keys PROVE att[a] = FirstWrite(l, keys[a])
    BY DEF Prepared
  <2> QED BY <1>2, <1>3, <2>1, FirstWriteSound
<1>5. DOMAIN att = DOMAIN keys /\ Len(att) = Cardinality(DataKey) /\ att \in Seq(Task)
  <2>1. DOMAIN att = 1 .. Cardinality(DataKey) /\ att = [a \in 1 .. Cardinality(DataKey) |-> att[a]]
    BY <1>3 DEF Prepared
  <2>2. \A a \in 1 .. Cardinality(DataKey) : att[a] \in Task
    BY <1>3, <1>4 DEF GoodTask
  <2>3. att \in [1 .. Cardinality(DataKey) -> Task]
    BY <2>1, <2>2
  <2>4. att \in Seq(Task)
    BY <1>3, <2>3
  <2> QED BY <1>3, <2>1, <2>4
<1>6. AttInv
  BY <1>3, <1>4, <1>5 DEF AttInv
<1>7. \A n \in Node, k \in Key :
        \/ k \in DataKey /\ log[n][k] = Accept(EmptyLog, 0, Written)
        \/ k = LeaderKey /\ log[n][k] = EmptyLog
  BY <1>2 DEF Prepared
<1>8. LogInv
  <2>1. log \in [Node -> [Key -> LogType]]
    <3> DEFINE written == Accept(EmptyLog, 0, Written)
    <3>1. written \in LogType /\ EmptyLog \in LogType
      BY FirstLogs
    <3>2. log = [n \in Node |-> [k \in Key |-> IF k \in DataKey THEN written ELSE EmptyLog]]
      BY DEF Prepared
    <3> HIDE DEF written
    <3> QED BY <3>1, <3>2
  <2>2. ASSUME NEW k \in DataKey PROVE 0 < Len(att)
    <3>1. PICK a \in DOMAIN keys : k = keys[a]
      BY DEF Prepared
    <3> QED BY <1>3, <1>5, <3>1
  <2>3. ASSUME NEW n \in Node, NEW k \in Key
        PROVE  FullEntries(log[n][k]) /\ \A r \in Known(log[n][k]) : r < Len(att)
    BY <1>2, <1>7, <2>2, FirstLogs DEF FullEntries, BackedLog
  <2> QED BY <2>1, <2>3 DEF LogInv
<1>9. RestInv
  <2>1. kv \in [Node -> [DataKey -> Payload \cup {Nothing}]]
    BY <1>2 DEF Prepared
  <2>2. leader \in [Node -> Payload \cup {Nothing}]
    BY <1>2 DEF Prepared
  <2>3. ver \in [Node -> [Key -> Round \cup {-1}]]
    BY <1>2 DEF Prepared
  <2>4. votes \subseteq Node \X Key \X Round \X Payload
    BY <1>2 DEF Prepared
  <2> QED BY <1>2, <2>1, <2>2, <2>3, <2>4 DEF Prepared, RestInv
<1>10. \A k \in DataKey : Voters(k, 0, Written) = Node
  BY DEF Prepared, Voters
<1>11. DecisionInv
  <2>1. ASSUME NEW a \in DOMAIN att PROVE Sound(att[a], votes)
    <3>1. VotersOf(att[a], votes) = Node
      BY <1>3, <1>4, <1>5, <1>10 DEF VotersOf, Voters
    <3> QED BY <1>4, <1>5, <3>1, AllAreEnough DEF Sound, Settled, IsDecided
  <2>2. RunningDecided
    BY DEF RunningDecided, Prepared
  <2>3. ASSUME NEW n \in Node, NEW k \in Key, ver[n][k] # -1
        PROVE  Decided(k, ver[n][k], Held(n, k))
    <3>1. k \in DataKey /\ ver[n][k] = 0
      BY <1>2, <2>3 DEF Prepared
    <3>2. Held(n, k) = Written
      BY <1>2, <3>1 DEF Held, Prepared
    <3> QED BY <1>10, <3>1, <3>2, AllAreEnough DEF Decided
  <2> QED BY <2>1, <2>2, <2>3 DEF DecisionInv, StoredIsDecided
<1>12. \A k \in DataKey : Written \in Requested(k)
  <2> SUFFICES ASSUME NEW k \in DataKey PROVE Written \in Requested(k)
    OBVIOUS
  <2>1. PICK a \in DOMAIN keys : k = keys[a]
    BY DEF Prepared
  <2> QED BY <1>4, <1>5, <2>1 DEF Requested
<1>13. ValidInv
  <2>1. AttsValid
    BY <1>3, <1>4, <1>5, <1>12 DEF AttsValid, Backed
  <2>2. LogsValid
    BY <1>7, <1>12, FirstLogs DEF LogsValid, BackedLog
  <2>3. StoresValid
    BY <1>12 DEF StoresValid, Prepared
  <2>4. LeadersValid
    BY DEF LeadersValid, AskedFor, Prepared
  <2> QED BY <2>1, <2>2, <2>3, <2>4 DEF ValidInv
<1>14. CallsInv
  BY <1>2 DEF CallsInv, Prepared
<1> QED BY <1>6, <1>8, <1>9, <1>11, <1>13, <1>14 DEF ForwardInv, CoreInv, TypeInv

\* The inductive form.
LEMMA ForwardInvariant == ForwardSpec => []ForwardInv
BY ForwardStarts, ForwardNextKeeps, PTL DEF ForwardSpec

-----------------------------------------------------------------------------
(* What a client can rely on.                                              *)

\* Every variable keeps its type, handlers run only on replicas that run, and wait only
\* for attempts and calls of their own request.
THEOREM ForwardTypeCorrect == ForwardSpec => []ForwardTypeOK
<1>1. ForwardInv => ForwardTypeOK
  <2> SUFFICES ASSUME ForwardInv PROVE ForwardTypeOK
    OBVIOUS
  <2>1. TypeOK
    BY TypeInvImpliesTypeOK DEF ForwardInv, CoreInv
  <2> QED BY <2>1 DEF ForwardInv, CallsInv, CallSound, Deciding, Electing, Calling, ForwardTypeOK
<1> QED BY <1>1, ForwardInvariant, PTL

\* An OK that comes back from whichever replica, over however many forwards, after a
\* failed one and an election, means that a quorum accepted what an attempt for that
\* very value, begun after the request arrived, settled on.
THEOREM OkDecided == ForwardSpec => []OkIsDecided
<1>1. ForwardInv => OkIsDecided
  <2> SUFFICES ASSUME ForwardInv, NEW i \in DOMAIN calls, calls[i].op = "set", calls[i].pc = "ok"
               PROVE  \E a \in calls[i].since + 1 .. Len(att) :
                        /\ att[a].key = calls[i].key /\ att[a].value = calls[i].value
                        /\ att[a].pc = "ok"
                        /\ Decided(calls[i].key, att[a].round, Chosen(att[a]))
    BY DEF OkIsDecided
  <2>1. PICK a \in DOMAIN att :
          /\ a > calls[i].since /\ att[a].key = calls[i].key /\ att[a].value = calls[i].value
          /\ att[a].pc = "ok"
    BY AtCall DEF CallSound, Acknowledges
  <2>2. att \in Seq(Task) /\ calls[i].since \in Nat
    BY AtCall DEF ForwardInv, CoreInv, TypeInv, AttInv, Call
  <2>3. a \in calls[i].since + 1 .. Len(att)
    BY <2>1, <2>2
  <2>4. Decided(att[a].key, att[a].round, Chosen(att[a]))
    BY <2>1 DEF ForwardInv, CoreInv, DecisionInv, Sound, IsDecided, VotersOf, Decided, Voters
  <2> QED BY <2>1, <2>3, <2>4
<1> QED BY <1>1, ForwardInvariant, PTL

\* Serving requests on any replica changes nothing of what the protocol promises.
THEOREM ServedIsDecided == ForwardSpec => [](StoredIsDecided /\ Validity /\ LeaderIsCandidate)
<1>1. ForwardInv => StoredIsDecided /\ Validity
  BY DEF ForwardInv, CoreInv, DecisionInv, ValidInv, LogsValid, BackedLog, StoresValid, Validity
<1>2. ForwardInv => LeaderIsCandidate
  BY AskedByWhom DEF ForwardInv, CoreInv, ValidInv, LeadersValid, LeaderIsCandidate
<1> QED BY <1>1, <1>2, ForwardInvariant, PTL

-----------------------------------------------------------------------------
(* Behaviours without failed calls in which a key is written by one        *)
(* attempt at a time: every attempt that succeeds reaches every replica    *)
(* that runs.                                                              *)

\* No two attempts to write one key are under way.
Apart ==
  faults = 0 =>
    \A a, b \in DOMAIN att :
      Active(a) /\ Active(b) /\ att[a].key = att[b].key /\ att[a].key \in DataKey => a = b

Ups == {n \in Node : up[n]}
Quorate == Enough(Cardinality(Ups), NumReplicas)

\* The attempts to write key k.
Of(k) == {a \in DOMAIN att : att[a].key = k}

\* No call has failed, and no proposer died while it wrote k.
Unharmed(k) == faults = 0 /\ \A a \in Of(k) : att[a].pc # "dead"

\* n's answer to success has been waited for.
Told(t, n) == t.pc = "return" \/ (t.pc \in {"success", "storing"} /\ n \notin t.todo)

\* Every replica that runs is asked and counted, so that an attempt fails only when too few
\* run, which is for ever.
Counted(t) ==
  /\ t.pc = "propose" => Ups \subseteq t.live /\ Cardinality(Ups \ t.todo) <= t.promised
  /\ t.pc = "accept" => Ups \ t.todo \subseteq t.acked
  /\ t.pc = "fail" => ~ Quorate

\* n knows of the attempt, and stores its value or a later one.
Has(n, t) == t.round \in Known(log[n][t.key]) /\ ver[n][t.key] >= t.round

\* The attempt's round is n's next, or already its last.
NextAt(n, t) ==
  /\ 0 .. t.round - 1 \subseteq Known(log[n][t.key])
  /\ \A s \in Known(log[n][t.key]) : s <= t.round

UpTask(a) ==
  /\ Counted(att[a])
  /\ \A n \in Ups :
       /\ att[a].pc = "ok" \/ Told(att[a], n) => Has(n, att[a])
       /\ Told(att[a], n) => kv[n][att[a].key] = Chosen(att[a])
       /\ Active(a) /\ (Quorate \/ att[a].pc # "ping") => NextAt(n, att[a])
       /\ att[a].pc = "storing" /\ IsNext(att[a], n) =>
            <<a, "store", n>> \in running /\ att[a].round \in Known(log[n][att[a].key])

\* Every handler is waited for.
RunsOf(k) ==
  \A c \in running : c[1] \in Of(k) =>
    c[2] = "store" /\ att[c[1]].pc = "storing" /\ IsNext(att[c[1]], c[3])

\* The logs have no holes, and no round that nobody proposed in.
LogsOf(k) ==
  \A n \in Ups : \A r \in Known(log[n][k]) :
    /\ 0 .. r \subseteq Known(log[n][k])
    /\ \E a \in Of(k) : att[a].pc # "ping" /\ att[a].round = r

\* Replicas store the same, but for a value only one of them has been told.
StoresOf(k) ==
  \A n, m \in Ups :
    (\A a \in Of(k) : Told(att[a], n) <=> Told(att[a], m)) => kv[n][k] = kv[m][k]

KeyInv(k) == (\A a \in Of(k) : UpTask(a)) /\ RunsOf(k) /\ LogsOf(k) /\ StoresOf(k)

-----------------------------------------------------------------------------
(* Head counts of the replicas that run.                                   *)

\* A larger count passes where a smaller one does.
LEMMA EnoughMore ==
  ASSUME NEW i \in Nat, NEW j \in Nat, i <= j, Enough(i, NumReplicas)
  PROVE  Enough(j, NumReplicas)
BY ConstantsAssumption DEF Enough, CeilHalf

\* Sets of replicas can be counted.
LEMMA NodeSets ==
  ASSUME NEW S \in SUBSET Node
  PROVE  IsFiniteSet(S) /\ Cardinality(S) \in Nat
<1>1. IsFiniteSet(Node)
  BY FS_Interval, ConstantsAssumption DEF Node
<1> QED BY <1>1, FS_Subset, FS_CardinalityType

\* One more replica to leave out is at most one more.
LEMMA OneLeft ==
  ASSUME NEW S \in SUBSET Node, NEW T, NEW n
  PROVE  /\ n \notin S => S \ (T \ {n}) = S \ T
         /\ Cardinality(S \ (T \ {n})) <= Cardinality(S \ T) + 1
<1>1. CASE n \in S /\ n \in T
  <2>1. S \ (T \ {n}) = (S \ T) \cup {n} /\ n \notin S \ T
    BY <1>1
  <2>2. IsFiniteSet(S \ T)
    BY NodeSets
  <2>3. Cardinality(S \ T) \in Nat
    BY NodeSets
  <2>4. Cardinality((S \ T) \cup {n}) = Cardinality(S \ T) + 1
    BY <2>1, <2>2, FS_AddElement
  <2> QED BY <1>1, <2>1, <2>3, <2>4
<1>2. CASE ~ (n \in S /\ n \in T)
  <2>1. S \ (T \ {n}) = S \ T
    BY <1>2
  <2>2. Cardinality(S \ T) \in Nat
    BY NodeSets
  <2> QED BY <2>1, <2>2
<1> QED BY <1>1, <1>2

\* The test after the proposals counts every replica that runs.
LEMMA ProposalsCounted ==
  ASSUME NEW w, {"pc", "todo", "live"} \subseteq DOMAIN w, w.promised \in Nat, w.pc = "propose",
         Ups \subseteq w.live, Cardinality(Ups \ w.todo) <= w.promised
  PROVE  Counted(Advance(w))
<1>1. CASE w.todo # {}
  <2>1. Advance(w) = w
    BY <1>1 DEF Advance
  <2> QED BY <2>1 DEF Counted
<1>2. CASE w.todo = {} /\ Enough(w.promised, NumReplicas)
  <2>1. Advance(w) = [w EXCEPT !.pc = "accept", !.todo = w.live]
    BY <1>2 DEF Advance
  <2>2. Advance(w).pc = "accept" /\ Advance(w).todo = w.live
    BY <2>1
  <2> QED BY <2>2 DEF Counted
<1>3. CASE w.todo = {} /\ ~ Enough(w.promised, NumReplicas)
  <2>1. Advance(w) = [w EXCEPT !.pc = "fail", !.live = {}]
    BY <1>3 DEF Advance
  <2>2. Advance(w).pc = "fail"
    BY <2>1
  <2>3. Ups \ w.todo = Ups /\ Ups \in SUBSET Node
    BY <1>3 DEF Ups
  <2>4. Cardinality(Ups) \in Nat
    BY <2>3, NodeSets
  <2>5. ~ Quorate
    BY <1>3, <2>3, <2>4, EnoughMore DEF Quorate
  <2> QED BY <2>2, <2>5 DEF Counted
<1> QED BY <1>1, <1>2, <1>3

\* The test after the accept requests, too.
LEMMA AcceptsCounted ==
  ASSUME NEW w, GoodTask(w), w.pc = "accept", Ups \ w.todo \subseteq w.acked
  PROVE  Counted(Advance(w))
<1>1. w \in Task /\ w.acked \in SUBSET Node
  BY DEF GoodTask, Task
<1>2. CASE w.todo # {}
  <2>1. Advance(w) = w
    BY <1>2 DEF Advance
  <2> QED BY <2>1 DEF Counted
<1>3. CASE w.todo = {} /\ Enough(Cardinality(w.acked), NumReplicas)
  <2>1. Advance(w) = [w EXCEPT !.pc = "success", !.todo = Node, !.live = {}]
    BY <1>3 DEF Advance
  <2>2. Advance(w).pc = "success"
    BY <1>1, <2>1 DEF Task
  <2> QED BY <2>2 DEF Counted
<1>4. CASE w.todo = {} /\ ~ Enough(Cardinality(w.acked), NumReplicas)
  <2>1. Advance(w) = [w EXCEPT !.pc = "fail", !.live = {}]
    BY <1>4 DEF Advance
  <2>2. Advance(w).pc = "fail"
    BY <1>1, <2>1 DEF Task
  <2>3. Ups \subseteq w.acked /\ Ups \in SUBSET Node
    BY <1>4 DEF Ups
  <2>4. ~ Quorate
    BY <1>1, <1>4, <2>3, MoreIsEnough DEF Quorate
  <2> QED BY <2>2, <2>4 DEF Counted
<1> QED BY <1>2, <1>3, <1>4

-----------------------------------------------------------------------------
(* How a step changes what is known of one key.                            *)

\* The rounds and versions of a key are numbers.
LEMMA KeyTypes ==
  ASSUME TypeInv, NEW k \in DataKey
  PROVE  /\ k \in Key
         /\ \A a \in DOMAIN att : att[a].round \in Nat /\ GoodTask(att[a]) /\ att[a].todo \subseteq Node
         /\ \A n \in Node : ver[n][k] \in Int /\ Known(log[n][k]) \subseteq Nat
<1>1. k \in Key
  BY DEF Key
<1>2. \A a \in DOMAIN att : att[a].round \in Nat /\ GoodTask(att[a]) /\ att[a].todo \subseteq Node
  BY DEF TypeInv, AttInv, GoodTask, Task, Round
<1>3. ASSUME NEW n \in Node PROVE ver[n][k] \in Int /\ Known(log[n][k]) \subseteq Nat
  <2>1. log[n][k] \in LogType /\ ver[n][k] \in Round \cup {-1}
    BY <1>1 DEF TypeInv, LogInv, RestInv
  <2> QED BY <2>1, ConstantsAssumption DEF LogType, Known, Round
<1> QED BY <1>1, <1>2, <1>3

\* A step that has nothing to do with the key.
LEMMA SameKey ==
  ASSUME NEW k, KeyInv(k), UNCHANGED up,
         Of(k)' = Of(k), \A b \in Of(k) : att'[b] = att[b],
         \A n \in Node : log'[n][k] = log[n][k] /\ kv'[n][k] = kv[n][k] /\ ver'[n][k] = ver[n][k],
         \A c \in running' : c[1] \in Of(k) => c \in running,
         \A b \in Of(k), n \in Node : <<b, "store", n>> \in running => <<b, "store", n>> \in running'
  PROVE  KeyInv(k)'
<1>1. Ups' = Ups /\ (Quorate' <=> Quorate) /\ \A n \in Ups : n \in Node
  BY DEF Ups, Quorate
<1>2. ASSUME NEW a \in Of(k) PROVE UpTask(a)'
  <2>1. UpTask(a) /\ att'[a] = att[a] /\ att[a].key = k
    BY DEF KeyInv, Of
  <2>2. Counted(att[a])'
    BY <1>1, <2>1 DEF UpTask, Counted
  <2>3. \A n \in Ups : (Has(n, att[a]) => Has(n, att[a])') /\ (NextAt(n, att[a]) => NextAt(n, att[a])')
    BY <1>1, <2>1 DEF Has, NextAt
  <2> QED BY <1>1, <2>1, <2>2, <2>3 DEF UpTask, Active
<1>3. RunsOf(k)'
  BY DEF KeyInv, RunsOf
<1>4. LogsOf(k)'
  BY <1>1 DEF KeyInv, LogsOf
<1>5. StoresOf(k)'
  BY <1>1 DEF KeyInv, StoresOf
<1> QED BY <1>2, <1>3, <1>4, <1>5 DEF KeyInv

\* Only an attempt that is under way has told anyone.
LEMMA ToldActive ==
  ASSUME NEW a, ~ Active(a), NEW n
  PROVE  ~ Told(att[a], n)
BY DEF Active, Told, Stage

\* A step of the only attempt under way.
LEMMA OwnMove ==
  ASSUME TypeInv, NEW k \in DataKey, KeyInv(k), UNCHANGED up,
         NEW a \in Of(k), \A b \in Of(k) : b # a => ~ Active(b),
         NEW u, att' = [att EXCEPT ![a] = u], SameRequest(att[a], u), u.pc # "ping",
         Active(a) /\ (att[a].pc = "ping" => Quorate \/ u.pc \notin Stage),
         \A m \in Ups :
           \/ Known(log'[m][k]) = Known(log[m][k])
           \/ att[a].pc # "ping" /\ Known(log'[m][k]) = Known(log[m][k]) \cup {att[a].round},
         \A m \in Ups :
           \/ kv'[m][k] = kv[m][k] /\ ver'[m][k] = ver[m][k]
           \/ att[a].pc # "ping" /\ Told(u, m) /\ ver'[m][k] = att[a].round,
         Counted(u),
         \A m \in Ups :
           /\ u.pc = "ok" \/ Told(u, m) => Has(m, u)'
           /\ Told(u, m) => kv'[m][k] = Chosen(u)
           /\ u.pc = "storing" /\ IsNext(u, m) =>
                <<a, "store", m>> \in running' /\ u.round \in Known(log'[m][k]),
         \A n, m \in Ups : ~ Told(u, n) /\ ~ Told(u, m) => (Told(att[a], n) <=> Told(att[a], m)),
         RunsOf(k)'
  PROVE  KeyInv(k)'
<1>1. Ups' = Ups /\ (Quorate' <=> Quorate) /\ \A n \in Ups : n \in Node
  BY DEF Ups, Quorate
<1>2. a \in DOMAIN att /\ att[a].key = k /\ UpTask(a) /\ u.key = k /\ u.round = att[a].round
  BY DEF Of, KeyInv, SameRequest
<1>3. /\ DOMAIN att' = DOMAIN att /\ att'[a] = u
      /\ \A b \in DOMAIN att : b # a => att'[b] = att[b]
  BY <1>2 DEF TypeInv, AttInv
<1>4. Of(k)' = Of(k)
  BY <1>2, <1>3 DEF Of
<1>5. \A m \in Ups : Known(log[m][k]) \subseteq Known(log'[m][k])
  OBVIOUS
<1>6. \A m \in Ups : att[a].pc # "ping" => NextAt(m, att[a])
  BY <1>2 DEF UpTask
<1>7. ASSUME NEW b \in Of(k), b # a PROVE UpTask(b)'
  <2>1. att'[b] = att[b] /\ b \in DOMAIN att /\ att[b].key = k /\ UpTask(b) /\ ~ Active(b)
    BY <1>3, <1>7 DEF Of, KeyInv
  <2>2. Counted(att[b])'
    BY <1>1, <2>1 DEF UpTask, Counted, Active, Stage
  <2>3. ASSUME NEW n \in Ups, att[b].pc = "ok" PROVE Has(n, att[b])'
    <3>1. att[b].round \in Known(log[n][k]) /\ ver[n][k] >= att[b].round
      BY <2>1, <2>3 DEF UpTask, Has
    <3>2. ver'[n][k] >= att[b].round
      <4>1. CASE ver'[n][k] = ver[n][k]
        BY <3>1, <4>1
      <4>2. CASE att[a].pc # "ping" /\ ver'[n][k] = att[a].round
        <5>1. att[b].round <= att[a].round
          BY <1>2, <1>6, <3>1, <4>2 DEF NextAt
        <5>2. att[b].round \in Nat /\ att[a].round \in Nat
          BY <1>2, <2>1, KeyTypes
        <5> QED BY <4>2, <5>1, <5>2
      <4> QED BY <4>1, <4>2
    <3> QED BY <1>5, <2>1, <3>1, <3>2 DEF Has
  <2>4. ~ Active(b)' /\ \A n : ~ Told(att'[b], n)
    BY <2>1, ToldActive DEF Active
  <2> QED BY <1>1, <2>1, <2>2, <2>3, <2>4 DEF UpTask, Active, Stage
<1>8. UpTask(a)'
  <2>1. Counted(u)'
    BY <1>1 DEF Counted
  <2>2. ASSUME NEW n \in Ups, u.pc \in Stage PROVE NextAt(n, u)'
    <3>1. NextAt(n, att[a])
      BY <1>2, <2>2 DEF UpTask
    <3>2. att[a].round \in Nat
      BY <1>2, KeyTypes
    <3>3. \A s \in Known(log'[n][k]) : s <= att[a].round
      BY <1>2, <3>1, <3>2 DEF NextAt
    <3>4. 0 .. att[a].round - 1 \subseteq Known(log'[n][k])
      BY <1>2, <1>5, <3>1 DEF NextAt
    <3> QED BY <1>2, <3>3, <3>4 DEF NextAt
  <2> QED BY <1>1, <1>2, <1>3, <2>1, <2>2 DEF UpTask, Active
<1>9. LogsOf(k)'
  <2> SUFFICES ASSUME NEW n \in Ups, NEW r \in Known(log'[n][k])
               PROVE  /\ 0 .. r \subseteq Known(log'[n][k])
                      /\ \E b \in Of(k) : att'[b].pc # "ping" /\ att'[b].round = r
    BY ZenonT(60), <1>1, <1>4 DEF LogsOf
  <2>1. CASE r \in Known(log[n][k])
    <3>1. 0 .. r \subseteq Known(log[n][k]) /\ \E b \in Of(k) : att[b].pc # "ping" /\ att[b].round = r
      BY <2>1 DEF KeyInv, LogsOf
    <3> QED BY <1>2, <1>3, <1>5, <3>1 DEF Of
  <2>2. CASE r \notin Known(log[n][k])
    <3>1. att[a].pc # "ping" /\ r = att[a].round
      BY <2>2
    <3>2. 0 .. r - 1 \subseteq Known(log[n][k]) /\ r \in Nat
      BY <1>2, <1>6, <3>1, KeyTypes DEF NextAt
    <3>3. ASSUME NEW s \in 0 .. r PROVE s \in Known(log'[n][k])
      <4>1. s = r \/ s \in 0 .. r - 1
        BY <3>2
      <4> QED BY <1>5, <3>2, <4>1
    <3> QED BY <1>2, <1>3, <3>1, <3>3
  <2> QED BY <2>1, <2>2
<1>10. StoresOf(k)'
  <2> SUFFICES ASSUME NEW n \in Ups, NEW m \in Ups, Told(u, n) <=> Told(u, m)
               PROVE  kv'[n][k] = kv'[m][k]
    BY <1>1, <1>3, <1>4 DEF StoresOf
  <2>1. CASE Told(u, n)
    BY <2>1
  <2>2. CASE ~ Told(u, n)
    <3>1. \A b \in Of(k) : Told(att[b], n) <=> Told(att[b], m)
      BY <2>2, ToldActive
    <3>2. kv[n][k] = kv[m][k]
      BY <3>1 DEF KeyInv, StoresOf
    <3> QED BY <2>2, <3>2
  <2> QED BY <2>1, <2>2
<1> QED BY <1>4, <1>7, <1>8, <1>9, <1>10 DEF KeyInv

\* Whom a proposer has told once a call is over.
LEMMA ToldOver ==
  ASSUME NEW t, NEW pc \in Waits, t.pc = pc \/ (t.pc = "storing" /\ pc = "success"),
         NEW n \in t.todo, NEW u, CallOver(t, pc, u, n), NEW m \in Node
  PROVE  Told(u, m) <=> Told(t, m) \/ (pc = "success" /\ m = n)
BY DEF Told, CallOver, Waits

\* The end of a call: of propose and accept, or of success, whose callee has stored the
\* value if it runs.
LEMMA CallKeeps ==
  ASSUME TypeInv, NEW k \in DataKey, KeyInv(k), UNCHANGED up,
         NEW a \in Of(k), \A b \in Of(k) : b # a => ~ Active(b),
         NEW pc \in Waits, att[a].pc = pc \/ (att[a].pc = "storing" /\ pc = "success"),
         NEW n \in Node, IsNext(att[a], n),
         NEW u, att' = [att EXCEPT ![a] = u], CallOver(att[a], pc, u, n),
         pc = "propose" \/ SameChoice(att[a], u), Counted(u),
         \A m \in Ups :
           \/ Known(log'[m][k]) = Known(log[m][k])
           \/ Known(log'[m][k]) = Known(log[m][k]) \cup {att[a].round},
         \A m \in Ups :
           \/ ~ (pc = "success" /\ m = n) /\ kv'[m][k] = kv[m][k] /\ ver'[m][k] = ver[m][k]
           \/ /\ pc = "success" /\ m = n /\ att[a].round \in Known(log'[m][k])
              /\ kv'[m][k] = Chosen(att[a]) /\ ver'[m][k] = att[a].round,
         \A c \in running' : c[1] \in Of(k) => c \in running /\ c # <<a, "store", n>>
  PROVE  KeyInv(k)'
<1>1. /\ a \in DOMAIN att /\ att[a].key = k /\ UpTask(a) /\ SameRequest(att[a], u)
      /\ att[a].round \in Nat /\ n \in att[a].todo /\ att[a].todo \subseteq Node
  BY KeyTypes DEF Of, KeyInv, CallOver, IsNext
<1>2. u.pc \notin {"ping", "storing", "ok"} /\ Active(a) /\ att[a].pc # "ping"
  BY DEF CallOver, Waits, Active, Stage
<1>3. \A m \in Ups : Told(u, m) <=> Told(att[a], m) \/ (pc = "success" /\ m = n)
  BY <1>1, ToldOver DEF Ups
<1>4. pc = "success" => Chosen(u) = Chosen(att[a])
  BY DEF SameChoice, SameRequest, Chosen
<1>5. \A m : Told(att[a], m) => pc = "success"
  BY DEF Told, Waits
<1>6. ASSUME NEW m \in Ups, Told(u, m) PROVE Has(m, u)' /\ kv'[m][k] = Chosen(u)
  <2>1. pc = "success" /\ u.key = k /\ u.round = att[a].round
    BY <1>1, <1>3, <1>5, <1>6 DEF SameRequest
  <2>2. CASE m = n
    BY <1>1, <1>4, <2>1, <2>2 DEF Has
  <2>3. CASE m # n
    <3>1. Has(m, att[a]) /\ kv[m][k] = Chosen(att[a])
      BY <1>1, <1>3, <1>6, <2>3 DEF UpTask
    <3> QED BY <1>1, <1>4, <2>1, <2>3, <3>1 DEF Has
  <2> QED BY <2>2, <2>3
<1>7. RunsOf(k)'
  <2>1. Of(k)' = Of(k)
    BY <1>1 DEF Of, SameRequest, TypeInv, AttInv
  <2> SUFFICES ASSUME NEW c \in running', c[1] \in Of(k) PROVE FALSE
    BY <2>1 DEF RunsOf
  <2>2. c \in running /\ c # <<a, "store", n>>
    OBVIOUS
  <2>3. c[2] = "store" /\ att[c[1]].pc = "storing" /\ IsNext(att[c[1]], c[3])
    BY <2>2 DEF KeyInv, RunsOf
  <2>4. c[1] = a
    BY <2>3 DEF Active, Stage
  <2>5. c = <<c[1], c[2], c[3]>> /\ c[3] \in Node
    BY <2>2 DEF TypeInv, RestInv
  <2>6. c[3] = n
    BY <1>1, <2>3, <2>4, <2>5 DEF IsNext, Node
  <2> QED BY <2>2, <2>3, <2>4, <2>5, <2>6
<1>8. \A m \in Ups :
        \/ kv'[m][k] = kv[m][k] /\ ver'[m][k] = ver[m][k]
        \/ att[a].pc # "ping" /\ Told(u, m) /\ ver'[m][k] = att[a].round
  BY <1>2, <1>3
<1>9. \A m, j \in Ups : ~ Told(u, m) /\ ~ Told(u, j) => (Told(att[a], m) <=> Told(att[a], j))
  BY <1>3
<1> QED BY <1>1, <1>2, <1>6, <1>7, <1>8, <1>9, OwnMove

-----------------------------------------------------------------------------
(* Action by action: the attempt that writes the key.                      *)

\* What a handler of the attempt writes to the logs.
LEMMA LogLearns ==
  ASSUME TypeInv, NEW k \in DataKey, NEW a \in Of(k), NEW n \in Node, LogStep(a, n)
  PROVE  /\ att[a].round \in Known(log'[n][k])
         /\ \A m \in Ups :
              \/ Known(log'[m][k]) = Known(log[m][k])
              \/ Known(log'[m][k]) = Known(log[m][k]) \cup {att[a].round}
<1>1. a \in DOMAIN att /\ att[a].key = k /\ k \in Key
  BY DEF Of, Key
<1>2. /\ Known(log'[n][k]) = Known(log[n][k]) \cup {att[a].round}
      /\ \A m \in Node : m # n => log'[m][k] = log[m][k]
  BY <1>1, LogStepKnown
<1> QED BY <1>2 DEF Ups

\* An answer to propose is counted.
LEMMA PromisedCounted ==
  ASSUME NEW t, GoodTask(t), t.pc = "propose", Counted(t), NEW n, NEW e \in EntryType
  PROVE  Counted(Promised(t, n, e))
<1> DEFINE w == [t EXCEPT
    !.todo = @ \ {n},
    !.promised = @ + 1,
    !.accepted_value = IF e.a_server_id > t.accepted_id THEN e.accepted_value ELSE @,
    !.accepted_id = IF e.a_server_id > @ THEN e.a_server_id ELSE @]
<1>1. /\ {"pc", "todo", "live"} \subseteq DOMAIN w /\ w.pc = "propose" /\ w.live = t.live
      /\ w.todo = t.todo \ {n} /\ w.promised = t.promised + 1 /\ t.promised \in Nat
  BY DEF GoodTask, Task
<1>2. Promised(t, n, e) = Advance(w)
  BY DEF Promised
<1> HIDE DEF w
<1>3. Ups \subseteq t.live /\ Cardinality(Ups \ t.todo) <= t.promised
  BY DEF Counted
<1>4. Ups \in SUBSET Node
  BY DEF Ups
<1>5. Cardinality(Ups \ (t.todo \ {n})) <= Cardinality(Ups \ t.todo) + 1
  BY <1>4, OneLeft
<1>6. Cardinality(Ups \ (t.todo \ {n})) \in Nat /\ Cardinality(Ups \ t.todo) \in Nat
  BY <1>4, NodeSets
<1>7. Cardinality(Ups \ w.todo) <= w.promised
  BY <1>1, <1>3, <1>5, <1>6
<1> QED BY <1>1, <1>2, <1>3, <1>7, ProposalsCounted

\* So is one to accept.
LEMMA AckedCounted ==
  ASSUME NEW t, GoodTask(t), t.pc = "accept", Counted(t), NEW n \in Node
  PROVE  Counted(Acked(t, n))
<1> DEFINE w == [t EXCEPT !.todo = @ \ {n}, !.acked = @ \cup {n}]
<1>1. GoodTask(w) /\ w.pc = "accept" /\ w.todo = t.todo \ {n} /\ w.acked = t.acked \cup {n}
  BY DEF GoodTask, Task
<1>2. Acked(t, n) = Advance(w)
  BY DEF Acked
<1> HIDE DEF w
<1>3. Ups \ w.todo \subseteq w.acked
  BY <1>1 DEF Counted
<1> QED BY <1>1, <1>2, <1>3, AcceptsCounted

\* One that does not run need not be counted.
LEMMA PassedCounted ==
  ASSUME NEW t, GoodTask(t), t.pc \in {"propose", "accept"}, Counted(t), NEW n, n \notin Ups
  PROVE  Counted(Passed(t, n))
<1> DEFINE w == [t EXCEPT !.todo = @ \ {n}]
<1>1. /\ GoodTask(w) /\ {"pc", "todo", "live"} \subseteq DOMAIN w /\ w.pc = t.pc /\ w.live = t.live
      /\ w.todo = t.todo \ {n} /\ w.promised = t.promised /\ w.acked = t.acked /\ w.promised \in Nat
  BY DEF GoodTask, Task
<1>2. Passed(t, n) = Advance(w)
  BY DEF Passed
<1> HIDE DEF w
<1>3. Ups \ (t.todo \ {n}) = Ups \ t.todo
  OBVIOUS
<1>4. CASE t.pc = "propose"
  BY <1>1, <1>2, <1>3, <1>4, ProposalsCounted DEF Counted
<1>5. CASE t.pc = "accept"
  BY <1>1, <1>2, <1>3, <1>5, AcceptsCounted DEF Counted
<1> QED BY <1>4, <1>5

\* The calls whose handlers run and answer: success's test lets every value pass.
LEMMA AnswersKeep ==
  ASSUME TypeInv, NEW k \in DataKey, KeyInv(k), NEW a \in Of(k),
         \A b \in Of(k) : b # a => ~ Active(b), NEW n \in Node
  PROVE  /\ ProposeAnswered(a, n) => KeyInv(k)'
         /\ AcceptAnswered(a, n) => KeyInv(k)'
         /\ SuccessCalled(a, n) => KeyInv(k)'
<1> DEFINE t == att[a]
<1>1. /\ a \in DOMAIN att /\ GoodTask(t) /\ t.key = k /\ k \in Key /\ t.round \in Round
      /\ UpTask(a) /\ Counted(t)
  BY KeyTypes DEF Of, KeyInv, GoodTask, Task, UpTask
<1>2. \A c \in running : c[1] \in Of(k) => c[2] = "store" /\ att[c[1]].pc = "storing" /\ c[1] = a
  BY DEF KeyInv, RunsOf, Active, Stage
<1>3. ASSUME ProposeAnswered(a, n) PROVE KeyInv(k)'
  <2> DEFINE e == EntryAt(log[n][k], t.round)
  <2>1. /\ t.pc = "propose" /\ UNCHANGED <<kv, ver, up, running>> /\ HandlePropose(a, n)
        /\ IsNext(t, n)
    BY <1>3 DEF ProposeAnswered, Calls
  <2>2. e \in EntryType /\ (e.a_server_id > 0 => e.accepted_value \in Payload) /\ ~ (e.p_server_id > ProposeId)
    <3>1. log[n][k] \in LogType /\ FullEntries(log[n][k])
      BY <1>1 DEF TypeInv, LogInv
    <3>2. NewEntry \in EntryType /\ ~ (NewEntry.a_server_id > 0)
      BY DEF NewEntry, EntryType, Entry, ProposeId
    <3>3. e \in EntryType /\ (e.a_server_id > 0 => e.accepted_value \in Payload)
      BY <1>1, <3>1, <3>2 DEF EntryAt, LogType, FullEntries, Known
    <3> QED BY <3>3 DEF EntryType, Entry, ProposeId
  <2>3. att' = [att EXCEPT ![a] = Promised(t, n, e)]
    BY <1>1, <1>3, <2>2 DEF ProposeAnswered
  <2> HIDE DEF e
  <2>4. CallOver(t, "propose", Promised(t, n, e), n)
    BY <1>1, <2>1, <2>2, PromisedOver
  <2>5. Counted(Promised(t, n, e))
    BY <1>1, <2>1, <2>2, PromisedCounted
  <2>6. LogStep(a, n)
    BY <1>1, <2>1, HandlersLogStep
  <2>7. \A c \in running' : c[1] \in Of(k) => c \in running /\ c # <<a, "store", n>>
    BY <1>2, <2>1
  <2>8. \A m \in Ups : kv'[m][k] = kv[m][k] /\ ver'[m][k] = ver[m][k]
    BY <2>1
  <2> QED BY <2>1, <2>3, <2>4, <2>5, <2>6, <2>7, <2>8, LogLearns, CallKeeps DEF Waits
<1>4. ASSUME AcceptAnswered(a, n) PROVE KeyInv(k)'
  <2>1. /\ t.pc = "accept" /\ UNCHANGED <<kv, ver, up, running>> /\ HandleAccept(a, n)
        /\ IsNext(t, n) /\ att' = [att EXCEPT ![a] = Acked(t, n)]
    BY <1>4 DEF AcceptAnswered, Calls
  <2>2. CallOver(t, "accept", Acked(t, n), n) /\ LogStep(a, n) /\ SameChoice(t, Acked(t, n))
    BY <1>1, <2>1, CallsOver, HandlersLogStep, AckedTask
  <2>3. Counted(Acked(t, n))
    BY <1>1, <2>1, AckedCounted
  <2>4. \A c \in running' : c[1] \in Of(k) => c \in running /\ c # <<a, "store", n>>
    BY <1>2, <2>1
  <2>5. \A m \in Ups : kv'[m][k] = kv[m][k] /\ ver'[m][k] = ver[m][k]
    BY <2>1
  <2> QED BY <2>1, <2>2, <2>3, <2>4, <2>5, LogLearns, CallKeeps DEF Waits
<1>5. ASSUME SuccessCalled(a, n) PROVE KeyInv(k)'
  <2> PICK u : u = Waiting(t)
    OBVIOUS
  <2>1. /\ t.pc = "success" /\ UNCHANGED <<kv, ver, up>> /\ LogSuccess(a, n)
        /\ IsNext(t, n) /\ n \in Ups
    BY <1>5 DEF SuccessCalled, Calls, Ups
  <2>2. LogStep(a, n)
    BY <1>1, <2>1, HandlersLogStep
  <2>3. PassesTest(a, n)
    <3>1. \A r \in Known(log[n][k]) : r <= t.round
      BY <1>1, <2>1 DEF UpTask, NextAt, Active, Stage
    <3>2. Known(log'[n][k]) = Known(log[n][k]) \cup {t.round}
      BY <1>1, <2>2, LogStepKnown
    <3>3. t.round \in Nat /\ Known(log[n][k]) \subseteq Nat
      BY <1>1, KeyTypes
    <3>4. \A r \in Known(log'[n][k]) : ~ (r > t.round)
      BY <3>1, <3>2, <3>3
    <3> QED BY <1>1, <3>4 DEF PassesTest, Outdated
  <2>4. att' = [att EXCEPT ![a] = u] /\ running' = running \cup {<<a, "store", n>>}
    BY <1>5, <2>3 DEF SuccessCalled
  <2>5. /\ SameRequest(t, u) /\ u.pc = "storing" /\ u.todo = t.todo /\ Chosen(u) = Chosen(t)
    BY <1>1 DEF Waiting, GoodTask, Task, SameRequest, Chosen
  <2>6. /\ Counted(u) /\ \A m : (Told(u, m) <=> Told(t, m)) /\ (IsNext(u, m) => IsNext(t, m))
    BY <2>1, <2>5 DEF Counted, Told, IsNext
  <2>7. ASSUME NEW m \in Ups, IsNext(u, m) PROVE m = n
    BY <2>1, <2>6, <2>7 DEF IsNext, Ups, Node
  <2>8. LogGrows
    BY <1>1, <2>2, LogStepKnown
  <2>9. ASSUME NEW m \in Ups, Told(u, m) PROVE Has(m, u)' /\ kv'[m][k] = Chosen(u)
    <3>1. Has(m, t) /\ kv[m][k] = Chosen(t)
      BY <1>1, <2>6, <2>9 DEF UpTask
    <3>2. t.round \in Known(log'[m][k]) /\ ver[m][k] >= t.round
      BY <1>1, <2>8, <3>1 DEF Has, LogGrows, Ups
    <3>3. u.key = k /\ u.round = t.round /\ ver'[m][k] = ver[m][k] /\ kv'[m][k] = kv[m][k]
      BY <1>1, <2>1, <2>5 DEF SameRequest
    <3> QED BY <2>5, <3>1, <3>2, <3>3 DEF Has
  <2>10. ASSUME NEW m \in Ups, IsNext(u, m)
         PROVE  <<a, "store", m>> \in running' /\ u.round \in Known(log'[m][k])
    BY <2>2, <2>4, <2>5, <2>7, <2>10, LogLearns DEF SameRequest
  <2>11. RunsOf(k)'
    <3>1. /\ DOMAIN att' = DOMAIN att /\ att'[a] = u
          /\ \A b \in DOMAIN att : b # a => att'[b] = att[b]
      BY <1>1, <2>4 DEF TypeInv, AttInv
    <3>2. Of(k)' = Of(k)
      BY <1>1, <2>5, <3>1 DEF Of, SameRequest
    <3> SUFFICES ASSUME NEW c \in running', c[1] \in Of(k)
                 PROVE  c[2] = "store" /\ att'[c[1]].pc = "storing" /\ IsNext(att'[c[1]], c[3])
      BY <3>2 DEF RunsOf
    <3>3. c \notin running
      BY <1>2, <2>1
    <3>4. c = <<a, "store", n>>
      BY <2>4, <3>3
    <3> QED BY <2>1, <2>5, <3>1, <3>4 DEF IsNext
  <2>12. Active(a) /\ u.pc # "ping" /\ t.pc # "ping" /\ u.pc # "ok"
    BY <2>1, <2>5 DEF Active, Stage
  <2>13. \A m \in Ups :
           \/ Known(log'[m][k]) = Known(log[m][k])
           \/ Known(log'[m][k]) = Known(log[m][k]) \cup {t.round}
    BY <2>2, LogLearns
  <2>14. \A m \in Ups : kv'[m][k] = kv[m][k] /\ ver'[m][k] = ver[m][k]
    BY <2>1
  <2>15. \A m, j \in Ups : ~ Told(u, m) /\ ~ Told(u, j) => (Told(t, m) <=> Told(t, j))
    BY <2>6
  <2>16. \A m \in Ups :
           /\ u.pc = "ok" \/ Told(u, m) => Has(m, u)'
           /\ Told(u, m) => kv'[m][k] = Chosen(u)
           /\ u.pc = "storing" /\ IsNext(u, m) =>
                <<a, "store", m>> \in running' /\ u.round \in Known(log'[m][k])
    BY <2>9, <2>10, <2>12
  <2>17. UNCHANGED up /\ SameRequest(att[a], u) /\ Counted(u)
    BY <2>1, <2>5, <2>6
  <2>18. \A m \in Ups :
           \/ Known(log'[m][k]) = Known(log[m][k])
           \/ att[a].pc # "ping" /\ Known(log'[m][k]) = Known(log[m][k]) \cup {att[a].round}
    BY <2>12, <2>13
  <2> HIDE DEF t
  <2> QED BY <2>4, <2>11, <2>12, <2>14, <2>15, <2>16, <2>17, <2>18, OwnMove DEF t
<1> QED BY <1>3, <1>4, <1>5

\* The calls to a replica that does not run; no other fails.
LEMMA FailuresKeep ==
  ASSUME TypeInv, NEW k \in DataKey, KeyInv(k), NEW a \in Of(k),
         \A b \in Of(k) : b # a => ~ Active(b), NEW n \in Node, UNCHANGED faults
  PROVE  /\ Unreachable(a, n) => KeyInv(k)'
         /\ StoreTimedOut(a, n) => KeyInv(k)'
         /\ ~ RequestLost(a, n) /\ ~ ReplyLost(a, n) /\ ~ TimedOut(a, n)
<1> DEFINE t == att[a]
<1>1. /\ a \in DOMAIN att /\ GoodTask(t) /\ t.key = k /\ UpTask(a) /\ Counted(t)
  BY KeyTypes DEF Of, KeyInv, UpTask
<1>2. ASSUME NEW mode PROVE ~ Fault(a, n, mode)
  BY DEF Fault, TypeInv, RestInv
<1>3. ASSUME NEW pc \in Waits, t.pc = pc \/ (t.pc = "storing" /\ pc = "success"), n \notin Ups,
             IsNext(t, n), UNCHANGED <<log, kv, up, running, ver>>, <<a, "store", n>> \notin running,
             NEW u, att' = [att EXCEPT ![a] = u], CallOver(t, pc, u, n), SameChoice(t, u), Counted(u)
      PROVE  KeyInv(k)'
  <2>1. \A c \in running' : c[1] \in Of(k) => c \in running /\ c # <<a, "store", n>>
    BY <1>3
  <2>2. \A m \in Ups : /\ ~ (pc = "success" /\ m = n) /\ kv'[m][k] = kv[m][k] /\ ver'[m][k] = ver[m][k]
                       /\ Known(log'[m][k]) = Known(log[m][k])
    BY <1>3
  <2> QED BY <1>3, <2>1, <2>2, CallKeeps
<1>4. ASSUME Unreachable(a, n) PROVE KeyInv(k)'
  <2>1. PICK pc \in Waits : t.pc = pc /\ IsNext(t, n)
    BY <1>4 DEF Unreachable, Calls, Waits
  <2>2. /\ n \notin Ups /\ att' = [att EXCEPT ![a] = Passed(t, n)]
        /\ UNCHANGED <<log, kv, up, running, ver>>
    BY <1>4 DEF Unreachable, Ups
  <2>3. CallOver(t, pc, Passed(t, n), n) /\ SameChoice(t, Passed(t, n))
    BY <1>1, <2>1, CallsOver, PassedTask
  <2>4. Counted(Passed(t, n))
    <3>1. CASE pc = "success"
      BY <2>3, <3>1 DEF CallOver, Counted
    <3>2. CASE pc \in {"propose", "accept"}
      BY <1>1, <2>1, <2>2, <3>2, PassedCounted
    <3> QED BY <3>1, <3>2 DEF Waits
  <2>5. <<a, "store", n>> \notin running
    BY <1>1, <2>1 DEF KeyInv, RunsOf, Waits
  <2> QED BY <1>3, <2>1, <2>2, <2>3, <2>4, <2>5
<1>5. ASSUME StoreTimedOut(a, n) PROVE KeyInv(k)'
  <2>1. /\ t.pc = "storing" /\ IsNext(t, n) /\ <<a, "store", n>> \notin running
        /\ att' = [att EXCEPT ![a] = Resumed(t, n)] /\ UNCHANGED <<log, kv, up, running, ver>>
    BY <1>2, <1>5 DEF StoreTimedOut, Calls
  <2>2. n \notin Ups
    BY <1>1, <2>1 DEF UpTask
  <2>3. CallOver(t, "success", Resumed(t, n), n) /\ SameChoice(t, Resumed(t, n))
    BY <1>1, CallsOver, StoringTask
  <2>4. Counted(Resumed(t, n))
    BY <2>3 DEF CallOver, Counted
  <2> QED BY <1>3, <2>1, <2>2, <2>3, <2>4 DEF Waits
<1>6. ~ RequestLost(a, n) /\ ~ ReplyLost(a, n) /\ ~ TimedOut(a, n)
  BY <1>2 DEF RequestLost, ReplyLost, TimedOut
<1> QED BY <1>4, <1>5, <1>6

\* What a replica stores, of one key.
LEMMA AssignKey ==
  ASSUME TypeInv, NEW a \in DOMAIN att, NEW n \in Node, Assign(n, att[a]), NEW k \in DataKey
  PROVE  \A m \in Node :
           IF m = n /\ k = att[a].key THEN kv'[m][k] = Chosen(att[a]) /\ ver'[m][k] = att[a].round
                                      ELSE kv'[m][k] = kv[m][k] /\ ver'[m][k] = ver[m][k]
<1>1. k \in Key /\ k # LeaderKey
  BY ConstantsAssumption DEF Key
<1>2. \A m \in Node : ver'[m][k] = IF m = n /\ k = att[a].key THEN att[a].round ELSE ver[m][k]
  BY <1>1, AssignVer
<1>3. \A m \in Node : kv'[m][k] = IF m = n /\ k = att[a].key THEN Chosen(att[a]) ELSE kv[m][k]
  BY <1>1 DEF Assign, TypeInv, RestInv
<1> QED BY <1>2, <1>3

\* The handlers that run on their own are stores their proposers wait for.
LEMMA StoresKeep ==
  ASSUME TypeInv, NEW k \in DataKey, KeyInv(k), NEW a \in Of(k),
         \A b \in Of(k) : b # a => ~ Active(b), NEW n \in Node, HandlerStep(a, n)
  PROVE  KeyInv(k)'
<1> DEFINE t == att[a]
<1>1. /\ a \in DOMAIN att /\ GoodTask(t) /\ t.key = k /\ UpTask(a)
  BY KeyTypes DEF Of, KeyInv
<1>2. Store(a, n)
  BY DEF HandlerStep, LatePropose, LateAccept, LateSuccess, KeyInv, RunsOf
<1>3. /\ t.pc = "storing" /\ IsNext(t, n) /\ <<a, "store", n>> \in running
  BY <1>2 DEF Store, KeyInv, RunsOf
<1>4. /\ att' = [att EXCEPT ![a] = Resumed(t, n)] /\ UNCHANGED <<log, up>> /\ Assign(n, t)
      /\ running' = running \ {<<a, "store", n>>}
  BY <1>2, <1>3 DEF Store
<1>5. CallOver(t, "success", Resumed(t, n), n) /\ SameChoice(t, Resumed(t, n))
  BY <1>1, CallsOver, StoringTask
<1>6. Counted(Resumed(t, n))
  BY <1>5 DEF CallOver, Counted
<1>7. \A m \in Ups :
        \/ m # n /\ kv'[m][k] = kv[m][k] /\ ver'[m][k] = ver[m][k]
        \/ m = n /\ kv'[m][k] = Chosen(t) /\ ver'[m][k] = t.round
  BY <1>1, <1>4, AssignKey DEF Ups
<1>8. n \in Ups => t.round \in Known(log'[n][k])
  BY <1>1, <1>3, <1>4 DEF UpTask
<1>9. \A c \in running' : c[1] \in Of(k) => c \in running /\ c # <<a, "store", n>>
  BY <1>4
<1>10. \A m \in Ups : Known(log'[m][k]) = Known(log[m][k])
  BY <1>4
<1>11. \A m \in Ups :
         \/ ~ ("success" = "success" /\ m = n) /\ kv'[m][k] = kv[m][k] /\ ver'[m][k] = ver[m][k]
         \/ /\ "success" = "success" /\ m = n /\ t.round \in Known(log'[m][k])
            /\ kv'[m][k] = Chosen(t) /\ ver'[m][k] = t.round
  BY <1>7, <1>8
<1> QED BY <1>3, <1>4, <1>5, <1>6, <1>9, <1>10, <1>11, CallKeeps DEF Waits

\* AttemptConsensus returns: every replica that runs has stored the value.
LEMMA ReturnKeeps ==
  ASSUME TypeInv, NEW k \in DataKey, KeyInv(k), NEW a \in Of(k),
         \A b \in Of(k) : b # a => ~ Active(b), Return(a)
  PROVE  KeyInv(k)'
<1> DEFINE t == att[a]
<1>1. /\ a \in DOMAIN att /\ GoodTask(t) /\ t.key = k /\ t.by = "set" /\ UpTask(a)
  BY KeyTypes, ConstantsAssumption DEF Of, KeyInv, GoodTask, Asked
<1> PICK u : u = [t EXCEPT !.pc = "ok"]
  OBVIOUS
<1>2. t.pc = "return" /\ att' = [att EXCEPT ![a] = u] /\ UNCHANGED <<log, kv, up, running, ver>>
  BY <1>1 DEF Return
<1>3. SameRequest(t, u) /\ u.pc = "ok"
  BY <1>1 DEF GoodTask, Task, SameRequest
<1>4. \A m : Told(t, m) /\ ~ Told(u, m)
  BY <1>2, <1>3 DEF Told
<1>5. ASSUME NEW m \in Ups PROVE Has(m, u)'
  <2>1. Has(m, t)
    BY <1>1, <1>4 DEF UpTask
  <2> QED BY <1>2, <1>3, <2>1 DEF Has, SameRequest
<1>6. RunsOf(k)'
  <2>1. Of(k)' = Of(k)
    BY <1>1, <1>2, <1>3 DEF Of, SameRequest, TypeInv, AttInv
  <2> SUFFICES ASSUME NEW c \in running, c[1] \in Of(k) PROVE FALSE
    BY <1>2, <2>1 DEF RunsOf
  <2>2. att[c[1]].pc = "storing"
    BY DEF KeyInv, RunsOf
  <2>3. c[1] = a
    BY <2>2 DEF Active, Stage
  <2> QED BY <1>2, <2>2, <2>3
<1>7. /\ Active(a) /\ (att[a].pc = "ping" => Quorate \/ u.pc \notin Stage) /\ Counted(u) /\ u.pc # "ping"
      /\ SameRequest(att[a], u) /\ UNCHANGED up
  BY <1>2, <1>3 DEF Active, Stage, Counted
<1>8. \A m \in Ups : /\ kv'[m][k] = kv[m][k] /\ ver'[m][k] = ver[m][k]
                     /\ Known(log'[m][k]) = Known(log[m][k])
  BY <1>2
<1>9. \A m \in Ups :
        /\ u.pc = "ok" \/ Told(u, m) => Has(m, u)'
        /\ Told(u, m) => kv'[m][k] = Chosen(u)
        /\ u.pc = "storing" /\ IsNext(u, m) =>
             <<a, "store", m>> \in running' /\ u.round \in Known(log'[m][k])
  BY <1>3, <1>4, <1>5
<1>10. \A n, m \in Ups : ~ Told(u, n) /\ ~ Told(u, m) => (Told(att[a], n) <=> Told(att[a], m))
  BY <1>4
<1> HIDE DEF t
<1> QED BY <1>2, <1>6, <1>7, <1>8, <1>9, <1>10, OwnMove

\* The pings: everyone who runs answers.
LEMMA PingKeeps ==
  ASSUME TypeInv, NEW k \in DataKey, KeyInv(k), NEW a \in Of(k),
         \A b \in Of(k) : b # a => ~ Active(b), Ping(a), UNCHANGED faults
  PROVE  KeyInv(k)'
<1> DEFINE t == att[a]
<1>1. a \in DOMAIN att /\ GoodTask(t) /\ t.key = k /\ UpTask(a) /\ t.promised \in Nat
  BY KeyTypes DEF Of, KeyInv, GoodTask, Task
<1>2. t.pc = "ping" /\ UNCHANGED <<log, kv, up, running, ver>>
  BY DEF Ping
<1>3. PICK missed \in SUBSET {n \in Node : up[n] /\ <<t.node, n>> \in Lossy} :
        /\ faults' = faults + Cardinality(missed)
        /\ att' = [att EXCEPT ![a] =
             IF Enough(Cardinality({n \in Node : up[n]} \ missed), NumReplicas)
               THEN [t EXCEPT !.pc = "propose", !.live = {n \in Node : up[n]} \ missed,
                              !.todo = {n \in Node : up[n]} \ missed]
               ELSE [t EXCEPT !.pc = "fail"]]
  BY DEF Ping
<1>4. {n \in Node : up[n]} \ missed = Ups
  <2>1. IsFiniteSet(missed) /\ Cardinality(missed) \in Nat
    BY NodeSets
  <2>2. faults \in Nat
    BY DEF TypeInv, RestInv
  <2>3. Cardinality(missed) = 0
    <3>1. faults = faults + Cardinality(missed)
      BY <1>3
    <3> QED BY <2>1, <2>2, <3>1
  <2>4. missed = {}
    BY <2>1, <2>3, FS_EmptySet
  <2> QED BY <2>4 DEF Ups
<1> PICK u : u = IF Quorate THEN [t EXCEPT !.pc = "propose", !.live = Ups, !.todo = Ups]
                            ELSE [t EXCEPT !.pc = "fail"]
  OBVIOUS
<1>5. att' = [att EXCEPT ![a] = u]
  BY <1>3, <1>4 DEF Quorate
<1>6. /\ SameRequest(t, u)
      /\ \/ Quorate /\ u.pc = "propose" /\ u.live = Ups /\ u.todo = Ups /\ u.promised \in Nat
         \/ ~ Quorate /\ u.pc = "fail"
  BY <1>1 DEF GoodTask, Task, SameRequest
<1>7. Counted(u)
  <2>1. Cardinality(Ups \ Ups) = 0
    BY FS_EmptySet
  <2> QED BY <1>6, <2>1 DEF Counted
<1>8. \A m : ~ Told(t, m) /\ ~ Told(u, m)
  BY <1>2, <1>6 DEF Told
<1>9. RunsOf(k)'
  <2>1. Of(k)' = Of(k)
    BY <1>1, <1>5, <1>6 DEF Of, SameRequest, TypeInv, AttInv
  <2> SUFFICES ASSUME NEW c \in running, c[1] \in Of(k) PROVE FALSE
    BY <1>2, <2>1 DEF RunsOf
  <2>2. att[c[1]].pc = "storing"
    BY DEF KeyInv, RunsOf
  <2>3. c[1] = a
    BY <2>2 DEF Active, Stage
  <2> QED BY <1>2, <2>2, <2>3
<1>10. /\ Active(a) /\ (att[a].pc = "ping" => Quorate \/ u.pc \notin Stage) /\ u.pc # "ping"
       /\ UNCHANGED up /\ SameRequest(att[a], u)
  BY <1>2, <1>6 DEF Active, Stage
<1>11. \A m \in Ups : /\ kv'[m][k] = kv[m][k] /\ ver'[m][k] = ver[m][k]
                      /\ Known(log'[m][k]) = Known(log[m][k])
  BY <1>2
<1>12. \A m \in Ups :
         /\ u.pc = "ok" \/ Told(u, m) => Has(m, u)'
         /\ Told(u, m) => kv'[m][k] = Chosen(u)
         /\ u.pc = "storing" /\ IsNext(u, m) =>
              <<a, "store", m>> \in running' /\ u.round \in Known(log'[m][k])
  BY <1>6, <1>8
<1>13. \A n, m \in Ups : ~ Told(u, n) /\ ~ Told(u, m) => (Told(att[a], n) <=> Told(att[a], m))
  BY <1>8
<1> HIDE DEF t
<1> QED BY <1>5, <1>7, <1>9, <1>10, <1>11, <1>12, <1>13, OwnMove

-----------------------------------------------------------------------------
(* Action by action: attempts that begin, crashes, other keys.             *)

\* When the attempts for a key are over and enough replicas run, the round of a new one
\* is the next of every replica that runs: all of them know of every attempt.
LEMMA NextEverywhere ==
  ASSUME TypeInv, NEW k \in DataKey, Unharmed(k), KeyInv(k), \A a \in Of(k) : ~ Active(a), Quorate,
         NEW n \in Ups, NEW m \in Ups, NEW r, r = NumKnown(log[n][k])
  PROVE  /\ 0 .. r - 1 \subseteq Known(log[m][k])
         /\ \A s \in Known(log[m][k]) : s <= r
<1>1. \A a \in Of(k) : att[a].pc = "ok"
  <2> SUFFICES ASSUME NEW a \in Of(k) PROVE att[a].pc = "ok"
    OBVIOUS
  <2>1. UpTask(a) /\ att[a].pc # "dead" /\ att[a].pc \in Stage \cup Ended /\ att[a].pc \notin Stage
    BY DEF KeyInv, Unharmed, Of, Active, TypeInv, AttInv, GoodTask, Task
  <2> QED BY <2>1 DEF UpTask, Counted, Ended
<1>2. Known(log[m][k]) = Known(log[n][k])
  <2>1. ASSUME NEW i \in Ups, NEW j \in Ups, NEW s \in Known(log[i][k]) PROVE s \in Known(log[j][k])
    <3>1. PICK a \in Of(k) : att[a].round = s
      BY DEF KeyInv, LogsOf
    <3>2. Has(j, att[a]) /\ att[a].key = k
      BY <1>1 DEF KeyInv, UpTask, Of
    <3> QED BY <3>1, <3>2 DEF Has
  <2> QED BY <2>1
<1>3. Known(log[n][k]) \subseteq Nat /\ IsFiniteSet(Known(log[n][k]))
  <2>1. log[n][k] \in LogType /\ Known(log[n][k]) \subseteq Nat
    BY KeyTypes DEF TypeInv, LogInv, Ups
  <2>2. IsFiniteSet(Round)
    BY FS_Interval, ConstantsAssumption DEF Round
  <2>3. Known(log[n][k]) \in SUBSET Round
    BY <2>1 DEF Known, LogType
  <2> QED BY <2>1, <2>2, <2>3, FS_Subset
<1>4. \A s \in Known(log[n][k]) : 0 .. s \subseteq Known(log[n][k])
  BY DEF KeyInv, LogsOf
<1> DEFINE K == Known(log[n][k])
<1>5. /\ r \in Nat /\ 0 .. r - 1 \subseteq K /\ \A s \in K : s < r
  <2> HIDE DEF K
  <2>1. K \subseteq Nat /\ IsFiniteSet(K) /\ (\A s \in K : 0 .. s \subseteq K) /\ r = Cardinality(K)
    BY <1>3, <1>4 DEF K, NumKnown
  <2> QED BY <2>1, CountIsNext
<1> QED BY <1>2, <1>3, <1>5

\* An attempt that does not move, while nothing of its key does.
LEMMA TaskStays ==
  ASSUME NEW k, UNCHANGED <<log, kv, up, running, ver>>, NEW a \in Of(k), UpTask(a), att'[a] = att[a]
  PROVE  UpTask(a)'
<1>1. Ups' = Ups /\ (Quorate' <=> Quorate)
  BY DEF Ups, Quorate
<1>2. Counted(att[a])'
  BY <1>1 DEF UpTask, Counted
<1>3. \A n \in Ups : (Has(n, att[a]) => Has(n, att[a])') /\ (NextAt(n, att[a]) => NextAt(n, att[a])')
  BY DEF Has, NextAt
<1> QED BY <1>1, <1>2, <1>3 DEF UpTask, Active

\* A write or an election begins.
LEMMA BeginAgrees ==
  ASSUME TypeInv, NEW k \in DataKey, KeyInv(k), Unharmed(k),
         NEW n \in Node, NEW j \in Key, NEW v \in Payload, NEW by, Begin(n, j, v, by),
         j = k => \A b \in Of(k) : ~ Active(b)
  PROVE  KeyInv(k)'
<1> PICK t : t = [pc |-> "ping", by |-> by, node |-> n, key |-> j, value |-> v,
                  round |-> NumKnown(log[n][j]), live |-> {}, todo |-> {}, promised |-> 0,
                  accepted_id |-> 0, accepted_value |-> Nothing, acked |-> {}]
  OBVIOUS
<1>1. /\ att' = Append(att, t) /\ t.pc = "ping" /\ t.key = j /\ t.round = NumKnown(log[n][j])
      /\ UNCHANGED <<log, kv, up, running, ver>> /\ n \in Ups
  BY DEF Begin, Ups
<1>2. att \in Seq(Task) /\ Len(att) \in Nat
  BY DEF TypeInv, AttInv
<1> PICK b : b = Len(att) + 1
  OBVIOUS
<1>3. /\ DOMAIN att' = DOMAIN att \cup {b} /\ b \notin DOMAIN att /\ att'[b] = t
      /\ \A a \in DOMAIN att : att'[a] = att[a]
  BY <1>1, <1>2
<1>4. \A c \in running : c[1] \in DOMAIN att
  BY DEF TypeInv, RestInv
<1>5. CASE j # k
  <2>1. Of(k)' = Of(k) /\ \A a \in Of(k) : att'[a] = att[a]
    BY <1>1, <1>3, <1>5 DEF Of
  <2> QED BY <1>1, <2>1, SameKey
<1>6. CASE j = k
  <2>1. Of(k)' = Of(k) \cup {b} /\ b \notin Of(k) /\ \A a \in Of(k) : att'[a] = att[a]
    BY <1>1, <1>3, <1>6 DEF Of
  <2>2. Ups' = Ups /\ (Quorate' <=> Quorate)
    BY <1>1 DEF Ups, Quorate
  <2>3. \A a \in Of(k) : UpTask(a)'
    BY <1>1, <2>1, TaskStays DEF KeyInv
  <2>4. UpTask(b)'
    <3>1. Counted(t)' /\ \A m : ~ Told(t, m)
      BY <1>1 DEF Counted, Told
    <3>2. ASSUME NEW m \in Ups, Quorate PROVE NextAt(m, t)'
      BY ZenonT(60), <1>1, <1>6, <3>2, NextEverywhere DEF NextAt
    <3> QED BY ZenonT(60), <1>1, <1>3, <2>2, <3>1, <3>2 DEF UpTask
  <2>5. RunsOf(k)'
    BY <1>1, <1>3, <1>4, <2>1 DEF KeyInv, RunsOf
  <2>6. LogsOf(k)'
    <3> SUFFICES ASSUME NEW m \in Ups, NEW r \in Known(log[m][k])
                 PROVE  /\ 0 .. r \subseteq Known(log[m][k])
                        /\ \E a \in Of(k)' : att'[a].pc # "ping" /\ att'[a].round = r
      BY <1>1, <2>2 DEF LogsOf
    <3>1. /\ 0 .. r \subseteq Known(log[m][k])
          /\ \E a \in Of(k) : att[a].pc # "ping" /\ att[a].round = r
      BY DEF KeyInv, LogsOf
    <3> QED BY <2>1, <3>1
  <2>7. StoresOf(k)'
    <3> SUFFICES ASSUME NEW i \in Ups, NEW m \in Ups,
                        \A a \in Of(k)' : Told(att'[a], i) <=> Told(att'[a], m)
                 PROVE  kv[i][k] = kv[m][k]
      BY <1>1, <2>2 DEF StoresOf
    <3>1. \A a \in Of(k) : Told(att[a], i) <=> Told(att[a], m)
      BY <2>1
    <3> QED BY <3>1 DEF KeyInv, StoresOf
  <2> QED BY <2>1, <2>3, <2>4, <2>5, <2>6, <2>7 DEF KeyInv
<1> QED BY <1>5, <1>6

\* A process stops that does not write the key.
LEMMA CrashAgrees ==
  ASSUME TypeInv, NEW k \in DataKey, KeyInv(k), NEW n \in Node, Crash(n), Unharmed(k)'
  PROVE  KeyInv(k)'
<1>1. /\ UNCHANGED <<log, kv, ver>> /\ running' = {c \in running : c[3] # n}
      /\ up' = [up EXCEPT ![n] = FALSE] /\ DOMAIN att' = DOMAIN att
  BY DEF Crash
<1>2. /\ Ups' \subseteq Ups /\ n \notin Ups' /\ Ups \in SUBSET Node /\ Ups' \in SUBSET Node
  BY <1>1 DEF Ups, TypeInv, RestInv
<1>3. Quorate' => Quorate
  BY <1>2, MoreIsEnough DEF Quorate
<1>4. \A a \in DOMAIN att : att'[a] = att[a] \/ (att'[a].pc = "dead" /\ att'[a].key = att[a].key)
  <2> SUFFICES ASSUME NEW a \in DOMAIN att, att'[a] # att[a]
               PROVE  att'[a].pc = "dead" /\ att'[a].key = att[a].key
    OBVIOUS
  <2>1. att'[a] = [att[a] EXCEPT !.pc = "dead", !.live = {}] /\ att[a] \in Task
    BY DEF Crash, TypeInv, AttInv, GoodTask
  <2> QED BY <2>1 DEF Task
<1>5. Of(k)' = Of(k) /\ \A a \in Of(k) : att'[a] = att[a]
  BY <1>1, <1>4 DEF Of, Unharmed
<1>6. ASSUME NEW a \in Of(k) PROVE UpTask(a)'
  <2>1. UpTask(a) /\ att'[a] = att[a] /\ a \in DOMAIN att
    BY <1>5 DEF KeyInv, Of
  <2>2. Counted(att[a])'
    <3>1. CASE att[a].pc = "propose"
      <4>1. Ups' \subseteq att[a].live /\ Cardinality(Ups \ att[a].todo) <= att[a].promised
        BY <1>2, <2>1, <3>1 DEF UpTask, Counted
      <4>2. Ups' \ att[a].todo \subseteq Ups \ att[a].todo /\ IsFiniteSet(Ups \ att[a].todo)
        BY <1>2, NodeSets
      <4>3. /\ Cardinality(Ups' \ att[a].todo) \in Nat /\ Cardinality(Ups \ att[a].todo) \in Nat
            /\ Cardinality(Ups' \ att[a].todo) <= Cardinality(Ups \ att[a].todo)
        BY <1>2, <4>2, NodeSets, FS_Subset
      <4>4. att[a].promised \in Nat
        BY <2>1 DEF TypeInv, AttInv, GoodTask, Task
      <4>5. Cardinality(Ups' \ att[a].todo) <= att[a].promised
        BY <4>1, <4>3, <4>4
      <4> QED BY <2>1, <3>1, <4>1, <4>5 DEF Counted
    <3>2. CASE att[a].pc # "propose"
      BY <1>2, <1>3, <2>1, <3>2 DEF UpTask, Counted
    <3> QED BY <3>1, <3>2
  <2>3. \A m \in Ups : (Has(m, att[a]) => Has(m, att[a])') /\ (NextAt(m, att[a]) => NextAt(m, att[a])')
    BY <1>1, <2>1 DEF Has, NextAt
  <2>4. \A m \in Ups' : <<a, "store", m>> \in running => <<a, "store", m>> \in running'
    BY <1>1, <1>2
  <2> QED BY <1>1, <1>2, <1>3, <2>1, <2>2, <2>3, <2>4 DEF UpTask, Active
<1>7. RunsOf(k)'
  BY <1>1, <1>5 DEF KeyInv, RunsOf
<1>8. LogsOf(k)'
  BY <1>1, <1>2, <1>5 DEF KeyInv, LogsOf
<1>9. StoresOf(k)'
  BY <1>1, <1>2, <1>5 DEF KeyInv, StoresOf
<1> QED BY <1>5, <1>6, <1>7, <1>8, <1>9 DEF KeyInv

\* A step of an attempt, or of one of its handlers, is about that attempt and its key.
LEMMA StepOfOne ==
  ASSUME TypeInv, NEW a \in DOMAIN att, NEW n \in Node,
         Ping(a) \/ Return(a) \/ ProposerStep(a, n) \/ HandlerStep(a, n)
  PROVE  /\ Effect /\ UNCHANGED up
         /\ \E u : att' = [att EXCEPT ![a] = u]
         /\ UNCHANGED log \/ LogStep(a, n)
         /\ UNCHANGED <<kv, ver>> \/ \E m \in Node : Assign(m, att[a])
         /\ \A c : c[1] # a => (c \in running <=> c \in running')
<1>1. att = [att EXCEPT ![a] = att[a]] /\ att[a].node \in Node
  BY DEF TypeInv, AttInv, GoodTask, Task
<1>0. \A c, pc : c[1] # a => c # <<a, pc, n>>
  OBVIOUS
<1>2. CASE Ping(a)
  BY <1>2, PingEffect DEF Ping
<1>3. CASE Return(a)
  BY <1>1, <1>3, ReturnEffect DEF Return
<1>4. CASE ProposeAnswered(a, n) \/ AcceptAnswered(a, n) \/ SuccessCalled(a, n)
  <2>1. Effect /\ UNCHANGED <<up, kv, ver>> /\ LogStep(a, n)
    BY <1>4, AnsweredEffect, HandlersLogStep DEF ProposeAnswered, AcceptAnswered, SuccessCalled
  <2>2. \E u : att' = [att EXCEPT ![a] = u]
    BY <1>4 DEF ProposeAnswered, AcceptAnswered, SuccessCalled
  <2>3. UNCHANGED running \/ running' = running \cup {<<a, "store", n>>}
    BY <1>4 DEF ProposeAnswered, AcceptAnswered, SuccessCalled
  <2>4. \A c : c[1] # a => (c \in running <=> c \in running')
    BY <1>0, <2>3
  <2> QED BY <2>1, <2>2, <2>4
<1>5. CASE \/ Unreachable(a, n) \/ RequestLost(a, n) \/ ReplyLost(a, n)
           \/ TimedOut(a, n) \/ StoreTimedOut(a, n)
  <2>1. Effect /\ UNCHANGED <<up, kv, ver>>
    BY <1>5, FailedEffect DEF Unreachable, RequestLost, ReplyLost, TimedOut, StoreTimedOut
  <2>2. \E u : att' = [att EXCEPT ![a] = u]
    BY <1>5 DEF Unreachable, RequestLost, ReplyLost, TimedOut, StoreTimedOut
  <2>3. UNCHANGED running \/ \E pc : running' = running \cup {<<a, pc, n>>}
    BY <1>5 DEF Unreachable, RequestLost, ReplyLost, TimedOut, StoreTimedOut
  <2>4. UNCHANGED log \/ LogStep(a, n)
    BY <1>5, HandlersLogStep DEF Unreachable, RequestLost, ReplyLost, TimedOut, StoreTimedOut
  <2>5. \A c : c[1] # a => (c \in running <=> c \in running')
    BY <1>0, <2>3
  <2> QED BY <2>1, <2>2, <2>4, <2>5
<1>6. CASE HandlerStep(a, n)
  <2>1. Effect
    BY <1>6, HandlerEffect DEF HandlerStep
  <2>2. CASE Store(a, n)
    <3>1. /\ UNCHANGED <<up, log>> /\ Assign(n, att[a]) /\ running' = running \ {<<a, "store", n>>}
          /\ \E u : att' = [att EXCEPT ![a] = u]
      BY <2>2 DEF Store
    <3>2. \A c : c[1] # a => (c \in running <=> c \in running')
      BY <1>0, <3>1
    <3> QED BY <2>1, <3>1, <3>2
  <2>3. CASE LatePropose(a, n) \/ LateAccept(a, n) \/ LateSuccess(a, n)
    <3>1. UNCHANGED <<up, kv, ver, att>> /\ LogStep(a, n)
      BY <2>3, HandlersLogStep DEF LatePropose, LateAccept, LateSuccess
    <3>2. \A c : c[1] # a => (c \in running <=> c \in running')
      BY <2>3 DEF LatePropose, LateAccept, LateSuccess
    <3> QED BY <1>1, <2>1, <3>1, <3>2
  <2> QED BY <1>6, <2>2, <2>3 DEF HandlerStep
<1> QED BY <1>2, <1>3, <1>4, <1>5, <1>6 DEF ProposerStep

\* Writes of other keys, and elections.
LEMMA OtherKeeps ==
  ASSUME TypeInv, NEW k \in DataKey, KeyInv(k), NEW a \in DOMAIN att, att[a].key # k, NEW n \in Node,
         Ping(a) \/ Return(a) \/ ProposerStep(a, n) \/ HandlerStep(a, n)
  PROVE  KeyInv(k)'
<1>1. /\ AttStep /\ UNCHANGED up /\ \E u : att' = [att EXCEPT ![a] = u]
      /\ UNCHANGED log \/ LogStep(a, n)
      /\ UNCHANGED <<kv, ver>> \/ \E m \in Node : Assign(m, att[a])
      /\ \A c : c[1] # a => (c \in running <=> c \in running')
  BY StepOfOne DEF Effect
<1>2. Of(k)' = Of(k)
  BY <1>1 DEF Of, AttStep, SameRequest
<1>3. \A b \in Of(k) : b # a /\ att'[b] = att[b]
  <2> SUFFICES ASSUME NEW b \in Of(k) PROVE b # a /\ att'[b] = att[b]
    OBVIOUS
  <2>1. b # a /\ b \in DOMAIN att /\ att \in Seq(Task)
    BY DEF Of, TypeInv, AttInv
  <2> QED BY <1>1, <2>1
<1>4. k \in Key
  BY DEF Key
<1>5. \A m \in Node : log'[m][k] = log[m][k]
  BY <1>1, <1>4, LogStepKnown
<1>6. \A m \in Node : kv'[m][k] = kv[m][k] /\ ver'[m][k] = ver[m][k]
  BY <1>1, AssignKey
<1>7. \A c \in running' : c[1] \in Of(k) => c \in running
  BY <1>1, <1>3
<1>8. \A b \in Of(k), m \in Node : <<b, "store", m>> \in running => <<b, "store", m>> \in running'
  BY <1>1, <1>3
<1> QED BY <1>1, <1>2, <1>3, <1>5, <1>6, <1>7, <1>8, SameKey

-----------------------------------------------------------------------------
(* The invariant.                                                          *)

Agreed == \A k \in DataKey : Unharmed(k) => KeyInv(k)

\* No step of the protocol takes back a failed call, or revives a proposer.
LEMMA HarmStays ==
  ASSUME TypeInv, NEW a \in DOMAIN att, NEW n \in Node,
         Ping(a) \/ Return(a) \/ ProposerStep(a, n) \/ HandlerStep(a, n)
  PROVE  /\ faults' = 0 => UNCHANGED faults
         /\ \A b \in DOMAIN att : att[b].pc = "dead" => att'[b].pc = "dead"
<1>1. faults \in Nat
  BY DEF TypeInv, RestInv
<1>2. faults' = 0 => UNCHANGED faults
  <2>1. CASE Ping(a)
    <3>1. PICK missed \in SUBSET {m \in Node : up[m] /\ <<att[a].node, m>> \in Lossy} :
            faults' = faults + Cardinality(missed)
      BY <2>1 DEF Ping
    <3>2. Cardinality(missed) \in Nat
      BY NodeSets
    <3> QED BY <1>1, <3>1, <3>2
  <2>2. CASE ~ Ping(a)
    <3>1. UNCHANGED faults \/ faults' = faults + 1
      BY <2>2 DEF Return, ProposerStep, ProposeAnswered, AcceptAnswered, SuccessCalled, Unreachable,
                  RequestLost, ReplyLost, TimedOut, StoreTimedOut, Fault,
                  HandlerStep, Store, LatePropose, LateAccept, LateSuccess
    <3> QED BY <1>1, <3>1
  <2> QED BY <2>1, <2>2
<1>3. ASSUME NEW b \in DOMAIN att, att[b].pc = "dead" PROVE att'[b] = att[b]
  <2>1. att \in Seq(Task)
    BY DEF TypeInv, AttInv
  <2>2. PICK u : att' = [att EXCEPT ![a] = u]
    BY StepOfOne
  <2>3. CASE b # a
    BY <2>1, <2>2, <2>3
  <2>4. CASE b = a
    <3>1. ~ Ping(a) /\ ~ Return(a) /\ ~ ProposerStep(a, n)
      BY <1>3, <2>4 DEF Ping, Return, ProposerStep, ProposeAnswered, AcceptAnswered, SuccessCalled,
                  Unreachable, RequestLost, ReplyLost, TimedOut, StoreTimedOut, Calls
    <3>2. UNCHANGED att \/ att' = [att EXCEPT ![a] = att[a]]
      BY <1>3, <2>4, <3>1 DEF HandlerStep, Store, LatePropose, LateAccept, LateSuccess
    <3> QED BY <2>1, <2>4, <3>2
  <2> QED BY <2>3, <2>4
<1> QED BY <1>2, <1>3

\* A step of the protocol, when nothing went wrong.
LEMMA ProtocolAgrees ==
  ASSUME TypeInv, Agreed, Apart, NEW k \in DataKey, Unharmed(k)',
         NEW a \in DOMAIN att, NEW n \in Node,
         Ping(a) \/ Return(a) \/ ProposerStep(a, n) \/ HandlerStep(a, n)
  PROVE  KeyInv(k)'
<1>1. UNCHANGED faults /\ faults = 0
  BY HarmStays DEF Unharmed
<1>2. Unharmed(k) /\ KeyInv(k)
  <2>1. DOMAIN att' = DOMAIN att /\ Of(k)' = Of(k)
    BY StepOfOne DEF Effect, AttStep, SameRequest, Of
  <2>2. \A b \in Of(k) : att[b].pc # "dead"
    BY <2>1, HarmStays DEF Unharmed, Of
  <2> QED BY <1>1, <2>2 DEF Unharmed, Agreed
<1>3. CASE att[a].key # k
  BY <1>2, <1>3, OtherKeeps
<1>4. CASE att[a].key = k
  <2>1. a \in Of(k)
    BY <1>4 DEF Of
  <2>2. Active(a)
    <3>1. CASE HandlerStep(a, n)
      <4>1. PICK pc : <<a, pc, n>> \in running
        BY <3>1 DEF HandlerStep, Store, LatePropose, LateAccept, LateSuccess
      <4>2. att[a].pc = "storing"
        BY <1>2, <2>1, <4>1 DEF KeyInv, RunsOf
      <4> QED BY <4>2 DEF Active, Stage
    <3>2. CASE ~ HandlerStep(a, n)
      BY <3>2 DEF Ping, Return, ProposerStep, ProposeAnswered, AcceptAnswered, SuccessCalled,
                  Unreachable, RequestLost, ReplyLost, TimedOut, StoreTimedOut, Calls, Active, Stage
    <3> QED BY <3>1, <3>2
  <2>3. \A b \in Of(k) : b # a => ~ Active(b)
    BY <1>1, <1>4, <2>1, <2>2 DEF Apart, Of
  <2>4. Ping(a) => KeyInv(k)'
    BY <1>1, <1>2, <2>1, <2>3, PingKeeps
  <2>5. Return(a) => KeyInv(k)'
    BY <1>2, <2>1, <2>3, ReturnKeeps
  <2>6. ProposerStep(a, n) => KeyInv(k)'
    BY <1>1, <1>2, <2>1, <2>3, AnswersKeep, FailuresKeep DEF ProposerStep
  <2>7. HandlerStep(a, n) => KeyInv(k)'
    BY <1>2, <2>1, <2>3, StoresKeep
  <2> QED BY <2>4, <2>5, <2>6, <2>7
<1> QED BY <1>3, <1>4

\* The handlers that call AttemptConsensus.
Bys == {"set", "elect_leader"}

\* What a step of the whole does to the protocol.
LEMMA ForwardMoves ==
  ASSUME ForwardInv, [ForwardNext]_forwardVars
  PROVE  \/ UNCHANGED vars
         \/ UNCHANGED <<log, kv, leader, up, att, running, votes, ver>> /\ faults' = faults + 1
         \/ \E n \in Node, j \in Key, v \in Payload, by \in Bys : Begin(n, j, v, by)
         \/ Protocol
         \/ \E n \in Crashable : Crash(n)
<1>1. ASSUME NEW n \in Node, Elect(n) PROVE \E i \in Node, j \in Key, v \in Payload, by \in Bys : Begin(i, j, v, by)
  BY <1>1 DEF Elect, Key, Payload, Bys
<1>2. ASSUME NEW i \in DOMAIN calls, Decide(i)
      PROVE  \E n \in Node, j \in Key, v \in Payload, by \in Bys : Begin(n, j, v, by)
  <2>1. /\ calls[i].op = "set" /\ Begin(calls[i].node, calls[i].key, calls[i].value, "set")
        /\ calls[i] \in Call /\ CallSound(i)
    BY <1>2, AtCall DEF Decide
  <2>2. calls[i].node \in Node /\ calls[i].key \in Key /\ calls[i].value \in Payload
    BY <2>1 DEF Call, CallSound, Wanted, Payload
  <2> QED BY <2>1, <2>2 DEF Bys
<1>3. ASSUME NEW i \in DOMAIN calls, Serve(i), ~ UNCHANGED vars, ~ Decide(i), ~ ElectSelf(i)
      PROVE  UNCHANGED <<log, kv, leader, up, att, running, votes, ver>> /\ faults' = faults + 1
  BY <1>3 DEF Serve, NoLeader, Lead, ReadLocal, DecideAnswered, Redirect, Forward, ForwardUnanswered,
              ForwardThrows, ForwardAnswered, ForwardTimedOut, ElectionLost, ElectionAnswered, ElectionTimedOut, CallFails
<1>4. CASE \E i \in DOMAIN calls : Serve(i)
  <2> PICK i \in DOMAIN calls : Serve(i)
    BY <1>4
  <2>1. ElectSelf(i) => Elect(calls[i].node) /\ calls[i].node \in Node
    BY AtCall DEF ElectSelf
  <2> QED BY <1>1, <1>2, <1>3, <2>1
<1>5. CASE \E n \in Electors : Coordinates(n)
  BY <1>1, <1>5, ConstantsAssumption DEF Coordinates
<1>6. CASE \/ \E n \in Contact, k \in ClientKey, v \in Value \ {Written} : Request(n, "set", k, v)
           \/ \E n \in Contact, k \in DataKey : Request(n, "get", k, Nothing)
           \/ Idle
           \/ UNCHANGED forwardVars
  BY <1>6 DEF Request, Idle, forwardVars
<1>7. CASE \E n \in Crashable : Stop(n)
  BY <1>7 DEF Stop
<1> QED BY <1>4, <1>5, <1>6, <1>7 DEF ForwardNext

\* What harmed a key harms it for ever.
LEMMA HarmIsForGood ==
  ASSUME ForwardInv, [ForwardNext]_forwardVars, NEW k, Unharmed(k)'
  PROVE  UNCHANGED faults /\ Unharmed(k)
<1>1. TypeInv /\ faults \in Nat /\ faults' = 0
  BY DEF ForwardInv, CoreInv, TypeInv, RestInv, Unharmed
<1>2. ASSUME UNCHANGED faults, DOMAIN att \subseteq DOMAIN att',
             \A a \in DOMAIN att : att'[a].key = att[a].key /\ (att[a].pc = "dead" => att'[a].pc = "dead")
      PROVE  UNCHANGED faults /\ Unharmed(k)
  BY <1>1, <1>2 DEF Unharmed, Of
<1>3. CASE UNCHANGED vars
  BY <1>2, <1>3 DEF vars
<1>4. CASE faults' = faults + 1
  BY <1>1, <1>4
<1>5. CASE \E n \in Node, j \in Key, v \in Payload, by \in Bys : Begin(n, j, v, by)
  BY <1>1, <1>2, <1>5 DEF Begin, TypeInv, AttInv
<1>6. CASE Protocol
  <2>1. 1 \in Node
    BY ConstantsAssumption DEF Node
  <2>2. PICK a \in DOMAIN att, n \in Node :
          Ping(a) \/ Return(a) \/ ProposerStep(a, n) \/ HandlerStep(a, n)
    BY <1>6, <2>1 DEF Protocol
  <2>3. AttStep
    BY <1>1, <2>2, StepOfOne DEF Effect
  <2> QED BY <1>1, <1>2, <2>2, <2>3, HarmStays DEF AttStep, SameRequest
<1>7. CASE \E n \in Crashable : Crash(n)
  <2> PICK n \in Node : Crash(n)
    BY <1>7, ConstantsAssumption
  <2>1. DOMAIN att' = DOMAIN att /\ UNCHANGED faults
    BY DEF Crash
  <2>2. ASSUME NEW a \in DOMAIN att
        PROVE  att'[a].key = att[a].key /\ (att[a].pc = "dead" => att'[a].pc = "dead")
    <3>1. att[a] \in Task /\ (att'[a] = att[a] \/ att'[a] = [att[a] EXCEPT !.pc = "dead", !.live = {}])
      BY <1>1 DEF Crash, TypeInv, AttInv, GoodTask
    <3> QED BY <3>1 DEF Task
  <2> QED BY <1>2, <2>1, <2>2
<1> QED BY <1>3, <1>4, <1>5, <1>6, <1>7, ForwardMoves

\* Every step keeps the replicas in agreement, as long as writes of a key do not overlap.
LEMMA NextAgrees ==
  ASSUME ForwardInv, [ForwardNext]_forwardVars, Agreed, Apart, Apart'
  PROVE  Agreed'
<1> SUFFICES ASSUME NEW k \in DataKey, Unharmed(k)' PROVE KeyInv(k)'
  BY DEF Agreed
<1>1. TypeInv /\ faults \in Nat /\ faults' = 0 /\ UNCHANGED faults /\ Unharmed(k) /\ KeyInv(k)
  <2>1. TypeInv /\ faults \in Nat
    BY DEF ForwardInv, CoreInv, TypeInv, RestInv
  <2>2. UNCHANGED faults /\ Unharmed(k)
    BY HarmIsForGood
  <2>3. faults' = 0
    BY DEF Unharmed
  <2> QED BY <2>1, <2>2, <2>3 DEF Agreed
<1>2. CASE UNCHANGED vars
  BY <1>1, <1>2, SameKey DEF Of, vars
<1>3. CASE faults' = faults + 1
  BY <1>1, <1>3
<1>4. CASE \E n \in Node, j \in Key, v \in Payload, by \in Bys : Begin(n, j, v, by)
  <2> PICK n \in Node, j \in Key, v \in Payload, by \in Bys : Begin(n, j, v, by)
    BY <1>4
  <2> PICK t : t = [pc |-> "ping", by |-> by, node |-> n, key |-> j, value |-> v,
                    round |-> NumKnown(log[n][j]), live |-> {}, todo |-> {}, promised |-> 0,
                    accepted_id |-> 0, accepted_value |-> Nothing, acked |-> {}]
    OBVIOUS
  <2> PICK b : b = Len(att) + 1
    OBVIOUS
  <2>1. att' = Append(att, t) /\ t.pc = "ping" /\ t.key = j
    BY DEF Begin
  <2>2. /\ DOMAIN att' = DOMAIN att \cup {b} /\ b \notin DOMAIN att /\ att'[b] = t
        /\ \A a \in DOMAIN att : att'[a] = att[a]
    BY <1>1, <2>1 DEF TypeInv, AttInv
  <2>3. ASSUME j = k, NEW a \in Of(k) PROVE ~ Active(a)
    <3>1. a \in DOMAIN att' /\ a # b /\ att'[a] = att[a] /\ att[a].key = k
      BY <2>2 DEF Of
    <3>2. b \in DOMAIN att' /\ att'[b].pc \in Stage /\ att'[b].key = k
      BY <2>1, <2>2, <2>3 DEF Stage
    <3> QED BY <1>1, <3>1, <3>2 DEF Apart, Active
  <2> QED BY <1>1, <2>3, BeginAgrees
<1>5. CASE Protocol
  <2>1. 1 \in Node
    BY ConstantsAssumption DEF Node
  <2>2. PICK a \in DOMAIN att, n \in Node :
          Ping(a) \/ Return(a) \/ ProposerStep(a, n) \/ HandlerStep(a, n)
    BY <1>5, <2>1 DEF Protocol
  <2> QED BY <1>1, <2>2, ProtocolAgrees
<1>6. CASE \E n \in Crashable : Crash(n)
  BY <1>1, <1>6, CrashAgrees, ConstantsAssumption
<1> QED BY <1>2, <1>3, <1>4, <1>5, <1>6, ForwardMoves

\* At first every replica has the first write of every key.
LEMMA FirstAgrees == ForwardInit => Agreed
<1> SUFFICES ASSUME ForwardInit, NEW k \in DataKey PROVE KeyInv(k)
  BY DEF Agreed
<1> PICK l \in Flagged, keys \in [1 .. Cardinality(DataKey) -> DataKey] : Prepared(l, keys)
  BY DEF ForwardInit
<1>1. l \in Node /\ k \in Key
  BY ConstantsAssumption DEF Key
<1>2. DOMAIN att = DOMAIN keys /\ \A a \in DOMAIN keys : att[a] = FirstWrite(l, keys[a])
  BY DEF Prepared
<1>3. \A a \in Of(k) : att[a].pc = "ok" /\ att[a].key = k /\ att[a].round = 0
  <2> SUFFICES ASSUME NEW a \in Of(k) PROVE att[a].pc = "ok" /\ att[a].key = k /\ att[a].round = 0
    OBVIOUS
  <2>1. a \in DOMAIN keys /\ att[a] = FirstWrite(l, keys[a]) /\ keys[a] \in DataKey
    BY <1>2 DEF Of
  <2> QED BY <1>1, <2>1, FirstWriteSound DEF Of
<1>4. \E a \in DOMAIN att : a \in Of(k)
  <2>1. PICK a \in DOMAIN keys : keys[a] = k
    BY DEF Prepared
  <2>2. att[a].key = k
    BY <1>1, <1>2, <2>1, FirstWriteSound
  <2> QED BY <1>2, <2>1, <2>2 DEF Of
<1>5. \A n \in Node : Known(log[n][k]) = {0} /\ ver[n][k] = 0 /\ kv[n][k] = Written
  <2>1. \A n \in Node : log[n][k] = Accept(EmptyLog, 0, Written) /\ ver[n][k] = 0 /\ kv[n][k] = Written
    BY <1>1 DEF Prepared
  <2> QED BY <2>1, FirstLogs
<1>6. ASSUME NEW a \in Of(k) PROVE UpTask(a)
  <2>1. \A n \in Ups : Has(n, att[a])
    BY <1>3, <1>5 DEF Has, Ups
  <2> QED BY <1>3, <2>1 DEF UpTask, Counted, Told, Active, Stage
<1>7. RunsOf(k)
  BY DEF RunsOf, Prepared
<1>8. LogsOf(k)
  BY <1>3, <1>4, <1>5 DEF LogsOf, Ups
<1>9. StoresOf(k)
  BY <1>5 DEF StoresOf, Ups
<1> QED BY <1>6, <1>7, <1>8, <1>9 DEF KeyInv

\* What agreement of the stores comes from.
LEMMA AgreedShows == Agreed => StoresAgree
<1> SUFFICES ASSUME Agreed, NEW k \in DataKey, faults = 0,
                    \A a \in DOMAIN att : ~ Active(a) /\ (att[a].key = k => att[a].pc # "dead"),
                    NEW n \in Node, NEW m \in Node, up[n], up[m]
             PROVE  kv[n][k] = kv[m][k]
  BY DEF StoresAgree
<1>1. KeyInv(k) /\ n \in Ups /\ m \in Ups
  BY DEF Agreed, Unharmed, Of, Ups
<1>2. \A a \in Of(k) : Told(att[a], n) <=> Told(att[a], m)
  BY ToldActive DEF Of
<1> QED BY <1>1, <1>2 DEF KeyInv, StoresOf

-----------------------------------------------------------------------------
(* What a get sees.                                                        *)

\* What an invocation of get or set never changes of what it owes.
Asks(c, d) == d.op = c.op /\ d.key = c.key /\ d.due = c.due

\* What is owed was acknowledged, a call owes what its caller does, and a get that is
\* answered saw it.
ReadSound(i) ==
  LET c == calls[i] IN
  /\ c.due # -1 => \E a \in Of(c.key) : att[a].pc = "ok" /\ att[a].round = c.due
  /\ c.pc = "calling" => calls[c.on].due >= c.due
  /\ c.op = "get" /\ c.pc = "ok" /\ Unharmed(c.key) => c.seen >= c.due

ReadsInv == \A i \in DOMAIN calls : ReadSound(i)

\* An attempt that succeeded stays what it is.
LEMMA OkStays ==
  ASSUME ForwardInv, [ForwardNext]_forwardVars, NEW k, NEW a \in Of(k), att[a].pc = "ok"
  PROVE  a \in Of(k)' /\ att'[a].pc = "ok" /\ att'[a].round = att[a].round
<1>1. TypeInv /\ a \in DOMAIN att /\ att[a].key = k
  BY DEF ForwardInv, CoreInv, Of
<1>2. CASE UNCHANGED att
  BY <1>1, <1>2 DEF Of
<1>3. CASE \E n \in Node, j \in Key, v \in Payload, by \in Bys : Begin(n, j, v, by)
  <2>1. att \in Seq(Task) /\ a \in DOMAIN att' /\ att'[a] = att[a]
    BY <1>1, <1>3 DEF Begin, TypeInv, AttInv
  <2> QED BY <1>1, <2>1 DEF Of
<1>4. CASE Next
  <2>1. Grows /\ OkForGood
    BY <1>1, <1>4, NextGrows, NextOkForGood
  <2> QED BY <1>1, <2>1 DEF Grows, OkForGood, SameRequest, Of
<1>5. Protocol => Next
  BY DEF Protocol, Next
<1>6. (\E n \in Crashable : Crash(n)) => Next
  BY DEF Next
<1> QED BY <1>2, <1>3, <1>4, <1>5, <1>6, ForwardMoves DEF vars

\* A handler that stays, or goes on without a call or a value.
LEMMA ReadStays ==
  ASSUME ForwardInv, ReadsInv, [ForwardNext]_forwardVars,
         DOMAIN calls \subseteq DOMAIN calls', \A j \in DOMAIN calls : Asks(calls[j], calls'[j]),
         NEW i \in DOMAIN calls,
         calls'[i].pc = "calling" =>
           \/ calls[i].pc = "calling" /\ calls'[i].on = calls[i].on
           \/ calls'[calls'[i].on].due >= calls[i].due,
         calls'[i].op = "get" /\ calls'[i].pc = "ok" =>
           \/ calls[i].pc = "ok" /\ calls'[i].seen = calls[i].seen
           \/ Unharmed(calls[i].key) => calls'[i].seen >= calls[i].due
  PROVE  ReadSound(i)'
<1>1. Asks(calls[i], calls'[i]) /\ ReadSound(i) /\ CallSound(i)
  BY AtCall DEF ReadsInv
<1>2. calls'[i].due # -1 => \E a \in Of(calls[i].key)' : att'[a].pc = "ok" /\ att'[a].round = calls'[i].due
  BY <1>1, OkStays DEF ReadSound, Asks
<1>3. calls'[i].pc = "calling" => calls'[calls'[i].on].due >= calls'[i].due
  <2>1. calls[i].pc = "calling" => calls[i].on \in DOMAIN calls /\ calls[calls[i].on].due >= calls[i].due
    BY <1>1 DEF CallSound, Calling, ReadSound
  <2> QED BY <1>1, <2>1 DEF Asks
<1>4. calls'[i].op = "get" /\ calls'[i].pc = "ok" /\ Unharmed(calls[i].key)' => calls'[i].seen >= calls'[i].due
  BY <1>1, HarmIsForGood DEF ReadSound, Asks
<1>5. calls'[i].key = calls[i].key
  BY <1>1 DEF Asks
<1> QED BY <1>2, <1>3, <1>4, <1>5 DEF ReadSound

\* A request that arrives owes what is acknowledged for its key.
LEMMA NewReads ==
  ASSUME ForwardInv, UNCHANGED att, NEW last, NEW k \in Key,
         calls'[last].due = Latest(Acknowledged(k)), calls'[last].pc = "arrived", calls'[last].key = k
  PROVE  ReadSound(last)' /\ (\A a \in Of(k) : att[a].pc = "ok" => att[a].round <= calls'[last].due)
<1>1. /\ calls'[last].due = Latest(Acknowledged(k)) /\ calls'[last].pc = "arrived" /\ calls'[last].key = k
  OBVIOUS
<1>2. Acknowledged(k) \in SUBSET Round
  BY DEF ForwardInv, CoreInv, TypeInv, AttInv, GoodTask, Task, Acknowledged
<1>3. Latest(Acknowledged(k)) \in Acknowledged(k) \cup {-1} /\ \A s \in Acknowledged(k) : s <= Latest(Acknowledged(k))
  BY <1>2, LatestIsRound, LatestIsLast
<1>4. calls'[last].due # -1 => \E a \in Of(k)' : att'[a].pc = "ok" /\ att'[a].round = calls'[last].due
  BY <1>1, <1>3 DEF Acknowledged, Of
<1>5. \A a \in Of(k) : att[a].pc = "ok" => att[a].round <= calls'[last].due
  BY <1>1, <1>3 DEF Acknowledged, Of
<1> QED BY <1>1, <1>4, <1>5 DEF ReadSound

\* One handler goes on.
LEMMA OneRead ==
  ASSUME ForwardInv, ReadsInv, [ForwardNext]_forwardVars, NEW i \in DOMAIN calls,
         NEW d, calls' = [calls EXCEPT ![i] = d], Asks(calls[i], d), d.pc # "calling",
         d.op = "get" /\ d.pc = "ok" /\ Unharmed(d.key) => d.seen >= d.due
  PROVE  ReadsInv'
<1>1. /\ DOMAIN calls' = DOMAIN calls /\ calls'[i] = d
      /\ \A j \in DOMAIN calls : j # i => calls'[j] = calls[j]
  BY DEF ForwardInv, CallsInv
<1>2. \A j \in DOMAIN calls : Asks(calls[j], calls'[j])
  BY <1>1 DEF Asks
<1>3. ReadSound(i)'
  BY <1>1, <1>2, ReadStays DEF Asks
<1>4. ASSUME NEW j \in DOMAIN calls, j # i PROVE ReadSound(j)'
  <2>1. calls'[j] = calls[j]
    BY <1>1, <1>4
  <2> QED BY <1>1, <1>2, <2>1, ReadStays
<1> QED BY <1>1, <1>3, <1>4 DEF ReadsInv

\* A handler that only goes on.
LEMMA ReadGoesOn ==
  ASSUME ForwardInv, ReadsInv, [ForwardNext]_forwardVars, NEW i \in DOMAIN calls, NEW pc,
         Goes(i, pc), pc # "calling", pc = "ok" => calls[i].op = "set"
  PROVE  ReadsInv'
<1> PICK c \in Call : c = calls[i]
  BY AtCall
<1> PICK d : d = [c EXCEPT !.pc = pc]
  OBVIOUS
<1>1. Asks(c, d) /\ d.pc = pc
  BY DEF Call, Asks
<1>2. calls' = [calls EXCEPT ![i] = d]
  BY DEF Goes
<1> QED BY ZenonT(60), <1>1, <1>2, OneRead DEF Asks

\* What a replica that runs has in its store is as late as anything acknowledged.
LEMMA StoreIsLate ==
  ASSUME ForwardInv, ReadsInv, Agreed, NEW i \in DOMAIN calls, calls[i].pc = "leading",
         calls[i].op = "get", Unharmed(calls[i].key)
  PROVE  ver[calls[i].node][calls[i].key] >= calls[i].due
<1> PICK c \in Call : c = calls[i]
  BY AtCall
<1>1. c.key \in DataKey /\ c.key \in Key /\ c.node \in Ups /\ ReadSound(i)
  BY AtCall DEF CallSound, Wanted, Over, Ups, Call, ReadsInv
<1>2. CASE c.due = -1
  <2>1. ver[c.node][c.key] \in Round \cup {-1}
    BY <1>1 DEF ForwardInv, CoreInv, TypeInv, RestInv, Ups
  <2> QED BY <1>2, <2>1 DEF Round
<1>3. CASE c.due # -1
  <2>1. PICK a \in Of(c.key) : att[a].pc = "ok" /\ att[a].round = c.due
    BY <1>1, <1>3 DEF ReadSound
  <2>2. UpTask(a) /\ att[a].key = c.key
    BY <1>1 DEF Agreed, KeyInv, Of
  <2> QED BY <1>1, <2>1, <2>2 DEF UpTask, Has
<1> QED BY <1>2, <1>3

\* A call that waits got its answer.
LEMMA AnswerIsLate ==
  ASSUME ForwardInv, ReadsInv, NEW i \in DOMAIN calls, calls[i].pc = "calling"
  PROVE  \E j \in DOMAIN calls :
           /\ j = calls[i].on /\ calls[j].op = calls[i].op
           /\ calls[j].op = "get" /\ calls[j].pc = "ok" /\ Unharmed(calls[i].key) =>
                calls[j].seen >= calls[i].due
<1>1. CallSound(i) /\ ReadSound(i)
  BY AtCall DEF ReadsInv
<1>2. PICK j \in DOMAIN calls : j = calls[i].on /\ calls[j].op = calls[i].op /\ calls[j].key = calls[i].key
  BY <1>1 DEF CallSound, Calling
<1>3. ReadSound(j) /\ calls[j].due >= calls[i].due
  BY <1>1, <1>2 DEF ReadsInv, ReadSound
<1>4. calls[j] \in Call /\ calls[i] \in Call
  BY AtCall
<1>5. calls[j].due \in Int /\ calls[i].due \in Int /\ calls[j].seen \in Int
  BY <1>4 DEF Call, Round
<1> QED BY <1>2, <1>3, <1>5 DEF ReadSound

\* The steps of a handler that make no call.
LEMMA LocalReads ==
  ASSUME ForwardInv, ReadsInv, Agreed, [ForwardNext]_forwardVars, NEW i \in DOMAIN calls,
         Serve(i), ~ Forward(i)
  PROVE  ReadsInv'
<1> PICK c \in Call : c = calls[i]
  BY AtCall
<1>1. CASE \/ NoLeader(i) \/ Lead(i) \/ Redirect(i) \/ ForwardThrows(i)
           \/ ElectionLost(i) \/ ElectionTimedOut(i)
  <2>1. \E pc \in {"aborted", "leading", "forwarding"} : Goes(i, pc)
    BY <1>1 DEF NoLeader, Lead, Redirect, ForwardThrows, ElectionLost, ElectionTimedOut
  <2> QED BY <2>1, ReadGoesOn
<1>2. ASSUME Fails(i) PROVE ReadsInv'
  BY <1>2, ReadGoesOn DEF Fails
<1>3. CASE ForwardUnanswered(i) \/ ForwardTimedOut(i)
  BY <1>2, <1>3 DEF ForwardUnanswered, ForwardTimedOut
<1>4. CASE DecideAnswered(i)
  <2>1. calls[i].op = "set"
    BY <1>4, AtCall DEF DecideAnswered, CallSound, Deciding
  <2>2. Goes(i, "ok") \/ Goes(i, "aborted")
    BY <1>4 DEF DecideAnswered
  <2> QED BY <2>1, <2>2, ReadGoesOn
<1>5. ASSUME NEW pc \in {"deciding", "electing"}, NEW b, calls' = [calls EXCEPT ![i].pc = pc, ![i].on = b]
      PROVE  ReadsInv'
  <2> PICK d : d = [c EXCEPT !.pc = pc, !.on = b]
    OBVIOUS
  <2>1. Asks(c, d) /\ d.pc = pc
    BY DEF Call, Asks
  <2>2. calls' = [calls EXCEPT ![i] = d]
    BY <1>5 DEF ForwardInv, CallsInv
  <2> QED BY <2>1, <2>2, OneRead
<1>6. CASE Decide(i) \/ ElectSelf(i)
  BY <1>5, <1>6 DEF Decide, ElectSelf
<1>7. CASE ElectionAnswered(i)
  <2>1. CASE Goes(i, "aborted")
    BY <2>1, ReadGoesOn
  <2>2. CASE calls' = [calls EXCEPT ![i].pc = "forwarding", ![i].again = TRUE]
    <3> PICK d : d = [c EXCEPT !.pc = "forwarding", !.again = TRUE]
      OBVIOUS
    <3>1. Asks(c, d) /\ d.pc = "forwarding"
      BY DEF Call, Asks
    <3>2. calls' = [calls EXCEPT ![i] = d]
      BY <2>2 DEF ForwardInv, CallsInv
    <3> QED BY <3>1, <3>2, OneRead
  <2> QED BY <1>7, <2>1, <2>2 DEF ElectionAnswered
<1>8. ASSUME NEW r, calls' = [calls EXCEPT ![i].pc = "ok", ![i].seen = r],
             c.op = "get" /\ Unharmed(c.key) => r >= c.due
      PROVE  ReadsInv'
  <2> PICK d : d = [c EXCEPT !.pc = "ok", !.seen = r]
    OBVIOUS
  <2>1. Asks(c, d) /\ d.pc = "ok" /\ d.seen = r
    BY DEF Call, Asks
  <2>2. calls' = [calls EXCEPT ![i] = d]
    BY <1>8 DEF ForwardInv, CallsInv
  <2>3. d.op = "get" /\ Unharmed(d.key) => d.seen >= d.due
    BY <1>8, <2>1 DEF Asks
  <2> QED BY <2>1, <2>2, <2>3, OneRead
<1>9. CASE ReadLocal(i)
  BY <1>8, <1>9, StoreIsLate DEF ReadLocal
<1>10. CASE ForwardAnswered(i)
  <2>1. PICK j \in DOMAIN calls :
          /\ j = c.on /\ calls[j].op = c.op
          /\ calls[j].op = "get" /\ calls[j].pc = "ok" /\ Unharmed(c.key) => calls[j].seen >= c.due
    BY <1>10, AnswerIsLate DEF ForwardAnswered
  <2>2. CASE calls[j].pc = "ok" /\ calls' = [calls EXCEPT ![i].pc = "ok", ![i].seen = calls[j].seen]
    BY <1>8, <2>1, <2>2
  <2> QED BY <1>2, <1>10, <2>1, <2>2 DEF ForwardAnswered
<1> QED BY <1>1, <1>3, <1>4, <1>6, <1>7, <1>9, <1>10 DEF Serve

\* A call that is made, by a client or by a handler that then waits for it.
LEMMA NewCallReads ==
  ASSUME ForwardInv, ReadsInv, [ForwardNext]_forwardVars, UNCHANGED att,
         NEW before \in Seq(Call), DOMAIN before = DOMAIN calls,
         NEW op \in {"get", "set"}, NEW n \in Node, NEW k \in Key, NEW v \in Value \cup {Nothing},
         NEW client \in BOOLEAN, calls' = Append(before, NewCall(op, n, k, v, client)),
         \A j \in DOMAIN calls : Asks(calls[j], before[j]),
         \A j \in DOMAIN calls :
           \/ before[j] = calls[j]
           \/ before[j].pc = "calling" /\ before[j].on = Len(calls) + 1 /\ calls[j].key = k
  PROVE  ReadsInv'
<1> PICK new \in Call : new = NewCall(op, n, k, v, client)
  BY NewCallType
<1>1. calls \in Seq(Call) /\ Len(before) = Len(calls) /\ Len(calls) \in Nat
  BY DEF ForwardInv, CallsInv
<1> PICK last \in Nat : last = Len(calls) + 1
  BY <1>1
<1>2. /\ DOMAIN calls' = DOMAIN calls \cup {last} /\ calls'[last] = new
      /\ \A j \in DOMAIN calls : calls'[j] = before[j]
  BY <1>1
<1>3. ReadSound(last)' /\ (\A a \in Of(k) : att[a].pc = "ok" => att[a].round <= calls'[last].due)
  <2>1. new.due = Latest(Acknowledged(k)) /\ new.pc = "arrived" /\ new.key = k
    BY DEF NewCall
  <2> QED BY <1>2, <2>1, NewReads
<1>4. \A j \in DOMAIN calls : Asks(calls[j], calls'[j])
  BY <1>2
<1>5. ASSUME NEW j \in DOMAIN calls PROVE ReadSound(j)'
  <2>1. CASE before[j] = calls[j]
    <3>1. calls'[j] = calls[j]
      BY <1>2, <2>1
    <3> QED BY <1>2, <1>4, <3>1, ReadStays
  <2>2. CASE before[j].pc = "calling" /\ before[j].on = last /\ calls[j].key = k
    <3>1. calls[j].due = -1 \/ \E a \in Of(k) : att[a].pc = "ok" /\ att[a].round = calls[j].due
      BY <2>2 DEF ReadsInv, ReadSound
    <3>2. calls'[last].due \in Int /\ calls'[last].due >= -1
      <4>1. new.due \in Int /\ new.due >= -1
        BY DEF Call, Round
      <4> QED BY <1>2, <4>1
    <3>3. calls'[last].due >= calls[j].due
      BY <1>3, <3>1, <3>2
    <3>4. calls'[j].pc = "calling" /\ calls'[calls'[j].on].due >= calls[j].due
      BY <1>2, <2>2, <3>3
    <3> QED BY <1>2, <1>4, <3>4, ReadStays
  <2> QED BY <2>1, <2>2
<1> QED BY <1>2, <1>3, <1>5 DEF ReadsInv

\* A request is forwarded.
LEMMA ForwardReads ==
  ASSUME ForwardInv, ReadsInv, [ForwardNext]_forwardVars, NEW i \in DOMAIN calls, Forward(i)
  PROVE  ReadsInv'
<1> PICK c \in Call : c = calls[i]
  BY AtCall
<1> PICK d : d = [c EXCEPT !.pc = "calling", !.on = Len(calls) + 1]
  OBVIOUS
<1> PICK before : before = [calls EXCEPT ![i] = d]
  OBVIOUS
<1>1. Asks(c, d) /\ d.pc = "calling" /\ d.on = Len(calls) + 1
  BY DEF Call, Asks
<1>2. d \in Call
  <2>1. Len(calls) + 1 \in 0 .. MaxAttempts + MaxCalls
    BY ConstantsAssumption, ForwardingAssumption DEF Forward, ForwardInv, CallsInv
  <2> QED BY <2>1 DEF Call
<1>3. /\ before \in Seq(Call) /\ DOMAIN before = DOMAIN calls /\ before[i] = d
      /\ \A j \in DOMAIN calls : j # i => before[j] = calls[j]
  BY <1>2 DEF ForwardInv, CallsInv
<1>4. \A j \in DOMAIN calls : Asks(calls[j], before[j])
  BY <1>1, <1>3 DEF Asks
<1>5. c.op \in {"get", "set"} /\ c.key \in Key /\ c.value \in Value \cup {Nothing} /\ FALSE \in BOOLEAN
  BY DEF Call
<1> PICK m \in Node : m = LeaderOf(i)
  BY DEF Forward
<1>6. UNCHANGED att /\ calls' = Append(before, NewCall(c.op, m, c.key, c.value, FALSE))
  <2>1. calls' = Append([calls EXCEPT ![i].pc = "calling", ![i].on = Len(calls) + 1],
                        NewCall(c.op, m, c.key, c.value, FALSE))
    BY DEF Forward
  <2>2. [calls EXCEPT ![i].pc = "calling", ![i].on = Len(calls) + 1] = before
    BY DEF ForwardInv, CallsInv
  <2> QED BY <2>1, <2>2 DEF Forward, vars
<1>7. \A j \in DOMAIN calls :
        \/ before[j] = calls[j]
        \/ before[j].pc = "calling" /\ before[j].on = Len(calls) + 1 /\ calls[j].key = c.key
  BY <1>1, <1>3
<1> PICK op \in {"get", "set"}, k \in Key, v \in Value \cup {Nothing} :
       op = c.op /\ k = c.key /\ v = c.value
  BY <1>5
<1>8. /\ before \in Seq(Call) /\ DOMAIN before = DOMAIN calls /\ FALSE \in BOOLEAN
      /\ calls' = Append(before, NewCall(op, m, k, v, FALSE)) /\ UNCHANGED att
      /\ \A j \in DOMAIN calls :
           \/ before[j] = calls[j]
           \/ before[j].pc = "calling" /\ before[j].on = Len(calls) + 1 /\ calls[j].key = k
  BY <1>3, <1>6, <1>7
<1> QED BY ONLY ForwardInv, ReadsInv, [ForwardNext]_forwardVars, <1>4, <1>8, NewCallReads

\* A client asks.
LEMMA RequestReads ==
  ASSUME ForwardInv, ReadsInv, [ForwardNext]_forwardVars, NEW n \in Node, NEW op \in {"get", "set"},
         NEW k \in Key, NEW v \in Value \cup {Nothing}, Request(n, op, k, v)
  PROVE  ReadsInv'
<1>1. /\ calls \in Seq(Call) /\ DOMAIN calls = DOMAIN calls /\ TRUE \in BOOLEAN
      /\ calls' = Append(calls, NewCall(op, n, k, v, TRUE)) /\ UNCHANGED att
      /\ \A j \in DOMAIN calls :
           \/ calls[j] = calls[j]
           \/ calls[j].pc = "calling" /\ calls[j].on = Len(calls) + 1 /\ calls[j].key = k
  BY DEF Request, vars, ForwardInv, CallsInv
<1>2. \A j \in DOMAIN calls : Asks(calls[j], calls[j])
  BY DEF Asks
<1> QED BY <1>1, <1>2, NewCallReads

\* The handlers of a replica that crashes are gone.
LEMMA StopReads ==
  ASSUME ForwardInv, ReadsInv, [ForwardNext]_forwardVars, NEW n \in Node, Stop(n)
  PROVE  ReadsInv'
<1>1. DOMAIN calls' = DOMAIN calls
  BY DEF Stop
<1>2. ASSUME NEW j \in DOMAIN calls
      PROVE  Asks(calls[j], calls'[j]) /\ (calls'[j] = calls[j] \/ calls'[j].pc = "gone")
  <2> PICK c \in Call : c = calls[j]
    BY AtCall
  <2> PICK d : d = [c EXCEPT !.pc = "gone"]
    OBVIOUS
  <2>1. Asks(c, d) /\ d.pc = "gone" /\ Asks(c, c)
    BY DEF Call, Asks
  <2>2. calls'[j] = c \/ calls'[j] = d
    BY DEF Stop
  <2> QED BY <2>1, <2>2
<1>3. ASSUME NEW j \in DOMAIN calls PROVE ReadSound(j)'
  <2>1. (\A l \in DOMAIN calls : Asks(calls[l], calls'[l])) /\ (calls'[j] = calls[j] \/ calls'[j].pc = "gone")
    BY <1>2
  <2>2. /\ calls'[j].pc = "calling" =>
             \/ calls[j].pc = "calling" /\ calls'[j].on = calls[j].on
             \/ calls'[calls'[j].on].due >= calls[j].due
        /\ calls'[j].op = "get" /\ calls'[j].pc = "ok" =>
             \/ calls[j].pc = "ok" /\ calls'[j].seen = calls[j].seen
             \/ Unharmed(calls[j].key) => calls'[j].seen >= calls[j].due
    BY <2>1
  <2> QED BY <1>1, <2>1, <2>2, ReadStays
<1> QED BY <1>1, <1>3 DEF ReadsInv

\* Every step keeps what gets have seen sound.
LEMMA NextReads ==
  ASSUME ForwardInv, ReadsInv, Agreed, [ForwardNext]_forwardVars
  PROVE  ReadsInv'
<1>1. CASE UNCHANGED calls
  <2>1. DOMAIN calls' = DOMAIN calls /\ \A j \in DOMAIN calls : Asks(calls[j], calls'[j])
    BY <1>1 DEF Asks
  <2>2. \A j \in DOMAIN calls : ReadSound(j)'
    BY <1>1, <2>1, ReadStays
  <2> QED BY <2>1, <2>2 DEF ReadsInv
<1>2. CASE \E i \in DOMAIN calls : Serve(i)
  BY <1>2, LocalReads, ForwardReads
<1>3. ASSUME NEW n \in Contact, NEW k \in ClientKey, NEW v \in Value \ {Written}, Request(n, "set", k, v)
      PROVE  ReadsInv'
  <2>1. n \in Node /\ k \in Key /\ v \in Value \cup {Nothing} /\ "set" \in {"get", "set"}
    BY ConstantsAssumption, ForwardingAssumption
  <2> QED BY <1>3, <2>1, RequestReads
<1>4. ASSUME NEW n \in Contact, NEW k \in DataKey, Request(n, "get", k, Nothing)
      PROVE  ReadsInv'
  <2>1. n \in Node /\ k \in Key /\ Nothing \in Value \cup {Nothing} /\ "get" \in {"get", "set"}
    BY ForwardingAssumption DEF Key
  <2> QED BY <1>4, <2>1, RequestReads
<1>5. CASE \E n \in Crashable : Stop(n)
  BY <1>5, StopReads, ConstantsAssumption
<1> QED BY <1>1, <1>2, <1>3, <1>4, <1>5 DEF ForwardNext, Coordinates, forwardVars

\* What every get sees comes from what it owes.
LEMMA ReadsShow == ReadsInv => ReadsSeeAcknowledged
BY DEF ReadsInv, ReadSound, ReadsSeeAcknowledged, Unharmed, Of

\* At first nobody has asked.
LEMMA FirstReads == ForwardInit => ReadsInv
<1>1. ForwardInit => calls = << >>
  BY DEF ForwardInit, Prepared
<1> QED BY <1>1 DEF ReadsInv
=============================================================================
