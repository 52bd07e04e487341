----------------------------- MODULE Forwarding -----------------------------
(***************************************************************************)
(* DatabaseRPC::get and set on any replica, composed with the protocol.  A *)
(* replica that is not the leader forwards the request to the one it takes *)
(* for it; when that fails, whatever the reason, it has itself elected and *)
(* forwards the request once more, to whoever it then takes for the        *)
(* leader.  Each call has a deadline of its own, and the handler that is   *)
(* called does not know it: it goes on when its caller has given up.       *)
(***************************************************************************)
EXTENDS Consensus

CONSTANTS
  Contact,      \* replicas the clients talk to
  Untold,       \* replicas that have not found the leader yet
  Written,      \* a value every key already has
  Ops,          \* what they ask: "get", "set"
  MaxRequests,  \* bound: requests of clients
  MaxOpen,      \* bound: requests of clients that are not over
  MaxCalls      \* bound: invocations of get and set, the forwarded ones included

ASSUME ForwardingAssumption ==
  /\ Contact \subseteq Node /\ Untold \subseteq Node
  /\ Written \in Value /\ DataKey \subseteq ClientKey
  /\ Cardinality(DataKey) \in 0 .. MaxAttempts
  /\ Ops \subseteq {"get", "set"}
  /\ MaxRequests \in Nat /\ MaxOpen \in Nat /\ MaxCalls \in Nat

VARIABLE calls   \* invocations of DatabaseRPC::get and set, in the order they began

forwardVars == <<vars, calls>>

\* "aborted" is an answer that is not OK, "gone" a handler whose replica crashed.
Over == {"ok", "aborted", "gone"}

\* on is what the handler waits for: an attempt ("deciding", "electing") or a call
\* ("calling").  again is set after the election.  The last three are history: the
\* attempts begun and the latest round acknowledged when the request arrived, and the
\* round of the value a get answered.
Call ==
  [pc : {"arrived", "leading", "deciding", "forwarding", "calling", "stranded", "electing"} \cup Over,
   op : {"get", "set"}, node : Node, key : Key, value : Value \cup {Nothing},
   client : BOOLEAN, again : BOOLEAN, on : 0 .. MaxAttempts + MaxCalls,
   since : 0 .. MaxAttempts, due : Round \cup {-1}, seen : Round \cup {-1}]

\* Every replica runs, all but those of Untold have found the leader (Startup), and the
\* leader has written every key once, in some order.
FirstWrite(l, k) ==
  [pc |-> "ok", by |-> "set", node |-> l, key |-> k, value |-> Written, round |-> 0, live |-> {},
   todo |-> {}, promised |-> NumReplicas, accepted_id |-> 0, accepted_value |-> Nothing,
   acked |-> Node]

Prepared(l, keys) ==
  /\ DataKey = {keys[a] : a \in DOMAIN keys}
  /\ log = [n \in Node |-> [k \in Key |->
              IF k \in DataKey THEN Accept(EmptyLog, 0, Written) ELSE EmptyLog]]
  /\ kv = [n \in Node |-> [k \in DataKey |-> Written]]
  /\ leader = [n \in Node |-> IF n \in Untold THEN Nothing ELSE l]
  /\ up = [n \in Node |-> TRUE]
  /\ att = [a \in DOMAIN keys |-> FirstWrite(l, keys[a])]
  /\ running = {}
  /\ faults = 0
  /\ votes = {<<n, k, 0, Written>> : n \in Node, k \in DataKey}
  /\ ver = [n \in Node |-> [k \in Key |-> IF k \in DataKey THEN 0 ELSE -1]]
  /\ calls = << >>

ForwardInit ==
  \E l \in Flagged, keys \in [1 .. Cardinality(DataKey) -> DataKey] : Prepared(l, keys)

NewCall(op, n, k, v, client) ==
  [pc |-> "arrived", op |-> op, node |-> n, key |-> k, value |-> v,
   client |-> client, again |-> FALSE, on |-> 0,
   since |-> Len(att), due |-> Latest(Acknowledged(k)), seen |-> -1]

Requests == {i \in DOMAIN calls : calls[i].client}
Open == {i \in Requests : calls[i].pc \notin Over}

Request(n, op, k, v) ==
  /\ up[n]
  /\ Cardinality(Requests) < MaxRequests /\ Len(calls) < MaxCalls
  /\ Cardinality(Open) < MaxOpen
  /\ calls' = Append(calls, NewCall(op, n, k, v, TRUE))
  /\ UNCHANGED vars

-----------------------------------------------------------------------------
(* The handler of call i.                                                  *)

\* What i's replica takes for the leader, at each of the places that read it anew.
LeaderOf(i) == leader[calls[i].node]

Goes(i, pc) == calls' = [calls EXCEPT ![i].pc = pc]

\* A call from i's replica to m fails although m runs.
CallFails(i, m, mode) ==
  /\ mode \in FaultModes /\ <<calls[i].node, m>> \in Lossy
  /\ faults < MaxFaults
  /\ faults' = faults + 1
  /\ UNCHANGED <<log, kv, leader, up, att, running, votes, ver>>

NoLeader(i) ==
  /\ calls[i].pc = "arrived" /\ LeaderOf(i) = Nothing
  /\ Goes(i, "aborted")
  /\ UNCHANGED vars

\* What Cluster::leader says now decides what the handler does next, whoever leads then.
Lead(i) ==
  /\ calls[i].pc = "arrived" /\ LeaderOf(i) = calls[i].node
  /\ Goes(i, "leading")
  /\ UNCHANGED vars

\* Get_KV.
ReadLocal(i) ==
  LET c == calls[i] IN
  /\ c.pc = "leading" /\ c.op = "get"
  /\ calls' = [calls EXCEPT ![i].pc = "ok", ![i].seen = ver[c.node][c.key]]
  /\ UNCHANGED vars

\* AttemptConsensus, and its status.
Decide(i) ==
  LET c == calls[i] IN
  /\ c.pc = "leading" /\ c.op = "set"
  /\ Begin(c.node, c.key, c.value, "set")
  /\ calls' = [calls EXCEPT ![i].pc = "deciding", ![i].on = Len(att) + 1]

\* Mutant of DecideAnswered: an attempt that has not ended counts as one that failed.
DecideUnawaited(i) ==
  LET end == att[calls[i].on].pc IN
  /\ calls[i].pc = "deciding"
  /\ \/ end = "ok" /\ Goes(i, "ok")
     \/ end # "ok" /\ Goes(i, "aborted")
  /\ UNCHANGED vars

DecideAnswered(i) ==
  LET end == att[calls[i].on].pc IN
  /\ calls[i].pc = "deciding"
  /\ \/ end = "ok" /\ Goes(i, "ok")
     \/ end = "fail" /\ Goes(i, "aborted")
  /\ UNCHANGED vars

Redirect(i) ==
  /\ calls[i].pc = "arrived"
  /\ LeaderOf(i) \notin {Nothing, calls[i].node}
  /\ Goes(i, "forwarding")
  /\ UNCHANGED vars

\* The request goes to memberList->at(Cluster::leader), read again: it need no longer
\* be the one that was found not to be this replica.
Forward(i) ==
  LET c == calls[i] IN
  /\ c.pc = "forwarding" /\ LeaderOf(i) \in Node /\ up[LeaderOf(i)]
  /\ Len(calls) < MaxCalls
  /\ calls' = Append([calls EXCEPT ![i].pc = "calling", ![i].on = Len(calls) + 1],
                     NewCall(c.op, LeaderOf(i), c.key, c.value, FALSE))
  /\ UNCHANGED vars

\* The forwarded request failed: an election, or the end if there was one already.
Fails(i) == Goes(i, IF calls[i].again THEN "aborted" ELSE "stranded")

\* The leader is down, or the request does not arrive in time.  The bound on calls stands
\* for the deadline of a request that is forwarded on and on.
ForwardUnanswered(i) ==
  /\ calls[i].pc = "forwarding" /\ LeaderOf(i) \in Node
  /\ \/ (~ up[LeaderOf(i)] \/ Len(calls) = MaxCalls) /\ UNCHANGED vars
     \/ up[LeaderOf(i)] /\ CallFails(i, LeaderOf(i), "lost")
  /\ Fails(i)

\* A client has made "leader" something that is not a member: memberList->at throws, and
\* the server answers in the handler's place.
ForwardThrows(i) ==
  /\ calls[i].pc = "forwarding" /\ LeaderOf(i) \notin Node
  /\ Goes(i, "aborted")
  /\ UNCHANGED vars

\* Mutant of ForwardAnswered: the status of the answer is not looked at.
ForwardAnsweredAnyhow(i) ==
  LET d == calls[calls[i].on] IN
  /\ calls[i].pc = "calling"
  /\ d.pc \in Over /\ calls' = [calls EXCEPT ![i].pc = "ok", ![i].seen = d.seen]
  /\ UNCHANGED vars

\* Mutant of ForwardAnswered: a handler that died is waited for.
ForwardAwaited(i) ==
  LET d == calls[calls[i].on] IN
  /\ calls[i].pc = "calling"
  /\ \/ d.pc = "ok" /\ calls' = [calls EXCEPT ![i].pc = "ok", ![i].seen = d.seen]
     \/ d.pc = "aborted" /\ Fails(i)
  /\ UNCHANGED vars

\* Mutant of ForwardAnswered: a handler that is slow is taken for one that failed.
ForwardImpatient(i) ==
  LET d == calls[calls[i].on] IN
  /\ calls[i].pc = "calling"
  /\ \/ d.pc = "ok" /\ calls' = [calls EXCEPT ![i].pc = "ok", ![i].seen = d.seen]
     \/ d.pc # "ok" /\ Fails(i)
  /\ UNCHANGED vars

ForwardAnswered(i) ==
  LET d == calls[calls[i].on] IN
  /\ calls[i].pc = "calling"
  /\ \/ d.pc = "ok" /\ calls' = [calls EXCEPT ![i].pc = "ok", ![i].seen = d.seen]
     \/ d.pc \in {"aborted", "gone"} /\ Fails(i)
  /\ UNCHANGED vars

\* The deadline passes, or the answer is lost; the handler that was called goes on.
ForwardTimedOut(i) ==
  /\ calls[i].pc = "calling"
  /\ up[calls[calls[i].on].node]
  /\ CallFails(i, calls[calls[i].on].node, "late")
  /\ Fails(i)

\* trigger_election, a call of the replica to itself, reaches elect_leader.
ElectSelf(i) ==
  /\ calls[i].pc = "stranded"
  /\ Elect(calls[i].node)
  /\ calls' = [calls EXCEPT ![i].pc = "electing", ![i].on = Len(att) + 1]

ElectionLost(i) ==
  /\ calls[i].pc = "stranded"
  /\ CallFails(i, calls[i].node, "lost")
  /\ Goes(i, "aborted")

ElectionAnswered(i) ==
  LET end == att[calls[i].on].pc IN
  /\ calls[i].pc = "electing"
  /\ \/ end = "ok" /\ calls' = [calls EXCEPT ![i].pc = "forwarding", ![i].again = TRUE]
     \/ end = "fail" /\ Goes(i, "aborted")
  /\ UNCHANGED vars

\* The attempt goes on.
ElectionTimedOut(i) ==
  /\ calls[i].pc = "electing" /\ Active(calls[i].on)
  /\ CallFails(i, calls[i].node, "late")
  /\ Goes(i, "aborted")

-----------------------------------------------------------------------------
\* Mutant of Stop: the handlers of get and set outlive their process.
StopLeavingCalls(n) == Crash(n) /\ UNCHANGED calls

Stop(n) ==
  /\ Crash(n)
  /\ calls' = [i \in DOMAIN calls |->
                 IF calls[i].node = n /\ calls[i].pc \notin Over
                   THEN [calls[i] EXCEPT !.pc = "gone"] ELSE calls[i]]

Serve(i) ==
  \/ NoLeader(i) \/ Lead(i) \/ ReadLocal(i) \/ Decide(i) \/ DecideAnswered(i) \/ Redirect(i)
  \/ Forward(i) \/ ForwardUnanswered(i) \/ ForwardThrows(i) \/ ForwardAnswered(i)
  \/ ForwardTimedOut(i)
  \/ ElectSelf(i) \/ ElectionLost(i) \/ ElectionAnswered(i) \/ ElectionTimedOut(i)

\* A replica that starts elects itself, once (Startup).
Coordinates(n) ==
  /\ \A a \in DOMAIN att : att[a].by = "elect_leader" => att[a].node # n
  /\ Elect(n)
  /\ UNCHANGED calls

Protocol ==
  \/ \E a \in DOMAIN att : Ping(a) \/ Return(a)
  \/ \E a \in DOMAIN att, n \in Node : ProposerStep(a, n) \/ HandlerStep(a, n)

ForwardNext ==
  \/ \E n \in Contact, k \in ClientKey, v \in Value \ {Written} : "set" \in Ops /\ Request(n, "set", k, v)
  \/ \E n \in Contact, k \in DataKey : "get" \in Ops /\ Request(n, "get", k, Nothing)
  \/ \E i \in DOMAIN calls : Serve(i)
  \/ \E n \in Electors : Coordinates(n)
  \/ Protocol /\ UNCHANGED calls
  \/ \E n \in Crashable : Stop(n)
  \/ Idle /\ UNCHANGED calls

ForwardSpec == ForwardInit /\ [][ForwardNext]_forwardVars

\* Every call a handler makes has a deadline (rpc.cc:319, 344, 411, 436), so it always
\* takes its next step.
FairForwardSpec ==
  /\ ForwardSpec
  /\ CallsEnd
  /\ \A i \in 1 .. MaxCalls : WF_forwardVars(i \in DOMAIN calls /\ Serve(i))

-----------------------------------------------------------------------------
(* Properties.                                                             *)

\* Every variable keeps its type; a handler runs only while its replica does, and waits
\* for an attempt of its own replica, or for a call it made of the same request.
ForwardTypeOK ==
  /\ TypeOK
  /\ calls \in Seq(Call)
  /\ Len(calls) <= MaxCalls
  /\ \A i \in DOMAIN calls :
       LET c == calls[i] IN
       /\ c.pc \notin Over => up[c.node]
       /\ c.pc = "deciding" => att[c.on].node = c.node /\ att[c.on].key = c.key
       /\ c.pc = "electing" => att[c.on].node = c.node /\ att[c.on].key = LeaderKey
       /\ c.pc = "calling" => c.on > i /\ calls[c.on].op = c.op /\ calls[c.on].value = c.value

\* A set that any replica answers with OK (rpc.cc:445), be it at the second try and after
\* an election, was decided: an attempt to write its very value, begun after it
\* arrived, came to its end, and a quorum accepted what it chose.
OkIsDecided ==
  \A i \in DOMAIN calls :
    LET c == calls[i] IN
    c.op = "set" /\ c.pc = "ok" =>
      \E a \in c.since + 1 .. Len(att) :
        /\ att[a].key = c.key /\ att[a].value = c.value /\ att[a].pc = "ok"
        /\ Decided(c.key, att[a].round, Chosen(att[a]))

\* A forwarded request that is in progress has a caller that waits for it.
Attended ==
  \A j \in DOMAIN calls : calls[j].pc \notin Over /\ ~ calls[j].client =>
    \E i \in DOMAIN calls : calls[i].pc = "calling" /\ calls[i].on = j

\* Nobody gives a request up while the replica it was forwarded to is at work on it
\* (rpc.cc:319-344, 411-445), as long as no call fails and only a leader that does not
\* forward dies.
CallersWait == faults = 0 => Attended

\* While that is so, a client that waits for its answer before it goes on never has two
\* writes of a key under way, though a set is sent again after an election (rpc.cc:421-438)
\* and other calls have failed before.
WritesApart ==
  Attended =>
    \A a, b \in DOMAIN att :
      Active(a) /\ Active(b) /\ att[a].key = att[b].key /\ att[a].key \in DataKey => a = b

\* As long as no call between running replicas fails, clients write one after the other
\* and no leader dies while it writes the key, a get that any replica answers sees what
\* was acknowledged before it arrived: though the leader is dead and the replica that was
\* asked has itself elected and answers from its own store (rpc.cc:334-344).
ReadsSeeAcknowledged ==
  \A i \in DOMAIN calls :
    LET c == calls[i] IN
    /\ c.op = "get" /\ c.pc = "ok" /\ faults = 0
    /\ \A a \in DOMAIN att : att[a].key = c.key => att[a].pc # "dead"
    => c.seen >= c.due

\* What the commands that write at random replicas and then print every store are there to
\* show (entrypoint.cc:220-269): when the client is done and nothing is under way, the
\* replicas that run hold the same values, under the same conditions.
StoresAgree ==
  (\A i \in DOMAIN calls : calls[i].pc \in Over) /\ running = {} =>
    \A k \in DataKey :
      faults = 0 /\ (\A a \in DOMAIN att : ~ Active(a) /\ (att[a].key = k => att[a].pc # "dead"))
        => \A n, m \in Node : up[n] /\ up[m] => kv[n][k] = kv[m][k]

\* A request ends (rpc.cc:326, 419 hold a thread while they wait): neither a leader that
\* dies, nor replicas that take each other for the leader, keep it for ever.
RequestsEnd ==
  \A i \in 1 .. MaxCalls : i \in DOMAIN calls ~> i \in DOMAIN calls /\ calls[i].pc \in Over

-----------------------------------------------------------------------------
(* What the repository says of requests and the code does not do.          *)

\* "exactly once semantics, no duplicate exec." (documentation/paxos-consensus.md:29):
\* a value is not decided in more rounds than clients asked for it to be set.
ExecutedOnce ==
  \A k \in DataKey, v \in Value \ {Written} :
    Cardinality({r \in Round : Decided(k, r, v)})
      <= Cardinality({i \in Requests : calls[i].op = "set" /\ calls[i].key = k
                                         /\ calls[i].value = v})
===========================================================================
