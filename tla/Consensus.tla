----------------------------- MODULE Consensus -----------------------------
(***************************************************************************)
(* The replication protocol of src/app.cc and src/rpc.cc: the              *)
(* proposer Consensus::AttemptConsensus, run by DatabaseRPC::set on the    *)
(* leader and by ConsensusRPC::elect_leader on a candidate, and the        *)
(* handlers propose, accept and success it calls on every replica.         *)
(*                                                                         *)
(* The proposer calls the replicas one after the other, in the order of    *)
(* memberList.  A call that fails tells the proposer nothing about whether *)
(* its handler ran: it may not have run, it may have run, or it may still  *)
(* run after the proposer has gone on.                                     *)
(***************************************************************************)
EXTENDS QuorumRule, AcceptorLog, Sequences

CONSTANTS
  NumReplicas,   \* memberList->size(), this replica included
  DataKey,       \* keys of the store
  LeaderKey,     \* the key "leader", which success keeps out of the store
  ClientKey,     \* keys clients write: set takes any, "leader" included
  Value,         \* what clients write
  Flagged,       \* replicas started with --flag.leader
  Electors,      \* replicas on which an election can be triggered
  MaxAttempts,   \* bound: attempts begun in a behaviour
  MaxSets,       \* bound: those of them that Set begins
  MaxRunning,    \* bound: attempts in progress for one key
  MaxFaults,     \* bound: calls that fail while both ends are up
  FaultModes,    \* how they can fail: "lost", "noreply", "late"
  Lossy,         \* the pairs <<caller, callee>> whose calls can fail so
  Crashable      \* replicas that can stop

\* Addresses in the order of memberList, a std::map.
Node == 1 .. NumReplicas
Key == DataKey \cup {LeaderKey}
Payload == Value \cup Node
Attempt == 1 .. MaxAttempts
Round == 0 .. MaxAttempts - 1

ASSUME ConstantsAssumption ==
  /\ NumReplicas \in Nat \ {0}
  /\ MaxAttempts \in Nat \ {0}
  /\ MaxSets \in Nat
  /\ MaxRunning \in Nat
  /\ MaxFaults \in Nat
  /\ Flagged \subseteq Node
  /\ Electors \subseteq Node
  /\ Crashable \subseteq Node
  /\ LeaderKey \notin DataKey
  /\ ClientKey \subseteq Key
  /\ Nothing \notin Payload
  /\ Absent \notin Entry(Payload \cup {Nothing})

VARIABLES
  log,      \* log[n][k]: pax_log of replica n for key k
  kv,       \* kv[n][k]: Database::kv_store of replica n
  leader,   \* leader[n]: Cluster::leader of replica n
  up,       \* up[n]: the process of replica n runs
  att,      \* the calls of AttemptConsensus so far, in the order they began
  running,  \* invocations of handlers that no proposer step completes
  faults,   \* failed calls so far, bounded by MaxFaults
  votes,    \* history: the accept handlers that ran, <<node, key, round, value>>
  ver       \* history: ver[n][k] is the round whose value kv[n][k] or leader[n] is

vars == <<log, kv, leader, up, att, running, faults, votes, ver>>

\* What the body of AttemptConsensus is at, and how it can have ended: "fail" is
\* "Not enough live servers for quorum", "dead" a proposer that crashed.
Stage == {"ping", "propose", "accept", "success", "storing", "return"}
Ended == {"ok", "fail", "dead"}

\* The local variables of one AttemptConsensus, and the handler that called it.
Task == [pc : Stage \cup Ended, by : {"set", "elect_leader"},
         node : Node, key : Key, value : Payload, round : Round,
         live : SUBSET Node, todo : SUBSET Node, promised : Nat,
         accepted_id : {0, ProposeId}, accepted_value : Payload \cup {Nothing},
         acked : SUBSET Node]

EmptyLog == [r \in Round |-> Absent]

Init ==
  /\ log = [n \in Node |-> [k \in Key |-> EmptyLog]]
  /\ kv = [n \in Node |-> [k \in DataKey |-> Nothing]]
  /\ leader = [n \in Node |-> IF n \in Flagged THEN n ELSE Nothing]
  /\ up = [n \in Node |-> TRUE]
  /\ att = << >>
  /\ running = {}
  /\ faults = 0
  /\ votes = {}
  /\ ver = [n \in Node |-> [k \in Key |-> -1]]

-----------------------------------------------------------------------------
(* The proposer: how its locals change between its calls.                  *)

Active(a) == att[a].pc \in Stage

\* Mutant of Chosen: the test accepted_id > 0 is missing.
ChosenUntested(t) == t.accepted_value

\* The value of accept_request: a value the proposals brought back, else our own.
Chosen(t) == IF t.accepted_id > 0 THEN t.accepted_value ELSE t.value

\* The loops over live_nodes and memberList visit the nodes in their order.
IsNext(t, n) == n \in t.todo /\ \A m \in t.todo : n <= m

\* Mutant of Advance: the head count after the accept requests is the one of the
\* proposals.
AdvanceOnPromises(t) ==
  IF t.todo # {}
    THEN t
    ELSE IF t.pc = "success"
      THEN [t EXCEPT !.pc = "return"]
      ELSE IF ~ Enough(t.promised, NumReplicas)
        THEN [t EXCEPT !.pc = "fail", !.live = {}]
        ELSE IF t.pc = "propose" THEN [t EXCEPT !.pc = "accept", !.todo = t.live]
                                 ELSE [t EXCEPT !.pc = "success", !.todo = Node, !.live = {}]

\* Mutant of Advance: the proposer tells only itself of the success.
AdvanceTellingSelf(t) ==
  CASE t.todo # {} -> t
    [] t.todo = {} /\ t.pc = "propose" ->
         IF Enough(t.promised, NumReplicas)
           THEN [t EXCEPT !.pc = "accept", !.todo = t.live]
           ELSE [t EXCEPT !.pc = "fail", !.live = {}]
    [] t.todo = {} /\ t.pc = "accept" ->
         IF Enough(Cardinality(t.acked), NumReplicas)
           THEN [t EXCEPT !.pc = "success", !.todo = {t.node}, !.live = {}]
           ELSE [t EXCEPT !.pc = "fail", !.live = {}]
    [] OTHER -> [t EXCEPT !.pc = "return"]

\* After a loop's last call: the quorum test and the next phase.
Advance(t) ==
  CASE t.todo # {} -> t
    [] t.todo = {} /\ t.pc = "propose" ->
         IF Enough(t.promised, NumReplicas)
           THEN [t EXCEPT !.pc = "accept", !.todo = t.live]
           ELSE [t EXCEPT !.pc = "fail", !.live = {}]
    [] t.todo = {} /\ t.pc = "accept" ->
         IF Enough(Cardinality(t.acked), NumReplicas)
           THEN [t EXCEPT !.pc = "success", !.todo = Node, !.live = {}]
           ELSE [t EXCEPT !.pc = "fail", !.live = {}]
    [] OTHER -> [t EXCEPT !.pc = "return"]

\* The call to n is over and counts for nothing.
Passed(t, n) == Advance([t EXCEPT !.todo = @ \ {n}])

\* propose answered OK with entry e of n's log.
Promised(t, n, e) ==
  Advance([t EXCEPT
    !.todo = @ \ {n},
    !.promised = @ + 1,
    !.accepted_value = IF e.a_server_id > t.accepted_id THEN e.accepted_value ELSE @,
    !.accepted_id = IF e.a_server_id > @ THEN e.a_server_id ELSE @])

\* accept answered OK.
Acked(t, n) == Advance([t EXCEPT !.todo = @ \ {n}, !.acked = @ \cup {n}])

\* The callee has begun to store the value; the proposer waits for its answer.
Waiting(t) == [t EXCEPT !.pc = "storing"]
Resumed(t, n) == Passed([t EXCEPT !.pc = "success"], n)

-----------------------------------------------------------------------------
(* The handlers of replica n for the calls of attempt a.                   *)

HandlePropose(a, n) ==
  log' = [log EXCEPT ![n][att[a].key] = Touch(@, att[a].round)]

HandleAccept(a, n) ==
  LET t == att[a] IN
  /\ log' = [log EXCEPT ![n][t.key] = Accept(@, t.round, Chosen(t))]
  /\ votes' = votes \cup {<<n, t.key, t.round, Chosen(t)>>}

\* success up to its test "Information is outdated."; the value is stored by a
\* step of its own, Store, since other handlers can run between the two.
LogSuccess(a, n) ==
  log' = [log EXCEPT ![n][att[a].key] = Accept(@, att[a].round, Chosen(att[a]))]
PassesTest(a, n) == ~ Outdated(log'[n][att[a].key], att[a].round)

\* Mutant of Assign: the test key == "leader" is missing.
AssignLeader(n, t) ==
  /\ leader' = [leader EXCEPT ![n] = Chosen(t)]
  /\ ver' = [ver EXCEPT ![n][t.key] = t.round]
  /\ UNCHANGED kv

\* Cluster::leader = value, or Set_KV(key, value)
Assign(n, t) ==
  /\ IF t.key = LeaderKey
       THEN leader' = [leader EXCEPT ![n] = Chosen(t)] /\ UNCHANGED kv
       ELSE kv' = [kv EXCEPT ![n][t.key] = Chosen(t)] /\ UNCHANGED leader
  /\ ver' = [ver EXCEPT ![n][t.key] = t.round]

-----------------------------------------------------------------------------
(* Requests.                                                               *)

Begin(n, k, v, by) ==
  /\ up[n]
  /\ Len(att) < MaxAttempts
  /\ Cardinality({a \in DOMAIN att : Active(a) /\ att[a].key = k}) < MaxRunning
  /\ att' = Append(att,
       [pc |-> "ping", by |-> by, node |-> n, key |-> k, value |-> v,
        round |-> NumKnown(log[n][k]), live |-> {}, todo |-> {}, promised |-> 0,
        accepted_id |-> 0, accepted_value |-> Nothing, acked |-> {}])
  /\ UNCHANGED <<log, kv, leader, up, running, faults, votes, ver>>

\* DatabaseRPC::set on a replica that takes itself for the leader.  It does not look at
\* the key: a client that sets "leader" has the cluster take its value for the leader.
Set(n, k, v) ==
  /\ leader[n] = n
  /\ Cardinality({a \in DOMAIN att : att[a].by = "set"}) < MaxSets
  /\ Begin(n, k, v, "set")

\* trigger_election and elect_leader: the candidate proposes its own address.
Elect(n) == Begin(n, LeaderKey, n, "elect_leader")

-----------------------------------------------------------------------------
(* The proposer's calls.                                                   *)

\* The loop of pings: who answers is live.  A replica that is up is missed only
\* when the call fails.
Ping(a) ==
  LET t == att[a] IN
  /\ t.pc = "ping" /\ up[t.node]
  /\ \E missed \in SUBSET {n \in Node : up[n] /\ <<t.node, n>> \in Lossy} :
       LET live == {n \in Node : up[n]} \ missed IN
       /\ faults + Cardinality(missed) <= MaxFaults
       /\ faults' = faults + Cardinality(missed)
       /\ att' = [att EXCEPT ![a] =
            IF Enough(Cardinality(live), NumReplicas)
              THEN [t EXCEPT !.pc = "propose", !.live = live, !.todo = live]
              ELSE [t EXCEPT !.pc = "fail"]]
  /\ UNCHANGED <<log, kv, leader, up, running, votes, ver>>

\* Attempt a, at phase pc, is about to call n.
Calls(a, n, pc) ==
  /\ att[a].pc = pc
  /\ up[att[a].node]
  /\ IsNext(att[a], n)

\* The call's handler runs and its answer arrives.
ProposeAnswered(a, n) ==
  /\ Calls(a, n, "propose") /\ up[n]
  /\ HandlePropose(a, n)
  /\ LET e == EntryAt(log[n][att[a].key], att[a].round) IN
     att' = [att EXCEPT ![a] = IF e.p_server_id > ProposeId THEN Passed(@, n)
                                                            ELSE Promised(@, n, e)]
  /\ UNCHANGED <<kv, leader, up, running, faults, votes, ver>>

AcceptAnswered(a, n) ==
  /\ Calls(a, n, "accept") /\ up[n]
  /\ HandleAccept(a, n)
  /\ att' = [att EXCEPT ![a] = Acked(@, n)]
  /\ UNCHANGED <<kv, leader, up, running, faults, ver>>

SuccessCalled(a, n) ==
  /\ Calls(a, n, "success") /\ up[n]
  /\ LogSuccess(a, n)
  /\ IF PassesTest(a, n)
       THEN /\ running' = running \cup {<<a, "store", n>>}
            /\ att' = [att EXCEPT ![a] = Waiting(@)]
       ELSE /\ att' = [att EXCEPT ![a] = Passed(@, n)]
            /\ UNCHANGED running
  /\ UNCHANGED <<kv, leader, up, faults, votes, ver>>

\* n does not run: the call fails at once.
Unreachable(a, n) ==
  /\ \E pc \in {"propose", "accept", "success"} : Calls(a, n, pc)
  /\ ~ up[n]
  /\ att' = [att EXCEPT ![a] = Passed(@, n)]
  /\ UNCHANGED <<log, kv, leader, up, running, faults, votes, ver>>

\* A call between two running replicas fails.
Fault(a, n, mode) ==
  /\ mode \in FaultModes
  /\ <<att[a].node, n>> \in Lossy
  /\ up[n]
  /\ faults < MaxFaults
  /\ faults' = faults + 1

\* The request is lost, or the handler finds it cancelled.
RequestLost(a, n) ==
  /\ \E pc \in {"propose", "accept", "success"} : Calls(a, n, pc)
  /\ Fault(a, n, "lost")
  /\ att' = [att EXCEPT ![a] = Passed(@, n)]
  /\ UNCHANGED <<log, kv, leader, up, running, votes, ver>>

\* The handler runs in time but its answer does not arrive.
ReplyLost(a, n) ==
  /\ Fault(a, n, "noreply")
  /\ \/ Calls(a, n, "propose") /\ HandlePropose(a, n) /\ UNCHANGED votes
     \/ Calls(a, n, "accept") /\ HandleAccept(a, n)
  /\ att' = [att EXCEPT ![a] = Passed(@, n)]
  /\ UNCHANGED <<kv, leader, up, running, ver>>

\* The deadline passes when the handler is past its test of IsCancelled: it will
\* run all the same.
TimedOut(a, n) ==
  /\ Fault(a, n, "late")
  /\ \E pc \in {"propose", "accept", "success"} :
       Calls(a, n, pc) /\ running' = running \cup {<<a, pc, n>>}
  /\ att' = [att EXCEPT ![a] = Passed(@, n)]
  /\ UNCHANGED <<log, kv, leader, up, votes, ver>>

\* Mutant of StoreTimedOut: the call does not notice that its callee is gone.
StoreTimedOutLate(a, n) ==
  /\ Calls(a, n, "storing")
  /\ Fault(a, n, "late")
  /\ att' = [att EXCEPT ![a] = Resumed(@, n)]
  /\ UNCHANGED <<log, kv, leader, up, running, votes, ver>>

\* The deadline passes between success's test and its store, or n crashed there and
\* took the handler with it.
StoreTimedOut(a, n) ==
  /\ Calls(a, n, "storing")
  /\ \/ <<a, "store", n>> \notin running /\ UNCHANGED faults
     \/ Fault(a, n, "late")
  /\ att' = [att EXCEPT ![a] = Resumed(@, n)]
  /\ UNCHANGED <<log, kv, leader, up, running, votes, ver>>

\* AttemptConsensus returns OK; elect_leader then assigns Cluster::leader itself.
Return(a) ==
  LET t == att[a] IN
  /\ t.pc = "return" /\ up[t.node]
  /\ att' = [att EXCEPT ![a].pc = "ok"]
  /\ IF t.by = "elect_leader" THEN Assign(t.node, t) ELSE UNCHANGED <<kv, leader, ver>>
  /\ UNCHANGED <<log, up, running, faults, votes>>

-----------------------------------------------------------------------------
(* Handlers that run on their own.                                         *)

\* The rest of a success handler.  A proposer that still waits gets its answer.
Store(a, n) ==
  /\ <<a, "store", n>> \in running
  /\ Assign(n, att[a])
  /\ running' = running \ {<<a, "store", n>>}
  /\ att' = [att EXCEPT ![a] = IF @.pc = "storing" /\ IsNext(@, n) THEN Resumed(@, n) ELSE @]
  /\ UNCHANGED <<log, up, faults, votes>>

\* A handler whose proposer has gone on.
LatePropose(a, n) ==
  /\ <<a, "propose", n>> \in running
  /\ HandlePropose(a, n)
  /\ running' = running \ {<<a, "propose", n>>}
  /\ UNCHANGED <<kv, leader, up, att, faults, votes, ver>>

LateAccept(a, n) ==
  /\ <<a, "accept", n>> \in running
  /\ HandleAccept(a, n)
  /\ running' = running \ {<<a, "accept", n>>}
  /\ UNCHANGED <<kv, leader, up, att, faults, ver>>

LateSuccess(a, n) ==
  /\ <<a, "success", n>> \in running
  /\ LogSuccess(a, n)
  /\ running' = (running \ {<<a, "success", n>>})
                  \cup (IF PassesTest(a, n) THEN {<<a, "store", n>>} ELSE {})
  /\ UNCHANGED <<kv, leader, up, att, faults, votes, ver>>

-----------------------------------------------------------------------------
\* The process stops: its proposers and handlers are gone.  Nobody reads
\* its memory any more, and a process that starts in its place begins with an empty one
\* (Startup), so it is left as it was.
Crash(n) ==
  /\ up[n]
  /\ up' = [up EXCEPT ![n] = FALSE]
  /\ att' = [a \in DOMAIN att |->
               IF Active(a) /\ att[a].node = n THEN [att[a] EXCEPT !.pc = "dead", !.live = {}]
                                               ELSE att[a]]
  /\ running' = {c \in running : c[3] # n}
  /\ UNCHANGED <<log, kv, leader, faults, votes, ver>>

\* The rounds of key k whose proposer has returned OK, and the latest of some rounds: what
\* the programs around the protocol owe their clients (history).
Acknowledged(k) == {att[a].round : a \in {b \in DOMAIN att : att[b].key = k /\ att[b].pc = "ok"}}

Latest(rounds) == CHOOSE r \in rounds \cup {-1} : \A s \in rounds : s <= r

\* Nothing is under way: the replicas wait for requests.
Idle ==
  /\ running = {} /\ \A a \in DOMAIN att : ~ Active(a)
  /\ UNCHANGED vars

ProposerStep(a, n) ==
  \/ ProposeAnswered(a, n) \/ AcceptAnswered(a, n) \/ SuccessCalled(a, n)
  \/ Unreachable(a, n) \/ RequestLost(a, n) \/ ReplyLost(a, n)
  \/ TimedOut(a, n) \/ StoreTimedOut(a, n)

HandlerStep(a, n) ==
  Store(a, n) \/ LatePropose(a, n) \/ LateAccept(a, n) \/ LateSuccess(a, n)

Next ==
  \/ \E n \in Node, k \in ClientKey, v \in Value : Set(n, k, v)
  \/ \E n \in Electors : Elect(n)
  \/ \E a \in DOMAIN att : Ping(a) \/ Return(a)
  \/ \E a \in DOMAIN att, n \in Node : ProposerStep(a, n) \/ HandlerStep(a, n)
  \/ \E n \in Crashable : Crash(n)
  \/ Idle

Spec == Init /\ [][Next]_vars

-----------------------------------------------------------------------------
(* Fairness: every call has a deadline, so a proposer that runs always takes *)
(* its next step; a handler past its test runs to its end.                  *)
CallsEnd ==
  \A a \in Attempt :
    /\ WF_vars(a \in DOMAIN att /\ (Ping(a) \/ Return(a) \/ \E n \in Node : ProposerStep(a, n)))
    /\ \A n \in Node : WF_vars(a \in DOMAIN att /\ HandlerStep(a, n))

-----------------------------------------------------------------------------
(* Properties.                                                             *)

TypeOK ==
  /\ log \in [Node -> [Key -> [Round -> Entry(Payload \cup {Nothing}) \cup {Absent}]]]
  /\ kv \in [Node -> [DataKey -> Payload \cup {Nothing}]]
  /\ leader \in [Node -> Payload \cup {Nothing}]
  /\ up \in [Node -> BOOLEAN]
  /\ att \in Seq(Task)
  /\ Len(att) <= MaxAttempts
  /\ running \subseteq (DOMAIN att) \X {"propose", "accept", "success", "store"} \X Node
  /\ faults \in 0 .. MaxFaults
  /\ votes \subseteq Node \X Key \X Round \X Payload
  /\ ver \in [Node -> [Key -> Round \cup {-1}]]

\* The rounds of key k some replica's log has.
Seen(k) == UNION {Known(log[n][k]) : n \in Node}

\* A proposer numbers its round by counting the rounds its own log has (app.cc:277),
\* a log that can miss some: even so no round is skipped.  Below a round that is
\* known or in use, every round is known to some replica.
NoRoundSkipped ==
  \A k \in Key :
    \A r \in Seen(k) \cup {att[a].round : a \in {b \in DOMAIN att : att[b].key = k}} :
      0 .. r - 1 \subseteq Seen(k)

Requested(k) == {att[a].value : a \in {b \in DOMAIN att : att[b].key = k}}

\* What a proposer adopts from other logs, what a late handler writes and what success
\* stores never crosses keys, nor is it made up: a log or store holds, for a key,
\* only what a request for that key asked for.
Validity ==
  \A n \in Node, k \in Key :
    /\ \A r \in Known(log[n][k]) :
         log[n][k][r].a_server_id > 0 => log[n][k][r].accepted_value \in Requested(k)
    /\ k \in DataKey /\ ver[n][k] # -1 => kv[n][k] \in Requested(k)

\* The replicas that asked to lead, and what clients asked the key "leader" to be.
Candidates == Flagged \cup {att[a].node : a \in {b \in DOMAIN att : att[b].by = "elect_leader"}}
ClientLeaders ==
  {att[a].value : a \in {b \in DOMAIN att : att[b].by = "set" /\ att[b].key = LeaderKey}}

\* Whatever proposers of "leader" adopt from each other (app.cc:329), a replica takes for
\* the leader only a member that asked to lead, or what a client asked "leader" to be: such a
\* write is the one way to a leader that is not a member, for which memberList->at, with
\* which get, set (rpc.cc:326, 419) and coordinate (app.cc:144) reach it, throws.
LeaderIsCandidate ==
  \A n \in Node : leader[n] \in Candidates \cup ClientLeaders \cup {Nothing}

Voters(k, r, v) == {n \in Node : <<n, k, r, v>> \in votes}
Decided(k, r, v) == Enough(Cardinality(Voters(k, r, v)), NumReplicas)

Held(n, k) == IF k = LeaderKey THEN leader[n] ELSE kv[n][k]

\* A replica stores a value, or takes a leader, only if a quorum ran accept for that
\* value in that round, whichever calls were lost, late or cut short by a crash.
StoredIsDecided ==
  \A n \in Node, k \in Key : ver[n][k] # -1 => Decided(k, ver[n][k], Held(n, k))

\* A round decides one value ("we have achieved consensus", declaration.h:428).
Agreement ==
  \A k \in Key, r \in Round, v, w \in Payload : Decided(k, r, v) /\ Decided(k, r, w) => v = w

\* An election of n returns OK: elect_leader then sets Cluster::leader (rpc.cc:235).
Elects(n) ==
  \E a \in DOMAIN att :
    att[a].node = n /\ att[a].by = "elect_leader" /\ att[a].pc = "return" /\ att'[a].pc = "ok"

\* "Information is outdated." (rpc.cc:152) keeps what a replica has stored, and the leader
\* it has, from going back to the value of an earlier round.  Only elect_leader, which
\* does not make that test, can take its own replica back to an earlier leader.
NeverGoesBack ==
  [][\A n \in Node, k \in Key : ver'[n][k] < ver[n][k] => k = LeaderKey /\ Elects(n)]_vars

\* A call of AttemptConsensus ends, whatever fails.
AttemptEnds ==
  \A a \in Attempt : a \in DOMAIN att ~> a \in DOMAIN att /\ att[a].pc \in Ended

-----------------------------------------------------------------------------
(* What the repository says of the protocol and the protocol does not do.  *)

\* "KV value is stored as a part of the inform() rpc" (rpc.cc:399), and it does not
\* matter if one fails, since then "a server is down" (app.cc:408): once
\* AttemptConsensus has returned OK, some replica has stored the value of that round
\* or of a later one.
StoredWhenOk ==
  \A a \in DOMAIN att :
    att[a].pc = "ok" => \E n \in Node : ver[n][att[a].key] >= att[a].round
===========================================================================
