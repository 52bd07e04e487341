------------------------------ MODULE Startup ------------------------------
(***************************************************************************)
(* Consensus::coordinate, composed with the protocol: a replica that       *)
(* crashed starts again with an empty memory, asks every member for the    *)
(* leader, elects itself if it finds none, and copies the leader's store.  *)
(* Its services answer from the start, while it does all this.             *)
(***************************************************************************)
EXTENDS Consensus

CONSTANT MaxStarts   \* bound: processes started in a behaviour

ASSUME StartsAssumption == MaxStarts \in Nat

VARIABLES
  boot,    \* boot[n]: the locals of coordinate on replica n
  owed,    \* history: owed[n][k] is the latest round acknowledged before n started
  starts   \* processes started so far, bounded by MaxStarts

startVars == <<vars, boot, owed, starts>>

\* todo are the replicas whose answer is needed; live and leaders are live_replicas and
\* leaders; election is the call of AttemptConsensus that trigger_election waits for; copy
\* is leader_db, and copied the rounds its values are from (history).
Boot ==
  [pc : {"off", "leading", "polling", "electing", "recovering", "fetching", "hanging",
         "copying", "done"},
   todo : SUBSET Node, live : SUBSET Node, leaders : SUBSET Payload,
   election : 0 .. MaxAttempts,
   copy : [DataKey -> Payload \cup {Nothing}], copied : [DataKey -> Round \cup {-1}]]

At(pc, todo) ==
  [pc |-> pc, todo |-> todo, live |-> {}, leaders |-> {}, election |-> 0,
   copy |-> [k \in DataKey |-> Nothing], copied |-> [k \in DataKey |-> -1]]

Finished == At("done", {})

\* The replicas run; those that are not flagged have found no leader yet.
StartInit ==
  /\ Init
  /\ boot = [n \in Node |-> Finished]
  /\ owed = [n \in Node |-> [k \in DataKey |-> -1]]
  /\ starts = 0

\* main: nothing is left of an earlier process.  memberList is read in its order.
Start(n) ==
  /\ ~ up[n]
  /\ starts < MaxStarts
  /\ starts' = starts + 1
  /\ up' = [up EXCEPT ![n] = TRUE]
  /\ log' = [log EXCEPT ![n] = [k \in Key |-> EmptyLog]]
  /\ kv' = [kv EXCEPT ![n] = [k \in DataKey |-> Nothing]]
  /\ leader' = [leader EXCEPT ![n] = Nothing]
  /\ ver' = [ver EXCEPT ![n] = [k \in Key |-> -1]]
  /\ boot' = [boot EXCEPT ![n] = IF n \in Flagged THEN At("leading", {}) ELSE At("polling", Node)]
  /\ owed' = [owed EXCEPT ![n] = [k \in DataKey |-> Latest(Acknowledged(k))]]
  /\ UNCHANGED <<att, running, faults, votes>>

Stop(n) ==
  /\ Crash(n)
  /\ boot' = [boot EXCEPT ![n] = At("off", {})]
  /\ UNCHANGED <<owed, starts>>

\* --flag.leader: the replica is the leader, whatever the others think.
Lead(n) ==
  /\ boot[n].pc = "leading"
  /\ leader' = [leader EXCEPT ![n] = n]
  /\ ver' = [ver EXCEPT ![n][LeaderKey] = -1]
  /\ boot' = [boot EXCEPT ![n] = Finished]
  /\ UNCHANGED <<log, kv, up, att, running, faults, votes, owed, starts>>

Asks(n, m) == boot[n].pc = "polling" /\ IsNext(boot[n], m)

\* A call from n to m fails although m runs.
CallFails(n, m) ==
  /\ FaultModes # {} /\ <<n, m>> \in Lossy
  /\ faults < MaxFaults
  /\ faults' = faults + 1

LeaderAnswered(n, m) ==
  /\ Asks(n, m) /\ up[m]
  /\ boot' = [boot EXCEPT ![n].todo = @ \ {m},
                          ![n].live = @ \cup {m},
                          ![n].leaders = @ \cup ({leader[m]} \ {Nothing})]
  /\ UNCHANGED <<vars, owed, starts>>

LeaderUnanswered(n, m) ==
  /\ Asks(n, m)
  /\ \/ ~ up[m] /\ UNCHANGED faults
     \/ up[m] /\ CallFails(n, m)
  /\ boot' = [boot EXCEPT ![n].todo = @ \ {m}]
  /\ UNCHANGED <<log, kv, leader, up, att, running, votes, ver, owed, starts>>

\* Mutant of FoundLeader: every member has to answer.
FoundByAll(b) == b.live = Node /\ \E l \in b.live : b.leaders = {l}

\* Everybody who answers and knows a leader names the same one, and it answers itself.
FoundLeader(b) == \E l \in b.live : b.leaders = {l}

TakeLeader(n) ==
  /\ boot[n].pc = "polling" /\ boot[n].todo = {}
  /\ FoundLeader(boot[n])
  /\ leader' = [leader EXCEPT ![n] = CHOOSE l \in boot[n].leaders : TRUE]
  /\ ver' = [ver EXCEPT ![n][LeaderKey] = -1]
  /\ boot' = [boot EXCEPT ![n] = At("recovering", {})]
  /\ UNCHANGED <<log, kv, up, att, running, faults, votes, owed, starts>>

\* trigger_election; --flag.election cannot be switched off, it is on by default.
ElectSelf(n) ==
  /\ boot[n].pc = "polling" /\ boot[n].todo = {}
  /\ ~ FoundLeader(boot[n])
  /\ Elect(n)
  /\ boot' = [boot EXCEPT ![n] = [At("electing", {}) EXCEPT !.election = Len(att) + 1]]
  /\ UNCHANGED <<owed, starts>>

\* The call does not reach elect_leader, or is cancelled before it.
ElectionLost(n) ==
  /\ boot[n].pc = "polling" /\ boot[n].todo = {}
  /\ ~ FoundLeader(boot[n])
  /\ CallFails(n, n)
  /\ boot' = [boot EXCEPT ![n] = Finished]
  /\ UNCHANGED <<log, kv, leader, up, att, running, votes, ver, owed, starts>>

\* elect_leader answers, or its deadline passes while the attempt goes on.
ElectionOver(n) ==
  /\ boot[n].pc = "electing"
  /\ LET e == boot[n].election IN
     \/ /\ att[e].pc = "ok"
        /\ boot' = [boot EXCEPT ![n] = At("recovering", {})]
        /\ UNCHANGED faults
     \/ /\ att[e].pc = "fail"
        /\ boot' = [boot EXCEPT ![n] = Finished]
        /\ UNCHANGED faults
     \/ /\ Active(e) /\ CallFails(n, n)
        /\ boot' = [boot EXCEPT ![n] = Finished]
  /\ UNCHANGED <<log, kv, leader, up, att, running, votes, ver, owed, starts>>

\* The keys of leader_db that are still to be stored.
Uncopied(b) == {k \in DataKey : b.copy[k] # Nothing}

\* Mutant of Copying: the loop over leader_db is left before its first key.
CopyingNothing(b) == IF b.pc = "copying" THEN Finished ELSE b

Copying(b) == IF Uncopied(b) = {} THEN Finished ELSE b

\* get_db is called on the leader, unless there is none or this replica leads itself.
AskStore(n) ==
  /\ boot[n].pc = "recovering" /\ leader[n] \in Node \cup {Nothing}
  /\ boot' = [boot EXCEPT ![n] = IF leader[n] \in {n, Nothing} THEN Finished
                                                            ELSE At("fetching", {leader[n]})]
  /\ UNCHANGED <<vars, owed, starts>>

\* memberList->at(leader) throws, in the main thread: the process ends.
AskNobody(n) ==
  /\ boot[n].pc = "recovering" /\ leader[n] \notin Node \cup {Nothing}
  /\ Stop(n)

StoreAnswered(n, m) ==
  /\ boot[n].pc = "fetching" /\ m \in boot[n].todo /\ up[m]
  /\ boot' = [boot EXCEPT ![n] =
       Copying([At("copying", {}) EXCEPT !.copy = kv[m],
                                         !.copied = [k \in DataKey |-> ver[m][k]]])]
  /\ UNCHANGED <<vars, owed, starts>>

\* Mutant of StoreFailed: a leader that dies is waited for.
StoreAwaited(n, m) ==
  /\ boot[n].pc = "fetching" /\ m \in boot[n].todo
  /\ up[m] /\ CallFails(n, m)
  /\ boot' = [boot EXCEPT ![n] = Finished]
  /\ UNCHANGED <<log, kv, leader, up, att, running, votes, ver, owed, starts>>

\* The leader is down or dies, or the connection to it breaks.  The status is not looked
\* at: what is copied is the empty map.
StoreFailed(n, m) ==
  /\ boot[n].pc \in {"fetching", "hanging"} /\ m \in boot[n].todo
  /\ \/ ~ up[m] /\ UNCHANGED faults
     \/ up[m] /\ CallFails(n, m)
  /\ boot' = [boot EXCEPT ![n] = Finished]
  /\ UNCHANGED <<log, kv, leader, up, att, running, votes, ver, owed, starts>>

\* The request or its answer gets lost.  There is no deadline: nobody gives the call up.
StoreLost(n, m) ==
  /\ boot[n].pc = "fetching" /\ m \in boot[n].todo
  /\ up[m] /\ CallFails(n, m)
  /\ boot' = [boot EXCEPT ![n].pc = "hanging"]
  /\ UNCHANGED <<log, kv, leader, up, att, running, votes, ver, owed, starts>>

\* Set_KV of one key of leader_db, a protobuf map, whose order is not defined.
CopyKey(n, k) ==
  /\ boot[n].pc = "copying" /\ k \in Uncopied(boot[n])
  /\ kv' = [kv EXCEPT ![n][k] = boot[n].copy[k]]
  /\ ver' = [ver EXCEPT ![n][k] = boot[n].copied[k]]
  /\ boot' = [boot EXCEPT ![n] = Copying([@ EXCEPT !.copy[k] = Nothing, !.copied[k] = -1])]
  /\ UNCHANGED <<log, leader, up, att, running, faults, votes, owed, starts>>

Coordinate(n) ==
  \/ Lead(n) \/ TakeLeader(n) \/ AskStore(n) \/ AskNobody(n)
  \/ ElectSelf(n) \/ ElectionLost(n) \/ ElectionOver(n)
  \/ \E m \in Node : LeaderAnswered(n, m) \/ LeaderUnanswered(n, m)
  \/ \E m \in Node : StoreAnswered(n, m) \/ StoreFailed(n, m) \/ StoreLost(n, m)
  \/ \E k \in DataKey : CopyKey(n, k)

StartNext ==
  \/ Next /\ UNCHANGED <<up, boot, owed, starts>>
  \/ \E n \in Crashable : Stop(n)
  \/ \E n \in Node : Start(n) \/ Coordinate(n)

StartSpec == StartInit /\ [][StartNext]_startVars

\* Every call coordinate makes has a deadline, but for get_db: that one ends when it is
\* answered, or when the leader dies; while it hangs, coordinate need not take a step.
FairStartSpec ==
  /\ StartSpec
  /\ CallsEnd
  /\ \A n \in Node : WF_startVars(Coordinate(n))

-----------------------------------------------------------------------------
(* Properties.                                                             *)

\* Every variable keeps its type, and coordinate has locals exactly while the process
\* runs (main starts it, app.cc:56, and a crash ends it).
StartTypeOK ==
  /\ TypeOK
  /\ boot \in [Node -> Boot]
  /\ owed \in [Node -> [DataKey -> Round \cup {-1}]]
  /\ starts \in 0 .. MaxStarts
  /\ \A n \in Node : boot[n].pc = "off" <=> ~ up[n]

\* As long as no call between running replicas fails and the leader does not die, a
\* replica that has recovered (app.cc:136-151) has what was acknowledged before it
\* started, whatever is written, and whichever others come and go, while it asks and
\* copies.
RecoversAcknowledged ==
  \A n \in Node, k \in DataKey :
    boot[n].pc = "done" /\ faults = 0 => ver[n][k] >= owed[n][k]

\* get_db was lost on its way, and the replica it was to reach still runs.
Hangs(n) == boot[n].pc = "hanging" /\ \A m \in boot[n].todo : up[m]

\* coordinate (app.cc:75) returns, or its process ends: neither members that are down, nor
\* calls that fail, nor a leader that dies while its store is asked for or copied, nor two
\* replicas that elect themselves keep it waiting.  One thing does: get_db has no deadline
\* (rpc.cc:478-483), and if its request or answer is lost and the leader lives, nothing
\* ends it.
CoordinateEnds == \A n \in Node : []<>(boot[n].pc \in {"done", "off"} \/ Hangs(n))
=============================================================================
