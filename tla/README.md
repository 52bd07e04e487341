# A verification development of the Paxos-replicated database

This directory holds TLA+ modules that model the replication core of this repository
(`src/app.cc`, `src/rpc.cc`), TLC configurations that model-check them, and theorems
that TLAPS proves for every number of replicas. Line references are to the files of
the repository's `src/`.

    tlc -config two_writers.cfg ConsensusMC.tla      # a run
    tlapm ConsensusProofs.tla                        # the proofs of a module

## 1. The system

Every replica is one process with two gRPC services and no disk.

| Component | State | Operations | Talks to |
|---|---|---|---|
| Client service `DatabaseRPC` (rpc.cc:269-464) | none | `get`, `set`, `get_db` | the local store; `AttemptConsensus` if this replica is the leader, the leader's `DatabaseRPC` if not; `elect_leader` of itself when the leader does not answer |
| Proposer `Consensus::AttemptConsensus` (app.cc:263-422) | locals only | one call per write or election: pings, proposals, accept requests, success | every replica's `ConsensusRPC`, its own included, one call at a time |
| Acceptor and learner `ConsensusRPC` (rpc.cc:5-178) | none | `propose`, `accept`, `success`, `ping` | the log, the store, `Cluster::leader` |
| Log `Consensus::pax_log` (app.cc:169-209) | key -> round -> entry | `Set_Log` (three forms), `Get_Log` (three forms) | under `log_mutex` when written, unlocked when read |
| Store `Database::kv_store` (app.cc:435-480) | key -> value | `Get_KV`, `Set_KV`, `Delete_KV`, `Get_DB` | under `data_mutex` when written, unlocked when read |
| Membership `Cluster` (app.cc:16-66) | `memberList`, `leader`, `currentNode` | filled at start | read by all of the above |
| Elections `elect_leader`, `trigger_election` (rpc.cc:215-240, 720-742) | none | propose one's own address for the key `"leader"` | `AttemptConsensus` |
| Start-up `Consensus::coordinate` (app.cc:75-160) | locals | find or elect a leader, copy its store | `get_leader`, `get_db`, `trigger_election` |
| Statistics (declaration.h:296-342) | two maps of counters | `increment`, `print`, `get_stats` | every handler and wrapper, unlocked |
| Configuration, user mode, benchmark | - | parsing, a command-line client | - |

One Paxos instance is one *round* of one *key*; the leader is the value of the key
`"leader"`. A round is numbered by counting the rounds the proposer's own log has for
the key. Every proposal has the number 1, `p_server_id` is never written and `accept`
never refuses: what keeps the replicas together is the head count, the adoption of an
accepted value a proposal brings back, the numbering of rounds, and the test in
`success` for a later round.

What is hard here: several proposers (a leader and a candidate, two candidates, or two
clients of one leader) whose calls interleave; calls that fail without the proposer
knowing whether their handler ran, may still be running, or never will; handlers that
run on after their caller's deadline, because they look at `IsCancelled` once; the gap
between `success`'s test and its store; proposers that crash between two phases; logs
with holes; clusters of even size; start-up and recovery while others write; requests that
are forwarded, time out, and are sent a second time after an election; handler threads that
read maps others write; a client that writes the key `"leader"`. PROJECT.json lists each of
these at its line, with the properties that would catch it going wrong where there are any,
and a note where there are none. Three of those without are things that do go wrong, in the
models as in the code, and that no property here forbids: a store that goes back when two
handlers of `success` cross between test and store (rpc.cc:152), counts that are lost
(declaration.h:310), and a `success` overwritten by the older copy of a replica that
recovers (app.cc:149).

What makes each component correct:

- *Proposer and acceptors*: a value that is stored was accepted by a quorum in its
  round; values do not cross keys; no round is skipped; a proposer always comes to an end.
- *Learner*: a replica's store does not go back to an earlier round; nor does its leader,
  but for what a candidate assigns to itself.
- *Quorum rule*: any two quorums share a replica.
- *Client service*: what the clients of a leader see is an atomic register; a `set` that
  any replica answers with OK was decided; a `get` sees what was acknowledged before it;
  every request ends.
- *Log, store and statistics under their threads*: what an accept wrote is not taken away,
  counts never run ahead of the calls, no mutex is kept.
- *Elections*: the leader a replica takes is a member that asked to lead, or what a client
  wrote to the key `"leader"`.
- *Start-up*: a replica that has recovered has what was acknowledged before it started;
  a replica that starts does not disturb a leader that runs; start-up ends, but for a
  `get_db` that is lost.

## 2. The modules

| Module | Models | Uses |
|---|---|---|
| `QuorumRule` | the head count `num <= std::ceil(n / 2.0) - 1` and the form the comment gives it | |
| `AcceptorLog` | `pax_log` of one key: the forms of `Set_Log` and `Get_Log` that have callers | |
| `Consensus` | `AttemptConsensus`, the handlers, `Cluster::leader`, `kv_store`, failures | both above |
| `KVRegister` | the abstract specification: a register with pending, applied, acknowledged, refused writes | |
| `LeaderRegister` | the refinement of `KVRegister` by `Consensus` seen from one leader | `Consensus`, `KVRegister` |
| `Startup` | `coordinate`, `get_leader`, `get_db`, crashes and restarts | `Consensus` |
| `Forwarding` | `get` and `set` on any replica: forwarding, the election after a failed call, the second call, and a client that moves on | `Consensus` |
| `ReplicaThreads` | the handler threads of one replica on one key, access by access: `Set_Log`, `Get_Log`, `Set_KV`, `Get_KV`, `Statistics::increment`, `get_stats` | `AcceptorLog` |
| `StartupMC` | a constant of `Startup`, together with `LeaderRegister` | `ConsensusMC`, `Startup` |
| `ConsensusMC` | values of the constants for TLC | `LeaderRegister` |
| `ForwardingMC`, `ThreadsMC` | values of the constants of `Forwarding` and `ReplicaThreads` | `ConsensusMC`, `Forwarding`; `ReplicaThreads` |
| `ConsensusProofs` | the head count, types, rounds without gaps | `Consensus` |
| `DecisionProofs` | what is stored is decided; what no step undoes; values and leaders are what was asked for; the invariants of `Consensus` together, for the modules around it | `ConsensusProofs` |
| `StartupProofs` | the same of replicas that crash and start again | `Startup`, `DecisionProofs` |
| `OneProposerProofs` | what is stored does not go back, with one proposer at a time | `DecisionProofs` |
| `ForwardingProofs` | what the OK of a `set` means on any replica; how replicas stay in agreement, and what a `get` sees, when writes of a key do not overlap | `Forwarding`, `OneProposerProofs` |
| `OneClientProofs` | with one client, writes of a key do not overlap and forwarded requests are waited for; hence agreement of the stores and what a `get` sees | `ForwardingProofs` |
| `LoneLeaderProofs` | the refinement of `KVRegister` by an unchallenged leader; what a replica that starts again recovers from it | `LeaderRegister`, `OneProposerProofs`, `StartupProofs` |
| `ThreadsProofs` | types and mutexes, counts, what an accept wrote stays | `ReplicaThreads` |

### State and actions of `Consensus`

`log[n][k]` is `pax_log[k]` on replica `n`, a function over the rounds whose value is
`Absent` where the map has no entry. `kv` and `leader` are `kv_store` and
`Cluster::leader`. `att` holds one record per call of `AttemptConsensus`, its locals:
`pc` names the loop it is in, `todo` the replicas the loop has yet to call, `live` is
`live_nodes`, `promised` is `num_accepted_proposals`, `acked` stands for
`num_final_acceptances`. `running` holds invocations of handlers that no step of their
proposer completes. `votes` and `ver` are history: which accept handlers ran, and which
round the value of a store is from.

| Action | Code |
|---|---|
| `Set`, `Elect` | `DatabaseRPC::set` on the leader, `elect_leader` on a candidate: `AttemptConsensus` up to its pings |
| `Ping` | the loop of pings and the first head count; in one step, since a ping changes nothing |
| `ProposeAnswered`, `AcceptAnswered` | one call whose handler runs and whose answer arrives, and the head count after the last |
| `SuccessCalled`, `Store` | `success` up to its test, and its store: other handlers run between the two |
| `Return` | `AttemptConsensus` returns OK; a candidate then assigns `Cluster::leader` (rpc.cc:235) |
| `Unreachable` | a call to a replica that is down |
| `RequestLost`, `ReplyLost`, `TimedOut`, `StoreTimedOut` | a call that fails though its callee runs: the handler never runs or finds the call cancelled; ran in time; or will run after the deadline |
| `LatePropose`, `LateAccept`, `LateSuccess` | a handler that was past `IsCancelled` when its caller's deadline passed |
| `Crash` | a process stops, with its proposers and its handlers |

A handler's `Get_Log` and `Set_Log` are taken together in one step, and a `propose` or
`accept` that answers in time runs in the step of its call: its effect is on one replica
and nobody sees anything between the call and the answer but the caller, who is blocked.
Only `success` is split, because it reads the log and later writes something else.

Abstractions: keys, values and addresses are model values (addresses are numbers, in the
order of the map); operation codes are left out, no decision reads them; the client's
side of `set`, its own deadline included, is left out, since `AttemptConsensus` does not
look at it. No client writes the empty string, which the code does not tell from no value.

`ClientKey` are the keys clients write. `DatabaseRPC::set` does not look at the key
(rpc.cc:366-393), so `"leader"` can be one of them: `success` then assigns what the client
wrote to `Cluster::leader` on every replica it reaches (rpc.cc:156-157), and a leader need
not be a member. `memberList->at` throws for such a leader: in `get` and `set` the server
answers in the handler's place (`ForwardThrows`), in `coordinate` the exception is thrown
in the main thread and ends the process (`AskNobody`). The local `by` of an attempt says
whether `set` or `elect_leader` called it. No `get` of `"leader"` is modelled, since no store
has that key.

Replicas start up and running, a flagged one with itself for the leader, the others with
none: these are states of replicas that were started but have not found a leader (they
wait up to five seconds before they look, or were not answered). A crashed replica stays
down in `Consensus` and `Forwarding`; `Startup` starts it again.

The loop of pings is one step, though its calls are made one after the other. A replica
that answers and then goes down is a call that fails later; one that comes up just after it
was missed is, for the loop, still down, or a ping that failed, which the runs with failed
calls include. Left out, in the runs without, are loops in which one replica is missed just
before it comes up and a later one comes up before it is asked.

### State and actions of `Startup`

`Startup` extends `Consensus` with `boot[n]`, the locals of `coordinate` on replica `n`:
`todo` are the members it has yet to ask, `live` and `leaders` are `live_replicas` and
`leaders`, `election` is the attempt `trigger_election` waits for, `copy` what is left of
`leader_db`. `owed` is history: the latest round acknowledged when the process started.
The handlers of a replica answer while it runs `coordinate`, as they do in the code, where
`main` starts both services first.

| Action | Code |
|---|---|
| `Start` | `main` and `initializeStaticInstance`: empty log, empty store, no leader |
| `Lead` | `--flag.leader`: the replica leads at once |
| `LeaderAnswered`, `LeaderUnanswered` | `get_leader` of one member, in the order of `memberList`; not answered by one that is down, or when the call fails |
| `TakeLeader` | all answers that name a leader name the same one, which answered itself |
| `ElectSelf`, `ElectionLost`, `ElectionOver` | `trigger_election`: an attempt of the replica on itself, a call that does not reach it, its answer or its deadline, after which the attempt goes on |
| `AskStore`, `AskNobody` | `memberList->at(leader)` and the call of `get_db`, unless there is no leader or it is the replica itself; the exception when the leader is not a member, which ends the process |
| `StoreAnswered` | the leader's `get_db` runs and answers with its store |
| `StoreFailed` | the leader is down or dies, or the connection breaks; the status is not looked at and the store is empty |
| `StoreLost` | the request or its answer is lost: `get_db` has no deadline (rpc.cc:478-483), so that `coordinate` waits (`hanging`) until the leader dies |
| `CopyKey` | `Set_KV` of one key of the copy; other handlers run in between |
| `Stop` | `Consensus!Crash`, with the process's `coordinate` |

### State and actions of `Forwarding`

`Forwarding` extends `Consensus` with `calls`, one record per invocation of
`DatabaseRPC::get` or `set`, by a client or by another replica. `pc` is where the handler
is, `on` the attempt or the call it waits for, `again` whether the election has been held.
`since`, `due` and `seen` are history: how many attempts had begun, and which round of the
key had been acknowledged, when the call arrived; and the round of the value a `get`
answered. The protocol's own actions are those of `Consensus`.

| Action | Code |
|---|---|
| `Request` | a client calls a replica; the next one when the last is over, as in `user_entrypoint` |
| `NoLeader`, `Lead`, `Redirect` | the test of `Cluster::leader` (rpc.cc:281-287, 378-384); what it says is acted on in a later step |
| `ReadLocal` | `Get_KV` on the replica that found itself the leader |
| `Decide`, `DecideAnswered` | `AttemptConsensus` and its status |
| `Forward`, `ForwardThrows` | the call to `memberList->at(leader)`, with `leader` read again (rpc.cc:326, 346, 419, 438); what the server answers when it throws |
| `ForwardAnswered`, `ForwardUnanswered`, `ForwardTimedOut` | the call's status: what the handler that was called answered; a replica that is down, or a request that is lost; a deadline, after which the handler that was called goes on |
| `ElectSelf`, `ElectionLost`, `ElectionAnswered`, `ElectionTimedOut` | `trigger_election` of oneself, its status, its deadline |
| `Coordinates` | `coordinate`'s own election on a replica that has not found the leader |
| `Stop` | `Consensus!Crash`, with the handlers of the replica |

It begins with replicas that run and know the leader (but for those of `Untold`), and with
one value written to every key, so that a get that finds nothing is not in question. The
bound `MaxCalls` on invocations is not a bound on behaviours: a request that is forwarded
in a circle is forwarded until its first caller's deadline, and when the bound is reached
`ForwardUnanswered` lets that deadline pass. `MaxAttempts` is large enough for the
elections and writes of all calls, so that it never keeps one waiting.

### State and actions of `ReplicaThreads`

One replica, one key. A thread serves one call: `call[t]` are its arguments, `pc[t]` where
it is, `seen[t]` the count it has read in `increment`, `number[t]` and `value[t]` what it
has copied of an entry or of the store, `counts[t]` what `get_stats` answers. Threads are
numbered in the order in which their calls arrive.

| Action | Code |
|---|---|
| `ReadCount`, `WriteCount` | `incount[s] = (not found) ? 1 : incount[s] + 1`, a read and a write without a lock |
| `LockLog`, `TouchEntry`, `SetNumber`, `SetValue` | the two forms of `Set_Log`: the lock, each field, the unlock with the last |
| `CopyNumber`, `CopyValue` | `Get_Log(key, round)` in `propose`: the fields of the entry are copied without the lock, in either order |
| `Look`, `Insert` | `Get_Log(key, round)` in `accept`: `operator[]` finds no entry and links one, without the lock |
| `Scan` | `Get_Log(key)` and the test in `success` |
| `LockStore`, `Store` | `Set_KV` |
| `Find`, `Fetch` | `Get_KV`: `find`, then what the iterator points to, without the lock |
| `Report` | `get_stats` |

A race on a `std::map` is undefined behaviour. The model takes the outcomes a build shows
for these accesses: fields copied at different moments, counts that overwrite each other,
and, where two threads insert the same round, one entry or the other. A race that corrupts
the tree and kills the process is a `Crash` of `Consensus`. Which calls arrive is left
open, and a `propose` or `accept` can be for any round.

## 3. The runs

All but those of `ReplicaThreads` have three replicas, the smallest cluster in which a
quorum can leave a replica out without the quorums of two proposers becoming the same.

| Run | Bounds | Shows |
|---|---|---|
| `two_writers` | two requests, interleaved, of writes by the leader, of a key or of `"leader"`, and elections of another replica; 1 failed call of any kind on any link, the leader can crash | `TypeOK`, `Validity`, `LeaderIsCandidate`, `StoredIsDecided` hold |
| `one_at_a_time` | 4 elections anywhere, one at a time, 4 lost calls of the first replica | `NoRoundSkipped`, though logs have holes; `NeverGoesBack` |
| `leader_register` | 3 writes of one key of two values, one at a time, 2 failed calls of any kind, the leader can crash | `ImplementsRegister` |
| `recovery` | a flagged leader that stays up, two writes, the other two replicas can crash, 2 starts, no failed call | `StartTypeOK`, `RecoversAcknowledged`, `ImplementsRegister` |
| `start_ends` | a flagged leader that writes a key or `"leader"` once; it and the first replica can crash, 1 start, 1 failed call of the first replica, fairness | `CoordinateEnds`, `AttemptEnds`; `StoredIsDecided` though logs are forgotten |
| `one_client` | two requests, `get` or `set`, of a key or of `"leader"`, through a replica that is not the leader, one after the other; 1 failed call of that replica, of any kind; the leader can crash | `ForwardTypeOK`, `OkIsDecided`, `CallersWait`, `WritesApart`, `ReadsSeeAcknowledged`, `StoresAgree` |
| `failover` | one `get` through either other replica; a third replica that does not know the leader elects itself; the leader can crash; 4 invocations, fairness | `RequestsEnd` |
| `threads` | 3 handler threads of one replica, any calls, one round, one value, fairness | `ThreadsTypeOK`, `CountsBounded`, `AcceptedKept`, `HandlersEnd` |

The bounds are the smallest at which the interesting case happens. `MaxRunning = 2` is
two proposers of one key; a third adds no new pair. Three attempts are needed for a hole
in a log (the first misses a replica, the second fills it in above the hole, the third
counts); two lost calls keep a round from a replica, four two rounds. A replica that has
missed two rounds and knows the one after them counts one, proposes in the second of those
it missed, and wins an election that all others are past: that takes a fourth attempt. In
`leader_register` and `recovery` the leader is the second of the three replicas, so that
calls to others come before and after the call to itself. `recovery` has two starts, so
that a replica asks one that has itself just started, and no failing calls: with them a
replica that is not answered is done with an empty store, and `RecoversAcknowledged` says
nothing of behaviours in which a call failed. In `start_ends` the bound on attempts is the
bound on starts and on writes together, and `MaxSets` keeps the writes from using it up: a
start makes at most one election, so that the bound never keeps a start-up waiting. The key
is there so that the replica which starts finds a store to copy, from a leader that can die
before it is asked, while it is asked and while the copy is written; the write of `"leader"`,
so that a replica on its way to the leader can find that it is none.

`LeaderIsCandidate` is not that a leader is a member: a client's write of `"leader"` makes it
something else, in the model as in the code. It is that nothing else does, whatever
proposers of `"leader"`, clients and candidates, adopt from each other. Where no client writes
that key the leader is a member: theorem `LeadersAreMembers`.

`CoordinateEnds` excepts one state, `Hangs`: `get_db` was lost on its way and the leader it
was to reach still runs. TLC reaches it; without a deadline nothing in the code ends it.

In `one_client` two requests are what `ReadsSeeAcknowledged` needs, a write and a read;
four invocations are each of them forwarded once and once again. `failover` has reads only:
what is at stake is who waits for whom, and four invocations let the first replica forward
to the third, the third back, and the first again before the deadline. Two threads are
enough for a lost count, for a torn copy and for a mutex that is kept; the third makes a
count go back (one thread reads, two write, the first writes), and lets `success` follow
`accept` while a `propose` touches the entry.

`ReadsSeeAcknowledged` and `StoresAgree` are stated for behaviours in which no call between
running replicas fails and no leader dies in the middle of a write of the key. They need
both: a `success` that is lost leaves a replica behind which can have itself elected, and
the half-finished write of a dead leader can be logged and stored by one replica and not by
another. They also stop short of a leader that starts again: it would lead with an empty
store, since `coordinate` copies nothing from itself (app.cc:136).

The two rest on `CallersWait` and `WritesApart`. `CallersWait`: as long as no call fails, a
replica that forwards waits until the request it sent is over, and a `set` is sent again only
then. It needs a run in which only the leader dies: were a replica that forwards to die, the
`set` would be over for whoever sent it while the leader goes on with it. `WritesApart`:
whenever every forwarded request that is in progress is waited for (which failed calls in the
past do not exclude), a client that waits for its own answers has one write of a key under
way. Both take several handlers to violate: one that gives up a call that is merely slow, or
that counts an attempt which has not ended as a failed one.

Runs that TLC refutes, each a statement the repository makes that its code does not keep:

| Run | Statement | What happens |
|---|---|---|
| `two_candidates` | `Agreement`: consensus is achieved when enough accept (declaration.h:428), proposal numbers differ by server (documentation/paxos-consensus.md:31) | both proposals have the number 1, both gather all their proposals before either accepts; one round decides two leaders |
| `two_clients_ok` | `StoredWhenOk`: the value is stored as part of `success` (rpc.cc:399) | a second write of the key reaches the logs first, every replica refuses the first write's `success`, the client is told OK while no replica has stored it or a later value |
| `sent_twice` | `ExecutedOnce`: "exactly once semantics, no duplicate exec." (documentation/paxos-consensus.md:29) | the leader's answer to a forwarded `set` is late; the replica has itself elected and sends the `set` again; both take effect |
| `torn_promise` | `PromiseCarriesValue`: a replica replies with the value it accepted (declaration.h:424) | `propose` copies the value before `accept` writes it and the number after: it answers with a number and an empty value, which the proposer adopts |

`Agreement` is not claimed under weaker conditions either. Proposers one at a time and no
late handler are not enough: with four elections and six lost calls on three replicas,
two logs get different holes, a candidate that missed round 0 reuses round 1, and a round
whose value a quorum accepted is decided again with an older value that one replica still
has. (A search of all behaviours with those bounds is out of TLC's reach in minutes.)
`NeverGoesBack` is claimed for one proposer at a time and no late handler only: a `success`
that is past its test stores after a later round's has stored. It names one exception, which
TLC finds with four elections: a candidate that wins a round the others are past has its
`success` refused by all, itself included, and `elect_leader` assigns `Cluster::leader`
without that test (rpc.cc:235), so that its own leader goes back.

`torn_promise` bounds what the other modules say: `Consensus` takes the copy that `propose`
makes as one moment's, so `Validity` there is about a build in which the copy is not torn.

### Fairness

`CallsEnd`, of `Consensus`, is weakly fair to every proposer and every handler: a proposer
is a thread whose every call has a deadline (rpc.cc:566, 588, 663, 683), so it always takes
its next step, and a handler past its test has nothing to wait for but a mutex that is held
for a few assignments. `FairStartSpec` adds weak fairness of `coordinate`, whose calls have
deadlines (rpc.cc:706, 731), but for `get_db`. That one ends when the leader answers, which
waits for nothing (app.cc:478), or when the leader dies; when it was lost and the leader
lives, `coordinate` has no step to take and fairness asks for none.
`FairForwardSpec` adds weak fairness of every handler of `get` and `set`: each call it makes
has a deadline (rpc.cc:319, 344, 411, 436). `FairSpec` of `ReplicaThreads` is weakly fair to
every thread, which is what the operating system gives it; a thread that waits for a mutex
gets it because each thread takes a mutex at most twice. Calls are
not required to succeed, clients are not required to write, and nothing is required to
crash or to start.

## 4. The proofs

For every number of replicas, of attempts at a time, of failures and of crashes:

- `TypeCorrect`: `Spec => []TypeOK`. Not obvious, since a round is bounded only because
  no log can hold more rounds than there were attempts. The inductive invariant `TypeInv`
  adds that: each round a log has is below the number of attempts begun, and each
  attempt's round is below its position among them.
- `RoundsHaveNoGaps`: `Spec => []NoRoundSkipped`. By counting: were a proposer's number of
  known rounds past a round that no log has, all its known rounds would lie below that
  round (those above are excluded by the invariant), and there are fewer of these than it
  counted.
- `StoresAreDecided`: `Spec => []StoredIsDecided`. The invariant `DecisionInv` follows an
  attempt: the replicas it has counted did vote for the value it chose (which is settled
  once it leaves the proposals), an attempt in its last phase has a decided value, so has
  every `success` or store that is still running, and votes are never taken back.
- `OnlyRequested`, `LeadersAsked`: `Spec => []Validity` and `Spec => []LeaderIsCandidate`,
  with no condition on what clients write. `LeadersAreMembers`: if they do not write
  `"leader"`, what a replica takes for the leader is a member.
  `ValidInv` says the same of what is on its way: of the value each attempt has adopted
  from an answer to `propose`. An entry that is only promised has no value, and that is
  why the test `accepted_id > 0` is needed.
- `StartTypeCorrect`, `CopiesAreDecided`, `CopiesAreRequested`: `StartSpec` keeps
  `StartTypeOK`, `StoredIsDecided`, `Validity` and `LeaderIsCandidate`. The invariant adds
  what is in the locals of `coordinate`: each key of the copy it fetched, with its round,
  is decided and was asked for, so were the leaders it heard of, and its own election,
  once it has succeeded, leaves it with a leader. A restart forgets a log and a store but
  not the votes of the past.
- `ForwardTypeCorrect`, `OkDecided`, `ServedIsDecided`: `ForwardSpec` keeps `ForwardTypeOK`,
  `OkIsDecided`, `StoredIsDecided`, `Validity` and `LeaderIsCandidate`. `CallSound` says of
  each handler what it waits for: its own attempt, for its own value, begun after it
  arrived, or a later call for the same value which arrived no earlier; so that an OK can be
  followed back, through any number of forwards, to an attempt that succeeded, which
  `DecisionInv` says is decided. A replica that forwards has something for a leader, since
  an election that succeeds leaves its candidate one and no step takes a leader away; it
  need not be a member.
- `WritesStayApart`: `MaxOpen <= 1 /\ ForwardSpec => []WritesApart`, whatever fails and
  whoever crashes. `Owners` says that the handler which began an attempt to write a key still
  waits for it: an attempt that outlives its handler would have to run on a replica that
  crashed, and there it is dead. Two writes are then two handlers that wait. `Chain` excludes
  that: the first invocation that is not over is the client's, only one of these is open
  (`OneOpen`), and every other was called by an earlier one that waits for it; by induction on
  the number of the invocation, each but the last waits for one no later than the next.
- `RequestsAttended`: `OneClient /\ ForwardSpec => []CallersWait`. `OneClient` is one open
  request, no client that writes `"leader"`, one leader that every replica knows and no other
  replica that dies or starts. A
  forwarded request loses its caller when the caller's own replica dies, so the leader must
  not itself be waiting for a call (`LeaderCalls`). That depends on all the rest: as long as
  the leader lives and calls are left, `Undisturbed` says that every replica runs and takes it
  for the leader, no election has begun and no attempt has failed or died, so that nothing the
  leader answers sends a replica into an election. That no attempt fails is `KeyInv`, below,
  which in turn holds only while writes do not overlap: the invariants of this theorem and of
  the next two are proved together.
- `StoresInAgreement` and `ReadsSeeWrites`: `MaxOpen <= 1 /\ ForwardSpec /\ []CallersWait =>
  []StoresAgree`, and the same of `ReadsSeeAcknowledged`; `OneClientAgrees`: `OneClient /\
  ForwardSpec` implies both, with no condition on behaviours. With `CallersWait`, writes of a
  key do not overlap while no call has failed (`Apart`); elections and writes of other keys
  may. `KeyInv(k)` holds until a call fails or a proposer of `k` dies. Then an attempt can fail
  only when too few replicas run, which is for ever, and every other reaches them all: a
  replica that runs answers, `Counted` says that its answer is counted, and a replica that has
  been told `Has` the attempt's round in its log and stores it or a later one. Why it never
  refuses: logs have no holes and no round that nobody proposed in (`LogsOf`), so that a new
  attempt, at whichever replica, gets the round next to everyone's last (`NextAt`); and no
  handler is left over from earlier ones (`RunsOf`). Replicas that have been told of the same
  attempts store the same (`StoresOf`). `ReadsInv` adds that what a `get` owes is the round of
  an attempt that succeeded, hence is in the store of every replica that runs, whichever ends
  up answering, and that a forwarded call owes at least what its caller does.
- `StoresGoForward`: `OneProposer /\ Spec => NeverGoesBack`. `OneProposer` is what the
  property is claimed under: one proposer at a time for a key, no handler outlives its call,
  proposers do not crash, a replica reaches itself; calls to others may fail and all other
  replicas may crash. The argument is that `success`'s test reads a log that has every round
  the store ever had, and that nothing else writes between the test and the store. `OneInv`
  therefore adds: the round of what is stored is in the log; a proposer that is past its
  proposal to itself has its own round in its own log, so that its return can only go back
  where its log had a later round, which is the exception; the one handler that can be
  between its test and its store is the one its proposer is waiting for.
- `LeaderShowsRegister`: `LoneLeader /\ Spec => ImplementsRegister`. `LoneLeader` is a leader
  set by its flag that nobody challenges, no client that writes `"leader"`, one write at a time
  for a key, and calls of the leader to itself that do not fail; any other call may be lost,
  unanswered or late, and any replica may crash, the leader included. Each action of
  `Consensus` is shown to be a step of `KVRegister` under the mapping of `LeaderRegister` or to
  leave it as it is. What makes it true is in `LoneInv`: the leader's log has no holes, and has
  every round that any log has accepted a value in; hence a new write gets a round nobody has
  accepted, no proposal brings back another value, and the writer proposes its own; a handler
  that still runs after its call is for a round that no later write asks about; on the leader
  only the store its proposer waits for is outstanding, and nothing there is later than its
  round.
- `RecoversWhatIsOwed`: `LeaderStays /\ StartSpec => []RecoversAcknowledged`, and
  `RestartsShowRegister`: `LeaderStays /\ MaxFaults = 0 /\ StartSpec => ImplementsRegister`.
  `LeaderStays` is a lone leader that does not crash; all others may crash and start, any
  number of times. `RecoveryInv` holds until the first failed call and keeps `LoneInv`, which
  survives logs that are forgotten because the leader's is not, with `RecoverInv`: every
  handler is waited for; the leader's store holds a round of its own log, at least as late
  as that of every write it has applied, hence of all that is owed to anyone; and `CaughtUp`
  says how far each `coordinate` has come: before the copy of a key is written, the copy is as
  late as what is owed, after it the store is, and no `success` that arrives in between makes
  it earlier. Without `LeaderStays` the statement is false: a leader that starts again leads
  with an empty store.
- `OddRuleIsMajority`, `EvenRuleIsHalf`, `OddQuorumsMeet`: the head count is a strict
  majority in a cluster of odd size, half in one of even size; two quorums of an odd
  cluster meet.
- `ThreadsTypeCorrect`: `Spec => []ThreadsTypeOK`, for every number of threads and rounds:
  each mutex is held by exactly the thread between its lock and its unlock.
- `CountsCorrect`: `Spec => []CountsBounded`. Not inductive: `CountsInv` adds that what a
  thread has read and not yet written is at most the calls counted so far, a set that only
  grows.
- `AcceptedStays`: `Spec => []AcceptedKept`. The invariant `KeepsAccepted` says what holds
  of the entry at each place of an accept, given `InMethod`, which method is where.

Assumptions: `ConstantsAssumption` of `Consensus`: the bounds are naturals, at least one
replica, the sets of replicas named by the constants are replicas, the key `"leader"` is
not a key of the store (success does not store it), clients write keys of the store or
`"leader"`, and `Nothing` and `Absent` differ from what they must differ from.
`ThreadsAssumption` of `ReplicaThreads`: naturals, and the same of `Nothing` and `Absent`.
`StartsAssumption` and `ForwardingAssumption`: more bounds are naturals, more sets of replicas
are replicas, the value every key begins with is a value, clients may write every key of the
store, and there are at most as many keys
as attempts, since each key has been written once.

Each step lemma (`PingEffect`, `AnsweredEffect`, ...) says what an action does to the
attempts, the log and the rest; `EffectInv`, `EffectSkipsNoRound` and `NextDecides` then
use only those effects. For the modules around `Consensus`, `CoreInv` puts its invariants
together and three lemmas say that what surrounds the protocol keeps them: `BeginKeeps` for
an attempt anybody begins, `NextKeeps` for the protocol's own steps, `QuietKeeps` for a step
that only forgets or stores what is accounted for.

`OneProposer`, `LoneLeader`, `LeaderStays` and `OneClient` are conditions on the constants, met
by `one_at_a_time` (`OneProposer`), `leader_register` (`LoneLeader`) and `recovery`
(`LeaderStays`, `MaxFaults = 0`), so that each of these runs checks an instance of its theorem.
`one_client` meets `OneClient` but for one thing: its client may write `"leader"`, so that the
run checks more than the theorem proves. `[]CallersWait`, in `StoresInAgreement` and
`ReadsSeeWrites`, is a condition on behaviours; `RequestsAttended` shows that those of
`OneClient` meet it. Where another replica than the leader may die, or start again, it stays a
condition.

Only model-checked: `AttemptEnds`, `CoordinateEnds`, `RequestsEnd` and `HandlersEnd`
(liveness under fairness is outside what TLAPS proves here).

## 5. What is not modelled

- The walk of the whole log in `AttemptConsensus` (app.cc:276) against handlers that insert,
  and the copy of the string `Cluster::leader` against its assignment: `Consensus` takes
  both as one moment's. What else the C++ library could make of them is below the models.
- The counters of outgoing calls: the same code on another map.
- A member that is not in the list it was given adds itself to its own list only
  (app.cc:47); the models have one list for all.
- Input, output and generated code: parsing of options and addresses, the commands of the
  user mode that print one answer, the benchmark, the build, the wire format.
- No caller or no body: `db_address_request`, `Find_Max_Proposal`, `Delete_KV`,
  `Set_Log(key, round, p_server)`, `readFromDisk`, `writeToDisk`, `broadcastPeriodicPing`.

## 6. Plan

All modules of sections 2 and 4 are written. What remains, in order:

1. `Forwarding` over replicas that start again (`Startup`), where what a leader that starts
   again answers would be the question.
2. `RequestsAttended` with replicas that have not found the leader yet and elect themselves:
   such an election takes the leader's place while it lives, and then it may forward and die.
