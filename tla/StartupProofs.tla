--------------------------- MODULE StartupProofs ---------------------------
(***************************************************************************)
(* Proofs about Startup: what holds of replicas that crash, start again    *)
(* with nothing and copy the store of the leader they find.                *)
(***************************************************************************)
EXTENDS Startup, DecisionProofs

-----------------------------------------------------------------------------
(* The locals of coordinate.                                               *)

\* What a replica has fetched of the leader's store is decided.
FetchSound(n) ==
  \A k \in DataKey : boot[n].copied[k] # -1 =>
    Decided(k, boot[n].copied[k], boot[n].copy[k]) /\ boot[n].copy[k] \in Requested(k)

\* The leaders a replica has heard of were asked for, and one that goes on to copy a
\* store has a leader, its own candidacy if it stood.
BootSound(n) ==
  /\ boot[n] \in Boot
  /\ boot[n].pc = "off" <=> ~ up[n]
  /\ boot[n].leaders \subseteq Requested(LeaderKey) \cup Flagged
  /\ boot[n].pc = "leading" => n \in Flagged
  /\ boot[n].pc = "recovering" => leader[n] # Nothing
  /\ boot[n].pc = "electing" =>
       \E e \in DOMAIN att :
         /\ e = boot[n].election /\ att[e].node = n /\ att[e].by = "elect_leader"
         /\ att[e].pc = "ok" => leader[n] # Nothing
  /\ FetchSound(n)

BootInv == boot \in [Node -> Boot] /\ \A n \in Node : BootSound(n)

\* The locals with which coordinate begins a part of its work.
LEMMA AtBoot ==
  ASSUME NEW pc \in {"off", "leading", "polling", "electing", "recovering", "fetching",
                     "copying", "done"},
         NEW todo \in SUBSET Node
  PROVE  /\ At(pc, todo) \in Boot
         /\ At(pc, todo).pc = pc /\ At(pc, todo).leaders = {}
         /\ At(pc, todo).copied = [k \in DataKey |-> -1]
<1>1. 0 \in 0 .. MaxAttempts
  BY ConstantsAssumption
<1>2. [k \in DataKey |-> Nothing] \in [DataKey -> Payload \cup {Nothing}]
      /\ [k \in DataKey |-> -1] \in [DataKey -> Round \cup {-1}]
  OBVIOUS
<1> QED BY <1>1, <1>2 DEF At, Boot

\* A replica whose coordinate does not move.
LEMMA BootStays ==
  ASSUME votes \subseteq votes', DOMAIN att \subseteq DOMAIN att',
         \A a \in DOMAIN att : SameRequest(att[a], att'[a]), OkHasLeader,
         NEW n \in Node, leader[n] # Nothing => leader'[n] # Nothing,
         BootSound(n), boot'[n] = boot[n], up'[n] = up[n]
  PROVE  BootSound(n)'
<1>1. \A k : Requested(k) \subseteq Requested(k)'
  BY DEF Requested, SameRequest
<1>2. ASSUME NEW k \in DataKey, boot[n].copied[k] # -1
      PROVE  /\ Enough(Cardinality({x \in Node :
                         <<x, k, boot[n].copied[k], boot[n].copy[k]>> \in votes'}), NumReplicas)
             /\ boot[n].copy[k] \in Requested(k)'
  <2> DEFINE r == boot[n].copied[k]
             v == boot[n].copy[k]
             S == {x \in Node : <<x, k, r, v>> \in votes}
             T == {x \in Node : <<x, k, r, v>> \in votes'}
  <2>1. S \in SUBSET Node /\ T \in SUBSET Node /\ S \subseteq T /\ Enough(Cardinality(S), NumReplicas)
    BY <1>2 DEF BootSound, FetchSound, Decided, Voters
  <2> QED BY <1>1, <1>2, <2>1, MoreIsEnough DEF BootSound, FetchSound
<1>3. boot'[n].pc = "electing" =>
        \E e \in DOMAIN att' :
          /\ e = boot'[n].election /\ att'[e].node = n /\ att'[e].by = "elect_leader"
          /\ att'[e].pc = "ok" => leader'[n] # Nothing
  BY DEF BootSound, SameRequest, OkHasLeader
<1>4. FetchSound(n)'
  BY <1>2 DEF FetchSound, Decided, Voters
<1> QED BY <1>1, <1>3, <1>4 DEF BootSound

\* One replica's coordinate moves, or its process starts.
LEMMA OneBoots ==
  ASSUME BootInv, NEW n \in Node, UNCHANGED <<att, votes>>, boot' \in [Node -> Boot],
         \A m \in Node : m # n => boot'[m] = boot[m] /\ up'[m] = up[m] /\ leader'[m] = leader[m],
         BootSound(n)'
  PROVE  BootInv'
<1>1. OkHasLeader /\ \A a \in DOMAIN att : SameRequest(att[a], att'[a])
  BY DEF OkHasLeader, SameRequest
<1>2. ASSUME NEW m \in Node, m # n PROVE BootSound(m)'
  BY <1>1, <1>2, BootStays DEF BootInv
<1> QED BY <1>2 DEF BootInv

-----------------------------------------------------------------------------
(* Action by action.                                                       *)

StartInv ==
  /\ CoreInv
  /\ BootInv
  /\ owed \in [Node -> [DataKey -> Round \cup {-1}]]
  /\ starts \in 0 .. MaxStarts

\* A step of the protocol, with which no replica starts or stops.
LEMMA ProtocolStep ==
  ASSUME StartInv, Next, UNCHANGED <<up, boot, owed, starts>>
  PROVE  StartInv'
<1>1. CoreInv' /\ Grows /\ OkHasLeader
  BY NextKeeps DEF StartInv
<1>2. \A n \in Node : BootSound(n)'
  BY <1>1, BootStays DEF StartInv, BootInv, Grows
<1> QED BY <1>1, <1>2 DEF StartInv, BootInv

\* A replica that stands for election.
LEMMA ElectSelfStep ==
  ASSUME StartInv, NEW n \in Node, ElectSelf(n)
  PROVE  StartInv'
<1> DEFINE e == Len(att) + 1
           b == [At("electing", {}) EXCEPT !.election = e]
           t == [pc |-> "ping", by |-> "elect_leader", node |-> n, key |-> LeaderKey, value |-> n,
                 round |-> NumKnown(log[n][LeaderKey]), live |-> {}, todo |-> {}, promised |-> 0,
                 accepted_id |-> 0, accepted_value |-> Nothing, acked |-> {}]
<1>1. Elect(n) /\ boot' = [boot EXCEPT ![n] = b] /\ UNCHANGED <<owed, starts>>
  BY DEF ElectSelf
<1>2. CoreInv' /\ Grows /\ OkHasLeader
  BY <1>1, ElectKeeps DEF StartInv
<1>3. att' = Append(att, t) /\ Len(att) < MaxAttempts /\ UNCHANGED <<up, votes, leader>>
  BY <1>1 DEF Elect, Begin
<1>4. e \in DOMAIN att' /\ att'[e] = t /\ e \in 0 .. MaxAttempts
  BY <1>3, ConstantsAssumption DEF StartInv, CoreInv, TypeInv, AttInv
<1>5. b \in Boot /\ b.pc = "electing" /\ b.leaders = {} /\ b.election = e
      /\ \A k \in DataKey : b.copied[k] = -1
  <2> HIDE DEF e
  <2> QED BY <1>4, AtBoot DEF Boot
<1>6. t.node = n /\ t.by = "elect_leader" /\ t.pc # "ok"
  OBVIOUS
<1> HIDE DEF b, e, t
<1>7. boot' \in [Node -> Boot] /\ boot'[n] = b
  BY <1>1, <1>5 DEF StartInv, BootInv
<1>8. up'[n]
  BY <1>1, <1>3 DEF Elect, Begin
<1>9. BootSound(n)'
  BY <1>4, <1>5, <1>6, <1>7, <1>8 DEF BootSound, FetchSound
<1>10. \A m \in Node : m # n => BootSound(m)'
  BY <1>1, <1>2, <1>3, BootStays DEF StartInv, BootInv, Grows
<1> QED BY <1>1, <1>2, <1>7, <1>9, <1>10 DEF StartInv, BootInv

\* A replica that stops.
LEMMA StopStep ==
  ASSUME StartInv, NEW n \in Node, Stop(n)
  PROVE  StartInv'
<1>1. Crash(n) /\ boot' = [boot EXCEPT ![n] = At("off", {})] /\ UNCHANGED <<owed, starts>>
  BY DEF Stop
<1>2. CoreInv' /\ Grows /\ OkHasLeader
  BY <1>1, CrashKeeps DEF StartInv
<1>3. boot' \in [Node -> Boot] /\ boot'[n] = At("off", {})
      /\ \A m \in Node : m # n => boot'[m] = boot[m] /\ up'[m] = up[m]
  <2>1. At("off", {}) \in Boot
    BY AtBoot
  <2>2. boot \in [Node -> Boot] /\ up \in [Node -> BOOLEAN]
    BY DEF StartInv, BootInv, CoreInv, TypeInv, RestInv
  <2>3. boot' \in [Node -> Boot] /\ boot'[n] = At("off", {})
        /\ \A m \in Node : m # n => boot'[m] = boot[m]
    BY <1>1, <2>1, <2>2
  <2>4. \A m \in Node : m # n => up'[m] = up[m]
    BY <1>1, <2>2 DEF Crash
  <2> QED BY <2>3, <2>4
<1>4. ~ up'[n]
  BY <1>1 DEF Crash, StartInv, CoreInv, TypeInv, RestInv
<1>5. BootSound(n)'
  BY <1>3, <1>4, AtBoot DEF BootSound, FetchSound
<1>6. \A m \in Node : m # n => BootSound(m)'
  BY <1>2, <1>3, BootStays DEF StartInv, BootInv, Grows
<1> QED BY <1>1, <1>2, <1>3, <1>5, <1>6 DEF StartInv, BootInv

\* A step that changes nothing but one replica's locals, and perhaps counts a failed call.
LEMMA BootOnly ==
  ASSUME StartInv, NEW n \in Node,
         UNCHANGED <<log, kv, leader, up, att, running, votes, ver, owed, starts>>,
         faults' \in 0 .. MaxFaults, boot' \in [Node -> Boot],
         \A m \in Node : m # n => boot'[m] = boot[m],
         BootSound(n)'
  PROVE  StartInv'
<1>1. BootInv'
  BY OneBoots DEF StartInv
<1>2. RestInv'
  BY DEF StartInv, CoreInv, TypeInv, RestInv
<1>3. /\ \A m \in Node, k \in Key : ver'[m][k] # -1 => Decided(k, ver'[m][k], Held(m, k)')
      /\ \A m \in Node, k \in DataKey : ver'[m][k] # -1 => kv'[m][k] \in Requested(k)
      /\ \A m \in Node : leader'[m] \in AskedFor
  BY DEF StartInv, CoreInv, DecisionInv, StoredIsDecided, ValidInv, StoresValid, LeadersValid,
         AskedFor, Held
<1>4. CoreInv'
  BY <1>2, <1>3, QuietKeeps DEF StartInv
<1> QED BY <1>1, <1>4 DEF StartInv

\* A replica that runs and has yet to fetch anything, or has nothing left to do.
LEMMA FreshBoot ==
  ASSUME NEW n \in Node, boot'[n] \in Boot, up'[n], boot'[n].leaders = {},
         boot'[n].pc \in {"leading", "polling", "recovering", "fetching", "copying", "done"},
         boot'[n].pc = "leading" => n \in Flagged,
         boot'[n].pc = "recovering" => leader'[n] # Nothing,
         \A k \in DataKey : boot'[n].copied[k] = -1
  PROVE  BootSound(n)'
BY DEF BootSound, FetchSound

\* A member answers with the leader it knows.
LEMMA LeaderAnsweredStep ==
  ASSUME StartInv, NEW n \in Node, NEW m \in Node, LeaderAnswered(n, m)
  PROVE  StartInv'
<1> DEFINE heard == boot[n].leaders \cup ({leader[m]} \ {Nothing})
           todo == boot[n].todo \ {m}
           live == boot[n].live \cup {m}
           b == [boot[n] EXCEPT !.todo = todo, !.live = live, !.leaders = heard]
<1>1. boot \in [Node -> Boot] /\ BootSound(n) /\ boot[n] \in Boot /\ boot[n].pc = "polling"
  BY DEF StartInv, BootInv, LeaderAnswered, Asks
<1>2. boot' = [boot EXCEPT ![n] = b] /\ UNCHANGED <<vars, owed, starts>>
  BY <1>1 DEF LeaderAnswered, Boot
<1>3. todo \in SUBSET Node /\ live \in SUBSET Node
  BY <1>1 DEF Boot
<1>4. heard \in SUBSET Payload /\ heard \subseteq Requested(LeaderKey) \cup Flagged
  <2>1. leader[m] \in Payload \cup {Nothing} /\ leader[m] \in Requested(LeaderKey) \cup Flagged \cup {Nothing}
    BY DEF StartInv, CoreInv, TypeInv, RestInv, ValidInv, LeadersValid, AskedFor
  <2>2. boot[n].leaders \in SUBSET Payload /\ boot[n].leaders \subseteq Requested(LeaderKey) \cup Flagged
    BY <1>1 DEF Boot, BootSound
  <2> QED BY <2>1, <2>2
<1> HIDE DEF heard, todo, live
<1>5. b \in Boot /\ b.pc = "polling" /\ b.leaders = heard /\ b.copied = boot[n].copied /\ b.copy = boot[n].copy
  BY <1>1, <1>3, <1>4 DEF Boot
<1> HIDE DEF b
<1>6. boot' \in [Node -> Boot] /\ boot'[n] = b /\ \A j \in Node : j # n => boot'[j] = boot[j]
  BY <1>1, <1>2, <1>5
<1>7. up'[n]
  BY <1>1, <1>2 DEF BootSound, vars
<1>8. BootSound(n)'
  <2>1. UNCHANGED <<att, votes, leader>>
    BY <1>2 DEF vars
  <2>2. FetchSound(n)'
    BY <1>1, <1>5, <1>6, <2>1 DEF BootSound, FetchSound, Decided, Voters, Requested
  <2>3. heard \subseteq Requested(LeaderKey)' \cup Flagged
    BY <1>4, <2>1 DEF Requested
  <2> QED BY <1>5, <1>6, <1>7, <2>2, <2>3 DEF BootSound
<1>9. faults' \in 0 .. MaxFaults /\ UNCHANGED <<log, kv, leader, up, att, running, votes, ver, owed, starts>>
  BY <1>2 DEF vars, StartInv, CoreInv, TypeInv, RestInv
<1> QED BY <1>6, <1>8, <1>9, BootOnly

\* coordinate ends, or, with a leader, goes on to the leader's store.
LEMMA LocalsReset ==
  ASSUME StartInv, NEW n \in Node, boot[n].pc # "off",
         UNCHANGED <<log, kv, leader, up, att, running, votes, ver, owed, starts>>,
         faults' \in 0 .. MaxFaults,
         \/ boot' = [boot EXCEPT ![n] = Finished]
         \/ boot' = [boot EXCEPT ![n] = At("recovering", {})] /\ leader[n] # Nothing
  PROVE  StartInv'
<1>1. boot \in [Node -> Boot] /\ BootSound(n)
  BY DEF StartInv, BootInv
<1>2. Finished \in Boot /\ At("recovering", {}) \in Boot
  BY AtBoot DEF Finished
<1>3. boot' \in [Node -> Boot] /\ \A j \in Node : j # n => boot'[j] = boot[j]
  BY <1>1, <1>2
<1>4. up'[n]
  BY <1>1 DEF BootSound
<1>5. boot'[n] = Finished \/ (boot'[n] = At("recovering", {}) /\ leader'[n] # Nothing)
  BY <1>1
<1>6. CASE boot'[n] = Finished
  <2>1. boot'[n].pc = "done" /\ boot'[n].leaders = {} /\ boot'[n].copied = [k \in DataKey |-> -1]
    BY <1>6, AtBoot DEF Finished
  <2>2. BootSound(n)'
    BY <1>2, <1>4, <1>6, <2>1, FreshBoot
  <2> QED BY <1>3, <2>2, BootOnly
<1>7. CASE boot'[n] = At("recovering", {}) /\ leader'[n] # Nothing
  <2>1. boot'[n].pc = "recovering" /\ boot'[n].leaders = {} /\ boot'[n].copied = [k \in DataKey |-> -1]
    BY <1>7, AtBoot
  <2>2. BootSound(n)'
    BY <1>2, <1>4, <1>7, <2>1, FreshBoot
  <2> QED BY <1>3, <2>2, BootOnly
<1> QED BY <1>5, <1>6, <1>7

\* A call that fails is counted.
LEMMA CallFailsCounts ==
  ASSUME StartInv, NEW n, NEW m, CallFails(n, m)
  PROVE  faults' \in 0 .. MaxFaults
BY ConstantsAssumption DEF CallFails, StartInv, CoreInv, TypeInv, RestInv

\* A member does not answer.
LEMMA LeaderUnansweredStep ==
  ASSUME StartInv, NEW n \in Node, NEW m \in Node, LeaderUnanswered(n, m)
  PROVE  StartInv'
<1> DEFINE todo == boot[n].todo \ {m}
           b == [boot[n] EXCEPT !.todo = todo]
<1>1. boot \in [Node -> Boot] /\ BootSound(n) /\ boot[n] \in Boot /\ boot[n].pc = "polling"
  BY DEF StartInv, BootInv, LeaderUnanswered, Asks
<1>2. boot' = [boot EXCEPT ![n] = b]
      /\ UNCHANGED <<log, kv, leader, up, att, running, votes, ver, owed, starts>>
  BY DEF LeaderUnanswered
<1>3. faults' \in 0 .. MaxFaults
  BY CallFailsCounts DEF LeaderUnanswered, StartInv, CoreInv, TypeInv, RestInv
<1>4. todo \in SUBSET Node
  BY <1>1 DEF Boot
<1> HIDE DEF todo
<1>5. b \in Boot /\ b.pc = "polling" /\ b.leaders = boot[n].leaders
      /\ b.copied = boot[n].copied /\ b.copy = boot[n].copy
  BY <1>1, <1>4 DEF Boot
<1> HIDE DEF b
<1>6. boot' \in [Node -> Boot] /\ boot'[n] = b /\ \A j \in Node : j # n => boot'[j] = boot[j]
  BY <1>1, <1>2, <1>5
<1>7. FetchSound(n)'
  BY <1>1, <1>2, <1>5, <1>6 DEF BootSound, FetchSound, Decided, Voters, Requested
<1>8. boot'[n].leaders \subseteq Requested(LeaderKey)' \cup Flagged
  BY <1>1, <1>2, <1>5, <1>6 DEF BootSound, Requested
<1>9. BootSound(n)'
  BY <1>1, <1>2, <1>5, <1>6, <1>7, <1>8 DEF BootSound
<1> QED BY <1>2, <1>3, <1>6, <1>9, BootOnly

\* The election is lost, or over: won, the candidate has a leader.
LEMMA ElectionStep ==
  ASSUME StartInv, NEW n \in Node, ElectionLost(n) \/ ElectionOver(n)
  PROVE  StartInv'
<1>1. UNCHANGED <<log, kv, leader, up, att, running, votes, ver, owed, starts>> /\ boot[n].pc # "off"
  BY DEF ElectionLost, ElectionOver
<1>2. faults' \in 0 .. MaxFaults
  BY CallFailsCounts DEF ElectionLost, ElectionOver, StartInv, CoreInv, TypeInv, RestInv
<1>3. \/ boot' = [boot EXCEPT ![n] = Finished]
      \/ /\ boot' = [boot EXCEPT ![n] = At("recovering", {})]
         /\ boot[n].pc = "electing" /\ att[boot[n].election].pc = "ok"
  BY DEF ElectionLost, ElectionOver
<1>4. boot[n].pc = "electing" /\ att[boot[n].election].pc = "ok" => leader[n] # Nothing
  BY DEF StartInv, BootInv, BootSound
<1> QED BY <1>1, <1>2, <1>3, <1>4, LocalsReset

\* Copying ends the work when nothing is left to store.
LEMMA CopyingBoot ==
  ASSUME NEW b \in Boot
  PROVE  Copying(b) = Finished \/ Copying(b) = b
BY DEF Copying

\* get_db is about to be called, or there is no need to, or nobody to call.
LEMMA AskStoreStep ==
  ASSUME StartInv, NEW n \in Node, AskStore(n) \/ AskNobody(n)
  PROVE  StartInv'
<1> DEFINE b == At("fetching", {leader[n]})
<1>1. CASE AskNobody(n)
  BY <1>1, StopStep DEF AskNobody
<1>2. CASE AskStore(n)
  <2>1. boot \in [Node -> Boot] /\ BootSound(n) /\ boot[n].pc = "recovering" /\ leader[n] \in Node
    BY <1>2 DEF StartInv, BootInv, BootSound, AskStore
  <2>2. /\ UNCHANGED <<log, kv, leader, up, att, running, faults, votes, ver, owed, starts>>
        /\ boot' = [boot EXCEPT ![n] = Finished] \/ boot' = [boot EXCEPT ![n] = b]
    BY <1>2 DEF AskStore, vars
  <2>3. faults' \in 0 .. MaxFaults
    BY <2>2 DEF StartInv, CoreInv, TypeInv, RestInv
  <2>4. b \in Boot /\ b.pc = "fetching" /\ b.leaders = {} /\ b.copied = [k \in DataKey |-> -1]
    BY <2>1, AtBoot
  <2> HIDE DEF b
  <2>5. CASE boot' = [boot EXCEPT ![n] = Finished]
    BY <2>1, <2>2, <2>3, <2>5, LocalsReset
  <2>6. CASE boot' = [boot EXCEPT ![n] = b]
    <3>1. boot' \in [Node -> Boot] /\ boot'[n] = b /\ \A j \in Node : j # n => boot'[j] = boot[j]
      BY <2>1, <2>4, <2>6
    <3>2. up'[n]
      BY <2>1, <2>2 DEF BootSound
    <3>3. BootSound(n)'
      BY <2>4, <3>1, <3>2, FreshBoot
    <3> QED BY <2>2, <2>3, <3>1, <3>3, BootOnly
  <2> QED BY <2>2, <2>5, <2>6
<1> QED BY <1>1, <1>2

\* get_db is answered: the store of the leader holds decided values.
LEMMA StoreAnsweredStep ==
  ASSUME StartInv, NEW n \in Node, NEW l \in Node, StoreAnswered(n, l)
  PROVE  StartInv'
<1> DEFINE copy == kv[l]
           copied == [k \in DataKey |-> ver[l][k]]
           b == [At("copying", {}) EXCEPT !.copy = copy, !.copied = copied]
<1>1. boot \in [Node -> Boot] /\ BootSound(n) /\ boot[n].pc = "fetching"
  BY DEF StartInv, BootInv, StoreAnswered
<1>2. UNCHANGED <<log, kv, leader, up, att, running, faults, votes, ver, owed, starts>>
  BY DEF StoreAnswered, vars
<1>3. faults' \in 0 .. MaxFaults
  BY <1>2 DEF StartInv, CoreInv, TypeInv, RestInv
<1>4. boot' = [boot EXCEPT ![n] = Copying(b)]
  BY DEF StoreAnswered
<1>5. copy \in [DataKey -> Payload \cup {Nothing}] /\ copied \in [DataKey -> Round \cup {-1}]
  BY DEF StartInv, CoreInv, TypeInv, RestInv, Key
<1>6. \A k \in DataKey : copied[k] # -1 => Decided(k, copied[k], copy[k]) /\ copy[k] \in Requested(k)
  <2> SUFFICES ASSUME NEW k \in DataKey, ver[l][k] # -1
               PROVE  Decided(k, ver[l][k], kv[l][k]) /\ kv[l][k] \in Requested(k)
    OBVIOUS
  <2>1. k \in Key /\ k # LeaderKey
    BY ConstantsAssumption DEF Key
  <2> QED BY <2>1 DEF StartInv, CoreInv, DecisionInv, StoredIsDecided, Held, ValidInv, StoresValid
<1> HIDE DEF copy, copied
<1>7. b \in Boot /\ b.pc = "copying" /\ b.leaders = {} /\ b.copy = copy /\ b.copied = copied
  <2>1. At("copying", {}) \in Boot /\ At("copying", {}).pc = "copying" /\ At("copying", {}).leaders = {}
    BY AtBoot
  <2> QED BY <1>5, <2>1 DEF Boot
<1> HIDE DEF b
<1>8. CASE boot' = [boot EXCEPT ![n] = Finished]
  BY <1>1, <1>2, <1>3, <1>8, LocalsReset
<1>9. CASE boot' = [boot EXCEPT ![n] = b]
  <2>1. boot' \in [Node -> Boot] /\ boot'[n] = b /\ \A j \in Node : j # n => boot'[j] = boot[j]
    BY <1>1, <1>7, <1>9
  <2>2. FetchSound(n)'
    BY <1>2, <1>6, <1>7, <2>1 DEF FetchSound, Decided, Voters, Requested
  <2>3. BootSound(n)'
    BY <1>1, <1>2, <1>7, <2>1, <2>2 DEF BootSound
  <2> QED BY <1>2, <1>3, <2>1, <2>3, BootOnly
<1> QED BY <1>4, <1>7, <1>8, <1>9, CopyingBoot

\* get_db fails, or nothing is ever heard of it.
LEMMA StoreUnansweredStep ==
  ASSUME StartInv, NEW n \in Node, NEW m \in Node, StoreFailed(n, m) \/ StoreLost(n, m)
  PROVE  StartInv'
<1> DEFINE b == [boot[n] EXCEPT !.pc = "hanging"]
<1>1. boot \in [Node -> Boot] /\ BootSound(n) /\ boot[n] \in Boot
      /\ boot[n].pc \in {"fetching", "hanging"}
  BY DEF StartInv, BootInv, StoreFailed, StoreLost
<1>2. UNCHANGED <<log, kv, leader, up, att, running, votes, ver, owed, starts>>
  BY DEF StoreFailed, StoreLost
<1>3. faults' \in 0 .. MaxFaults
  BY CallFailsCounts DEF StoreFailed, StoreLost, StartInv, CoreInv, TypeInv, RestInv
<1>4. boot' = [boot EXCEPT ![n] = Finished] \/ boot' = [boot EXCEPT ![n] = b]
  BY DEF StoreFailed, StoreLost
<1>5. /\ b \in Boot /\ b.pc = "hanging" /\ b.leaders = boot[n].leaders
      /\ b.copied = boot[n].copied /\ b.copy = boot[n].copy
  BY <1>1 DEF Boot
<1> HIDE DEF b
<1>6. CASE boot' = [boot EXCEPT ![n] = Finished]
  BY <1>1, <1>2, <1>3, <1>6, LocalsReset
<1>7. CASE boot' = [boot EXCEPT ![n] = b]
  <2>1. boot' \in [Node -> Boot] /\ boot'[n] = b /\ \A j \in Node : j # n => boot'[j] = boot[j]
    BY <1>1, <1>5, <1>7
  <2>2. FetchSound(n)'
    BY <1>1, <1>2, <1>5, <2>1 DEF BootSound, FetchSound, Decided, Voters, Requested
  <2>3. boot'[n].leaders \subseteq Requested(LeaderKey)' \cup Flagged
    BY <1>1, <1>2, <1>5, <2>1 DEF BootSound, Requested
  <2>4. BootSound(n)'
    BY <1>1, <1>2, <1>5, <2>1, <2>2, <2>3 DEF BootSound
  <2> QED BY <1>2, <1>3, <2>1, <2>4, BootOnly
<1> QED BY <1>4, <1>6, <1>7

\* coordinate takes a leader: no value of the store moves.
LEMMA LeaderTaken ==
  ASSUME StartInv, NEW n \in Node, UNCHANGED <<log, kv, up, att, running, faults, votes>>,
         \E l \in Node : leader' = [leader EXCEPT ![n] = l] /\ l \in AskedFor,
         ver' = [ver EXCEPT ![n][LeaderKey] = -1]
  PROVE  CoreInv'
<1>1. PICK l \in Node : leader' = [leader EXCEPT ![n] = l] /\ l \in AskedFor
  OBVIOUS
<1>2. LeaderKey \in Key /\ l \in Payload
  BY DEF Key, Payload
<1>3. /\ leader \in [Node -> Payload \cup {Nothing}] /\ ver \in [Node -> [Key -> Round \cup {-1}]]
      /\ StoredIsDecided /\ StoresValid /\ LeadersValid
  BY DEF StartInv, CoreInv, TypeInv, RestInv, DecisionInv, ValidInv
<1>4. leader' \in [Node -> Payload \cup {Nothing}] /\ ver' \in [Node -> [Key -> Round \cup {-1}]]
  BY <1>1, <1>2, <1>3
<1>5. RestInv'
  BY <1>4 DEF StartInv, CoreInv, TypeInv, RestInv
<1>6. \A m \in Node : leader'[m] \in AskedFor
  BY <1>1, <1>3 DEF LeadersValid, AskedFor
<1>7. \A m \in Node, k \in Key : ver'[m][k] = ver[m][k] \/ (m = n /\ k = LeaderKey /\ ver'[m][k] = -1)
  BY <1>2, <1>3
<1>8. \A m \in Node, k \in DataKey : ver'[m][k] # -1 => kv'[m][k] \in Requested(k)
  <2>1. \A k \in DataKey : k \in Key
    BY DEF Key
  <2> QED BY <1>3, <1>7, <2>1 DEF StoresValid
<1>9. ASSUME NEW m \in Node, NEW k \in Key, ver'[m][k] # -1
      PROVE  Decided(k, ver'[m][k], Held(m, k)')
  <2>1. ver'[m][k] = ver[m][k] /\ ~ (m = n /\ k = LeaderKey)
    <3>1. m = n /\ k = LeaderKey => ver'[m][k] = -1
      BY <1>2, <1>3
    <3> QED BY <1>7, <1>9, <3>1
  <2>2. Held(m, k)' = Held(m, k)
    BY <1>1, <1>3, <2>1 DEF Held
  <2> QED BY <1>3, <1>9, <2>1, <2>2 DEF StoredIsDecided
<1> QED BY <1>5, <1>6, <1>8, <1>9, QuietKeeps DEF StartInv

\* The members that answered agree on a leader.
LEMMA TakeLeaderStep ==
  ASSUME StartInv, NEW n \in Node, TakeLeader(n)
  PROVE  StartInv'
<1> DEFINE l == CHOOSE x \in boot[n].leaders : TRUE
           b == At("recovering", {})
<1>1. boot \in [Node -> Boot] /\ BootSound(n) /\ boot[n].pc = "polling"
  BY DEF StartInv, BootInv, TakeLeader
<1>2. \E x \in boot[n].live : boot[n].leaders = {x}
  BY DEF TakeLeader, FoundLeader
<1>3. l \in Node /\ l \in AskedFor
  <2>1. boot[n].live \in SUBSET Node /\ l \in boot[n].leaders
    BY <1>1, <1>2 DEF BootSound, Boot
  <2> QED BY <1>1, <1>2, <2>1 DEF BootSound, AskedFor
<1> HIDE DEF l
<1>4. /\ leader' = [leader EXCEPT ![n] = l] /\ ver' = [ver EXCEPT ![n][LeaderKey] = -1]
      /\ boot' = [boot EXCEPT ![n] = b]
      /\ UNCHANGED <<log, kv, up, att, running, faults, votes, owed, starts>>
  BY DEF TakeLeader, l
<1>5. CoreInv'
  BY <1>3, <1>4, LeaderTaken
<1>6. leader'[n] # Nothing /\ \A m \in Node : m # n => leader'[m] = leader[m]
  BY <1>3, <1>4, ConstantsAssumption DEF StartInv, CoreInv, TypeInv, RestInv, Payload
<1>7. b \in Boot /\ b.pc = "recovering" /\ b.leaders = {} /\ b.copied = [k \in DataKey |-> -1]
  BY AtBoot
<1> HIDE DEF b
<1>8. boot' \in [Node -> Boot] /\ boot'[n] = b /\ \A m \in Node : m # n => boot'[m] = boot[m]
  BY <1>1, <1>4, <1>7
<1>9. up'[n] /\ \A m \in Node : up'[m] = up[m]
  BY <1>1, <1>4 DEF BootSound
<1>10. BootSound(n)'
  BY <1>6, <1>7, <1>8, <1>9, FreshBoot
<1>11. BootInv'
  BY <1>4, <1>6, <1>8, <1>9, <1>10, OneBoots DEF StartInv
<1> QED BY <1>4, <1>5, <1>11 DEF StartInv

\* A flagged replica leads.
LEMMA LeadStep ==
  ASSUME StartInv, NEW n \in Node, Lead(n)
  PROVE  StartInv'
<1>1. boot \in [Node -> Boot] /\ BootSound(n) /\ boot[n].pc = "leading"
  BY DEF StartInv, BootInv, Lead
<1>2. n \in AskedFor
  BY <1>1 DEF BootSound, AskedFor
<1>3. /\ leader' = [leader EXCEPT ![n] = n] /\ ver' = [ver EXCEPT ![n][LeaderKey] = -1]
      /\ boot' = [boot EXCEPT ![n] = Finished]
      /\ UNCHANGED <<log, kv, up, att, running, faults, votes, owed, starts>>
  BY DEF Lead
<1>4. CoreInv'
  BY <1>2, <1>3, LeaderTaken
<1>5. \A m \in Node : m # n => leader'[m] = leader[m]
  BY <1>3 DEF StartInv, CoreInv, TypeInv, RestInv
<1>6. Finished \in Boot /\ Finished.pc = "done" /\ Finished.leaders = {}
      /\ Finished.copied = [k \in DataKey |-> -1]
  BY AtBoot DEF Finished
<1>7. boot' \in [Node -> Boot] /\ boot'[n] = Finished /\ \A m \in Node : m # n => boot'[m] = boot[m]
  BY <1>1, <1>3, <1>6
<1>8. up'[n] /\ \A m \in Node : up'[m] = up[m]
  BY <1>1, <1>3 DEF BootSound
<1>9. BootSound(n)'
  BY <1>6, <1>7, <1>8, FreshBoot
<1>10. BootInv'
  BY <1>3, <1>5, <1>7, <1>8, <1>9, OneBoots DEF StartInv
<1> QED BY <1>3, <1>4, <1>10 DEF StartInv

\* A process starts: what it stores, nothing, is accounted for.
LEMMA StartKeepsCore ==
  ASSUME StartInv, NEW n \in Node, Start(n)
  PROVE  CoreInv'
<1>1. /\ log' = [log EXCEPT ![n] = [k \in Key |-> EmptyLog]]
      /\ kv' = [kv EXCEPT ![n] = [k \in DataKey |-> Nothing]]
      /\ leader' = [leader EXCEPT ![n] = Nothing]
      /\ ver' = [ver EXCEPT ![n] = [k \in Key |-> -1]]
      /\ up' = [up EXCEPT ![n] = TRUE]
      /\ UNCHANGED <<att, running, faults, votes>>
  BY DEF Start
<1>2. /\ kv \in [Node -> [DataKey -> Payload \cup {Nothing}]]
      /\ leader \in [Node -> Payload \cup {Nothing}] /\ ver \in [Node -> [Key -> Round \cup {-1}]]
      /\ up \in [Node -> BOOLEAN]
      /\ StoredIsDecided /\ StoresValid /\ LeadersValid
  BY DEF StartInv, CoreInv, TypeInv, RestInv, DecisionInv, ValidInv
<1>3. RestInv'
  <2>1. kv' \in [Node -> [DataKey -> Payload \cup {Nothing}]]
    BY <1>1, <1>2
  <2>2. leader' \in [Node -> Payload \cup {Nothing}] /\ ver' \in [Node -> [Key -> Round \cup {-1}]]
    BY <1>1, <1>2
  <2>3. up' \in [Node -> BOOLEAN]
    BY <1>1, <1>2
  <2> QED BY <1>1, <2>1, <2>2, <2>3 DEF StartInv, CoreInv, TypeInv, RestInv
<1>4. \A m \in Node : leader'[m] \in AskedFor
  BY <1>1, <1>2 DEF LeadersValid, AskedFor
<1>5. ASSUME NEW m \in Node, NEW k \in Key, ver'[m][k] # -1
      PROVE  m # n /\ ver'[m] = ver[m] /\ kv'[m] = kv[m] /\ leader'[m] = leader[m]
  BY <1>1, <1>2, <1>5
<1>6. \A m \in Node, k \in Key : ver'[m][k] # -1 => Decided(k, ver'[m][k], Held(m, k)')
  BY <1>2, <1>5 DEF StoredIsDecided, Held
<1>7. \A m \in Node, k \in DataKey : ver'[m][k] # -1 => kv'[m][k] \in Requested(k)
  BY <1>2, <1>5 DEF StoresValid, Key
<1> QED BY <1>1, <1>3, <1>4, <1>6, <1>7, QuietKeeps DEF StartInv

\* A process starts, and is owed what has been acknowledged.
LEMMA StartStep ==
  ASSUME StartInv, NEW n \in Node, Start(n)
  PROVE  StartInv'
<1> DEFINE b == IF n \in Flagged THEN At("leading", {}) ELSE At("polling", Node)
<1>1. CoreInv'
  BY StartKeepsCore
<1>2. /\ boot' = [boot EXCEPT ![n] = b] /\ leader' = [leader EXCEPT ![n] = Nothing]
      /\ up' = [up EXCEPT ![n] = TRUE] /\ UNCHANGED <<att, votes>>
      /\ starts < MaxStarts /\ starts' = starts + 1
      /\ owed' = [owed EXCEPT ![n] = [k \in DataKey |-> Latest(Acknowledged(k))]]
  BY DEF Start
<1>3. /\ boot \in [Node -> Boot] /\ leader \in [Node -> Payload \cup {Nothing}]
      /\ up \in [Node -> BOOLEAN] /\ AttInv
  BY DEF StartInv, BootInv, CoreInv, TypeInv, RestInv
<1>4. /\ b \in Boot /\ b.pc \in {"leading", "polling"} /\ (b.pc = "leading" => n \in Flagged)
      /\ b.leaders = {} /\ b.copied = [k \in DataKey |-> -1]
  <2>1. Node \in SUBSET Node /\ {} \in SUBSET Node
    OBVIOUS
  <2> QED BY <2>1, AtBoot
<1> HIDE DEF b
<1>5. boot' \in [Node -> Boot] /\ boot'[n] = b /\ \A m \in Node : m # n => boot'[m] = boot[m]
  BY <1>2, <1>3, <1>4
<1>6. up'[n] /\ \A m \in Node : m # n => up'[m] = up[m]
  BY <1>2, <1>3
<1>7. \A m \in Node : m # n => leader'[m] = leader[m]
  BY <1>2, <1>3
<1>8. BootSound(n)'
  BY <1>4, <1>5, <1>6, FreshBoot
<1>9. BootInv'
  BY <1>2, <1>5, <1>6, <1>7, <1>8, OneBoots DEF StartInv
<1>10. owed' \in [Node -> [DataKey -> Round \cup {-1}]]
  <2>1. \A k \in DataKey : Acknowledged(k) \in SUBSET Round
    BY <1>3 DEF Acknowledged, AttInv, GoodTask, Task
  <2>2. \A k \in DataKey : Latest(Acknowledged(k)) \in Round \cup {-1}
    BY <2>1, LatestIsRound
  <2>3. [k \in DataKey |-> Latest(Acknowledged(k))] \in [DataKey -> Round \cup {-1}]
    BY <2>2
  <2> QED BY <1>2, <2>3 DEF StartInv
<1>11. starts' \in 0 .. MaxStarts
  BY <1>2, StartsAssumption DEF StartInv
<1> QED BY <1>1, <1>9, <1>10, <1>11 DEF StartInv

\* Set_KV of a fetched value.
LEMMA CopyKeepsCore ==
  ASSUME StartInv, NEW n \in Node, NEW k \in DataKey, CopyKey(n, k)
  PROVE  CoreInv'
<1> DEFINE v == boot[n].copy[k]
           r == boot[n].copied[k]
<1>1. boot[n] \in Boot /\ FetchSound(n)
  BY DEF StartInv, BootInv, BootSound
<1>2. v \in Payload \cup {Nothing} /\ r \in Round \cup {-1} /\ k \in Key /\ k # LeaderKey
  BY <1>1, ConstantsAssumption DEF Boot, Key
<1>3. r # -1 => Decided(k, r, v) /\ v \in Requested(k)
  BY <1>1 DEF FetchSound
<1> HIDE DEF v, r
<1>4. /\ kv' = [kv EXCEPT ![n][k] = v] /\ ver' = [ver EXCEPT ![n][k] = r]
      /\ UNCHANGED <<log, leader, up, att, running, faults, votes>>
  BY DEF CopyKey, v, r
<1>5. /\ kv \in [Node -> [DataKey -> Payload \cup {Nothing}]] /\ ver \in [Node -> [Key -> Round \cup {-1}]]
      /\ StoredIsDecided /\ StoresValid /\ LeadersValid
  BY DEF StartInv, CoreInv, TypeInv, RestInv, DecisionInv, ValidInv
<1>6. RestInv'
  <2>1. kv' \in [Node -> [DataKey -> Payload \cup {Nothing}]]
    BY <1>2, <1>4, <1>5
  <2>2. ver' \in [Node -> [Key -> Round \cup {-1}]]
    BY <1>2, <1>4, <1>5
  <2> QED BY <1>4, <2>1, <2>2 DEF StartInv, CoreInv, TypeInv, RestInv
<1>7. \A m \in Node, j \in DataKey :
        IF m = n /\ j = k THEN kv'[m][j] = v ELSE kv'[m][j] = kv[m][j]
  BY <1>4, <1>5
<1>8. \A m \in Node, j \in Key :
        IF m = n /\ j = k THEN ver'[m][j] = r ELSE ver'[m][j] = ver[m][j]
  BY <1>2, <1>4, <1>5
<1>9. ASSUME NEW m \in Node, NEW j \in Key, ver'[m][j] # -1
      PROVE  /\ Decided(j, ver'[m][j], Held(m, j)')
             /\ j \in DataKey => kv'[m][j] \in Requested(j)
  <2>1. CASE m = n /\ j = k
    BY <1>2, <1>3, <1>7, <1>8, <1>9, <2>1 DEF Held
  <2>2. CASE ~ (m = n /\ j = k)
    <3>1. ver'[m][j] = ver[m][j] /\ (j \in DataKey => kv'[m][j] = kv[m][j])
      BY <1>7, <1>8, <2>2
    <3>2. Held(m, j)' = Held(m, j)
      BY <1>4, <3>1 DEF Held, Key
    <3> QED BY <1>5, <1>9, <3>1, <3>2 DEF StoredIsDecided, StoresValid
  <2> QED BY <2>1, <2>2
<1>10. \A m \in Node : leader'[m] \in AskedFor
  BY <1>4, <1>5 DEF LeadersValid, AskedFor
<1>11. /\ \A m \in Node, j \in Key : ver'[m][j] # -1 => Decided(j, ver'[m][j], Held(m, j)')
       /\ \A m \in Node, j \in DataKey : ver'[m][j] # -1 => kv'[m][j] \in Requested(j)
  BY <1>9 DEF Key
<1> QED BY <1>4, <1>6, <1>10, <1>11, QuietKeeps DEF StartInv

\* One key of the leader's store is copied.
LEMMA CopyKeyStep ==
  ASSUME StartInv, NEW n \in Node, NEW k \in DataKey, CopyKey(n, k)
  PROVE  StartInv'
<1> DEFINE b == [boot[n] EXCEPT !.copy[k] = Nothing, !.copied[k] = -1]
<1>1. boot \in [Node -> Boot] /\ BootSound(n) /\ boot[n] \in Boot /\ boot[n].pc = "copying"
  BY DEF StartInv, BootInv, CopyKey
<1>2. CoreInv'
  BY CopyKeepsCore
<1>3. UNCHANGED <<att, votes, leader, up, owed, starts>>
      /\ (boot' = [boot EXCEPT ![n] = Finished] \/ boot' = [boot EXCEPT ![n] = b])
  BY DEF CopyKey, Copying
<1>4. /\ b \in Boot /\ b.pc = "copying" /\ b.leaders = boot[n].leaders
      /\ \A j \in DataKey : b.copied[j] # -1 =>
           b.copied[j] = boot[n].copied[j] /\ b.copy[j] = boot[n].copy[j]
  <2> DEFINE copy == [boot[n].copy EXCEPT ![k] = Nothing]
             copied == [boot[n].copied EXCEPT ![k] = -1]
  <2>1. copy \in [DataKey -> Payload \cup {Nothing}] /\ copied \in [DataKey -> Round \cup {-1}]
        /\ \A j \in DataKey : copied[j] # -1 =>
             copied[j] = boot[n].copied[j] /\ copy[j] = boot[n].copy[j]
    BY <1>1 DEF Boot
  <2>2. b = [boot[n] EXCEPT !.copy = copy, !.copied = copied]
    BY <1>1 DEF Boot
  <2> HIDE DEF copy, copied, b
  <2> QED BY <1>1, <2>1, <2>2 DEF Boot
<1>5. Finished \in Boot /\ Finished.pc = "done" /\ Finished.leaders = {}
      /\ Finished.copied = [j \in DataKey |-> -1]
  BY AtBoot DEF Finished
<1> HIDE DEF b
<1>6. boot' \in [Node -> Boot] /\ (boot'[n] = Finished \/ boot'[n] = b)
      /\ \A m \in Node : m # n => boot'[m] = boot[m]
  BY <1>1, <1>3, <1>4, <1>5
<1>7. up'[n] /\ \A m \in Node : up'[m] = up[m]
  BY <1>1, <1>3 DEF BootSound
<1>8. CASE boot'[n] = Finished
  <2>1. BootSound(n)'
    BY <1>5, <1>7, <1>8, FreshBoot
  <2> QED BY <1>2, <1>3, <1>6, <1>7, <2>1, OneBoots DEF StartInv
<1>9. CASE boot'[n] = b
  <2>1. FetchSound(n)'
    BY <1>1, <1>3, <1>4, <1>9 DEF BootSound, FetchSound, Decided, Voters, Requested
  <2>2. boot'[n].leaders \subseteq Requested(LeaderKey)' \cup Flagged
    BY <1>1, <1>3, <1>4, <1>9 DEF BootSound, Requested
  <2>3. BootSound(n)'
    BY <1>4, <1>7, <1>9, <2>1, <2>2 DEF BootSound
  <2> QED BY <1>2, <1>3, <1>6, <1>7, <2>3, OneBoots DEF StartInv
<1> QED BY <1>6, <1>8, <1>9

-----------------------------------------------------------------------------
\* coordinate's steps.
LEMMA CoordinateStep ==
  ASSUME StartInv, NEW n \in Node, Coordinate(n)
  PROVE  StartInv'
BY LeadStep, TakeLeaderStep, AskStoreStep, StoreAnsweredStep, StoreUnansweredStep, ElectSelfStep,
   ElectionStep, LeaderAnsweredStep, LeaderUnansweredStep, CopyKeyStep DEF Coordinate

\* Every step keeps the invariant.
LEMMA StartNextKeeps ==
  ASSUME StartInv, [StartNext]_startVars
  PROVE  StartInv'
<1>1. CASE UNCHANGED startVars
  <2>1. UNCHANGED <<vars, boot, owed, starts>>
    BY <1>1 DEF startVars
  <2>2. CoreInv' /\ Grows /\ OkHasLeader
    BY <2>1, NextKeeps DEF StartInv
  <2>3. UNCHANGED up
    BY <2>1 DEF vars
  <2>4. \A n \in Node : BootSound(n)'
    BY <2>1, <2>2, <2>3, BootStays DEF StartInv, BootInv, Grows
  <2> QED BY <2>1, <2>2, <2>4 DEF StartInv, BootInv
<1>2. CASE StartNext
  BY <1>2, ProtocolStep, StopStep, StartStep, CoordinateStep, ConstantsAssumption DEF StartNext
<1> QED BY <1>1, <1>2

\* Replicas that run and know their leader or none.
LEMMA StartsSound == StartInit => StartInv
<1> SUFFICES ASSUME StartInit PROVE StartInv
  OBVIOUS
<1>1. Init
  BY DEF StartInit
<1>2. TypeInv /\ DecisionInv /\ ValidInv
  BY <1>1, InitTypes, InitDecides, InitValid
<1>3. Finished \in Boot /\ Finished.pc = "done" /\ Finished.leaders = {}
      /\ Finished.copied = [k \in DataKey |-> -1]
  BY AtBoot DEF Finished
<1>4. boot = [n \in Node |-> Finished] /\ up = [n \in Node |-> TRUE]
  BY <1>1 DEF StartInit, Init
<1>5. BootInv
  BY <1>3, <1>4 DEF BootInv, BootSound, FetchSound
<1>6. owed \in [Node -> [DataKey -> Round \cup {-1}]] /\ starts \in 0 .. MaxStarts
  BY StartsAssumption DEF StartInit
<1> QED BY <1>2, <1>5, <1>6 DEF StartInv, CoreInv

\* The inductive form: what the replicas of Consensus keep, replicas that crash and
\* start again keep too.
LEMMA StartInvariant == StartSpec => []StartInv
BY StartsSound, StartNextKeeps, PTL DEF StartSpec

\* Every variable keeps its type over crashes and starts, and coordinate has locals
\* exactly while its process runs.
THEOREM StartTypeCorrect == StartSpec => []StartTypeOK
<1>1. StartInv => StartTypeOK
  BY TypeInvImpliesTypeOK DEF StartInv, CoreInv, BootInv, BootSound, StartTypeOK
<1> QED BY <1>1, StartInvariant, PTL

\* A replica that starts with nothing and copies another's store, while values are
\* written, leaders fall and calls fail, still holds only what a quorum accepted.
THEOREM CopiesAreDecided == StartSpec => []StoredIsDecided
<1>1. StartInv => StoredIsDecided
  BY DEF StartInv, CoreInv, DecisionInv
<1> QED BY <1>1, StartInvariant, PTL

\* Nor does a start, an election of one's own or a copy bring in a value nobody asked
\* for, or a leader that neither asked to lead nor was written by a client.
THEOREM CopiesAreRequested == StartSpec => [](Validity /\ LeaderIsCandidate)
<1>1. StartInv => Validity /\ LeaderIsCandidate
  BY AskedByWhom DEF StartInv, CoreInv, ValidInv, LogsValid, BackedLog, StoresValid, Validity,
                     LeadersValid, LeaderIsCandidate
<1> QED BY <1>1, StartInvariant, PTL
=============================================================================
