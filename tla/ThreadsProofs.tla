--------------------------- MODULE ThreadsProofs ---------------------------
(***************************************************************************)
(* Proofs about ReplicaThreads for every number of threads and rounds.     *)
(***************************************************************************)
EXTENDS ReplicaThreads, FiniteSetTheorems, TLAPS

\* ThreadsTypeOK in two parts: types, and who holds a mutex.
Types ==
  /\ log \in [Round -> Entry(Value \cup {Nothing}) \cup {Absent}]
  /\ store \in Value \cup {Nothing}
  /\ log_mutex \in Thread \cup {Free} /\ data_mutex \in Thread \cup {Free}
  /\ incount \in [Method -> Nat]
  /\ pc \in [Thread -> Place]
  /\ call \in [Thread -> Call]
  /\ seen \in [Thread -> Nat]
  /\ number \in [Thread -> {0, ProposeId}] /\ value \in [Thread -> Value \cup {Nothing}]
  /\ counts \in [Thread -> [Method -> Nat]]

Held ==
  \A t \in Thread :
    /\ log_mutex = t <=> pc[t] \in {"touch", "number", "value"}
    /\ data_mutex = t <=> pc[t] = "store"

-----------------------------------------------------------------------------
(* Entries and calls.                                                      *)

\* A mutex nobody holds is held by no thread.
LEMMA FreeIsNoThread == Free \notin Thread
  BY DEF Free, Thread

\* What operator[] finds or inserts is an entry.
LEMMA EntryOfRound ==
  ASSUME NEW V, Nothing \in V,
         NEW lg \in [Round -> Entry(V) \cup {Absent}], NEW r \in Round
  PROVE  EntryAt(lg, r) \in Entry(V)
<1>1. NewEntry \in Entry(V)
  BY DEF NewEntry, Entry, ProposeId
<1> QED BY <1>1 DEF EntryAt

\* An entry stays one when a field of it is assigned.
LEMMA EntryFields ==
  ASSUME NEW V, NEW e \in Entry(V), NEW v \in V
  PROVE  /\ [e EXCEPT !.a_server_id = ProposeId] \in Entry(V)
         /\ [e EXCEPT !.accepted_value = v] \in Entry(V)
         /\ e.a_server_id \in {0, ProposeId} /\ e.accepted_value \in V
  BY DEF Entry, ProposeId

\* The types of a call's parts.
LEMMA CallFields ==
  ASSUME Types, NEW t \in Thread
  PROVE  call[t].method \in Method /\ call[t].round \in Round /\ call[t].arg \in Value \cup {Nothing}
  BY DEF Types, Call

-----------------------------------------------------------------------------
(* Types, and who holds a mutex.                                           *)

\* The replica starts with its mutexes free.
LEMMA TypeInit == Init => Types /\ Held
<1> SUFFICES ASSUME Init PROVE Types /\ Held
  OBVIOUS
<1>1. [method |-> "get", round |-> 0, arg |-> Nothing, known |-> FALSE] \in Call
  BY ThreadsAssumption DEF Call, Method, Round
<1> QED BY <1>1, FreeIsNoThread DEF Init, Types, Held, Place, ProposeId

\* A step that moves one thread between two places where it holds no mutex, or holds the
\* same one, moves no mutex.
LEMMA HeldMove ==
  ASSUME Types, Held, NEW t \in Thread, NEW p \in Place, Goes(t, p),
         UNCHANGED <<log_mutex, data_mutex>>,
         pc[t] \in {"touch", "number", "value"} <=> p \in {"touch", "number", "value"},
         pc[t] = "store" <=> p = "store"
  PROVE  Held'
  BY DEF Types, Held, Goes

\* A thread takes a mutex when it is free, and leaves it when it is done.
LEMMA TypeStep ==
  ASSUME Types, Held, NEW t \in Thread, Step(t)
  PROVE  Types' /\ Held'
<1>a. /\ call[t].method \in Method /\ call[t].round \in Round
      /\ call[t].arg \in Value \cup {Nothing}
  BY CallFields
<1>b. EntryAt(log, call[t].round) \in Entry(Value \cup {Nothing})
  BY <1>a, EntryOfRound DEF Types
<1>1. CASE ReadCount(t)
  BY <1>1, <1>a, HeldMove DEF ReadCount, At, Goes, Types, Place, shared, answers
<1>2. CASE WriteCount(t)
  <2> DEFINE p == Body(call[t].method)
  <2>1. p \in {"lock", "look", "find", "report"}
    BY <1>a DEF Body, Method
  <2>2. Goes(t, p) /\ At(t, "counting") /\ UNCHANGED <<log_mutex, data_mutex>>
    BY <1>2 DEF WriteCount
  <2>3. Held'
    BY <2>1, <2>2, HeldMove DEF At, Place
  <2>4. incount' \in [Method -> Nat]
    BY <1>2, <1>a DEF WriteCount, Types
  <2>5. seen' \in [Thread -> Nat]
    BY <1>2 DEF WriteCount, Types
  <2>6. pc' \in [Thread -> Place]
    BY <2>1, <2>2 DEF Goes, Types, Place
  <2> QED BY <1>2, <2>3, <2>4, <2>5, <2>6 DEF WriteCount, Types, answers
<1>3. CASE Report(t)
  BY <1>3, <1>a, HeldMove DEF Report, At, Goes, Types, Place, shared
<1>4. CASE Look(t)
  BY <1>4, <1>a, HeldMove DEF Look, At, Goes, Types, Place, shared, answers
<1>5. CASE Insert(t)
  <2>1. NewEntry \in Entry(Value \cup {Nothing})
    BY DEF NewEntry, Entry, ProposeId
  <2>2. log' \in [Round -> Entry(Value \cup {Nothing}) \cup {Absent}]
    BY <1>5, <1>a, <1>b, <2>1 DEF Insert, Touch, Types
  <2>3. Held'
    BY <1>5, HeldMove DEF Insert, At, Place
  <2> QED BY <1>5, <2>2, <2>3 DEF Insert, Goes, Types, Place, answers
<1>6. CASE LockLog(t)
  <2> DEFINE p == IF call[t].method = "propose" THEN "touch" ELSE "number"
  <2>1. /\ log_mutex = Free /\ log_mutex' = t /\ Goes(t, p) /\ At(t, "lock")
        /\ data_mutex' = data_mutex
    BY <1>6 DEF LockLog
  <2>2. Held'
    BY <2>1, FreeIsNoThread DEF Held, Goes, At, Types
  <2>3. pc' \in [Thread -> Place] /\ log_mutex' \in Thread \cup {Free}
    BY <2>1 DEF Goes, Types, Place
  <2> QED BY <1>6, <2>2, <2>3 DEF LockLog, Types, answers
<1>7. CASE TouchEntry(t)
  BY <1>7, <1>a, <1>b, FreeIsNoThread DEF TouchEntry, Touch, At, Goes, Types, Held, Place, answers
<1>8. CASE SetNumber(t)
  <2> DEFINE e == [EntryAt(log, call[t].round) EXCEPT !.a_server_id = ProposeId]
  <2>1. e \in Entry(Value \cup {Nothing})
    BY <1>b, EntryFields
  <2>2. log' = [log EXCEPT ![call[t].round] = e]
    BY <1>8 DEF SetNumber
  <2>3. log' \in [Round -> Entry(Value \cup {Nothing}) \cup {Absent}]
    BY <1>a, <2>1, <2>2 DEF Types
  <2>4. Held'
    BY <1>8, HeldMove DEF SetNumber, At, Place
  <2> QED BY <1>8, <2>3, <2>4 DEF SetNumber, Goes, Types, Place, answers
<1>9. CASE SetValue(t)
  <2> DEFINE e == [EntryAt(log, call[t].round) EXCEPT !.accepted_value = call[t].arg]
             p == IF call[t].method = "accept" THEN "done" ELSE "scan"
  <2>1. e \in Entry(Value \cup {Nothing})
    BY <1>a, <1>b, EntryFields
  <2>2. log' = [log EXCEPT ![call[t].round] = e]
    BY <1>9 DEF SetValue
  <2>3. log' \in [Round -> Entry(Value \cup {Nothing}) \cup {Absent}]
    BY <1>a, <2>1, <2>2 DEF Types
  <2>4. log_mutex' = Free /\ Goes(t, p) /\ At(t, "value") /\ data_mutex' = data_mutex
    BY <1>9 DEF SetValue
  <2>5. Held'
    BY <2>4, FreeIsNoThread DEF Held, Goes, At, Types
  <2>6. pc' \in [Thread -> Place] /\ log_mutex' \in Thread \cup {Free}
    BY <2>4 DEF Goes, Types, Place
  <2> QED BY <1>9, <2>3, <2>5, <2>6 DEF SetValue, Types, answers
<1>10. CASE CopyNumber(t) \/ CopyValue(t)
  <2>1. /\ EntryAt(log, call[t].round).a_server_id \in {0, ProposeId}
        /\ EntryAt(log, call[t].round).accepted_value \in Value \cup {Nothing}
    BY <1>b, EntryFields
  <2>2. CASE CopyNumber(t)
    BY <2>1, <2>2, HeldMove DEF CopyNumber, Goes, Types, Place, shared
  <2>3. CASE CopyValue(t)
    BY <2>1, <2>3, HeldMove DEF CopyValue, Goes, Types, Place, shared
  <2> QED BY <1>10, <2>2, <2>3
<1>11. CASE Scan(t)
  BY <1>11, HeldMove DEF Scan, At, Goes, Types, Place, shared, answers
<1>12. CASE LockStore(t)
  BY <1>12, FreeIsNoThread DEF LockStore, At, Goes, Types, Held, Place, answers
<1>13. CASE Store(t)
  BY <1>13, <1>a, FreeIsNoThread DEF Store, At, Goes, Types, Held, Place, answers
<1>14. CASE Find(t)
  BY <1>14, HeldMove DEF Find, At, Goes, Types, Place, shared, answers
<1>15. CASE Fetch(t)
  BY <1>15, HeldMove DEF Fetch, At, Goes, Types, Place, shared
<1> QED
  BY <1>1, <1>2, <1>3, <1>4, <1>5, <1>6, <1>7, <1>8, <1>9, <1>10, <1>11, <1>12, <1>13, <1>14,
     <1>15 DEF Step

\* A call that arrives holds no mutex.
LEMMA TypeArrive ==
  ASSUME Types, Held, NEW t \in Thread, NEW m \in Method, NEW r \in Round,
         NEW v \in Value \cup {Nothing}, Arrive(t, m, r, v)
  PROVE  Types' /\ Held'
<1>1. [method |-> m, round |-> r, arg |-> v, known |-> log[r] # Absent] \in Call
  BY DEF Call
<1>2. Held'
  BY HeldMove DEF Arrive, At, Place, shared
<1> QED BY <1>1, <1>2 DEF Arrive, Goes, Types, Place, shared, answers

\* What a step of the specification is: a call that arrives, a step of a thread, or none.
LEMMA NextCases ==
  ASSUME [Next]_vars
  PROVE  \/ \E t \in Thread, m \in Method, r \in Round, v \in Value \cup {Nothing} :
              Arrive(t, m, r, v)
         \/ \E t \in Thread : Step(t)
         \/ UNCHANGED vars
  BY ThreadsAssumption DEF Next, Quiet, Method, Round

\* Every variable keeps its type and each mutex has the holder its users think it has,
\* whatever the threads of Set_Log, Get_Log, Set_KV and Get_KV do in between.
THEOREM ThreadsTypeCorrect == Spec => []ThreadsTypeOK
<1>1. Types /\ Held /\ [Next]_vars => Types' /\ Held'
  <2>1. CASE UNCHANGED vars
    BY <2>1 DEF vars, shared, answers, Types, Held
  <2> QED BY <2>1, NextCases, TypeArrive, TypeStep
<1>2. Types /\ Held => ThreadsTypeOK
  BY DEF Types, Held, ThreadsTypeOK
<1> QED BY <1>1, <1>2, TypeInit, PTL DEF Spec

-----------------------------------------------------------------------------
(* The counts of Statistics.  CountsBounded is not inductive: what a thread  *)
(* has read and has yet to write is bounded by the calls counted so far.    *)

CountsInv ==
  /\ CountsBounded
  /\ \A t \in Thread, m \in Method :
       pc[t] = "counting" /\ call[t].method = m => seen[t] <= Cardinality(Counted(m))

\* Sets of threads can be counted.
LEMMA ThreadSets ==
  ASSUME NEW S \in SUBSET Thread
  PROVE  IsFiniteSet(S) /\ Cardinality(S) \in Nat
<1>1. IsFiniteSet(Thread)
  BY ThreadsAssumption, FS_Interval DEF Thread
<1> QED BY <1>1, FS_Subset, FS_CardinalityType

\* Nothing has been counted at first.
LEMMA CountsInit == Init => CountsInv
<1> SUFFICES ASSUME Init PROVE CountsInv
  OBVIOUS
<1>1. \A m \in Method : Counted(m) = {}
  BY DEF Init, Counted
<1>2. \A m \in Method : Cardinality(Counted(m)) = 0
  BY <1>1, FS_EmptySet
<1> QED BY <1>1, <1>2 DEF Init, CountsInv, CountsBounded

\* A step that counts no call leaves the invariant alone: incount stays, and get_stats
\* answers what it has read.
LEMMA CountsKept ==
  ASSUME Types, CountsInv, incount' = incount,
         \A m \in Method : Counted(m)' = Counted(m),
         \A t \in Thread : \/ counts'[t] = counts[t]
                           \/ counts'[t] = incount,
         \A t \in Thread : pc'[t] = "counting" =>
           \/ pc[t] = "counting" /\ call'[t] = call[t] /\ seen'[t] = seen[t]
           \/ call'[t] = call[t] /\ seen'[t] = incount[call[t].method]
  PROVE  CountsInv'
<1>1. ASSUME NEW m \in Method
      PROVE  /\ Cardinality(Counted(m)') = Cardinality(Counted(m))
             /\ incount[m] <= Cardinality(Counted(m))
             /\ Counted(m)' # {} => incount[m] > 0
  BY DEF CountsInv, CountsBounded
<1>2. CountsBounded'
  BY <1>1 DEF CountsInv, CountsBounded
<1>3. ASSUME NEW t \in Thread, NEW m \in Method, pc'[t] = "counting", call'[t].method = m
      PROVE  seen'[t] <= Cardinality(Counted(m)')
  BY <1>1, <1>3 DEF CountsInv
<1> QED BY <1>2, <1>3 DEF CountsInv

\* A count that is written is one more than what was read, and one more call is counted.
LEMMA CountsWrite ==
  ASSUME Types, CountsInv, NEW t \in Thread, NEW k \in Method, call[t].method = k, WriteCount(t)
  PROVE  CountsInv'
<1>1. seen[t] \in Nat /\ seen[t] <= Cardinality(Counted(k))
  BY DEF WriteCount, At, CountsInv, Types
<1>2. Body(k) \notin {"idle", "arrived", "counting"}
  BY <1>1 DEF Body, Method
<1>3. /\ Counted(k)' = Counted(k) \cup {t} /\ t \notin Counted(k)
      /\ \A m \in Method \ {k} : Counted(m)' = Counted(m)
  BY <1>2 DEF WriteCount, At, Goes, Counted, Types
<1>4. /\ Cardinality(Counted(k)') = Cardinality(Counted(k)) + 1
      /\ Cardinality(Counted(k)) \in Nat
  <2>1. IsFiniteSet(Counted(k)) /\ Cardinality(Counted(k)) \in Nat
    BY ThreadSets DEF Counted
  <2> QED BY <1>3, <2>1, FS_AddElement
<1>5. /\ \A m \in Method : Cardinality(Counted(m)) \in Nat
      /\ \A m \in Method : Cardinality(Counted(m)) <= Cardinality(Counted(m)')
  <2>1. \A m \in Method : Cardinality(Counted(m)) \in Nat
    BY ThreadSets DEF Counted
  <2>2. ASSUME NEW m \in Method
        PROVE  Cardinality(Counted(m)) <= Cardinality(Counted(m)')
    <3>1. CASE m = k
      BY <1>4, <3>1
    <3>2. CASE m # k
      BY <1>3, <2>1, <3>2
    <3> QED BY <3>1, <3>2
  <2> QED BY <2>1, <2>2
<1>6. incount' = [incount EXCEPT ![k] = seen[t] + 1] /\ counts' = counts
  BY DEF WriteCount, answers
<1>7. ASSUME NEW m \in Method
      PROVE  incount'[m] <= Cardinality(Counted(m)') /\ (Counted(m)' # {} => incount'[m] > 0)
  <2>1. CASE m = k
    BY <1>1, <1>4, <1>6, <2>1 DEF Types
  <2>2. CASE m # k
    BY <1>3, <1>6, <2>2 DEF Types, CountsInv, CountsBounded
  <2> QED BY <2>1, <2>2
<1>8. ASSUME NEW m \in Method, NEW s \in Thread
      PROVE  counts'[s][m] <= Cardinality(Counted(m)')
  <2>1. counts[s][m] \in Nat /\ counts[s][m] <= Cardinality(Counted(m))
    BY DEF Types, CountsInv, CountsBounded
  <2>2. Cardinality(Counted(m)') \in Nat
    BY ThreadSets DEF Counted
  <2> QED BY <1>5, <1>6, <2>1, <2>2
<1>9. ASSUME NEW s \in Thread, NEW m \in Method, pc'[s] = "counting", call'[s].method = m
      PROVE  seen'[s] <= Cardinality(Counted(m)')
  <2>1. s # t
    BY <1>2, <1>9 DEF WriteCount, Goes, Types
  <2>2. pc[s] = "counting" /\ seen'[s] = seen[s] /\ call' = call
    BY <1>9, <2>1 DEF WriteCount, Goes, Types
  <2>3. seen[s] \in Nat /\ seen[s] <= Cardinality(Counted(m))
    BY <1>9, <2>2 DEF CountsInv, Types
  <2>4. Cardinality(Counted(m)') \in Nat
    BY ThreadSets DEF Counted
  <2> QED BY <1>5, <2>2, <2>3, <2>4
<1> QED BY <1>7, <1>8, <1>9 DEF CountsInv, CountsBounded

\* A step that moves thread t from where its call is counted, to another such place.
LEMMA CountedSame ==
  ASSUME Types, NEW t \in Thread, NEW p, Goes(t, p), call' = call,
         pc[t] \in {"idle", "arrived", "counting"} <=> p \in {"idle", "arrived", "counting"}
  PROVE  \A m \in Method : Counted(m)' = Counted(m)
  BY DEF Types, Goes, Counted

\* Every other step leaves the counts, or reads one.
LEMMA CountsStep ==
  ASSUME Types, CountsInv, NEW t \in Thread, Step(t)
  PROVE  CountsInv'
<1> DEFINE k == call[t].method
<1>1. k \in Method
  BY CallFields
<1>2. CASE WriteCount(t)
  BY <1>1, <1>2, CountsWrite
<1>3. CASE ReadCount(t)
  <2>1. \A m \in Method : Counted(m)' = Counted(m)
    BY <1>3, CountedSame DEF ReadCount, At
  <2>2. \A s \in Thread : pc'[s] = "counting" =>
          \/ pc[s] = "counting" /\ seen'[s] = seen[s]
          \/ seen'[s] = incount[call[s].method]
    BY <1>3 DEF ReadCount, Goes, Types
  <2> QED BY <1>3, <2>1, <2>2, CountsKept DEF ReadCount, shared, answers
<1>4. CASE Report(t)
  <2>1. \A m \in Method : Counted(m)' = Counted(m)
    BY <1>4, CountedSame DEF Report, At
  <2>2. \A s \in Thread : pc'[s] = "counting" => pc[s] = "counting"
    BY <1>4 DEF Report, Goes, Types
  <2>3. \A s \in Thread : counts'[s] = counts[s] \/ counts'[s] = incount
    BY <1>4 DEF Report, Types
  <2> QED BY <1>4, <2>1, <2>2, <2>3, CountsKept DEF Report, shared
<1>5. CASE ~ (WriteCount(t) \/ ReadCount(t) \/ Report(t))
  <2>1. PICK p \in Place \ {"idle", "arrived", "counting"} : Goes(t, p)
    BY <1>5 DEF Step, Look, Insert, LockLog, TouchEntry, SetNumber, SetValue, CopyNumber,
                CopyValue, Scan, LockStore, Store, Find, Fetch, Place
  <2>2. /\ pc[t] \notin {"idle", "arrived", "counting"}
        /\ UNCHANGED <<incount, call, seen, counts>>
    BY <1>5 DEF Step, Look, Insert, LockLog, TouchEntry, SetNumber, SetValue, CopyNumber,
                CopyValue, Scan, LockStore, Store, Find, Fetch, At, shared, answers
  <2>3. \A m \in Method : Counted(m)' = Counted(m)
    BY <2>1, <2>2, CountedSame
  <2>4. \A s \in Thread : pc'[s] = "counting" => pc[s] = "counting"
    BY <2>1 DEF Goes, Types
  <2> QED BY <2>2, <2>3, <2>4, CountsKept
<1> QED BY <1>2, <1>3, <1>4, <1>5

\* A call that arrives is not counted yet.
LEMMA CountsArrive ==
  ASSUME Types, CountsInv, NEW t \in Thread, NEW m \in Method, NEW r \in Round,
         NEW v \in Value \cup {Nothing}, Arrive(t, m, r, v)
  PROVE  CountsInv'
<1>1. \A k \in Method : Counted(k)' = Counted(k)
  BY DEF Arrive, At, Goes, Types, Counted
<1>2. \A s \in Thread : pc'[s] = "counting" => pc[s] = "counting" /\ call'[s] = call[s]
  BY DEF Arrive, Goes, Types
<1> QED BY <1>1, <1>2, CountsKept DEF Arrive, shared, answers

\* Whatever the handler threads do to each other, no count of Statistics runs ahead of the
\* calls that were counted, nor does what get_stats answers, and a method that has been
\* called and counted does not show zero.
THEOREM CountsCorrect == Spec => []CountsBounded
<1>1. Types /\ Held /\ CountsInv /\ [Next]_vars => (Types /\ Held /\ CountsInv)'
  <2> SUFFICES ASSUME Types, Held, CountsInv, [Next]_vars
               PROVE  (Types /\ Held /\ CountsInv)'
    OBVIOUS
  <2>1. CASE UNCHANGED vars
    <3>1. Types' /\ Held'
      BY <2>1 DEF vars, shared, answers, Types, Held
    <3>2. \A m \in Method : Counted(m)' = Counted(m)
      BY <2>1 DEF vars, Counted
    <3> QED BY <2>1, <3>1, <3>2, CountsKept DEF vars, shared, answers
  <2> QED BY <2>1, NextCases, TypeArrive, TypeStep, CountsArrive, CountsStep
<1>2. Init => CountsInv
  BY CountsInit
<1>3. CountsInv => CountsBounded
  BY DEF CountsInv
<1> QED BY <1>1, <1>2, <1>3, TypeInit, PTL DEF Spec

-----------------------------------------------------------------------------
(* What an accept has written stays, as long as no accept has to insert its *)
(* round.                                                                   *)

\* The method whose handler is at each place.
InMethod ==
  \A t \in Thread :
    LET m == call[t].method
        p == pc[t]
    IN
    /\ p = "idle" => m = "get"
    /\ p = "lock" => m \in {"propose", "accept", "success"}
    /\ p \in {"touch", "copy", "copyNumber", "copyValue"} => m = "propose"
    /\ p \in {"look", "insert"} => m = "accept"
    /\ p \in {"number", "value"} => m \in {"accept", "success"}
    /\ p \in {"scan", "lockStore", "store"} => m = "success"
    /\ p \in {"find", "fetch"} => m = "get"
    /\ p = "report" => m = "get_stats"

\* No accept has arrived for a round that was not in the log.
NoInserts == \A t \in Thread : call[t].method = "accept" => call[t].known

ToBeAccepted(r) ==
  {call[s].arg : s \in {u \in Thread : call[u].method \in {"accept", "success"} /\ call[u].round = r}}

\* Then no accept looks for a round in vain, an accept that has set the number finds it
\* set, and one that is over finds number and value set.
KeepsAccepted ==
  NoInserts =>
    \A t \in Thread, r \in Round :
      call[t].method = "accept" /\ call[t].round = r =>
        /\ log[r] # Absent /\ pc[t] # "insert"
        /\ pc[t] \in {"value", "done"} => EntryAt(log, r).a_server_id = ProposeId
        /\ pc[t] = "done" => EntryAt(log, r).accepted_value \in ToBeAccepted(r)

\* At first no thread is anywhere.
LEMMA InMethodInit == Init => InMethod /\ KeepsAccepted
  BY DEF Init, InMethod, KeepsAccepted

\* A call that arrives begins with its count.
LEMMA InMethodArrive ==
  ASSUME Types, InMethod, NEW t \in Thread, NEW m \in Method, NEW r \in Round,
         NEW v \in Value \cup {Nothing}, Arrive(t, m, r, v)
  PROVE  InMethod'
  BY DEF Arrive, At, Goes, Types, InMethod

\* A thread stays in its method.
LEMMA InMethodStep ==
  ASSUME Types, InMethod, NEW t \in Thread, Step(t)
  PROVE  InMethod'
<1>1. CASE WriteCount(t)
  <2>1. call[t].method \in Method
    BY CallFields
  <2> QED BY <1>1, <2>1 DEF WriteCount, Body, Method, Goes, Types, InMethod
<1>2. CASE ReadCount(t) \/ Report(t) \/ Look(t) \/ Insert(t)
  BY <1>2 DEF ReadCount, Report, Look, Insert, At, Goes, Types, InMethod
<1>3. CASE LockLog(t) \/ TouchEntry(t) \/ SetNumber(t) \/ SetValue(t)
  BY <1>3 DEF LockLog, TouchEntry, SetNumber, SetValue, At, Goes, Types, InMethod
<1>4. CASE CopyNumber(t) \/ CopyValue(t) \/ Scan(t)
  BY <1>4 DEF CopyNumber, CopyValue, Scan, At, Goes, Types, InMethod
<1>5. CASE LockStore(t) \/ Store(t) \/ Find(t) \/ Fetch(t)
  BY <1>5 DEF LockStore, Store, Find, Fetch, At, Goes, Types, InMethod
<1> QED BY <1>1, <1>2, <1>3, <1>4, <1>5 DEF Step

\* A call that arrives writes nothing.
LEMMA KeptArrive ==
  ASSUME Types, InMethod, KeepsAccepted, NEW t \in Thread, NEW m \in Method, NEW r \in Round,
         NEW v \in Value \cup {Nothing}, Arrive(t, m, r, v)
  PROVE  KeepsAccepted'
<1>1. /\ call' = [call EXCEPT ![t] = [method |-> m, round |-> r, arg |-> v,
                                      known |-> log[r] # Absent]]
      /\ pc' = [pc EXCEPT ![t] = "arrived"] /\ pc[t] = "idle" /\ log' = log
  BY DEF Arrive, At, Goes, shared
<1>2. call[t].method = "get"
  BY <1>1 DEF InMethod
<1> SUFFICES ASSUME NoInserts' PROVE KeepsAccepted'
  BY DEF KeepsAccepted
<1>3. NoInserts
  BY <1>1, <1>2 DEF NoInserts, Types
<1>4. ASSUME NEW q \in Round PROVE ToBeAccepted(q) \subseteq ToBeAccepted(q)'
  <2>1. ASSUME NEW s \in Thread, call[s].method \in {"accept", "success"}, call[s].round = q
        PROVE  call'[s] = call[s]
    BY <1>1, <1>2, <2>1 DEF Types
  <2> QED BY <2>1 DEF ToBeAccepted
<1>5. ASSUME NEW s \in Thread, NEW q \in Round, call'[s].method = "accept", call'[s].round = q
      PROVE  /\ log'[q] # Absent /\ pc'[s] # "insert"
             /\ pc'[s] \in {"value", "done"} => EntryAt(log', q).a_server_id = ProposeId
             /\ pc'[s] = "done" => EntryAt(log', q).accepted_value \in ToBeAccepted(q)'
  <2>1. CASE s = t
    <3>1. call'[t] = [method |-> m, round |-> r, arg |-> v, known |-> log[r] # Absent]
      BY <1>1 DEF Types
    <3>2. q = r /\ log[r] # Absent
      <4>1. call'[t].round = r
        BY <3>1
      <4>2. call'[t].known
        BY <1>5, <2>1 DEF NoInserts
      <4> DEFINE known == log[r] # Absent
      <4>3. call'[t].known = known
        <5> HIDE DEF known
        <5>1. call'[t] = [method |-> m, round |-> r, arg |-> v, known |-> known]
          BY <3>1 DEF known
        <5> QED BY <5>1
      <4> QED BY <1>5, <2>1, <4>1, <4>2, <4>3
    <3>3. pc'[t] = "arrived"
      BY <1>1 DEF Types
    <3> QED BY <1>1, <2>1, <3>2, <3>3
  <2>2. CASE s # t
    <3>1. call'[s] = call[s] /\ pc'[s] = pc[s]
      BY <1>1, <2>2 DEF Types
    <3> QED BY <1>1, <1>3, <1>4, <1>5, <3>1 DEF KeepsAccepted
  <2> QED BY <2>1, <2>2
<1> QED BY <1>5 DEF KeepsAccepted

\* Enough for a step of a handler: it empties no round, clears no number, writes no value
\* but one that was to be accepted, and takes an accept to its next place only with what
\* is claimed there.
LEMMA KeptIf ==
  ASSUME KeepsAccepted, NoInserts, call' = call,
         \A r \in Round :
           /\ log[r] # Absent => log'[r] # Absent
           /\ EntryAt(log, r).a_server_id = ProposeId => EntryAt(log', r).a_server_id = ProposeId
           /\ \/ EntryAt(log', r).accepted_value = EntryAt(log, r).accepted_value
              \/ EntryAt(log', r).accepted_value \in ToBeAccepted(r),
         \A s \in Thread, r \in Round :
           call[s].method = "accept" /\ call[s].round = r /\ pc'[s] # pc[s] =>
             /\ pc'[s] # "insert"
             /\ pc'[s] \in {"value", "done"} => EntryAt(log', r).a_server_id = ProposeId
             /\ pc'[s] = "done" => EntryAt(log', r).accepted_value \in ToBeAccepted(r)
  PROVE  KeepsAccepted'
<1>1. ASSUME NEW r \in Round PROVE ToBeAccepted(r)' = ToBeAccepted(r)
  BY DEF ToBeAccepted
<1>2. ASSUME NEW s \in Thread, NEW r \in Round, call'[s].method = "accept", call'[s].round = r
      PROVE  /\ log'[r] # Absent /\ pc'[s] # "insert"
             /\ pc'[s] \in {"value", "done"} => EntryAt(log', r).a_server_id = ProposeId
             /\ pc'[s] = "done" => EntryAt(log', r).accepted_value \in ToBeAccepted(r)'
  <2>1. /\ log[r] # Absent /\ pc[s] # "insert"
        /\ pc[s] \in {"value", "done"} => EntryAt(log, r).a_server_id = ProposeId
        /\ pc[s] = "done" => EntryAt(log, r).accepted_value \in ToBeAccepted(r)
    BY <1>2 DEF KeepsAccepted
  <2> QED BY <1>1, <1>2, <2>1
<1> QED BY <1>2 DEF KeepsAccepted

\* No step of a thread takes away what an accept has written of an entry.
LEMMA KeptStep ==
  ASSUME Types, InMethod, KeepsAccepted, NEW t \in Thread, NEW r0 \in Round,
         call[t].round = r0, Step(t)
  PROVE  KeepsAccepted'
<1>1. call' = call
  BY DEF Step, ReadCount, WriteCount, Report, Look, Insert, LockLog, TouchEntry, SetNumber, SetValue,
         CopyNumber, CopyValue, Scan, LockStore, Store, Find, Fetch
<1> SUFFICES ASSUME NoInserts PROVE KeepsAccepted'
  BY <1>1 DEF KeepsAccepted, NoInserts
<1>2. call[t].method = "accept" => log[r0] # Absent /\ pc[t] # "insert"
  BY DEF KeepsAccepted
<1>3. ~ Insert(t)
  BY <1>2 DEF Insert, At, InMethod
<1>a. EntryAt(log, r0) \in Entry(Value \cup {Nothing})
  BY EntryOfRound DEF Types
<1>b. EntryAt(log, r0) # Absent
  BY <1>a, ThreadsAssumption
<1>4. ASSUME log' = log, NEW p \in Place, Goes(t, p),
             call[t].method = "accept" => p \notin {"insert", "value", "done"}
      PROVE  KeepsAccepted'
  BY <1>1, <1>4, KeptIf DEF Goes, Types
<1>5. CASE ReadCount(t) \/ Report(t) \/ Look(t) \/ LockLog(t)
  BY <1>2, <1>4, <1>5 DEF ReadCount, Report, Look, LockLog, At, InMethod, Place, shared
<1>6. CASE WriteCount(t)
  BY <1>4, <1>6, CallFields DEF WriteCount, Body, Place, Method
<1>7. CASE CopyNumber(t) \/ CopyValue(t) \/ Scan(t) \/ LockStore(t)
  BY <1>4, <1>7 DEF CopyNumber, CopyValue, Scan, LockStore, At, InMethod, Place, shared
<1>8. CASE Store(t) \/ Find(t) \/ Fetch(t)
  BY <1>4, <1>8 DEF Store, Find, Fetch, At, InMethod, Place, shared
<1>9. CASE TouchEntry(t)
  <2>1. log' = [log EXCEPT ![r0] = EntryAt(log, r0)] /\ Goes(t, "copy") /\ At(t, "touch")
    BY <1>9 DEF TouchEntry, Touch
  <2>2. log'[r0] = EntryAt(log, r0) /\ \A r \in Round \ {r0} : log'[r] = log[r]
    BY <2>1 DEF Types
  <2>3. EntryAt(log', r0) = EntryAt(log, r0)
    BY <1>b, <2>2 DEF EntryAt
  <2>4. \A r \in Round : EntryAt(log', r) = EntryAt(log, r)
    BY <2>2, <2>3 DEF EntryAt
  <2>5. \A r \in Round : log[r] # Absent => log'[r] # Absent
    BY <1>b, <2>2
  <2>6. \A s \in Thread : pc'[s] # pc[s] => pc'[s] = "copy"
    BY <2>1 DEF Goes, Types
  <2> QED BY <1>1, <2>4, <2>5, <2>6, KeptIf
<1>10. CASE SetNumber(t)
  <2> DEFINE e == [EntryAt(log, r0) EXCEPT !.a_server_id = ProposeId]
  <2>1. /\ e \in Entry(Value \cup {Nothing}) /\ e.a_server_id = ProposeId
        /\ e.accepted_value = EntryAt(log, r0).accepted_value
    BY <1>a DEF Entry, ProposeId
  <2> HIDE DEF e
  <2>2. log' = [log EXCEPT ![r0] = e] /\ Goes(t, "value") /\ At(t, "number")
    BY <1>10 DEF SetNumber, e
  <2>3. log'[r0] = e /\ \A r \in Round \ {r0} : log'[r] = log[r]
    BY <2>2 DEF Types
  <2>4. e # Absent
    BY <2>1, ThreadsAssumption
  <2>5. EntryAt(log', r0) = e /\ \A r \in Round \ {r0} : EntryAt(log', r) = EntryAt(log, r)
    BY <2>3, <2>4 DEF EntryAt
  <2>6. \A s \in Thread : pc'[s] # pc[s] => s = t /\ pc'[s] = "value"
    BY <2>2 DEF Goes, Types
  <2> QED BY <1>1, <2>1, <2>3, <2>4, <2>5, <2>6, KeptIf
<1>11. CASE SetValue(t)
  <2> DEFINE e == [EntryAt(log, r0) EXCEPT !.accepted_value = call[t].arg]
  <2>1. /\ e \in Entry(Value \cup {Nothing}) /\ e.accepted_value = call[t].arg
        /\ e.a_server_id = EntryAt(log, r0).a_server_id
    BY <1>a, CallFields DEF Entry
  <2> HIDE DEF e
  <2>2. /\ log' = [log EXCEPT ![r0] = e] /\ At(t, "value")
        /\ Goes(t, IF call[t].method = "accept" THEN "done" ELSE "scan")
    BY <1>11 DEF SetValue, e
  <2>3. log'[r0] = e /\ \A r \in Round \ {r0} : log'[r] = log[r]
    BY <2>2 DEF Types
  <2>4. e # Absent
    BY <2>1, ThreadsAssumption
  <2>5. EntryAt(log', r0) = e /\ \A r \in Round \ {r0} : EntryAt(log', r) = EntryAt(log, r)
    BY <2>3, <2>4 DEF EntryAt
  <2>6. \A s \in Thread : pc'[s] # pc[s] => s = t /\ pc'[s] \in {"done", "scan"}
    BY <2>2 DEF Goes, Types
  <2>7. call[t].arg \in ToBeAccepted(r0)
    BY <2>2 DEF At, InMethod, ToBeAccepted
  <2>8. call[t].method = "accept" => EntryAt(log, r0).a_server_id = ProposeId
    BY <2>2 DEF At, KeepsAccepted
  <2> QED BY <1>1, <2>1, <2>3, <2>4, <2>5, <2>6, <2>7, <2>8, KeptIf
<1> QED BY <1>3, <1>5, <1>6, <1>7, <1>8, <1>9, <1>10, <1>11 DEF Step

\* What an accept has written is not taken away by any other handler: the round keeps a
\* number and a value that was to be accepted there, unless an accept had to insert its
\* round without the lock.
THEOREM AcceptedStays == Spec => []AcceptedKept
<1> DEFINE Inv == Types /\ Held /\ InMethod /\ KeepsAccepted
<1>1. Inv /\ [Next]_vars => Inv'
  <2> SUFFICES ASSUME Inv, [Next]_vars PROVE Inv'
    OBVIOUS
  <2>1. CASE UNCHANGED vars
    <3>1. Types' /\ Held' /\ InMethod'
      BY <2>1 DEF vars, shared, answers, Types, Held, InMethod
    <3>2. /\ UNCHANGED <<log, call, pc>> /\ NoInserts' = NoInserts
          /\ \A r : ToBeAccepted(r)' = ToBeAccepted(r)
      BY <2>1 DEF vars, shared, NoInserts, ToBeAccepted
    <3>3. KeepsAccepted'
      BY <3>2 DEF KeepsAccepted
    <3> QED BY <3>1, <3>3
  <2>2. ASSUME NEW t \in Thread, Step(t) PROVE Inv'
    BY <2>2, TypeStep, InMethodStep, KeptStep, CallFields
  <2>3. ASSUME NEW t \in Thread, NEW m \in Method, NEW r \in Round, NEW v \in Value \cup {Nothing},
               Arrive(t, m, r, v)
        PROVE  Inv'
    BY <2>3, TypeArrive, InMethodArrive, KeptArrive
  <2> QED BY <2>1, <2>2, <2>3, NextCases
<1>2. Inv => AcceptedKept
  BY CallFields DEF KeepsAccepted, NoInserts, ToBeAccepted, AcceptedKept
<1> QED BY <1>1, <1>2, TypeInit, InMethodInit, PTL DEF Spec
=============================================================================
