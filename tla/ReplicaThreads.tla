--------------------------- MODULE ReplicaThreads ---------------------------
(***************************************************************************)
(* The handlers of one replica as the threads that run them, at the grain  *)
(* of their accesses to the maps they share: pax_log, of one key, whose    *)
(* readers take no lock; kv_store, of one key, likewise; and               *)
(* Statistics::incount, which nobody locks.  What the callers do between   *)
(* their calls is left open: any calls come in any order.                  *)
(***************************************************************************)
EXTENDS AcceptorLog

CONSTANTS
  Value,       \* values that are proposed
  NumThreads,  \* bound: calls the replica serves
  MaxRound     \* bound: rounds

\* The threads, numbered in the order their calls arrive, and what a mutex nobody holds
\* holds instead.
Thread == 1 .. NumThreads
Free == 0

Round == 0 .. MaxRound
Method == {"propose", "accept", "success", "get", "get_stats"}

ASSUME ThreadsAssumption ==
  /\ NumThreads \in Nat
  /\ MaxRound \in Nat
  /\ Nothing \notin Value
  /\ Absent \notin Entry(Value \cup {Nothing})

VARIABLES
  log,         \* pax_log of the key
  store,       \* its value in kv_store, Nothing if it has none
  log_mutex,   \* who holds it, or Free
  data_mutex,
  incount,     \* Statistics::incount, 0 where it has no element
  pc,          \* where each thread is
  call,        \* its call's arguments
  seen,        \* the count it has read
  number,      \* a_server_id and accepted_value as it has copied them, field by field
  value,
  counts       \* what its get_stats answers

shared == <<log, store, log_mutex, data_mutex, incount>>
answers == <<number, value, counts>>
vars == <<shared, pc, call, seen, answers>>

Place ==
  {"idle", "arrived", "counting", "lock", "touch", "number", "value", "copy", "copyNumber",
   "copyValue", "look", "insert", "scan", "lockStore", "store", "find", "fetch", "report", "done"}

\* known is history: the round was in the log when the call arrived.
Call == [method : Method, round : Round, arg : Value \cup {Nothing}, known : BOOLEAN]

Init ==
  /\ log = [r \in Round |-> Absent]
  /\ store = Nothing
  /\ log_mutex = Free /\ data_mutex = Free
  /\ incount = [m \in Method |-> 0]
  /\ pc = [t \in Thread |-> "idle"]
  /\ call = [t \in Thread |-> [method |-> "get", round |-> 0, arg |-> Nothing, known |-> FALSE]]
  /\ seen = [t \in Thread |-> 0]
  /\ number = [t \in Thread |-> 0]
  /\ value = [t \in Thread |-> Nothing]
  /\ counts = [t \in Thread |-> [m \in Method |-> 0]]

At(t, p) == pc[t] = p
Goes(t, p) == pc' = [pc EXCEPT ![t] = p]

\* gRPC gives the call a thread.  arg is the value of an accept or a success.
Arrive(t, m, r, v) ==
  /\ At(t, "idle") /\ \A s \in 1 .. t - 1 : ~ At(s, "idle")
  /\ Goes(t, "arrived")
  /\ call' = [call EXCEPT ![t] = [method |-> m, round |-> r, arg |-> v, known |-> log[r] # Absent]]
  /\ UNCHANGED <<shared, seen, answers>>

-----------------------------------------------------------------------------
(* Statistics::increment, which every handler begins with when it runs with  *)
(* --flag.debug, and get_stats.                                             *)

ReadCount(t) ==
  /\ At(t, "arrived")
  /\ Goes(t, "counting")
  /\ seen' = [seen EXCEPT ![t] = incount[call[t].method]]
  /\ UNCHANGED <<shared, call, answers>>

\* Where the body of a handler begins.
Body(m) ==
  CASE m \in {"propose", "success"} -> "lock"
    [] m = "accept" -> "look"
    [] m = "get" -> "find"
    [] m = "get_stats" -> "report"

\* Mutant of WriteCount: a new element starts with 1 and is incremented as well.
WriteCountTwice(t) ==
  /\ At(t, "counting")
  /\ incount' = [incount EXCEPT ![call[t].method] = IF seen[t] = 0 THEN 2 ELSE seen[t] + 1]
  /\ Goes(t, Body(call[t].method)) /\ seen' = [seen EXCEPT ![t] = 0]
  /\ UNCHANGED <<log, store, log_mutex, data_mutex, call, answers>>

WriteCount(t) ==
  /\ At(t, "counting")
  /\ incount' = [incount EXCEPT ![call[t].method] = seen[t] + 1]
  /\ Goes(t, Body(call[t].method)) /\ seen' = [seen EXCEPT ![t] = 0]
  /\ UNCHANGED <<log, store, log_mutex, data_mutex, call, answers>>

Report(t) ==
  /\ At(t, "report")
  /\ Goes(t, "done")
  /\ counts' = [counts EXCEPT ![t] = incount]
  /\ UNCHANGED <<shared, call, seen, number, value>>

-----------------------------------------------------------------------------
(* pax_log.                                                                *)

\* Get_Log(key, round) in accept, without the lock.
Look(t) ==
  /\ At(t, "look")
  /\ Goes(t, IF log[call[t].round] = Absent THEN "insert" ELSE "lock")
  /\ UNCHANGED <<shared, call, seen, answers>>

\* operator[] found nothing and links an entry: one that another thread has linked in the
\* meantime is kept or lost.
Insert(t) ==
  LET r == call[t].round IN
  /\ At(t, "insert")
  /\ log' \in {Touch(log, r), [log EXCEPT ![r] = NewEntry]}
  /\ Goes(t, "lock")
  /\ UNCHANGED <<store, log_mutex, data_mutex, incount, call, seen, answers>>

\* Mutant of LockLog: the lock is not waited for.
BargeIn(t) ==
  /\ At(t, "lock")
  /\ log_mutex' = t
  /\ Goes(t, IF call[t].method = "propose" THEN "touch" ELSE "number")
  /\ UNCHANGED <<log, store, data_mutex, incount, call, seen, answers>>

\* Set_Log: the lock, the fields, the unlock.
LockLog(t) ==
  /\ At(t, "lock") /\ log_mutex = Free
  /\ log_mutex' = t
  /\ Goes(t, IF call[t].method = "propose" THEN "touch" ELSE "number")
  /\ UNCHANGED <<log, store, data_mutex, incount, call, seen, answers>>

\* Mutant of TouchEntry: the round is assigned a new entry.
TouchAfresh(t) ==
  /\ At(t, "touch")
  /\ log' = [log EXCEPT ![call[t].round] = NewEntry]
  /\ log_mutex' = Free
  /\ Goes(t, "copy")
  /\ UNCHANGED <<store, data_mutex, incount, call, seen, answers>>

TouchEntry(t) ==
  /\ At(t, "touch")
  /\ log' = Touch(log, call[t].round)
  /\ log_mutex' = Free
  /\ Goes(t, "copy")
  /\ UNCHANGED <<store, data_mutex, incount, call, seen, answers>>

SetNumber(t) ==
  LET r == call[t].round IN
  /\ At(t, "number")
  /\ log' = [log EXCEPT ![r] = [EntryAt(log, r) EXCEPT !.a_server_id = ProposeId]]
  /\ Goes(t, "value")
  /\ UNCHANGED <<store, log_mutex, data_mutex, incount, call, seen, answers>>

SetValue(t) ==
  LET r == call[t].round IN
  /\ At(t, "value")
  /\ log' = [log EXCEPT ![r] = [EntryAt(log, r) EXCEPT !.accepted_value = call[t].arg]]
  /\ log_mutex' = Free
  /\ Goes(t, IF call[t].method = "accept" THEN "done" ELSE "scan")
  /\ UNCHANGED <<store, data_mutex, incount, call, seen, answers>>

\* Get_Log(key, round) in propose, without the lock: each field is read at a moment of
\* its own, in either order.
CopyNumber(t) ==
  /\ pc[t] \in {"copy", "copyNumber"}
  /\ Goes(t, IF pc[t] = "copy" THEN "copyValue" ELSE "done")
  /\ number' = [number EXCEPT ![t] = EntryAt(log, call[t].round).a_server_id]
  /\ UNCHANGED <<shared, call, seen, value, counts>>

CopyValue(t) ==
  /\ pc[t] \in {"copy", "copyValue"}
  /\ Goes(t, IF pc[t] = "copy" THEN "copyNumber" ELSE "done")
  /\ value' = [value EXCEPT ![t] = EntryAt(log, call[t].round).accepted_value]
  /\ UNCHANGED <<shared, call, seen, number, counts>>

\* Get_Log(key) in success, and its test "Information is outdated."
Scan(t) ==
  /\ At(t, "scan")
  /\ Goes(t, IF Outdated(log, call[t].round) THEN "done" ELSE "lockStore")
  /\ UNCHANGED <<shared, call, seen, answers>>

-----------------------------------------------------------------------------
(* kv_store.                                                               *)

\* Set_KV
LockStore(t) ==
  /\ At(t, "lockStore") /\ data_mutex = Free
  /\ data_mutex' = t
  /\ Goes(t, "store")
  /\ UNCHANGED <<log, store, log_mutex, incount, call, seen, answers>>

Store(t) ==
  /\ At(t, "store")
  /\ store' = call[t].arg
  /\ data_mutex' = Free
  /\ Goes(t, "done")
  /\ UNCHANGED <<log, log_mutex, incount, call, seen, answers>>

\* Mutant of Find: the lock that is commented out (app.cc:435-450) is taken; the return for
\* a key that is not there leaves it locked.
FindLocked(t) ==
  /\ At(t, "find") /\ data_mutex = Free
  /\ data_mutex' = IF store = Nothing THEN t ELSE Free
  /\ Goes(t, IF store = Nothing THEN "done" ELSE "fetch")
  /\ UNCHANGED <<log, store, log_mutex, incount, call, seen, answers>>

\* Get_KV, without the lock: find, and what the iterator points to.
Find(t) ==
  /\ At(t, "find")
  /\ Goes(t, IF store = Nothing THEN "done" ELSE "fetch")
  /\ UNCHANGED <<shared, call, seen, answers>>

Fetch(t) ==
  /\ At(t, "fetch")
  /\ Goes(t, "done")
  /\ value' = [value EXCEPT ![t] = store]
  /\ UNCHANGED <<shared, call, seen, number, counts>>

-----------------------------------------------------------------------------
Step(t) ==
  \/ ReadCount(t) \/ WriteCount(t) \/ Report(t)
  \/ Look(t) \/ Insert(t) \/ LockLog(t) \/ TouchEntry(t) \/ SetNumber(t) \/ SetValue(t)
  \/ CopyNumber(t) \/ CopyValue(t) \/ Scan(t)
  \/ LockStore(t) \/ Store(t) \/ Find(t) \/ Fetch(t)

\* No call is under way.
Quiet == (\A t \in Thread : pc[t] \in {"idle", "done"}) /\ UNCHANGED vars

Next ==
  \/ \E t \in Thread, r \in Round :
       \/ Arrive(t, "propose", r, Nothing)
       \/ \E m \in {"accept", "success"}, v \in Value : Arrive(t, m, r, v)
  \/ \E t \in Thread, m \in {"get", "get_stats"} : Arrive(t, m, 0, Nothing)
  \/ \E t \in Thread : Step(t)
  \/ Quiet

Spec == Init /\ [][Next]_vars

\* A thread that can run does.  Each serves one call, so that a mutex cannot be taken from
\* under a thread that waits for it again and again.
FairSpec == Spec /\ \A t \in Thread : WF_vars(Step(t))

-----------------------------------------------------------------------------
(* Properties.                                                             *)

\* The threads that have counted their call of m.
Counted(m) == {t \in Thread : call[t].method = m /\ pc[t] \notin {"idle", "arrived", "counting"}}

\* Every variable keeps its type, and a mutex is held by the one thread that is between
\* its lock and its unlock, and by nobody if there is none.
ThreadsTypeOK ==
  /\ log \in [Round -> Entry(Value \cup {Nothing}) \cup {Absent}]
  /\ store \in Value \cup {Nothing}
  /\ log_mutex \in Thread \cup {Free} /\ data_mutex \in Thread \cup {Free}
  /\ incount \in [Method -> Nat]
  /\ pc \in [Thread -> Place]
  /\ call \in [Thread -> Call]
  /\ seen \in [Thread -> Nat]
  /\ number \in [Thread -> {0, ProposeId}] /\ value \in [Thread -> Value \cup {Nothing}]
  /\ counts \in [Thread -> [Method -> Nat]]
  /\ \A t \in Thread :
       /\ log_mutex = t <=> pc[t] \in {"touch", "number", "value"}
       /\ data_mutex = t <=> pc[t] = "store"

\* Increments that race lose counts (declaration.h:310), and a slow one can even set a
\* count back; but a count never runs ahead of the calls, nor does what get_stats answers,
\* and once a call has been counted the count is not zero.
CountsBounded ==
  \A m \in Method :
    /\ incount[m] <= Cardinality(Counted(m))
    /\ Counted(m) # {} => incount[m] > 0
    /\ \A t \in Thread : counts[t][m] <= Cardinality(Counted(m))

\* An accept that is over has left an entry with a number and a value that was to be
\* accepted in that round, and no other handler takes it away, as long as no accept has
\* to insert its round without the lock (app.cc:207).
AcceptedKept ==
  (\A t \in Thread : call[t].method = "accept" => call[t].known) =>
    \A t \in Thread :
      call[t].method = "accept" /\ pc[t] = "done" =>
        LET e == EntryAt(log, call[t].round) IN
        /\ e.a_server_id = ProposeId
        /\ e.accepted_value \in {call[s].arg : s \in {u \in Thread :
                                   call[u].method \in {"accept", "success"} /\ call[u].round = call[t].round}}

\* A handler that has begun ends: nobody keeps a mutex.
HandlersEnd == \A t \in Thread : pc[t] = "arrived" ~> pc[t] = "done"

-----------------------------------------------------------------------------
(* What the repository says of the handlers and they do not do.            *)

\* "If another value has been accepted ..., it will reply with that value"
\* (declaration.h:425-426): a propose that answers with the number of an accepted
\* proposal (rpc.cc:52-58) answers with its value.
PromiseCarriesValue ==
  \A t \in Thread :
    call[t].method = "propose" /\ pc[t] = "done" /\ number[t] > 0
      => value[t] # Nothing
=============================================================================
