---------------------------- MODULE AcceptorLog ----------------------------
(***************************************************************************)
(* Consensus::pax_log for one key of one replica.  The code keeps a        *)
(* std::map from round to LogEntry; here it is a function whose value is   *)
(* Absent at the rounds the map has no entry for.  The operators are the   *)
(* overloads of Set_Log and Get_Log that the handlers call: each is one    *)
(* critical section, or one unlocked read.                                 *)
(***************************************************************************)
EXTENDS Integers, FiniteSets

CONSTANTS Absent,    \* no entry for the round
          Nothing    \* the empty string: accepted_value by default

\* propose_id: AttemptConsensus gives every proposal the number 1.
ProposeId == 1

\* p_server_id keeps its default 0 for ever: the overload of Set_Log that would
\* store a promise has no caller.  op is left out, nothing depends on it.
Entry(V) == [p_server_id : {0}, a_server_id : {0, ProposeId}, accepted_value : V]

NewEntry == [p_server_id |-> 0, a_server_id |-> 0, accepted_value |-> Nothing]

\* pax_log[key][round]: operator[] inserts a default entry where there is none.
EntryAt(lg, r) == IF lg[r] = Absent THEN NewEntry ELSE lg[r]

\* Set_Log(key, round)
Touch(lg, r) == [lg EXCEPT ![r] = EntryAt(lg, r)]

\* Set_Log(key, round, a_server, op, value), a_server being the proposal's number
Accept(lg, r, v) ==
  [lg EXCEPT ![r] = [EntryAt(lg, r) EXCEPT !.a_server_id = ProposeId, !.accepted_value = v]]

\* The rounds the map has, and pax_log[key].size().
Known(lg) == {r \in DOMAIN lg : lg[r] # Absent}

\* Mutant of NumKnown: rounds are numbered from 1.
NumKnownFromOne(lg) == Cardinality(Known(lg)) + 1

NumKnown(lg) == Cardinality(Known(lg))

\* Mutants of Outdated: the comparison off by one, one way and the other.
OutdatedByTwo(lg, r) == \E s \in Known(lg) : s > r + 1
OutdatedOrSame(lg, r) == \E s \in Known(lg) : s >= r

\* largestRoundSoFar > round, over Get_Log(key)
Outdated(lg, r) == \E s \in Known(lg) : s > r
===========================================================================
