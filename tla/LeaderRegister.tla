--------------------------- MODULE LeaderRegister ---------------------------
(***************************************************************************)
(* A cluster whose one leader is set by its flag and never challenged, and *)
(* whose clients write a key one write at a time: what the clients of that *)
(* leader see is the register of KVRegister.                               *)
(***************************************************************************)
EXTENDS Consensus

TheLeader == CHOOSE n \in Node : n \in Flagged

\* A write has taken effect when the leader's own store has it: the proposer is past
\* its call of success to itself.
StateOf(t) ==
  CASE t.pc \in {"ping", "propose", "accept"} -> "pending"
    [] t.pc \in {"success", "storing"} ->
         IF TheLeader \in t.todo THEN "pending" ELSE "applied"
    [] t.pc = "return" -> "applied"
    [] t.pc = "ok" -> "ok"
    [] t.pc = "fail" -> "failed"
    [] t.pc = "dead" -> "unknown"

\* The calls of AttemptConsensus as their clients see them.
ClientWrites ==
  [a \in DOMAIN att |-> [key |-> att[a].key, value |-> att[a].value, state |-> StateOf(att[a])]]

Register ==
  INSTANCE KVRegister WITH Key <- DataKey, store <- kv[TheLeader], writes <- ClientWrites

\* Reads and writes at the leader are those of the register, whichever calls to the
\* other replicas are lost, unanswered or late, and whichever handlers still run after
\* their proposer has gone on.
ImplementsRegister == Register!Spec
=============================================================================
