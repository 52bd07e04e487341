----------------------------- MODULE KVRegister -----------------------------
(***************************************************************************)
(* What DatabaseRPC::set promises the clients of one leader: a write takes *)
(* effect at one moment between its request and its answer, at most once;  *)
(* one that is refused never does.  Only a write whose leader dies is left *)
(* in doubt.                                                               *)
(***************************************************************************)
EXTENDS Naturals, Sequences

CONSTANTS Key, Value, Nothing

VARIABLES store,   \* store[k]: what get(k) returns
          writes   \* the writes so far, in the order they were requested

Init ==
  /\ store = [k \in Key |-> Nothing]
  /\ writes = << >>

Request(k, v) ==
  /\ writes' = Append(writes, [key |-> k, value |-> v, state |-> "pending"])
  /\ UNCHANGED store

Apply(i) ==
  /\ writes[i].state = "pending"
  /\ store' = [store EXCEPT ![writes[i].key] = writes[i].value]
  /\ writes' = [writes EXCEPT ![i].state = "applied"]

Acknowledge(i) ==
  /\ writes[i].state = "applied"
  /\ writes' = [writes EXCEPT ![i].state = "ok"]
  /\ UNCHANGED store

Refuse(i) ==
  /\ writes[i].state = "pending"
  /\ writes' = [writes EXCEPT ![i].state = "failed"]
  /\ UNCHANGED store

\* The leader stops.
Abandon ==
  /\ writes' = [i \in DOMAIN writes |->
                  IF writes[i].state \in {"pending", "applied"}
                    THEN [writes[i] EXCEPT !.state = "unknown"] ELSE writes[i]]
  /\ UNCHANGED store

Next ==
  \/ \E k \in Key, v \in Value : Request(k, v)
  \/ \E i \in DOMAIN writes : Apply(i) \/ Acknowledge(i) \/ Refuse(i)
  \/ Abandon

Spec == Init /\ [][Next]_<<store, writes>>
=============================================================================
