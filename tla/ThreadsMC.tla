----------------------------- MODULE ThreadsMC -----------------------------
(* Values of ReplicaThreads's constants for TLC. *)
EXTENDS ReplicaThreads

CONSTANTS v, w

OneValue == {v}
TwoValues == {v, w}
=============================================================================
