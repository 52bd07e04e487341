---------------------------- MODULE ForwardingMC ----------------------------
(* Values of Forwarding's constants for TLC, with those of Consensus. *)
EXTENDS ConsensusMC, Forwarding

Third == {3}
Reads == {"get"}
Writes == {"set"}
AllOps == {"get", "set"}
ToLeader == {<<1, 2>>}
ButFlagged == Node \ Flagged
=============================================================================
