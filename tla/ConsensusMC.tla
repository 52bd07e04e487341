---------------------------- MODULE ConsensusMC ----------------------------
(* Values of Consensus's constants for TLC. *)
EXTENDS LeaderRegister

CONSTANTS x, v, w, leaderkey

OneKey == {x}
NoKey == {}
AnyKey == {x, leaderkey}
TwoValues == {v, w}
OneValue == {v}

Nobody == {}
First == {1}
Second == {2}
FirstTwo == {1, 2}
LastTwo == {2, 3}
Everyone == Node

AllModes == {"lost", "noreply", "late"}
OnlyLost == {"lost"}
OnlyLate == {"late"}
NoMode == {}

AnyLink == Node \X Node
BetweenReplicas == {l \in Node \X Node : l[1] # l[2]}
FromFirst == {1} \X Node
FromFirstAway == {1} \X {2, 3}
NoLink == {}
===========================================================================
