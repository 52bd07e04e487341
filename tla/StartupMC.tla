----------------------------- MODULE StartupMC -----------------------------
(* Values of Startup's constants for TLC, and the register its leader shows. *)
EXTENDS ConsensusMC, Startup

AllButSecond == {1, 3}
===========================================================================
