------------------------- MODULE MCSupervisorCycle -------------------------
(* Instances of SupervisorCycle for TLC. *)
EXTENDS SupervisorCycle, TLC

CONSTANTS r1, r2, c1, c2

Slots == Permutations({r1, r2}) \cup Permutations({c1, c2})
=============================================================================
