------------------------------ MODULE MCTimers ------------------------------
(* Instances of Timers for TLC. *)
EXTENDS Timers

\* The clock stands still, advances slowly, fast and beyond a period, or is set back.
SomeTicks == {-3, 0, 1, 2, 7}
=============================================================================
