------------------------------ MODULE MCTimers ------------------------------
(* Two timers, rounds 1 and 2, and a startForever of three rounds. *)
EXTENDS Timers
=============================================================================
