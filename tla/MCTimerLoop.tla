---------------------------- MODULE MCTimerLoop ----------------------------
(***************************************************************************)
(* Up to three entries, so that a start after a stop meets what the entry  *)
(* before it has left in the timer and in the loop's future.               *)
(***************************************************************************)
EXTENDS TimerLoop
=============================================================================
