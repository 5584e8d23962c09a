---------------------------- MODULE MCEventLoop -----------------------------
(***************************************************************************)
(* Two threads outside the loop and four tasks, so that a push can find the *)
(* flag set by another thread's push, by the loop's own, or cleared by a   *)
(* pass over the queue in between.                                         *)
(***************************************************************************)
EXTENDS EventLoop
=============================================================================
