------------------------- MODULE MCAwaitableFuture --------------------------
(***************************************************************************)
(* Two fibers on two workers, so that a fiber can be completed from the    *)
(* other fiber, from a handler on either worker, or from a thread outside, *)
(* and resume on a worker that is not the one it left.                     *)
(***************************************************************************)
EXTENDS AwaitableFuture
=============================================================================
