-------------------------- MODULE MCAsyncSemaphore --------------------------
(***************************************************************************)
(* Three fibers and one permit: a batch is larger or smaller than the list *)
(* of waiters, and a fiber comes back while a stale future of it is around. *)
(***************************************************************************)
EXTENDS AsyncSemaphore
=============================================================================
