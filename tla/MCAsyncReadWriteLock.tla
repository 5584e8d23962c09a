------------------------ MODULE MCAsyncReadWriteLock ------------------------
(***************************************************************************)
(* Four fibers: two to hold the lock together, one upgrading and one       *)
(* waiting to write; two calls each.                                       *)
(***************************************************************************)
EXTENDS AsyncReadWriteLock
=============================================================================
