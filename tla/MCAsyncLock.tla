---------------------------- MODULE MCAsyncLock -----------------------------
(***************************************************************************)
(* Four coroutines on two threads; one of them gives lock() no executor.   *)
(* A queue of one cell, so that it fills up.                               *)
(***************************************************************************)
EXTENDS AsyncLock

CONSTANTS k1, k2, k3, k4

MCPosted == {k1, k2, k3}
=============================================================================
