---------------------------- MODULE MCAsyncEvent ----------------------------
(***************************************************************************)
(* Two coroutines that await twice, and two signallers: more calls of set  *)
(* than the barrier expects, and set against stop and reset.               *)
(***************************************************************************)
EXTENDS AsyncEvent
=============================================================================
