------------------------------- MODULE MCTask -------------------------------
(***************************************************************************)
(* Task needs no bounds: its only constants are the uses to consider.      *)
(***************************************************************************)
EXTENDS Task
=============================================================================
