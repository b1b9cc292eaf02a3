---------------------------- MODULE MCPotThreads ----------------------------
(***************************************************************************)
(* Instances of PotThreads for TLC.  x1 and x2 come from one client; the   *)
(* body of x1 submits x3 from the thread that runs it.                     *)
(***************************************************************************)
EXTENDS PotThreads

CONSTANTS x1, x2, x3, c1

MCTasks    == {x1, x2, x3}
MCProgram  == [c \in Clients |-> <<x1, x2>>]
MCChildren == [x \in Tasks |-> IF x = x1 THEN <<x3>> ELSE <<>>]
MCClasses  == {thread, thread_lf, gq, lq, lfgq, lflq}

\* Nothing is submitted by a task, as in the test "Destructor Drain".
MCNoChildren  == [x \in Tasks |-> <<>>]
MCThreadClass == {thread}
=============================================================================
