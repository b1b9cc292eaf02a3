---------------------------- MODULE MCThreadPool ----------------------------
(***************************************************************************)
(* Instances of ThreadPool for TLC.  t1 and t2 come from one client, so    *)
(* that their order matters; the body of t1 submits t3 from a worker.  t2  *)
(* has run often enough to be cold (above HotLimit), t3 is in between.     *)
(***************************************************************************)
EXTENDS ThreadPool

CONSTANTS t1, t2, t3, c1

MCTasks    == {t1, t2, t3}
MCProgram  == [c \in Clients |-> <<t1, t2>>]
MCChildren == [t \in Tasks |-> IF t = t1 THEN <<t3>> ELSE <<>>]
MCRunCount == [t \in Tasks |-> IF t = t1 THEN 11 ELSE IF t = t2 THEN 11 ELSE 5]

\* One class of each control structure: the order in which tasks leave a queue
\* is data to the liveness properties.
MCLiveClasses == {lfgq, lqlf_steal_seq}
=============================================================================
