------------------------------ MODULE Executor ------------------------------
(***************************************************************************)
(* What the executor interface (include/pot/executors/executor.h)          *)
(* promises of every task handed to derived_execute, whatever pool stands  *)
(* behind it: a task is offered at most once and only while the executor   *)
(* is not stopped, it is started at most once and only after it has been   *)
(* accepted, and once shutdown has closed the executor no worker starts    *)
(* anything.  A task accepted too late may stay queued for ever.           *)
(***************************************************************************)
CONSTANT Tasks

VARIABLES status,   \* the life of each task
          stopped,  \* m_stop: derived_execute refuses
          closed    \* shutdown has returned: the workers are gone

vars == <<status, stopped, closed>>

Life == {"new", "refused", "offered", "queued", "running", "helped", "done"}

TypeOK == /\ status \in [Tasks -> Life]
          /\ stopped \in BOOLEAN
          /\ closed \in BOOLEAN

Init == /\ status = [t \in Tasks |-> "new"]
        /\ stopped = FALSE
        /\ closed = FALSE

Become(t, from, to) == /\ status[t] = from
                       /\ status' = [status EXCEPT ![t] = to]
                       /\ UNCHANGED <<stopped, closed>>

Offer(t)  == ~stopped /\ Become(t, "new", "offered")
Refuse(t) == stopped /\ Become(t, "new", "refused")
Accept(t) == Become(t, "offered", "queued")

\* A worker of the executor starts t.
Start(t) == ~closed /\ Become(t, "queued", "running")

\* A thread that is not a worker starts t through try_steal: the queues
\* outlive the workers, so this is possible after the executor is closed.
Help(t) == Become(t, "queued", "helped")

Finish(t) == Become(t, "running", "done") \/ Become(t, "helped", "done")

Stop == /\ ~stopped
        /\ stopped' = TRUE
        /\ UNCHANGED <<status, closed>>

\* The executor closes only when no worker is inside a task.
Close == /\ stopped
         /\ ~closed
         /\ \A t \in Tasks : status[t] # "running"
         /\ closed' = TRUE
         /\ UNCHANGED <<status, stopped>>

Next == \/ \E t \in Tasks : \/ Offer(t) \/ Refuse(t) \/ Accept(t)
                            \/ Start(t) \/ Help(t) \/ Finish(t)
        \/ Stop
        \/ Close

Spec == Init /\ [][Next]_vars
=============================================================================
