-------------------------------- MODULE Task --------------------------------
(***************************************************************************)
(* One coroutine with a promise of include/pot/coroutines/task.h and the   *)
(* one caller that owns its task or lazy_task.  The coroutine may go       *)
(* through executor::do_run (include/pot/executors/executor.h), so that a  *)
(* worker of a pool runs its body, or run at once on the caller's thread.  *)
(* The caller co_awaits the task, or calls get(), get(&executor) or        *)
(* blocking_get().                                                         *)
(*                                                                         *)
(* A step is one atomic access to the promise, or one stretch of code      *)
(* without any.  The coroutine's frame holds the promise; the caller       *)
(* destroys it when its call ends, whatever the coroutine is doing then.   *)
(***************************************************************************)
CONSTANTS Uses,   \* what the caller may do, see AllUses
          Kinds   \* subset of BOOLEAN: is the task lazy?

AllUses == {"await", "get", "steal", "blocking"}

ASSUME UsesAssumption == Uses \subseteq AllUses /\ Kinds \subseteq BOOLEAN

VARIABLES use,       \* how the caller waits, constant
          lazy,      \* lazy_task or task, constant
          pooled,    \* the body goes through do_run, constant
          m_ready,
          m_awaiter, \* nullptr, the caller's handle, or the sentinel
          m_data,
          next,      \* the handle final_awaiter returns
          body,      \* where the coroutine is
          runner,    \* the thread that executes the coroutine
          pc,        \* where the caller is
          frame,     \* the coroutine's frame, and its promise
          outcome    \* what the caller's call gave

const == <<use, lazy, pooled>>
promise == <<m_ready, m_awaiter, m_data>>
vars == <<const, promise, next, body, runner, pc, frame, outcome>>

\* A task starts inside the call that creates it; a lazy_task is suspended.
Init == /\ use \in Uses
        /\ lazy \in Kinds
        /\ pooled \in BOOLEAN
        /\ m_ready = FALSE
        /\ m_awaiter = "null"
        /\ m_data = "none"
        /\ next = "noop"
        /\ body = IF lazy THEN "suspended" ELSE "start"
        /\ runner = IF lazy THEN "nobody" ELSE "caller"
        /\ pc = "call"
        /\ frame = "alive"
        /\ outcome = "none"

-----------------------------------------------------------------------------
(***************************************************************************)
(* The coroutine.                                                          *)
(***************************************************************************)
\* schedule_awaiter: derived_execute queues the continuation, or throws
\* because the executor is stopped; the exception then leaves the coroutine.
Schedule ==
    /\ body = "start"
    /\ pooled
    /\ \/ /\ body' = "queued"
          /\ runner' = "nobody"
          /\ UNCHANGED m_data
       \/ /\ m_data' = "exception"
          /\ body' = "exchange"
          /\ UNCHANGED runner
    /\ UNCHANGED <<const, m_ready, m_awaiter, next, pc, frame, outcome>>

\* The body of a coroutine that does not change threads.
RunInline ==
    /\ body = "start"
    /\ ~pooled
    /\ body' = "running"
    /\ UNCHANGED <<const, promise, next, runner, pc, frame, outcome>>

\* A worker takes the continuation from the pool's queue and resumes it.
RunOnWorker ==
    /\ body = "queued"
    /\ frame = "alive"
    /\ body' = "running"
    /\ runner' = "worker"
    /\ UNCHANGED <<const, promise, next, pc, frame, outcome>>

\* The pool shuts down and drops the continuation it has queued.
Drop ==
    /\ body = "queued"
    /\ body' = "dropped"
    /\ UNCHANGED <<const, promise, next, runner, pc, frame, outcome>>

\* co_return or an exception; final_suspend suspends the coroutine, and only
\* then runs final_awaiter::await_suspend.
Complete ==
    /\ body = "running"
    /\ frame = "alive"
    /\ m_data' \in {"value", "exception"}
    /\ body' = "exchange"
    /\ UNCHANGED <<const, m_ready, m_awaiter, next, runner, pc, frame, outcome>>

Done == body \in {"exchange", "ready", "notify", "continue", "final"}

MutExchangeReady ==
    /\ body = "exchange"
    /\ frame = "alive"
    /\ m_awaiter' = "sentinel"
    /\ next' = IF m_awaiter = "null" THEN "noop" ELSE m_awaiter
    /\ m_ready' = TRUE
    /\ body' = "ready"
    /\ UNCHANGED <<const, m_data, runner, pc, frame, outcome>>

\* m_awaiter.exchange(sentinel)
Exchange ==
    /\ body = "exchange"
    /\ frame = "alive"
    /\ m_awaiter' = "sentinel"
    /\ next' = IF m_awaiter = "null" THEN "noop" ELSE m_awaiter
    /\ body' = "ready"
    /\ UNCHANGED <<const, m_ready, m_data, runner, pc, frame, outcome>>

\* m_ready.store(true)
StoreReady ==
    /\ body = "ready"
    /\ frame = "alive"
    /\ m_ready' = TRUE
    /\ body' = "notify"
    /\ UNCHANGED <<const, m_awaiter, m_data, next, runner, pc, frame, outcome>>

MutNotifyNobody ==
    /\ body = "notify"
    /\ body' = IF next = "noop" THEN "final" ELSE "continue"
    /\ runner' = IF next = "noop" THEN "nobody" ELSE runner
    /\ UNCHANGED <<const, promise, next, pc, frame, outcome>>

\* m_ready.notify_all(): by now the caller may have destroyed the frame; the
\* call uses the address of m_ready only.
Notify ==
    /\ body = "notify"
    /\ pc' = IF pc = "parked" THEN "block" ELSE pc
    /\ body' = IF next = "noop" THEN "final" ELSE "continue"
    /\ runner' = IF next = "noop" THEN "nobody" ELSE runner
    /\ UNCHANGED <<const, promise, next, frame, outcome>>

\* The thread goes on with the coroutine that awaited this one.
Continue ==
    /\ body = "continue"
    /\ body' = "final"
    /\ runner' = "nobody"
    /\ pc' = "resume"
    /\ UNCHANGED <<const, promise, next, frame, outcome>>

\* The caller has destroyed the frame of a coroutine that is not finished:
\* undefined from the next step of the coroutine on.
Dangle ==
    /\ frame = "destroyed"
    /\ body \in {"queued", "running", "exchange", "ready"}
    /\ body' = "undefined"
    /\ UNCHANGED <<const, promise, next, runner, pc, frame, outcome>>

Coroutine == \/ Schedule \/ RunInline \/ RunOnWorker \/ Complete \/ Exchange
             \/ StoreReady \/ Notify \/ Continue \/ Dangle

-----------------------------------------------------------------------------
(***************************************************************************)
(* The caller.                                                             *)
(***************************************************************************)
\* The caller's thread is not inside the coroutine.
Free == runner # "caller"

Goto(l) == pc' = l

Finish(what) == /\ outcome' = what
                /\ frame' = "destroyed"
                /\ pc' = "finished"

\* task::await_ready: done(), or m_ready
AwaitReady ==
    /\ pc = "call" /\ use = "await" /\ ~lazy /\ Free
    /\ Goto(IF Done \/ m_ready THEN "resume" ELSE "suspend")
    /\ UNCHANGED <<const, promise, next, body, runner, frame, outcome>>

MutSuspendBlindly ==
    /\ pc = "suspend"
    /\ m_awaiter' = "caller"
    /\ Goto("suspended")
    /\ UNCHANGED <<const, m_ready, m_data, next, body, runner, frame, outcome>>

MutSuspendNever ==
    /\ pc = "suspend"
    /\ m_awaiter' = IF m_awaiter = "null" THEN "caller" ELSE m_awaiter
    /\ Goto("resume")
    /\ UNCHANGED <<const, m_ready, m_data, next, body, runner, frame, outcome>>

\* task::await_suspend: compare_exchange from nullptr; the sentinel means that
\* the coroutine has finished meanwhile, so the caller goes on at once.
Suspend ==
    /\ pc = "suspend"
    /\ \/ /\ m_awaiter = "null"
          /\ m_awaiter' = "caller"
          /\ Goto("suspended")
       \/ /\ m_awaiter = "sentinel"
          /\ Goto("resume")
          /\ UNCHANGED m_awaiter
    /\ UNCHANGED <<const, m_ready, m_data, next, body, runner, frame, outcome>>

\* lazy_task::await_suspend: registers the caller, then transfers to the
\* coroutine, which starts on the caller's thread.
Transfer ==
    /\ pc = "call" /\ use = "await" /\ lazy
    /\ m_awaiter' = "caller"
    /\ body' = "start"
    /\ runner' = "caller"
    /\ Goto("suspended")
    /\ UNCHANGED <<const, m_ready, m_data, next, frame, outcome>>

\* get, get(&executor) and blocking_get; of a lazy_task they first resume the
\* coroutine, which runs on the caller's thread until it changes threads.
Get ==
    /\ pc = "call" /\ use # "await" /\ Free
    /\ IF lazy THEN body' = "start" /\ runner' = "caller"
               ELSE UNCHANGED <<body, runner>>
    /\ Goto(IF use = "blocking" THEN "block" ELSE "resume")
    /\ UNCHANGED <<const, promise, next, frame, outcome>>

\* basic_promise_type::wait, one round: while m_ready is not set the caller
\* calls meta.steal, which only get(&executor) has given a target.  Calling
\* an empty std::function throws std::bad_function_call.
Wait ==
    /\ pc = "resume" /\ Free
    /\ \/ /\ m_ready
          /\ Finish(m_data)
       \/ /\ ~m_ready
          /\ use = "steal"
          /\ Goto("steal")
          /\ UNCHANGED <<frame, outcome>>
       \/ /\ ~m_ready
          /\ use # "steal"
          /\ Finish("bad_function_call")
    /\ UNCHANGED <<const, promise, next, body, runner>>

\* executor->try_steal(): the continuation of this very coroutine, another
\* task, or nothing.
Steal ==
    /\ pc = "steal"
    /\ Goto("resume")
    /\ \/ /\ body = "queued"
          /\ body' = "running"
          /\ runner' = "caller"
       \/ UNCHANGED <<body, runner>>
    /\ UNCHANGED <<const, promise, next, frame, outcome>>

\* m_ready.wait(false)
Block ==
    /\ pc = "block" /\ Free
    /\ IF m_ready THEN Finish(m_data)
                  ELSE Goto("parked") /\ UNCHANGED <<frame, outcome>>
    /\ UNCHANGED <<const, promise, next, body, runner>>

Caller == \/ AwaitReady \/ Suspend \/ Transfer \/ Get \/ Wait \/ Steal \/ Block

Next == Coroutine \/ Drop \/ Caller

\* The caller's thread and the workers are scheduled; a pool may drop what it
\* has queued but need not.
Fairness == WF_vars(Coroutine) /\ WF_vars(Caller)

Spec     == Init /\ [][Next]_vars
FairSpec == Spec /\ Fairness

-----------------------------------------------------------------------------
\* Every variable stays in its range, and a thread runs the coroutine exactly
\* while it is neither waiting to be started nor at its end.
TypeOK ==
    /\ use \in Uses /\ lazy \in Kinds /\ pooled \in BOOLEAN
    /\ m_ready \in BOOLEAN
    /\ m_awaiter \in {"null", "caller", "sentinel"}
    /\ m_data \in {"none", "value", "exception"}
    /\ next \in {"noop", "caller"}
    /\ body \in {"suspended", "start", "queued", "dropped", "running", "exchange",
                 "ready", "notify", "continue", "final", "undefined"}
    /\ runner \in {"nobody", "caller", "worker"}
    /\ pc \in {"call", "suspend", "suspended", "resume", "steal", "block",
               "parked", "finished"}
    /\ frame \in {"alive", "destroyed"}
    /\ outcome \in {"none", "value", "exception", "bad_function_call"}

\* A caller that gets the result of the body gets it after the coroutine has
\* published it and has nothing left to do with its frame but to notify.
ResultAfterPublication ==
    outcome \in {"value", "exception"} =>
        /\ outcome = m_data
        /\ m_awaiter = "sentinel"
        /\ body \in {"notify", "continue", "final"}

\* The continuation of a suspended caller is never lost: until it is resumed,
\* the promise or the thread that finishes the coroutine holds its handle
\* (compare_exchange of await_suspend against exchange of final_awaiter).
ContinuationKept ==
    pc = "suspended" =>
        \/ m_awaiter = "caller" /\ body \notin {"ready", "notify", "continue", "final"}
        \/ next = "caller" /\ body \in {"ready", "notify", "continue"}

\* ... and it is resumed by one of the two only.
ResumedOnce == body = "continue" => pc = "suspended"

\* Every call ends, unless the pool has dropped the coroutine.
CallEnds == <>(pc = "finished" \/ body = "dropped")

\* get and co_await give the value or the exception of the body: the tests
\* call get() on the task of pool.run and require its value.
GivesResult == outcome # "bad_function_call"
=============================================================================
