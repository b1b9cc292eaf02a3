------------------------------- MODULE ForkJoin -------------------------------
(***************************************************************************)
(* A parallel loop: parfor (include/pot/algorithms/parfor.h), parsections  *)
(* (include/pot/algorithms/parsections.h) and the reductions on top of     *)
(* parfor (include/pot/algorithms/reduce.h), which give one task per chunk *)
(* to an executor and wait for them in when_all                            *)
(* (include/pot/coroutines/when_all.h).                                    *)
(*                                                                         *)
(* The coroutines are the chunks 0 .. numChunks - 1, the two levels of     *)
(* when_all and parfor itself, each awaiting the one before it; all but    *)
(* parfor, a lazy_task, are tasks that start at once on the thread of      *)
(* their caller, with the promise of include/pot/coroutines/task.h.  A     *)
(* coroutine that has been suspended goes on, on the thread that finishes  *)
(* what it awaits, while its caller runs on in parallel.                   *)
(***************************************************************************)
EXTENDS Chunks

CONSTANT Loops   \* the loops considered, see Loop

\* kind "sections" is parfor with one function in the place of each index;
\* n and lanes are the array and the width of a vector of a reduction.
Loop == [kind : {"parfor", "sections", "reduce", "simd"}, from : Nat, to : Nat,
         static : Int, threads : Nat \ {0}, top : Nat, n : Nat, lanes : Nat \ {0}]

\* What the sources assert, or give parfor themselves.
Legal(l) ==
    /\ l.from < l.to /\ l.to < l.top
    /\ l.static # 0
    /\ l.kind = "sections" => l.from = 0 /\ l.static = 1
    /\ l.kind \in {"reduce", "simd"} =>
          /\ l.n > 0 /\ l.from = 0 /\ l.static < 0
          /\ l.to < l.top \div 2        \* std::size_t does not overflow
          /\ l.to = IF l.kind = "reduce"
                       THEN BlockCount(l.threads)
                       ELSE SimdBlockCount(l.n, l.threads, l.lanes)

ASSUME LoopsAssumption == Loops \subseteq Loop /\ \A l \in Loops : Legal(l)

VARIABLES loop,      \* constant
          stopped,   \* the executor has been shut down
          state,     \* where each coroutine is
          cursor,    \* the index a chunk comes to next
          m_ready,
          m_awaiter, \* nullptr, the handle of the coroutine behind, or the sentinel
          m_data,
          next,      \* does final_awaiter return the awaiter's handle?
          alive,     \* the frames that exist
          pc,        \* how far a coroutine is in awaiting another
          at,        \* the task when_all awaits
          count,     \* history: how often each element has been worked on
          outcome    \* how parfor has ended

promise == <<m_ready, m_awaiter, m_data, next>>
vars == <<loop, stopped, state, cursor, promise, alive, pc, at, count, outcome>>

-----------------------------------------------------------------------------
chunk_size == ChunkSize(loop.to - loop.from, loop.static, loop.threads)
numChunks  == NumChunks(loop.to - loop.from, chunk_size)

Tasks  == 0 .. numChunks - 1
inner  == numChunks        \* when_all(begin, end)
outer  == numChunks + 1    \* when_all(futures)
parfor == numChunks + 2
Coro   == 0 .. parfor

\* What a coroutine awaits.
Awaited(j) == IF j = inner THEN at ELSE j - 1

\* Who awaits a coroutine.
Awaiter(c) == IF c \in Tasks THEN inner ELSE c + 1

chunkStart(k) == ChunkStart(loop.from, chunk_size, k, loop.top)
chunkEnd(k)   == ChunkEnd(loop.from, loop.to, chunk_size, k, loop.top)

\* The elements of the array, or the indices themselves.
Elements == IF loop.kind \in {"reduce", "simd"} THEN 0 .. loop.n - 1
                                                ELSE loop.from .. loop.to - 1

MutReduceBlocks(i) == Block(loop.n, loop.n \div loop.to, i)

\* elementwise_reduce: what the function object does for one index.
ReduceWork(i) == Block(loop.n, BlockSize(loop.n, loop.to), i)

\* elementwise_reduce_simd: whole vectors first, then the scalar rest.
SimdVectors(i) ==
    LET size  == SimdBlockSize(loop.n, loop.to, loop.lanes)
        begin == i * size
    IN  begin .. VectorEnd(begin, Least(loop.n, begin + size), loop.lanes) - 1

SimdRest(i) ==
    LET size  == SimdBlockSize(loop.n, loop.to, loop.lanes)
        begin == i * size
        end   == Least(loop.n, begin + size)
    IN  VectorEnd(begin, end, loop.lanes) .. end - 1

\* How often the call for index i works on element e.
Uses(i, e) ==
    LET In(S) == IF e \in S THEN 1 ELSE 0
    IN  CASE loop.kind = "reduce" -> In(ReduceWork(i))
          [] loop.kind = "simd"   -> In(SimdVectors(i)) + In(SimdRest(i))
          [] OTHER                -> In({i})

\* The elements observed: every index of the type, or the array and a margin.
Observed == 0 .. (IF loop.kind \in {"reduce", "simd"} THEN 2 * loop.n
                                                      ELSE loop.top - 1)

Init == /\ loop \in Loops
        /\ stopped \in BOOLEAN
        /\ state = [c \in Coro |-> "none"]
        /\ cursor = [k \in Tasks |-> 0]
        /\ m_ready = [c \in Coro |-> FALSE]
        /\ m_awaiter = [c \in Coro |-> "null"]
        /\ m_data = [c \in Coro |-> "none"]
        /\ next = [c \in Coro |-> FALSE]
        /\ alive = {}
        /\ pc = [j \in inner .. parfor |-> IF j = parfor THEN "spawn" ELSE "none"]
        /\ at = 0
        /\ count = [e \in Observed |-> 0]
        /\ outcome = "none"

-----------------------------------------------------------------------------
(***************************************************************************)
(* The chunks.                                                             *)
(***************************************************************************)
\* executor.run for the next chunk: do_run queues the continuation of the new
\* task.  A stopped executor throws, and the task ends there and then with the
\* exception; if it is stopped after its test, the continuation is never run.
Run(k) ==
    /\ pc[parfor] = "spawn"
    /\ \A c \in Tasks : state[c] = "none" => k <= c
    /\ state[k] = "none"
    /\ alive' = alive \union {k}
    /\ \/ /\ state' = [state EXCEPT ![k] = IF stopped THEN "dropped" ELSE "queued"]
          /\ UNCHANGED promise
       \/ /\ stopped
          /\ state' = [state EXCEPT ![k] = "final"]
          /\ m_awaiter' = [m_awaiter EXCEPT ![k] = "sentinel"]
          /\ m_ready' = [m_ready EXCEPT ![k] = TRUE]
          /\ m_data' = [m_data EXCEPT ![k] = "exception"]
          /\ UNCHANGED next
    /\ UNCHANGED <<loop, stopped, cursor, pc, at, count, outcome>>

\* Both calls of when_all: the inner one has the first task in hand, the outer
\* one and parfor are in the middle of a call.
WhenAll ==
    /\ pc[parfor] = "spawn"
    /\ \A k \in Tasks : state[k] # "none"
    /\ alive' = alive \union {inner, outer}
    /\ state' = [state EXCEPT ![inner] = "running", ![outer] = "running"]
    /\ pc' = [pc EXCEPT ![inner] = "check", ![outer] = "call", ![parfor] = "call"]
    /\ UNCHANGED <<loop, stopped, cursor, promise, at, count, outcome>>

\* shutdown of the executor: what is queued may or may not be run any more.
Shutdown ==
    /\ ~stopped
    /\ stopped' = TRUE
    /\ \E D \in SUBSET {k \in Tasks : state[k] = "queued"} :
          state' = [c \in Coro |-> IF c \in D THEN "dropped" ELSE state[c]]
    /\ UNCHANGED <<loop, cursor, promise, alive, pc, at, count, outcome>>

\* A worker of the executor resumes the chunk.
Start(k) ==
    /\ state[k] = "queued" /\ k \in alive
    /\ state' = [state EXCEPT ![k] = "running"]
    /\ cursor' = [cursor EXCEPT ![k] = chunkStart(k)]
    /\ UNCHANGED <<loop, stopped, promise, alive, pc, at, count, outcome>>

\* The coroutine of the chunk has come to its final suspension point.
Finish(c, data) ==
    /\ state' = [state EXCEPT ![c] = "exchange"]
    /\ m_data' = [m_data EXCEPT ![c] = data]

\* One round of the chunk's loop: the function object is called for an index
\* and may throw, or the coroutine returns.
Iterate(k) ==
    /\ state[k] = "running" /\ k \in alive
    /\ \/ /\ cursor[k] < chunkEnd(k)
          /\ \/ /\ count' = [e \in Observed |-> count[e] + Uses(cursor[k], e)]
                /\ cursor' = [cursor EXCEPT ![k] = @ + 1]
                /\ UNCHANGED <<state, m_data>>
             \/ /\ Finish(k, "exception")
                /\ UNCHANGED <<count, cursor>>
       \/ /\ cursor[k] >= chunkEnd(k)
          /\ Finish(k, "value")
          /\ UNCHANGED <<count, cursor>>
    /\ UNCHANGED <<loop, stopped, m_ready, m_awaiter, next, alive, pc, at, outcome>>

-----------------------------------------------------------------------------
(***************************************************************************)
(* The end of a task: final_awaiter::await_suspend, and the transfer to    *)
(* the coroutine that awaits it.                                           *)
(***************************************************************************)
Exchange(c) ==
    /\ state[c] = "exchange" /\ c \in alive
    /\ m_awaiter' = [m_awaiter EXCEPT ![c] = "sentinel"]
    /\ next' = [next EXCEPT ![c] = m_awaiter[c] = "handle"]
    /\ state' = [state EXCEPT ![c] = "ready"]
    /\ UNCHANGED <<loop, stopped, cursor, m_ready, m_data, alive, pc, at, count, outcome>>

StoreReady(c) ==
    /\ state[c] = "ready" /\ c \in alive
    /\ m_ready' = [m_ready EXCEPT ![c] = TRUE]
    /\ state' = [state EXCEPT ![c] = "notify"]
    /\ UNCHANGED <<loop, stopped, cursor, m_awaiter, m_data, next, alive, pc, at, count, outcome>>

\* m_ready.notify_all() on a promise that is still there; nobody waits on m_ready.
Notify(c) ==
    /\ state[c] = "notify" /\ c \in alive
    /\ state' = [state EXCEPT ![c] = "continue"]
    /\ UNCHANGED <<loop, stopped, cursor, promise, alive, pc, at, count, outcome>>

\* The thread goes on with the awaiter, or goes back to where it called the
\* coroutine, if that was on this thread: a worker's loop, or the expression
\* whose operand the coroutine is.
Continue(c) ==
    /\ state[c] = "continue"
    /\ state' = [state EXCEPT ![c] = "final"]
    /\ pc' = [pc EXCEPT ![Awaiter(c)] =
                 IF next[c] THEN "resume"
                 ELSE IF c \notin Tasks /\ @ = "call" THEN "check" ELSE @]
    /\ UNCHANGED <<loop, stopped, cursor, promise, alive, at, count, outcome>>

\* The frame has been destroyed before the coroutine was done with it:
\* undefined from its next step on.  A coroutine that has stored m_ready has
\* only the notify_all left: it is late.
Dangle(c) ==
    /\ c \notin alive
    /\ state[c] \in {"queued", "running", "exchange", "ready", "notify"}
    /\ state' = [state EXCEPT ![c] = IF @ = "notify" THEN "late" ELSE "undefined"]
    /\ UNCHANGED <<loop, stopped, cursor, promise, alive, pc, at, count, outcome>>

-----------------------------------------------------------------------------
(***************************************************************************)
(* co_await in when_all, when_all and parfor.                              *)
(***************************************************************************)
Done(c) == state[c] \in {"exchange", "ready", "notify", "continue", "final"}

\* task::await_ready
Check(j) ==
    /\ pc[j] = "check"
    /\ pc' = [pc EXCEPT ![j] = IF Done(Awaited(j)) \/ m_ready[Awaited(j)]
                                  THEN "resume" ELSE "suspend"]
    /\ UNCHANGED <<loop, stopped, state, cursor, promise, alive, at, count, outcome>>

MutSuspendBlindly(j) ==
    /\ pc[j] = "suspend"
    /\ m_awaiter' = [m_awaiter EXCEPT ![Awaited(j)] = "handle"]
    /\ pc' = [i \in inner .. parfor |->
                IF i = j THEN "suspended"
                ELSE IF i = j + 1 /\ pc[i] = "call" THEN "check" ELSE pc[i]]
    /\ UNCHANGED <<loop, stopped, state, cursor, m_ready, m_data, next, alive, at, count, outcome>>

\* task::await_suspend; the first suspension of a coroutine returns to the
\* expression that called it.
Suspend(j) ==
    /\ pc[j] = "suspend"
    /\ \/ /\ m_awaiter[Awaited(j)] = "null"
          /\ m_awaiter' = [m_awaiter EXCEPT ![Awaited(j)] = "handle"]
          /\ pc' = [i \in inner .. parfor |->
                      IF i = j THEN "suspended"
                      ELSE IF i = j + 1 /\ pc[i] = "call" THEN "check" ELSE pc[i]]
       \/ /\ m_awaiter[Awaited(j)] = "sentinel"
          /\ pc' = [pc EXCEPT ![j] = "resume"]
          /\ UNCHANGED m_awaiter
    /\ UNCHANGED <<loop, stopped, state, cursor, m_ready, m_data, next, alive, at, count, outcome>>

\* What await_resume gives: wait() calls the empty meta.steal if m_ready is
\* not set yet.
Result(c) == IF m_ready[c] THEN m_data[c] ELSE "bad_function_call"

MutResumeLast ==
    /\ pc[inner] = "resume"
    /\ alive' = alive \ {at}
    /\ IF Result(at) = "value" /\ at < numChunks - 2
          THEN /\ at' = at + 1
               /\ pc' = [pc EXCEPT ![inner] = "check"]
               /\ UNCHANGED <<state, m_data>>
          ELSE /\ Finish(inner, Result(at))
               /\ pc' = [pc EXCEPT ![inner] = "none"]
               /\ UNCHANGED at
    /\ UNCHANGED <<loop, stopped, cursor, m_ready, m_awaiter, next, count, outcome>>

MutResumeCatch ==
    /\ pc[inner] = "resume"
    /\ alive' = alive \ {at}
    /\ IF at < numChunks - 1
          THEN /\ at' = at + 1
               /\ pc' = [pc EXCEPT ![inner] = "check"]
               /\ UNCHANGED <<state, m_data>>
          ELSE /\ Finish(inner, Result(at))
               /\ pc' = [pc EXCEPT ![inner] = "none"]
               /\ UNCHANGED at
    /\ UNCHANGED <<loop, stopped, cursor, m_ready, m_awaiter, next, count, outcome>>

\* when_all(begin, end): await_resume destroys the task's frame; the loop goes
\* on with the next task, ends, or is left by the task's exception.
ResumeInner ==
    /\ pc[inner] = "resume"
    /\ alive' = alive \ {at}
    /\ IF Result(at) = "value" /\ at < numChunks - 1
          THEN /\ at' = at + 1
               /\ pc' = [pc EXCEPT ![inner] = "check"]
               /\ UNCHANGED <<state, m_data>>
          ELSE /\ Finish(inner, Result(at))
               /\ pc' = [pc EXCEPT ![inner] = "none"]
               /\ UNCHANGED at
    /\ UNCHANGED <<loop, stopped, cursor, m_ready, m_awaiter, next, count, outcome>>

\* when_all(futures) returns what the inner call gives.
ResumeOuter ==
    /\ pc[outer] = "resume"
    /\ alive' = alive \ {inner}
    /\ Finish(outer, Result(inner))
    /\ pc' = [pc EXCEPT ![outer] = "none"]
    /\ UNCHANGED <<loop, stopped, cursor, m_ready, m_awaiter, next, at, count, outcome>>

\* parfor ends, and with it its vector of tasks and their frames.
ResumeParfor ==
    /\ pc[parfor] = "resume"
    /\ alive' = {}
    /\ outcome' = Result(outer)
    /\ pc' = [pc EXCEPT ![parfor] = "none"]
    /\ UNCHANGED <<loop, stopped, state, cursor, promise, at, count>>

-----------------------------------------------------------------------------
Launch == WhenAll \/ \E k \in Tasks : Run(k)

Ending(c) == Exchange(c) \/ StoreReady(c) \/ Notify(c) \/ Continue(c) \/ Dangle(c)

Awaiting(j) == Check(j) \/ Suspend(j)

Resuming == ResumeInner \/ ResumeOuter \/ ResumeParfor

Next == \/ Launch
        \/ Shutdown
        \/ \E k \in Tasks : Start(k) \/ Iterate(k)
        \/ \E c \in 0 .. outer : Ending(c)
        \/ \E j \in inner .. parfor : Awaiting(j)
        \/ Resuming

\* The executor runs what it has queued and its threads are scheduled.
Fairness == /\ WF_vars(Launch)
            /\ WF_vars(\E k \in Tasks : Start(k) \/ Iterate(k))
            /\ WF_vars(\E c \in 0 .. outer : Ending(c))
            /\ WF_vars(\E j \in inner .. parfor : Awaiting(j))
            /\ WF_vars(Resuming)

Spec     == Init /\ [][Next]_vars
FairSpec == Spec /\ Fairness

-----------------------------------------------------------------------------
\* All that is left of a coroutine that has published its result: the call of
\* notify_all, in time or late, and the return from its final awaiter.
Published == {"notify", "late", "continue", "final"}

\* A loop that returns normally has worked on every element once and on
\* nothing else, unless the end of its last chunk does not fit the index type.
\* All its coroutines have published their results; those that have not come
\* back from the notify_all behind the store may still call it on a destroyed
\* promise, and have nothing else left to do.
ReturnsComplete ==
    outcome = "value" =>
        /\ \A k \in Tasks : m_data[k] = "value" /\ m_ready[k]
        /\ \A c \in 0 .. outer : state[c] \in Published
        /\ Fits(loop.from, loop.to, chunk_size, loop.top) =>
              \A e \in Elements : count[e] = 1

\* No element is worked on twice, or outside the range, at any moment: not
\* even if the end of the last chunk wraps around.
NeverTwice == \A e \in Observed : count[e] <= IF e \in Elements THEN 1 ELSE 0

\* when_all reports the first failure in the order of the tasks: the exception
\* that ends the loop is that of a chunk all of whose predecessors have succeeded.
FirstFailureReported ==
    outcome = "exception" =>
        /\ m_data[at] = "exception"
        /\ \A k \in 0 .. at - 1 : m_data[k] = "value"

\* A coroutine uses its destroyed frame in three cases only: it is a chunk that
\* parfor has left behind when a failure ended it; its awaiter has come between
\* the end of the coroutine and m_ready and got bad_function_call; or, in any
\* loop, its awaiter has taken the result and destroyed the promise between
\* m_ready.store and notify_all.  In the last case the awaiter does not depend on
\* it any more: no continuation is lost with it.
DanglesInThreeCases ==
    \A c \in 0 .. outer :
        /\ state[c] = "undefined" =>
              \/ c \in Tasks /\ outcome \in {"exception", "bad_function_call"}
              \/ c = outer /\ outcome = "bad_function_call"
              \/ c = inner /\ m_data[outer] = "bad_function_call"
              \/ c = at /\ m_data[inner] = "bad_function_call"
        /\ state[c] = "late" => m_ready[c] /\ ~next[c]

\* The loop ends, unless the executor never runs the task it waits for.
LoopEnds == <>(outcome # "none" \/ (at \in Tasks /\ state[at] = "dropped"))
=============================================================================
