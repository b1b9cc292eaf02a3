# Verification of the Parallel Operations Toolkit

TLA+ models of the concurrent core of this repository (`include/pot`): the
thread pools, the lock-free queue and the threads under them, the coroutine
tasks that run on them, the lock and the events that coroutines wait for, the
parallel loops made of such tasks, and a work-stealing deque. TLC checks the
models on small instances; TLAPS proves the central invariants for every number
of threads, tasks, coroutines and cells.

    tlc -workers 2 -config PoolSafety.cfg MCThreadPool     # one of the runs below
    tlapm ThreadPool_proofs.tla                            # the proofs

`PROJECT.json` lists the components, the runs with the properties they check,
the definition of the model each source line corresponds to, the known
disagreements between code and documentation, and the hazards of the code with
the properties that watch them. Definitions named `Mut...` are deliberate
defects: replacing the definition they follow by them must make the property
listed beside them fail, which shows that the property is about the code.

## Inventory

| Part | Source (`include/pot/`) | State | Operations | Talks to |
|---|---|---|---|---|
| thread pools | `sandbox/thread_pool_executor.h` (12 classes) | queue(s), notifier(s), `m_stop`, `m_threads`, `m_next_thread_idx` | `derived_execute`, `worker_loop`, `try_steal`, `shutdown` | queue; called by `executor`, lock, tasks |
| lock-free queue | `algorithms/lfqueue.h` | ring of `{sequence, data}`, `enqueuePos`, `dequeuePos` | `push`, `pop` | pools, lock, `thread_lf` |
| tasks | `coroutines/task.h` | per coroutine: `m_ready`, `m_awaiter`, `m_data`, `meta` | `co_await`, `get`, `blocking_get`, final suspend, destruction | executor |
| executor | `executors/executor.h` | name | `run`, `lazy_run`, `run_detached`, `do_run`, `try_steal`, `cpu_set` | pools, tasks |
| async lock | `sync/async_lock.h` | `m_state`, queue of waiting handles | `lock`, `unlock` (guard) | queue, executor |
| condition variable | `coroutines/async_condition_variable.h` | flag, list of awaiters | `co_await`, `set`, `reset`, `stop` | coroutines |
| barrier | `coroutines/async_barrier.h` | counter, vector of awaiters | `co_await`, `set` | coroutines |
| parallel algorithms | `algorithms/parfor.h`, `parsections.h`, `reduce.h`, `dot.h`, `coroutines/when_all.h` | tasks of the chunks, partial results | `parfor`, `parsections`, `elementwise_reduce`, `elementwise_reduce_simd`, `when_all` | executor, tasks |
| threads | `threads/thread.h` | queue, mutex or `m_has_work`, stop token | `run`, `request_stop`, `join` | older pools |
| pools on threads | `executors/thread_pool_executor.h` (4 classes) | as the pools; `gq`, `lfgq` run a `worker_loop` as the only task of each thread | `derived_execute`, `worker_loop`, `shutdown` | threads |
| older executors | `executors/thread_executor.h`, `inline_executor.h` | queue, mutex, condition variable | `derived_execute`, `shutdown` | nobody: they do not compile against `executor` |
| Chase-Lev deque | `algorithms/lfdequeue.h` | ring buffers, `top`, `bottom`, stealer tokens | `push`, `pop`, `pop_back` | nobody |
| the rest | `simd/`, `memory/`, `utils/`, `traits/`, `modules/` | none that is shared | intrinsics, allocation, names, type traits, C++20 copies of the headers | |

Of the tests only `test_thread_pools_bench.cpp` is enabled in
`test/CMakeLists.txt`; it uses the pools of the sandbox, `parfor` and the lock.
That is where the models begin.

What is hard in this code:

* **Sleeping workers.** A worker reads a notifier, looks for work, and sleeps
  only if the notifier has not moved. Order matters on both sides (push, bump,
  notify; load, look, wait), and once more between `shutdown` and the stop token.
* **Taking is not calling.** A worker takes a task under a mutex and calls it
  outside, so two workers may begin two tasks in the other order.
* **A lock-free queue under the sleepers.** `pop` answers "empty" while the
  front is claimed and unpublished, although tasks behind it are complete.
* **Full queues.** A submitter spins; if the submitters are the workers, nobody
  empties the queue.
* **Shutdown.** Tasks still queued are dropped; `m_threads.size()` becomes zero
  while submitters divide by it; a second caller returns at once.
* **A coroutine and its caller.** The caller registers a continuation while the
  coroutine ends, and destroys the frame while the coroutine's last words
  (`notify_all`) are still to come.
* **Stop against sleep.** `request_stop` of a thread takes no mutex, so its
  notification can fall between a test and a wait.
* **Looking again.** A coroutine decides to suspend and is put on a list later;
  what was signalled in between is lost unless somebody looks again.
* **A failure among many.** The first chunk that throws ends the loop, and the
  frames of the others are destroyed while they may still run.
* **Rounding and narrow indices.** Chunks and blocks are rounded up, and the end
  of a chunk is computed in the caller's index type, where it may overflow.
* **Reading after the claim.** A thief claims an index of the deque first and
  reads the slot afterwards; buffers it may still hold are reclaimed by the owner.
* **Resumption on top of a stack.** `unlock` may run the next holder inside
  itself; `set` runs every coroutine it wakes inside itself, and they may await
  the same event again from there.

What makes each part correct: a pool starts every task it accepted, once, takes them in
the order its class promises, and stops; the queue hands out each message once, in
order; a task's continuation runs once, after the result is there; the lock has
one holder and forgets no waiter; an event wakes those it found waiting and a
barrier lets nobody by before its count; a parallel loop that returns has worked
on everything once, and one that fails reports the first failure; a deque gives
out each item once, at the end it was asked at.

## Modules

| Module | What it is | Source |
|---|---|---|
| `Executor` | abstract specification: what every executor promises of a task | `executors/executor.h` |
| `ThreadPool` | the twelve pools; `ImplementsExecutor` is its refinement of `Executor` | `sandbox/thread_pool_executor.h` |
| `ThreadPool_proofs` | the inductive invariants of the pools, of their threads and of their tasks, and the proofs | |
| `BoundedQueue` | abstract specification: a bounded FIFO that hands each message to one consumer | `algorithms/lfqueue.h` |
| `LfQueue` | the lock-free queue, access by access; `ImplementsQueue` is its refinement of `BoundedQueue` | `algorithms/lfqueue.h` |
| `Task` | a coroutine and its caller, with the executor's scheduling | `coroutines/task.h`, `executors/executor.h` |
| `AsyncLock` | the lock, its waiters, and the worker threads that run them | `sync/async_lock.h` |
| `AsyncEvent` | condition variable and barrier, the coroutines that wait and the threads that signal | `coroutines/async_condition_variable.h`, `coroutines/async_barrier.h` |
| `PotThreads` | `thread`, `thread_lf` and the four pools made of them | `threads/thread.h`, `executors/thread_pool_executor.h` |
| `Chunks` | how loops and reductions split their work, as operators | `algorithms/parfor.h`, `reduce.h` |
| `ForkJoin` | a parallel loop: its chunks, `when_all`, and the coroutine behind each `co_await`, on an executor | `algorithms/parfor.h`, `parsections.h`, `reduce.h`, `coroutines/when_all.h`, `task.h` |
| `WorkDeque` | abstract specification: a deque with an owner and thieves | `algorithms/lfdequeue.h` |
| `LfDeque` | the deque, access by access, with its buffers; `ImplementsDeque` is its refinement of `WorkDeque` | `algorithms/lfdequeue.h` |
| `Task_proofs`, `AsyncLock_proofs`, `AsyncEvent_proofs`, `LfQueue_proofs`, `PotThreads_proofs`, `ForkJoin_proofs`, `LfDeque_proofs` | proofs about the module they are named after | |
| `MC...` | the instances TLC checks | |

**ThreadPool.** One skeleton and a record `class` for what distinguishes the
twelve classes: one queue and notifier or one per worker; where a task is placed;
mutex or lock-free queue; whom an idle worker robs. `class` is chosen in `Init`,
so that one run covers all of them. `pc` says where each thread is: `CheckStop`,
`PickQueue`, `Push`, `Publish`, `Bump`, `NotifyOne` are `derived_execute`;
`Loop`, `Load`, `Pop`, `Steal`, `Begin`, `Recheck`, `Wait`, `Return` are `worker_loop`;
`Scan`, `Begin`, `Return` are `try_steal`; `Cas`, `Request`, `WakeBump`, `WakeAll`, `Join` are
`shutdown`. A task's body submits further tasks from the thread that runs it.
A critical section under a mutex is one step; `Contended` says when a `try_lock`
may fail because of one. A lock-free push is two steps (claim, publish), which is
what `LfQueue` shows its users can see of it. `std::atomic::wait` parks only if
the value is unchanged, and only `notify` wakes: the model allows no spurious
wake-up, which makes a lost one visible. `status` is a history variable that records
the life of each task. Taking a task from its queue (`Take`, a part of `Pop`, `Steal`
and `Scan`) and calling it (`Begin`) are two steps, because the call is made outside the
mutex; in between the task is `taken`, in the hands of one thread. `ProgramOrder` and
`FewestRunsFirst` are about the order of taking, which the queue decides;
`BodiesNearlyInOrder` says what is left of it for the bodies. For `Executor` a
task that is taken and not yet called is still queued (`Accepted`). A body that submits to a stopped pool gets an exception;
the model's bodies catch it and go on.

**LfQueue.** Each access to `sequence`, `data`, `enqueuePos` and `dequeuePos` is
a step. Relaxed loads of the positions may return any value not older than what
the thread has seen. `log` records what was pushed at each position.

**Task.** `body` is where the coroutine is, `runner` the thread that executes
it, `pc` where the caller is. The caller's thread runs the coroutine itself when
the task is not sent to a pool, when `get` resumes a lazy task, when `co_await`
transfers to one, and when `try_steal` finds it. `Dangle` is a coroutine whose
frame the caller has destroyed too early; `Drop` a pool that shuts down.

**AsyncLock.** `stack` gives each worker the coroutines it runs, innermost
first: `HandOff` to a coroutine without an executor pushes it on the stack of
the thread that unlocks. `Yield` is a holder that awaits something else while it
holds the lock. A stopped executor throws in the destructor of the guard, which
ends the process (`dead`).

**AsyncEvent.** `kind` says which of the two events an instance is. `AwaitReady`,
`PushAwaiter` or `Enlist`, and `AwaitResume` are the awaiter; `SetFlag` or
`Arrive`, `Take`, `Resume`, `Return` are `set`; `StopFlag`, `Drop` and `Reset` are
`stop` and `reset`. `host` says inside which signaller's `resume()` a coroutine
runs: that signaller's loop goes on when the coroutine suspends again or ends.

**PotThreads.** `class` says whether the instance is a lone thread, a pool that
deals tasks out to its threads (`local`) or one with a queue of its own (`shared`),
and whether its threads are `thread` or `thread_lf`. In a shared pool each thread
begins with the task `Worker`, and `PoolLook`, `PoolPark` are the loop it enters
with it. `Loop`, `Look`, `Park` are the loop of `thread`, and `Pop`, `Test`, `Clear`,
`Repop`, `Wait` that of `thread_lf`. Between `Look` and `Park` the thread holds
`m_mutex` and does not yet wait: `Wake` of a stopper, which takes no mutex, may come
there and is lost, and `missed` remembers it; so does `Clear` when it wipes out the
`Raise` of a stopper. `round` counts the calls of `request_stop` (two for each
thread of a local pool). A client that has passed the test of `m_stop` may go on
with a thread object that is gone; that is undefined, and the model stops there
(`Dangle`).

**Chunks, ForkJoin.** `Chunks` has the arithmetic of the split with the width of
the index type (`top`), which makes the conversion of a chunk's end to it visible.
`ForkJoin` is the composition of `parfor` with `when_all` and the promise of
`task.h`: the coroutines are the chunks, the two nested calls of `when_all` and
`parfor`, and each has the steps of `Task` for its end (`Exchange`, `StoreReady`,
`Notify`, `Continue`) and for the `co_await` on it (`Check`, `Suspend`, `Result`). The calls
start at once on their caller's thread, so that the first suspension of a
coroutine returns into the expression that called it (`call` becomes `check`).
`loop` chooses the kind of loop and its numbers in `Init`. A call of the function
object may throw in every iteration. `Shutdown` lets any of the queued chunks be
dropped, and `Run` on a stopped executor either throws into the new task or loses
it. `alive` says which frames exist; a coroutine that has another step to take
in a frame that does not is undefined from there on (`Dangle`); one that has
stored `m_ready` and has only the `notify_all` on it left is `late`. That happens in
any loop, also in one that succeeds: the awaiter sees `m_ready`, takes the result and
destroys the promise between the two calls. The model lets a late coroutine go no
further: what it does afterwards is to return to a thread that nothing in the
model waits for. `count` is a
history of the elements worked on.

**LfDeque.** Every atomic access is a step; `Resize`, whose buffer nobody else
sees until it is published, is one. `buffers` are the buffers that exist, by the
id each resize counts up; `Delete` removes what `reclaim_buffers` deletes. A thief that
reads the id of a deleted buffer (`StoreId`) is undefined from there on. Locals that
are not read again are 0, to keep the number of states down.

**Memory model.** Apart from the relaxed loads above, steps interleave
sequentially consistently. This hides two places where the code stores with release
and then loads something else, which hardware may exchange: `thread_lf` clears
`m_has_work` and looks at the queue once more (`thread.h:167`, `169`; `Clear`, `Repop`),
and the owner of the deque publishes a buffer and then asks which thieves are idle
(`lfdequeue.h:144` and `190`, `253`; `Grow`, `Shrink`, `ReadIdle`). In the first a submission
could be overlooked, in the second a buffer deleted that a thief is about to read.
`NoLostWakeup`, `AcceptedRuns` of `PotThreads` and `BuffersKept` of `LfDeque`
hold of the code only as far as that exchange does not happen; a fence between the
store and the load would make them hold. Where the code relies on acquire/release pairs
(`sequence`, the notifiers, `m_ready`, `m_awaiter`) that is what they provide for
the data they protect. The bump of a notifier is a release and not an ordering
with the later load in `notify_one`; the standard's `notify` contract is taken
at its word.

## Runs

| Run | Shows | Instance |
|---|---|---|
| `pool_safety` | `NoLostWakeup`, `StopWakesAll`, `WorkersLeaveBeforeClear`, `ProgramOrder`, `BodiesNearlyInOrder`, `FewestRunsFirst`, refinement of `Executor` | all 12 classes, 2 workers, a client with 2 tasks, one of which submits a third, a stopper, a thief, queues of 1 cell |
| `pool_liveness` | `AcceptedRuns`, `ShutdownReturns` | a shared and a stealing lock-free pool, no thief |
| `queue` | `OneOwnerPerCell`, `FailuresAreJustified`, `EveryMessageTaken`, refinement of `BoundedQueue` | 2 producers, 2 consumers, 2 cells, 3 messages |
| `task_result` | `ResultAfterPublication`, `ContinuationKept`, `ResumedOnce`, `CallEnds` | every use, lazy or not, pooled or not |
| `task_get` | counterexample: `get()` without an executor throws `bad_function_call`; with `Uses = {"await"}`: so does `co_await` in the window before `m_ready` | `get` or `co_await` of an eager task |
| `lock` | `MutualExclusion`, `InOnePlace`, `HandOffHasTaker`, `NoBarging`, `EveryoneGetsTheLock` | 4 coroutines, 3 of them posted, 2 workers, 1 cell, 2 rounds |
| `events` | `HandlesAreSuspended`, `NobodyPassesEarly`, `BarrierOpens`, `SetResumesWaiters` | both events, 2 coroutines awaiting twice, 2 signallers with 2 calls each |
| `event_lost` | counterexample: a coroutine suspends on a signalled condition variable for good | the same, condition variable |
| `threads` | `NoLostWakeup`, `PoolDrains`, `FifoOrder`, `AcceptedRuns`, `JoinReturns` | both threads and all 4 pools, 2 threads, a client with 2 tasks, one of which submits a third, a stopper, queues of 1 cell |
| `thread_join` | counterexample: `join` of a `thread` drops an accepted task | a lone `thread`, a client with 2 tasks |
| `fork_join` | `ReturnsComplete`, `NeverTwice`, `FirstFailureReported`, `DanglesInThreeCases`, `LoopEnds` | 7 loops of 1 to 3 chunks (see `MCForkJoin`): shares and fixed sizes, ends that overflow, two sections, both reductions |
| `deque` | `ActiveHoldsContents`, `BuffersKept`, `ItemUnlessOvertaken`, refinement of `WorkDeque` | 2 thieves and 3 items, 1 thief and 5 items, a first buffer of 1 slot |

Why the bounds suffice. Two workers are the least with which one can sleep while
the other works and with which stealing happens; their wrong orders involve one
worker, one submitter and one stopper at a time. Three tasks of one client and
one worker fill a queue of one cell, reorder in a priority queue and wrap
`m_next_thread_idx`. Run counts 11, 11 and 5 lie on both sides of the "hot"
limit and include a tie. Two workers and two tasks of one client are the least
with which one worker can hold the first task while the other begins the second. With two cells and three messages a cell of the ring is
used for two laps, and there are two threads on either side to race for it. Four
coroutines on two workers can fill the waiter queue of one cell with both
workers spinning. Two coroutines that await twice, two signals that complete the
barrier and two more calls let a coroutine wait again inside the `resume()` that
woke it, and two calls of `set` overlap. Three chunks have one before and one
after the one that fails. Three items make the buffer of the deque grow twice
while two thieves race for them; with five it reaches eight slots and shrinks, and
one thief is there to see it (two thieves and four items pass as well, with 5.7
million states). The remaining counters (`notifier`, `m_next`, positions,
`m_state`) and the indices of the deque are bounded by the programs of the clients; their
64-bit wrap-around is not modelled. `Task` is finite without bounds. Liveness of the pools is
checked on two classes because the order in which tasks leave a queue is data to
it, and the control structures that differ are one queue or many, stealing or not.

Runs that check deadlock: `queue`. The others may stop: a pool nobody uses, a
coroutine nobody wakes, a process that has ended.

Fairness. `WF` of each thread that has a step to take: the operating system
schedules threads. Nobody is obliged to call `shutdown`. In `LfQueue`, `SF` of a
load that returns the current value (a store becomes visible in finite time) and
of a claim (a weak compare-exchange does not fail spuriously for ever; on x86 it
never does). In `Task` the coroutine and the caller are each weakly fair; a pool
need not drop anything. In `ForkJoin` the thread that starts the loop, the workers
of the executor, the coroutines at their end and the awaiting coroutines are weakly
fair; nobody is obliged to stop the executor. `LfDeque` claims no liveness.

## What the properties except

Some properties name an outcome they cannot exclude, because the code has it:

* a worker, or a thread, that spins for ever on a full lock-free queue which only
  it and its like empty (`AcceptedRuns`, `ShutdownReturns`, `JoinReturns`; in the
  instance of `pool_liveness` the second worker always relieves the first before a
  stop, so there only `ShutdownReturns` needs it);
* all workers spinning on a full waiter queue while the holder of the lock is in
  the executor's queue (`EveryoneGetsTheLock`);
* a thread that sleeps through its stop in the window described above
  (`JoinReturns`, `Hangs`);
* a `gq` of `executors/` that is shut down before any of its threads has begun
  its `worker_loop` (`PoolDrains`): the accepted tasks are dropped;
* a chunk that a stopped executor never runs, and for which the loop waits for
  ever (`LoopEnds`);
* a last chunk whose end does not fit the index type and which is therefore empty
  (`ReturnsComplete`; for instance `parfor` over `0 .. 2` with an index type of two
  bits and chunks of two: the second would end at 4, which is 0);
* chunks left running in destroyed frames after the loop has failed, awaiters
  that come between the end of a coroutine and its `m_ready`, and, in every loop,
  a `notify_all` on a promise whose awaiter has seen `m_ready` and destroyed it
  (`DanglesInThreeCases`; for the last one also `ReturnsComplete`, and
  `ResultAfterPublication` of a single task). `when_all.h:15` speaks of "ensuring that all tasks
  complete before returning": that is so when none fails;
* a thief that finds another item in the slot it has claimed, when a later index has
  been claimed meanwhile and the owner has come round (`ItemUnlessOvertaken`).

Without the exception TLC reports each of them.

Accepted tasks that are still queued when a pool of the sandbox is shut down are
dropped; `Executor` allows it, and `AcceptedRuns` is about pools that are not stopped.

## Proofs

`ThreadPool_proofs` proves, for any `N` workers, any sets of clients, thieves
and stoppers, any programs and each of the classes:

* `TypeCorrect`: `Spec => []TypeOK`;
* `NoWakeupIsLost`: `Spec => []NoLostWakeup`;
* `StopReachesEveryWorker`: `Spec => []StopWakesAll`;
* `WorkersLeaveFirst`: `Spec => []WorkersLeaveBeforeClear`;
* `TakenInOrder`: `Spec => []ProgramOrder`;
* `BodiesBeginNearlyInOrder`: `Spec => []BodiesNearlyInOrder`;
* `SeldomFirst`: `Spec => FewestRunsFirst`;
* `Refinement`: `Spec => ImplementsExecutor`.

The assumptions are those `ThreadPool` states of its constants: at least one
worker and one cell, disjoint kinds of threads, programs that are sequences of
tasks, classes among the twelve, and `OnceAssumption`: a task is submitted from one
place of one program. A task stands for a call of `derived_execute`, and two calls
are two tasks. The theorems about threads do not use it.

The argument about threads. None of the invariants is inductive. `NoLostWakeup` speaks of a
moment at which everybody sleeps, and what makes it true is what each worker knew
before: `EmptyHanded` says that a worker which has found nothing, and whose
`waitVal` is still the value of the notifier, is right, or the submitter that has
proved it wrong is still to bump; `OneUpToDate` says that when all the workers of
a context are parked, one of them has parked on the current value, or the one
who made it current is still to notify. The two together give
`NoLostWakeup`. `ShutdownProgress` follows the thread inside `shutdown`: whose
stop it has requested, which notifiers it has bumped (the workers there have a
stale `waitVal` and cannot park) and which contexts it has woken (nobody there is
parked). `JoinProgress` counts the joins and gives `WorkersLeaveBeforeClear`.
`WhereOK` says which context each step works on. Their conjunction `IInv` is
proved inductive action by action (`IInvInit`, `IInvStep`), from lemmas that say
what a step of one thread leaves alone (`Frame`), and what it can do to the
queues (`QueueEffect`), the notifiers (`NotifierEffect`) and the stop flags
(`StopEffect`).

The argument about tasks. `ProgramOrder` speaks of tasks that have been taken, and the
order is lost or kept long before, so `LifeOK` follows each task from the call that
submits it to its end. It is new while it lies in the program of its
submitter (`SourceOK`) or in that of a task that has not started (`UnbornOK`); it
is in the hand of one submitter, at one position of one queue (`PlaceOK`), or with the
one thread that has taken it, about to call it or inside it (`RunOK`). The queue of
`gpq` is sorted by the number of runs (`SortedOK`), and in `gq`, `lfgq` and `gpq` the tasks of one client lie in the
order of its program (`OrderOK`), in `gpq` those that have run equally often. The steps
of a pool do few things to tasks: nothing (`Quiet`), `Offer`,
`Refuse`, `Accept`, `Fetch` (the dequeue, a stutter of `Executor`), `Start` (the
call), `Finish`. `StepSound` shows that each action has one of these effects and is the step of `Executor` that goes with it; `EffectKeeps`, which
knows nothing of threads, that the effects keep the invariant. Three places need care.
`Insert` puts a task at the end, at the front (the stacks), or in the
priority queue behind the tasks that have run no more often, and these are the first
ones because the queue is sorted (`AheadIsPrefix`, `InsertPlaces`). `BodiesNearlyInOrder` follows from
`ProgramOrder` when a body begins: the earlier tasks have been taken, so those that have not
begun are in somebody's hands (`Hands`); they are not with the worker that begins, and
nobody outside the pool has any, because only `lqlf_steal_seq` has `try_steal` (`ReadyOK`).
Afterwards the set of overtaken tasks only shrinks, and a worker that takes another
task takes a later one, or one of another client (`BodiesStay`). And `Close` of
`Executor` demands that no worker is inside a task when `m_threads` is cleared: this
is the point where `IInv` is needed, whose `JoinProgress` says that every worker has
left by then.

The other proof modules, each with an inductive invariant `IInv` that TLC has been
given first:

* `LfQueue_proofs`, for any producers, consumers, messages and number of cells:
  `OneOwnerPerCell`, `FailuresAreJustified` and the refinement `ImplementsQueue`.
  The invariant ties the `sequence` of each cell to the two positions: a cell is
  free for the lap of its sequence number, claimed by the one thread that has
  advanced the position past it, full, or being emptied by one thread. What a
  thread has read is never newer than what is there.
* `AsyncLock_proofs`, for any coroutines, workers and capacity: `MutualExclusion`,
  `InOnePlace`, `HandOffHasTaker`, `NoBarging`. The invariant counts in `m_state`
  the coroutines that hold the lock or wait for it, published or not, and keeps
  queue, stacks and executor apart.
* `AsyncEvent_proofs`, for any coroutines, signallers and number of calls:
  `HandlesAreSuspended`, `NobodyPassesEarly`. The invariant says that what the
  signallers have taken and what is on the list are disjoint and suspended, and
  that only the call that completes the count takes the list of a barrier.
* `Task_proofs`: `ResultAfterPublication`, `ContinuationKept`, `ResumedOnce`, from an
  invariant on what `m_awaiter` and `m_ready` say of where the coroutine is.
* `ForkJoin_proofs`, about `Chunks`: for any range, chunk size, index type, number of threads and
  vector width: a chunk stays in its share of the range (`ChunkInShare`), chunks do
  not overlap (`ChunksApart`), they cover the range if the end of the last one fits
  (`ChunksCover`), every element is in one block (`BlocksCoverOnce`), and the vector
  loop ends within it (`VectorEndInside`). They rest on a few lemmas about division,
  each from the uniqueness of quotient and remainder.
  About `ForkJoin`: for any set of legal loops (range, chunk size, index type,
  number of threads, vector width): `NeverTwice`, `ReturnsComplete`,
  `FirstFailureReported`, `DanglesInThreeCases` (`CompleteOnReturn` says of the coroutines of a
  loop that has returned that they have published their results, not that they are gone).
  The invariant says how far the
  loop that starts the chunks has got, which of the nested coroutines awaits which,
  how a result travels from a chunk to the caller, and which frames are destroyed
  when; and that each chunk has worked a prefix of its indices, so that the lemmas
  about `Chunks` give what is counted.
* `PotThreads_proofs`, for any threads, clients and stoppers, any programs and
  capacities and each of the six classes: `TypeOK` and `NoLostWakeup`. A thread of
  `thread` that is about to wait holds the mutex and its queue is empty (`SleepyOK`).
  A thread of `thread_lf` that waits with a lowered flag may have tasks in its queue,
  but then a submitter is still to publish one or to raise the flag (`FlagOK`). The
  stoppers join in order, and the vector of threads is cleared after the last
  (`JoinOK`).
  Of the pools also `PoolDrains` and `FifoOrder`, from an invariant on the life of the
  tasks (`LifeOK`): each task is in one place, the program of its submitter
  (`UnbornOK`), the hand of a submitter (`SourceOK`), one position of one queue
  (`PlaceOK`) or one thread (`RunOK`); the tasks of one client lie in a queue in the
  order of its program (`OrderOK`); what was accepted before shutdown began stays
  with a thread that has still to come back to the queue (`DueOK`, `DrainOK`). What an
  action does to tasks is one of eight effects (`Quiet`, `Offer`, `Refuse`, `Drop`, `Reject`,
  `Accept`, `Start`, `Finish`); the actions are shown to have such an effect, and the
  effects to keep the invariant. `OnceAssumption` says that a task
  is submitted from one place of one program: a task stands for a call of `run`,
  and two calls are two tasks.
* `LfDeque_proofs`, for any thieves, initial size and number of pushes:
  `ActiveHoldsContents`, `BuffersKept`, `ItemUnlessOvertaken` and the refinement
  `ImplementsDeque`. The invariant says how `bottom`, what the owner has read and
  `top` lie at each step of push and pop, and that the active buffer keeps one slot
  more than the deque needs (`OwnerOK`, `FitsOK`): indices less than a buffer's size
  apart have different slots (`SlotsDiffer`), so nothing is overwritten before it
  is claimed. `ThiefOK` says that a thief at work has declared itself, that it uses no
  buffer older than its `id_last_used`, and that a scan of `reclaim_buffers` has
  either respected its buffer or still to come to it. `ClaimOK` says that the
  thief whose `top` is still current has read a buffer with the item. Abstractly, an
  item is pushed by the store of `bottom`, popped by the load of `top` that finds two
  or more, and taken otherwise by whoever moves `top`.

The type invariants (`TypeOK` of each module) are part of the inductive invariants; they are
proved and in no run, for what they say beyond ranges the other properties need anyway.

Only model-checked: the liveness properties (fairness and ENABLED are outside the
prover). Every invariant, action property and refinement of the passing runs is a theorem.

## Not modelled

SIMD wrappers, allocation (`coro_memory.h`), callables (`unique_function.h`), type
traits, thread names: nothing in them interacts. `cpu_set` (a benchmark), the C++20
module copies. `thread_executor` and `inline_executor` override a `derived_execute`
the interface no longer has and do not compile. Neither do the four pools of
`executors/thread_pool_executor.h` as they stand: they override `derived_execute` without the
`task_meta` parameter of `executor.h:19`. They are modelled all the same, in
`PotThreads`, because they are how the threads of `threads/thread.h` are meant to be used; `dot` and `dot_simd` call an
overload for pointers that does not exist. The arithmetic of the reductions (and with it that
`elementwise_reduce_simd` combines vectors with `+=` whatever `reduce_op` is).
`resume_on` and `sync_object` are a coroutine adaptor of a few lines and a mutex
around a value. Of the modelled parts: moves and double awaits of a `task`,
`shutdown` called by a worker of the pool itself (`std::jthread::join` refuses to
join itself), two threads that join the same `thread` at once (a data race on
`m_thread`), spurious wake-ups, exceptions thrown by a detached task (they end the
process), a `thread_count()` of zero (`parfor` divides by it), function objects of
`parfor` that are coroutines themselves, allocation failures, and weak memory beyond
relaxed positions; the fences of the deque are taken at their word.

## Plan

1. Done: every component with a state of its own, and proofs about eight of its modules.
2. Proofs: of the safety properties none is left; the liveness properties stay with
   TLC.
3. The older executors, should they be brought up to the interface.
