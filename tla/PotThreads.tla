----------------------------- MODULE PotThreads -----------------------------
(***************************************************************************)
(* The threads of include/pot/threads/thread.h, and the four pools that    *)
(* include/pot/executors/thread_pool_executor.h builds from them.  A       *)
(* thread serves a queue of its own: `thread' under a mutex with a         *)
(* condition variable, `thread_lf' an lfqueue with the flag m_has_work.    *)
(* The pools lq and lflq deal tasks out to their threads; gq and lfgq have *)
(* one queue, and their worker_loop is the only task each thread gets.     *)
(*                                                                         *)
(* A critical section is one step, but for the moment between the test of  *)
(* a predicate and the release of the mutex by wait (labels "sleepy" and   *)
(* "poolsleepy"): request_stop needs no mutex and may fall into it.  Woken *)
(* means notified: the model has no spurious wake-ups.  The lfqueue is the *)
(* one of LfQueue.tla: a push claims a cell and publishes it later.        *)
(***************************************************************************)
EXTENDS Naturals, Sequences, FiniteSets

CONSTANTS N,         \* threads of a pool
          Tasks,
          NoTask,
          Clients,   \* threads that submit tasks
          Stoppers,  \* threads that call join, shutdown or a destructor
          Program,   \* what each client submits, in order
          Children,  \* what the body of each task submits, in order
          Capacity,  \* cells of an lfqueue
          Classes

Threads    == 0 .. N - 1
Submitters == Threads \cup Clients
Actors     == Submitters \cup Stoppers

ASSUME ThreadsAssumption ==
    /\ N \in Nat \ {0}
    /\ Capacity \in Nat \ {0}
    /\ Program \in [Clients -> Seq(Tasks)]
    /\ Children \in [Tasks -> Seq(Tasks)]
    /\ Threads \cap (Clients \cup Stoppers) = {} /\ Clients \cap Stoppers = {}

Class(kind, lockFree) == [kind |-> kind, lockFree |-> lockFree]

thread    == Class("single", FALSE)
thread_lf == Class("single", TRUE)
gq        == Class("shared", FALSE)
lq        == Class("local",  FALSE)
lfgq      == Class("shared", TRUE)
lflq      == Class("local",  TRUE)

ASSUME ClassAssumption == Classes \subseteq {thread, thread_lf, gq, lq, lfgq, lflq}

\* The task with which a thread of gq or lfgq starts: worker_loop of the pool.
Worker == "worker_loop"
ASSUME TaskAssumption == Worker \notin Tasks /\ NoTask \notin Tasks

\* A task stands for one call of run or derived_execute: it is in one place of one
\* program, or of what one task submits.
ASSUME OnceAssumption ==
    /\ \A c, d \in Clients : \A i \in DOMAIN Program[c], j \in DOMAIN Program[d] :
          Program[c][i] = Program[d][j] => c = d /\ i = j
    /\ \A x, y \in Tasks : \A i \in DOMAIN Children[x], j \in DOMAIN Children[y] :
          Children[x][i] = Children[y][j] => x = y /\ i = j
    /\ \A c \in Clients, x \in Tasks :
          \A i \in DOMAIN Program[c], j \in DOMAIN Children[x] : Program[c][i] # Children[x][j]

-----------------------------------------------------------------------------
VARIABLES class,    \* constant
          queue,    \* m_queue of each thread
          hasWork,  \* m_has_work of each thread_lf
          stopReq,  \* threads whose jthread has been asked to stop
          m_tasks,  \* the queue of gq and lfgq
          m_stop,   \* of a pool
          size,     \* m_threads.size()
          m_next,   \* m_next_thread_idx
          pc, todo, job, task, target,   \* as in ThreadPool
          round,    \* how often a stopper has yet to call request_stop
          status,   \* history: the life of each task
          due,      \* history: the accepted tasks that wait when the stop begins
          missed    \* history: threads that slept through their notification

pool  == <<m_tasks, m_stop, size, m_next>>
own   == <<queue, hasWork, stopReq>>
local == <<todo, job, task, target>>
stop  == <<round, due, missed>>
vars  == <<class, own, pool, pc, local, status, stop>>

\* A lone thread is thread 0.
Used == IF class.kind = "single" THEN {0} ELSE Threads

\* Where a thread begins to look for a task in its own queue.
Begin == IF class.lockFree THEN "pop" ELSE "loop"

Init == /\ class \in Classes
        /\ queue = [t \in Threads |-> IF class.kind = "shared" THEN <<Worker>> ELSE <<>>]
        /\ hasWork = [t \in Threads |-> class.kind = "shared"]
        /\ stopReq = {}
        /\ m_tasks = <<>>
        /\ m_stop = FALSE
        /\ size = N
        /\ m_next = 0
        /\ pc = [a \in Actors |-> IF a \in Used THEN Begin
                                  ELSE IF a \in Threads THEN "exit"
                                  ELSE IF a \in Clients THEN "call" ELSE "stop"]
        /\ round = [s \in Stoppers |-> IF class.kind = "local" THEN 2 ELSE 1]
        /\ todo = [a \in Submitters |-> IF a \in Clients THEN Program[a] ELSE <<>>]
        /\ job = [t \in Threads |-> NoTask]
        /\ task = [a \in Submitters |-> NoTask]
        /\ target = [a \in Actors |-> 0]
        /\ status = [t \in Tasks |-> "new"]
        /\ due = {}
        /\ missed = {}

Goto(a, l) == pc' = [pc EXCEPT ![a] = l]
Become(t, life) == status' = [status EXCEPT ![t] = life]

-----------------------------------------------------------------------------
(***************************************************************************)
(* run of a thread, and derived_execute of the pools.                      *)
(***************************************************************************)
\* The pools lq and lflq test m_stop first; gq and lfgq do so under the mutex.
Call(a) ==
    /\ pc[a] = "call"
    /\ todo[a] # <<>>
    /\ todo' = [todo EXCEPT ![a] = Tail(@)]
    /\ IF class.kind = "local" /\ m_stop
       THEN Become(Head(todo[a]), "refused") /\ UNCHANGED <<pc, task>>
       ELSE /\ task' = [task EXCEPT ![a] = Head(todo[a])]
            /\ Goto(a, CASE class.kind = "single" -> "push"
                         [] class.kind = "local"  -> "index"
                         [] class.kind = "shared" -> "poolpush")
            /\ UNCHANGED status
    /\ UNCHANGED <<class, own, pool, job, target, stop>>

\* A pool whose shutdown has cleared m_threads.
Cleared == size = 0

\* m_next_thread_idx.fetch_add(1) % m_threads.size()
PickThread(a) ==
    /\ pc[a] = "index"
    /\ ~Cleared
    /\ m_next' = m_next + 1
    /\ target' = [target EXCEPT ![a] = m_next % size]
    /\ Goto(a, "push")
    /\ UNCHANGED <<class, own, m_tasks, m_stop, size, todo, job, task, status, stop>>

\* A submitter of lq or lflq that passed the test of m_stop divides by zero, or
\* goes on with a thread object that is gone: undefined, and nothing that
\* happens after it is modelled.
Dangle(a) ==
    /\ pc[a] \in {"index", "push", "publish", "store", "notify"}
    /\ Cleared
    /\ Goto(a, "trap")
    /\ UNCHANGED <<class, own, pool, local, status, stop>>

HasRoom(t) == class.lockFree => Len(queue[t]) < Capacity

\* Under m_mutex, or the claim of a cell of the lfqueue.
Push(a) ==
    /\ pc[a] = "push"
    /\ ~Cleared
    /\ HasRoom(target[a])
    /\ pc[target[a]] # "sleepy"
    /\ queue' = [queue EXCEPT ![target[a]] = Append(@, task[a])]
    /\ Become(task[a], "queued")
    /\ Goto(a, IF class.lockFree THEN "publish" ELSE "notify")
    /\ UNCHANGED <<class, hasWork, stopReq, pool, local, stop>>

Publish(a) ==
    /\ pc[a] = "publish"
    /\ ~Cleared
    /\ Goto(a, "store")
    /\ UNCHANGED <<class, own, pool, local, status, stop>>

\* m_has_work.store(true)
Store(a) ==
    /\ pc[a] = "store"
    /\ ~Cleared
    /\ hasWork' = [hasWork EXCEPT ![target[a]] = TRUE]
    /\ Goto(a, "notify")
    /\ UNCHANGED <<class, queue, stopReq, pool, local, status, stop>>

\* Where a thread goes that is woken.
Woken == IF class.lockFree THEN "wait" ELSE "look"

MutNotifyNobody(a) ==
    /\ pc[a] = "notify"
    /\ ~Cleared
    /\ Goto(a, "call")
    /\ task' = [task EXCEPT ![a] = NoTask]
    /\ target' = [target EXCEPT ![a] = 0]
    /\ UNCHANGED <<class, own, pool, todo, job, status, stop>>

Notify(a) ==
    /\ pc[a] = "notify"
    /\ ~Cleared
    /\ LET t == target[a] IN
          pc' = IF pc[t] = "parked" THEN [pc EXCEPT ![a] = "call", ![t] = Woken]
                                    ELSE [pc EXCEPT ![a] = "call"]
    /\ task' = [task EXCEPT ![a] = NoTask]
    /\ target' = [target EXCEPT ![a] = 0]
    /\ UNCHANGED <<class, own, pool, todo, job, status, stop>>

\* A thread holds m_mutex of the pool while it is about to wait.
PoolMutexFree == \A t \in Threads : pc[t] # "poolsleepy"

PoolPush(a) ==
    /\ pc[a] = "poolpush"
    /\ PoolMutexFree
    /\ task' = [task EXCEPT ![a] = NoTask]
    /\ IF m_stop
       THEN /\ Become(task[a], "refused")
            /\ Goto(a, "call")
            /\ UNCHANGED m_tasks
       ELSE /\ Become(task[a], "queued")
            /\ m_tasks' = Append(m_tasks, task[a])
            /\ Goto(a, "poolnotify")
    /\ UNCHANGED <<class, own, m_stop, size, m_next, todo, job, target, stop>>

PoolParked == {t \in Threads : pc[t] = "poolparked"}

PoolNotify(a) ==
    /\ pc[a] = "poolnotify"
    /\ IF PoolParked = {}
       THEN Goto(a, "call")
       ELSE \E t \in PoolParked :
               pc' = [pc EXCEPT ![a] = "call", ![t] = "poollook"]
    /\ UNCHANGED <<class, own, pool, local, status, stop>>

Submit(a) == \/ Call(a) \/ PickThread(a) \/ Push(a) \/ Publish(a) \/ Store(a)
             \/ Notify(a) \/ Dangle(a) \/ PoolPush(a) \/ PoolNotify(a)

-----------------------------------------------------------------------------
(***************************************************************************)
(* worker_loop of a thread.                                                *)
(***************************************************************************)
\* Thread t enters the body of x.
Run(t, x) ==
    /\ job' = [job EXCEPT ![t] = x]
    /\ todo' = [todo EXCEPT ![t] = Children[x]]
    /\ Become(x, "running")
    /\ Goto(t, "call")

MutTakeNewest(t) ==
    LET n == Len(queue[t])
        x == queue[t][n] IN
       /\ queue' = [queue EXCEPT ![t] = SubSeq(@, 1, n - 1)]
       /\ IF x = Worker
          THEN Goto(t, "poollook") /\ UNCHANGED <<todo, job, status>>
          ELSE Run(t, x)
       /\ UNCHANGED <<class, stopReq, pool, task, target, stop>>

\* Thread t takes the front of its queue: a task, or the worker_loop of a pool.
Take(t) ==
    LET x == Head(queue[t]) IN
       /\ queue' = [queue EXCEPT ![t] = Tail(@)]
       /\ IF x = Worker
          THEN Goto(t, "poollook") /\ UNCHANGED <<todo, job, status>>
          ELSE Run(t, x)
       /\ UNCHANGED <<class, stopReq, pool, task, target, stop>>

\* A step of t that changes nothing but where it is.
Move(t, from, to) ==
    /\ pc[t] = from
    /\ Goto(t, to)
    /\ UNCHANGED <<class, own, pool, local, status, stop>>

\* while (!st.stop_requested())
Loop(t) == Move(t, "loop", IF t \in stopReq THEN "exit" ELSE "look")

\* The predicate of wait, under m_mutex.
Look(t) ==
    \/ /\ pc[t] = "look"
       /\ queue[t] # <<>>
       /\ Take(t)
       /\ UNCHANGED hasWork
    \/ /\ queue[t] = <<>>
       /\ Move(t, "look", IF t \in stopReq THEN "exit" ELSE "sleepy")

Park(t) == Move(t, "sleepy", "parked")

\* The front of the lfqueue is there, and its push has published it.
Takeable(t) ==
    /\ queue[t] # <<>>
    /\ \A a \in Submitters :
          pc[a] = "publish" /\ target[a] = t => task[a] # Head(queue[t])

Pop(t) ==
    \/ /\ pc[t] = "pop"
       /\ Takeable(t)
       /\ Take(t)
       /\ UNCHANGED hasWork
    \/ /\ ~Takeable(t)
       /\ Move(t, "pop", "test")

Test(t) == Move(t, "test", IF t \in stopReq THEN "exit" ELSE "clear")

\* m_has_work.store(false): it also hides a request_stop that came after the test.
\* Sequentially consistent with the pop that follows, which a release store is not.
Clear(t) ==
    /\ pc[t] = "clear"
    /\ Goto(t, "repop")
    /\ hasWork' = [hasWork EXCEPT ![t] = FALSE]
    /\ missed' = IF t \in stopReq THEN missed \cup {t} ELSE missed
    /\ UNCHANGED <<class, queue, stopReq, pool, local, status, round, due>>

MutRepopNothing(t) == Move(t, "repop", "wait")

Repop(t) ==
    \/ /\ pc[t] = "repop"
       /\ Takeable(t)
       /\ hasWork' = [hasWork EXCEPT ![t] = TRUE]
       /\ Take(t)
    \/ /\ ~Takeable(t)
       /\ Move(t, "repop", "wait")

\* m_has_work.wait(false)
Wait(t) == Move(t, "wait", IF hasWork[t] THEN "pop" ELSE "parked")

\* The body of the task returns: to the loop that called it.
Return(t) ==
    /\ pc[t] = "call"
    /\ todo[t] = <<>>
    /\ Become(job[t], "done")
    /\ job' = [job EXCEPT ![t] = NoTask]
    /\ Goto(t, IF class.kind = "shared" THEN "poollook" ELSE Begin)
    /\ UNCHANGED <<class, own, pool, todo, task, target, stop>>

(***************************************************************************)
(* worker_loop of gq and lfgq, which a thread runs as its task.            *)
(***************************************************************************)
MutPoolLookHasty(t) ==
    /\ PoolMutexFree
    /\ \/ /\ pc[t] = "poollook" /\ m_tasks # <<>> /\ ~m_stop
          /\ m_tasks' = Tail(m_tasks)
          /\ Run(t, Head(m_tasks))
          /\ UNCHANGED <<class, own, m_stop, size, m_next, task, target, stop>>
       \/ /\ m_tasks = <<>> \/ m_stop
          /\ Move(t, "poollook", IF m_stop THEN Begin ELSE "poolsleepy")

PoolLook(t) ==
    /\ PoolMutexFree
    /\ \/ /\ pc[t] = "poollook"
          /\ m_tasks # <<>>
          /\ m_tasks' = Tail(m_tasks)
          /\ Run(t, Head(m_tasks))
          /\ UNCHANGED <<class, own, m_stop, size, m_next, task, target, stop>>
       \/ /\ m_tasks = <<>>
          /\ Move(t, "poollook", IF m_stop THEN Begin ELSE "poolsleepy")

PoolPark(t) == Move(t, "poolsleepy", "poolparked")

Work(t) == \/ Loop(t) \/ Look(t) \/ Park(t) \/ Pop(t) \/ Test(t) \/ Clear(t)
           \/ Repop(t) \/ Wait(t) \/ Return(t) \/ PoolLook(t) \/ PoolPark(t)

-----------------------------------------------------------------------------
(***************************************************************************)
(* join of a lone thread, and shutdown of the pools: each is a number of   *)
(* calls of request_stop on every thread, the last one followed by join.   *)
(***************************************************************************)
\* What has been accepted and waits: the run that accepted it has returned.
Waiting == {x \in Tasks : /\ status[x] = "queued"
                          /\ \A a \in Submitters : task[a] # x}

\* join, or the destructor, of a lone thread.
JoinThread(s) ==
    /\ pc[s] = "stop"
    /\ class.kind = "single"
    /\ due' = Waiting
    /\ Goto(s, "request")
    /\ UNCHANGED <<class, own, pool, local, status, round, missed>>

\* m_stop.compare_exchange_strong of lq and lflq.
Cas(s) ==
    /\ pc[s] = "stop"
    /\ class.kind = "local"
    /\ m_stop' = TRUE
    /\ due' = IF m_stop THEN due ELSE Waiting
    /\ Goto(s, IF m_stop THEN "returned" ELSE "request")
    /\ UNCHANGED <<class, own, m_tasks, size, m_next, local, status, round, missed>>

\* The critical section of shutdown of gq and lfgq.
PoolStop(s) ==
    /\ pc[s] = "stop"
    /\ class.kind = "shared"
    /\ PoolMutexFree
    /\ m_stop' = TRUE
    /\ due' = IF m_stop THEN due ELSE Waiting
    /\ Goto(s, IF m_stop THEN "returned" ELSE "poolwake")
    /\ UNCHANGED <<class, own, m_tasks, size, m_next, local, status, round, missed>>

\* m_cv.notify_all()
PoolWakeAll(s) ==
    /\ pc[s] = "poolwake"
    /\ pc' = [a \in Actors |-> IF a \in PoolParked THEN "poollook"
                               ELSE IF a = s THEN "request" ELSE pc[a]]
    /\ UNCHANGED <<class, own, pool, local, status, stop>>

\* The first half of request_stop.
Request(s) ==
    /\ pc[s] = "request"
    /\ stopReq' = stopReq \cup {target[s]}
    /\ Goto(s, IF class.lockFree THEN "raise" ELSE "wake")
    /\ UNCHANGED <<class, queue, hasWork, pool, local, status, stop>>

\* m_has_work.store(true) of thread_lf::request_stop.
Raise(s) ==
    /\ pc[s] = "raise"
    /\ hasWork' = [hasWork EXCEPT ![target[s]] = TRUE]
    /\ missed' = missed \ {target[s]}
    /\ Goto(s, "wake")
    /\ UNCHANGED <<class, queue, stopReq, pool, local, status, round, due>>

\* Where the loop over the threads goes from thread t, when its body is done.
LastThread == IF class.kind = "single" THEN 0 ELSE N - 1
NextThread(s) == IF target[s] = LastThread THEN 0 ELSE target[s] + 1

MutWakeNobody(s) ==
    /\ pc[s] = "wake"
    /\ Goto(s, IF round[s] = 1 THEN "join" ELSE "request")
    /\ target' = [target EXCEPT ![s] = IF round[s] = 1 THEN @ ELSE NextThread(s)]
    /\ round' = [round EXCEPT ![s] = IF target[s] = LastThread /\ @ = 2 THEN 1 ELSE @]
    /\ UNCHANGED <<class, own, pool, todo, job, task, status, due, missed>>

\* notify_all: it does not reach a thread that has tested its predicate and
\* does not wait yet.
Wake(s) ==
    /\ pc[s] = "wake"
    /\ LET t == target[s] IN
          /\ pc' = [a \in Actors |->
                       IF a = s THEN IF round[s] = 1 THEN "join" ELSE "request"
                       ELSE IF a = t /\ pc[t] = "parked" THEN Woken ELSE pc[a]]
          /\ missed' = IF pc[t] = "sleepy" THEN missed \cup {t}
                       ELSE IF pc[t] = "parked" /\ ~class.lockFree THEN missed \ {t}
                       ELSE missed
    /\ target' = [target EXCEPT ![s] = IF round[s] = 1 THEN @ ELSE NextThread(s)]
    /\ round' = [round EXCEPT ![s] = IF target[s] = LastThread /\ @ = 2 THEN 1 ELSE @]
    /\ UNCHANGED <<class, own, pool, todo, job, task, status, due>>

\* m_thread.join(); after the last thread of a pool, m_threads is empty.
Join(s) ==
    /\ pc[s] = "join"
    /\ pc[target[s]] = "exit"
    /\ target' = [target EXCEPT ![s] = NextThread(s)]
    /\ Goto(s, IF target[s] = LastThread THEN "returned" ELSE "request")
    /\ size' = IF target[s] = LastThread /\ class.kind # "single" THEN 0 ELSE size
    /\ UNCHANGED <<class, own, m_tasks, m_stop, m_next, todo, job, task, status, stop>>

Stop(s)    == JoinThread(s) \/ Cas(s) \/ PoolStop(s)
Proceed(s) == PoolWakeAll(s) \/ Request(s) \/ Raise(s) \/ Wake(s) \/ Join(s)

-----------------------------------------------------------------------------
Alive == \A a \in Submitters : pc[a] # "trap"

Next == /\ Alive
        /\ \/ \E a \in Submitters : Submit(a)
           \/ \E t \in Threads : Work(t)
           \/ \E s \in Stoppers : Stop(s) \/ Proceed(s)

\* Every thread is scheduled; nobody is obliged to stop a pool, but who has
\* begun goes on.
Fairness == /\ \A t \in Threads : WF_vars(Alive /\ (Submit(t) \/ Work(t)))
            /\ \A c \in Clients : WF_vars(Alive /\ Submit(c))
            /\ \A s \in Stoppers : WF_vars(Alive /\ Proceed(s))

Spec     == Init /\ [][Next]_vars
FairSpec == Spec /\ Fairness

-----------------------------------------------------------------------------
Labels == {"loop", "look", "sleepy", "parked", "pop", "test", "clear", "repop",
           "wait", "poollook", "poolsleepy", "poolparked", "exit", "call",
           "index", "push", "publish", "store", "notify", "poolpush",
           "poolnotify", "trap", "stop", "poolwake", "request", "raise", "wake",
           "join", "returned"}

\* Every variable stays in the range the code gives it; in particular an index
\* into m_threads is one of its indices.
TypeOK ==
    /\ class \in Classes
    /\ queue \in [Threads -> Seq(Tasks \cup {Worker})]
    /\ hasWork \in [Threads -> BOOLEAN]
    /\ stopReq \subseteq Threads
    /\ m_tasks \in Seq(Tasks)
    /\ m_stop \in BOOLEAN
    /\ size \in {0, N}
    /\ m_next \in Nat
    /\ pc \in [Actors -> Labels]
    /\ todo \in [Submitters -> Seq(Tasks)]
    /\ job \in [Threads -> Tasks \cup {NoTask}]
    /\ task \in [Submitters -> Tasks \cup {NoTask}]
    /\ target \in [Actors -> Threads]
    /\ round \in [Stoppers -> 1 .. 2]
    /\ status \in [Tasks -> {"new", "refused", "queued", "running", "done"}]
    /\ due \subseteq Tasks
    /\ missed \subseteq Threads

\* No lost wake-up of a submission.  A thread that waits with a task in its own
\* queue is about to be notified by the run that pushed one; and when every
\* thread waits in the worker_loop of a pool whose queue is not empty, a
\* derived_execute is about to notify.
NoLostWakeup ==
    /\ \A t \in Threads : pc[t] = "parked" /\ queue[t] # <<>> =>
          \E a \in Submitters : /\ target[a] = t
                                /\ pc[a] \in {"publish", "store", "notify"}
    /\ PoolParked = Threads /\ m_tasks # <<>> =>
          \E a \in Submitters : pc[a] = "poolnotify"

\* shutdown of gq and lfgq drains: it returns when everything accepted before
\* it has run.  A thread of gq that has not entered worker_loop when it is asked
\* to stop never will; if that happens to all of them the tasks are dropped.
\* The threads of lfgq enter it all the same.
PoolDrains ==
    Cleared /\ class.kind = "shared" =>
        \/ \A x \in due : status[x] = "done"
        \/ ~class.lockFree /\ \A t \in Threads : queue[t] = <<Worker>>

Started(x) == status[x] \in {"running", "done"}

\* A lone thread starts the tasks of one client in the order of their run
\* (test_thread.cpp, "FIFO Order"), with other clients and its own tasks
\* submitting at the same time.
FifoOrder ==
    class.kind = "single" =>
        \A c \in Clients : \A i, j \in DOMAIN Program[c] :
            i < j /\ Started(Program[c][j]) => Started(Program[c][i])

\* A task on a thread that waits for room in the full lfqueue of a thread.
Spinning == \E t \in Threads : pc[t] = "push" /\ ~HasRoom(target[t])

\* Every accepted task is eventually run, unless a stop begins first or a task
\* waits for ever for room in an lfqueue that only its own thread can empty.
AcceptedRuns ==
    \A x \in Tasks :
        status[x] = "queued" ~> Started(x) \/ m_stop \/ stopReq # {} \/ []Spinning

\* s waits for a thread that sleeps although it has been asked to stop, because
\* request_stop came between its last test and its wait.
Hangs(s) == pc[s] = "join" /\ target[s] \in missed /\ pc[target[s]] = "parked"

\* join and shutdown return once called, but for that window.
JoinReturns ==
    \A s \in Stoppers :
        pc[s] \notin {"stop", "returned"} ~>
            pc[s] = "returned" \/ Hangs(s) \/ []Spinning

\* What the tests say of a thread: join returns when everything accepted before
\* it has run ("Destructor Drain" of test_thread.cpp).  The worker_loop of
\* `thread' leaves as soon as it sees the stop request.
JoinDrains ==
    \A s \in Stoppers :
        class.kind = "single" /\ pc[s] = "returned" =>
            \A x \in due : status[x] = "done"
=============================================================================
