----------------------------- MODULE ThreadPool -----------------------------
(***************************************************************************)
(* The twelve thread pools of include/pot/sandbox/thread_pool_executor.h.  *)
(* They share one skeleton: derived_execute checks m_stop, places the task *)
(* in a queue, bumps a notifier and wakes one thread that waits on it; a   *)
(* worker reads the notifier, looks for a task, runs it, and when it found *)
(* none waits for the notifier to leave the value it read; shutdown sets   *)
(* m_stop, requests the stop of every jthread, bumps the notifiers, wakes  *)
(* everybody and joins.  What distinguishes the classes is data: `class',  *)
(* chosen once and for all in Init.                                        *)
(*                                                                         *)
(* Definitions named Mut... are deliberate defects of the definition that  *)
(* follows them: PROJECT.json says which property each of them breaks.     *)
(*                                                                         *)
(* A step is one atomic access or one critical section of a queue mutex.   *)
(* The lock-free queue is the one LfQueue.tla models: a push claims a cell *)
(* and publishes it later, and a pop gives up at an unpublished head.      *)
(***************************************************************************)
EXTENDS Naturals, Sequences, FiniteSets

CONSTANTS N,         \* num_threads of the constructor
          Tasks,     \* the callables handed to derived_execute
          NoTask,    \* the value of an empty std::function
          Clients,   \* threads outside the pool that submit tasks
          Stoppers,  \* threads that call shutdown (or the destructor)
          Helpers,   \* threads that call try_steal while they wait
          Program,   \* what each client submits, in order
          Children,  \* what the body of each task submits, in order
          RunCount,  \* meta->run_count of each task, 0 without a meta
          Capacity,  \* cells of an lfqueue (1024 in the code)
          Classes    \* the pool classes to choose from

Workers    == 0 .. N - 1
Contexts   == 0 .. N - 1
Submitters == Workers \cup Clients \cup Helpers
Actors     == Submitters \cup Stoppers

ASSUME PoolAssumption ==
    /\ N \in Nat \ {0}
    /\ Capacity \in Nat \ {0}
    /\ Program \in [Clients -> Seq(Tasks)]
    /\ Children \in [Tasks -> Seq(Tasks)]
    /\ RunCount \in [Tasks -> Nat]
    /\ NoTask \notin Tasks

ASSUME ActorsAssumption ==
    /\ Workers \cap (Clients \cup Stoppers \cup Helpers) = {}
    /\ Clients \cap (Stoppers \cup Helpers) = {}
    /\ Stoppers \cap Helpers = {}

\* A task stands for one call of derived_execute: it is in one place of one program,
\* or of what one task submits.
ASSUME OnceAssumption ==
    /\ \A c, d \in Clients : \A i \in DOMAIN Program[c], j \in DOMAIN Program[d] :
          Program[c][i] = Program[d][j] => c = d /\ i = j
    /\ \A x, y \in Tasks : \A i \in DOMAIN Children[x], j \in DOMAIN Children[y] :
          Children[x][i] = Children[y][j] => x = y /\ i = j
    /\ \A c \in Clients, x \in Tasks :
          \A i \in DOMAIN Program[c], j \in DOMAIN Children[x] : Program[c][i] # Children[x][j]

-----------------------------------------------------------------------------
(***************************************************************************)
(* The classes.  shared: one queue and one notifier for all the workers,   *)
(* or one of each per worker, filled in turn.  order: where a task is      *)
(* placed; workers always take the front.  lockFree: an lfqueue instead of *)
(* a container under a mutex.  steal: whose queues an idle worker tries.   *)
(***************************************************************************)
Pool(shared, order, lockFree, steal) ==
    [shared |-> shared, order |-> order, lockFree |-> lockFree, steal |-> steal]

gq                == Pool(TRUE,  "fifo",     FALSE, "none")
lq                == Pool(FALSE, "fifo",     FALSE, "none")
lq_steal_seq      == Pool(FALSE, "fifo",     FALSE, "seq")
lq_steal_neighbor == Pool(FALSE, "fifo",     FALSE, "neighbor")
gs                == Pool(TRUE,  "lifo",     FALSE, "none")
ls                == Pool(FALSE, "lifo",     FALSE, "none")
gs_hot            == Pool(TRUE,  "hot",      FALSE, "none")
ls_hot            == Pool(FALSE, "hot",      FALSE, "none")
gpq               == Pool(TRUE,  "priority", FALSE, "none")
lqlf_steal_seq    == Pool(FALSE, "fifo",     TRUE,  "seq")
lfgq              == Pool(TRUE,  "fifo",     TRUE,  "none")
lflq              == Pool(FALSE, "fifo",     TRUE,  "none")

AllClasses == {gq, lq, lq_steal_seq, lq_steal_neighbor, gs, ls, gs_hot, ls_hot,
               gpq, lqlf_steal_seq, lfgq, lflq}

ASSUME ClassesAssumption == Classes \subseteq AllClasses

-----------------------------------------------------------------------------
VARIABLES class,     \* the pool class, constant
          queue,     \* tasks of each context, front first
          notifier,  \* m_notifier or the notifier of each context
          m_stop,
          stopReq,   \* workers whose jthread has been asked to stop
          threads,   \* m_threads.size(): N, and 0 once cleared
          m_next,    \* m_next_thread_idx
          pc,        \* where each thread is
          todo,      \* what each thread has still to submit
          job,       \* the task each worker or helper last took
          task,      \* the task a thread is submitting
          target,    \* the context (or steal position) a thread works on
          waitVal,   \* wait_val of each worker
          status     \* history: the life of each task, for Executor

poolVars == <<class, queue, notifier, m_stop, stopReq, threads, m_next>>
vars == <<poolVars, pc, todo, job, task, target, waitVal, status>>

Ctx(w)  == IF class.shared THEN 0 ELSE w
Home(c) == {w \in Workers : Ctx(w) = c}

Goto(a, l)      == pc' = [pc EXCEPT ![a] = l]
Become(t, life) == status' = [status EXCEPT ![t] = life]

Init == /\ class \in Classes
        /\ queue = [c \in Contexts |-> <<>>]
        /\ notifier = [c \in Contexts |-> 0]
        /\ m_stop = FALSE
        /\ stopReq = {}
        /\ threads = N
        /\ m_next = 0
        /\ pc = [a \in Actors |-> IF a \in Workers THEN "loop"
                                  ELSE IF a \in Clients THEN "call"
                                  ELSE IF a \in Helpers THEN "ready" ELSE "cas"]
        /\ todo = [a \in Submitters |-> IF a \in Clients THEN Program[a] ELSE <<>>]
        /\ job = [a \in Workers \cup Helpers |-> NoTask]
        /\ task = [a \in Submitters |-> NoTask]
        /\ target = [a \in Actors |-> 0]
        /\ waitVal = [w \in Workers |-> 0]
        /\ status = [t \in Tasks |-> "new"]

-----------------------------------------------------------------------------
(***************************************************************************)
(* The container: where a task is placed, and when the front can be taken. *)
(***************************************************************************)
HotLimit == 10

Place(q, t, i) == SubSeq(q, 1, i) \o <<t>> \o SubSeq(q, i + 1, Len(q))

\* std::priority_queue with task_item::operator<: fewest runs first, and
\* among equals the smallest sequence number, that is the earliest pushed.
MutAheadStrict(q, t)  == {i \in 1 .. Len(q) : RunCount[q[i]] < RunCount[t]}
MutAheadReverse(q, t) == {i \in 1 .. Len(q) : RunCount[q[i]] >= RunCount[t]}
Ahead(q, t) == {i \in 1 .. Len(q) : RunCount[q[i]] <= RunCount[t]}

\* Where derived_execute puts a task.
MutInsertFront(q, t) ==
    IF class.order = "priority" THEN Place(q, t, Cardinality(Ahead(q, t))) ELSE <<t>> \o q

Insert(q, t) ==
    CASE class.order = "fifo"     -> Append(q, t)
      [] class.order = "lifo"     -> <<t>> \o q
      [] class.order = "hot"      -> IF RunCount[t] <= HotLimit THEN <<t>> \o q
                                                                ELSE Append(q, t)
      [] class.order = "priority" ->
            Place(q, t, Cardinality(Ahead(q, t)))

HasRoom(c) == class.lockFree => Len(queue[c]) < Capacity

\* The tasks of context c whose lfqueue cell is claimed but not yet published.
Unpublished(c) ==
    {task[a] : a \in {b \in Submitters : pc[b] = "publish" /\ target[b] = c}}

Takeable(c) == queue[c] # <<>> /\ Head(queue[c]) \notin Unpublished(c)

-----------------------------------------------------------------------------
(***************************************************************************)
(* derived_execute, called by a client, by the body of a task on a worker, *)
(* or by the body of a task a helper stole.                                *)
(***************************************************************************)
MutCheckNoStop(a) ==
    /\ pc[a] = "call" /\ todo[a] # <<>>
    /\ todo' = [todo EXCEPT ![a] = Tail(@)]
    /\ task' = [task EXCEPT ![a] = Head(todo[a])]
    /\ Become(Head(todo[a]), "offered")
    /\ Goto(a, IF class.shared THEN "push" ELSE "index")
    /\ UNCHANGED <<poolVars, job, target, waitVal>>

CheckStop(a) ==
    /\ pc[a] = "call"
    /\ todo[a] # <<>>
    /\ LET t == Head(todo[a]) IN
          /\ todo' = [todo EXCEPT ![a] = Tail(@)]
          /\ IF m_stop
             THEN Become(t, "refused") /\ UNCHANGED <<pc, task>>
             ELSE /\ Become(t, "offered")
                  /\ task' = [task EXCEPT ![a] = t]
                  /\ Goto(a, IF class.shared THEN "push" ELSE "index")
    /\ UNCHANGED <<poolVars, job, target, waitVal>>

\* m_next_thread_idx.fetch_add(1) % m_threads.size(): an integer division by
\* zero once shutdown has cleared m_threads, which stops the process.
PickQueue(a) ==
    /\ pc[a] = "index"
    /\ m_next' = m_next + 1
    /\ IF threads = 0
       THEN Goto(a, "trap") /\ UNCHANGED target
       ELSE /\ target' = [target EXCEPT ![a] = m_next % threads]
            /\ Goto(a, "push")
    /\ UNCHANGED <<class, queue, notifier, m_stop, stopReq, threads,
                   todo, job, task, waitVal, status>>

\* Under the mutex, or the claim of an lfqueue cell; a full lfqueue is tried
\* again until there is room.
Push(a) ==
    /\ pc[a] = "push"
    /\ HasRoom(target[a])
    /\ queue' = [queue EXCEPT ![target[a]] = Insert(@, task[a])]
    /\ Become(task[a], "queued")
    /\ Goto(a, IF class.lockFree THEN "publish" ELSE "bump")
    /\ UNCHANGED <<class, notifier, m_stop, stopReq, threads, m_next,
                   todo, job, task, target, waitVal>>

Publish(a) ==
    /\ pc[a] = "publish"
    /\ Goto(a, "bump")
    /\ UNCHANGED <<poolVars, todo, job, task, target, waitVal, status>>

\* notifier.fetch_add(1)
Bump(a) ==
    /\ pc[a] = "bump"
    /\ notifier' = [notifier EXCEPT ![target[a]] = @ + 1]
    /\ Goto(a, "notify")
    /\ UNCHANGED <<class, queue, m_stop, stopReq, threads, m_next,
                   todo, job, task, target, waitVal, status>>

Parked(c) == {w \in Home(c) : pc[w] = "parked"}

MutNotifyNobody(a) ==
    /\ pc[a] = "notify"
    /\ Goto(a, "call")
    /\ task' = [task EXCEPT ![a] = NoTask]
    /\ target' = [target EXCEPT ![a] = 0]
    /\ UNCHANGED <<poolVars, todo, job, waitVal, status>>

\* notify_one: one of the threads waiting on the notifier, if any, returns
\* from wait.
NotifyOne(a) ==
    /\ pc[a] = "notify"
    /\ IF Parked(target[a]) = {}
       THEN Goto(a, "call")
       ELSE \E w \in Parked(target[a]) :
               pc' = [pc EXCEPT ![a] = "call", ![w] = "loop"]
    /\ task' = [task EXCEPT ![a] = NoTask]
    /\ target' = [target EXCEPT ![a] = 0]
    /\ UNCHANGED <<poolVars, todo, job, waitVal, status>>

Submit(a) == \/ CheckStop(a) \/ PickQueue(a) \/ Push(a)
             \/ Publish(a) \/ Bump(a) \/ NotifyOne(a)

-----------------------------------------------------------------------------
(***************************************************************************)
(* worker_loop, and try_steal of thread_pool_executor_lqlf_steal_seq.      *)
(***************************************************************************)
\* Takes the front of context c: under the mutex, or the claim of a cell.
Take(a, c) ==
    LET t == Head(queue[c]) IN
       /\ queue' = [queue EXCEPT ![c] = Tail(@)]
       /\ job' = [job EXCEPT ![a] = t]
       /\ todo' = [todo EXCEPT ![a] = Children[t]]
       /\ Become(t, "taken")
       /\ Goto(a, "begin")
       /\ target' = [target EXCEPT ![a] = 0]
       /\ UNCHANGED <<class, notifier, m_stop, stopReq, threads, m_next,
                      task, waitVal>>

\* task(): outside the mutex.
Begin(a) ==
    /\ pc[a] = "begin"
    /\ Become(job[a], IF a \in Workers THEN "running" ELSE "helped")
    /\ Goto(a, "call")
    /\ UNCHANGED <<poolVars, todo, job, task, target, waitVal>>

\* while (!st.stop_requested()); the wait_val of the last round is gone.
Loop(w) ==
    /\ pc[w] = "loop"
    /\ waitVal' = [waitVal EXCEPT ![w] = 0]
    /\ Goto(w, IF w \in stopReq THEN "exit" ELSE "load")
    /\ UNCHANGED <<poolVars, todo, job, task, target, status>>

\* wait_val = notifier.load()
Load(w) ==
    /\ pc[w] = "load"
    /\ waitVal' = [waitVal EXCEPT ![w] = notifier[Ctx(w)]]
    /\ Goto(w, "pop")
    /\ UNCHANGED <<poolVars, todo, job, task, target, status>>

Steals == class.steal # "none" /\ N > 1

Pop(w) ==
    /\ pc[w] = "pop"
    /\ \/ /\ Takeable(Ctx(w))
          /\ Take(w, Ctx(w))
       \/ /\ ~Takeable(Ctx(w))
          /\ target' = [target EXCEPT ![w] = IF Steals THEN 1 ELSE 0]
          /\ Goto(w, IF Steals THEN "steal" ELSE "recheck")
          /\ UNCHANGED <<poolVars, todo, job, task, waitVal, status>>

\* The contexts an idle worker tries, in order.
StealOrder(w) ==
    IF class.steal = "neighbor"
    THEN <<(w + 1) % N, (w + N - 1) % N>>
    ELSE [i \in 1 .. N - 1 |-> (w + i) % N]

\* try_lock fails while another thread is in the critical section of c; the
\* critical sections are single steps, so it may fail whenever one is due.
Contended(w, c) ==
    /\ ~class.lockFree
    /\ \/ \E a \in Submitters : pc[a] = "push" /\ target[a] = c
       \/ \E v \in Home(c) : pc[v] = "pop"
       \/ \E v \in Workers \ {w} : /\ pc[v] = "steal"
                                   /\ StealOrder(v)[target[v]] = c

Steal(w) ==
    /\ pc[w] = "steal"
    /\ LET c == StealOrder(w)[target[w]] IN
          \/ /\ Takeable(c)
             /\ Take(w, c)
          \/ /\ ~Takeable(c) \/ Contended(w, c)
             /\ IF target[w] < Len(StealOrder(w))
                THEN target' = [target EXCEPT ![w] = @ + 1] /\ UNCHANGED pc
                ELSE target' = [target EXCEPT ![w] = 0] /\ Goto(w, "recheck")
             /\ UNCHANGED <<poolVars, todo, job, task, waitVal, status>>

MutRecheckNothing(w) ==
    /\ pc[w] = "recheck"
    /\ Goto(w, "wait")
    /\ UNCHANGED <<poolVars, todo, job, task, target, waitVal, status>>

Recheck(w) ==
    /\ pc[w] = "recheck"
    /\ Goto(w, IF w \in stopReq THEN "exit" ELSE "wait")
    /\ UNCHANGED <<poolVars, todo, job, task, target, waitVal, status>>

MutWaitAnyway(w) ==
    /\ pc[w] = "wait"
    /\ Goto(w, "parked")
    /\ UNCHANGED <<poolVars, todo, job, task, target, waitVal, status>>

\* notifier.wait(wait_val): returns at once unless the value is still wait_val.
Wait(w) ==
    /\ pc[w] = "wait"
    /\ Goto(w, IF notifier[Ctx(w)] = waitVal[w] THEN "parked" ELSE "loop")
    /\ UNCHANGED <<poolVars, todo, job, task, target, waitVal, status>>

\* The body of the task returns.
Return(a) ==
    /\ pc[a] = "call"
    /\ todo[a] = <<>>
    /\ a \notin Clients
    /\ Become(job[a], "done")
    /\ job' = [job EXCEPT ![a] = NoTask]
    /\ Goto(a, IF a \in Workers THEN "loop" ELSE "ready")
    /\ UNCHANGED <<poolVars, todo, task, target, waitVal>>

\* try_steal looks at every context from the first; a thread that waits in
\* task::get calls it again and again.
Scan(h) ==
    /\ pc[h] = "ready"
    /\ class = lqlf_steal_seq
    /\ \/ /\ Takeable(target[h])
          /\ Take(h, target[h])
       \/ /\ ~Takeable(target[h])
          /\ target' = [target EXCEPT ![h] = (@ + 1) % N]
          /\ UNCHANGED <<poolVars, pc, todo, job, task, waitVal, status>>

Work(w) == \/ Loop(w) \/ Load(w) \/ Pop(w) \/ Steal(w) \/ Recheck(w)
           \/ Wait(w) \/ Begin(w) \/ Return(w)

Help(h) == Scan(h) \/ Begin(h) \/ Return(h)

-----------------------------------------------------------------------------
(***************************************************************************)
(* shutdown: only the caller whose compare_exchange succeeds does anything.*)
(***************************************************************************)
Cas(s) ==
    /\ pc[s] = "cas"
    /\ m_stop' = TRUE
    /\ Goto(s, IF m_stop THEN "returned" ELSE "request")
    /\ UNCHANGED <<class, queue, notifier, stopReq, threads, m_next,
                   todo, job, task, target, waitVal, status>>

\* Moves a loop over 0 .. last on, or leaves it for the next one.
Advance(s, last, next) ==
    IF target[s] < last
    THEN target' = [target EXCEPT ![s] = @ + 1] /\ UNCHANGED pc
    ELSE target' = [target EXCEPT ![s] = 0] /\ Goto(s, next)

Request(s) ==
    /\ pc[s] = "request"
    /\ stopReq' = stopReq \cup {target[s]}
    /\ Advance(s, N - 1, "wakebump")
    /\ UNCHANGED <<class, queue, notifier, m_stop, threads, m_next,
                   todo, job, task, waitVal, status>>

\* fetch_add(m_threads.size()) on the shared notifier, fetch_add(1) on each
\* of the others.
WakeBump(s) ==
    /\ pc[s] = "wakebump"
    /\ notifier' = [notifier EXCEPT ![target[s]] =
                       @ + (IF class.shared THEN N ELSE 1)]
    /\ Goto(s, "wakeall")
    /\ UNCHANGED <<class, queue, m_stop, stopReq, threads, m_next,
                   todo, job, task, target, waitVal, status>>

MutWakeOneOnly(s) ==
    /\ pc[s] = "wakeall"
    /\ LET c == target[s]
           last == class.shared \/ c = N - 1
           woken == IF Parked(c) = {} THEN {} ELSE {CHOOSE w \in Parked(c) : TRUE}
       IN  /\ pc' = [a \in Actors |-> IF a \in woken THEN "loop"
                                      ELSE IF a # s THEN pc[a]
                                      ELSE IF last THEN "join" ELSE "wakebump"]
           /\ target' = [target EXCEPT ![s] = IF last THEN 0 ELSE c + 1]
    /\ UNCHANGED <<poolVars, todo, job, task, waitVal, status>>

\* notify_all on the same notifier.
WakeAll(s) ==
    /\ pc[s] = "wakeall"
    /\ LET c == target[s]
           last == class.shared \/ c = N - 1
       IN  /\ pc' = [a \in Actors |-> IF a \in Parked(c) THEN "loop"
                                      ELSE IF a # s THEN pc[a]
                                      ELSE IF last THEN "join" ELSE "wakebump"]
           /\ target' = [target EXCEPT ![s] = IF last THEN 0 ELSE c + 1]
    /\ UNCHANGED <<poolVars, todo, job, task, waitVal, status>>

MutJoinDetached(s) ==
    /\ pc[s] = "join"
    /\ Advance(s, N - 1, "returned")
    /\ threads' = IF target[s] = N - 1 THEN 0 ELSE threads
    /\ UNCHANGED <<class, queue, notifier, m_stop, stopReq, m_next,
                   todo, job, task, waitVal, status>>

\* m_threads.clear() joins the jthreads one after the other; the vector
\* reports its old size until the last of them is destroyed.
Join(s) ==
    /\ pc[s] = "join"
    /\ pc[target[s]] = "exit"
    /\ Advance(s, N - 1, "returned")
    /\ threads' = IF target[s] = N - 1 THEN 0 ELSE threads
    /\ UNCHANGED <<class, queue, notifier, m_stop, stopReq, m_next,
                   todo, job, task, waitVal, status>>

Shutdown(s) == Cas(s) \/ Request(s) \/ WakeBump(s) \/ WakeAll(s) \/ Join(s)

-----------------------------------------------------------------------------
\* A division by zero ends the process.
Alive == \A a \in Submitters : pc[a] # "trap"

Next == /\ Alive
        /\ \/ \E a \in Submitters : Submit(a)
           \/ \E w \in Workers : Work(w)
           \/ \E h \in Helpers : Help(h)
           \/ \E s \in Stoppers : Shutdown(s)

\* Threads are scheduled: a worker, a client and a thread inside shutdown keep
\* running while they have a step to take.  Nobody is obliged to call shutdown.
Fairness == /\ \A w \in Workers : WF_vars(Alive /\ (Submit(w) \/ Work(w)))
            /\ \A c \in Clients : WF_vars(Alive /\ Submit(c))
            /\ \A h \in Helpers : WF_vars(Alive /\ (Submit(h) \/ Help(h)))
            /\ \A s \in Stoppers : WF_vars(Alive /\ pc[s] # "cas" /\ Shutdown(s))

Spec     == Init /\ [][Next]_vars
FairSpec == Spec /\ Fairness

-----------------------------------------------------------------------------
Labels == {"loop", "load", "pop", "steal", "begin", "recheck", "wait", "parked", "exit",
           "call", "index", "push", "publish", "bump", "notify", "trap", "ready",
           "cas", "request", "wakebump", "wakeall", "join", "returned"}

\* Every variable stays in the range the code gives it.
TypeOK ==
    /\ class \in Classes
    /\ queue \in [Contexts -> Seq(Tasks)]
    /\ notifier \in [Contexts -> Nat]
    /\ m_stop \in BOOLEAN
    /\ stopReq \subseteq Workers
    /\ threads \in {0, N}
    /\ m_next \in Nat
    /\ pc \in [Actors -> Labels]
    /\ todo \in [Submitters -> Seq(Tasks)]
    /\ job \in [Workers \cup Helpers -> Tasks \cup {NoTask}]
    /\ task \in [Submitters -> Tasks \cup {NoTask}]
    /\ target \in [Actors -> Nat]
    /\ waitVal \in [Workers -> Nat]
    /\ status \in [Tasks -> {"new", "refused", "offered", "queued", "taken",
                             "running", "helped", "done"}]

\* A thread that has placed a task in context c and has not yet woken anybody.
Pending(c) == {a \in Submitters : /\ target[a] = c
                                  /\ pc[a] \in {"publish", "bump", "notify"}}

\* No lost wake-up: while tasks wait in a context, one of the workers that
\* serve it is awake or the submitter of one of them is still to notify
\* (worker_loop's load-before-pop against derived_execute's push-before-bump).
NoLostWakeup ==
    ~m_stop => \A c \in Contexts : queue[c] # <<>> =>
        \/ \E w \in Home(c) : pc[w] # "parked"
        \/ Pending(c) # {}

\* The wake-up of shutdown reaches every worker: once it joins, nobody is
\* parked and nobody will park (the second stop_requested of worker_loop).
StopWakesAll ==
    \A s \in Stoppers : pc[s] = "join" =>
        \A w \in Workers : /\ pc[w] # "parked"
                           /\ pc[w] = "wait" => waitVal[w] # notifier[Ctx(w)]

\* m_threads is cleared only after every worker has left its loop, so that the
\* division by m_threads.size() in derived_execute is safe for a task that
\* runs on the pool and submits to it while it is shut down.
WorkersLeaveBeforeClear ==
    /\ threads = 0 => \A w \in Workers : pc[w] = "exit"
    /\ \A w \in Workers : pc[w] # "trap"

Started(t) == status[t] \in {"running", "helped", "done"}
Left(t)    == status[t] = "taken" \/ Started(t)

\* The pools with one queue and no reordering, and the priority pool for tasks
\* that have run equally often.
OrderedPools       == {gq, lfgq, gpq}
SamePriority(t, u) == class = gpq => RunCount[t] = RunCount[u]

\* A client's tasks are taken from the queue in the order it submitted them,
\* with any number of workers.
ProgramOrder ==
    class \in OrderedPools =>
        \A c \in Clients : \A i, j \in DOMAIN Program[c] :
            LET t == Program[c][i]
                u == Program[c][j]
            IN  i < j /\ SamePriority(t, u) /\ Left(u) => Left(t) \/ status[t] = "refused"

\* The tasks submitted before the j-th one of client c that have not begun.
Overtaken(c, j) ==
    {Program[c][i] : i \in {k \in 1 .. j - 1 :
        /\ SamePriority(Program[c][k], Program[c][j])
        /\ ~Started(Program[c][k]) /\ status[Program[c][k]] # "refused"}}

\* The call of a task is outside the mutex, so that bodies may begin in another
\* order than the tasks were taken in.  But a body overtakes only tasks that
\* workers have in their hands, and not all the workers: with one worker,
\* bodies begin in the order of submission.
BodiesNearlyInOrder ==
    class \in OrderedPools =>
        \A c \in Clients : \A j \in DOMAIN Program[c] :
            Started(Program[c][j]) =>
                /\ Overtaken(c, j) \subseteq {job[w] : w \in Workers}
                /\ \E w \in Workers : job[w] \notin Overtaken(c, j)

\* A worker of the priority pool never takes a task while one that has run
\* less often waits in the queue.
FewestRunsFirst ==
    [][\A t, u \in Tasks :
          /\ class = gpq
          /\ status[t] = "queued" /\ status[u] = "queued"
          /\ status'[t] = "taken"
          => RunCount[t] <= RunCount[u]]_vars

\* A submitter that finds every cell of an lfqueue taken.
Spinning(a) == pc[a] = "push" /\ ~HasRoom(target[a])

\* Every accepted task is eventually started, unless the pool is stopped or a
\* worker spins for ever on a full lfqueue that only workers can empty.
AcceptedRuns ==
    \A t \in Tasks :
        status[t] = "queued" ~> \/ Started(t) \/ m_stop
                                \/ [](\E w \in Workers : Spinning(w))

\* shutdown returns, unless a task on a worker spins for ever on a full
\* lfqueue that the stopped workers no longer empty.
ShutdownReturns ==
    m_stop ~> \/ threads = 0
              \/ [](\E w \in Workers : Spinning(w))

\* The pools implement the executor interface: see Executor.tla.  A task that a
\* worker has taken and not called yet is still accepted, and not started.
Accepted == [t \in Tasks |-> IF status[t] = "taken" THEN "queued" ELSE status[t]]
Exec == INSTANCE Executor WITH status <- Accepted, stopped <- m_stop,
                               closed <- (threads = 0)
ImplementsExecutor == Exec!Spec
=============================================================================
