--------------------------- MODULE PotThreads_proofs ---------------------------
(***************************************************************************)
(* Proofs about PotThreads: types, wake-ups, the order of the tasks and    *)
(* the drain at shutdown, of the threads and of the pools built from them, *)
(* for any number of threads, any clients, tasks and programs, and any     *)
(* number of calls of shutdown.                                            *)
(***************************************************************************)
EXTENDS PotThreads, SequenceTheorems, TLAPS

\* Who has a task in hand, and which thread runs one.
StageOK ==
    /\ \A a \in Submitters :
          pc[a] \in {"index", "push", "publish", "store", "notify", "poolpush"} => task[a] \in Tasks
    /\ \A t \in Threads :
          pc[t] \in {"call", "index", "push", "publish", "store", "notify",
                     "poolpush", "poolnotify"} => job[t] \in Tasks
    /\ \A t \in Threads : pc[t] \in {"pop", "test", "clear", "repop", "wait"} => class.lockFree

\* A stopper joins thread after thread, and a pool is cleared after the last one.
JoinAt(s) ==
    /\ pc[s] \in {"stop", "poolwake"} => target[s] = 0
    /\ pc[s] = "join" => round[s] = 1
    /\ class.kind = "single" => target[s] = 0
    /\ pc[s] \in {"request", "raise", "wake", "join"} /\ round[s] = 1 =>
          \A t \in Threads : t < target[s] => pc[t] = "exit"

JoinOK ==
    /\ \A s \in Stoppers : JoinAt(s)
    /\ Cleared => \A t \in Threads : pc[t] = "exit"

\* A thread about to wait holds the mutex, and has found its queue empty.
SleepyOK ==
    \A t \in Threads : /\ pc[t] = "sleepy" => queue[t] = <<>>
                       /\ pc[t] = "poolsleepy" => m_tasks = <<>>

\* A task in the queue of a thread_lf whose flag is down is not published yet, or
\* the flag is about to be raised: nothing has been lost by clearing it.
FlagOK ==
    \A t \in Threads :
        class.lockFree /\ pc[t] \in {"wait", "parked"} /\ ~hasWork[t] /\ queue[t] # <<>> =>
            \E a \in Submitters : target[a] = t /\ pc[a] \in {"publish", "store"}

IInv == TypeOK /\ StageOK /\ JoinOK /\ SleepyOK /\ FlagOK /\ NoLostWakeup

-----------------------------------------------------------------------------
\* The actors, and the classes.
LEMMA Roles ==
    /\ Threads \subseteq Submitters /\ Clients \subseteq Submitters
    /\ Submitters \subseteq Actors /\ Stoppers \subseteq Actors
    /\ Submitters \cap Stoppers = {} /\ Actors = Submitters \cup Stoppers
    /\ NoTask \notin Tasks /\ Worker \notin Tasks
  BY ThreadsAssumption, TaskAssumption DEF Threads, Submitters, Actors

LEMMA Numbers ==
    /\ Threads # {} /\ N \in Nat /\ N > 0
    /\ 0 \in Threads /\ N - 1 \in Threads /\ Threads \subseteq Nat
    /\ \A t \in Threads : t <= N - 1 /\ (t = N - 1 \/ t + 1 \in Threads)
  <1>1. N \in Nat /\ N > 0
    BY ThreadsAssumption
  <1>2. 0 \in Threads /\ N - 1 \in Threads /\ Threads \subseteq Nat
    BY <1>1 DEF Threads
  <1>3. \A t \in Threads : t <= N - 1 /\ (t = N - 1 \/ t + 1 \in Threads)
    BY <1>1 DEF Threads
  <1> QED BY <1>1, <1>2, <1>3

\* The front of a queue and what remains are what their types say.
LEMMA HeadTail ==
    ASSUME NEW S, NEW q \in Seq(S), q # <<>>
    PROVE  Head(q) \in S /\ Tail(q) \in Seq(S)
  OBVIOUS

LEMMA Appended ==
    ASSUME NEW S, NEW q \in Seq(S), NEW x \in S
    PROVE  Append(q, x) \in Seq(S) /\ Append(q, x) # <<>>
  BY AppendProperties

LEMMA Kinds ==
    ASSUME class \in Classes
    PROVE  class.kind \in {"single", "shared", "local"} /\ class.lockFree \in BOOLEAN
  <1>1. \A k, l : Class(k, l).kind = k /\ Class(k, l).lockFree = l
    BY DEF Class
  <1>2. class \in {thread, thread_lf, gq, lq, lfgq, lflq}
    BY ClassAssumption
  <1>3. /\ thread.kind = "single" /\ thread.lockFree = FALSE
        /\ thread_lf.kind = "single" /\ thread_lf.lockFree = TRUE
        /\ gq.kind = "shared" /\ gq.lockFree = FALSE
        /\ lq.kind = "local" /\ lq.lockFree = FALSE
        /\ lfgq.kind = "shared" /\ lfgq.lockFree = TRUE
        /\ lflq.kind = "local" /\ lflq.lockFree = TRUE
    BY <1>1 DEF thread, thread_lf, gq, lq, lfgq, lflq
  <1> QED BY <1>2, <1>3

LEMMA IInvInit == Init => IInv
  <1> SUFFICES ASSUME Init PROVE IInv
    OBVIOUS
  <1>0. class \in Classes
    BY DEF Init
  <1>1. TypeOK
    <2>1. /\ queue \in [Threads -> Seq(Tasks \cup {Worker})]
          /\ hasWork \in [Threads -> BOOLEAN]
      <3>1. <<Worker>> \in Seq(Tasks \cup {Worker}) /\ <<>> \in Seq(Tasks \cup {Worker})
        OBVIOUS
      <3> QED BY <3>1 DEF Init
    <2>2. pc \in [Actors -> Labels]
      <3>1. \A a \in Actors : pc[a] \in {Begin, "exit", "call", "stop"}
        BY DEF Init
      <3>2. Begin \in {"pop", "loop"}
        BY DEF Begin
      <3> QED BY <3>1, <3>2 DEF Init, Labels
    <2>3. todo \in [Submitters -> Seq(Tasks)]
      BY ThreadsAssumption DEF Init
    <2>4. /\ target \in [Actors -> Threads] /\ round \in [Stoppers -> 1 .. 2]
          /\ size \in {0, N} /\ m_next \in Nat
      BY Numbers DEF Init
    <2>5. /\ job \in [Threads -> Tasks \cup {NoTask}]
          /\ task \in [Submitters -> Tasks \cup {NoTask}]
          /\ status \in [Tasks -> {"new", "refused", "queued", "running", "done"}]
      <3>1. /\ job = [t \in Threads |-> NoTask] /\ task = [a \in Submitters |-> NoTask]
            /\ status = [t \in Tasks |-> "new"]
        BY DEF Init
      <3> QED BY <3>1
    <2>6. /\ stopReq \subseteq Threads /\ m_tasks \in Seq(Tasks) /\ m_stop \in BOOLEAN
          /\ due \subseteq Tasks /\ missed \subseteq Threads
      <3>1. m_tasks = <<>> /\ <<>> \in Seq(Tasks)
        BY DEF Init
      <3>2. stopReq = {} /\ m_stop = FALSE /\ due = {} /\ missed = {}
        BY DEF Init
      <3> QED BY <3>1, <3>2
    <2> QED BY <1>0, <2>1, <2>2, <2>3, <2>4, <2>5, <2>6 DEF TypeOK
  <1>2. StageOK
    BY <1>0, Roles, Numbers, Kinds DEF Init, StageOK, Begin, Used
  <1>3. JoinOK
    BY <1>0, Roles, Numbers, Kinds DEF Init, JoinOK, JoinAt, Begin, Used, Cleared
  <1>4. SleepyOK
    BY <1>0, Roles, Numbers, Kinds DEF Init, SleepyOK, Begin, Used
  <1>5. FlagOK
    BY <1>0, Roles, Numbers, Kinds DEF Init, FlagOK, Begin, Used
  <1>6. NoLostWakeup
    BY <1>0, Roles, Numbers, Kinds DEF Init, NoLostWakeup, Begin, Used, PoolParked
  <1> QED BY <1>1, <1>2, <1>3, <1>4, <1>5, <1>6 DEF IInv

-----------------------------------------------------------------------------
(***************************************************************************)
(* The steps                                                               *)
(***************************************************************************)
\* Who has left stays away, so a stopper that does not move has joined as many.
LEMMA JoinStays ==
    ASSUME JoinOK, class' = class,
           \A u \in Threads : pc[u] = "exit" => pc'[u] = "exit",
           NEW r \in Stoppers, pc'[r] = pc[r], target'[r] = target[r], round'[r] = round[r]
    PROVE  JoinAt(r)'
  BY DEF JoinOK, JoinAt

\* What FlagOK and NoLostWakeup need: who must act still has to.
LEMMA FlagStays ==
    ASSUME FlagOK, class' = class,
           \A t \in Threads :
              class.lockFree /\ pc'[t] \in {"wait", "parked"} /\ ~hasWork'[t] /\ queue'[t] # <<>> =>
                 /\ pc[t] \in {"wait", "parked"} /\ ~hasWork[t] /\ queue[t] # <<>>
                 /\ \A a \in Submitters : target[a] = t /\ pc[a] \in {"publish", "store"} =>
                                             target'[a] = t /\ pc'[a] \in {"publish", "store"}
    PROVE  FlagOK'
  BY DEF FlagOK

LEMMA WakeupStays ==
    ASSUME NoLostWakeup,
           \A t \in Threads : pc'[t] = "parked" /\ queue'[t] # <<>> =>
              /\ pc[t] = "parked" /\ queue[t] # <<>>
              /\ \A a \in Submitters :
                    target[a] = t /\ pc[a] \in {"publish", "store", "notify"} =>
                       target'[a] = t /\ pc'[a] \in {"publish", "store", "notify"}
    PROVE  \A t \in Threads : pc'[t] = "parked" /\ queue'[t] # <<>> =>
              \E a \in Submitters : target'[a] = t /\ pc'[a] \in {"publish", "store", "notify"}
  BY DEF NoLostWakeup

LEMMA PoolWakeupStays ==
    ASSUME NoLostWakeup,
           m_tasks' # <<>> /\ (\A t \in Threads : pc'[t] = "poolparked") =>
              /\ m_tasks # <<>> /\ \A t \in Threads : pc[t] = "poolparked"
              /\ \A a \in Submitters : pc[a] = "poolnotify" => pc'[a] = "poolnotify"
    PROVE  PoolParked' = Threads /\ m_tasks' # <<>> =>
              \E a \in Submitters : pc'[a] = "poolnotify"
  <1> SUFFICES ASSUME PoolParked' = Threads, m_tasks' # <<>>
               PROVE  \E a \in Submitters : pc'[a] = "poolnotify"
    OBVIOUS
  <1>1. \A t \in Threads : pc'[t] = "poolparked"
    BY DEF PoolParked
  <1>2. PoolParked = Threads
    BY <1>1 DEF PoolParked
  <1> QED BY <1>1, <1>2 DEF NoLostWakeup

LEMMA CallStep ==
    ASSUME IInv, NEW a \in Submitters, Call(a)
    PROVE  IInv'
  <1>0. TypeOK /\ StageOK /\ JoinOK /\ SleepyOK /\ FlagOK /\ NoLostWakeup /\ class \in Classes
    BY DEF IInv, TypeOK
  <1>a. PICK l \in {"call", "push", "index", "poolpush"}, x \in Tasks \cup {NoTask},
                v \in {"new", "refused", "queued", "running", "done"} :
           /\ pc[a] = "call" /\ a \in Actors /\ (l # "call" => x \in Tasks)
           /\ UNCHANGED <<class, queue, hasWork, stopReq, m_tasks, m_stop, size, m_next,
                          job, target, round, due, missed>>
           /\ todo' = [todo EXCEPT ![a] = Tail(@)] /\ todo' \in [Submitters -> Seq(Tasks)]
           /\ Head(todo[a]) \in Tasks
           /\ status' = [status EXCEPT ![Head(todo[a])] = v]
           /\ task' = [task EXCEPT ![a] = x] /\ pc' = [pc EXCEPT ![a] = l]
    <2>1. Head(todo[a]) \in Tasks /\ Tail(todo[a]) \in Seq(Tasks) /\ a \in Actors
      BY <1>0, Roles, HeadTail DEF TypeOK, Call
    <2>2. CASE class.kind = "local" /\ m_stop
      <3>1. /\ status' = [status EXCEPT ![Head(todo[a])] = "refused"] /\ UNCHANGED <<pc, task>>
            /\ pc[a] = "call" /\ todo' = [todo EXCEPT ![a] = Tail(@)]
            /\ UNCHANGED <<class, own, pool, job, target, stop>>
        BY <2>2 DEF Call, Become
      <3>2. pc' = [pc EXCEPT ![a] = "call"] /\ task' = [task EXCEPT ![a] = task[a]]
        BY <1>0, <3>1 DEF TypeOK
      <3>3. task[a] \in Tasks \cup {NoTask} /\ todo' \in [Submitters -> Seq(Tasks)]
        BY <1>0, <2>1, <3>1 DEF TypeOK
      <3> QED BY <2>1, <3>1, <3>2, <3>3 DEF own, pool, stop
    <2>3. CASE ~(class.kind = "local" /\ m_stop)
      <3>1. PICK l \in {"push", "index", "poolpush"} : pc' = [pc EXCEPT ![a] = l]
        BY <1>0, <2>3, Kinds DEF Call, Goto
      <3>2. status' = [status EXCEPT ![Head(todo[a])] = status[Head(todo[a])]]
        BY <1>0, <2>1, <2>3 DEF TypeOK, Call
      <3> QED BY <1>0, <2>1, <2>3, <3>1, <3>2 DEF TypeOK, Call,
         own, pool, local, stop, Goto, Become
    <2> QED BY <2>2, <2>3
  <1>1. TypeOK'
    <2>1. pc' \in [Actors -> Labels]
      BY <1>0, <1>a, Roles DEF TypeOK, Labels
    <2> QED BY <1>0, <1>a, <2>1, Roles, Numbers DEF TypeOK
  <1>2. StageOK'
    BY <1>0, <1>a, Roles DEF TypeOK, StageOK
  <1>3. JoinOK'
    BY <1>0, <1>a, Roles DEF TypeOK, JoinOK, JoinAt, Cleared
  <1>4. SleepyOK'
    BY <1>0, <1>a, Roles DEF TypeOK, SleepyOK
  <1>5. FlagOK'
    BY <1>0, <1>a, Roles, FlagStays DEF TypeOK
  <1>6. \A u \in Threads : pc'[u] = "parked" /\ queue'[u] # <<>> =>
           \E b \in Submitters : target'[b] = u /\ pc'[b] \in {"publish", "store", "notify"}
    BY <1>0, <1>a, Roles, WakeupStays DEF TypeOK
  <1>7. PoolParked' = Threads /\ m_tasks' # <<>> => \E b \in Submitters : pc'[b] = "poolnotify"
    BY <1>0, <1>a, Roles, PoolWakeupStays DEF TypeOK
  <1> QED BY <1>1, <1>2, <1>3, <1>4, <1>5, <1>6, <1>7 DEF IInv, NoLostWakeup

LEMMA PickThreadStep ==
    ASSUME IInv, NEW a \in Submitters, PickThread(a)
    PROVE  IInv'
  <1>0. TypeOK /\ StageOK /\ JoinOK /\ SleepyOK /\ FlagOK /\ NoLostWakeup /\ class \in Classes
    BY DEF IInv, TypeOK
  <1>a. /\ pc[a] = "index" /\ a \in Actors
        /\ UNCHANGED <<class, queue, hasWork, stopReq, m_tasks, m_stop, size, todo, job,
                       task, status, round, due, missed>>
        /\ m_next' \in Nat /\ m_next % size \in Threads
        /\ target' = [target EXCEPT ![a] = m_next % size]
        /\ pc' = [pc EXCEPT ![a] = "push"]
    <2>1. size = N /\ m_next \in Nat
      BY <1>0 DEF TypeOK, PickThread, Cleared
    <2>2. m_next % N \in 0 .. N - 1
      BY <2>1, Numbers, SMT
    <2> QED BY <1>0, <2>1, <2>2, Roles DEF TypeOK, PickThread, Threads,
         own, pool, local, stop, Goto, Become
  <1>1. TypeOK'
    <2>1. pc' \in [Actors -> Labels]
      BY <1>0, <1>a, Roles DEF TypeOK, Labels
    <2> QED BY <1>0, <1>a, <2>1, Roles, Numbers DEF TypeOK
  <1>2. StageOK'
    BY <1>0, <1>a, Roles DEF TypeOK, StageOK
  <1>3. JoinOK'
    BY <1>0, <1>a, Roles DEF TypeOK, JoinOK, JoinAt, Cleared
  <1>4. SleepyOK'
    BY <1>0, <1>a, Roles DEF TypeOK, SleepyOK
  <1>5. FlagOK'
    BY <1>0, <1>a, Roles, FlagStays DEF TypeOK
  <1>6. \A u \in Threads : pc'[u] = "parked" /\ queue'[u] # <<>> =>
           \E b \in Submitters : target'[b] = u /\ pc'[b] \in {"publish", "store", "notify"}
    BY <1>0, <1>a, Roles, WakeupStays DEF TypeOK
  <1>7. PoolParked' = Threads /\ m_tasks' # <<>> => \E b \in Submitters : pc'[b] = "poolnotify"
    BY <1>0, <1>a, Roles, PoolWakeupStays DEF TypeOK
  <1> QED BY <1>1, <1>2, <1>3, <1>4, <1>5, <1>6, <1>7 DEF IInv, NoLostWakeup

LEMMA DangleStep ==
    ASSUME IInv, NEW a \in Submitters, Dangle(a)
    PROVE  IInv'
  <1>0. TypeOK /\ StageOK /\ JoinOK /\ SleepyOK /\ FlagOK /\ NoLostWakeup /\ class \in Classes
    BY DEF IInv, TypeOK
  <1>a. /\ a \in Actors /\ pc[a] # "exit"
        /\ UNCHANGED <<class, queue, hasWork, stopReq, m_tasks, m_stop, size, m_next, todo,
                       job, task, target, status, round, due, missed>>
        /\ pc' = [pc EXCEPT ![a] = "trap"]
        /\ \A u \in Threads : pc[u] = "exit"
    BY <1>0, Roles DEF JoinOK, Dangle,
         own, pool, local, stop, Goto, Become
  <1>1. TypeOK'
    <2>1. pc' \in [Actors -> Labels]
      BY <1>0, <1>a, Roles DEF TypeOK, Labels
    <2> QED BY <1>0, <1>a, <2>1, Roles, Numbers DEF TypeOK
  <1>2. StageOK'
    BY <1>0, <1>a, Roles DEF TypeOK, StageOK
  <1>3. JoinOK'
    BY <1>0, <1>a, Roles DEF TypeOK, JoinOK, JoinAt, Cleared
  <1>4. SleepyOK'
    BY <1>0, <1>a, Roles DEF TypeOK, SleepyOK
  <1>5. FlagOK'
    BY <1>0, <1>a, Roles, FlagStays DEF TypeOK
  <1>6. \A u \in Threads : pc'[u] = "parked" /\ queue'[u] # <<>> =>
           \E b \in Submitters : target'[b] = u /\ pc'[b] \in {"publish", "store", "notify"}
    BY <1>0, <1>a, Roles, WakeupStays DEF TypeOK
  <1>7. PoolParked' = Threads /\ m_tasks' # <<>> => \E b \in Submitters : pc'[b] = "poolnotify"
    BY <1>0, <1>a, Roles, PoolWakeupStays DEF TypeOK
  <1> QED BY <1>1, <1>2, <1>3, <1>4, <1>5, <1>6, <1>7 DEF IInv, NoLostWakeup

LEMMA PushStep ==
    ASSUME IInv, NEW a \in Submitters, Push(a)
    PROVE  IInv'
  <1>0. TypeOK /\ StageOK /\ JoinOK /\ SleepyOK /\ FlagOK /\ NoLostWakeup /\ class \in Classes
    BY DEF IInv, TypeOK
  <1>a. /\ pc[a] = "push" /\ a \in Actors /\ target[a] \in Threads /\ task[a] \in Tasks
        /\ pc[target[a]] # "sleepy"
        /\ UNCHANGED <<class, hasWork, stopReq, m_tasks, m_stop, size, m_next, todo, job,
                       task, target, round, due, missed>>
        /\ queue' = [queue EXCEPT ![target[a]] = Append(@, task[a])]
        /\ queue' \in [Threads -> Seq(Tasks \cup {Worker})]
        /\ status' = [status EXCEPT ![task[a]] = "queued"]
        /\ pc' = [pc EXCEPT ![a] = IF class.lockFree THEN "publish" ELSE "notify"]
    BY <1>0, Roles, Appended DEF TypeOK, StageOK, Push,
         own, pool, local, stop, Goto, Become
  <1>1. TypeOK'
    <2>1. pc' \in [Actors -> Labels]
      BY <1>0, <1>a, Roles DEF TypeOK, Labels
    <2> QED BY <1>0, <1>a, <2>1, Roles, Numbers DEF TypeOK
  <1>2. StageOK'
    BY <1>0, <1>a, Roles DEF TypeOK, StageOK
  <1>3. JoinOK'
    BY <1>0, <1>a, Roles DEF TypeOK, JoinOK, JoinAt, Cleared
  <1>4. SleepyOK'
    BY <1>0, <1>a, Roles DEF TypeOK, SleepyOK
  <1>5. FlagOK'
    BY <1>0, <1>a, Roles DEF TypeOK, FlagOK
  <1>6. \A u \in Threads : pc'[u] = "parked" /\ queue'[u] # <<>> =>
           \E b \in Submitters : target'[b] = u /\ pc'[b] \in {"publish", "store", "notify"}
    BY <1>0, <1>a, Roles DEF TypeOK, NoLostWakeup
  <1>7. PoolParked' = Threads /\ m_tasks' # <<>> => \E b \in Submitters : pc'[b] = "poolnotify"
    BY <1>0, <1>a, Roles, PoolWakeupStays DEF TypeOK
  <1> QED BY <1>1, <1>2, <1>3, <1>4, <1>5, <1>6, <1>7 DEF IInv, NoLostWakeup

LEMMA PublishStep ==
    ASSUME IInv, NEW a \in Submitters, Publish(a)
    PROVE  IInv'
  <1>0. TypeOK /\ StageOK /\ JoinOK /\ SleepyOK /\ FlagOK /\ NoLostWakeup /\ class \in Classes
    BY DEF IInv, TypeOK
  <1>a. /\ pc[a] = "publish" /\ a \in Actors
        /\ UNCHANGED <<class, queue, hasWork, stopReq, m_tasks, m_stop, size, m_next, todo,
                       job, task, target, status, round, due, missed>>
        /\ pc' = [pc EXCEPT ![a] = "store"]
    BY <1>0, Roles DEF Publish,
         own, pool, local, stop, Goto, Become
  <1>1. TypeOK'
    <2>1. pc' \in [Actors -> Labels]
      BY <1>0, <1>a, Roles DEF TypeOK, Labels
    <2> QED BY <1>0, <1>a, <2>1, Roles, Numbers DEF TypeOK
  <1>2. StageOK'
    BY <1>0, <1>a, Roles DEF TypeOK, StageOK
  <1>3. JoinOK'
    BY <1>0, <1>a, Roles DEF TypeOK, JoinOK, JoinAt, Cleared
  <1>4. SleepyOK'
    BY <1>0, <1>a, Roles DEF TypeOK, SleepyOK
  <1>5. FlagOK'
    BY <1>0, <1>a, Roles, FlagStays DEF TypeOK
  <1>6. \A u \in Threads : pc'[u] = "parked" /\ queue'[u] # <<>> =>
           \E b \in Submitters : target'[b] = u /\ pc'[b] \in {"publish", "store", "notify"}
    BY <1>0, <1>a, Roles, WakeupStays DEF TypeOK
  <1>7. PoolParked' = Threads /\ m_tasks' # <<>> => \E b \in Submitters : pc'[b] = "poolnotify"
    BY <1>0, <1>a, Roles, PoolWakeupStays DEF TypeOK
  <1> QED BY <1>1, <1>2, <1>3, <1>4, <1>5, <1>6, <1>7 DEF IInv, NoLostWakeup

LEMMA StoreStep ==
    ASSUME IInv, NEW a \in Submitters, Store(a)
    PROVE  IInv'
  <1>0. TypeOK /\ StageOK /\ JoinOK /\ SleepyOK /\ FlagOK /\ NoLostWakeup /\ class \in Classes
    BY DEF IInv, TypeOK
  <1>a. /\ pc[a] = "store" /\ a \in Actors /\ target[a] \in Threads
        /\ UNCHANGED <<class, queue, stopReq, m_tasks, m_stop, size, m_next, todo, job,
                       task, target, status, round, due, missed>>
        /\ hasWork' = [hasWork EXCEPT ![target[a]] = TRUE]
        /\ pc' = [pc EXCEPT ![a] = "notify"]
    BY <1>0, Roles DEF TypeOK, Store,
         own, pool, local, stop, Goto, Become
  <1>1. TypeOK'
    <2>1. pc' \in [Actors -> Labels]
      BY <1>0, <1>a, Roles DEF TypeOK, Labels
    <2> QED BY <1>0, <1>a, <2>1, Roles, Numbers DEF TypeOK
  <1>2. StageOK'
    BY <1>0, <1>a, Roles DEF TypeOK, StageOK
  <1>3. JoinOK'
    BY <1>0, <1>a, Roles DEF TypeOK, JoinOK, JoinAt, Cleared
  <1>4. SleepyOK'
    BY <1>0, <1>a, Roles DEF TypeOK, SleepyOK
  <1>5. FlagOK'
    BY <1>0, <1>a, Roles, FlagStays DEF TypeOK
  <1>6. \A u \in Threads : pc'[u] = "parked" /\ queue'[u] # <<>> =>
           \E b \in Submitters : target'[b] = u /\ pc'[b] \in {"publish", "store", "notify"}
    BY <1>0, <1>a, Roles, WakeupStays DEF TypeOK
  <1>7. PoolParked' = Threads /\ m_tasks' # <<>> => \E b \in Submitters : pc'[b] = "poolnotify"
    BY <1>0, <1>a, Roles, PoolWakeupStays DEF TypeOK
  <1> QED BY <1>1, <1>2, <1>3, <1>4, <1>5, <1>6, <1>7 DEF IInv, NoLostWakeup

LEMMA NotifyStep ==
    ASSUME IInv, NEW a \in Submitters, Notify(a)
    PROVE  IInv'
  <1>0. TypeOK /\ StageOK /\ JoinOK /\ SleepyOK /\ FlagOK /\ NoLostWakeup /\ class \in Classes
    BY DEF IInv, TypeOK
  <1>a. PICK l \in {"wait", "look"} :
           /\ pc[a] = "notify" /\ a \in Actors /\ target[a] \in Threads
           /\ UNCHANGED <<class, queue, hasWork, stopReq, m_tasks, m_stop, size, m_next,
                          todo, job, status, round, due, missed>>
           /\ l = "wait" <=> class.lockFree
           /\ pc' = IF pc[target[a]] = "parked" THEN [pc EXCEPT ![a] = "call", ![target[a]] = l]
                                               ELSE [pc EXCEPT ![a] = "call"]
           /\ task' = [task EXCEPT ![a] = NoTask] /\ target' = [target EXCEPT ![a] = 0]
    BY <1>0, Roles DEF TypeOK, Notify, Woken,
         own, pool, local, stop, Goto, Become
  <1>1. TypeOK'
    <2>1. pc' \in [Actors -> Labels]
      BY <1>0, <1>a, Roles DEF TypeOK, Labels
    <2> QED BY <1>0, <1>a, <2>1, Roles, Numbers DEF TypeOK
  <1>2. StageOK'
    BY <1>0, <1>a, Roles DEF TypeOK, StageOK
  <1>3. JoinOK'
    <2>1. \A u \in Threads : pc[u] = "exit" => pc'[u] = "exit"
      BY <1>0, <1>a, Roles DEF TypeOK
    <2>2. \A r \in Stoppers : JoinAt(r)'
      <3>1. \A r \in Stoppers : pc'[r] = pc[r] /\ target'[r] = target[r] /\ round'[r] = round[r]
        BY <1>0, <1>a, Roles, SMTT(30) DEF TypeOK
      <3> QED BY <1>0, <1>a, <2>1, <3>1, JoinStays
    <2>3. Cleared' => Cleared
      BY <1>a DEF Cleared
    <2> QED BY <1>0, <2>1, <2>2, <2>3 DEF JoinOK
  <1>4. SleepyOK'
    BY <1>0, <1>a, Roles DEF TypeOK, SleepyOK
  <1>5. FlagOK'
    BY <1>0, <1>a, Roles, FlagStays DEF TypeOK
  <1>6. \A u \in Threads : pc'[u] = "parked" /\ queue'[u] # <<>> =>
           \E b \in Submitters : target'[b] = u /\ pc'[b] \in {"publish", "store", "notify"}
    BY <1>0, <1>a, Roles, WakeupStays, ZenonT(40) DEF TypeOK
  <1>7. PoolParked' = Threads /\ m_tasks' # <<>> => \E b \in Submitters : pc'[b] = "poolnotify"
    BY <1>0, <1>a, Roles, PoolWakeupStays DEF TypeOK
  <1> QED BY <1>1, <1>2, <1>3, <1>4, <1>5, <1>6, <1>7 DEF IInv, NoLostWakeup

LEMMA PoolPushStep ==
    ASSUME IInv, NEW a \in Submitters, PoolPush(a)
    PROVE  IInv'
  <1>0. TypeOK /\ StageOK /\ JoinOK /\ SleepyOK /\ FlagOK /\ NoLostWakeup /\ class \in Classes
    BY DEF IInv, TypeOK
  <1>a. PICK l \in {"call", "poolnotify"}, v \in {"refused", "queued"} :
           /\ pc[a] = "poolpush" /\ a \in Actors /\ task[a] \in Tasks
           /\ \A u \in Threads : pc[u] # "poolsleepy"
           /\ UNCHANGED <<class, queue, hasWork, stopReq, m_stop, size, m_next, todo, job,
                          target, round, due, missed>>
           /\ task' = [task EXCEPT ![a] = NoTask] /\ status' = [status EXCEPT ![task[a]] = v]
           /\ m_tasks' \in Seq(Tasks) /\ (l = "call" => m_tasks' = m_tasks)
           /\ pc' = [pc EXCEPT ![a] = l]
    <2>0. task[a] \in Tasks /\ m_tasks \in Seq(Tasks) /\ a \in Actors
      BY <1>0, Roles DEF TypeOK, StageOK, PoolPush
    <2>1. Append(m_tasks, task[a]) \in Seq(Tasks)
      BY <2>0, Appended
    <2>2. CASE m_stop
      BY <1>0, <2>0, <2>2 DEF PoolPush, PoolMutexFree,
         own, pool, local, stop, Goto, Become
    <2>3. CASE ~m_stop
      BY <1>0, <2>0, <2>1, <2>3 DEF PoolPush, PoolMutexFree,
         own, pool, local, stop, Goto, Become
    <2> QED BY <2>2, <2>3
  <1>1. TypeOK'
    <2>1. pc' \in [Actors -> Labels]
      BY <1>0, <1>a, Roles DEF TypeOK, Labels
    <2> QED BY <1>0, <1>a, <2>1, Roles, Numbers DEF TypeOK
  <1>2. StageOK'
    BY <1>0, <1>a, Roles DEF TypeOK, StageOK
  <1>3. JoinOK'
    BY <1>0, <1>a, Roles DEF TypeOK, JoinOK, JoinAt, Cleared
  <1>4. SleepyOK'
    BY <1>0, <1>a, Roles DEF TypeOK, SleepyOK
  <1>5. FlagOK'
    BY <1>0, <1>a, Roles, FlagStays DEF TypeOK
  <1>6. \A u \in Threads : pc'[u] = "parked" /\ queue'[u] # <<>> =>
           \E b \in Submitters : target'[b] = u /\ pc'[b] \in {"publish", "store", "notify"}
    BY <1>0, <1>a, Roles, WakeupStays DEF TypeOK
  <1>7. PoolParked' = Threads /\ m_tasks' # <<>> => \E b \in Submitters : pc'[b] = "poolnotify"
    BY <1>0, <1>a, Roles DEF TypeOK, NoLostWakeup, PoolParked
  <1> QED BY <1>1, <1>2, <1>3, <1>4, <1>5, <1>6, <1>7 DEF IInv, NoLostWakeup

LEMMA PoolNotifyStep ==
    ASSUME IInv, NEW a \in Submitters, PoolNotify(a)
    PROVE  IInv'
  <1>0. TypeOK /\ StageOK /\ JoinOK /\ SleepyOK /\ FlagOK /\ NoLostWakeup /\ class \in Classes
    BY DEF IInv, TypeOK
  <1>a. PICK P \in SUBSET Threads :
           /\ pc[a] = "poolnotify" /\ a \in Actors
           /\ UNCHANGED <<class, queue, hasWork, stopReq, m_tasks, m_stop, size, m_next,
                          todo, job, task, target, status, round, due, missed>>
           /\ \A u \in P : pc[u] = "poolparked"
           /\ P = {} => \A u \in Threads : pc[u] # "poolparked"
           /\ pc' = [b \in Actors |-> IF b = a THEN "call" ELSE IF b \in P THEN "poollook" ELSE pc[b]]
    <2>0. a \in Actors /\ Threads \subseteq Actors /\ pc \in [Actors -> Labels]
      BY <1>0, Roles DEF TypeOK
    <2>1. CASE PoolParked = {}
      <3>1. pc' = [b \in Actors |-> IF b = a THEN "call" ELSE IF b \in {} THEN "poollook" ELSE pc[b]]
        BY <2>0, <2>1 DEF PoolNotify, Goto
      <3> QED BY <2>0, <2>1, <3>1 DEF PoolNotify, PoolParked,
         own, pool, local, stop, Goto, Become
    <2>2. CASE PoolParked # {}
      <3>1. PICK u \in PoolParked : pc' = [pc EXCEPT ![a] = "call", ![u] = "poollook"]
        BY <2>2 DEF PoolNotify
      <3>2. u \in Threads /\ pc[u] = "poolparked" /\ pc[a] = "poolnotify" /\ u # a
        BY <3>1 DEF PoolParked, PoolNotify
      <3>3. pc' = [b \in Actors |-> IF b = a THEN "call" ELSE IF b \in {u} THEN "poollook" ELSE pc[b]]
        BY <2>0, <3>1, <3>2
      <3> QED BY <2>0, <3>2, <3>3 DEF PoolNotify,
         own, pool, local, stop, Goto, Become
    <2> QED BY <2>1, <2>2
  <1>1. TypeOK'
    <2>1. pc' \in [Actors -> Labels]
      BY <1>0, <1>a, Roles DEF TypeOK, Labels
    <2> QED BY <1>0, <1>a, <2>1, Roles, Numbers DEF TypeOK
  <1>2. StageOK'
    BY <1>0, <1>a, Roles DEF TypeOK, StageOK
  <1>3. JoinOK'
    BY <1>0, <1>a, Roles DEF TypeOK, JoinOK, JoinAt, Cleared
  <1>4. SleepyOK'
    BY <1>0, <1>a, Roles DEF TypeOK, SleepyOK
  <1>5. FlagOK'
    BY <1>0, <1>a, Roles, FlagStays DEF TypeOK
  <1>6. \A u \in Threads : pc'[u] = "parked" /\ queue'[u] # <<>> =>
           \E b \in Submitters : target'[b] = u /\ pc'[b] \in {"publish", "store", "notify"}
    BY <1>0, <1>a, Roles, WakeupStays DEF TypeOK
  <1>7. PoolParked' = Threads /\ m_tasks' # <<>> => \E b \in Submitters : pc'[b] = "poolnotify"
    BY <1>0, <1>a, Roles, PoolWakeupStays DEF TypeOK
  <1> QED BY <1>1, <1>2, <1>3, <1>4, <1>5, <1>6, <1>7 DEF IInv, NoLostWakeup

\* A thread goes on from one step of its loop to another.
LEMMA MoveStep ==
    ASSUME IInv, NEW t \in Threads,
           NEW from, NEW to \in Labels, Move(t, from, to),
           from \notin {"exit", "publish", "store", "notify", "poolnotify"},
           to \notin {"index", "push", "publish", "store", "notify", "poolpush", "poolnotify", "call"},
           to \in {"pop", "test", "clear", "repop", "wait"} => class.lockFree,
           to = "sleepy" => queue[t] = <<>>,
           to = "poolsleepy" => m_tasks = <<>>,
           to = "poolparked" => from = "poolsleepy",
           class.lockFree /\ to \in {"wait", "parked"} /\ ~hasWork[t] /\ queue[t] # <<>> =>
              \E a \in Submitters : target[a] = t /\ pc[a] \in {"publish", "store"},
           to = "parked" /\ queue[t] # <<>> =>
              \E a \in Submitters : target[a] = t /\ pc[a] \in {"publish", "store", "notify"}
    PROVE  IInv'
  <1>0. TypeOK /\ StageOK /\ JoinOK /\ SleepyOK /\ FlagOK /\ NoLostWakeup /\ class \in Classes
    BY DEF IInv, TypeOK
  <1>a. /\ pc[t] = from /\ t \in Actors
        /\ UNCHANGED <<class, queue, hasWork, stopReq, m_tasks, m_stop, size, m_next, todo,
                       job, task, target, status, round, due, missed>>
        /\ pc' = [pc EXCEPT ![t] = to]
    BY <1>0, Roles DEF Move,
         own, pool, local, stop, Goto, Become
  <1>1. TypeOK'
    <2>1. pc' \in [Actors -> Labels]
      BY <1>0, <1>a, Roles DEF TypeOK, Labels
    <2> QED BY <1>0, <1>a, <2>1, Roles, Numbers DEF TypeOK
  <1>2. StageOK'
    BY <1>0, <1>a, Roles DEF TypeOK, StageOK
  <1>3. JoinOK'
    BY <1>0, <1>a, Roles DEF TypeOK, JoinOK, JoinAt, Cleared
  <1>4. SleepyOK'
    BY <1>0, <1>a, Roles DEF TypeOK, SleepyOK
  <1>5. FlagOK'
    BY <1>0, <1>a, Roles, SMTT(30) DEF TypeOK, FlagOK
  <1>6. \A u \in Threads : pc'[u] = "parked" /\ queue'[u] # <<>> =>
           \E b \in Submitters : target'[b] = u /\ pc'[b] \in {"publish", "store", "notify"}
    BY <1>0, <1>a, Roles, SMTT(30) DEF TypeOK, NoLostWakeup
  <1>7. PoolParked' = Threads /\ m_tasks' # <<>> => \E b \in Submitters : pc'[b] = "poolnotify"
    BY <1>0, <1>a, Roles DEF TypeOK, SleepyOK, NoLostWakeup, PoolParked
  <1> QED BY <1>1, <1>2, <1>3, <1>4, <1>5, <1>6, <1>7 DEF IInv, NoLostWakeup

\* A thread takes the front of its queue.
LEMMA TakeStep ==
    ASSUME IInv, NEW t \in Threads,
           pc[t] \in {"look", "pop", "repop"}, queue[t] # <<>>, Take(t),
           hasWork' = hasWork \/ hasWork' = [hasWork EXCEPT ![t] = TRUE]
    PROVE  IInv'
  <1>0. TypeOK /\ StageOK /\ JoinOK /\ SleepyOK /\ FlagOK /\ NoLostWakeup /\ class \in Classes
    BY DEF IInv, TypeOK
  <1>a. PICK l \in {"call", "poollook"}, y \in Tasks \cup {NoTask} :
           /\ t \in Actors /\ hasWork' \in [Threads -> BOOLEAN] /\ (l = "call" => y \in Tasks)
           /\ UNCHANGED <<class, stopReq, m_tasks, m_stop, size, m_next, task, target,
                          round, due, missed>>
           /\ queue' = [queue EXCEPT ![t] = Tail(@)] /\ queue' \in [Threads -> Seq(Tasks \cup {Worker})]
           /\ job' = [job EXCEPT ![t] = y] /\ todo' \in [Submitters -> Seq(Tasks)]
           /\ status' \in [Tasks -> {"new", "refused", "queued", "running", "done"}]
           /\ pc' = [pc EXCEPT ![t] = l]
    <2>0. t \in Actors /\ t \in Submitters /\ hasWork' \in [Threads -> BOOLEAN]
      BY <1>0, Roles DEF TypeOK
    <2>1. /\ Head(queue[t]) \in Tasks \cup {Worker}
          /\ Tail(queue[t]) \in Seq(Tasks \cup {Worker})
      BY <1>0, HeadTail DEF TypeOK
    <2>2. /\ queue' = [queue EXCEPT ![t] = Tail(@)]
          /\ UNCHANGED <<class, stopReq, m_tasks, m_stop, size, m_next, task, target,
                         round, due, missed>>
      BY DEF Take, own, pool, local, stop
    <2>3. queue' \in [Threads -> Seq(Tasks \cup {Worker})]
      BY <1>0, <2>1, <2>2 DEF TypeOK
    <2>4. CASE Head(queue[t]) = Worker
      <3>1. pc' = [pc EXCEPT ![t] = "poollook"] /\ UNCHANGED <<todo, job, status>>
        BY <2>4 DEF Take, Goto
      <3>2. job' = [job EXCEPT ![t] = job[t]] /\ job[t] \in Tasks \cup {NoTask}
        BY <1>0, <3>1 DEF TypeOK
      <3> QED BY <1>0, <2>0, <2>2, <2>3, <3>1, <3>2 DEF TypeOK
    <2>5. CASE Head(queue[t]) # Worker
      <3>1. Head(queue[t]) \in Tasks /\ Run(t, Head(queue[t]))
        BY <2>1, <2>5 DEF Take
      <3>2. /\ todo' \in [Submitters -> Seq(Tasks)]
            /\ status' \in [Tasks -> {"new", "refused", "queued", "running", "done"}]
        BY <1>0, <2>0, <3>1, ThreadsAssumption DEF TypeOK, Run, Become
      <3> QED BY <2>0, <2>2, <2>3, <3>1, <3>2 DEF Run, Goto
    <2> QED BY <2>4, <2>5
  <1>1. TypeOK'
    <2>1. pc' \in [Actors -> Labels]
      BY <1>0, <1>a, Roles DEF TypeOK, Labels
    <2> QED BY <1>0, <1>a, <2>1, Roles, Numbers DEF TypeOK
  <1>2. StageOK'
    BY <1>0, <1>a, Roles DEF TypeOK, StageOK
  <1>3. JoinOK'
    BY <1>0, <1>a, Roles, ZenonT(40) DEF TypeOK, JoinOK, JoinAt, Cleared
  <1>4. SleepyOK'
    BY <1>0, <1>a, Roles DEF TypeOK, SleepyOK
  <1>5. FlagOK'
    <2>1. \A u \in Threads \ {t} : queue'[u] = queue[u] /\ hasWork'[u] = hasWork[u] /\ pc'[u] = pc[u]
      BY <1>0, <1>a, Roles DEF TypeOK
    <2>2. pc'[t] \notin {"wait", "parked"}
      BY <1>0, <1>a DEF TypeOK
    <2> QED BY <1>0, <1>a, <2>1, <2>2, Roles, FlagStays DEF TypeOK
  <1>6. \A u \in Threads : pc'[u] = "parked" /\ queue'[u] # <<>> =>
           \E b \in Submitters : target'[b] = u /\ pc'[b] \in {"publish", "store", "notify"}
    <2>1. \A u \in Threads \ {t} : queue'[u] = queue[u] /\ pc'[u] = pc[u]
      BY <1>0, <1>a, Roles DEF TypeOK
    <2>2. pc'[t] # "parked"
      BY <1>0, <1>a DEF TypeOK
    <2> QED BY <1>0, <1>a, <2>1, <2>2, Roles, WakeupStays DEF TypeOK
  <1>7. PoolParked' = Threads /\ m_tasks' # <<>> => \E b \in Submitters : pc'[b] = "poolnotify"
    BY <1>0, <1>a, Roles, PoolWakeupStays DEF TypeOK
  <1> QED BY <1>1, <1>2, <1>3, <1>4, <1>5, <1>6, <1>7 DEF IInv, NoLostWakeup

\* A thread takes the front of the queue of its pool.
LEMMA PoolTakeStep ==
    ASSUME IInv, NEW t \in Threads,
           pc[t] = "poollook", m_tasks # <<>>, PoolLook(t)
    PROVE  IInv'
  <1>0. TypeOK /\ StageOK /\ JoinOK /\ SleepyOK /\ FlagOK /\ NoLostWakeup /\ class \in Classes
    BY DEF IInv, TypeOK
  <1>a. PICK l \in {"call"}, y \in Tasks :
           /\ t \in Actors
           /\ UNCHANGED <<class, queue, hasWork, stopReq, m_stop, size, m_next, task,
                          target, round, due, missed>>
           /\ m_tasks' \in Seq(Tasks)
           /\ \A u \in Threads : pc[u] # "poolsleepy"
           /\ job' = [job EXCEPT ![t] = y] /\ todo' \in [Submitters -> Seq(Tasks)]
           /\ status' \in [Tasks -> {"new", "refused", "queued", "running", "done"}]
           /\ pc' = [pc EXCEPT ![t] = l]
    <2>0. t \in Actors /\ t \in Submitters
      BY <1>0, Roles DEF TypeOK
    <2>1. Head(m_tasks) \in Tasks /\ Tail(m_tasks) \in Seq(Tasks)
      BY <1>0, HeadTail DEF TypeOK
    <2>2. /\ m_tasks' = Tail(m_tasks) /\ Run(t, Head(m_tasks))
          /\ UNCHANGED <<class, own, m_stop, size, m_next, task, target, stop>>
          /\ \A u \in Threads : pc[u] # "poolsleepy"
      BY DEF PoolLook, PoolMutexFree
    <2>3. /\ todo' \in [Submitters -> Seq(Tasks)]
          /\ status' \in [Tasks -> {"new", "refused", "queued", "running", "done"}]
      BY <1>0, <2>0, <2>1, <2>2, ThreadsAssumption DEF TypeOK, Run, Become
    <2> QED BY <2>0, <2>1, <2>2, <2>3 DEF Run, Goto, own, stop
  <1>1. TypeOK'
    <2>1. pc' \in [Actors -> Labels]
      BY <1>0, <1>a, Roles DEF TypeOK, Labels
    <2> QED BY <1>0, <1>a, <2>1, Roles, Numbers DEF TypeOK
  <1>2. StageOK'
    BY <1>0, <1>a, Roles DEF TypeOK, StageOK
  <1>3. JoinOK'
    BY <1>0, <1>a, Roles DEF TypeOK, JoinOK, JoinAt, Cleared
  <1>4. SleepyOK'
    BY <1>0, <1>a, Roles DEF TypeOK, SleepyOK
  <1>5. FlagOK'
    BY <1>0, <1>a, Roles, FlagStays DEF TypeOK
  <1>6. \A u \in Threads : pc'[u] = "parked" /\ queue'[u] # <<>> =>
           \E b \in Submitters : target'[b] = u /\ pc'[b] \in {"publish", "store", "notify"}
    BY <1>0, <1>a, Roles, WakeupStays DEF TypeOK
  <1>7. PoolParked' = Threads /\ m_tasks' # <<>> => \E b \in Submitters : pc'[b] = "poolnotify"
    BY <1>0, <1>a, Roles, PoolWakeupStays DEF TypeOK
  <1> QED BY <1>1, <1>2, <1>3, <1>4, <1>5, <1>6, <1>7 DEF IInv, NoLostWakeup

LEMMA ClearStep ==
    ASSUME IInv, NEW t \in Threads, Clear(t)
    PROVE  IInv'
  <1>0. TypeOK /\ StageOK /\ JoinOK /\ SleepyOK /\ FlagOK /\ NoLostWakeup /\ class \in Classes
    BY DEF IInv, TypeOK
  <1>a. /\ pc[t] = "clear" /\ t \in Actors
        /\ UNCHANGED <<class, queue, stopReq, m_tasks, m_stop, size, m_next, todo, job,
                       task, target, status, round, due>>
        /\ hasWork' = [hasWork EXCEPT ![t] = FALSE] /\ missed' \subseteq Threads
        /\ pc' = [pc EXCEPT ![t] = "repop"]
    BY <1>0, Roles DEF TypeOK, Clear,
         own, pool, local, stop, Goto, Become
  <1>1. TypeOK'
    <2>1. pc' \in [Actors -> Labels]
      BY <1>0, <1>a, Roles DEF TypeOK, Labels
    <2> QED BY <1>0, <1>a, <2>1, Roles, Numbers DEF TypeOK
  <1>2. StageOK'
    BY <1>0, <1>a, Roles DEF TypeOK, StageOK
  <1>3. JoinOK'
    BY <1>0, <1>a, Roles DEF TypeOK, JoinOK, JoinAt, Cleared
  <1>4. SleepyOK'
    BY <1>0, <1>a, Roles DEF TypeOK, SleepyOK
  <1>5. FlagOK'
    BY <1>0, <1>a, Roles, FlagStays DEF TypeOK
  <1>6. \A u \in Threads : pc'[u] = "parked" /\ queue'[u] # <<>> =>
           \E b \in Submitters : target'[b] = u /\ pc'[b] \in {"publish", "store", "notify"}
    BY <1>0, <1>a, Roles, WakeupStays DEF TypeOK
  <1>7. PoolParked' = Threads /\ m_tasks' # <<>> => \E b \in Submitters : pc'[b] = "poolnotify"
    BY <1>0, <1>a, Roles, PoolWakeupStays DEF TypeOK
  <1> QED BY <1>1, <1>2, <1>3, <1>4, <1>5, <1>6, <1>7 DEF IInv, NoLostWakeup

LEMMA ReturnStep ==
    ASSUME IInv, NEW t \in Threads, Return(t)
    PROVE  IInv'
  <1>0. TypeOK /\ StageOK /\ JoinOK /\ SleepyOK /\ FlagOK /\ NoLostWakeup /\ class \in Classes
    BY DEF IInv, TypeOK
  <1>a. PICK l \in {"poollook", "pop", "loop"} :
           /\ pc[t] = "call" /\ t \in Actors /\ job[t] \in Tasks /\ (l = "pop" => class.lockFree)
           /\ UNCHANGED <<class, queue, hasWork, stopReq, m_tasks, m_stop, size, m_next,
                          todo, task, target, round, due, missed>>
           /\ job' = [job EXCEPT ![t] = NoTask] /\ status' = [status EXCEPT ![job[t]] = "done"]
           /\ pc' = [pc EXCEPT ![t] = l]
    BY <1>0, Roles DEF TypeOK, StageOK, Return, Begin,
         own, pool, local, stop, Goto, Become
  <1>1. TypeOK'
    <2>1. pc' \in [Actors -> Labels]
      BY <1>0, <1>a, Roles DEF TypeOK, Labels
    <2> QED BY <1>0, <1>a, <2>1, Roles, Numbers DEF TypeOK
  <1>2. StageOK'
    BY <1>0, <1>a, Roles DEF TypeOK, StageOK
  <1>3. JoinOK'
    BY <1>0, <1>a, Roles DEF TypeOK, JoinOK, JoinAt, Cleared
  <1>4. SleepyOK'
    BY <1>0, <1>a, Roles DEF TypeOK, SleepyOK
  <1>5. FlagOK'
    BY <1>0, <1>a, Roles, FlagStays DEF TypeOK
  <1>6. \A u \in Threads : pc'[u] = "parked" /\ queue'[u] # <<>> =>
           \E b \in Submitters : target'[b] = u /\ pc'[b] \in {"publish", "store", "notify"}
    BY <1>0, <1>a, Roles, WakeupStays DEF TypeOK
  <1>7. PoolParked' = Threads /\ m_tasks' # <<>> => \E b \in Submitters : pc'[b] = "poolnotify"
    BY <1>0, <1>a, Roles, PoolWakeupStays DEF TypeOK
  <1> QED BY <1>1, <1>2, <1>3, <1>4, <1>5, <1>6, <1>7 DEF IInv, NoLostWakeup

LEMMA JoinThreadStep ==
    ASSUME IInv, NEW s \in Stoppers, JoinThread(s)
    PROVE  IInv'
  <1>0. TypeOK /\ StageOK /\ JoinOK /\ SleepyOK /\ FlagOK /\ NoLostWakeup /\ class \in Classes
    BY DEF IInv, TypeOK
  <1>a. /\ s \in Actors /\ s \notin Submitters /\ pc[s] = "stop"
        /\ UNCHANGED <<class, queue, hasWork, stopReq, m_tasks, m_stop, size, m_next, todo,
                       job, task, target, status, round, missed>>
        /\ due' \subseteq Tasks
        /\ pc' = [pc EXCEPT ![s] = "request"]
    BY <1>0, Roles DEF TypeOK, JoinThread, Waiting,
         own, pool, local, stop, Goto, Become
  <1>1. TypeOK'
    <2>1. pc' \in [Actors -> Labels]
      BY <1>0, <1>a, Roles DEF TypeOK, Labels
    <2> QED BY <1>0, <1>a, <2>1, Roles, Numbers DEF TypeOK
  <1>2. StageOK'
    BY <1>0, <1>a, Roles DEF TypeOK, StageOK
  <1>3. JoinOK'
    <2>1. \A u \in Threads : pc[u] = "exit" => pc'[u] = "exit"
      BY <1>0, <1>a, Roles DEF TypeOK
    <2>2. \A r \in Stoppers \ {s} : JoinAt(r)'
      <3>1. \A r \in Stoppers \ {s} : pc'[r] = pc[r] /\ target'[r] = target[r] /\ round'[r] = round[r]
        BY <1>0, <1>a, Roles DEF TypeOK
      <3> QED BY <1>0, <1>a, <2>1, <3>1, JoinStays
    <2>3. pc'[s] \notin {"stop", "join"} /\ target'[s] = 0
      BY <1>0, <1>a DEF TypeOK, JoinOK, JoinAt
    <2>4. \A u \in Threads : ~(u < 0)
      BY Numbers
    <2>5. JoinAt(s)'
      BY <2>3, <2>4 DEF JoinAt
    <2>6. Cleared' => Cleared
      BY <1>a DEF Cleared
    <2> QED BY <1>0, <2>1, <2>2, <2>5, <2>6 DEF JoinOK
  <1>4. SleepyOK'
    BY <1>0, <1>a, Roles DEF TypeOK, SleepyOK
  <1>5. FlagOK'
    BY <1>0, <1>a, Roles, FlagStays DEF TypeOK
  <1>6. \A u \in Threads : pc'[u] = "parked" /\ queue'[u] # <<>> =>
           \E b \in Submitters : target'[b] = u /\ pc'[b] \in {"publish", "store", "notify"}
    BY <1>0, <1>a, Roles, WakeupStays DEF TypeOK
  <1>7. PoolParked' = Threads /\ m_tasks' # <<>> => \E b \in Submitters : pc'[b] = "poolnotify"
    BY <1>0, <1>a, Roles, PoolWakeupStays DEF TypeOK
  <1> QED BY <1>1, <1>2, <1>3, <1>4, <1>5, <1>6, <1>7 DEF IInv, NoLostWakeup

LEMMA CasStep ==
    ASSUME IInv, NEW s \in Stoppers, Cas(s)
    PROVE  IInv'
  <1>0. TypeOK /\ StageOK /\ JoinOK /\ SleepyOK /\ FlagOK /\ NoLostWakeup /\ class \in Classes
    BY DEF IInv, TypeOK
  <1>a. PICK l \in {"returned", "request"} :
           /\ s \in Actors /\ s \notin Submitters /\ pc[s] = "stop"
           /\ UNCHANGED <<class, queue, hasWork, stopReq, m_tasks, size, m_next, todo, job,
                          task, target, status, round, missed>>
           /\ due' \subseteq Tasks /\ m_stop' \in BOOLEAN
           /\ pc' = [pc EXCEPT ![s] = l]
    BY <1>0, Roles DEF TypeOK, Cas, Waiting,
         own, pool, local, stop, Goto, Become
  <1>1. TypeOK'
    <2>1. pc' \in [Actors -> Labels]
      BY <1>0, <1>a, Roles DEF TypeOK, Labels
    <2> QED BY <1>0, <1>a, <2>1, Roles, Numbers DEF TypeOK
  <1>2. StageOK'
    BY <1>0, <1>a, Roles DEF TypeOK, StageOK
  <1>3. JoinOK'
    <2>1. \A u \in Threads : pc[u] = "exit" => pc'[u] = "exit"
      BY <1>0, <1>a, Roles DEF TypeOK
    <2>2. \A r \in Stoppers \ {s} : JoinAt(r)'
      <3>1. \A r \in Stoppers \ {s} : pc'[r] = pc[r] /\ target'[r] = target[r] /\ round'[r] = round[r]
        BY <1>0, <1>a, Roles DEF TypeOK
      <3> QED BY <1>0, <1>a, <2>1, <3>1, JoinStays
    <2>3. pc'[s] \notin {"stop", "join"} /\ target'[s] = 0
      BY <1>0, <1>a DEF TypeOK, JoinOK, JoinAt
    <2>4. \A u \in Threads : ~(u < 0)
      BY Numbers
    <2>5. JoinAt(s)'
      BY <2>3, <2>4 DEF JoinAt
    <2>6. Cleared' => Cleared
      BY <1>a DEF Cleared
    <2> QED BY <1>0, <2>1, <2>2, <2>5, <2>6 DEF JoinOK
  <1>4. SleepyOK'
    BY <1>0, <1>a, Roles DEF TypeOK, SleepyOK
  <1>5. FlagOK'
    BY <1>0, <1>a, Roles, FlagStays DEF TypeOK
  <1>6. \A u \in Threads : pc'[u] = "parked" /\ queue'[u] # <<>> =>
           \E b \in Submitters : target'[b] = u /\ pc'[b] \in {"publish", "store", "notify"}
    BY <1>0, <1>a, Roles, WakeupStays DEF TypeOK
  <1>7. PoolParked' = Threads /\ m_tasks' # <<>> => \E b \in Submitters : pc'[b] = "poolnotify"
    BY <1>0, <1>a, Roles, PoolWakeupStays DEF TypeOK
  <1> QED BY <1>1, <1>2, <1>3, <1>4, <1>5, <1>6, <1>7 DEF IInv, NoLostWakeup

LEMMA PoolStopStep ==
    ASSUME IInv, NEW s \in Stoppers, PoolStop(s)
    PROVE  IInv'
  <1>0. TypeOK /\ StageOK /\ JoinOK /\ SleepyOK /\ FlagOK /\ NoLostWakeup /\ class \in Classes
    BY DEF IInv, TypeOK
  <1>a. PICK l \in {"returned", "poolwake"} :
           /\ s \in Actors /\ s \notin Submitters /\ pc[s] = "stop"
           /\ UNCHANGED <<class, queue, hasWork, stopReq, m_tasks, size, m_next, todo, job,
                          task, target, status, round, missed>>
           /\ due' \subseteq Tasks /\ m_stop' \in BOOLEAN
           /\ pc' = [pc EXCEPT ![s] = l]
    BY <1>0, Roles DEF TypeOK, PoolStop, Waiting,
         own, pool, local, stop, Goto, Become
  <1>1. TypeOK'
    <2>1. pc' \in [Actors -> Labels]
      BY <1>0, <1>a, Roles DEF TypeOK, Labels
    <2> QED BY <1>0, <1>a, <2>1, Roles, Numbers DEF TypeOK
  <1>2. StageOK'
    BY <1>0, <1>a, Roles DEF TypeOK, StageOK
  <1>3. JoinOK'
    <2>1. \A u \in Threads : pc[u] = "exit" => pc'[u] = "exit"
      BY <1>0, <1>a, Roles DEF TypeOK
    <2>2. \A r \in Stoppers \ {s} : JoinAt(r)'
      <3>1. \A r \in Stoppers \ {s} : pc'[r] = pc[r] /\ target'[r] = target[r] /\ round'[r] = round[r]
        BY <1>0, <1>a, Roles DEF TypeOK
      <3> QED BY <1>0, <1>a, <2>1, <3>1, JoinStays
    <2>3. pc'[s] \notin {"stop", "join"} /\ target'[s] = 0
      BY <1>0, <1>a DEF TypeOK, JoinOK, JoinAt
    <2>4. \A u \in Threads : ~(u < 0)
      BY Numbers
    <2>5. JoinAt(s)'
      BY <2>3, <2>4 DEF JoinAt
    <2>6. Cleared' => Cleared
      BY <1>a DEF Cleared
    <2> QED BY <1>0, <2>1, <2>2, <2>5, <2>6 DEF JoinOK
  <1>4. SleepyOK'
    BY <1>0, <1>a, Roles DEF TypeOK, SleepyOK
  <1>5. FlagOK'
    BY <1>0, <1>a, Roles, FlagStays DEF TypeOK
  <1>6. \A u \in Threads : pc'[u] = "parked" /\ queue'[u] # <<>> =>
           \E b \in Submitters : target'[b] = u /\ pc'[b] \in {"publish", "store", "notify"}
    BY <1>0, <1>a, Roles, WakeupStays DEF TypeOK
  <1>7. PoolParked' = Threads /\ m_tasks' # <<>> => \E b \in Submitters : pc'[b] = "poolnotify"
    BY <1>0, <1>a, Roles, PoolWakeupStays DEF TypeOK
  <1> QED BY <1>1, <1>2, <1>3, <1>4, <1>5, <1>6, <1>7 DEF IInv, NoLostWakeup

LEMMA PoolWakeAllStep ==
    ASSUME IInv, NEW s \in Stoppers, PoolWakeAll(s)
    PROVE  IInv'
  <1>0. TypeOK /\ StageOK /\ JoinOK /\ SleepyOK /\ FlagOK /\ NoLostWakeup /\ class \in Classes
    BY DEF IInv, TypeOK
  <1>a. /\ s \in Actors /\ s \notin Submitters /\ pc[s] = "poolwake"
        /\ UNCHANGED <<class, queue, hasWork, stopReq, m_tasks, m_stop, size, m_next, todo,
                       job, task, target, status, round, due, missed>>
        /\ pc' = [b \in Actors |-> IF b \in Threads /\ pc[b] = "poolparked" THEN "poollook"
                                     ELSE IF b = s THEN "request" ELSE pc[b]]
    BY <1>0, Roles DEF TypeOK, PoolWakeAll, PoolParked,
         own, pool, local, stop, Goto, Become
  <1>1. TypeOK'
    <2>1. pc' \in [Actors -> Labels]
      BY <1>0, <1>a, Roles DEF TypeOK, Labels
    <2> QED BY <1>0, <1>a, <2>1, Roles, Numbers DEF TypeOK
  <1>2. StageOK'
    BY <1>0, <1>a, Roles DEF TypeOK, StageOK
  <1>3. JoinOK'
    <2>1. \A u \in Threads : pc[u] = "exit" => pc'[u] = "exit"
      BY <1>0, <1>a, Roles DEF TypeOK
    <2>2. \A r \in Stoppers \ {s} : JoinAt(r)'
      <3>1. \A r \in Stoppers \ {s} : pc'[r] = pc[r] /\ target'[r] = target[r] /\ round'[r] = round[r]
        BY <1>0, <1>a, Roles DEF TypeOK
      <3> QED BY <1>0, <1>a, <2>1, <3>1, JoinStays
    <2>3. pc'[s] \notin {"stop", "join"} /\ target'[s] = 0
      BY <1>0, <1>a DEF TypeOK, JoinOK, JoinAt
    <2>4. \A u \in Threads : ~(u < 0)
      BY Numbers
    <2>5. JoinAt(s)'
      BY <2>3, <2>4 DEF JoinAt
    <2>6. Cleared' => Cleared
      BY <1>a DEF Cleared
    <2> QED BY <1>0, <2>1, <2>2, <2>5, <2>6 DEF JoinOK
  <1>4. SleepyOK'
    BY <1>0, <1>a, Roles DEF TypeOK, SleepyOK
  <1>5. FlagOK'
    BY <1>0, <1>a, Roles, FlagStays DEF TypeOK
  <1>6. \A u \in Threads : pc'[u] = "parked" /\ queue'[u] # <<>> =>
           \E b \in Submitters : target'[b] = u /\ pc'[b] \in {"publish", "store", "notify"}
    BY <1>0, <1>a, Roles, WakeupStays DEF TypeOK
  <1>7. PoolParked' = Threads /\ m_tasks' # <<>> => \E b \in Submitters : pc'[b] = "poolnotify"
    BY <1>0, <1>a, Roles, PoolWakeupStays DEF TypeOK
  <1> QED BY <1>1, <1>2, <1>3, <1>4, <1>5, <1>6, <1>7 DEF IInv, NoLostWakeup

LEMMA RequestStep ==
    ASSUME IInv, NEW s \in Stoppers, Request(s)
    PROVE  IInv'
  <1>0. TypeOK /\ StageOK /\ JoinOK /\ SleepyOK /\ FlagOK /\ NoLostWakeup /\ class \in Classes
    BY DEF IInv, TypeOK
  <1>a. PICK l \in {"raise", "wake"} :
           /\ s \in Actors /\ s \notin Submitters /\ pc[s] = "request"
           /\ UNCHANGED <<class, queue, hasWork, m_tasks, m_stop, size, m_next, todo, job,
                          task, target, status, round, due, missed>>
           /\ stopReq' \subseteq Threads
           /\ pc' = [pc EXCEPT ![s] = l]
    BY <1>0, Roles, ZenonT(40) DEF TypeOK, Request,
         own, pool, local, stop, Goto, Become
  <1>1. TypeOK'
    <2>1. pc' \in [Actors -> Labels]
      BY <1>0, <1>a, Roles DEF TypeOK, Labels
    <2> QED BY <1>0, <1>a, <2>1, Roles, Numbers DEF TypeOK
  <1>2. StageOK'
    BY <1>0, <1>a, Roles DEF TypeOK, StageOK
  <1>3. JoinOK'
    BY <1>0, <1>a, Roles DEF TypeOK, JoinOK, JoinAt, Cleared
  <1>4. SleepyOK'
    BY <1>0, <1>a, Roles DEF TypeOK, SleepyOK
  <1>5. FlagOK'
    BY <1>0, <1>a, Roles, FlagStays DEF TypeOK
  <1>6. \A u \in Threads : pc'[u] = "parked" /\ queue'[u] # <<>> =>
           \E b \in Submitters : target'[b] = u /\ pc'[b] \in {"publish", "store", "notify"}
    BY <1>0, <1>a, Roles, WakeupStays DEF TypeOK
  <1>7. PoolParked' = Threads /\ m_tasks' # <<>> => \E b \in Submitters : pc'[b] = "poolnotify"
    BY <1>0, <1>a, Roles, PoolWakeupStays DEF TypeOK
  <1> QED BY <1>1, <1>2, <1>3, <1>4, <1>5, <1>6, <1>7 DEF IInv, NoLostWakeup

LEMMA RaiseStep ==
    ASSUME IInv, NEW s \in Stoppers, Raise(s)
    PROVE  IInv'
  <1>0. TypeOK /\ StageOK /\ JoinOK /\ SleepyOK /\ FlagOK /\ NoLostWakeup /\ class \in Classes
    BY DEF IInv, TypeOK
  <1>a. /\ s \in Actors /\ s \notin Submitters /\ pc[s] = "raise"
        /\ UNCHANGED <<class, queue, stopReq, m_tasks, m_stop, size, m_next, todo, job,
                       task, target, status, round, due>>
        /\ hasWork' = [hasWork EXCEPT ![target[s]] = TRUE] /\ missed' \subseteq Threads
        /\ pc' = [pc EXCEPT ![s] = "wake"]
    BY <1>0, Roles DEF TypeOK, Raise,
         own, pool, local, stop, Goto, Become
  <1>1. TypeOK'
    <2>1. pc' \in [Actors -> Labels]
      BY <1>0, <1>a, Roles DEF TypeOK, Labels
    <2> QED BY <1>0, <1>a, <2>1, Roles, Numbers DEF TypeOK
  <1>2. StageOK'
    BY <1>0, <1>a, Roles DEF TypeOK, StageOK
  <1>3. JoinOK'
    BY <1>0, <1>a, Roles DEF TypeOK, JoinOK, JoinAt, Cleared
  <1>4. SleepyOK'
    BY <1>0, <1>a, Roles DEF TypeOK, SleepyOK
  <1>5. FlagOK'
    BY <1>0, <1>a, Roles, FlagStays DEF TypeOK
  <1>6. \A u \in Threads : pc'[u] = "parked" /\ queue'[u] # <<>> =>
           \E b \in Submitters : target'[b] = u /\ pc'[b] \in {"publish", "store", "notify"}
    BY <1>0, <1>a, Roles, WakeupStays DEF TypeOK
  <1>7. PoolParked' = Threads /\ m_tasks' # <<>> => \E b \in Submitters : pc'[b] = "poolnotify"
    BY <1>0, <1>a, Roles, PoolWakeupStays DEF TypeOK
  <1> QED BY <1>1, <1>2, <1>3, <1>4, <1>5, <1>6, <1>7 DEF IInv, NoLostWakeup

LEMMA WakeStep ==
    ASSUME IInv, NEW s \in Stoppers, Wake(s)
    PROVE  IInv'
  <1>0. TypeOK /\ StageOK /\ JoinOK /\ SleepyOK /\ FlagOK /\ NoLostWakeup /\ class \in Classes
    BY DEF IInv, TypeOK
  <1>a. PICK l \in {"wait", "look"} :
           /\ s \in Actors /\ s \notin Submitters /\ pc[s] = "wake" /\ target[s] \in Threads
           /\ UNCHANGED <<class, queue, hasWork, stopReq, m_tasks, m_stop, size, m_next,
                          todo, job, task, status, due>>
           /\ missed' \subseteq Threads
           /\ round' = [round EXCEPT ![s] = IF target[s] = LastThread /\ @ = 2 THEN 1 ELSE @]
           /\ target' = [target EXCEPT ![s] = IF round[s] = 1 THEN @ ELSE NextThread(s)]
           /\ NextThread(s) \in Threads /\ (target[s] = LastThread => NextThread(s) = 0)
           /\ l = "wait" <=> class.lockFree
           /\ pc' = [b \in Actors |->
                       IF b = s THEN IF round[s] = 1 THEN "join" ELSE "request"
                       ELSE IF b = target[s] /\ pc[target[s]] = "parked" THEN l ELSE pc[b]]
    <2>1. target[s] \in Threads /\ s \in Actors
      BY <1>0, Roles DEF TypeOK
    <2>2. NextThread(s) \in Threads /\ (target[s] = LastThread => NextThread(s) = 0)
      BY <1>0, <2>1, Numbers DEF JoinOK, JoinAt, NextThread, LastThread
    <2> QED BY <1>0, <2>1, <2>2, Roles DEF TypeOK, Wake, Woken,
         own, pool, local, stop, Goto, Become
  <1>1. TypeOK'
    <2>1. pc' \in [Actors -> Labels]
      BY <1>0, <1>a, Roles DEF TypeOK, Labels
    <2>2. round' \in [Stoppers -> 1 .. 2] /\ target' \in [Actors -> Threads]
      BY <1>0, <1>a DEF TypeOK
    <2> QED BY <1>0, <1>a, <2>1, <2>2 DEF TypeOK
  <1>2. StageOK'
    BY <1>0, <1>a, Roles DEF TypeOK, StageOK
  <1>3. JoinOK'
    <2>1. \A u \in Threads : pc[u] = "exit" => pc'[u] = "exit"
      BY <1>0, <1>a, Roles DEF TypeOK
    <2>2. \A r \in Stoppers \ {s} : JoinAt(r)'
      <3>1. \A r \in Stoppers \ {s} : pc'[r] = pc[r] /\ target'[r] = target[r] /\ round'[r] = round[r]
        BY <1>0, <1>a, Roles DEF TypeOK
      <3> QED BY <1>0, <1>a, <2>1, <3>1, JoinStays
    <2>3. round[s] \in {1, 2} /\ \A u \in Threads : ~(u < 0)
      BY <1>0, Numbers DEF TypeOK
    <2>4. JoinAt(s)'
      <3>1. CASE round[s] = 1
        <4>1. target'[s] = target[s] /\ round'[s] = 1 /\ pc'[s] = "join"
          BY <1>0, <1>a, <3>1 DEF TypeOK
        <4>2. /\ class.kind = "single" => target[s] = 0
              /\ \A u \in Threads : u < target[s] => pc[u] = "exit"
          BY <1>0, <1>a, <3>1 DEF JoinOK, JoinAt
        <4> QED BY <1>a, <2>1, <4>1, <4>2 DEF JoinAt
      <3>2. CASE round[s] = 2
        <4>1. /\ target'[s] = NextThread(s) /\ pc'[s] = "request"
              /\ round'[s] = IF target[s] = LastThread THEN 1 ELSE 2
          BY <1>0, <1>a, <3>2 DEF TypeOK
        <4>2. class.kind = "single" => target[s] = 0 /\ LastThread = 0
          BY <1>0 DEF JoinOK, JoinAt, LastThread
        <4>3. class.kind = "single" => target'[s] = 0
          BY <1>a, <4>1, <4>2
        <4>4. round'[s] = 1 => target'[s] = 0
          BY <1>a, <4>1
        <4> QED BY <1>a, <2>3, <4>1, <4>3, <4>4 DEF JoinAt
      <3> QED BY <2>3, <3>1, <3>2
    <2>5. Cleared' => Cleared
      BY <1>a DEF Cleared
    <2> QED BY <1>0, <2>1, <2>2, <2>4, <2>5 DEF JoinOK
  <1>4. SleepyOK'
    BY <1>0, <1>a, Roles DEF TypeOK, SleepyOK
  <1>5. FlagOK'
    BY <1>0, <1>a, Roles, FlagStays DEF TypeOK
  <1>6. \A u \in Threads : pc'[u] = "parked" /\ queue'[u] # <<>> =>
           \E b \in Submitters : target'[b] = u /\ pc'[b] \in {"publish", "store", "notify"}
    BY <1>0, <1>a, Roles, WakeupStays DEF TypeOK
  <1>7. PoolParked' = Threads /\ m_tasks' # <<>> => \E b \in Submitters : pc'[b] = "poolnotify"
    BY <1>0, <1>a, Roles, PoolWakeupStays DEF TypeOK
  <1> QED BY <1>1, <1>2, <1>3, <1>4, <1>5, <1>6, <1>7 DEF IInv, NoLostWakeup

LEMMA JoinStep ==
    ASSUME IInv, NEW s \in Stoppers, Join(s)
    PROVE  IInv'
  <1>0. TypeOK /\ StageOK /\ JoinOK /\ SleepyOK /\ FlagOK /\ NoLostWakeup /\ class \in Classes
    BY DEF IInv, TypeOK
  <1>a. PICK l \in {"returned", "request"} :
           /\ s \in Actors /\ s \notin Submitters /\ pc[s] = "join" /\ target[s] \in Threads /\ round[s] = 1
           /\ UNCHANGED <<class, queue, hasWork, stopReq, m_tasks, m_stop, m_next, todo,
                          job, task, status, round, due, missed>>
           /\ size' \in {size, 0} /\ (size' # size => target[s] = N - 1)
           /\ pc[target[s]] = "exit"
           /\ target' = [target EXCEPT ![s] = NextThread(s)] /\ NextThread(s) \in Threads
           /\ NextThread(s) \in {0, target[s] + 1}
           /\ pc' = [pc EXCEPT ![s] = l]
    <2>1. target[s] \in Threads /\ s \in Actors
      BY <1>0, Roles DEF TypeOK
    <2>2. NextThread(s) \in Threads /\ NextThread(s) \in {0, target[s] + 1}
      BY <1>0, <2>1, Numbers DEF JoinOK, JoinAt, NextThread, LastThread
    <2> QED BY <1>0, <2>1, <2>2, Roles DEF TypeOK, JoinOK, JoinAt, Join, LastThread,
         own, pool, local, stop, Goto, Become
  <1>1. TypeOK'
    <2>1. pc' \in [Actors -> Labels]
      BY <1>0, <1>a, Roles DEF TypeOK, Labels
    <2> QED BY <1>0, <1>a, <2>1, Roles, Numbers DEF TypeOK
  <1>2. StageOK'
    BY <1>0, <1>a, Roles DEF TypeOK, StageOK
  <1>3. JoinOK'
    <2>1. \A u \in Threads : pc[u] = "exit" => pc'[u] = "exit"
      BY <1>0, <1>a, Roles DEF TypeOK
    <2>2. \A r \in Stoppers \ {s} : JoinAt(r)'
      <3>1. \A r \in Stoppers \ {s} : pc'[r] = pc[r] /\ target'[r] = target[r] /\ round'[r] = round[r]
        BY <1>0, <1>a, Roles DEF TypeOK
      <3> QED BY <1>0, <1>a, <2>1, <3>1, JoinStays
    <2>3. /\ target[s] \in Nat /\ Threads \subseteq Nat
          /\ \A u \in Threads : u < target[s] => pc[u] = "exit"
          /\ \A u \in Threads : u <= N - 1
      BY <1>0, <1>a, Numbers DEF JoinOK, JoinAt
    <2>4. \A u \in Threads : u <= target[s] => pc'[u] = "exit"
      BY <1>a, <2>1, <2>3
    <2>5. target'[s] = NextThread(s) /\ pc'[s] = l /\ round'[s] = 1
      BY <1>0, <1>a DEF TypeOK
    <2>6. \A u \in Threads : u < target'[s] => pc'[u] = "exit"
      BY <1>a, <2>3, <2>4, <2>5
    <2>7. class'.kind = "single" => target'[s] = 0
      BY <1>0, <1>a, <2>5 DEF JoinOK, JoinAt, NextThread, LastThread
    <2>8. JoinAt(s)'
      BY <1>a, <2>5, <2>6, <2>7 DEF JoinAt
    <2>9. Cleared' => \A u \in Threads : pc'[u] = "exit"
      <3>1. CASE size' = size
        BY <1>0, <2>1, <3>1 DEF JoinOK, Cleared
      <3>2. CASE size' # size
        BY <1>a, <2>3, <2>4, <3>2
      <3> QED BY <3>1, <3>2
    <2> QED BY <2>2, <2>8, <2>9 DEF JoinOK
  <1>4. SleepyOK'
    BY <1>0, <1>a, Roles DEF TypeOK, SleepyOK
  <1>5. FlagOK'
    BY <1>0, <1>a, Roles, FlagStays DEF TypeOK
  <1>6. \A u \in Threads : pc'[u] = "parked" /\ queue'[u] # <<>> =>
           \E b \in Submitters : target'[b] = u /\ pc'[b] \in {"publish", "store", "notify"}
    BY <1>0, <1>a, Roles, WakeupStays DEF TypeOK
  <1>7. PoolParked' = Threads /\ m_tasks' # <<>> => \E b \in Submitters : pc'[b] = "poolnotify"
    BY <1>0, <1>a, Roles, PoolWakeupStays DEF TypeOK
  <1> QED BY <1>1, <1>2, <1>3, <1>4, <1>5, <1>6, <1>7 DEF IInv, NoLostWakeup

-----------------------------------------------------------------------------
(***************************************************************************)
(* The loops of the threads, by the two kinds of steps                     *)
(***************************************************************************)
\* Who is publishing into the queue of t when a pop of t finds nothing to take.
LEMMA NothingToTake ==
    ASSUME NEW t \in Threads, ~Takeable(t), queue[t] # <<>>
    PROVE  \E a \in Submitters : target[a] = t /\ pc[a] \in {"publish", "store"}
  BY DEF Takeable

LEMMA WorkStep == ASSUME IInv, NEW t \in Threads, Work(t) PROVE IInv'
  <1>0. /\ class \in Classes /\ StageOK /\ SleepyOK /\ FlagOK /\ t \in Submitters
        /\ class.lockFree \in BOOLEAN
    BY Roles, Kinds DEF IInv, TypeOK
  <1> USE DEF Labels
  <1>1. CASE Loop(t)
    BY <1>1, MoveStep DEF Loop
  <1>2. CASE Look(t)
    <2>1. CASE queue[t] = <<>>
      <3>1. Move(t, "look", IF t \in stopReq THEN "exit" ELSE "sleepy")
        BY <1>2, <2>1 DEF Look
      <3> QED BY <2>1, <3>1, MoveStep
    <2>2. CASE queue[t] # <<>>
      BY <1>2, <2>2, TakeStep DEF Look
    <2> QED BY <2>1, <2>2
  <1>3. CASE Park(t)
    <2>1. Move(t, "sleepy", "parked") /\ queue[t] = <<>>
      BY <1>0, <1>3 DEF Park, SleepyOK, Move
    <2> QED BY <2>1, MoveStep
  <1>4. CASE Pop(t)
    <2>1. CASE Takeable(t)
      BY <1>4, <2>1, TakeStep DEF Pop, Takeable
    <2>2. CASE ~Takeable(t)
      <3>1. Move(t, "pop", "test") /\ class.lockFree
        BY <1>0, <1>4, <2>2 DEF Pop, Move, StageOK
      <3> QED BY <3>1, MoveStep
    <2> QED BY <2>1, <2>2
  <1>5. CASE Test(t)
    <2>1. Move(t, "test", IF t \in stopReq THEN "exit" ELSE "clear") /\ class.lockFree
      BY <1>0, <1>5 DEF Test, Move, StageOK
    <2> QED BY <2>1, MoveStep
  <1>6. CASE Clear(t)
    BY <1>6, ClearStep
  <1>7. CASE Repop(t)
    <2>1. CASE Takeable(t)
      BY <1>7, <2>1, TakeStep DEF Repop, Takeable
    <2>2. CASE ~Takeable(t)
      <3>1. Move(t, "repop", "wait") /\ class.lockFree
        BY <1>0, <1>7, <2>2 DEF Repop, Move, StageOK
      <3>2. queue[t] # <<>> => \E a \in Submitters : target[a] = t /\ pc[a] \in {"publish", "store"}
        BY <2>2, NothingToTake
      <3> QED BY <3>1, <3>2, MoveStep
    <2> QED BY <2>1, <2>2
  <1>8. CASE Wait(t)
    <2>1. Move(t, "wait", IF hasWork[t] THEN "pop" ELSE "parked") /\ class.lockFree /\ pc[t] = "wait"
      BY <1>0, <1>8 DEF Wait, Move, StageOK
    <2>2. CASE hasWork[t]
      BY <2>1, <2>2, MoveStep
    <2>3. CASE ~hasWork[t]
      <3>1. queue[t] # <<>> => \E a \in Submitters : target[a] = t /\ pc[a] \in {"publish", "store"}
        BY <1>0, <2>1, <2>3 DEF FlagOK
      <3> QED BY <2>1, <2>3, <3>1, MoveStep
    <2> QED BY <2>2, <2>3
  <1>9. CASE Return(t)
    BY <1>9, ReturnStep
  <1>10. CASE PoolLook(t)
    <2>1. CASE m_tasks # <<>>
      <3>1. pc[t] = "poollook"
        BY <1>10, <2>1 DEF PoolLook
      <3> QED BY <1>10, <2>1, <3>1, PoolTakeStep
    <2>2. CASE m_tasks = <<>>
      <3>1. Move(t, "poollook", IF m_stop THEN Begin ELSE "poolsleepy")
        BY <1>10, <2>2 DEF PoolLook
      <3>2. Begin = IF class.lockFree THEN "pop" ELSE "loop"
        BY DEF Begin
      <3> QED BY <2>2, <3>1, <3>2, MoveStep
    <2> QED BY <2>1, <2>2
  <1>11. CASE PoolPark(t)
    BY <1>11, MoveStep DEF PoolPark
  <1> QED BY <1>1, <1>2, <1>3, <1>4, <1>5, <1>6, <1>7, <1>8, <1>9, <1>10, <1>11 DEF Work

LEMMA SubmitStep == ASSUME IInv, NEW a \in Submitters, Submit(a) PROVE IInv'
  BY CallStep, PickThreadStep, PushStep, PublishStep, StoreStep, NotifyStep, DangleStep,
     PoolPushStep, PoolNotifyStep DEF Submit

LEMMA StopStep == ASSUME IInv, NEW s \in Stoppers, Stop(s) \/ Proceed(s) PROVE IInv'
  BY JoinThreadStep, CasStep, PoolStopStep, PoolWakeAllStep, RequestStep, RaiseStep, WakeStep,
     JoinStep DEF Stop, Proceed

LEMMA IInvStep == IInv /\ [Next]_vars => IInv'
  <1> SUFFICES ASSUME IInv, [Next]_vars PROVE IInv'
    OBVIOUS
  <1>1. CASE Next
    BY <1>1, SubmitStep, WorkStep, StopStep DEF Next
  <1>2. CASE UNCHANGED vars
    <2> USE <1>2 DEF vars, own, pool, local, stop
    <2>1. TypeOK'
      BY DEF IInv, TypeOK
    <2>2. StageOK' /\ SleepyOK' /\ FlagOK'
      BY DEF IInv, StageOK, SleepyOK, FlagOK
    <2>3. JoinOK'
      BY DEF IInv, JoinOK, JoinAt, Cleared
    <2>4. NoLostWakeup'
      BY DEF IInv, NoLostWakeup, PoolParked
    <2> QED BY <2>1, <2>2, <2>3, <2>4 DEF IInv
  <1> QED BY <1>1, <1>2

\* The invariant holds throughout.
THEOREM Invariance == Spec => []IInv
  BY IInvInit, IInvStep, PTL DEF Spec

-----------------------------------------------------------------------------
\* Every variable stays in its range for each of the six classes, among them
\* the index into m_threads that PickThread computes.
THEOREM TypeCorrect == Spec => []TypeOK
  <1>1. IInv => TypeOK
    BY DEF IInv
  <1> QED BY <1>1, Invariance, PTL

\* The order of run (push, then the flag, then notify) and of worker_loop (pop,
\* clear the flag, pop again, wait) loses no task, and neither does the mutex
\* with its condition variable, in the threads as in the pools, for any number
\* of threads and submitters and while a shutdown goes on.
THEOREM NoWakeupIsLost == Spec => []NoLostWakeup
  <1>1. IInv => NoLostWakeup
    BY DEF IInv
  <1> QED BY <1>1, Invariance, PTL

-----------------------------------------------------------------------------
(***************************************************************************)
(* The life of the tasks: where each one is, from the call that submits it *)
(* to the end of its body.                                                 *)
(***************************************************************************)
\* A submitter has taken a task from its program and has not put it into a queue.
InHand(a) == pc[a] \in {"index", "push", "poolpush"}

\* A thread is inside a task.
Inside(t) == pc[t] \in {"call", "index", "push", "publish", "store", "notify",
                        "poolpush", "poolnotify"}

\* The queues of tasks: one per thread, or that of the pool, as thread 0's.
Line(t) == IF class.kind # "shared" THEN queue[t] ELSE IF t = 0 THEN m_tasks ELSE <<>>

\* What a submitter submits, and how much of it has left todo.
Source(a) == IF a \in Clients THEN Program[a]
             ELSE IF job[a] \in Tasks THEN Children[job[a]] ELSE <<>>

Passed(a) == Len(Source(a)) - Len(todo[a])

\* What a submitter has not passed yet is new, and the rest is not.
SourceAt(a) ==
    /\ Passed(a) >= 0
    /\ \A i \in DOMAIN todo[a] : todo[a][i] = Source(a)[Passed(a) + i]
    /\ InHand(a) => Passed(a) > 0 /\ task[a] = Source(a)[Passed(a)]
    /\ \A i \in DOMAIN Source(a) :
          status[Source(a)[i]] = "new" <=> i > Passed(a) \/ (i = Passed(a) /\ InHand(a))

SourceOK == \A a \in Submitters : SourceAt(a)

\* What a task submits is new until the task runs.
UnbornOK == \A x \in Tasks : status[x] \in {"new", "queued", "refused"} =>
                \A i \in DOMAIN Children[x] : status[Children[x][i]] = "new"

\* A task that is running has one thread, which is inside it.
RunOK ==
    /\ \A t \in Threads : job[t] \in Tasks => status[job[t]] = "running" /\ Inside(t)
    /\ \A t, u \in Threads : job[t] \in Tasks /\ job[t] = job[u] => t = u
    /\ \A x \in Tasks : status[x] = "running" => \E t \in Threads : job[t] = x

\* What is in a queue is queued, in one place, and what is queued is in a queue.
PlaceOK ==
    /\ \A t \in Threads : \A p \in DOMAIN Line(t) : status[Line(t)[p]] = "queued"
    /\ \A t, u \in Threads : \A p \in DOMAIN Line(t), q \in DOMAIN Line(u) :
          Line(t)[p] = Line(u)[q] => t = u /\ p = q
    /\ \A x \in Tasks : status[x] = "queued" =>
          \E t \in Threads : \E p \in DOMAIN Line(t) : Line(t)[p] = x

\* The tasks of a client wait in the order of its program.
OrderOK ==
    \A t \in Threads : \A p, q \in DOMAIN Line(t) :
        \A c \in Clients : \A i, j \in DOMAIN Program[c] :
            p < q /\ Line(t)[p] = Program[c][j] /\ Line(t)[q] = Program[c][i] => j <= i

TasksOK == SourceOK /\ UnbornOK /\ RunOK /\ PlaceOK /\ OrderOK

\* Which queue and which steps belong to which class.
Fits(l) ==
    /\ class.kind = "shared" => l \notin {"index", "push", "publish", "store", "notify", "trap"}
    /\ class.kind # "shared" => l \notin {"poolpush", "poolnotify", "poollook", "poolsleepy",
                                          "poolparked"}
    /\ class.kind = "single" => l \notin {"index", "trap"}

KindOK ==
    /\ \A a \in Submitters : Fits(pc[a])
    /\ class.kind = "shared" => \A t \in Threads : queue[t] \in {<<>>, <<Worker>>}
    /\ class.kind # "shared" => m_tasks = <<>> /\ queue \in [Threads -> Seq(Tasks)]
    /\ class.kind = "single" =>
          /\ size = N
          /\ \A a \in Submitters : target[a] = 0
          /\ \A t \in Threads : t # 0 => queue[t] = <<>>
          /\ \A x \in Tasks : status[x] # "refused"

\* What is due has been accepted.
DueOK == \A x \in due : status[x] \notin {"new", "refused"}

\* A thread of gq or lfgq that has left worker_loop has found nothing to do after the
\* stop; one of lfgq that has not entered it is about to.
Busy(t) == Inside(t) \/ pc[t] \in {"poollook", "poolsleepy", "poolparked"}

DrainOK ==
    class.kind = "shared" => \A t \in Threads :
        /\ queue[t] = <<>> /\ ~Busy(t) => m_stop /\ m_tasks = <<>>
        /\ class.lockFree /\ queue[t] # <<>> => pc[t] = "pop"

LifeOK == KindOK /\ DueOK /\ DrainOK /\ FifoOrder /\ (Alive => TasksOK)

-----------------------------------------------------------------------------
(***************************************************************************)
(* What a step can do to the tasks, whichever queue it uses                *)
(***************************************************************************)
Lives == {"new", "refused", "queued", "running", "done"}

\* Nothing but the tasks that are being passed on is of interest.
SameHand(a) == (InHand(a)' <=> InHand(a)) /\ (InHand(a) => task'[a] = task[a])
SameHands   == \A a \in Submitters : SameHand(a)
SameLines   == \A t \in Threads : Line(t)' = Line(t)
Stays       == \A t \in Threads : Inside(t) => Inside(t)'

\* No task moves.
Quiet == UNCHANGED <<status, todo, job>> /\ SameHands /\ SameLines /\ Stays

\* a takes the next task of its program in hand.
Offer(a) ==
    /\ todo[a] # <<>> /\ ~InHand(a)
    /\ todo' = [todo EXCEPT ![a] = Tail(@)]
    /\ UNCHANGED <<status, job>> /\ SameLines /\ Stays
    /\ \A b \in Submitters \ {a} : SameHand(b)
    /\ InHand(a)' /\ task'[a] = Head(todo[a])

\* The next task of a is refused at once.
Refuse(a) ==
    /\ todo[a] # <<>> /\ ~InHand(a)
    /\ todo' = [todo EXCEPT ![a] = Tail(@)]
    /\ status' = [status EXCEPT ![Head(todo[a])] = "refused"]
    /\ UNCHANGED job /\ SameLines /\ Stays /\ SameHands

\* The task in hand is refused, or put at the end of a queue.
Drop(a, life) ==
    /\ InHand(a) /\ ~InHand(a)'
    /\ status' = [status EXCEPT ![task[a]] = life]
    /\ UNCHANGED <<todo, job>> /\ Stays
    /\ \A b \in Submitters \ {a} : SameHand(b)

Reject(a) == Drop(a, "refused") /\ SameLines

Accept(a, u) ==
    /\ Drop(a, "queued")
    /\ Line(u)' = Append(Line(u), task[a])
    /\ \A t \in Threads \ {u} : Line(t)' = Line(t)

\* Thread t runs the task at the front of a queue.
Start(t, u) ==
    /\ Line(u) # <<>> /\ ~Inside(t) /\ ~InHand(t) /\ ~InHand(t)' /\ Inside(t)'
    /\ status' = [status EXCEPT ![Head(Line(u))] = "running"]
    /\ job' = [job EXCEPT ![t] = Head(Line(u))]
    /\ todo' = [todo EXCEPT ![t] = Children[Head(Line(u))]]
    /\ Line(u)' = Tail(Line(u))
    /\ \A v \in Threads \ {u} : Line(v)' = Line(v)
    /\ SameHands /\ Stays

\* The task of thread t is over.
Finish(t) ==
    /\ job[t] \in Tasks /\ todo[t] = <<>> /\ ~InHand(t)
    /\ status' = [status EXCEPT ![job[t]] = "done"]
    /\ job' = [job EXCEPT ![t] = NoTask]
    /\ UNCHANGED todo /\ SameLines /\ SameHands
    /\ \A u \in Threads \ {t} : Inside(u) => Inside(u)'

Effect ==
    \/ Quiet
    \/ \E a \in Submitters : Offer(a) \/ Refuse(a) \/ Reject(a) \/ \E u \in Threads : Accept(a, u)
    \/ \E t \in Threads : Finish(t) \/ \E u \in Threads : Start(t, u)

\* What every step of Next is shown to do.  After Dangle nothing is asked of the tasks.
Sound ==
    /\ class' = class /\ (due' = due \/ due' = Waiting)
    /\ KindOK' /\ DrainOK'
    /\ Effect \/ (~Alive' /\ UNCHANGED <<status, due>>)

\* What the values above are.
SourceTyped ==
    \A a \in Submitters :
        /\ Source(a) \in Seq(Tasks) /\ todo[a] \in Seq(Tasks)
        /\ Len(Source(a)) \in Nat /\ Len(todo[a]) \in Nat
        /\ DOMAIN Source(a) = 1 .. Len(Source(a)) /\ DOMAIN todo[a] = 1 .. Len(todo[a])
        /\ Passed(a) \in Int /\ Passed(a) = Len(Source(a)) - Len(todo[a])

LineTyped ==
    \A t \in Threads : /\ Line(t) \in Seq(Tasks) /\ Len(Line(t)) \in Nat
                       /\ DOMAIN Line(t) = 1 .. Len(Line(t))

LEMMA Lengths == \A q \in Seq(Tasks) : /\ Len(q) \in Nat /\ DOMAIN q = 1 .. Len(q)
                                       /\ \A i \in DOMAIN q : q[i] \in Tasks
  OBVIOUS

LEMMA SourceTypes == TypeOK => SourceTyped
  <1> SUFFICES ASSUME TypeOK, NEW a \in Submitters
               PROVE  Source(a) \in Seq(Tasks) /\ todo[a] \in Seq(Tasks)
    BY Lengths DEF SourceTyped, Passed
  <1>1. todo[a] \in Seq(Tasks)
    BY DEF TypeOK
  <1>2. Source(a) \in Seq(Tasks)
    <2>1. Program \in [Clients -> Seq(Tasks)] /\ Children \in [Tasks -> Seq(Tasks)]
      BY ThreadsAssumption
    <2>2. <<>> \in Seq(Tasks)
      OBVIOUS
    <2> QED BY <2>1, <2>2 DEF Source
  <1> QED BY <1>1, <1>2

LEMMA LineTypes == TypeOK /\ KindOK => LineTyped
  <1> SUFFICES ASSUME TypeOK, KindOK, NEW t \in Threads PROVE Line(t) \in Seq(Tasks)
    BY Lengths DEF LineTyped
  <1>1. m_tasks \in Seq(Tasks) /\ <<>> \in Seq(Tasks)
    BY DEF TypeOK
  <1>2. class.kind # "shared" => queue[t] \in Seq(Tasks)
    BY DEF KindOK
  <1> QED BY <1>1, <1>2 DEF Line

LEMMA SourceTypesNext == TypeOK' => SourceTyped'
  BY SourceTypes, PTL

LEMMA LineTypesNext == TypeOK' /\ KindOK' => LineTyped'
  BY LineTypes, PTL

\* What a thread runs is a task, and a client is no thread.
LEMMA SourceKinds ==
    ASSUME NEW a \in Submitters
    PROVE  \/ a \in Clients /\ a \notin Threads /\ Source(a) = Program[a]
           \/ a \in Threads /\ a \notin Clients /\ job[a] \in Tasks /\ Source(a) = Children[job[a]]
           \/ a \in Threads /\ a \notin Clients /\ job[a] \notin Tasks /\ Source(a) = <<>>
  BY ThreadsAssumption DEF Submitters, Source

\* Two places of what is being submitted hold two tasks.
LEMMA SourceApart ==
    ASSUME TypeOK, RunOK, NEW a \in Submitters, NEW b \in Submitters,
           NEW i \in DOMAIN Source(a), NEW j \in DOMAIN Source(b), Source(a)[i] = Source(b)[j]
    PROVE  a = b /\ i = j
  <1>0. DOMAIN <<>> = {}
    OBVIOUS
  <1>1. CASE a \in Clients /\ b \in Clients
    BY <1>1, OnceAssumption DEF Source
  <1>2. CASE a \notin Clients /\ b \notin Clients
    <2>1. /\ a \in Threads /\ job[a] \in Tasks /\ Source(a) = Children[job[a]]
          /\ b \in Threads /\ job[b] \in Tasks /\ Source(b) = Children[job[b]]
      BY <1>0, <1>2, SourceKinds
    <2>2. job[a] = job[b] /\ i = j
      BY <2>1, OnceAssumption
    <2> QED BY <2>1, <2>2 DEF RunOK
  <1>3. CASE a \in Clients /\ b \notin Clients
    <2>1. Source(a) = Program[a] /\ job[b] \in Tasks /\ Source(b) = Children[job[b]]
      BY <1>0, <1>3, SourceKinds
    <2> QED BY <1>3, <2>1, OnceAssumption
  <1>4. CASE a \notin Clients /\ b \in Clients
    <2>1. Source(b) = Program[b] /\ job[a] \in Tasks /\ Source(a) = Children[job[a]]
      BY <1>0, <1>4, SourceKinds
    <2> QED BY <1>4, <2>1, OnceAssumption
  <1> QED BY <1>1, <1>2, <1>3, <1>4

\* A submitter that does not move, and whose tasks stay as new as they are.
LEMMA SourceStays ==
    ASSUME SourceOK, NEW a \in Submitters, Source(a)' = Source(a), todo'[a] = todo[a],
           SameHand(a),
           \A i \in DOMAIN Source(a) : status'[Source(a)[i]] = "new" <=> status[Source(a)[i]] = "new"
    PROVE  SourceAt(a)'
  <1>1. SourceAt(a) /\ Passed(a)' = Passed(a)
    BY DEF SourceOK, Passed
  <1>2. InHand(a)' => task'[a] = task[a]
    BY DEF SameHand
  <1>3. InHand(a)' <=> InHand(a)
    BY DEF SameHand
  <1> QED BY <1>1, <1>2, <1>3 DEF SourceAt

\* What is next, or in hand, is a new task with a place in the program.
LEMMA NextPlace ==
    ASSUME TypeOK, SourceOK, NEW a \in Submitters, todo[a] # <<>>
    PROVE  /\ Passed(a) + 1 \in DOMAIN Source(a) /\ Head(todo[a]) = Source(a)[Passed(a) + 1]
           /\ Head(todo[a]) \in Tasks /\ status[Head(todo[a])] = "new"
  <1>0. SourceAt(a)
    BY DEF SourceOK
  <1>1. /\ Source(a) \in Seq(Tasks) /\ todo[a] \in Seq(Tasks)
        /\ Len(Source(a)) \in Nat /\ Len(todo[a]) \in Nat
        /\ DOMAIN Source(a) = 1 .. Len(Source(a)) /\ DOMAIN todo[a] = 1 .. Len(todo[a])
        /\ Passed(a) \in Int /\ Passed(a) = Len(Source(a)) - Len(todo[a])
    BY SourceTypes DEF SourceTyped
  <1>2. Len(todo[a]) > 0 /\ Head(todo[a]) = todo[a][1]
    BY <1>1
  <1>3. Passed(a) >= 0
    BY <1>0 DEF SourceAt
  <1>4. Passed(a) + 1 \in DOMAIN Source(a)
    BY <1>1, <1>2, <1>3
  <1>5. 1 \in DOMAIN todo[a]
    BY <1>1, <1>2
  <1>6. todo[a][1] = Source(a)[Passed(a) + 1]
    BY <1>0, <1>5 DEF SourceAt
  <1>7. Passed(a) \in Int /\ \A n \in Int : n + 1 > n
    BY <1>1
  <1>8. status[Source(a)[Passed(a) + 1]] = "new"
    BY <1>0, <1>4, <1>7 DEF SourceAt
  <1>9. Source(a)[Passed(a) + 1] \in Tasks
    BY <1>1, <1>4, Lengths
  <1> QED BY <1>2, <1>4, <1>6, <1>8, <1>9

LEMMA HandPlace ==
    ASSUME TypeOK, SourceOK, NEW a \in Submitters, InHand(a)
    PROVE  /\ Passed(a) \in DOMAIN Source(a) /\ task[a] = Source(a)[Passed(a)]
           /\ task[a] \in Tasks /\ status[task[a]] = "new"
  <1>0. SourceAt(a)
    BY DEF SourceOK
  <1>1. /\ Source(a) \in Seq(Tasks)
        /\ Len(Source(a)) \in Nat /\ Len(todo[a]) \in Nat
        /\ DOMAIN Source(a) = 1 .. Len(Source(a))
        /\ Passed(a) \in Int /\ Passed(a) = Len(Source(a)) - Len(todo[a])
    BY SourceTypes DEF SourceTyped
  <1>2. Passed(a) > 0 /\ task[a] = Source(a)[Passed(a)]
    BY <1>0 DEF SourceAt
  <1>3. Passed(a) \in DOMAIN Source(a)
    BY <1>1, <1>2
  <1>4. status[Source(a)[Passed(a)]] = "new"
    BY <1>0, <1>3 DEF SourceAt
  <1> QED BY <1>1, <1>2, <1>3, <1>4

\* A task of one submitter that is new no more is new to no other.
LEMMA OthersStay ==
    ASSUME TypeOK, RunOK, SourceOK, NEW a \in Submitters, NEW k \in DOMAIN Source(a),
           NEW life \in Lives, status' = [status EXCEPT ![Source(a)[k]] = life], job' = job,
           NEW b \in Submitters, b # a, todo'[b] = todo[b], SameHand(b)
    PROVE  SourceAt(b)'
  <1>1. Source(b)' = Source(b)
    BY DEF Source
  <1>2. \A i \in DOMAIN Source(b) : status'[Source(b)[i]] = status[Source(b)[i]]
    <2> TAKE i \in DOMAIN Source(b)
    <2>1. Source(b)[i] # Source(a)[k]
      BY SourceApart
    <2>2. Source(b)[i] \in Tasks /\ Source(a)[k] \in Tasks
      BY SourceTypes DEF SourceTyped
    <2> QED BY <2>1, <2>2 DEF TypeOK
  <1> QED BY <1>1, <1>2, SourceStays

\* When a task is submitted, what other tasks would submit stays new.
LEMMA UnbornStays ==
    ASSUME TypeOK, RunOK, UnbornOK, NEW a \in Submitters, NEW k \in DOMAIN Source(a),
           NEW life \in Lives, status' = [status EXCEPT ![Source(a)[k]] = life],
           status[Source(a)[k]] = "new"
    PROVE  UnbornOK'
  <1> SUFFICES ASSUME NEW x \in Tasks, status'[x] \in {"new", "queued", "refused"},
                      NEW i \in DOMAIN Children[x]
               PROVE  status'[Children[x][i]] = "new"
    BY DEF UnbornOK
  <1>0. Source(a)[k] \in Tasks /\ Children[x][i] \in Tasks
    BY SourceTypes, ThreadsAssumption DEF SourceTyped
  <1>1. status[x] \in {"new", "queued", "refused"}
    BY <1>0 DEF TypeOK
  <1>2. status[Children[x][i]] = "new"
    BY <1>1 DEF UnbornOK
  <1>3. Children[x][i] # Source(a)[k]
    <2> SUFFICES ASSUME Children[x][i] = Source(a)[k] PROVE FALSE
      OBVIOUS
    <2>0. DOMAIN <<>> = {}
      OBVIOUS
    <2>1. CASE a \in Clients
      BY <2>1, OnceAssumption DEF Source
    <2>2. CASE a \notin Clients
      <3>1. a \in Threads /\ job[a] \in Tasks /\ Source(a) = Children[job[a]]
        BY <2>0, <2>2, SourceKinds
      <3>2. job[a] = x
        BY <3>1, OnceAssumption
      <3> QED BY <1>1, <3>1, <3>2 DEF RunOK
    <2> QED BY <2>1, <2>2
  <1> QED BY <1>0, <1>2, <1>3 DEF TypeOK

LEMMA RunStays ==
    ASSUME RunOK, job' = job, Stays,
           \A x \in Tasks : status'[x] = "running" <=> status[x] = "running"
    PROVE  RunOK'
  BY DEF RunOK, Stays

LEMMA PlaceStays ==
    ASSUME PlaceOK, SameLines, LineTyped,
           \A x \in Tasks : status'[x] = "queued" <=> status[x] = "queued"
    PROVE  PlaceOK'
  <1>1. \A t \in Threads : Line(t)' = Line(t)
    BY DEF SameLines
  <1>2. \A t \in Threads : \A p \in DOMAIN Line(t) : Line(t)[p] \in Tasks
    BY Lengths DEF LineTyped
  <1> QED BY <1>1, <1>2 DEF PlaceOK

LEMMA OrderStays == ASSUME OrderOK, SameLines PROVE OrderOK'
  BY DEF OrderOK, SameLines

LEMMA QuietKeeps ==
    ASSUME TypeOK, KindOK, TasksOK, Quiet
    PROVE  TasksOK'
  <1>0. SourceOK /\ UnbornOK /\ RunOK /\ PlaceOK /\ OrderOK /\ LineTyped
    BY LineTypes DEF TasksOK
  <1>1. SourceOK'
    <2> SUFFICES ASSUME NEW b \in Submitters PROVE SourceAt(b)'
      BY DEF SourceOK
    <2>1. Source(b)' = Source(b) /\ todo'[b] = todo[b] /\ SameHand(b) /\ status' = status
      BY DEF Quiet, SameHands, Source
    <2> QED BY <1>0, <2>1, SourceStays
  <1>2. UnbornOK'
    BY <1>0 DEF UnbornOK, Quiet
  <1>3. RunOK' /\ PlaceOK' /\ OrderOK'
    BY <1>0, RunStays, PlaceStays, OrderStays DEF Quiet
  <1> QED BY <1>1, <1>2, <1>3 DEF TasksOK

\* The next task of a leaves todo.
LEMMA Advance ==
    ASSUME TypeOK, NEW a \in Submitters, SourceAt(a), todo[a] # <<>>,
           todo' = [todo EXCEPT ![a] = Tail(@)], Source(a)' = Source(a)
    PROVE  /\ Passed(a)' = Passed(a) + 1 /\ Passed(a) \in Nat
           /\ \A i \in DOMAIN todo'[a] : todo'[a][i] = Source(a)[Passed(a)' + i]
  <1>1. todo[a] \in Seq(Tasks) /\ todo[a] # <<>> /\ todo'[a] = Tail(todo[a])
    BY DEF TypeOK
  <1>2. /\ Len(todo[a]) \in Nat /\ Len(Source(a)) \in Nat /\ Passed(a) \in Int
        /\ Passed(a) = Len(Source(a)) - Len(todo[a])
    BY SourceTypes DEF SourceTyped
  <1>3. Passed(a) \in Nat
    BY <1>2 DEF SourceAt
  <1>4. Passed(a)' = Passed(a) + 1
    <2>1. Len(Tail(todo[a])) = Len(todo[a]) - 1
      BY <1>1
    <2>2. Passed(a)' = Len(Source(a)) - (Len(todo[a]) - 1)
      BY <1>1, <2>1 DEF Passed
    <2>3. \A m, n \in Nat : m - (n - 1) = (m - n) + 1
      OBVIOUS
    <2> QED BY <1>2, <2>2, <2>3
  <1>5. \A i \in DOMAIN Tail(todo[a]) :
           i \in Nat /\ i + 1 \in DOMAIN todo[a] /\ Tail(todo[a])[i] = todo[a][i + 1]
    BY <1>1
  <1>6. \A i \in DOMAIN todo'[a] : todo'[a][i] = Source(a)[Passed(a)' + i]
    <2> TAKE i \in DOMAIN todo'[a]
    <2>1. todo'[a][i] = Source(a)[Passed(a) + (i + 1)]
      BY <1>1, <1>5 DEF SourceAt
    <2>2. i \in Nat /\ Passed(a) + (i + 1) = (Passed(a) + 1) + i
      BY <1>1, <1>3, <1>5
    <2> QED BY <1>4, <2>1, <2>2
  <1> QED BY <1>3, <1>4, <1>6

LEMMA OfferKeeps ==
    ASSUME TypeOK, TypeOK', KindOK, TasksOK, NEW a \in Submitters, Offer(a)
    PROVE  TasksOK'
  <1>0. SourceOK /\ UnbornOK /\ RunOK /\ PlaceOK /\ OrderOK /\ LineTyped
    BY LineTypes DEF TasksOK
  <1>1. SourceOK'
    <2> SUFFICES ASSUME NEW b \in Submitters PROVE SourceAt(b)'
      BY DEF SourceOK
    <2>1. Source(b)' = Source(b) /\ status' = status
      BY DEF Offer, Source
    <2>2. CASE b # a
      <3>1. todo'[b] = todo[b] /\ SameHand(b)
        BY <2>2 DEF Offer, TypeOK
      <3> QED BY <1>0, <2>1, <3>1, SourceStays
    <2>3. CASE b = a
      <3>1. SourceAt(a) /\ ~InHand(a) /\ InHand(a)' /\ task'[a] = Head(todo[a])
        BY <1>0 DEF SourceOK, Offer
      <3>2. /\ Passed(a) + 1 \in DOMAIN Source(a) /\ Head(todo[a]) = Source(a)[Passed(a) + 1]
        BY <1>0, NextPlace DEF Offer
      <3>3. /\ Passed(a)' = Passed(a) + 1 /\ Passed(a) \in Nat
            /\ \A i \in DOMAIN todo'[a] : todo'[a][i] = Source(a)[Passed(a)' + i]
        BY <2>1, <2>3, <3>1, Advance DEF Offer
      <3>6. \A i \in DOMAIN Source(a) :
               status[Source(a)[i]] = "new" <=> i > Passed(a)' \/ i = Passed(a)'
        <4>1. DOMAIN Source(a) \subseteq Nat
          BY SourceTypes DEF SourceTyped
        <4>2. \A i \in DOMAIN Source(a) : status[Source(a)[i]] = "new" <=> i > Passed(a)
          BY <3>1 DEF SourceAt
        <4>3. \A i \in Nat : i > Passed(a) <=> i > Passed(a) + 1 \/ i = Passed(a) + 1
          BY <3>3
        <4> QED BY <3>3, <4>1, <4>2, <4>3
      <3>7. Passed(a)' > 0
        BY <3>3
      <3>8. task'[a] = Source(a)[Passed(a)']
        BY <3>1, <3>2, <3>3
      <3>9. Source(a)' = Source(a)
        BY <2>1, <2>3
      <3>10. Passed(a)' >= 0
        BY <3>3
      <3>11. SourceAt(a)'
        BY <2>1, <3>1, <3>3, <3>6, <3>7, <3>8, <3>9, <3>10 DEF SourceAt
      <3> QED BY <2>3, <3>11
    <2> QED BY <2>2, <2>3
  <1>2. UnbornOK'
    BY <1>0 DEF UnbornOK, Offer
  <1>3. RunOK' /\ PlaceOK' /\ OrderOK'
    BY <1>0, RunStays, PlaceStays, OrderStays DEF Offer
  <1> QED BY <1>1, <1>2, <1>3 DEF TasksOK

\* The next task of a, or the one in hand, has left its program for good.
LEMMA RefuseSource ==
    ASSUME TypeOK, TypeOK', TasksOK, NEW a \in Submitters, Refuse(a)
    PROVE  SourceOK'
  <1>0. SourceOK /\ RunOK
    BY DEF TasksOK
  <1> DEFINE k == Passed(a) + 1
  <1>1. /\ k \in DOMAIN Source(a) /\ Head(todo[a]) = Source(a)[k] /\ Head(todo[a]) \in Tasks
    BY <1>0, NextPlace DEF Refuse
  <1>2. /\ status' = [status EXCEPT ![Source(a)[k]] = "refused"] /\ "refused" \in Lives /\ job' = job
    BY <1>1 DEF Refuse, Lives
  <1> SUFFICES ASSUME NEW b \in Submitters PROVE SourceAt(b)'
    BY DEF SourceOK
  <1>3. CASE b # a
    <2>1. todo'[b] = todo[b] /\ SameHand(b)
      BY <1>3 DEF Refuse, SameHands, TypeOK
    <2> QED BY <1>0, <1>1, <1>2, <1>3, <2>1, OthersStay
  <1>4. CASE b = a
    <2>0. Source(a)' = Source(a)
      BY DEF Refuse, Source
    <2>1. SourceAt(a) /\ ~InHand(a) /\ ~InHand(a)'
      BY <1>0 DEF SourceOK, Refuse, SameHands, SameHand
    <2>3. /\ Passed(a)' = Passed(a) + 1 /\ Passed(a) \in Nat
          /\ \A i \in DOMAIN todo'[a] : todo'[a][i] = Source(a)[Passed(a)' + i]
      BY <2>0, <2>1, Advance DEF Refuse
    <2>6. \A i \in DOMAIN Source(a) : status'[Source(a)[i]] = "new" <=> i > Passed(a)'
      <3> TAKE i \in DOMAIN Source(a)
      <3>1. i \in Nat /\ Source(a)[i] \in Tasks
        BY SourceTypes, Lengths DEF SourceTyped
      <3>2. CASE i = k
        <4>1. status'[Source(a)[i]] = "refused"
          BY <1>1, <1>2, <3>1, <3>2 DEF TypeOK
        <4> QED BY <2>3, <3>2, <4>1
      <3>3. CASE i # k
        <4>1. Source(a)[i] # Source(a)[k]
          BY <1>0, <1>1, <3>3, SourceApart
        <4>2. status'[Source(a)[i]] = status[Source(a)[i]]
          BY <1>1, <1>2, <3>1, <4>1 DEF TypeOK
        <4>3. status[Source(a)[i]] = "new" <=> i > Passed(a)
          BY <2>1 DEF SourceAt
        <4>4. i > Passed(a) <=> i > Passed(a) + 1
          BY <2>3, <3>1, <3>3
        <4> QED BY <2>3, <4>2, <4>3, <4>4
      <3> QED BY <3>2, <3>3
    <2>7. Passed(a)' >= 0
      BY <2>3
    <2>8. SourceAt(a)'
      BY <2>0, <2>1, <2>3, <2>6, <2>7 DEF SourceAt
    <2> QED BY <1>4, <2>8
  <1> QED BY <1>3, <1>4

LEMMA DropSource ==
    ASSUME TypeOK, TasksOK, NEW a \in Submitters, NEW life \in {"refused", "queued"}, Drop(a, life)
    PROVE  SourceOK'
  <1>0. SourceOK /\ RunOK
    BY DEF TasksOK
  <1> DEFINE k == Passed(a)
  <1>1. k \in DOMAIN Source(a) /\ task[a] = Source(a)[k] /\ task[a] \in Tasks
    BY <1>0, HandPlace DEF Drop
  <1>2. /\ status' = [status EXCEPT ![Source(a)[k]] = life] /\ life \in Lives /\ life # "new"
        /\ job' = job /\ todo' = todo
    BY <1>1 DEF Drop, Lives
  <1> SUFFICES ASSUME NEW b \in Submitters PROVE SourceAt(b)'
    BY DEF SourceOK
  <1>3. CASE b # a
    <2>1. todo'[b] = todo[b] /\ SameHand(b)
      BY <1>2, <1>3 DEF Drop
    <2> QED BY <1>0, <1>1, <1>2, <1>3, <2>1, OthersStay
  <1>4. CASE b = a
    <2>0. Source(a)' = Source(a) /\ Passed(a)' = Passed(a)
      BY <1>2 DEF Source, Passed
    <2>1. SourceAt(a) /\ InHand(a) /\ ~InHand(a)'
      BY <1>0 DEF SourceOK, Drop
    <2>6. \A i \in DOMAIN Source(a) : status'[Source(a)[i]] = "new" <=> i > Passed(a)
      <3> TAKE i \in DOMAIN Source(a)
      <3>1. i \in Nat /\ Source(a)[i] \in Tasks
        BY SourceTypes, Lengths DEF SourceTyped
      <3>2. CASE i = k
        <4>1. status'[Source(a)[i]] # "new"
          BY <1>1, <1>2, <3>1, <3>2 DEF TypeOK
        <4> QED BY <3>1, <3>2, <4>1
      <3>3. CASE i # k
        <4>1. Source(a)[i] # Source(a)[k]
          BY <1>0, <1>1, <3>3, SourceApart
        <4>2. status'[Source(a)[i]] = status[Source(a)[i]]
          BY <1>1, <1>2, <3>1, <4>1 DEF TypeOK
        <4>3. status[Source(a)[i]] = "new" <=> i > Passed(a)
          BY <2>1, <3>3 DEF SourceAt
        <4> QED BY <4>2, <4>3
      <3> QED BY <3>2, <3>3
    <2>8. SourceAt(a)'
      BY <1>2, <2>0, <2>1, <2>6 DEF SourceAt
    <2> QED BY <1>4, <2>8
  <1> QED BY <1>3, <1>4

LEMMA RefuseKeeps ==
    ASSUME TypeOK, TypeOK', KindOK, TasksOK, NEW a \in Submitters, Refuse(a)
    PROVE  TasksOK'
  <1>0. SourceOK /\ UnbornOK /\ RunOK /\ PlaceOK /\ OrderOK /\ LineTyped
    BY LineTypes DEF TasksOK
  <1> DEFINE k == Passed(a) + 1
  <1>1. /\ k \in DOMAIN Source(a) /\ Head(todo[a]) = Source(a)[k] /\ Head(todo[a]) \in Tasks
        /\ status[Head(todo[a])] = "new"
    BY <1>0, NextPlace DEF Refuse
  <1>2. status' = [status EXCEPT ![Head(todo[a])] = "refused"] /\ "refused" \in Lives
    BY DEF Refuse, Lives
  <1>3. UnbornOK'
    <2>1. status' = [status EXCEPT ![Source(a)[k]] = "refused"] /\ status[Source(a)[k]] = "new"
      BY <1>1, <1>2
    <2> HIDE DEF k
    <2> QED BY <1>0, <1>1, <1>2, <2>1, UnbornStays
  <1>4. \A x \in Tasks : /\ status'[x] = "running" <=> status[x] = "running"
                         /\ status'[x] = "queued" <=> status[x] = "queued"
    BY <1>1, <1>2 DEF TypeOK
  <1>5. RunOK' /\ PlaceOK' /\ OrderOK'
    BY <1>0, <1>4, RunStays, PlaceStays, OrderStays DEF Refuse
  <1> QED BY <1>3, <1>5, RefuseSource DEF TasksOK

LEMMA DropUnborn ==
    ASSUME TypeOK, TasksOK, NEW a \in Submitters, NEW life \in {"refused", "queued"}, Drop(a, life)
    PROVE  UnbornOK'
  <1>0. SourceOK /\ UnbornOK /\ RunOK /\ life \in Lives
    BY DEF TasksOK, Lives
  <1>1. /\ Passed(a) \in DOMAIN Source(a) /\ task[a] = Source(a)[Passed(a)]
        /\ status[task[a]] = "new"
    BY <1>0, HandPlace DEF Drop
  <1>2. status' = [status EXCEPT ![Source(a)[Passed(a)]] = life]
    BY <1>1 DEF Drop
  <1> QED BY <1>0, <1>1, <1>2, UnbornStays

LEMMA RejectKeeps ==
    ASSUME TypeOK, TypeOK', KindOK, TasksOK, NEW a \in Submitters, Reject(a)
    PROVE  TasksOK'
  <1>0. SourceOK /\ RunOK /\ PlaceOK /\ OrderOK /\ LineTyped
    BY LineTypes DEF TasksOK
  <1>1. task[a] \in Tasks /\ status[task[a]] = "new"
    BY <1>0, HandPlace DEF Reject, Drop
  <1>2. \A x \in Tasks : /\ status'[x] = "running" <=> status[x] = "running"
                         /\ status'[x] = "queued" <=> status[x] = "queued"
    BY <1>1 DEF TypeOK, Reject, Drop
  <1>3. RunOK' /\ PlaceOK' /\ OrderOK'
    BY <1>0, <1>2, RunStays, PlaceStays, OrderStays DEF Reject, Drop
  <1> QED BY <1>3, DropSource, DropUnborn DEF TasksOK, Reject

\* A task that is put at the end of a queue is in no queue yet, and comes after
\* every other task of its client that is in one.
LEMMA AcceptKeeps ==
    ASSUME TypeOK, TypeOK', KindOK, TasksOK, NEW a \in Submitters, NEW u \in Threads, Accept(a, u)
    PROVE  TasksOK'
  <1>0. SourceOK /\ RunOK /\ PlaceOK /\ OrderOK /\ LineTyped
    BY LineTypes DEF TasksOK
  <1> DEFINE x == task[a]
             n == Len(Line(u)) + 1
  <1>1. /\ x \in Tasks /\ status[x] = "new"
        /\ Passed(a) \in DOMAIN Source(a) /\ x = Source(a)[Passed(a)]
    BY <1>0, HandPlace DEF Accept, Drop
  <1>2. status' = [status EXCEPT ![x] = "queued"] /\ "queued" \in {"refused", "queued"}
    BY DEF Accept, Drop
  <1>3. /\ \A t \in Threads : \A p \in DOMAIN Line(t)' :
              \/ p \in DOMAIN Line(t) /\ Line(t)'[p] = Line(t)[p]
              \/ t = u /\ p = n /\ Line(t)'[p] = x
        /\ \A t \in Threads : \A p \in DOMAIN Line(t) :
              p \in DOMAIN Line(t)' /\ Line(t)'[p] = Line(t)[p]
        /\ n \in DOMAIN Line(u)' /\ Line(u)'[n] = x
        /\ \A p \in DOMAIN Line(u) : p \in Nat /\ p < n
    <2>1. Line(u) \in Seq(Tasks) /\ Line(u)' = Append(Line(u), x)
      BY <1>0 DEF LineTyped, Accept
    <2>2. /\ \A p \in DOMAIN Append(Line(u), x) :
              \/ p \in DOMAIN Line(u) /\ Append(Line(u), x)[p] = Line(u)[p]
              \/ p = n /\ Append(Line(u), x)[p] = x
          /\ \A p \in DOMAIN Line(u) :
              p \in DOMAIN Append(Line(u), x) /\ Append(Line(u), x)[p] = Line(u)[p]
          /\ n \in DOMAIN Append(Line(u), x) /\ Append(Line(u), x)[n] = x
          /\ \A p \in DOMAIN Line(u) : p \in Nat /\ p < n
      BY <1>1, <2>1
    <2>3. \A t \in Threads \ {u} : Line(t)' = Line(t)
      BY DEF Accept
    <2> QED BY <2>1, <2>2, <2>3
  <1>4. \A t \in Threads : \A p \in DOMAIN Line(t) :
           /\ Line(t)[p] \in Tasks /\ status[Line(t)[p]] = "queued" /\ Line(t)[p] # x
    BY <1>0, <1>1, Lengths DEF PlaceOK, LineTyped
  <1> HIDE DEF x, n
  <1>5. PlaceOK'
    <2>1. ASSUME NEW t \in Threads, NEW p \in DOMAIN Line(t)' PROVE status'[Line(t)'[p]] = "queued"
      BY <1>1, <1>2, <1>3, <1>4 DEF TypeOK
    <2>2. ASSUME NEW t \in Threads, NEW v \in Threads, NEW p \in DOMAIN Line(t)', NEW q \in DOMAIN Line(v)',
                 Line(t)'[p] = Line(v)'[q]
          PROVE  t = v /\ p = q
      <3>1. CASE p \in DOMAIN Line(t) /\ Line(t)'[p] = Line(t)[p]
        <4>1. Line(v)'[q] # x
          BY <1>4, <2>2, <3>1
        <4>2. q \in DOMAIN Line(v) /\ Line(v)'[q] = Line(v)[q]
          BY <1>3, <4>1
        <4>3. Line(t)[p] = Line(v)[q]
          BY <2>2, <3>1, <4>2
        <4> QED BY <1>0, <3>1, <4>2, <4>3 DEF PlaceOK
      <3>2. CASE t = u /\ p = n /\ Line(t)'[p] = x
        <4>1. ~(q \in DOMAIN Line(v) /\ Line(v)'[q] = Line(v)[q])
          BY <1>4, <2>2, <3>2
        <4> QED BY <1>3, <3>2, <4>1
      <3> QED BY <1>3, <3>1, <3>2
    <2>3. ASSUME NEW y \in Tasks, status'[y] = "queued"
          PROVE  \E t \in Threads : \E p \in DOMAIN Line(t)' : Line(t)'[p] = y
      <3>1. CASE y = x
        BY <1>3, <3>1
      <3>2. CASE y # x
        <4>1. status[y] = "queued"
          BY <1>1, <1>2, <2>3, <3>2 DEF TypeOK
        <4>2. PICK t \in Threads : \E p \in DOMAIN Line(t) : Line(t)[p] = y
          BY <1>0, <4>1 DEF PlaceOK
        <4> QED BY <1>3, <4>2
      <3> QED BY <3>1, <3>2
    <2> QED BY <2>1, <2>2, <2>3 DEF PlaceOK
  <1>6. OrderOK'
    <2> SUFFICES ASSUME NEW t \in Threads, NEW p \in DOMAIN Line(t)', NEW q \in DOMAIN Line(t)',
                        NEW c \in Clients, NEW i \in DOMAIN Program[c], NEW j \in DOMAIN Program[c],
                        p < q, Line(t)'[p] = Program[c][j], Line(t)'[q] = Program[c][i]
                 PROVE  j <= i
      BY DEF OrderOK
    <2>1. CASE q \in DOMAIN Line(t) /\ Line(t)'[q] = Line(t)[q]
      <3>1. p \in DOMAIN Line(t) /\ Line(t)'[p] = Line(t)[p]
        <4>1. ~(t = u /\ p = n)
          <5>1. t = u => q \in Nat /\ q < n
            BY <1>3, <2>1
          <5>2. n \in Nat
            BY <1>0 DEF LineTyped, n
          <5> QED BY <5>1, <5>2
        <4> QED BY <1>3, <4>1
      <3> QED BY <1>0, <2>1, <3>1 DEF OrderOK
    <2>2. CASE t = u /\ q = n /\ Line(t)'[q] = x
      <3>1. p \in DOMAIN Line(t) /\ Line(t)'[p] = Line(t)[p]
        <4>1. n \in Nat
          BY <1>0 DEF LineTyped, n
        <4>2. p # n
          BY <2>2, <4>1
        <4> QED BY <1>3, <4>2
      <3>2. c \in Submitters /\ Source(c) = Program[c]
        BY Roles DEF Source
      <3>3. a = c /\ i = Passed(a)
        BY <1>0, <1>1, <2>2, <3>2, SourceApart
      <3>4. status[Source(c)[j]] # "new"
        BY <1>4, <3>1, <3>2
      <3>5. ~(j > Passed(c))
        BY <1>0, <3>2, <3>4 DEF SourceOK, SourceAt
      <3>6. j \in Nat /\ Passed(c) \in Int
        BY <3>2, SourceTypes DEF SourceTyped
      <3> QED BY <3>3, <3>5, <3>6
    <2> QED BY <1>3, <2>1, <2>2
  <1>7. RunOK'
    <2>1. \A y \in Tasks : status'[y] = "running" <=> status[y] = "running"
      BY <1>1, <1>2 DEF TypeOK
    <2> QED BY <1>0, <2>1, RunStays DEF Accept, Drop
  <1> QED BY <1>2, <1>5, <1>6, <1>7, DropSource, DropUnborn DEF TasksOK, Accept

\* What is left of a queue that has lost its front.
LEMMA FrontGone ==
    ASSUME LineTyped, NEW u \in Threads, Line(u) # <<>>, Line(u)' = Tail(Line(u)),
           \A v \in Threads \ {u} : Line(v)' = Line(v)
    PROVE  /\ 1 \in DOMAIN Line(u) /\ Line(u)[1] = Head(Line(u)) /\ Head(Line(u)) \in Tasks
           /\ \A v \in Threads \ {u} : Line(v)' = Line(v)
           /\ \A p \in DOMAIN Line(u)' :
                 p \in Nat /\ p + 1 \in DOMAIN Line(u) /\ Line(u)'[p] = Line(u)[p + 1]
           /\ \A p \in DOMAIN Line(u) : p # 1 =>
                 p \in Nat /\ p - 1 \in DOMAIN Line(u)' /\ Line(u)'[p - 1] = Line(u)[p]
  <1>1. Line(u) \in Seq(Tasks) /\ Line(u) # <<>>
    BY DEF LineTyped
  <1>2. 1 \in DOMAIN Line(u) /\ Line(u)[1] = Head(Line(u)) /\ Head(Line(u)) \in Tasks
    BY <1>1
  <1>3. \A p \in DOMAIN Tail(Line(u)) :
           p \in Nat /\ p + 1 \in DOMAIN Line(u) /\ Tail(Line(u))[p] = Line(u)[p + 1]
    BY <1>1
  <1>4. \A p \in DOMAIN Line(u) : p # 1 =>
           p \in Nat /\ p - 1 \in DOMAIN Tail(Line(u)) /\ Tail(Line(u))[p - 1] = Line(u)[p]
    BY <1>1
  <1> QED BY <1>2, <1>3, <1>4

\* A task at the front of a queue that a thread starts.
LEMMA StartKeeps ==
    ASSUME TypeOK, TypeOK', KindOK, TasksOK, NEW t \in Threads, NEW u \in Threads, Start(t, u)
    PROVE  TasksOK'
  <1>0. /\ SourceOK /\ UnbornOK /\ RunOK /\ PlaceOK /\ OrderOK /\ LineTyped
        /\ t \in Submitters /\ t \notin Clients
    BY LineTypes, ThreadsAssumption DEF TasksOK, Submitters
  <1> DEFINE x == Head(Line(u))
  <1>1. /\ 1 \in DOMAIN Line(u) /\ Line(u)[1] = x /\ x \in Tasks
        /\ \A v \in Threads \ {u} : Line(v)' = Line(v)
        /\ \A p \in DOMAIN Line(u)' :
              p \in Nat /\ p + 1 \in DOMAIN Line(u) /\ Line(u)'[p] = Line(u)[p + 1]
        /\ \A p \in DOMAIN Line(u) : p # 1 =>
              p \in Nat /\ p - 1 \in DOMAIN Line(u)' /\ Line(u)'[p - 1] = Line(u)[p]
    BY <1>0, FrontGone DEF Start
  <1>2. /\ status' = [status EXCEPT ![x] = "running"] /\ job' = [job EXCEPT ![t] = x]
        /\ todo' = [todo EXCEPT ![t] = Children[x]]
        /\ ~Inside(t) /\ Inside(t)' /\ ~InHand(t)' /\ SameHands /\ Stays
    BY DEF Start
  <1>3. status[x] = "queued"
    BY <1>0, <1>1 DEF PlaceOK
  <1> HIDE DEF x
  <1>4. /\ status'[x] = "running" /\ \A y \in Tasks \ {x} : status'[y] = status[y]
        /\ job'[t] = x /\ \A v \in Threads \ {t} : job'[v] = job[v]
        /\ todo'[t] = Children[x] /\ \A b \in Submitters \ {t} : todo'[b] = todo[b]
    BY <1>0, <1>1, <1>2 DEF TypeOK
  <1>5. job[t] \notin Tasks
    BY <1>0, <1>2 DEF RunOK
  <1>6. \A i \in DOMAIN Children[x] : /\ Children[x][i] \in Tasks /\ status[Children[x][i]] = "new"
                                      /\ status'[Children[x][i]] = "new"
    <2> TAKE i \in DOMAIN Children[x]
    <2>1. Children[x] \in Seq(Tasks)
      BY <1>1, ThreadsAssumption
    <2>2. Children[x][i] \in Tasks
      BY <2>1, Lengths
    <2>3. status[Children[x][i]] = "new"
      BY <1>0, <1>1, <1>3 DEF UnbornOK
    <2> QED BY <1>3, <1>4, <2>2, <2>3
  <1>7. SourceOK'
    <2> SUFFICES ASSUME NEW b \in Submitters PROVE SourceAt(b)'
      BY DEF SourceOK
    <2>1. CASE b # t
      <3>1. Source(b)' = Source(b)
        BY <1>4, <2>1 DEF Source, Submitters
      <3>2. todo'[b] = todo[b] /\ SameHand(b)
        BY <1>2, <1>4, <2>1 DEF SameHands
      <3>3. \A i \in DOMAIN Source(b) : status'[Source(b)[i]] = "new" <=> status[Source(b)[i]] = "new"
        <4> TAKE i \in DOMAIN Source(b)
        <4>1. Source(b)[i] \in Tasks
          BY SourceTypes, Lengths DEF SourceTyped
        <4> QED BY <1>3, <1>4, <4>1
      <3> QED BY <1>0, <3>1, <3>2, <3>3, SourceStays
    <2>2. CASE b = t
      <3>1. Source(t)' = Children[x] /\ todo'[t] = Children[x]
        BY <1>0, <1>1, <1>4 DEF Source
      <3>2. Children[x] \in Seq(Tasks)
        BY <1>1, ThreadsAssumption
      <3>3. Len(Children[x]) \in Nat /\ DOMAIN Children[x] = 1 .. Len(Children[x])
        BY <3>2, Lengths
      <3>4. Passed(t)' = 0
        <4>1. Passed(t)' = Len(Children[x]) - Len(Children[x])
          BY <3>1 DEF Passed
        <4> QED BY <3>3, <4>1
      <3>5. \A i \in DOMAIN Children[x] : i > 0 /\ Children[x][0 + i] = Children[x][i]
        BY <3>3
      <3>6. SourceAt(t)'
        BY <1>2, <1>6, <3>1, <3>4, <3>5 DEF SourceAt
      <3> QED BY <2>2, <3>6
    <2> QED BY <2>1, <2>2
  <1>8. UnbornOK'
    <2> SUFFICES ASSUME NEW y \in Tasks, status'[y] \in {"new", "queued", "refused"},
                        NEW i \in DOMAIN Children[y]
                 PROVE  status'[Children[y][i]] = "new"
      BY DEF UnbornOK
    <2>1. status[y] = status'[y]
      BY <1>4
    <2>2. status[Children[y][i]] = "new"
      BY <1>0, <2>1 DEF UnbornOK
    <2>3. Children[y][i] \in Tasks
      BY ThreadsAssumption, Lengths
    <2> QED BY <1>3, <1>4, <2>2, <2>3
  <1>9. RunOK'
    <2>1. \A v \in Threads \ {t} : job[v] \in Tasks => job[v] # x /\ status'[job[v]] = "running" /\ Inside(v)'
      BY <1>0, <1>2, <1>3, <1>4 DEF RunOK, Stays
    <2>2. ASSUME NEW y \in Tasks, status'[y] = "running" PROVE \E v \in Threads : job'[v] = y
      <3>1. CASE y = x
        BY <1>4, <3>1
      <3>2. CASE y # x
        <4>1. PICK v \in Threads : job[v] = y
          BY <1>0, <1>4, <2>2, <3>2 DEF RunOK
        <4>2. v # t
          BY <1>5, <4>1
        <4> QED BY <1>4, <4>1, <4>2
      <3> QED BY <3>1, <3>2
    <2> QED BY <1>0, <1>1, <1>2, <1>4, <2>1, <2>2 DEF RunOK
  <1>10. PlaceOK'
    <2>1. \A v \in Threads : \A p \in DOMAIN Line(v)' :
             \E q \in DOMAIN Line(v) : /\ Line(v)'[p] = Line(v)[q] /\ p \in Nat
                                       /\ q = (IF v = u THEN p + 1 ELSE p)
      <3>1. \A v \in Threads : \A p \in DOMAIN Line(v) : p \in Nat
        BY <1>0 DEF LineTyped
      <3> QED BY <1>1, <3>1
    <2>2. \A v \in Threads : \A q \in DOMAIN Line(v) :
             /\ Line(v)[q] \in Tasks /\ status[Line(v)[q]] = "queued"
             /\ Line(v)[q] = x => v = u /\ q = 1
      BY <1>0, <1>1, Lengths DEF LineTyped, PlaceOK
    <2>3. ASSUME NEW v \in Threads, NEW p \in DOMAIN Line(v)' PROVE status'[Line(v)'[p]] = "queued"
      <3>1. PICK q \in DOMAIN Line(v) : /\ Line(v)'[p] = Line(v)[q] /\ p \in Nat
                                        /\ q = (IF v = u THEN p + 1 ELSE p)
        BY <2>1
      <3>2. ~(v = u /\ q = 1)
        <4>1. v = u => p \in DOMAIN Line(u)' /\ 0 \notin DOMAIN Line(u)'
          <5>1. Line(u)' = Tail(Line(u)) /\ Line(u) \in Seq(Tasks) /\ Line(u) # <<>>
            BY <1>0 DEF Start, LineTyped
          <5>2. 0 \notin DOMAIN Tail(Line(u))
            BY <5>1
          <5> QED BY <5>1, <5>2
        <4> QED BY <3>1, <4>1
      <3> QED BY <1>4, <2>2, <3>1, <3>2
    <2>4. ASSUME NEW v \in Threads, NEW w \in Threads, NEW p \in DOMAIN Line(v)', NEW q \in DOMAIN Line(w)',
                 Line(v)'[p] = Line(w)'[q]
          PROVE  v = w /\ p = q
      <3>1. PICK p1 \in DOMAIN Line(v) : /\ Line(v)'[p] = Line(v)[p1] /\ p \in Nat
                                         /\ p1 = (IF v = u THEN p + 1 ELSE p)
        BY <2>1
      <3>2. PICK q1 \in DOMAIN Line(w) : /\ Line(w)'[q] = Line(w)[q1] /\ q \in Nat
                                         /\ q1 = (IF w = u THEN q + 1 ELSE q)
        BY <2>1
      <3>a. Line(v)[p1] = Line(w)[q1]
        BY <2>4, <3>1, <3>2
      <3>3. v = w /\ p1 = q1
        BY <1>0, <3>a DEF PlaceOK
      <3> QED BY <3>1, <3>2, <3>3
    <2>5. ASSUME NEW y \in Tasks, status'[y] = "queued"
          PROVE  \E v \in Threads : \E p \in DOMAIN Line(v)' : Line(v)'[p] = y
      <3>1. y # x /\ status[y] = "queued"
        BY <1>4, <2>5
      <3>a. PICK v \in Threads : \E p \in DOMAIN Line(v) : Line(v)[p] = y
        BY <1>0, <3>1 DEF PlaceOK
      <3>2. PICK p \in DOMAIN Line(v) : Line(v)[p] = y
        BY <3>a
      <3>3. CASE v # u
        BY <1>1, <3>2, <3>3
      <3>4. CASE v = u
        <4>1. p # 1
          BY <1>1, <3>1, <3>2, <3>4
        <4> QED BY <1>1, <3>2, <3>4, <4>1
      <3> QED BY <3>3, <3>4
    <2> QED BY <2>3, <2>4, <2>5 DEF PlaceOK
  <1>11. OrderOK'
    <2> SUFFICES ASSUME NEW v \in Threads, NEW p \in DOMAIN Line(v)', NEW q \in DOMAIN Line(v)',
                        NEW c \in Clients, NEW i \in DOMAIN Program[c], NEW j \in DOMAIN Program[c],
                        p < q, Line(v)'[p] = Program[c][j], Line(v)'[q] = Program[c][i]
                 PROVE  j <= i
      BY DEF OrderOK
    <2>1. CASE v # u
      BY <1>0, <1>1, <2>1 DEF OrderOK
    <2>2. CASE v = u
      <3>1. /\ p + 1 \in DOMAIN Line(u) /\ Line(u)[p + 1] = Program[c][j]
            /\ q + 1 \in DOMAIN Line(u) /\ Line(u)[q + 1] = Program[c][i] /\ p + 1 < q + 1
        BY <1>1, <2>2
      <3> QED BY <1>0, <3>1 DEF OrderOK
    <2> QED BY <2>1, <2>2
  <1> QED BY <1>7, <1>8, <1>9, <1>10, <1>11 DEF TasksOK

LEMMA FinishKeeps ==
    ASSUME TypeOK, TypeOK', KindOK, TasksOK, NEW t \in Threads, Finish(t)
    PROVE  TasksOK'
  <1>0. /\ SourceOK /\ UnbornOK /\ RunOK /\ PlaceOK /\ OrderOK /\ LineTyped
        /\ t \in Submitters /\ t \notin Clients
    BY LineTypes, ThreadsAssumption DEF TasksOK, Submitters
  <1> DEFINE x == job[t]
  <1>1. x \in Tasks /\ status[x] = "running"
    BY <1>0 DEF Finish, RunOK
  <1>2. /\ status' = [status EXCEPT ![x] = "done"] /\ job' = [job EXCEPT ![t] = NoTask]
        /\ todo' = todo /\ todo[t] = <<>> /\ ~InHand(t) /\ SameHands /\ SameLines
        /\ \A v \in Threads \ {t} : Inside(v) => Inside(v)'
    BY DEF Finish
  <1> HIDE DEF x
  <1>3. /\ status'[x] = "done" /\ \A y \in Tasks \ {x} : status'[y] = status[y]
        /\ job'[t] = NoTask /\ NoTask \notin Tasks /\ \A v \in Threads \ {t} : job'[v] = job[v]
    BY <1>1, <1>2, TaskAssumption DEF TypeOK
  <1>4. SourceOK'
    <2> SUFFICES ASSUME NEW b \in Submitters PROVE SourceAt(b)'
      BY DEF SourceOK
    <2>1. CASE b # t
      <3>1. Source(b)' = Source(b)
        BY <1>3, <2>1 DEF Source, Submitters
      <3>2. todo'[b] = todo[b] /\ SameHand(b)
        BY <1>2 DEF SameHands
      <3>3. \A i \in DOMAIN Source(b) : status'[Source(b)[i]] = "new" <=> status[Source(b)[i]] = "new"
        <4> TAKE i \in DOMAIN Source(b)
        <4>1. Source(b)[i] \in Tasks
          BY SourceTypes, Lengths DEF SourceTyped
        <4> QED BY <1>1, <1>3, <4>1
      <3> QED BY <1>0, <3>1, <3>2, <3>3, SourceStays
    <2>2. CASE b = t
      <3>1. Source(t)' = <<>> /\ todo'[t] = <<>> /\ ~InHand(t)'
        BY <1>0, <1>2, <1>3 DEF Source, SameHands, SameHand
      <3>2. Len(<<>>) = 0 /\ DOMAIN <<>> = {}
        OBVIOUS
      <3>3. Passed(t)' = 0
        BY <3>1, <3>2 DEF Passed
      <3>4. SourceAt(t)'
        BY <3>1, <3>2, <3>3 DEF SourceAt
      <3> QED BY <2>2, <3>4
    <2> QED BY <2>1, <2>2
  <1>5. UnbornOK'
    <2> SUFFICES ASSUME NEW y \in Tasks, status'[y] \in {"new", "queued", "refused"},
                        NEW i \in DOMAIN Children[y]
                 PROVE  status'[Children[y][i]] = "new"
      BY DEF UnbornOK
    <2>1. status[y] = status'[y]
      BY <1>3
    <2>2. status[Children[y][i]] = "new"
      BY <1>0, <2>1 DEF UnbornOK
    <2>3. Children[y][i] \in Tasks
      BY ThreadsAssumption, Lengths
    <2> QED BY <1>1, <1>3, <2>2, <2>3
  <1>6. RunOK'
    <2>1. \A v \in Threads \ {t} : job[v] # x
      BY <1>0, <1>1 DEF RunOK, x
    <2>2. ASSUME NEW y \in Tasks, status'[y] = "running" PROVE \E v \in Threads : job'[v] = y
      <3>1. y # x /\ status[y] = "running"
        BY <1>3, <2>2
      <3>2. PICK v \in Threads : job[v] = y
        BY <1>0, <3>1 DEF RunOK
      <3>3. v # t
        BY <3>1, <3>2 DEF x
      <3> QED BY <1>3, <3>2, <3>3
    <2> QED BY <1>0, <1>2, <1>3, <2>1, <2>2 DEF RunOK
  <1>7. PlaceOK' /\ OrderOK'
    <2>1. \A y \in Tasks : status'[y] = "queued" <=> status[y] = "queued"
      BY <1>1, <1>3
    <2> QED BY <1>0, <1>2, <2>1, PlaceStays, OrderStays
  <1> QED BY <1>4, <1>5, <1>6, <1>7 DEF TasksOK

LEMMA EffectKeeps ==
    ASSUME TypeOK, TypeOK', KindOK, TasksOK, Effect
    PROVE  TasksOK'
  BY QuietKeeps, OfferKeeps, RefuseKeeps, RejectKeeps, AcceptKeeps, StartKeeps, FinishKeeps DEF Effect

\* Which lives a step can change, and how.
LEMMA Lifes ==
    ASSUME TypeOK, KindOK, TasksOK, Effect
    PROVE  \/ status' = status
           \/ \E x \in Tasks : /\ status[x] = "new"
                               /\ \/ status' = [status EXCEPT ![x] = "refused"]
                                  \/ status' = [status EXCEPT ![x] = "queued"]
           \/ \E x \in Tasks : status[x] = "running" /\ status' = [status EXCEPT ![x] = "done"]
           \/ \E u \in Threads : /\ Line(u) # <<>> /\ Head(Line(u)) \in Tasks
                                 /\ status[Head(Line(u))] = "queued"
                                 /\ status' = [status EXCEPT ![Head(Line(u))] = "running"]
  <1>0. SourceOK /\ RunOK /\ PlaceOK /\ LineTyped
    BY LineTypes DEF TasksOK
  <1>1. CASE Quiet
    BY <1>1 DEF Quiet
  <1>2. ASSUME NEW a \in Submitters, Offer(a) PROVE status' = status
    BY <1>2 DEF Offer
  <1>3. ASSUME NEW a \in Submitters, Refuse(a)
        PROVE  /\ Head(todo[a]) \in Tasks /\ status[Head(todo[a])] = "new"
               /\ status' = [status EXCEPT ![Head(todo[a])] = "refused"]
    BY <1>0, <1>3, NextPlace DEF Refuse
  <1>4. ASSUME NEW a \in Submitters, NEW life, Drop(a, life)
        PROVE  /\ task[a] \in Tasks /\ status[task[a]] = "new"
               /\ status' = [status EXCEPT ![task[a]] = life]
    BY <1>0, <1>4, HandPlace DEF Drop
  <1>5. ASSUME NEW t \in Threads, Finish(t)
        PROVE  /\ job[t] \in Tasks /\ status[job[t]] = "running"
               /\ status' = [status EXCEPT ![job[t]] = "done"]
    BY <1>0, <1>5 DEF Finish, RunOK
  <1>6. ASSUME NEW t \in Threads, NEW u \in Threads, Start(t, u)
        PROVE  /\ Line(u) # <<>> /\ Head(Line(u)) \in Tasks /\ status[Head(Line(u))] = "queued"
               /\ status' = [status EXCEPT ![Head(Line(u))] = "running"]
    <2>1. Line(u) # <<>> /\ status' = [status EXCEPT ![Head(Line(u))] = "running"]
      BY <1>6 DEF Start
    <2>2. 1 \in DOMAIN Line(u) /\ Line(u)[1] = Head(Line(u)) /\ Head(Line(u)) \in Tasks
      BY <1>0, <1>6, FrontGone DEF Start
    <2>3. status[Head(Line(u))] = "queued"
      BY <1>0, <2>2 DEF PlaceOK
    <2> QED BY <2>1, <2>2, <2>3
  <1> QED BY <1>1, <1>2, <1>3, <1>4, <1>5, <1>6 DEF Effect, Reject, Accept

LEMMA DueStays ==
    ASSUME TypeOK, KindOK, TasksOK, Effect, DueOK, due' = due \/ due' = Waiting
    PROVE  DueOK'
  <1>1. \A x \in Tasks : status[x] \notin {"new", "refused"} => status'[x] \notin {"new", "refused"}
    BY Lifes DEF TypeOK
  <1>2. \A x \in due' : x \in Tasks /\ status[x] \notin {"new", "refused"}
    <2>1. \A x \in Waiting : x \in Tasks /\ status[x] = "queued"
      BY DEF Waiting
    <2>2. \A x \in due : x \in Tasks /\ status[x] \notin {"new", "refused"}
      BY DEF TypeOK, DueOK
    <2> QED BY <2>1, <2>2
  <1> QED BY <1>1, <1>2 DEF DueOK

\* The front of the only queue of a lone thread comes before everything of its
\* client that waits.
LEMMA FifoStays ==
    ASSUME TypeOK, KindOK, TasksOK, Effect, FifoOrder, class' = class
    PROVE  FifoOrder'
  <1>0. SourceOK /\ PlaceOK /\ OrderOK /\ LineTyped
    BY LineTypes DEF TasksOK
  <1> SUFFICES ASSUME class.kind = "single", NEW c \in Clients,
                      NEW i \in DOMAIN Program[c], NEW j \in DOMAIN Program[c],
                      i < j, Started(Program[c][j])'
               PROVE  Started(Program[c][i])'
    BY DEF FifoOrder, Started
  <1>1. /\ Program[c] \in Seq(Tasks) /\ Program[c][i] \in Tasks /\ Program[c][j] \in Tasks
        /\ c \in Submitters /\ Source(c) = Program[c] /\ i \in Nat /\ j \in Nat
    <2>1. Program[c] \in Seq(Tasks)
      BY ThreadsAssumption
    <2>2. i \in Nat /\ j \in Nat
      BY <2>1, Lengths
    <2> QED BY <2>1, <2>2, Lengths, Roles DEF Source
  <1>2. \A x \in Tasks : Started(x) => Started(x)'
    BY Lifes DEF TypeOK, Started
  <1>3. CASE Started(Program[c][j])
    BY <1>1, <1>2, <1>3 DEF FifoOrder
  <1>4. CASE ~Started(Program[c][j])
    <2>1. PICK u \in Threads : /\ Line(u) # <<>> /\ Head(Line(u)) = Program[c][j]
                               /\ status[Program[c][j]] = "queued"
                               /\ status' = [status EXCEPT ![Program[c][j]] = "running"]
      BY <1>1, <1>4, Lifes DEF TypeOK, Started
    <2>2. status[Program[c][i]] # "new"
      <3>1. Passed(c) \in Int
        BY <1>1, SourceTypes DEF SourceTyped
      <3>2. ~(j > Passed(c))
        BY <1>0, <1>1, <2>1 DEF SourceOK, SourceAt
      <3>3. i < Passed(c)
        BY <1>1, <3>1, <3>2
      <3>4. ~(i > Passed(c)) /\ i # Passed(c)
        BY <1>1, <3>1, <3>3
      <3> QED BY <1>0, <1>1, <3>4 DEF SourceOK, SourceAt
    <2>3. status[Program[c][i]] # "queued"
      <3> SUFFICES ASSUME status[Program[c][i]] = "queued" PROVE FALSE
        OBVIOUS
      <3>1. PICK v \in Threads : \E q \in DOMAIN Line(v) : Line(v)[q] = Program[c][i]
        BY <1>0, <1>1 DEF PlaceOK
      <3>2. PICK q \in DOMAIN Line(v) : Line(v)[q] = Program[c][i]
        BY <3>1
      <3>3. v = 0 /\ u = 0
        <4>1. \A w \in Threads : w # 0 => Line(w) = <<>>
          BY DEF KindOK, Line
        <4>2. DOMAIN <<>> = {}
          OBVIOUS
        <4> QED BY <2>1, <4>1, <4>2
      <3>4. /\ 1 \in DOMAIN Line(u) /\ Line(u)[1] = Program[c][j] /\ q \in Nat /\ q >= 1
        <4>1. Line(u) \in Seq(Tasks)
          BY <1>0 DEF LineTyped
        <4>2. 1 \in DOMAIN Line(u) /\ Line(u)[1] = Head(Line(u))
          BY <2>1, <4>1
        <4>3. DOMAIN Line(v) = 1 .. Len(Line(v))
          BY <1>0 DEF LineTyped
        <4> QED BY <2>1, <4>2, <4>3
      <3>5. CASE q = 1
        <4>1. Program[c][i] = Program[c][j]
          BY <3>2, <3>3, <3>4, <3>5
        <4>2. i = j
          BY <4>1, OnceAssumption
        <4> QED BY <1>1, <4>2
      <3>6. CASE q # 1
        <4>1. 1 < q
          BY <3>4, <3>6
        <4>2. j <= i
          BY <1>0, <3>2, <3>3, <3>4, <4>1 DEF OrderOK
        <4> QED BY <1>1, <4>2
      <3> QED BY <3>5, <3>6
    <2>4. status[Program[c][i]] # "refused"
      BY <1>1 DEF KindOK
    <2>5. Started(Program[c][i])
      BY <1>1, <2>2, <2>3, <2>4 DEF TypeOK, Started
    <2> QED BY <1>1, <1>2, <2>5
  <1> QED BY <1>3, <1>4

-----------------------------------------------------------------------------
(***************************************************************************)
(* The steps, one by one                                                   *)
(***************************************************************************)
HandLabels == {"index", "push", "poolpush"}
BodyLabels == {"call", "index", "push", "publish", "store", "notify", "poolpush", "poolnotify"}
BusyLabels == BodyLabels \cup {"poollook", "poolsleepy", "poolparked"}

\* A step that moves no task.
LEMMA QuietSound ==
    ASSUME IInv, KindOK, DrainOK,
           UNCHANGED <<class, queue, m_tasks, status, todo, job>>,
           due' = due \/ due' = Waiting, m_stop => m_stop', class.kind = "single" => size' = size,
           \A a \in Submitters :
              /\ Fits(pc'[a]) /\ (class.kind = "single" => target'[a] = 0)
              /\ pc'[a] \in HandLabels <=> pc[a] \in HandLabels
              /\ pc[a] \in HandLabels => task'[a] = task[a],
           \A t \in Threads :
              /\ pc[t] \in BodyLabels => pc'[t] \in BodyLabels
              /\ pc[t] \in BusyLabels => pc'[t] \in BusyLabels
              /\ pc[t] = "pop" => pc'[t] = "pop" \/ ~class.lockFree \/ class.kind # "shared" \/ queue[t] = <<>>
    PROVE  Sound
  <1>1. KindOK'
    BY DEF KindOK, Fits
  <1>2. DrainOK'
    BY DEF DrainOK, Busy, Inside, BusyLabels, BodyLabels
  <1>3. Quiet
    <2>1. SameHands
      BY DEF SameHands, SameHand, InHand, HandLabels
    <2>2. SameLines
      BY DEF SameLines, Line
    <2>3. Stays
      BY DEF Stays, Inside, BodyLabels
    <2> QED BY <2>1, <2>2, <2>3 DEF Quiet
  <1> QED BY <1>1, <1>2, <1>3 DEF Sound, Effect

\* A step of one actor that moves no task.
LEMMA MoveSound ==
    ASSUME IInv, KindOK, DrainOK,
           UNCHANGED <<class, queue, m_tasks, status, todo, job>>,
           due' = due \/ due' = Waiting, m_stop => m_stop', class.kind = "single" => size' = size,
           NEW a \in Actors, NEW l, pc' = [pc EXCEPT ![a] = l],
           \A b \in Submitters \ {a} : target'[b] = target[b] /\ task'[b] = task[b],
           a \in Submitters =>
              /\ Fits(l) /\ (class.kind = "single" => target'[a] = 0)
              /\ l \in HandLabels <=> pc[a] \in HandLabels
              /\ pc[a] \in HandLabels => task'[a] = task[a],
           a \in Threads =>
              /\ pc[a] \in BodyLabels => l \in BodyLabels
              /\ pc[a] \in BusyLabels => l \in BusyLabels
              /\ pc[a] = "pop" => l = "pop" \/ ~class.lockFree \/ class.kind # "shared" \/ queue[a] = <<>>
    PROVE  Sound
  <1>1. /\ pc'[a] = l /\ \A b \in Actors \ {a} : pc'[b] = pc[b]
    BY DEF IInv, TypeOK
  <1>2. \A b \in Submitters :
           /\ Fits(pc'[b]) /\ (class.kind = "single" => target'[b] = 0)
           /\ pc'[b] \in HandLabels <=> pc[b] \in HandLabels
           /\ pc[b] \in HandLabels => task'[b] = task[b]
    <2> TAKE b \in Submitters
    <2>1. CASE b = a
      BY <1>1, <2>1
    <2>2. CASE b # a
      BY <1>1, <2>2, Roles DEF KindOK
    <2> QED BY <2>1, <2>2
  <1>3. \A t \in Threads :
           /\ pc[t] \in BodyLabels => pc'[t] \in BodyLabels
           /\ pc[t] \in BusyLabels => pc'[t] \in BusyLabels
           /\ pc[t] = "pop" => pc'[t] = "pop" \/ ~class.lockFree \/ class.kind # "shared" \/ queue[t] = <<>>
    <2> TAKE t \in Threads
    <2>1. CASE t = a
      BY <1>1, <2>1
    <2>2. CASE t # a
      BY <1>1, <2>2, Roles
    <2> QED BY <2>1, <2>2
  <1> QED BY <1>2, <1>3, QuietSound

LEMMA CallSound == ASSUME IInv, KindOK, DrainOK, NEW a \in Submitters, Call(a) PROVE Sound
  <1>0. TypeOK /\ class.kind \in {"single", "shared", "local"} /\ a \in Actors
    BY Roles, Kinds DEF IInv, TypeOK
  <1>1. /\ pc[a] = "call" /\ todo[a] # <<>> /\ todo' = [todo EXCEPT ![a] = Tail(@)]
        /\ UNCHANGED <<class, queue, m_tasks, m_stop, size, job, target, due>>
    BY DEF Call, own, pool, stop
  <1>2. CASE class.kind = "local" /\ m_stop
    <2>1. UNCHANGED <<pc, task>> /\ status' = [status EXCEPT ![Head(todo[a])] = "refused"]
      BY <1>2 DEF Call, Become
    <2>2. Refuse(a)
      BY <1>1, <2>1 DEF Refuse, InHand, SameLines, Line, Stays, Inside, SameHands, SameHand
    <2>3. KindOK'
      BY <1>1, <1>2, <2>1 DEF KindOK, Fits
    <2>4. DrainOK'
      BY <1>1, <1>2 DEF DrainOK
    <2> QED BY <1>1, <2>2, <2>3, <2>4 DEF Sound, Effect
  <1>3. CASE ~(class.kind = "local" /\ m_stop)
    <2>1. PICK l \in HandLabels : Fits(l) /\ pc' = [pc EXCEPT ![a] = l]
      BY <1>0, <1>3 DEF Call, Goto, HandLabels, Fits
    <2>2. task' = [task EXCEPT ![a] = Head(todo[a])] /\ status' = status
      BY <1>3 DEF Call
    <2>3. /\ pc'[a] = l /\ task'[a] = Head(todo[a])
          /\ \A b \in Actors \ {a} : pc'[b] = pc[b]
          /\ \A b \in Submitters \ {a} : task'[b] = task[b]
      BY <1>0, <2>1, <2>2 DEF TypeOK
    <2>4. Offer(a)
      <3>1. \A b \in Submitters \ {a} : SameHand(b)
        BY <2>3, Roles DEF SameHand, InHand
      <3>2. Stays
        BY <1>0, <2>3, Roles DEF Stays, Inside, HandLabels
      <3>3. InHand(a)' /\ ~InHand(a)
        BY <1>1, <2>3 DEF InHand, HandLabels
      <3>4. SameLines
        BY <1>1 DEF SameLines, Line
      <3> QED BY <1>1, <2>2, <2>3, <3>1, <3>2, <3>3, <3>4 DEF Offer
    <2>5. KindOK'
      <3>1. \A b \in Submitters : Fits(pc'[b])
        BY <2>1, <2>3, Roles DEF KindOK
      <3> QED BY <1>1, <2>2, <3>1 DEF KindOK, Fits
    <2>6. DrainOK'
      <3>1. \A t \in Threads : /\ pc[t] \in BusyLabels => pc'[t] \in BusyLabels
                               /\ pc[t] = "pop" => pc'[t] = "pop"
        BY <1>1, <2>3, Roles DEF BusyLabels, BodyLabels, HandLabels
      <3> QED BY <1>1, <3>1 DEF DrainOK, Busy, Inside, BusyLabels, BodyLabels
    <2> QED BY <1>1, <2>4, <2>5, <2>6 DEF Sound, Effect
  <1> QED BY <1>2, <1>3

LEMMA PickThreadSound == ASSUME IInv, KindOK, DrainOK, NEW a \in Submitters, PickThread(a) PROVE Sound
  <1>0. TypeOK /\ class.kind \in {"single", "shared", "local"} /\ a \in Actors
    BY Roles, Kinds DEF IInv, TypeOK
  <1>1. /\ pc[a] = "index" /\ pc' = [pc EXCEPT ![a] = "push"]
        /\ UNCHANGED <<class, queue, m_tasks, m_stop, size, todo, job, task, status, due>>
        /\ target' = [target EXCEPT ![a] = m_next % size]
    BY DEF PickThread, Goto, own, stop
  <1>2. class.kind = "local"
    BY <1>0, <1>1 DEF KindOK, Fits
  <1>3. \A b \in Submitters \ {a} : target'[b] = target[b] /\ task'[b] = task[b]
    BY <1>0, <1>1, Roles DEF TypeOK
  <1>4. Fits("push")
    BY <1>2 DEF Fits
  <1> QED BY <1>0, <1>1, <1>2, <1>3, <1>4, MoveSound DEF HandLabels, BodyLabels, BusyLabels

LEMMA PushSound == ASSUME IInv, KindOK, DrainOK, NEW a \in Submitters, Push(a) PROVE Sound
  <1>0. TypeOK /\ StageOK /\ class.kind \in {"single", "shared", "local"} /\ a \in Actors
    BY Roles, Kinds DEF IInv, TypeOK
  <1>a. target[a] \in Threads
    BY <1>0 DEF TypeOK
  <1>b. PICK u \in Threads : u = target[a]
    BY <1>a
  <1>1. PICK l \in {"publish", "notify"} :
           /\ pc[a] = "push" /\ pc' = [pc EXCEPT ![a] = l]
           /\ queue' = [queue EXCEPT ![u] = Append(@, task[a])]
           /\ status' = [status EXCEPT ![task[a]] = "queued"]
           /\ UNCHANGED <<class, m_tasks, m_stop, size, todo, job, task, target, due>>
    BY <1>b DEF Push, Goto, Become, pool, local, stop
  <1>2. class.kind # "shared" /\ task[a] \in Tasks
    BY <1>0, <1>1 DEF KindOK, Fits, StageOK
  <1>3. /\ pc'[a] = l /\ \A b \in Actors \ {a} : pc'[b] = pc[b]
        /\ queue'[u] = Append(queue[u], task[a]) /\ \A t \in Threads \ {u} : queue'[t] = queue[t]
    BY <1>0, <1>1 DEF TypeOK
  <1>4. Accept(a, u)
    <2>1. \A b \in Submitters \ {a} : SameHand(b)
      BY <1>1, <1>3, Roles DEF SameHand, InHand
    <2>2. InHand(a) /\ ~InHand(a)'
      BY <1>1, <1>3 DEF InHand
    <2>3. Stays
      BY <1>1, <1>3, Roles DEF Stays, Inside
    <2>4. /\ Line(u)' = Append(Line(u), task[a])
          /\ \A t \in Threads \ {u} : Line(t)' = Line(t)
      <3>1. \A t \in Threads : Line(t) = queue[t] /\ Line(t)' = queue'[t]
        BY <1>1, <1>2 DEF Line
      <3>2. Line(u)' = Append(Line(u), task[a])
        BY <1>2, <1>3, <3>1
      <3>3. \A t \in Threads \ {u} : Line(t)' = Line(t)
        BY <1>3, <3>1
      <3> QED BY <3>2, <3>3
    <2> QED BY <1>1, <2>1, <2>2, <2>3, <2>4 DEF Accept, Drop
  <1>5. KindOK'
    <2>1. \A b \in Submitters : Fits(pc'[b])
      <3>1. Fits(l)
        BY <1>2 DEF Fits
      <3> QED BY <1>3, <3>1, Roles DEF KindOK
    <2>2. queue' \in [Threads -> Seq(Tasks)]
      <3>1. queue \in [Threads -> Seq(Tasks)]
        BY <1>2 DEF KindOK
      <3> QED BY <1>1, <1>2, <3>1
    <2>3. class.kind = "single" => u = 0
      BY <1>b DEF KindOK
    <2>4. class.kind = "single" => \A x \in Tasks : status'[x] # "refused"
      BY <1>0, <1>1, <1>2 DEF KindOK, TypeOK
    <2> QED BY <1>1, <1>2, <1>3, <2>1, <2>2, <2>3, <2>4 DEF KindOK, Fits
  <1>6. DrainOK'
    BY <1>1, <1>2 DEF DrainOK
  <1> QED BY <1>1, <1>2, <1>4, <1>5, <1>6 DEF Sound, Effect

LEMMA PublishSound == ASSUME IInv, KindOK, DrainOK, NEW a \in Submitters, Publish(a) PROVE Sound
  <1>0. TypeOK /\ a \in Actors
    BY Roles DEF IInv
  <1>1. /\ pc[a] = "publish" /\ pc' = [pc EXCEPT ![a] = "store"]
        /\ UNCHANGED <<class, queue, m_tasks, m_stop, size, todo, job, task, target, status, due>>
    BY DEF Publish, Goto, own, pool, local, stop
  <1>2. Fits("store")
    BY <1>1 DEF KindOK, Fits
  <1> QED BY <1>0, <1>1, <1>2, MoveSound DEF HandLabels, BodyLabels, BusyLabels, KindOK

LEMMA StoreSound == ASSUME IInv, KindOK, DrainOK, NEW a \in Submitters, Store(a) PROVE Sound
  <1>0. TypeOK /\ a \in Actors
    BY Roles DEF IInv
  <1>1. /\ pc[a] = "store" /\ pc' = [pc EXCEPT ![a] = "notify"]
        /\ UNCHANGED <<class, queue, m_tasks, m_stop, size, todo, job, task, target, status, due>>
    BY DEF Store, Goto, own, pool, local, stop
  <1>2. Fits("notify")
    BY <1>1 DEF KindOK, Fits
  <1> QED BY <1>0, <1>1, <1>2, MoveSound DEF HandLabels, BodyLabels, BusyLabels, KindOK

\* The notified thread, if there is one, waits: it is in no task and in no pool.
LEMMA NotifySound == ASSUME IInv, KindOK, DrainOK, NEW a \in Submitters, Notify(a) PROVE Sound
  <1>0. TypeOK /\ a \in Actors /\ class.kind \in {"single", "shared", "local"}
    BY Roles, Kinds DEF IInv, TypeOK
  <1>1. /\ pc[a] = "notify"
        /\ UNCHANGED <<class, queue, m_tasks, m_stop, size, todo, job, status, due>>
        /\ task' = [task EXCEPT ![a] = NoTask] /\ target' = [target EXCEPT ![a] = 0]
    BY DEF Notify, own, pool, stop
  <1>2. pc'[a] = "call" /\ \A b \in Actors \ {a} : \/ pc'[b] = pc[b]
                                                   \/ pc[b] = "parked" /\ pc'[b] \in {"wait", "look"}
    <2>1. target[a] \in Actors /\ (pc[target[a]] = "parked" => target[a] # a)
      BY <1>0, <1>1, Roles DEF TypeOK
    <2>2. Woken \in {"wait", "look"}
      BY DEF Woken
    <2> QED BY <1>0, <2>1, <2>2 DEF Notify, TypeOK
  <1>3. \A b \in Submitters \ {a} : task'[b] = task[b] /\ target'[b] = target[b]
    BY <1>0, <1>1, Roles DEF TypeOK
  <1>4. target'[a] = 0
    BY <1>0, <1>1 DEF TypeOK
  <1>5. Fits("call") /\ Fits("wait") /\ Fits("look")
    BY DEF Fits
  <1>6. \A b \in Submitters :
           /\ Fits(pc'[b]) /\ (class.kind = "single" => target'[b] = 0)
           /\ pc'[b] \in HandLabels <=> pc[b] \in HandLabels
           /\ pc[b] \in HandLabels => task'[b] = task[b]
    <2> TAKE b \in Submitters
    <2>1. CASE b = a
      BY <1>1, <1>2, <1>4, <1>5, <2>1 DEF HandLabels
    <2>2. CASE b # a
      BY <1>2, <1>3, <1>5, <2>2, Roles DEF HandLabels, KindOK
    <2> QED BY <2>1, <2>2
  <1>7. \A t \in Threads :
           /\ pc[t] \in BodyLabels => pc'[t] \in BodyLabels
           /\ pc[t] \in BusyLabels => pc'[t] \in BusyLabels
           /\ pc[t] = "pop" => pc'[t] = "pop"
    BY <1>1, <1>2, Roles DEF BodyLabels, BusyLabels
  <1> QED BY <1>1, <1>6, <1>7, QuietSound

\* Nothing is asked of what follows the use of a cleared vector.
LEMMA DangleSound == ASSUME IInv, KindOK, DrainOK, NEW a \in Submitters, Dangle(a) PROVE Sound
  <1>0. TypeOK /\ a \in Actors
    BY Roles DEF IInv
  <1>1. /\ pc[a] \in {"index", "push", "publish", "store", "notify"} /\ size = 0
        /\ pc' = [pc EXCEPT ![a] = "trap"]
        /\ UNCHANGED <<class, queue, m_tasks, m_stop, size, todo, job, task, target, status, due>>
    BY DEF Dangle, Cleared, Goto, own, pool, local, stop
  <1>2. class.kind # "shared" /\ class.kind # "single"
    BY <1>1, Numbers DEF KindOK, Fits
  <1>3. pc'[a] = "trap" /\ \A b \in Actors \ {a} : pc'[b] = pc[b]
    BY <1>0, <1>1 DEF TypeOK
  <1>4. KindOK'
    <2>1. \A b \in Submitters : Fits(pc'[b])
      <3>1. Fits("trap")
        BY <1>2 DEF Fits
      <3> QED BY <1>3, <3>1, Roles DEF KindOK
    <2> QED BY <1>1, <1>2, <2>1 DEF KindOK, Fits
  <1>5. DrainOK'
    BY <1>1, <1>2 DEF DrainOK
  <1>6. ~Alive'
    BY <1>3 DEF Alive
  <1> QED BY <1>1, <1>4, <1>5, <1>6 DEF Sound

LEMMA PoolPushSound == ASSUME IInv, KindOK, DrainOK, NEW a \in Submitters, PoolPush(a) PROVE Sound
  <1>0. TypeOK /\ StageOK /\ a \in Actors
    BY Roles DEF IInv
  <1>1. /\ pc[a] = "poolpush" /\ task' = [task EXCEPT ![a] = NoTask]
        /\ UNCHANGED <<class, queue, m_stop, size, todo, job, target, due>>
    BY DEF PoolPush, own, stop
  <1>2. class.kind = "shared" /\ task[a] \in Tasks
    BY <1>0, <1>1 DEF KindOK, Fits, StageOK
  <1>3. PICK l \in {"call", "poolnotify"} : pc' = [pc EXCEPT ![a] = l]
    BY DEF PoolPush, Goto
  <1>4. /\ pc'[a] = l /\ \A b \in Actors \ {a} : pc'[b] = pc[b]
        /\ \A b \in Submitters \ {a} : task'[b] = task[b]
    BY <1>0, <1>1, <1>3 DEF TypeOK
  <1>5. InHand(a) /\ ~InHand(a)' /\ Stays /\ \A b \in Submitters \ {a} : SameHand(b)
    BY <1>1, <1>4, Roles DEF InHand, Stays, Inside, SameHand
  <1>6. KindOK'
    <2>1. \A b \in Submitters : Fits(pc'[b])
      <3>1. Fits(l)
        BY <1>2 DEF Fits
      <3> QED BY <1>4, <3>1, Roles DEF KindOK
    <2> QED BY <1>1, <1>2, <2>1 DEF KindOK, Fits
  <1>7. \A t \in Threads : /\ Busy(t) => Busy(t)'
                           /\ pc[t] = "pop" => pc'[t] = "pop"
    BY <1>1, <1>4, Roles DEF Busy, Inside
  <1>8. CASE m_stop
    <2>1. status' = [status EXCEPT ![task[a]] = "refused"] /\ m_tasks' = m_tasks
      BY <1>8 DEF PoolPush, Become
    <2>2. Reject(a)
      BY <1>1, <1>5, <2>1 DEF Reject, Drop, SameLines, Line
    <2>3. DrainOK'
      BY <1>1, <1>7, <2>1 DEF DrainOK
    <2> QED BY <1>1, <1>6, <2>2, <2>3 DEF Sound, Effect
  <1>9. CASE ~m_stop
    <2>1. status' = [status EXCEPT ![task[a]] = "queued"] /\ m_tasks' = Append(m_tasks, task[a])
      BY <1>9 DEF PoolPush, Become
    <2>2. Accept(a, 0)
      <3>1. /\ Line(0) = m_tasks /\ Line(0)' = m_tasks'
            /\ \A t \in Threads \ {0} : Line(t) = <<>> /\ Line(t)' = <<>>
        BY <1>1, <1>2 DEF Line
      <3> QED BY <1>1, <1>5, <2>1, <3>1 DEF Accept, Drop
    <2>3. DrainOK'
      BY <1>1, <1>7, <1>9 DEF DrainOK
    <2> QED BY <1>1, <1>6, <2>2, <2>3, Numbers DEF Sound, Effect
  <1> QED BY <1>8, <1>9

LEMMA PoolNotifySound == ASSUME IInv, KindOK, DrainOK, NEW a \in Submitters, PoolNotify(a) PROVE Sound
  <1>0. TypeOK /\ a \in Actors
    BY Roles DEF IInv
  <1>1. /\ pc[a] = "poolnotify"
        /\ UNCHANGED <<class, queue, m_tasks, m_stop, size, todo, job, task, target, status, due>>
    BY DEF PoolNotify, own, pool, local, stop
  <1>2. class.kind = "shared"
    BY <1>1 DEF KindOK, Fits
  <1>3. pc'[a] = "call" /\ \A b \in Actors \ {a} : \/ pc'[b] = pc[b]
                                                   \/ pc[b] = "poolparked" /\ pc'[b] = "poollook"
    <2>1. CASE PoolParked = {}
      BY <1>0, <2>1 DEF PoolNotify, Goto, TypeOK
    <2>2. CASE PoolParked # {}
      <3>1. PICK t \in PoolParked : pc' = [pc EXCEPT ![a] = "call", ![t] = "poollook"]
        BY <2>2 DEF PoolNotify
      <3>2. t \in Actors /\ pc[t] = "poolparked" /\ t # a
        BY <1>1, Roles DEF PoolParked
      <3> QED BY <1>0, <3>1, <3>2 DEF TypeOK
    <2> QED BY <2>1, <2>2
  <1>4. Fits("call") /\ Fits("poollook")
    BY <1>2 DEF Fits
  <1>5. \A b \in Submitters :
           /\ Fits(pc'[b]) /\ (class.kind = "single" => target'[b] = 0)
           /\ pc'[b] \in HandLabels <=> pc[b] \in HandLabels
           /\ pc[b] \in HandLabels => task'[b] = task[b]
    <2> TAKE b \in Submitters
    <2>1. CASE b = a
      BY <1>1, <1>2, <1>3, <1>4, <2>1 DEF HandLabels
    <2>2. CASE b # a
      BY <1>1, <1>2, <1>3, <1>4, <2>2, Roles DEF HandLabels, KindOK
    <2> QED BY <2>1, <2>2
  <1>6. \A t \in Threads :
           /\ pc[t] \in BodyLabels => pc'[t] \in BodyLabels
           /\ pc[t] \in BusyLabels => pc'[t] \in BusyLabels
           /\ pc[t] = "pop" => pc'[t] = "pop"
    BY <1>1, <1>3, Roles DEF BodyLabels, BusyLabels
  <1> QED BY <1>1, <1>5, <1>6, QuietSound

\* A step of a loop from one place to the next.
LEMMA GoSound ==
    ASSUME IInv, KindOK, DrainOK, NEW t \in Threads, NEW from, NEW to, Move(t, from, to),
           Fits(to), from \notin BodyLabels, to \notin HandLabels,
           from \in BusyLabels => to \in BusyLabels,
           from = "pop" => class.kind # "shared" \/ queue[t] = <<>>
    PROVE  Sound
  <1>1. /\ pc[t] = from /\ pc' = [pc EXCEPT ![t] = to]
        /\ UNCHANGED <<class, queue, m_tasks, m_stop, size, todo, job, task, target, status, due>>
    BY DEF Move, Goto, own, pool, local, stop
  <1>2. t \in Actors /\ t \in Submitters /\ from \notin HandLabels
    BY Roles DEF BodyLabels, HandLabels
  <1>3. class.kind = "single" => target'[t] = 0
    BY <1>1, <1>2 DEF KindOK
  <1> QED BY <1>1, <1>2, <1>3, MoveSound

\* A thread takes a task from its own queue, or enters the worker_loop of its pool.
LEMMA TakeSound ==
    ASSUME IInv, KindOK, DrainOK, NEW t \in Threads,
           pc[t] \in {"look", "pop", "repop"}, queue[t] # <<>>, Take(t)
    PROVE  Sound
  <1>0. TypeOK /\ t \in Actors /\ t \in Submitters /\ class.kind \in {"single", "shared", "local"}
    BY Roles, Kinds DEF IInv, TypeOK
  <1> DEFINE x == Head(queue[t])
  <1>1. /\ queue' = [queue EXCEPT ![t] = Tail(@)]
        /\ UNCHANGED <<class, m_tasks, m_stop, size, task, target, due>>
        /\ \/ x = Worker /\ pc' = [pc EXCEPT ![t] = "poollook"] /\ UNCHANGED <<todo, job, status>>
           \/ /\ x # Worker /\ pc' = [pc EXCEPT ![t] = "call"]
              /\ job' = [job EXCEPT ![t] = x] /\ todo' = [todo EXCEPT ![t] = Children[x]]
              /\ status' = [status EXCEPT ![x] = "running"]
    BY DEF Take, Run, Become, Goto, pool, stop
  <1>2. queue'[t] = Tail(queue[t]) /\ \A u \in Threads \ {t} : queue'[u] = queue[u]
    BY <1>0, <1>1 DEF TypeOK
  <1>3. CASE class.kind = "shared"
    <2>1. queue[t] = <<Worker>>
      BY <1>3 DEF KindOK
    <2>2. x = Worker /\ Tail(queue[t]) = <<>>
      BY <2>1
    <2>3. pc' = [pc EXCEPT ![t] = "poollook"] /\ UNCHANGED <<todo, job, status>>
      BY <1>1, <2>2
    <2>4. pc'[t] = "poollook" /\ \A b \in Actors \ {t} : pc'[b] = pc[b]
      BY <1>0, <2>3 DEF TypeOK
    <2>5. KindOK'
      <3>1. \A b \in Submitters : Fits(pc'[b])
        <4>1. Fits("poollook")
          BY <1>3 DEF Fits
        <4> QED BY <2>4, <4>1, Roles DEF KindOK
      <3> QED BY <1>1, <1>2, <1>3, <2>2, <2>3, <3>1 DEF KindOK, Fits
    <2>6. DrainOK'
      <3>1. Busy(t)' /\ queue'[t] = <<>>
        BY <1>2, <2>2, <2>4 DEF Busy
      <3>2. \A u \in Threads \ {t} : queue'[u] = queue[u] /\ pc'[u] = pc[u] /\ (Busy(u) <=> Busy(u)')
        BY <1>2, <2>4, Roles DEF Busy, Inside
      <3> QED BY <1>1, <3>1, <3>2 DEF DrainOK
    <2>7. Quiet
      <3>1. SameHands
        BY <1>0, <1>1, <2>4, Roles DEF SameHands, SameHand, InHand
      <3>2. SameLines
        BY <1>1, <1>3 DEF SameLines, Line
      <3>3. Stays
        BY <1>0, <2>4, Roles DEF Stays, Inside
      <3> QED BY <2>3, <3>1, <3>2, <3>3 DEF Quiet
    <2> QED BY <1>1, <2>5, <2>6, <2>7 DEF Sound, Effect
  <1>4. CASE class.kind # "shared"
    <2>1. queue[t] \in Seq(Tasks) /\ queue \in [Threads -> Seq(Tasks)]
      BY <1>4 DEF KindOK
    <2>2. x \in Tasks /\ Tail(queue[t]) \in Seq(Tasks)
      BY <2>1, HeadTail
    <2>3. /\ pc' = [pc EXCEPT ![t] = "call"]
          /\ job' = [job EXCEPT ![t] = x] /\ todo' = [todo EXCEPT ![t] = Children[x]]
          /\ status' = [status EXCEPT ![x] = "running"]
      BY <1>1, <2>2, Roles
    <2> HIDE DEF x
    <2>4. pc'[t] = "call" /\ \A b \in Actors \ {t} : pc'[b] = pc[b]
      BY <1>0, <2>3 DEF TypeOK
    <2>5. KindOK'
      <3>1. \A b \in Submitters : Fits(pc'[b])
        <4>1. Fits("call")
          BY DEF Fits
        <4> QED BY <2>4, <4>1, Roles DEF KindOK
      <3>2. queue' \in [Threads -> Seq(Tasks)]
        BY <1>1, <2>1, <2>2
      <3>3. class.kind = "single" => t = 0
        BY DEF KindOK
      <3>4. class.kind = "single" => \A y \in Tasks : status'[y] # "refused"
        BY <1>0, <2>3 DEF KindOK, TypeOK
      <3> QED BY <1>1, <1>2, <1>4, <3>1, <3>2, <3>3, <3>4 DEF KindOK, Fits
    <2>6. DrainOK'
      BY <1>1, <1>4 DEF DrainOK
    <2>7. Start(t, t)
      <3>1. ~Inside(t) /\ ~InHand(t) /\ ~InHand(t)' /\ Inside(t)'
        BY <2>4 DEF Inside, InHand
      <3>2. SameHands /\ Stays
        BY <1>0, <1>1, <2>4, Roles DEF SameHands, SameHand, InHand, Stays, Inside
      <3>3. \A u \in Threads : Line(u) = queue[u] /\ Line(u)' = queue'[u]
        BY <1>1, <1>4 DEF Line
      <3>4. Head(Line(t)) = x /\ Line(t) # <<>>
        BY <3>3 DEF x
      <3> QED BY <1>2, <2>3, <3>1, <3>2, <3>3, <3>4 DEF Start
    <2> QED BY <1>1, <2>5, <2>6, <2>7 DEF Sound, Effect
  <1> QED BY <1>3, <1>4

\* A thread takes a task from the queue of its pool.
LEMMA PoolTakeSound ==
    ASSUME IInv, KindOK, DrainOK, NEW t \in Threads,
           pc[t] = "poollook", m_tasks # <<>>, PoolLook(t)
    PROVE  Sound
  <1>0. TypeOK /\ t \in Actors /\ t \in Submitters /\ class.kind = "shared"
    BY Roles, Kinds DEF IInv, TypeOK, KindOK, Fits
  <1> DEFINE x == Head(m_tasks)
  <1>1. /\ m_tasks' = Tail(m_tasks) /\ pc' = [pc EXCEPT ![t] = "call"]
        /\ UNCHANGED <<class, queue, m_stop, size, task, target, due>>
        /\ job' = [job EXCEPT ![t] = x] /\ todo' = [todo EXCEPT ![t] = Children[x]]
        /\ status' = [status EXCEPT ![x] = "running"]
    BY DEF PoolLook, Run, Become, Goto, own, stop
  <1> HIDE DEF x
  <1>2. pc'[t] = "call" /\ \A b \in Actors \ {t} : pc'[b] = pc[b]
    BY <1>0, <1>1 DEF TypeOK
  <1>3. KindOK'
    <2>1. \A b \in Submitters : Fits(pc'[b])
      <3>1. Fits("call")
        BY DEF Fits
      <3> QED BY <1>2, <3>1, Roles DEF KindOK
    <2> QED BY <1>0, <1>1, <2>1 DEF KindOK, Fits
  <1>4. DrainOK'
    <2>1. \A u \in Threads : (Busy(u)' <=> Busy(u)) /\ (pc[u] = "pop" => pc'[u] = "pop")
      BY <1>0, <1>2, Roles DEF Busy, Inside
    <2> QED BY <1>1, <2>1 DEF DrainOK
  <1>5. Start(t, 0)
    <2>1. ~Inside(t) /\ ~InHand(t) /\ ~InHand(t)' /\ Inside(t)'
      BY <1>2 DEF Inside, InHand
    <2>2. SameHands /\ Stays
      BY <1>0, <1>1, <1>2, Roles DEF SameHands, SameHand, InHand, Stays, Inside
    <2>3. /\ Line(0) = m_tasks /\ Line(0)' = m_tasks'
          /\ \A u \in Threads \ {0} : Line(u) = <<>> /\ Line(u)' = <<>>
      BY <1>0, <1>1 DEF Line
    <2>4. Head(Line(0)) = x /\ Line(0) # <<>>
      BY <2>3 DEF x
    <2> QED BY <1>1, <2>1, <2>2, <2>3, <2>4 DEF Start
  <1> QED BY <1>1, <1>3, <1>4, <1>5, Numbers DEF Sound, Effect

LEMMA ClearSound == ASSUME IInv, KindOK, DrainOK, NEW t \in Threads, Clear(t) PROVE Sound
  <1>1. /\ pc[t] = "clear" /\ pc' = [pc EXCEPT ![t] = "repop"]
        /\ UNCHANGED <<class, queue, m_tasks, m_stop, size, todo, job, task, target, status, due>>
    BY DEF Clear, Goto, pool, local
  <1>2. t \in Actors /\ t \in Submitters /\ Fits("repop")
    BY Roles DEF Fits
  <1>3. class.kind = "single" => target'[t] = 0
    BY <1>1, <1>2 DEF KindOK
  <1> QED BY <1>1, <1>2, <1>3, MoveSound DEF HandLabels, BodyLabels, BusyLabels

LEMMA ReturnSound == ASSUME IInv, KindOK, DrainOK, NEW t \in Threads, Return(t) PROVE Sound
  <1>0. TypeOK /\ StageOK /\ t \in Actors /\ t \in Submitters
    BY Roles DEF IInv
  <1>1. PICK l \in {"poollook", "pop", "loop"} :
           /\ pc' = [pc EXCEPT ![t] = l] /\ (l = "poollook" <=> class.kind = "shared")
           /\ pc[t] = "call" /\ todo[t] = <<>>
           /\ status' = [status EXCEPT ![job[t]] = "done"] /\ job' = [job EXCEPT ![t] = NoTask]
           /\ UNCHANGED <<class, queue, m_tasks, m_stop, size, todo, task, target, due>>
    BY DEF Return, Become, Goto, Begin, own, pool, stop
  <1>2. job[t] \in Tasks
    BY <1>0, <1>1 DEF StageOK
  <1>3. pc'[t] = l /\ \A b \in Actors \ {t} : pc'[b] = pc[b]
    BY <1>0, <1>1 DEF TypeOK
  <1>4. KindOK'
    <2>1. \A b \in Submitters : Fits(pc'[b])
      <3>1. Fits(l)
        BY <1>1 DEF Fits
      <3> QED BY <1>3, <3>1, Roles DEF KindOK
    <2>2. class.kind = "single" => \A y \in Tasks : status'[y] # "refused"
      BY <1>0, <1>1, <1>2 DEF KindOK, TypeOK
    <2> QED BY <1>1, <2>1, <2>2 DEF KindOK, Fits
  <1>5. DrainOK'
    <2>1. CASE class.kind = "shared"
      <3>1. \A u \in Threads : (Busy(u) => Busy(u)') /\ (pc[u] = "pop" => pc'[u] = "pop")
        BY <1>0, <1>1, <1>3, <2>1, Roles DEF Busy, Inside
      <3> QED BY <1>1, <3>1 DEF DrainOK
    <2>2. CASE class.kind # "shared"
      BY <1>1, <2>2 DEF DrainOK
    <2> QED BY <2>1, <2>2
  <1>6. Finish(t)
    <2>1. SameHands /\ ~InHand(t)
      BY <1>0, <1>1, <1>3, Roles DEF SameHands, SameHand, InHand
    <2>2. SameLines
      BY <1>1 DEF SameLines, Line
    <2>3. \A u \in Threads \ {t} : Inside(u) => Inside(u)'
      BY <1>3, Roles DEF Inside
    <2> QED BY <1>1, <1>2, <2>1, <2>2, <2>3 DEF Finish
  <1> QED BY <1>1, <1>4, <1>5, <1>6 DEF Sound, Effect

\* A stopper that moves itself only.
LEMMA StopperSound ==
    ASSUME IInv, KindOK, DrainOK, NEW s \in Stoppers, NEW l, pc' = [pc EXCEPT ![s] = l],
           UNCHANGED <<class, queue, m_tasks, status, todo, job, task>>,
           due' = due \/ due' = Waiting, m_stop => m_stop', class.kind = "single" => size' = size,
           \A b \in Submitters : target'[b] = target[b]
    PROVE  Sound
  <1>1. s \in Actors /\ s \notin Submitters /\ s \notin Threads
    BY Roles
  <1> QED BY <1>1, MoveSound

LEMMA StopSound == ASSUME IInv, KindOK, DrainOK, NEW s \in Stoppers, Stop(s) PROVE Sound
  <1>1. PICK l \in {"request", "poolwake", "returned"} :
           /\ pc' = [pc EXCEPT ![s] = l] /\ (m_stop => m_stop') /\ (due' = due \/ due' = Waiting)
           /\ UNCHANGED <<class, queue, m_tasks, size, status, todo, job, task, target>>
    <2>1. CASE JoinThread(s)
      BY <2>1 DEF JoinThread, Goto, own, pool, local
    <2>2. CASE Cas(s)
      BY <2>2 DEF Cas, Goto, own, local
    <2>3. CASE PoolStop(s)
      BY <2>3 DEF PoolStop, Goto, own, local
    <2> QED BY <2>1, <2>2, <2>3 DEF Stop
  <1> QED BY <1>1, StopperSound

\* A thread that is woken waits: it is in no task, and it stays in the pool it is in.
LEMMA WakersSound ==
    ASSUME IInv, KindOK, DrainOK, NEW s \in Stoppers,
           UNCHANGED <<class, queue, m_tasks, m_stop, size, status, todo, job, task, due>>,
           \A b \in Submitters :
              /\ target'[b] = target[b]
              /\ \/ pc'[b] = pc[b]
                 \/ pc[b] = "parked" /\ pc'[b] \in {"wait", "look"}
                 \/ pc[b] = "poolparked" /\ pc'[b] = "poollook"
    PROVE  Sound
  <1>1. Threads \subseteq Submitters
    BY Roles
  <1>2. \A b \in Submitters :
           /\ Fits(pc'[b]) /\ (class.kind = "single" => target'[b] = 0)
           /\ pc'[b] \in HandLabels <=> pc[b] \in HandLabels
           /\ pc[b] \in HandLabels => task'[b] = task[b]
    <2> TAKE b \in Submitters
    <2>1. Fits(pc[b]) /\ (class.kind = "single" => target[b] = 0)
      BY DEF KindOK
    <2> QED BY <2>1 DEF HandLabels, Fits
  <1>3. \A t \in Threads :
           /\ pc[t] \in BodyLabels => pc'[t] \in BodyLabels
           /\ pc[t] \in BusyLabels => pc'[t] \in BusyLabels
           /\ pc[t] = "pop" => pc'[t] = "pop"
    BY <1>1 DEF BodyLabels, BusyLabels
  <1> QED BY <1>2, <1>3, QuietSound

LEMMA ProceedSound == ASSUME IInv, KindOK, DrainOK, NEW s \in Stoppers, Proceed(s) PROVE Sound
  <1>0. TypeOK /\ s \in Actors /\ s \notin Submitters /\ s \notin Threads /\ Submitters \subseteq Actors
    BY Roles DEF IInv
  <1>1. CASE PoolWakeAll(s)
    <2>1. UNCHANGED <<class, queue, m_tasks, m_stop, size, status, todo, job, task, target, due>>
      BY <1>1 DEF PoolWakeAll, own, pool, local, stop
    <2>2. \A b \in Submitters : pc'[b] = pc[b] \/ (pc[b] = "poolparked" /\ pc'[b] = "poollook")
      BY <1>0, <1>1 DEF PoolWakeAll, PoolParked
    <2> QED BY <2>1, <2>2, WakersSound
  <1>2. CASE Wake(s)
    <2>1. /\ UNCHANGED <<class, queue, m_tasks, m_stop, size, status, todo, job, task, due>>
          /\ target' = [target EXCEPT ![s] = IF round[s] = 1 THEN @ ELSE NextThread(s)]
      BY <1>2 DEF Wake, own, pool
    <2>2. \A b \in Submitters : target'[b] = target[b]
      BY <1>0, <2>1 DEF TypeOK
    <2>3. \A b \in Submitters : pc'[b] = pc[b] \/ (pc[b] = "parked" /\ pc'[b] \in {"wait", "look"})
      <3>1. Woken \in {"wait", "look"}
        BY DEF Woken
      <3>2. \A b \in Submitters :
               pc'[b] = IF b = target[s] /\ pc[target[s]] = "parked" THEN Woken ELSE pc[b]
        BY <1>0, <1>2 DEF Wake
      <3> QED BY <3>1, <3>2
    <2> QED BY <2>1, <2>2, <2>3, WakersSound
  <1>3. CASE Request(s) \/ Raise(s)
    <2>1. PICK l \in {"raise", "wake"} :
             /\ pc' = [pc EXCEPT ![s] = l]
             /\ UNCHANGED <<class, queue, m_tasks, m_stop, size, status, todo, job, task, target, due>>
      BY <1>3 DEF Request, Raise, Goto, pool, local, stop
    <2> QED BY <2>1, StopperSound
  <1>4. CASE Join(s)
    <2>1. PICK l \in {"returned", "request"} :
             /\ pc' = [pc EXCEPT ![s] = l] /\ (class.kind = "single" => size' = size)
             /\ target' = [target EXCEPT ![s] = NextThread(s)]
             /\ UNCHANGED <<class, queue, m_tasks, m_stop, status, todo, job, task, due>>
      BY <1>4 DEF Join, Goto, own, stop
    <2>2. \A b \in Submitters : target'[b] = target[b]
      BY <1>0, <2>1 DEF TypeOK
    <2> QED BY <2>1, <2>2, StopperSound
  <1> QED BY <1>1, <1>2, <1>3, <1>4 DEF Proceed

\* A thread leaves the worker_loop of its pool, which has nothing to do any more.
LEMMA LeaveSound ==
    ASSUME IInv, KindOK, DrainOK, NEW t \in Threads, class.kind = "shared", m_stop, m_tasks = <<>>,
           Move(t, "poollook", Begin)
    PROVE  Sound
  <1>0. TypeOK /\ t \in Actors /\ t \in Submitters
    BY Roles DEF IInv
  <1>1. /\ pc[t] = "poollook" /\ pc' = [pc EXCEPT ![t] = Begin]
        /\ UNCHANGED <<class, queue, m_tasks, m_stop, size, todo, job, task, target, status, due>>
    BY DEF Move, Goto, own, pool, local, stop
  <1>2. Begin \in {"pop", "loop"} /\ Fits("pop") /\ Fits("loop")
    BY DEF Begin, Fits
  <1>3. pc'[t] = Begin /\ \A b \in Actors \ {t} : pc'[b] = pc[b]
    BY <1>0, <1>1 DEF TypeOK
  <1>4. KindOK'
    <2>1. \A b \in Submitters : Fits(pc'[b])
      BY <1>2, <1>3, Roles DEF KindOK
    <2> QED BY <1>1, <2>1 DEF KindOK, Fits
  <1>5. DrainOK'
    BY <1>1, <1>3, Roles DEF DrainOK
  <1>6. Quiet
    <2>1. SameHands
      BY <1>0, <1>1, <1>2, <1>3, Roles DEF SameHands, SameHand, InHand
    <2>2. SameLines
      BY <1>1 DEF SameLines, Line
    <2>3. Stays
      BY <1>1, <1>3, Roles DEF Stays, Inside
    <2> QED BY <1>1, <2>1, <2>2, <2>3 DEF Quiet
  <1> QED BY <1>1, <1>4, <1>5, <1>6 DEF Sound, Effect

\* In gq and lfgq, nobody is publishing, so a queue that is not empty can be popped.
LEMMA WorkSound == ASSUME IInv, KindOK, DrainOK, NEW t \in Threads, Work(t) PROVE Sound
  <1>0. /\ class.kind \in {"single", "shared", "local"} /\ StageOK /\ t \in Submitters
        /\ class.lockFree \in BOOLEAN
    BY Roles, Kinds DEF IInv, TypeOK
  <1> DEFINE Places == {"loop", "look", "sleepy", "parked", "pop", "test", "clear", "repop",
                        "wait", "exit"}
  <1>a. \A l \in Places : Fits(l) /\ l \notin BusyLabels
    BY DEF Fits, BusyLabels, BodyLabels
  <1>b. ASSUME NEW from \in Places, NEW to \in Places, Move(t, from, to),
               from # "pop"
        PROVE  Sound
    BY <1>a, <1>b, GoSound DEF BodyLabels, HandLabels, BusyLabels
  <1>1. CASE Loop(t)
    BY <1>1, <1>b DEF Loop
  <1>2. CASE Look(t)
    <2>1. CASE queue[t] = <<>>
      <3>1. Move(t, "look", IF t \in stopReq THEN "exit" ELSE "sleepy")
        BY <1>2, <2>1 DEF Look
      <3> QED BY <1>b, <3>1
    <2>2. CASE queue[t] # <<>>
      BY <1>2, <2>2, TakeSound DEF Look
    <2> QED BY <2>1, <2>2
  <1>3. CASE Park(t)
    BY <1>3, <1>b DEF Park
  <1>4. CASE Pop(t)
    <2>1. CASE Takeable(t)
      BY <1>4, <2>1, TakeSound DEF Pop, Takeable
    <2>2. CASE ~Takeable(t)
      <3>1. Move(t, "pop", "test")
        BY <1>4, <2>2 DEF Pop
      <3>2. class.kind # "shared" \/ queue[t] = <<>>
        <4>1. class.kind = "shared" => \A a \in Submitters : pc[a] # "publish"
          BY DEF KindOK, Fits
        <4> QED BY <2>2, <4>1 DEF Takeable
      <3> QED BY <1>a, <3>1, <3>2, GoSound DEF BodyLabels, HandLabels, BusyLabels
    <2> QED BY <2>1, <2>2
  <1>5. CASE Test(t)
    BY <1>5, <1>b DEF Test
  <1>6. CASE Clear(t)
    BY <1>6, ClearSound
  <1>7. CASE Repop(t)
    <2>1. CASE Takeable(t)
      BY <1>7, <2>1, TakeSound DEF Repop, Takeable
    <2>2. CASE ~Takeable(t)
      <3>1. Move(t, "repop", "wait")
        BY <1>7, <2>2 DEF Repop
      <3> QED BY <1>b, <3>1
    <2> QED BY <2>1, <2>2
  <1>8. CASE Wait(t)
    BY <1>8, <1>b DEF Wait
  <1>9. CASE Return(t)
    BY <1>9, ReturnSound
  <1>10. CASE PoolLook(t)
    <2>1. CASE m_tasks # <<>>
      <3>1. pc[t] = "poollook"
        BY <1>10, <2>1 DEF PoolLook
      <3> QED BY <1>10, <2>1, <3>1, PoolTakeSound
    <2>2. CASE m_tasks = <<>>
      <3>1. Move(t, "poollook", IF m_stop THEN Begin ELSE "poolsleepy")
        BY <1>10, <2>2 DEF PoolLook
      <3>2. class.kind = "shared" /\ pc[t] = "poollook"
        BY <1>0, <3>1 DEF Move, KindOK, Fits
      <3>3. CASE ~m_stop
        <4>1. Fits("poolsleepy")
          BY <3>2 DEF Fits
        <4> QED BY <3>1, <3>3, <4>1, GoSound DEF BodyLabels, HandLabels, BusyLabels
      <3>4. CASE m_stop
        BY <2>2, <3>1, <3>2, <3>4, LeaveSound
      <3> QED BY <3>3, <3>4
    <2> QED BY <2>1, <2>2
  <1>11. CASE PoolPark(t)
    <2>1. Move(t, "poolsleepy", "poolparked")
      BY <1>11 DEF PoolPark
    <2>2. Fits("poolparked")
      BY <1>0, <2>1 DEF Move, KindOK, Fits
    <2> QED BY <2>1, <2>2, GoSound DEF BodyLabels, HandLabels, BusyLabels
  <1> QED BY <1>1, <1>2, <1>3, <1>4, <1>5, <1>6, <1>7, <1>8, <1>9, <1>10, <1>11 DEF Work

LEMMA SubmitSound == ASSUME IInv, KindOK, DrainOK, NEW a \in Submitters, Submit(a) PROVE Sound
  BY CallSound, PickThreadSound, PushSound, PublishSound, StoreSound, NotifySound, DangleSound,
     PoolPushSound, PoolNotifySound DEF Submit

LEMMA LifeInit == Init => LifeOK
  <1> SUFFICES ASSUME Init PROVE LifeOK
    OBVIOUS
  <1>0. /\ TypeOK /\ class.kind \in {"single", "shared", "local"}
        /\ status = [x \in Tasks |-> "new"] /\ due = {}
    BY IInvInit, Kinds DEF IInv, TypeOK, Init
  <1>1. KindOK
    <2>1. \A a \in Submitters : pc[a] \in {"pop", "loop", "exit", "call", "stop"}
      BY Roles DEF Init, Begin
    <2>2. \A a \in Submitters : Fits(pc[a])
      BY <2>1 DEF Fits
    <2>3. <<>> \in Seq(Tasks)
      OBVIOUS
    <2> QED BY <1>0, <2>2, <2>3, Roles DEF Init, KindOK
  <1>2. DrainOK
    BY <1>0, Roles DEF Init, DrainOK, Begin, Used
  <1>3. DueOK
    BY <1>0 DEF DueOK
  <1>4. FifoOrder
    <2>1. \A c \in Clients : \A j \in DOMAIN Program[c] : Program[c][j] \in Tasks
      BY ThreadsAssumption, Lengths
    <2> QED BY <1>0, <2>1 DEF FifoOrder, Started
  <1>5. SourceOK
    <2> SUFFICES ASSUME NEW a \in Submitters PROVE SourceAt(a)
      BY DEF SourceOK
    <2>1. todo[a] = Source(a)
      <3>1. a \notin Clients => a \in Threads /\ job[a] = NoTask /\ todo[a] = <<>>
        BY DEF Init, Submitters
      <3> QED BY <3>1, TaskAssumption DEF Init, Source
    <2>2. /\ Len(Source(a)) \in Nat /\ DOMAIN Source(a) = 1 .. Len(Source(a))
          /\ \A i \in DOMAIN Source(a) : Source(a)[i] \in Tasks
      BY <1>0, SourceTypes, Lengths DEF SourceTyped
    <2>3. Passed(a) = 0
      BY <2>1, <2>2 DEF Passed
    <2>4. \A i \in DOMAIN Source(a) : i > 0 /\ 0 + i = i
      BY <2>2
    <2>5. ~InHand(a)
      BY Roles DEF Init, InHand, Begin
    <2> QED BY <1>0, <2>1, <2>2, <2>3, <2>4, <2>5 DEF SourceAt
  <1>6. UnbornOK
    <2>1. \A x \in Tasks : \A i \in DOMAIN Children[x] : Children[x][i] \in Tasks
      BY ThreadsAssumption, Lengths
    <2> QED BY <1>0, <2>1 DEF UnbornOK
  <1>7. RunOK
    BY <1>0, TaskAssumption DEF Init, RunOK
  <1>8. PlaceOK /\ OrderOK
    <2>1. \A t \in Threads : Line(t) = <<>>
      BY DEF Init, Line
    <2>2. DOMAIN <<>> = {}
      OBVIOUS
    <2> QED BY <1>0, <2>1, <2>2 DEF PlaceOK, OrderOK
  <1> QED BY <1>1, <1>2, <1>3, <1>4, <1>5, <1>6, <1>7, <1>8 DEF LifeOK, TasksOK

LEMMA LifeStep == IInv /\ LifeOK /\ [Next]_vars /\ IInv' => LifeOK'
  <1> SUFFICES ASSUME IInv, LifeOK, [Next]_vars, IInv' PROVE LifeOK'
    OBVIOUS
  <1>0. TypeOK /\ TypeOK' /\ KindOK /\ DrainOK /\ DueOK /\ FifoOrder /\ (Alive => TasksOK)
    BY DEF IInv, LifeOK
  <1>1. CASE Next
    <2>1. Alive /\ TasksOK /\ Sound
      BY <1>0, <1>1, SubmitSound, WorkSound, StopSound, ProceedSound DEF Next
    <2>2. CASE Effect
      BY <1>0, <2>1, <2>2, EffectKeeps, DueStays, FifoStays DEF Sound, LifeOK
    <2>3. CASE ~Alive' /\ UNCHANGED <<status, due>>
      <3>1. DueOK' /\ FifoOrder'
        BY <1>0, <2>1, <2>3 DEF Sound, DueOK, FifoOrder, Started
      <3> QED BY <2>1, <2>3, <3>1 DEF Sound, LifeOK
    <2> QED BY <2>1, <2>2, <2>3 DEF Sound
  <1>2. CASE UNCHANGED vars
    <2> USE <1>2 DEF vars, own, pool, local, stop
    <2>1. UNCHANGED <<class, queue, m_tasks, m_stop, size, pc, todo, job, task, target, status, due>>
      OBVIOUS
    <2>2. KindOK' /\ DrainOK' /\ DueOK' /\ FifoOrder' /\ (Alive <=> Alive')
      BY <1>0, <2>1 DEF KindOK, Fits, DrainOK, Busy, Inside, DueOK, FifoOrder, Started, Alive
    <2>3. Quiet
      BY <2>1 DEF Quiet, SameHands, SameHand, InHand, SameLines, Line, Stays, Inside
    <2>4. TasksOK => TasksOK'
      BY <1>0, <2>3, QuietKeeps
    <2> QED BY <1>0, <2>2, <2>4 DEF LifeOK
  <1> QED BY <1>1, <1>2

\* Every task is in one place: a program, the hand of a submitter, a queue or a
\* thread; and the queues, the threads and the shutdown agree on what is still due.
THEOREM LifeInvariance == Spec => [](IInv /\ LifeOK)
  <1>1. IInv /\ LifeOK /\ [Next]_vars => (IInv /\ LifeOK)'
    BY IInvStep, LifeStep
  <1> QED BY IInvInit, LifeInit, <1>1, PTL DEF Spec

LEMMA DrainsThen == IInv /\ LifeOK => PoolDrains
  <1> SUFFICES ASSUME IInv, LifeOK, Cleared, class.kind = "shared"
               PROVE  \/ \A x \in due : status[x] = "done"
                      \/ ~class.lockFree /\ \A t \in Threads : queue[t] = <<Worker>>
    BY DEF PoolDrains
  <1>1. TypeOK /\ KindOK /\ DrainOK /\ DueOK /\ \A t \in Threads : pc[t] = "exit"
    BY DEF IInv, LifeOK, JoinOK
  <1>2. \A t \in Threads : ~Inside(t) /\ ~Busy(t)
    BY <1>1 DEF Inside, Busy
  <1>3. TasksOK
    <2>1. Alive
      BY <1>1 DEF Alive, KindOK, Fits
    <2> QED BY <2>1 DEF LifeOK
  <1>4. CASE m_tasks = <<>>
    <2>1. \A t \in Threads : Line(t) = <<>>
      BY <1>4 DEF Line
    <2>2. \A x \in Tasks : status[x] # "queued"
      <3>1. DOMAIN <<>> = {}
        OBVIOUS
      <3> QED BY <1>3, <2>1, <3>1 DEF TasksOK, PlaceOK
    <2>3. \A x \in Tasks : status[x] # "running"
      <3> SUFFICES ASSUME NEW x \in Tasks, status[x] = "running" PROVE FALSE
        OBVIOUS
      <3>1. PICK t \in Threads : job[t] = x
        BY <1>3 DEF TasksOK, RunOK
      <3> QED BY <1>2, <1>3, <3>1 DEF TasksOK, RunOK
    <2> QED BY <1>1, <2>2, <2>3 DEF TypeOK, DueOK
  <1>5. CASE m_tasks # <<>>
    <2>1. \A t \in Threads : queue[t] = <<Worker>>
      BY <1>1, <1>2, <1>5 DEF DrainOK, KindOK
    <2>2. <<Worker>> # <<>>
      OBVIOUS
    <2>3. ~class.lockFree
      <3>1. 0 \in Threads /\ queue[0] # <<>> /\ pc[0] # "pop"
        <4>1. 0 \in Threads
          BY Numbers
        <4>2. queue[0] = <<Worker>> /\ pc[0] = "exit"
          BY <1>1, <2>1, <4>1
        <4> QED BY <2>2, <4>1, <4>2
      <3> QED BY <1>1, <3>1 DEF DrainOK
    <2> QED BY <2>1, <2>3
  <1> QED BY <1>4, <1>5

\* shutdown of gq and lfgq, for any number of threads and of tasks that submit
\* tasks: when it has joined the last thread, everything that was accepted before
\* it began is done, or gq never entered the worker_loop of the pool at all.
THEOREM ShutdownDrains == Spec => []PoolDrains
  BY LifeInvariance, DrainsThen, PTL

\* A lone thread starts the tasks of each client in the order of their run, however
\* many clients and tasks submit to it, with a mutex as with the lfqueue.
THEOREM StartsInOrder == Spec => []FifoOrder
  <1>1. IInv /\ LifeOK => FifoOrder
    BY DEF LifeOK
  <1> QED BY <1>1, LifeInvariance, PTL
================================================================================
