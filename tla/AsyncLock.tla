----------------------------- MODULE AsyncLock ------------------------------
(***************************************************************************)
(* The coroutine lock of include/pot/sync/async_lock.h.  m_state counts    *)
(* the holder and everybody behind it; a coroutine that does not find it   *)
(* zero pushes its handle to an lfqueue and suspends, and the one that     *)
(* unlocks pops the next handle and resumes it, by posting it to the       *)
(* executor it gave to lock() or, without one, inside unlock itself.       *)
(*                                                                         *)
(* Coroutines run on worker threads.  A thread has a stack: unlock may     *)
(* resume another coroutine on top of the one that unlocks.  The queue is  *)
(* the one of LfQueue.tla: a push claims a cell and publishes it later.    *)
(***************************************************************************)
EXTENDS Naturals, Sequences, FiniteSets

CONSTANTS Coroutines,
          Posted,    \* coroutines that give lock() an executor
          Workers,   \* threads that run coroutines
          Capacity,  \* cells of the lfqueue (1024 in the code)
          Rounds     \* how often each coroutine takes the lock

ASSUME LockAssumption ==
    /\ IsFiniteSet(Coroutines)
    /\ Posted \subseteq Coroutines
    /\ Capacity \in Nat \ {0}
    /\ Rounds \in Nat \ {0}

VARIABLES m_state,
          m_queue,  \* the coroutines whose handle is in the lfqueue
          pc,       \* where each coroutine is
          left,     \* how often each coroutine has still to take the lock
          ready,    \* coroutines in the queue of the executor
          stack,    \* of each worker: the coroutines it runs, innermost first
          stopped,  \* derived_execute of the executor throws
          dead      \* an exception has left a destructor

vars == <<m_state, m_queue, pc, left, ready, stack, stopped, dead>>

Init == /\ m_state = 0
        /\ m_queue = <<>>
        /\ pc = [c \in Coroutines |-> "run"]
        /\ left = [c \in Coroutines |-> Rounds]
        /\ ready = Coroutines
        /\ stack = [w \in Workers |-> <<>>]
        /\ stopped = FALSE
        /\ dead = FALSE

Goto(c, l) == pc' = [pc EXCEPT ![c] = l]

\* c is what worker w executes.
Runs(w, c) == stack[w] # <<>> /\ Head(stack[w]) = c

\* Worker w goes on with what it executed before its innermost coroutine.
Leave(w) == stack' = [stack EXCEPT ![w] = Tail(@)]

-----------------------------------------------------------------------------
\* A worker takes a coroutine from the executor's queue, in any order.
Start(w, c) ==
    /\ stack[w] = <<>>
    /\ c \in ready
    /\ ready' = ready \ {c}
    /\ stack' = [stack EXCEPT ![w] = <<c>>]
    /\ UNCHANGED <<m_state, m_queue, pc, left, stopped, dead>>

MutLockBarging(c) ==
    /\ pc[c] = "run" /\ left[c] > 0
    /\ m_state' = m_state + 1
    /\ left' = [left EXCEPT ![c] = @ - 1]
    /\ Goto(c, IF m_queue = <<>> THEN "critical" ELSE "push")
    /\ UNCHANGED <<m_queue, ready, stack, stopped, dead>>

\* lock_awaiter::await_suspend up to the test of prev_state.
Lock(c) ==
    /\ pc[c] = "run"
    /\ left[c] > 0
    /\ m_state' = m_state + 1
    /\ left' = [left EXCEPT ![c] = @ - 1]
    /\ Goto(c, IF m_state = 0 THEN "critical" ELSE "push")
    /\ UNCHANGED <<m_queue, ready, stack, stopped, dead>>

\* The thread spins while the queue is full; it does not suspend the coroutine.
Push(c) ==
    /\ pc[c] = "push"
    /\ Len(m_queue) < Capacity
    /\ m_queue' = Append(m_queue, c)
    /\ Goto(c, "publish")
    /\ UNCHANGED <<m_state, left, ready, stack, stopped, dead>>

\* From here on another thread may resume c; this one is done with it.
Publish(w, c) ==
    /\ pc[c] = "publish"
    /\ Goto(c, "waiting")
    /\ Leave(w)
    /\ UNCHANGED <<m_state, m_queue, left, ready, stopped, dead>>

\* The holder co_awaits something else and is resumed by the executor.
Yield(w, c) ==
    /\ pc[c] = "critical"
    /\ Goto(c, "back")
    /\ ready' = ready \cup {c}
    /\ Leave(w)
    /\ UNCHANGED <<m_state, m_queue, left, stopped, dead>>

Holds(c) == pc[c] \in {"critical", "back"}

MutUnlockNoWaiters(c) ==
    /\ Holds(c)
    /\ m_state' = m_state - 1
    /\ Goto(c, IF m_queue = <<>> THEN "run" ELSE "handoff")
    /\ UNCHANGED <<m_queue, left, ready, stack, stopped, dead>>

MutUnlockResets(c) ==
    /\ Holds(c)
    /\ m_state' = 0
    /\ Goto(c, IF m_state = 1 THEN "run" ELSE "handoff")
    /\ UNCHANGED <<m_queue, left, ready, stack, stopped, dead>>

\* unlock, from the destructor of the guard, up to the test of prev_state.
Unlock(c) ==
    /\ Holds(c)
    /\ m_state' = m_state - 1
    /\ Goto(c, IF m_state = 1 THEN "run" ELSE "handoff")
    /\ UNCHANGED <<m_queue, left, ready, stack, stopped, dead>>

Takeable == m_queue # <<>> /\ pc[Head(m_queue)] # "publish"

MutHandOffBoth(w, c) ==
    /\ pc[c] = "handoff" /\ Takeable
    /\ LET d == Head(m_queue) IN
          /\ m_queue' = Tail(m_queue)
          /\ pc' = [pc EXCEPT ![c] = "run", ![d] = "critical"]
          /\ ready' = ready \cup {d}
          /\ stack' = IF d \in Posted THEN stack
                      ELSE [stack EXCEPT ![w] = <<d>> \o @]
    /\ UNCHANGED <<m_state, left, stopped, dead>>

\* The thread spins until the pop succeeds, then resumes the next coroutine,
\* which is the holder.  A stopped executor throws, in a destructor.
HandOff(w, c) ==
    /\ pc[c] = "handoff"
    /\ Takeable
    /\ LET d == Head(m_queue) IN
          /\ m_queue' = Tail(m_queue)
          /\ \/ /\ d \in Posted
                /\ dead' = stopped
                /\ ready' = IF stopped THEN ready ELSE ready \cup {d}
                /\ UNCHANGED stack
             \/ /\ d \notin Posted
                /\ stack' = [stack EXCEPT ![w] = <<d>> \o @]
                /\ UNCHANGED <<ready, dead>>
          /\ pc' = [pc EXCEPT ![c] = "run", ![d] = "critical"]
    /\ UNCHANGED <<m_state, left, stopped>>

\* The coroutine has taken the lock often enough.
End(w, c) ==
    /\ pc[c] = "run"
    /\ left[c] = 0
    /\ Goto(c, "finished")
    /\ Leave(w)
    /\ UNCHANGED <<m_state, m_queue, left, ready, stopped, dead>>

\* Somebody shuts the executor down.
Stop ==
    /\ ~stopped
    /\ stopped' = TRUE
    /\ UNCHANGED <<m_state, m_queue, pc, left, ready, stack, dead>>

Step(w, c) == \/ Lock(c) \/ Push(c) \/ Publish(w, c) \/ Yield(w, c) \/ Unlock(c)
              \/ HandOff(w, c) \/ End(w, c)

Work(w) == \/ \E c \in Coroutines : Start(w, c)
           \/ \E c \in Coroutines : Runs(w, c) /\ Step(w, c)

Next == ~dead /\ (Stop \/ \E w \in Workers : Work(w))

\* Worker threads are scheduled.
Fairness == \A w \in Workers : WF_vars(~dead /\ Work(w))

Spec     == Init /\ [][Next]_vars
FairSpec == Spec /\ Fairness

-----------------------------------------------------------------------------
Behind(c) == pc[c] \in {"push", "publish", "waiting"}

\* Every variable stays in its range, and m_state counts the holder and those
\* behind it.
TypeOK ==
    /\ m_state = Cardinality({c \in Coroutines : Holds(c) \/ Behind(c)})
    /\ m_queue \in Seq(Coroutines) /\ Len(m_queue) <= Capacity
    /\ pc \in [Coroutines -> {"run", "push", "publish", "waiting", "critical",
                              "back", "handoff", "finished"}]
    /\ left \in [Coroutines -> 0 .. Rounds]
    /\ ready \subseteq Coroutines
    /\ stack \in [Workers -> Seq(Coroutines)]
    /\ stopped \in BOOLEAN
    /\ dead \in BOOLEAN

\* Two coroutines never hold the lock together, and nobody holds it while a
\* thread inside unlock is handing it on.
MutualExclusion ==
    \A c, d \in Coroutines :
        /\ Holds(c) \/ pc[c] = "handoff"
        /\ Holds(d) \/ pc[d] = "handoff"
        => c = d

OnQueue(c) == \E i \in DOMAIN m_queue : m_queue[i] = c
OnStack(c) == \E w \in Workers : \E i \in DOMAIN stack[w] : stack[w][i] = c
Waits(c)   == pc[c] = "waiting" /\ OnQueue(c)

\* No coroutine is resumed twice: it is suspended in the lock's queue, in the
\* executor's queue, or on one thread's stack, and only once.
InOnePlace ==
    /\ \A i, j \in DOMAIN m_queue : m_queue[i] = m_queue[j] => i = j
    /\ \A v, w \in Workers : \A i \in DOMAIN stack[v], j \in DOMAIN stack[w] :
          stack[v][i] = stack[w][j] => v = w /\ i = j
    /\ ~dead => \A c \in Coroutines :
          /\ ~(Waits(c) /\ c \in ready)
          /\ ~(Waits(c) /\ OnStack(c))
          /\ ~(c \in ready /\ OnStack(c))
          /\ Waits(c) \/ c \in ready \/ OnStack(c) <=> pc[c] # "finished"

\* A thread that spins in unlock for the next handle spins for somebody.
HandOffHasTaker ==
    \A c \in Coroutines : pc[c] = "handoff" => \E d \in Coroutines : Behind(d)

\* A coroutine takes the lock without waiting only when nobody holds it, hands
\* it on or waits for it: the fast path does not overtake the queue.
NoBarging ==
    [][\A c \in Coroutines :
          pc[c] = "run" /\ pc'[c] = "critical" =>
             \A d \in Coroutines : ~Holds(d) /\ ~Behind(d) /\ pc[d] # "handoff"]_vars

SpinsOnFullQueue(w) ==
    \E c \in Coroutines : Runs(w, c) /\ pc[c] = "push" /\ Len(m_queue) = Capacity

\* Every coroutine that asks for the lock gets it, unless the executor is
\* stopped or all the workers spin on a full queue while the holder waits for
\* one of them.
EveryoneGetsTheLock ==
    \A c \in Coroutines :
        Behind(c) ~> \/ Holds(c)
                     \/ stopped
                     \/ [](\A w \in Workers : SpinsOnFullQueue(w))
=============================================================================
