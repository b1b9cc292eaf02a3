------------------------- MODULE ThreadPool_proofs -------------------------
(***************************************************************************)
(* Proofs about ThreadPool, for every number of workers, any clients, any  *)
(* tasks and each of the twelve classes.  First the threads: type          *)
(* correctness, no lost wake-up while the pool runs, every worker woken by *)
(* shutdown, and m_threads cleared only after all workers have left.  The  *)
(* inductive invariant IInv says which context a thread may be working on, *)
(* what a worker that found nothing knows of its notifier, and how far a   *)
(* thread inside shutdown has got.  Then the tasks: the order in which     *)
(* they are taken and called, and the refinement of Executor.  The         *)
(* invariant LifeOK says where each task is; a step is shown to have one   *)
(* of a few effects on the tasks, and these to keep the invariant.         *)
(***************************************************************************)
EXTENDS ThreadPool, FiniteSetTheorems, SequenceTheorems, TLAPS

SubmitLabels == {"call", "index", "push", "publish", "bump", "notify", "trap"}
WorkerLabels == SubmitLabels \cup {"loop", "load", "pop", "steal", "begin",
                                   "recheck", "wait", "parked", "exit"}
StopLabels   == {"request", "wakebump", "wakeall", "join", "returned"}

\* Which steps belong to which kind of thread, and which context each step
\* works on.
LabelsOK ==
    /\ \A w \in Workers : pc[w] \in WorkerLabels
    /\ \A c \in Clients : pc[c] \in SubmitLabels
    /\ \A h \in Helpers : pc[h] \in SubmitLabels \cup {"ready", "begin"}
    /\ \A s \in Stoppers : pc[s] \in StopLabels \cup {"cas"}

SubmitAt(a) ==
    /\ pc[a] \in {"begin", "call", "index"} => target[a] = 0
    /\ pc[a] = "index" => task[a] \in Tasks /\ ~class.shared
    /\ pc[a] \in {"push", "publish", "bump", "notify"} =>
          /\ target[a] \in Contexts
          /\ class.shared => target[a] = 0
          /\ task[a] \in Tasks
SubmitOK == \A a \in Submitters : SubmitAt(a)

StealOK == \A w \in Workers : pc[w] = "steal" =>
              Steals /\ target[w] \in DOMAIN StealOrder(w)

ReadyOK == \A h \in Helpers :
              /\ pc[h] = "ready" => target[h] \in Contexts
              /\ class # lqlf_steal_seq => pc[h] = "ready"

StopOK == \A s \in Stoppers :
             /\ target[s] \in Contexts
             /\ pc[s] = "cas" => target[s] = 0
             /\ class.shared /\ pc[s] \in {"wakebump", "wakeall"} => target[s] = 0

SharedOK == class.shared => \A c \in Contexts \ {0} : queue[c] = <<>>

WhereOK == LabelsOK /\ SubmitOK /\ StealOK /\ ReadyOK /\ StopOK /\ SharedOK

\* A thread that has placed a task in context c and not yet bumped its notifier.
PendingBump(c) == {a \in Submitters : /\ target[a] = c
                                      /\ pc[a] \in {"publish", "bump"}}

Notifying(c) == {a \in Submitters : target[a] = c /\ pc[a] = "notify"}

FoundNothing == {"steal", "recheck", "wait", "parked"}

\* A worker that found nothing under the current notifier value was right, or
\* the thread that has proved it wrong since is still to bump the notifier.
EmptyHanded ==
    \A w \in Workers :
        /\ pc[w] \in FoundNothing \cup {"pop"} => waitVal[w] <= notifier[Ctx(w)]
        /\ /\ pc[w] \in FoundNothing
           /\ waitVal[w] = notifier[Ctx(w)]
           /\ queue[Ctx(w)] # <<>>
           => PendingBump(Ctx(w)) # {}

\* When every worker of a context is parked, one of them has seen the last
\* bump, or the thread that made it is still to notify.
OneUpToDate ==
    ~m_stop => \A c \in Contexts :
        Home(c) # {} /\ (\A w \in Home(c) : pc[w] = "parked")
        => \/ Notifying(c) # {}
           \/ \E w \in Home(c) : waitVal[w] = notifier[c]

\* Before m_stop is set nobody has been asked to stop.
NotYetStopped ==
    ~m_stop => /\ stopReq = {}
               /\ \A s \in Stoppers : pc[s] = "cas"

\* How far the thread inside shutdown has got: whose stop it has requested,
\* which notifiers it has bumped, which contexts it has woken.
Requested(s) ==
    /\ pc[s] = "request" => \A w \in Workers : w < target[s] => w \in stopReq
    /\ pc[s] \in {"wakebump", "wakeall", "join"} => stopReq = Workers

Bumped(s, c) == \/ pc[s] = "join"
                \/ pc[s] \in {"wakebump", "wakeall"} /\ c < target[s]
                \/ pc[s] = "wakeall" /\ c = target[s]

Woken(s, c) == \/ pc[s] = "join"
               \/ pc[s] \in {"wakebump", "wakeall"} /\ c < target[s]

ShutdownProgress ==
    \A s \in Stoppers :
        /\ Requested(s)
        /\ \A w \in Workers :
              /\ Bumped(s, Ctx(w)) /\ pc[w] \in {"wait", "parked"}
                    => waitVal[w] < notifier[Ctx(w)]
              /\ Woken(s, Ctx(w)) => pc[w] # "parked"

\* Joins happen in order, and m_threads is empty only after the last.
JoinProgress ==
    /\ \A s \in Stoppers : pc[s] = "join" =>
          \A w \in Workers : w < target[s] => pc[w] = "exit"
    /\ threads = 0 => \A w \in Workers : pc[w] = "exit"
    /\ \A w \in Workers : pc[w] # "trap"

IInv == /\ TypeOK
        /\ WhereOK
        /\ EmptyHanded
        /\ OneUpToDate
        /\ NotYetStopped
        /\ ShutdownProgress
        /\ JoinProgress

-----------------------------------------------------------------------------
\* The actions of Next, one by one, for the case splits below.
Act == \/ \E a \in Submitters : \/ CheckStop(a) \/ PickQueue(a) \/ Push(a)
                                \/ Publish(a) \/ Bump(a) \/ NotifyOne(a)
       \/ \E w \in Workers : \/ Loop(w) \/ Load(w) \/ Pop(w) \/ Steal(w)
                             \/ Recheck(w) \/ Wait(w) \/ Begin(w) \/ Return(w)
       \/ \E h \in Helpers : Scan(h) \/ Begin(h) \/ Return(h)
       \/ \E s \in Stoppers : \/ Cas(s) \/ Request(s) \/ WakeBump(s)
                              \/ WakeAll(s) \/ Join(s)

\* Next takes one of the actions listed in Act.
LEMMA NextIsAct == Next => Act
  BY DEF Next, Act, Submit, Work, Help, Shutdown

\* The front of a non-empty queue and what remains are what their types say.
LEMMA HeadTail ==
  ASSUME NEW q \in Seq(Tasks), q # <<>>
  PROVE  Head(q) \in Tasks /\ Tail(q) \in Seq(Tasks)
  OBVIOUS

\* Placing a task in a queue, in whatever order the class keeps, gives a
\* queue of tasks that is not empty.
LEMMA InsertType ==
  ASSUME TypeOK, NEW q \in Seq(Tasks), NEW t \in Tasks
  PROVE  Insert(q, t) \in Seq(Tasks) /\ Insert(q, t) # <<>>
  <1>1. class.order \in {"fifo", "lifo", "hot", "priority"}
    BY ClassesAssumption DEF TypeOK, AllClasses, gq, lq, lq_steal_seq,
       lq_steal_neighbor, gs, ls, gs_hot, ls_hot, gpq, lqlf_steal_seq, lfgq,
       lflq, Pool
  <1>2. Append(q, t) \in Seq(Tasks) /\ Append(q, t) # <<>>
    BY AppendProperties
  <1>3. <<t>> \o q \in Seq(Tasks) /\ <<t>> \o q # <<>>
    OBVIOUS
  <1>4. Cardinality(Ahead(q, t)) \in 0 .. Len(q)
    <2>1. IsFiniteSet(1 .. Len(q)) /\ Cardinality(1 .. Len(q)) = Len(q)
      <3>1. 1 \in Int /\ Len(q) \in Int /\ Len(q) >= 0
        OBVIOUS
      <3>2. /\ IsFiniteSet(1 .. Len(q))
            /\ Cardinality(1 .. Len(q)) = IF 1 > Len(q) THEN 0 ELSE Len(q) - 1 + 1
        BY ONLY <3>1, FS_Interval
      <3> QED BY <3>1, <3>2
    <2>2. Ahead(q, t) \subseteq 1 .. Len(q)
      BY DEF Ahead
    <2> QED BY <2>1, <2>2, FS_Subset, FS_CardinalityType
  <1>5. ASSUME NEW n \in 0 .. Len(q)
        PROVE  Place(q, t, n) \in Seq(Tasks) /\ Place(q, t, n) # <<>>
    <2>1. SubSeq(q, 1, n) \in Seq(Tasks) /\ SubSeq(q, n + 1, Len(q)) \in Seq(Tasks)
      OBVIOUS
    <2> QED BY <2>1 DEF Place
  <1> QED BY <1>1, <1>2, <1>3, <1>4, <1>5 DEF Insert

-----------------------------------------------------------------------------
(***************************************************************************)
(* Type correctness.                                                       *)
(***************************************************************************)
\* What the assumptions say of the sets of threads and of their programs.
LEMMA ConstantTypes ==
  /\ N \in Nat /\ N >= 1
  /\ Workers = 0 .. N - 1 /\ Contexts = 0 .. N - 1
  /\ \A w \in Workers : /\ w \in Submitters /\ w \in Actors
                        /\ w \notin Clients /\ w \notin Stoppers /\ w \notin Helpers
  /\ \A c \in Clients : /\ c \in Submitters /\ c \in Actors
                        /\ c \notin Stoppers /\ c \notin Helpers
  /\ \A h \in Helpers : h \in Submitters /\ h \in Actors /\ h \notin Stoppers
  /\ \A s \in Stoppers : s \in Actors /\ s \notin Submitters
  /\ \A a \in Submitters : a \in Actors
  /\ NoTask \notin Tasks
  /\ \A t \in Tasks : Children[t] \in Seq(Tasks)
  BY PoolAssumption, ActorsAssumption DEF Workers, Contexts, Submitters, Actors

\* A worker is at home in the context it serves.
LEMMA CtxType ==
  ASSUME TypeOK, NEW w \in Workers
  PROVE  Ctx(w) \in Contexts /\ w \in Home(Ctx(w))
  BY ConstantTypes DEF Ctx, Home

\* A remainder modulo the number of workers is a context.
LEMMA ModN == \A n \in Nat : n % N \in Contexts
  BY ConstantTypes

\* A loop over the workers stays among them.
LEMMA NextIndex ==
  ASSUME NEW i \in Contexts
  PROVE  (IF i < N - 1 THEN i + 1 ELSE 0) \in Contexts
  BY ConstantTypes

\* Every context a worker tries to steal from exists.
LEMMA StealOrderType ==
  ASSUME NEW w \in Workers, NEW i \in DOMAIN StealOrder(w)
  PROVE  StealOrder(w)[i] \in Contexts
  <1>1. w + 1 \in Nat /\ w + N - 1 \in Nat
    BY ConstantTypes
  <1>2. CASE class.steal = "neighbor"
    <2>1. StealOrder(w) = <<(w + 1) % N, (w + N - 1) % N>>
      BY <1>2 DEF StealOrder
    <2>2. StealOrder(w)[1] = (w + 1) % N /\ StealOrder(w)[2] = (w + N - 1) % N
      BY <2>1
    <2>3. i = 1 \/ i = 2
      BY <2>1
    <2> QED BY <1>1, <2>2, <2>3, ModN
  <1>3. CASE class.steal # "neighbor"
    <2>1. i \in 1 .. N - 1 /\ StealOrder(w)[i] = (w + i) % N
      BY <1>3 DEF StealOrder
    <2>2. w + i \in Nat
      BY <2>1, ConstantTypes
    <2> QED BY <2>1, <2>2, ModN
  <1> QED BY <1>2, <1>3

\* The constructor leaves every variable in its range.
LEMMA TypeInit == Init => TypeOK
  <1> SUFFICES ASSUME Init PROVE TypeOK
    OBVIOUS
  <1> USE DEF Init
  <1>1. queue \in [Contexts -> Seq(Tasks)]
    BY EmptySeq
  <1>2. pc \in [Actors -> Labels]
    BY DEF Labels
  <1>3. todo \in [Submitters -> Seq(Tasks)]
    BY PoolAssumption, EmptySeq
  <1> QED BY <1>1, <1>2, <1>3, ConstantTypes DEF TypeOK

\* Taking the front of a queue keeps the types.
LEMMA TakeType ==
  ASSUME TypeOK, NEW a \in Workers \cup Helpers, NEW c \in Contexts,
         Takeable(c), Take(a, c)
  PROVE  TypeOK'
  <1>1. Head(queue[c]) \in Tasks /\ Tail(queue[c]) \in Seq(Tasks)
    BY HeadTail DEF TypeOK, Takeable
  <1>2. Children[Head(queue[c])] \in Seq(Tasks)
    BY <1>1, ConstantTypes
  <1> QED BY <1>1, <1>2, ConstantTypes
             DEF Take, TypeOK, Labels, Become, Goto

\* Every step keeps every variable in its range: one case per action.
LEMMA TypeStep ==
  ASSUME TypeOK, WhereOK, [Act]_vars
  PROVE  TypeOK'
  <1>0. CASE UNCHANGED vars
    BY <1>0 DEF vars, poolVars, TypeOK
  <1>1. ASSUME NEW a \in Submitters, CheckStop(a) PROVE TypeOK'
    <2>1. Head(todo[a]) \in Tasks /\ Tail(todo[a]) \in Seq(Tasks)
      BY <1>1, HeadTail DEF CheckStop, TypeOK
    <2>2. todo' \in [Submitters -> Seq(Tasks)]
      BY <1>1, <2>1 DEF CheckStop, TypeOK
    <2>3. pc' \in [Actors -> Labels]
      BY <1>1 DEF CheckStop, TypeOK, Goto, Labels
    <2>4. task' \in [Submitters -> Tasks \cup {NoTask}]
      BY <1>1, <2>1 DEF CheckStop, TypeOK
    <2>5. status' \in [Tasks -> {"new", "refused", "offered", "queued", "taken",
                                 "running", "helped", "done"}]
      BY <1>1, <2>1 DEF CheckStop, TypeOK, Become
    <2> QED BY <1>1, <2>2, <2>3, <2>4, <2>5 DEF CheckStop, TypeOK, poolVars
  <1>2. ASSUME NEW a \in Submitters, PickQueue(a) PROVE TypeOK'
    <2>1. m_next' \in Nat
      BY <1>2 DEF PickQueue, TypeOK
    <2>2. pc' \in [Actors -> Labels]
      BY <1>2 DEF PickQueue, TypeOK, Goto, Labels
    <2>3. threads # 0 => m_next % threads \in Nat
      BY ModN, ConstantTypes DEF TypeOK
    <2>4. target' \in [Actors -> Nat]
      BY <1>2, <2>3 DEF PickQueue, TypeOK
    <2> QED BY <1>2, <2>1, <2>2, <2>4 DEF PickQueue, TypeOK
  <1>3. ASSUME NEW a \in Submitters, Push(a) PROVE TypeOK'
    <2>1. target[a] \in Contexts /\ task[a] \in Tasks
      BY <1>3 DEF Push, WhereOK, SubmitOK, SubmitAt, StealOK, ReadyOK, StopOK
    <2>2. Insert(queue[target[a]], task[a]) \in Seq(Tasks)
      BY <2>1, InsertType DEF TypeOK
    <2> QED BY <1>3, <2>1, <2>2 DEF Push, TypeOK, Goto, Become, Labels
  <1>4. ASSUME NEW a \in Submitters, Publish(a) PROVE TypeOK'
    BY <1>4 DEF Publish, TypeOK, Goto, Labels, poolVars
  <1>5. ASSUME NEW a \in Submitters, Bump(a) PROVE TypeOK'
    <2>0. target[a] \in Contexts
      BY <1>5 DEF Bump, WhereOK, SubmitOK, SubmitAt, StealOK, ReadyOK, StopOK
    <2>1. notifier' \in [Contexts -> Nat]
      BY <1>5, <2>0 DEF Bump, TypeOK
    <2>2. pc' \in [Actors -> Labels]
      BY <1>5 DEF Bump, TypeOK, Goto, Labels
    <2> QED BY <1>5, <2>1, <2>2 DEF Bump, TypeOK
  <1>6. ASSUME NEW a \in Submitters, NotifyOne(a) PROVE TypeOK'
    BY <1>6 DEF NotifyOne, TypeOK, Goto, Labels, poolVars
  <1>7. ASSUME NEW w \in Workers, Loop(w) PROVE TypeOK'
    BY <1>7 DEF Loop, TypeOK, Goto, Labels, poolVars
  <1>8. ASSUME NEW w \in Workers, Load(w) PROVE TypeOK'
    BY <1>8, CtxType DEF Load, TypeOK, Goto, Labels, poolVars
  <1>9. ASSUME NEW w \in Workers, Pop(w) PROVE TypeOK'
    <2>1. CASE Takeable(Ctx(w)) /\ Take(w, Ctx(w))
      BY <2>1, CtxType, TakeType
    <2>2. CASE ~Takeable(Ctx(w))
      <3>0. target' = [target EXCEPT ![w] = IF Steals THEN 1 ELSE 0]
        BY <1>9, <2>2 DEF Pop
      <3>1. target' \in [Actors -> Nat]
        BY <3>0 DEF TypeOK
      <3>2. pc' \in [Actors -> Labels]
        BY <1>9, <2>2 DEF Pop, TypeOK, Goto, Labels
      <3> QED BY <1>9, <2>2, <3>1, <3>2 DEF Pop, TypeOK, poolVars
    <2> QED BY <1>9, <2>1, <2>2 DEF Pop
  <1>10. ASSUME NEW w \in Workers, Steal(w) PROVE TypeOK'
    <2> DEFINE c == StealOrder(w)[target[w]]
    <2>1. c \in Contexts
      BY <1>10, StealOrderType DEF Steal, WhereOK, SubmitOK, SubmitAt, StealOK, ReadyOK, StopOK
    <2>2. CASE Takeable(c) /\ Take(w, c)
      BY <2>1, <2>2, TakeType
    <2>3. CASE ~(Takeable(c) /\ Take(w, c))
      <3>1. target' \in [Actors -> Nat]
        BY <1>10, <2>3 DEF Steal, TypeOK
      <3>2. pc' \in [Actors -> Labels]
        BY <1>10, <2>3 DEF Steal, TypeOK, Goto, Labels
      <3> QED BY <1>10, <2>3, <3>1, <3>2 DEF Steal, TypeOK, poolVars
    <2> QED BY <2>2, <2>3
  <1>11. ASSUME NEW w \in Workers, Recheck(w) PROVE TypeOK'
    BY <1>11 DEF Recheck, TypeOK, Goto, Labels, poolVars
  <1>12. ASSUME NEW w \in Workers, Wait(w) PROVE TypeOK'
    BY <1>12 DEF Wait, TypeOK, Goto, Labels, poolVars
  <1>13. ASSUME NEW a \in Workers \cup Helpers, Return(a) PROVE TypeOK'
    BY <1>13 DEF Return, TypeOK, Goto, Become, Labels, poolVars
  <1>14. ASSUME NEW h \in Helpers, Scan(h) PROVE TypeOK'
    <2>1. target[h] \in Contexts
      BY <1>14 DEF Scan, WhereOK, SubmitOK, SubmitAt, StealOK, ReadyOK, StopOK
    <2>2. CASE Takeable(target[h]) /\ Take(h, target[h])
      BY <2>1, <2>2, TakeType
    <2>3. CASE ~Takeable(target[h])
      <3>0. target[h] + 1 \in Nat /\ Contexts \subseteq Nat
        BY <2>1, ConstantTypes
      <3>1. (target[h] + 1) % N \in Nat
        BY <3>0, ModN
      <3>2. target' \in [Actors -> Nat]
        BY <1>14, <2>3, <3>1 DEF Scan, TypeOK
      <3> QED BY <1>14, <2>3, <3>2 DEF Scan, TypeOK, poolVars
    <2> QED BY <1>14, <2>2, <2>3 DEF Scan
  <1>20. ASSUME NEW a \in Workers \cup Helpers, Begin(a) PROVE TypeOK'
    BY <1>20 DEF Begin, TypeOK, Goto, Become, Labels, poolVars
  <1>15. ASSUME NEW s \in Stoppers, Cas(s) PROVE TypeOK'
    BY <1>15 DEF Cas, TypeOK, Goto, Labels
  <1>16. ASSUME NEW s \in Stoppers, Request(s) PROVE TypeOK'
    <2>1. target[s] \in Contexts
      BY <1>16 DEF WhereOK, SubmitOK, SubmitAt, StealOK, ReadyOK, StopOK
    <2>2. target' \in [Actors -> Nat]
      <3>1. target[s] + 1 \in Nat
        BY <2>1, ConstantTypes
      <3>2. target' = [target EXCEPT ![s] = IF target[s] < N - 1 THEN @ + 1 ELSE 0]
        BY <1>16 DEF Request, Advance
      <3> QED BY <3>1, <3>2 DEF TypeOK
    <2>3. pc' \in [Actors -> Labels]
      BY <1>16 DEF Request, Advance, TypeOK, Goto, Labels
    <2>4. stopReq' \subseteq Workers
      BY <1>16, <2>1 DEF Request, TypeOK, Contexts, Workers
    <2> QED BY <1>16, <2>2, <2>3, <2>4 DEF Request, TypeOK
  <1>17. ASSUME NEW s \in Stoppers, WakeBump(s) PROVE TypeOK'
    <2>0. target[s] \in Contexts
      BY <1>17 DEF WhereOK, SubmitOK, SubmitAt, StealOK, ReadyOK, StopOK
    <2>1. notifier' \in [Contexts -> Nat]
      <3>0. notifier[target[s]] \in Nat
        BY <2>0 DEF TypeOK
      <3>1. notifier[target[s]] + (IF class.shared THEN N ELSE 1) \in Nat
        <4> DEFINE k == IF class.shared THEN N ELSE 1
        <4>1. k \in Nat
          BY PoolAssumption
        <4> HIDE DEF k
        <4>2. notifier[target[s]] + k \in Nat
          BY <3>0, <4>1
        <4> QED BY <4>2 DEF k
      <3> QED BY <1>17, <3>1 DEF WakeBump, TypeOK
    <2>2. pc' \in [Actors -> Labels]
      BY <1>17 DEF WakeBump, TypeOK, Goto, Labels
    <2> QED BY <1>17, <2>1, <2>2 DEF WakeBump, TypeOK
  <1>18. ASSUME NEW s \in Stoppers, WakeAll(s) PROVE TypeOK'
    <2>1. target' \in [Actors -> Nat]
      <3>1. target[s] \in Nat /\ target[s] + 1 \in Nat
        BY <1>18, ConstantTypes DEF TypeOK
      <3> QED BY <1>18, <3>1 DEF WakeAll, TypeOK
    <2>2. pc' \in [Actors -> Labels]
      BY <1>18 DEF WakeAll, TypeOK, Labels
    <2> QED BY <1>18, <2>1, <2>2 DEF WakeAll, TypeOK, poolVars
  <1>19. ASSUME NEW s \in Stoppers, Join(s) PROVE TypeOK'
    <2>1. target' \in [Actors -> Nat]
      BY <1>19 DEF Join, Advance, TypeOK
    <2>2. pc' \in [Actors -> Labels]
      <3>1. pc' = pc \/ pc' = [pc EXCEPT ![s] = "returned"]
        BY <1>19 DEF Join, Advance, Goto
      <3> QED BY <3>1 DEF TypeOK, Labels
    <2>3. threads' \in {0, N}
      BY <1>19 DEF Join, TypeOK
    <2> QED BY <1>19, <2>1, <2>2, <2>3 DEF Join, TypeOK
  <1> QED BY <1>0, <1>1, <1>2, <1>3, <1>4, <1>5, <1>6, <1>7, <1>8, <1>9, <1>10,
             <1>11, <1>12, <1>13, <1>14, <1>15, <1>16, <1>17, <1>18, <1>19, <1>20
          DEF Act

-----------------------------------------------------------------------------
(***************************************************************************)
(* Where each action leads, and what it leaves alone.                      *)
(***************************************************************************)
Move(a, from, to) == pc[a] = from /\ pc'[a] \in to

\* Where a thread inside derived_execute goes next.
LEMMA SubmitMoves ==
  ASSUME TypeOK, NEW a \in Submitters
  PROVE  /\ CheckStop(a) => Move(a, "call", {"call", "push", "index"})
         /\ PickQueue(a) => Move(a, "index", {"trap", "push"})
         /\ Push(a)      => Move(a, "push", {"publish", "bump"})
         /\ Publish(a)   => Move(a, "publish", {"bump"})
         /\ Bump(a)      => Move(a, "bump", {"notify"})
         /\ NotifyOne(a) => Move(a, "notify", {"call"})
  <1>1. NotifyOne(a) => Move(a, "notify", {"call"})
    BY ConstantTypes DEF TypeOK, Move, Goto, NotifyOne, Parked
  <1> QED BY <1>1, ConstantTypes
             DEF TypeOK, Move, Goto, CheckStop, PickQueue, Push, Publish, Bump

\* Where a thread inside worker_loop goes next.
LEMMA WorkMoves ==
  ASSUME TypeOK, NEW w \in Workers
  PROVE  /\ Loop(w)    => Move(w, "loop", {"exit", "load"})
         /\ Load(w)    => Move(w, "load", {"pop"})
         /\ Pop(w)     => Move(w, "pop", {"begin", "steal", "recheck"})
         /\ Steal(w)   => Move(w, "steal", {"begin", "steal", "recheck"})
         /\ Recheck(w) => Move(w, "recheck", {"exit", "wait"})
         /\ Wait(w)    => Move(w, "wait", {"parked", "loop"})
         /\ Begin(w)   => Move(w, "begin", {"call"})
         /\ Return(w)  => Move(w, "call", {"loop"})
  <1>1. Steal(w) => Move(w, "steal", {"begin", "steal", "recheck"})
    BY ConstantTypes DEF TypeOK, Move, Goto, Steal, Take
  <1> QED BY <1>1, ConstantTypes
             DEF TypeOK, Move, Goto, Loop, Load, Pop, Take, Recheck, Wait, Begin, Return

\* Where a thread that calls try_steal goes next.
LEMMA HelpMoves ==
  ASSUME TypeOK, NEW h \in Helpers
  PROVE  /\ Scan(h)   => Move(h, "ready", {"begin", "ready"})
         /\ Begin(h)  => Move(h, "begin", {"call"})
         /\ Return(h) => Move(h, "call", {"ready"})
  <1>1. Return(h) => Move(h, "call", {"ready"})
    BY ConstantTypes DEF TypeOK, Move, Goto, Return
  <1>2. ASSUME Scan(h) PROVE Move(h, "ready", {"begin", "ready"})
    BY <1>2, ConstantTypes DEF TypeOK, Move, Goto, Scan, Take
  <1>3. Begin(h) => Move(h, "begin", {"call"})
    BY ConstantTypes DEF TypeOK, Move, Goto, Begin
  <1> QED BY <1>1, <1>2, <1>3

\* Where a thread inside shutdown goes next.
LEMMA StopMoves ==
  ASSUME TypeOK, NEW s \in Stoppers
  PROVE  /\ Cas(s)      => Move(s, "cas", {"returned", "request"})
         /\ Request(s)  => Move(s, "request", {"request", "wakebump"})
         /\ WakeBump(s) => Move(s, "wakebump", {"wakeall"})
         /\ Join(s)     => Move(s, "join", {"join", "returned"})
  BY ConstantTypes DEF TypeOK, Move, Goto, Cas, Request, WakeBump, Join, Advance

\* The steps of one thread.
ActOf(a) ==
  \/ a \in Submitters /\ \/ CheckStop(a) \/ PickQueue(a) \/ Push(a)
                         \/ Publish(a) \/ Bump(a) \/ NotifyOne(a)
  \/ a \in Workers /\ \/ Loop(a) \/ Load(a) \/ Pop(a) \/ Steal(a)
                      \/ Recheck(a) \/ Wait(a) \/ Begin(a) \/ Return(a)
  \/ a \in Helpers /\ (Scan(a) \/ Begin(a) \/ Return(a))
  \/ a \in Stoppers /\ \/ Cas(a) \/ Request(a) \/ WakeBump(a)
                       \/ WakeAll(a) \/ Join(a)

\* Every step is a step of some thread.
LEMMA ActIsActOf == Act => \E a \in Actors : ActOf(a)
  BY DEF Act, ActOf, Actors, Submitters

\* A step of one thread leaves the locals of the others alone, except that it
\* may wake workers that are parked.
Others(a) ==
  /\ class' = class
  /\ \A b \in Actors \ {a} :
        /\ target'[b] = target[b]
        /\ \/ pc'[b] = pc[b]
           \/ b \in Workers /\ pc[b] = "parked" /\ pc'[b] = "loop"
  /\ \A b \in Submitters \ {a} : task'[b] = task[b]
  /\ \A b \in Workers \ {a} : waitVal'[b] = waitVal[b]

\* A step of some thread is a step of the specification.
LEMMA ActStep ==
  ASSUME NEW a \in Actors, ActOf(a)
  PROVE  Act
  BY ConstantTypes DEF ActOf, Act

\* A step of one thread leaves the private state of the others alone, but
\* for waking those that are parked.
LEMMA Frame ==
  ASSUME TypeOK, NEW a \in Actors, ActOf(a)
  PROVE  Others(a)
  <1> USE ConstantTypes DEF TypeOK, Others, Goto, poolVars
  <1>1. CASE a \in Submitters /\ CheckStop(a)
    BY <1>1 DEF CheckStop
  <1>2. CASE a \in Submitters /\ PickQueue(a)
    BY <1>2 DEF PickQueue
  <1>3. CASE a \in Submitters /\ Push(a)
    BY <1>3 DEF Push
  <1>4. CASE a \in Submitters /\ Publish(a)
    BY <1>4 DEF Publish
  <1>5. CASE a \in Submitters /\ Bump(a)
    BY <1>5 DEF Bump
  <1>6. CASE a \in Submitters /\ NotifyOne(a)
    BY SMTT(30), <1>6 DEF NotifyOne, Parked, Home
  <1>7. CASE a \in Workers /\ Loop(a)
    BY <1>7 DEF Loop
  <1>8. CASE a \in Workers /\ Load(a)
    BY <1>8 DEF Load
  <1>9. CASE a \in Workers /\ Pop(a)
    BY <1>9 DEF Pop, Take
  <1>10. CASE a \in Workers /\ Steal(a)
    <2>1. CASE Take(a, StealOrder(a)[target[a]])
      BY <2>1 DEF Take
    <2>2. CASE /\ \/ target' = [target EXCEPT ![a] = @ + 1] /\ UNCHANGED pc
                  \/ target' = [target EXCEPT ![a] = 0] /\ Goto(a, "recheck")
               /\ UNCHANGED <<poolVars, todo, job, task, waitVal, status>>
      BY <2>2
    <2> QED BY <1>10, <2>1, <2>2 DEF Steal
  <1>11. CASE a \in Workers /\ Recheck(a)
    BY <1>11 DEF Recheck
  <1>12. CASE a \in Workers /\ Wait(a)
    BY <1>12 DEF Wait
  <1>13. CASE a \in Workers \cup Helpers /\ Return(a)
    BY <1>13 DEF Return
  <1>20. CASE a \in Workers \cup Helpers /\ Begin(a)
    BY <1>20 DEF Begin
  <1>14. CASE a \in Helpers /\ Scan(a)
    <2>1. CASE Take(a, target[a])
      BY <2>1 DEF Take
    <2>2. CASE /\ target' = [target EXCEPT ![a] = (@ + 1) % N]
               /\ UNCHANGED <<poolVars, pc, todo, job, task, waitVal, status>>
      BY <2>2
    <2> QED BY <1>14, <2>1, <2>2 DEF Scan
  <1>15. CASE a \in Stoppers /\ Cas(a)
    BY <1>15 DEF Cas
  <1>16. CASE a \in Stoppers /\ Request(a)
    BY <1>16 DEF Request, Advance
  <1>17. CASE a \in Stoppers /\ WakeBump(a)
    BY <1>17 DEF WakeBump
  <1>18. CASE a \in Stoppers /\ WakeAll(a)
    BY <1>18 DEF WakeAll, Parked, Home
  <1>19. CASE a \in Stoppers /\ Join(a)
    BY <1>19 DEF Join, Advance
  <1> QED BY <1>1, <1>2, <1>3, <1>4, <1>5, <1>6, <1>7, <1>8, <1>9, <1>10,
             <1>11, <1>12, <1>13, <1>14, <1>15, <1>16, <1>17, <1>18, <1>19, <1>20
          DEF ActOf

-----------------------------------------------------------------------------
(***************************************************************************)
(* Each thread stays in its own part of the code, on a context that exists.*)
(***************************************************************************)
\* A step keeps each thread in its own part of the code.
LEMMA LabelsStep ==
  ASSUME TypeOK, LabelsOK, NEW a \in Actors, ActOf(a)
  PROVE  LabelsOK'
  <1> USE ConstantTypes DEF LabelsOK, WorkerLabels, SubmitLabels, StopLabels
  <1>1. \A b \in Actors \ {a} : pc'[b] = pc[b] \/ (b \in Workers /\ pc'[b] = "loop")
    BY Frame DEF Others
  <1>2. ASSUME a \in Submitters,
               CheckStop(a) \/ PickQueue(a) \/ Push(a) \/ Publish(a) \/ Bump(a)
                  \/ NotifyOne(a)
        PROVE  pc'[a] \in SubmitLabels
    BY <1>2, SubmitMoves DEF Move
  <1>3. ASSUME a \in Workers,
               Loop(a) \/ Load(a) \/ Pop(a) \/ Steal(a) \/ Recheck(a)
                  \/ Wait(a) \/ Begin(a) \/ Return(a)
        PROVE  pc'[a] \in WorkerLabels
    BY <1>3, WorkMoves DEF Move, TypeOK
  <1>4. ASSUME a \in Helpers, Scan(a) \/ Begin(a) \/ Return(a)
        PROVE  pc'[a] \in SubmitLabels \cup {"ready", "begin"}
    BY <1>4, HelpMoves DEF Move, TypeOK
  <1>5. a \in Stoppers => pc'[a] \in StopLabels \cup {"cas"}
    <2>1. ASSUME a \in Stoppers, WakeAll(a) PROVE pc'[a] \in StopLabels
      BY <2>1 DEF WakeAll, Parked, Home, TypeOK
    <2> QED BY <2>1, StopMoves DEF ActOf, Move, TypeOK
  <1>6. /\ a \in Workers => pc'[a] \in WorkerLabels
        /\ a \in Clients => pc'[a] \in SubmitLabels
        /\ a \in Helpers => pc'[a] \in SubmitLabels \cup {"ready", "begin"}
    BY <1>2, <1>3, <1>4 DEF ActOf
  <1> QED BY <1>1, <1>5, <1>6

\* A step keeps every submitter on a context that exists.
LEMMA SubmitStep ==
  ASSUME TypeOK, WhereOK, NEW a \in Actors, ActOf(a)
  PROVE  SubmitOK'
  <1> SUFFICES ASSUME NEW b \in Submitters
               PROVE  SubmitAt(b)'
    BY DEF SubmitOK
  <1> USE ConstantTypes
  <1>1. CASE b # a
    BY <1>1, Frame DEF Others, WhereOK, SubmitOK, SubmitAt
  <1>2. CASE b = a
    <2> USE <1>2 DEF SubmitAt, TypeOK, Goto, poolVars
    <2>0. SubmitAt(a) /\ pc[a] \in Labels
      BY DEF WhereOK, SubmitOK
    <2>1. CASE CheckStop(a)
      <3>1. Head(todo[a]) \in Tasks
        BY <2>1, HeadTail DEF CheckStop
      <3>2. target' = target /\ class' = class /\ target[a] = 0 /\ 0 \in Contexts
        BY <2>0, <2>1 DEF CheckStop
      <3>3. CASE m_stop
        BY <2>1, <3>2, <3>3 DEF CheckStop
      <3>4. CASE ~m_stop
        BY <2>1, <3>1, <3>2, <3>4 DEF CheckStop
      <3> QED BY <3>3, <3>4
    <2>2. CASE PickQueue(a)
      <3>1. task[a] \in Tasks /\ ~class.shared
        BY <2>0, <2>2 DEF PickQueue
      <3>2. CASE threads = 0
        BY <2>2, <3>2 DEF PickQueue
      <3>3. CASE threads = N
        <4>1. m_next % threads \in Contexts
          BY <3>3, ModN
        <4> QED BY SMTT(30), <2>2, <3>1, <3>3, <4>1 DEF PickQueue
      <3> QED BY <3>2, <3>3
    <2>3. CASE Push(a)
      BY <2>0, <2>3 DEF Push
    <2>4. CASE Publish(a)
      BY <2>0, <2>4 DEF Publish
    <2>5. CASE Bump(a)
      BY <2>0, <2>5 DEF Bump
    <2>6. CASE NotifyOne(a)
      <3>1. pc'[a] = "call" /\ target'[a] = 0
        BY <2>6 DEF NotifyOne, Parked
      <3> QED BY <3>1
    <2>7. CASE a \in Workers /\ (Loop(a) \/ Load(a) \/ Recheck(a) \/ Wait(a))
      <3>1. pc'[a] \in {"exit", "load", "pop", "wait", "parked", "loop"}
        BY <2>7, WorkMoves DEF Move
      <3> QED BY <3>1
    <2>8. CASE Return(a)
      <3>1. pc'[a] \in {"loop", "ready"}
        BY <2>8 DEF Return
      <3> QED BY <3>1
    <2>9. CASE a \in Workers /\ Pop(a)
      <3>1. CASE Takeable(Ctx(a)) /\ Take(a, Ctx(a))
        <4>1. pc'[a] = "begin" /\ target'[a] = 0
          BY <3>1 DEF Take
        <4> QED BY <4>1
      <3>2. CASE ~Takeable(Ctx(a))
        <4>1. pc'[a] \in {"steal", "recheck"}
          BY <2>9, <3>2 DEF Pop
        <4> QED BY <4>1
      <3> QED BY <2>9, <3>1, <3>2 DEF Pop
    <2>10. CASE a \in Workers /\ Steal(a)
      <3>1. \/ pc'[a] = "begin" /\ target'[a] = 0
            \/ pc'[a] \in {"steal", "recheck"}
        BY <2>10 DEF Steal, Take
      <3> QED BY <3>1
    <2>11. CASE a \in Helpers /\ Scan(a)
      <3>1. \/ pc'[a] = "begin" /\ target'[a] = 0
            \/ pc'[a] = "ready"
        BY <2>11 DEF Scan, Take
      <3> QED BY <3>1
    <2>12. CASE Begin(a)
      <3>1. pc'[a] = "call" /\ target'[a] = 0
        BY <2>0, <2>12 DEF Begin
      <3> QED BY <3>1
    <2> QED BY <2>1, <2>2, <2>3, <2>4, <2>5, <2>6, <2>7, <2>8, <2>9, <2>10,
               <2>11, <2>12 DEF ActOf
  <1> QED BY <1>1, <1>2

\* The stealing classes, and the one with try_steal, have one queue per worker.
LEMMA StealersAreLocal ==
  ASSUME TypeOK
  PROVE  (Steals => ~class.shared) /\ (class = lqlf_steal_seq => ~class.shared)
  BY ClassesAssumption DEF TypeOK, Steals, AllClasses, gq, lq, lq_steal_seq,
     lq_steal_neighbor, gs, ls, gs_hot, ls_hot, gpq, lqlf_steal_seq, lfgq,
     lflq, Pool

\* An idle worker of a stealing class has somebody to steal from.
LEMMA StealOrderDomain ==
  ASSUME NEW w \in Workers, Steals
  PROVE  /\ 1 \in DOMAIN StealOrder(w)
         /\ \A i \in DOMAIN StealOrder(w) :
               i < Len(StealOrder(w)) => i + 1 \in DOMAIN StealOrder(w)
  <1>1. N - 1 \in Nat /\ N - 1 >= 1
    BY ConstantTypes DEF Steals
  <1>2. CASE class.steal = "neighbor"
    <2>1. StealOrder(w) = <<(w + 1) % N, (w + N - 1) % N>>
      BY <1>2 DEF StealOrder
    <2>2. DOMAIN StealOrder(w) = 1 .. 2 /\ Len(StealOrder(w)) = 2
      BY <2>1
    <2> QED BY <2>2
  <1>3. CASE class.steal # "neighbor"
    <2>1. StealOrder(w) = [i \in 1 .. N - 1 |-> (w + i) % N]
      BY <1>3 DEF StealOrder
    <2>2. DOMAIN StealOrder(w) = 1 .. N - 1 /\ Len(StealOrder(w)) = N - 1
      BY <1>1, <2>1
    <2> QED BY <1>1, <2>2
  <1> QED BY <1>2, <1>3

\* A step keeps every thief at a position of its steal order.
LEMMA StealStep ==
  ASSUME TypeOK, WhereOK, NEW a \in Actors, ActOf(a)
  PROVE  StealOK'
  <1> SUFFICES ASSUME NEW w \in Workers, pc'[w] = "steal"
               PROVE  Steals' /\ target'[w] \in DOMAIN StealOrder(w)'
    BY DEF StealOK
  <1>1. Steals' = Steals /\ StealOrder(w)' = StealOrder(w)
    BY Frame DEF Others, Steals, StealOrder
  <1>2. CASE w # a
    BY <1>1, <1>2, Frame, ConstantTypes DEF Others, WhereOK, StealOK
  <1>3. CASE w = a
    <2>1. Pop(a) \/ Steal(a)
      BY <1>3, SubmitMoves, WorkMoves, ConstantTypes DEF ActOf, Move
    <2>2. CASE Pop(a)
      <3>1. Steals /\ target'[a] = 1
        BY <1>3, <2>2, ConstantTypes DEF Pop, Take, Goto, TypeOK
      <3> QED BY <1>1, <1>3, <3>1, StealOrderDomain
    <2>3. CASE Steal(a)
      <3>1. Steals /\ target[a] \in DOMAIN StealOrder(a)
        BY <1>3, <2>3 DEF Steal, WhereOK, StealOK
      <3>2. target[a] < Len(StealOrder(a)) /\ target'[a] = target[a] + 1
        BY <1>3, <2>3, ConstantTypes DEF Steal, Take, Goto, TypeOK
      <3> QED BY <1>1, <1>3, <3>1, <3>2, StealOrderDomain
    <2> QED BY <2>1, <2>2, <2>3
  <1> QED BY <1>2, <1>3

\* A step keeps a scan of try_steal among the contexts.
LEMMA ReadyStep ==
  ASSUME TypeOK, WhereOK, NEW a \in Actors, ActOf(a)
  PROVE  ReadyOK'
  <1>0. ASSUME NEW h \in Helpers, class' # lqlf_steal_seq PROVE pc'[h] = "ready"
    <2>1. class # lqlf_steal_seq /\ pc[h] = "ready"
      BY <1>0, Frame DEF Others, WhereOK, ReadyOK
    <2>2. h # a
      BY <2>1, SubmitMoves, HelpMoves, ConstantTypes DEF ActOf, Move, Scan
    <2> QED BY <2>1, <2>2, Frame, ConstantTypes DEF Others
  <1> SUFFICES ASSUME NEW h \in Helpers, pc'[h] = "ready"
               PROVE  target'[h] \in Contexts
    BY <1>0 DEF ReadyOK
  <1>1. CASE h # a
    BY <1>1, Frame, ConstantTypes DEF Others, WhereOK, ReadyOK
  <1>2. CASE h = a
    <2>1. Scan(a) \/ Return(a)
      BY <1>2, SubmitMoves, HelpMoves, ConstantTypes DEF ActOf, Move
    <2>2. CASE Scan(a)
      <3>1. target[a] + 1 \in Nat
        BY <1>2, ConstantTypes DEF TypeOK
      <3>2. target'[a] = (target[a] + 1) % N
        BY <1>2, <2>2, ConstantTypes DEF Scan, Take, Goto, TypeOK
      <3> QED BY <1>2, <3>1, <3>2, ModN
    <2>3. CASE Return(a)
      <3>1. target'[a] = target[a] /\ target[a] = 0
        BY <1>2, <2>3, ConstantTypes DEF Return, WhereOK, SubmitOK, SubmitAt
      <3> QED BY <1>2, <3>1, ConstantTypes
    <2> QED BY <2>1, <2>2, <2>3
  <1> QED BY <1>1, <1>2

\* A step keeps the loops of shutdown among the contexts.
LEMMA StopStep ==
  ASSUME TypeOK, WhereOK, NEW a \in Actors, ActOf(a)
  PROVE  StopOK'
  <1> SUFFICES ASSUME NEW s \in Stoppers
               PROVE  /\ target'[s] \in Contexts
                      /\ pc'[s] = "cas" => target'[s] = 0
                      /\ class'.shared /\ pc'[s] \in {"wakebump", "wakeall"}
                            => target'[s] = 0
    BY DEF StopOK
  <1>0. /\ target[s] \in Contexts
        /\ pc[s] = "cas" => target[s] = 0
        /\ class.shared /\ pc[s] \in {"wakebump", "wakeall"} => target[s] = 0
    BY DEF WhereOK, StopOK
  <1>1. CASE s # a
    BY <1>0, <1>1, Frame, ConstantTypes DEF Others
  <1>2. CASE s = a
    <2> USE <1>2, ConstantTypes DEF TypeOK, Goto, poolVars
    <2>1. CASE Cas(a)
      BY <1>0, <2>1 DEF Cas
    <2>2. CASE Request(a)
      <3>1. target'[a] = IF target[a] < N - 1 THEN target[a] + 1 ELSE 0
        BY <2>2 DEF Request, Advance
      <3>2. pc'[a] \in {"request", "wakebump"} /\ class' = class
        BY <2>2, StopMoves DEF Request, Move
      <3>3. pc'[a] = "wakebump" => target'[a] = 0
        BY <2>2 DEF Request, Advance
      <3>4. target'[a] \in Contexts
        BY <1>0, <3>1, NextIndex
      <3> HIDE ConstantTypes DEF TypeOK
      <3> QED BY <1>0, <1>2, <3>2, <3>3, <3>4
    <2>3. CASE WakeBump(a)
      BY <1>0, <2>3 DEF WakeBump
    <2>4. CASE WakeAll(a)
      <3>1. a \notin Parked(target[a])
        BY DEF Parked, Home
      <3>2. CASE class.shared \/ target[a] = N - 1
        <4>1. target'[a] = 0 /\ pc'[a] = "join"
          BY <2>4, <3>1, <3>2 DEF WakeAll
        <4> QED BY <4>1
      <3>3. CASE ~(class.shared \/ target[a] = N - 1)
        <4>1. target'[a] = target[a] + 1 /\ class' = class /\ pc'[a] = "wakebump"
          BY <2>4, <3>1, <3>3 DEF WakeAll
        <4> QED BY <1>0, <3>3, <4>1
      <3> QED BY <3>2, <3>3
    <2>5. CASE Join(a)
      <3>1. target'[a] = IF target[a] < N - 1 THEN target[a] + 1 ELSE 0
        BY <2>5 DEF Join, Advance
      <3>2. pc'[a] \in {"join", "returned"}
        BY <2>5, StopMoves DEF Move
      <3>3. target'[a] \in Contexts
        BY <1>0, <3>1, NextIndex
      <3> HIDE ConstantTypes DEF TypeOK
      <3> QED BY <1>0, <1>2, <3>2, <3>3
    <2> QED BY <2>1, <2>2, <2>3, <2>4, <2>5 DEF ActOf
  <1> QED BY <1>1, <1>2

-----------------------------------------------------------------------------
(***************************************************************************)
(* What a step can do to the shared state.                                 *)
(***************************************************************************)
\* A queue becomes non-empty only by a push to it.
LEMMA QueueEffect ==
  ASSUME TypeOK, WhereOK, NEW a \in Actors, ActOf(a), NEW c \in Contexts
  PROVE  queue'[c] # queue[c] =>
            \/ queue[c] # <<>> /\ (class.shared => c = 0)
            \/ a \in Submitters /\ Push(a) /\ target[a] = c
  <1> USE ConstantTypes DEF TypeOK, poolVars
  <1>1. ASSUME NEW d \in Contexts, Takeable(d), Take(a, d),
               class.shared => d = 0
        PROVE  queue'[c] # queue[c] => queue[c] # <<>> /\ (class.shared => c = 0)
    BY <1>1 DEF Take, Takeable
  <1>2. CASE a \in Submitters /\ Push(a)
    BY <1>2 DEF Push
  <1>3. CASE a \in Workers /\ Pop(a)
    <2>1. Ctx(a) \in Contexts /\ (class.shared => Ctx(a) = 0)
      BY <1>3, CtxType DEF Ctx
    <2> QED BY <1>1, <1>3, <2>1 DEF Pop
  <1>4. CASE a \in Workers /\ Steal(a)
    <2> DEFINE d == StealOrder(a)[target[a]]
    <2>1. d \in Contexts /\ ~class.shared
      BY <1>4, StealOrderType, StealersAreLocal DEF Steal, WhereOK, StealOK
    <2>2. CASE Takeable(d) /\ Take(a, d)
      BY <1>1, <2>1, <2>2
    <2>3. CASE ~(Takeable(d) /\ Take(a, d))
      BY <1>4, <2>3 DEF Steal
    <2> QED BY <2>2, <2>3
  <1>5. CASE a \in Helpers /\ Scan(a)
    <2>1. target[a] \in Contexts /\ ~class.shared
      BY <1>5, StealersAreLocal DEF Scan, WhereOK, ReadyOK
    <2> QED BY <1>1, <1>5, <2>1 DEF Scan
  <1>6. CASE a \in Submitters /\ (CheckStop(a) \/ PickQueue(a) \/ Publish(a)
                                     \/ Bump(a) \/ NotifyOne(a))
    BY <1>6 DEF CheckStop, PickQueue, Publish, Bump, NotifyOne
  <1>7. CASE \/ a \in Workers /\ (Loop(a) \/ Load(a) \/ Recheck(a) \/ Wait(a))
             \/ a \in Workers \cup Helpers /\ (Begin(a) \/ Return(a))
    BY <1>7 DEF Loop, Load, Recheck, Wait, Begin, Return
  <1>8. CASE a \in Stoppers /\ (Cas(a) \/ Request(a) \/ WakeBump(a)
                                   \/ WakeAll(a) \/ Join(a))
    BY <1>8 DEF Cas, Request, WakeBump, WakeAll, Join
  <1> QED BY <1>2, <1>3, <1>4, <1>5, <1>6, <1>7, <1>8 DEF ActOf

\* A notifier only grows, and only by a submitter or by shutdown.
LEMMA NotifierEffect ==
  ASSUME TypeOK, WhereOK, NEW a \in Actors, ActOf(a), NEW c \in Contexts
  PROVE  \/ notifier'[c] = notifier[c]
         \/ /\ notifier'[c] > notifier[c] /\ target[a] = c
            /\ (a \in Submitters /\ Bump(a)) \/ (a \in Stoppers /\ WakeBump(a))
  <1> USE ConstantTypes DEF TypeOK, poolVars
  <1>1. CASE a \in Submitters /\ Bump(a)
    BY <1>1 DEF Bump
  <1>2. CASE a \in Stoppers /\ WakeBump(a)
    <2>1. (IF class.shared THEN N ELSE 1) \in Nat \ {0}
      OBVIOUS
    <2>2. notifier' = [notifier EXCEPT ![target[a]] =
                          @ + (IF class.shared THEN N ELSE 1)]
      BY <1>2 DEF WakeBump
    <2> QED BY SMTT(30), <1>2, <2>1, <2>2
  <1>3. CASE a \in Submitters /\ (CheckStop(a) \/ PickQueue(a) \/ Push(a)
                                     \/ Publish(a) \/ NotifyOne(a))
    BY <1>3 DEF CheckStop, PickQueue, Push, Publish, NotifyOne
  <1>4. CASE \/ a \in Workers /\ (Loop(a) \/ Load(a) \/ Recheck(a) \/ Wait(a))
             \/ a \in Workers \cup Helpers /\ (Begin(a) \/ Return(a))
    BY <1>4 DEF Loop, Load, Recheck, Wait, Begin, Return
  <1>5. CASE (a \in Workers /\ (Pop(a) \/ Steal(a))) \/ (a \in Helpers /\ Scan(a))
    BY <1>5 DEF Pop, Steal, Scan, Take
  <1>6. CASE a \in Stoppers /\ (Cas(a) \/ Request(a) \/ WakeAll(a) \/ Join(a))
    BY <1>6 DEF Cas, Request, WakeAll, Join
  <1> HIDE ConstantTypes DEF TypeOK, poolVars
  <1> QED BY <1>1, <1>2, <1>3, <1>4, <1>5, <1>6 DEF ActOf

\* m_stop is set by a compare_exchange and never reset, stop requests are made
\* inside shutdown and never withdrawn, and only a join clears m_threads.
LEMMA StopEffect ==
  ASSUME TypeOK, NEW a \in Actors, ActOf(a)
  PROVE  /\ m_stop' # m_stop => m_stop' /\ a \in Stoppers /\ Cas(a)
         /\ stopReq' # stopReq => a \in Stoppers /\ Request(a)
         /\ stopReq \subseteq stopReq'
         /\ threads' # threads => a \in Stoppers /\ Join(a)
  <1> USE ConstantTypes DEF TypeOK, poolVars
  <1>1. CASE a \in Submitters /\ (CheckStop(a) \/ PickQueue(a) \/ Push(a)
                                     \/ Publish(a) \/ Bump(a) \/ NotifyOne(a))
    BY <1>1 DEF CheckStop, PickQueue, Push, Publish, Bump, NotifyOne
  <1>2. CASE \/ a \in Workers /\ (Loop(a) \/ Load(a) \/ Recheck(a) \/ Wait(a))
             \/ a \in Workers \cup Helpers /\ (Begin(a) \/ Return(a))
    BY <1>2 DEF Loop, Load, Recheck, Wait, Begin, Return
  <1>3. CASE (a \in Workers /\ (Pop(a) \/ Steal(a))) \/ (a \in Helpers /\ Scan(a))
    BY <1>3 DEF Pop, Steal, Scan, Take
  <1>4. CASE a \in Stoppers /\ (Cas(a) \/ Request(a) \/ WakeBump(a)
                                   \/ WakeAll(a) \/ Join(a))
    BY <1>4 DEF Cas, Request, WakeBump, WakeAll, Join
  <1> HIDE ConstantTypes DEF TypeOK, poolVars
  <1> QED BY <1>1, <1>2, <1>3, <1>4 DEF ActOf

\* A pool with one shared queue uses context 0 only.
LEMMA SharedStep ==
  ASSUME TypeOK, WhereOK, NEW a \in Actors, ActOf(a)
  PROVE  SharedOK'
  <1> SUFFICES ASSUME class'.shared, NEW c \in Contexts \ {0}
               PROVE  queue'[c] = <<>>
    BY DEF SharedOK
  <1>1. class.shared /\ queue[c] = <<>>
    BY Frame DEF Others, WhereOK, SharedOK
  <1>2. a \in Submitters /\ Push(a) => target[a] = 0
    BY <1>1 DEF Push, WhereOK, SubmitOK, SubmitAt
  <1> QED BY <1>1, <1>2, QueueEffect

\* The parts of WhereOK together.
LEMMA WhereStep ==
  ASSUME TypeOK, WhereOK, NEW a \in Actors, ActOf(a)
  PROVE  WhereOK'
  BY LabelsStep, SubmitStep, StealStep, ReadyStep, StopStep, SharedStep DEF WhereOK

-----------------------------------------------------------------------------
(***************************************************************************)
(* No lost wake-up.                                                        *)
(***************************************************************************)
\* A thread that is still to bump the notifier of c keeps being one until it
\* does so.
LEMMA PendingKept ==
  ASSUME TypeOK, WhereOK, NEW a \in Actors, ActOf(a), NEW c \in Contexts,
         PendingBump(c) # {}
  PROVE  PendingBump(c)' # {} \/ notifier'[c] > notifier[c]
  <1>1. PICK b \in Submitters : target[b] = c /\ pc[b] \in {"publish", "bump"}
    BY DEF PendingBump
  <1>2. CASE b # a
    <2>1. target'[b] = c /\ pc'[b] \in {"publish", "bump"}
      BY <1>1, <1>2, Frame, ConstantTypes DEF Others
    <2> QED BY <2>1 DEF PendingBump
  <1>3. CASE b = a
    <2>1. Publish(a) \/ Bump(a)
      BY <1>1, <1>3, SubmitMoves, WorkMoves, HelpMoves, ConstantTypes
         DEF ActOf, Move, NotifyOne
    <2>2. CASE Publish(a)
      <3>1. target'[a] = c /\ pc'[a] = "bump"
        BY <1>1, <1>3, <2>2, SubmitMoves DEF Publish, Move
      <3> QED BY <1>3, <3>1 DEF PendingBump
    <2>3. CASE Bump(a)
      BY <1>1, <1>3, <2>3 DEF Bump, TypeOK
    <2> QED BY <2>1, <2>2, <2>3
  <1> QED BY <1>2, <1>3

\* What an empty-handed worker knows stays right: a push after its look
\* leaves a pending bump behind, and the bump makes its wait_val stale.
LEMMA EmptyHandedStep ==
  ASSUME TypeOK, WhereOK, EmptyHanded, NEW a \in Actors, ActOf(a)
  PROVE  EmptyHanded'
  <1> SUFFICES ASSUME NEW w \in Workers
               PROVE  /\ pc'[w] \in FoundNothing \cup {"pop"} =>
                            waitVal'[w] <= notifier'[Ctx(w)']
                      /\ /\ pc'[w] \in FoundNothing
                         /\ waitVal'[w] = notifier'[Ctx(w)']
                         /\ queue'[Ctx(w)'] # <<>>
                         => PendingBump(Ctx(w))' # {}
    BY DEF EmptyHanded, FoundNothing
  <1>c. PICK c \in Contexts : c = Ctx(w)
    BY CtxType
  <1>1. Ctx(w) = c /\ Ctx(w)' = c
    BY <1>c, Frame DEF Others, Ctx
  <1>p. PendingBump(Ctx(w))' = PendingBump(c)'
    BY <1>1
  <1>2. /\ notifier[c] \in Nat /\ notifier'[c] \in Nat
        /\ waitVal[w] \in Nat /\ waitVal'[w] \in Nat
        /\ notifier'[c] >= notifier[c]
    <2>1. TypeOK'
      BY ActStep, TypeStep
    <2>2. notifier[c] \in Nat /\ notifier'[c] \in Nat
      BY <2>1 DEF TypeOK
    <2>3. waitVal[w] \in Nat /\ waitVal'[w] \in Nat
      BY <2>1 DEF TypeOK
    <2> QED BY <2>2, <2>3, NotifierEffect
  <1>3. CASE w # a
    <2>1. waitVal'[w] = waitVal[w] /\ (pc'[w] = pc[w] \/ pc'[w] = "loop")
      BY <1>3, Frame, ConstantTypes DEF Others
    <2>2. pc'[w] \in FoundNothing \cup {"pop"} => waitVal'[w] <= notifier'[c]
      BY <1>1, <1>2, <2>1 DEF EmptyHanded, FoundNothing
    <2>3. ASSUME pc'[w] \in FoundNothing, waitVal'[w] = notifier'[c],
                 queue'[c] # <<>>
          PROVE  PendingBump(c)' # {}
      <3>1. pc[w] \in FoundNothing /\ waitVal[w] = notifier[c]
            /\ notifier'[c] = notifier[c]
        <4>1. pc[w] \in FoundNothing
          BY <2>1, <2>3 DEF FoundNothing
        <4>2. waitVal[w] <= notifier[c]
          BY <1>1, <4>1 DEF EmptyHanded
        <4> QED BY <1>2, <2>1, <2>3, <4>1, <4>2
      <3>2. CASE queue[c] # <<>>
        <4>1. PendingBump(c) # {}
          BY <1>1, <3>1, <3>2 DEF EmptyHanded
        <4> QED BY <1>2, <3>1, <4>1, PendingKept
      <3>3. CASE queue[c] = <<>>
        <4>1. a \in Submitters /\ Push(a) /\ target[a] = c
          BY <1>1, <2>3, <3>3, QueueEffect
        <4>2. target'[a] = c /\ pc'[a] \in {"publish", "bump"}
          BY <4>1, SubmitMoves DEF Push, Move
        <4> QED BY <4>1, <4>2 DEF PendingBump
      <3> QED BY <3>2, <3>3
    <2> QED BY <1>1, <1>p, <2>2, <2>3
  <1>4. CASE w = a
    <2>1. CASE Load(a)
      <3>1. pc'[w] = "pop" /\ waitVal'[w] = notifier[c] /\ notifier' = notifier
        <4>1. pc'[w] = "pop"
          BY <1>4, <2>1, WorkMoves DEF Move
        <4> QED BY <1>1, <1>4, <2>1, <4>1 DEF Load, TypeOK, poolVars
      <3> QED BY <1>1, <1>2, <3>1 DEF FoundNothing
    <2>2. CASE Pop(a) /\ pc'[a] # "begin"
      <3>1. /\ pc[w] = "pop" /\ ~Takeable(c)
            /\ waitVal' = waitVal /\ notifier' = notifier /\ queue' = queue
        <4>1. Take(w, Ctx(w)) => pc'[w] = "begin"
          BY ConstantTypes DEF Take, Goto, TypeOK
        <4> QED BY <1>1, <1>4, <2>2, <4>1 DEF Pop, poolVars
      <3>2. ASSUME queue[c] # <<>> PROVE PendingBump(c) # {}
        BY <3>1, <3>2 DEF Takeable, Unpublished, PendingBump
      <3>3. queue[c] # <<>> => PendingBump(c)' # {}
        BY <1>1, <1>2, <3>1, <3>2, PendingKept
      <3> QED BY <1>1, <1>p, <3>1, <3>3 DEF EmptyHanded, FoundNothing
    <2>3. CASE (Steal(a) /\ pc'[a] # "begin") \/ Recheck(a) \/ Wait(a)
      <3>1. /\ pc[w] \in FoundNothing
            /\ waitVal' = waitVal /\ notifier' = notifier /\ queue' = queue
        BY <1>4, <2>3, ConstantTypes
           DEF Steal, Take, Recheck, Wait, FoundNothing, Goto, TypeOK, poolVars
      <3>2. PendingBump(c) # {} => PendingBump(c)' # {}
        BY <1>1, <1>2, <3>1, PendingKept
      <3> QED BY <1>1, <1>p, <3>1, <3>2 DEF EmptyHanded, FoundNothing
    <2>4. CASE pc'[a] \in {"begin", "call", "loop", "exit", "load", "index", "push",
                           "publish", "bump", "notify", "trap"}
      BY <1>4, <2>4 DEF FoundNothing
    <2>5. \/ Load(a) \/ Recheck(a) \/ Wait(a)
          \/ (Pop(a) /\ pc'[a] # "begin") \/ (Steal(a) /\ pc'[a] # "begin")
          \/ pc'[a] \in {"begin", "call", "loop", "exit", "load", "index", "push",
                         "publish", "bump", "notify", "trap"}
      BY <1>4, SubmitMoves, WorkMoves, ConstantTypes DEF ActOf, Move
    <2> QED BY <2>1, <2>2, <2>3, <2>4, <2>5
  <1> QED BY <1>3, <1>4

\* Nobody is asked to stop before m_stop is set.
LEMMA NotYetStoppedStep ==
  ASSUME TypeOK, NotYetStopped, NEW a \in Actors, ActOf(a)
  PROVE  NotYetStopped'
  <1> SUFFICES ASSUME ~m_stop'
               PROVE  stopReq' = {} /\ \A s \in Stoppers : pc'[s] = "cas"
    BY DEF NotYetStopped
  <1>1. ~m_stop /\ stopReq = {} /\ \A s \in Stoppers : pc[s] = "cas"
    BY StopEffect DEF NotYetStopped
  <1>2. a \notin Stoppers
    <2>1. a \in Stoppers => Cas(a)
      BY <1>1, StopMoves, ConstantTypes DEF ActOf, Move, WakeAll
    <2> QED BY <2>1 DEF Cas
  <1>3. stopReq' = {}
    BY <1>1, <1>2, StopEffect
  <1>4. \A s \in Stoppers : pc'[s] = "cas"
    BY <1>1, <1>2, Frame, ConstantTypes DEF Others
  <1> QED BY <1>3, <1>4

\* The last worker of a context to park is up to date: parking compares its
\* wait_val with the notifier, and every bump is followed by a notify_one.
LEMMA OneUpToDateStep ==
  ASSUME TypeOK, WhereOK, OneUpToDate, NotYetStopped, NEW a \in Actors, ActOf(a)
  PROVE  OneUpToDate'
  <1> SUFFICES ASSUME ~m_stop', NEW c \in Contexts, Home(c)' # {},
                      \A w \in Home(c)' : pc'[w] = "parked"
               PROVE  \/ Notifying(c)' # {}
                      \/ \E w \in Home(c)' : waitVal'[w] = notifier'[c]
    BY DEF OneUpToDate
  <1>1. Home(c)' = Home(c) /\ Home(c) \subseteq Workers
    BY Frame DEF Others, Home, Ctx
  <1>2. ~m_stop /\ \A s \in Stoppers : pc[s] = "cas"
    BY StopEffect DEF NotYetStopped
  <1>3. \A w \in Home(c) \ {a} : pc[w] = "parked" /\ waitVal'[w] = waitVal[w]
    BY <1>1, Frame, ConstantTypes DEF Others
  <1>4. notifier'[c] # notifier[c] => a \in Submitters /\ Bump(a) /\ target[a] = c
    <2>1. a \in Stoppers => ~WakeBump(a)
      BY <1>2 DEF WakeBump
    <2> QED BY <2>1, NotifierEffect
  <1>5. CASE a \in Home(c)
    <2>1. pc'[a] = "parked" /\ a \in Workers
      BY <1>1, <1>5
    <2>2. Wait(a)
      BY <2>1, SubmitMoves, WorkMoves, ConstantTypes DEF ActOf, Move
    <2>3. /\ notifier' = notifier /\ waitVal' = waitVal
          /\ notifier[Ctx(a)] = waitVal[a] /\ Ctx(a) = c
      BY <1>5, <2>1, <2>2, ConstantTypes DEF Wait, Goto, TypeOK, Home, poolVars
    <2> QED BY <1>1, <1>5, <2>3
  <1>6. CASE a \notin Home(c)
    <2>1. Notifying(c) # {} \/ \E w \in Home(c) : waitVal[w] = notifier[c]
      BY <1>1, <1>2, <1>3, <1>6 DEF OneUpToDate
    <2>2. CASE Notifying(c) # {}
      <3>1. PICK b \in Submitters : target[b] = c /\ pc[b] = "notify"
        BY <2>2 DEF Notifying
      <3>2. CASE b # a
        <4>1. target'[b] = c /\ pc'[b] = "notify"
          BY <3>1, <3>2, Frame, ConstantTypes DEF Others
        <4> QED BY <4>1 DEF Notifying
      <3>3. CASE b = a
        <4>1. NotifyOne(a)
          BY <3>1, <3>3, SubmitMoves, WorkMoves, HelpMoves, ConstantTypes
             DEF ActOf, Move
        <4>2. Parked(c) = Home(c)
          BY <1>3, <1>6 DEF Parked
        <4>3. PICK w \in Home(c) : pc' = [pc EXCEPT ![a] = "call", ![w] = "loop"]
          BY <1>1, <3>1, <3>3, <4>1, <4>2 DEF NotifyOne
        <4>4. pc'[w] = "loop"
          BY <1>1, <4>3, ConstantTypes DEF TypeOK
        <4> QED BY <1>1, <4>4
      <3> QED BY <3>2, <3>3
    <2>3. CASE \E w \in Home(c) : waitVal[w] = notifier[c]
      <3>1. CASE notifier'[c] = notifier[c]
        BY <1>1, <1>3, <1>6, <2>3, <3>1
      <3>2. CASE notifier'[c] # notifier[c]
        <4>1. a \in Submitters /\ target'[a] = c /\ pc'[a] = "notify"
          BY <1>4, <3>2, SubmitMoves DEF Bump, Move
        <4> QED BY <4>1 DEF Notifying
      <3> QED BY <3>1, <3>2
    <2> QED BY <2>1, <2>2, <2>3
  <1> QED BY <1>5, <1>6

\* Nothing is lost: the last worker of a context to park has seen the last
\* bump, so what it left behind was placed by a thread that is still pending.
LEMMA NoLostWakeupFollows ==
  ASSUME TypeOK, WhereOK, EmptyHanded, OneUpToDate
  PROVE  NoLostWakeup
  <1> SUFFICES ASSUME ~m_stop, NEW c \in Contexts, queue[c] # <<>>,
                      \A w \in Home(c) : pc[w] = "parked"
               PROVE  Pending(c) # {}
    BY DEF NoLostWakeup
  <1>1. Home(c) # {}
    <2>1. CASE class.shared
      <3>1. c = 0 /\ 0 \in Workers
        BY <2>1, ConstantTypes DEF WhereOK, SharedOK
      <3> QED BY <2>1, <3>1 DEF Home, Ctx
    <2>2. CASE ~class.shared
      BY <2>2, ConstantTypes DEF Home, Ctx
    <2> QED BY <2>1, <2>2
  <1>2. CASE Notifying(c) # {}
    BY <1>2 DEF Notifying, Pending
  <1>3. CASE \E w \in Home(c) : waitVal[w] = notifier[c]
    <2>1. PICK w \in Home(c) : waitVal[w] = notifier[c]
      BY <1>3
    <2>2. w \in Workers /\ Ctx(w) = c /\ pc[w] \in FoundNothing
      BY <2>1 DEF Home, FoundNothing
    <2>3. PendingBump(c) # {}
      BY <2>1, <2>2 DEF EmptyHanded
    <2> QED BY <2>3 DEF PendingBump, Pending
  <1> QED BY <1>1, <1>2, <1>3 DEF OneUpToDate

-----------------------------------------------------------------------------
(***************************************************************************)
(* Shutdown.                                                               *)
(***************************************************************************)
\* The loop of shutdown that requests the stops leaves nobody out.
LEMMA RequestedStep ==
  ASSUME TypeOK, WhereOK, NEW s \in Stoppers, Requested(s), NEW a \in Actors, ActOf(a)
  PROVE  Requested(s)'
  <1>0. stopReq \subseteq stopReq' /\ stopReq' \subseteq Workers
    <2>1. TypeOK'
      BY ActStep, TypeStep
    <2> QED BY <2>1, StopEffect DEF TypeOK
  <1>1. CASE s # a
    <2>1. pc'[s] = pc[s] /\ target'[s] = target[s]
      BY <1>1, Frame, ConstantTypes DEF Others
    <2> QED BY <1>0, <2>1 DEF Requested
  <1>2. CASE s = a
    <2>1. CASE Cas(a)
      <3>1. target'[a] = 0 /\ pc'[a] \in {"returned", "request"}
        BY <1>2, <2>1, StopMoves DEF Cas, Move, WhereOK, StopOK
      <3> QED BY <1>2, <3>1, ConstantTypes DEF Requested
    <2>2. CASE Request(a)
      <3>1. target[a] \in Contexts /\ stopReq' = stopReq \cup {target[a]}
        BY <1>2, <2>2 DEF Request, WhereOK, StopOK
      <3>2. \A w \in Workers : w < target[a] => w \in stopReq
        BY <1>2, <2>2 DEF Request, Requested
      <3>3. CASE target[a] < N - 1
        <4>1. pc'[a] = "request" /\ target'[a] = target[a] + 1
          BY <1>2, <2>2, <3>3, ConstantTypes DEF Request, Advance, TypeOK
        <4>2. \A w \in Workers : w < target[a] + 1 => w < target[a] \/ w = target[a]
          BY <3>1, ConstantTypes
        <4> QED BY <1>2, <3>1, <3>2, <4>1, <4>2 DEF Requested
      <3>4. CASE ~(target[a] < N - 1)
        <4>1. pc'[a] = "wakebump"
          BY <1>2, <2>2, <3>4, ConstantTypes DEF Request, Advance, Goto, TypeOK
        <4>2. \A w \in Workers : w < target[a] \/ w = target[a]
          BY <3>1, <3>4, ConstantTypes
        <4>3. Workers \subseteq stopReq'
          BY <3>1, <3>2, <4>2
        <4> QED BY <1>0, <1>2, <4>1, <4>3 DEF Requested
      <3> QED BY <3>3, <3>4
    <2>3. CASE WakeBump(a) \/ WakeAll(a) \/ Join(a)
      <3>1. stopReq = Workers
        BY <1>2, <2>3 DEF WakeBump, WakeAll, Join, Requested
      <3>2. pc'[a] # "request"
        BY <1>2, <2>3, StopMoves, ConstantTypes
           DEF Move, WakeAll, Parked, Home, TypeOK
      <3> QED BY <1>0, <1>2, <3>1, <3>2 DEF Requested
    <2> QED BY <1>2, <2>1, <2>2, <2>3, ConstantTypes DEF ActOf
  <1> QED BY <1>1, <1>2

\* A notifier counts as bumped, a context as woken, only by the step of
\* shutdown that does so.
LEMMA WakeProgress ==
  ASSUME TypeOK, WhereOK, NEW a \in Stoppers, ActOf(a), NEW c \in Contexts,
         class.shared => c = 0
  PROVE  /\ Bumped(a, c)' => Bumped(a, c) \/ (WakeBump(a) /\ target[a] = c)
         /\ Woken(a, c)' => Woken(a, c) \/ (WakeAll(a) /\ target[a] = c)
  <1> USE ConstantTypes DEF Bumped, Woken
  <1>0. /\ target[a] \in Contexts
        /\ class.shared /\ pc[a] \in {"wakebump", "wakeall"} => target[a] = 0
    BY DEF WhereOK, StopOK
  <1>1. CASE Cas(a)
    BY <1>1, StopMoves DEF Move
  <1>2. CASE Request(a)
    <2>1. pc'[a] = "request" \/ (pc'[a] = "wakebump" /\ target'[a] = 0)
      BY <1>2 DEF Request, Advance, Goto, TypeOK
    <2> QED BY <2>1
  <1>3. CASE WakeBump(a)
    <2>1. pc[a] = "wakebump" /\ pc'[a] = "wakeall" /\ target'[a] = target[a]
      BY <1>3, StopMoves DEF WakeBump, Move
    <2> QED BY <1>0, <1>3, <2>1
  <1>4. CASE WakeAll(a)
    <2>0. pc[a] = "wakeall" /\ a \notin Parked(target[a])
      BY <1>4 DEF WakeAll, Parked, Home
    <2>1. CASE class.shared \/ target[a] = N - 1
      <3>1. c < target[a] \/ c = target[a]
        BY <1>0, <2>0, <2>1
      <3> QED BY <1>4, <2>0, <3>1
    <2>2. CASE ~(class.shared \/ target[a] = N - 1)
      <3>1. pc'[a] = "wakebump" /\ target'[a] = target[a] + 1
        BY <1>4, <2>0, <2>2 DEF WakeAll, TypeOK
      <3>2. c < target[a] + 1 => c < target[a] \/ c = target[a]
        BY <1>0
      <3> QED BY <1>4, <2>0, <3>1, <3>2
    <2> QED BY <2>1, <2>2
  <1>5. CASE Join(a)
    BY <1>5 DEF Join
  <1> QED BY <1>1, <1>2, <1>3, <1>4, <1>5 DEF ActOf

\* A context that shutdown has bumped makes its workers' wait_val stale, and
\* one it has woken keeps nobody parked.
LEMMA ShutdownProgressStep ==
  ASSUME TypeOK, WhereOK, EmptyHanded, ShutdownProgress, NEW a \in Actors, ActOf(a)
  PROVE  ShutdownProgress'
  <1>r. \A s \in Stoppers : Requested(s)'
    BY RequestedStep DEF ShutdownProgress
  <1> SUFFICES ASSUME NEW s \in Stoppers, NEW w \in Workers
               PROVE  /\ Bumped(s, Ctx(w))' /\ pc'[w] \in {"wait", "parked"}
                            => waitVal'[w] < notifier'[Ctx(w)']
                      /\ Woken(s, Ctx(w))' => pc'[w] # "parked"
    BY <1>r DEF ShutdownProgress
  <1>c. PICK c \in Contexts : c = Ctx(w)
    BY CtxType
  <1>1. Ctx(w) = c /\ Ctx(w)' = c /\ (class.shared => c = 0)
    BY <1>c, Frame DEF Others, Ctx
  <1>2. /\ Bumped(s, Ctx(w))' = Bumped(s, c)'
        /\ Woken(s, Ctx(w))' = Woken(s, c)'
    BY <1>1 DEF Bumped, Woken
  <1>3. /\ notifier[c] \in Nat /\ notifier'[c] \in Nat
        /\ waitVal[w] \in Nat /\ waitVal'[w] \in Nat
        /\ notifier'[c] >= notifier[c]
    <2>1. TypeOK'
      BY ActStep, TypeStep
    <2>2. notifier[c] \in Nat /\ notifier'[c] \in Nat
      BY <2>1 DEF TypeOK
    <2>3. waitVal[w] \in Nat /\ waitVal'[w] \in Nat
      BY <2>1 DEF TypeOK
    <2> QED BY <2>2, <2>3, NotifierEffect
  <1>4. /\ Bumped(s, c) /\ pc[w] \in {"wait", "parked"} => waitVal[w] < notifier[c]
        /\ Woken(s, c) => pc[w] # "parked"
        /\ Woken(s, c) => Bumped(s, c)
        /\ Bumped(s, c) => stopReq = Workers
    BY <1>1 DEF ShutdownProgress, Requested, Bumped, Woken
  <1>5. CASE s # a
    <2>1. Bumped(s, c)' = Bumped(s, c) /\ Woken(s, c)' = Woken(s, c)
      BY <1>5, Frame, ConstantTypes DEF Others, Bumped, Woken
    <2>2. CASE w # a
      <3>1. waitVal'[w] = waitVal[w] /\ (pc'[w] = pc[w] \/ pc'[w] = "loop")
        BY <2>2, Frame, ConstantTypes DEF Others
      <3> QED BY <1>1, <1>2, <1>3, <1>4, <2>1, <3>1
    <2>3. CASE w = a
      <3>1. ASSUME Bumped(s, c) PROVE pc'[a] \notin {"wait", "parked"}
        <4>1. Recheck(a) => pc'[a] = "exit"
          BY <1>4, <2>3, <3>1, ConstantTypes DEF Recheck, Goto, TypeOK
        <4>2. Wait(a) => pc'[a] = "loop"
          BY <1>1, <1>3, <1>4, <2>3, <3>1, ConstantTypes DEF Wait, Goto, TypeOK
        <4> QED BY <2>3, <4>1, <4>2, SubmitMoves, WorkMoves, ConstantTypes
               DEF ActOf, Move
      <3> QED BY <1>2, <1>4, <2>1, <2>3, <3>1
    <2> QED BY <2>2, <2>3
  <1>6. CASE s = a
    <2>1. w # a /\ waitVal'[w] = waitVal[w] /\ (pc'[w] = pc[w] \/ pc'[w] = "loop")
      BY <1>6, Frame, ConstantTypes DEF Others
    <2>2. /\ Bumped(s, c)' => Bumped(s, c) \/ (WakeBump(s) /\ target[s] = c)
          /\ Woken(s, c)' => Woken(s, c) \/ (WakeAll(s) /\ target[s] = c)
      BY <1>1, <1>6, WakeProgress
    <2>3. ASSUME WakeBump(s), target[s] = c, pc[w] \in {"wait", "parked"}
          PROVE  waitVal[w] < notifier'[c]
      <3>1. waitVal[w] <= notifier[c]
        BY <1>1, <2>3 DEF EmptyHanded, FoundNothing
      <3>2. notifier'[c] > notifier[c]
        <4>1. notifier'[c] = notifier[c] + (IF class.shared THEN N ELSE 1)
          BY <2>3 DEF WakeBump, TypeOK
        <4> QED BY <1>3, <4>1, ConstantTypes
      <3> QED BY <1>3, <3>1, <3>2
    <2>4. ASSUME WakeAll(s), target[s] = c
          PROVE  pc'[w] # "parked"
      <3>1. pc[w] = "parked" => w \in Parked(target[s])
        BY <1>1, <2>4 DEF Parked, Home
      <3> QED BY <1>6, <2>1, <2>4, <3>1, ConstantTypes DEF WakeAll
    <2> QED BY <1>1, <1>2, <1>3, <1>4, <2>1, <2>2, <2>3, <2>4
  <1> QED BY <1>5, <1>6

\* shutdown passes a worker only when it has left its loop.
LEMMA JoinProgressStep ==
  ASSUME TypeOK, WhereOK, JoinProgress, NEW a \in Actors, ActOf(a)
  PROVE  JoinProgress'
  <1>1. \A w \in Workers : pc[w] = "exit" => pc'[w] = "exit"
    <2> SUFFICES ASSUME NEW w \in Workers, pc[w] = "exit" PROVE pc'[w] = "exit"
      OBVIOUS
    <2>1. w # a
      BY SubmitMoves, WorkMoves, ConstantTypes DEF ActOf, Move
    <2> QED BY <2>1, Frame, ConstantTypes DEF Others
  <1>2. ASSUME NEW s \in Stoppers, pc'[s] = "join",
               NEW w \in Workers, w < target'[s]
        PROVE  pc'[w] = "exit"
    <2>1. CASE s # a
      <3>1. pc[s] = "join" /\ target'[s] = target[s]
        BY <1>2, <2>1, Frame, ConstantTypes DEF Others
      <3> QED BY <1>1, <1>2, <3>1 DEF JoinProgress
    <2>2. CASE s = a
      <3>1. WakeAll(a) \/ Join(a)
        BY <1>2, <2>2, StopMoves, ConstantTypes DEF ActOf, Move
      <3>2. CASE WakeAll(a)
        <4>1. target'[a] = 0
          BY <1>2, <2>2, <3>2, ConstantTypes DEF WakeAll, TypeOK, Parked, Home
        <4> QED BY <1>2, <2>2, <4>1, ConstantTypes
      <3>3. CASE Join(a)
        <4>1. /\ target[a] \in Contexts /\ pc[a] = "join" /\ pc[target[a]] = "exit"
              /\ target'[a] = target[a] + 1
          BY SMTT(30), <1>2, <2>2, <3>3, ConstantTypes
             DEF Join, Advance, Goto, TypeOK, WhereOK, StopOK
        <4>2. w < target[a] \/ w = target[a]
          BY <1>2, <2>2, <4>1, ConstantTypes
        <4> QED BY <1>1, <2>2, <4>1, <4>2 DEF JoinProgress
      <3> QED BY <3>1, <3>2, <3>3
    <2> QED BY <2>1, <2>2
  <1>3. ASSUME threads' = 0, NEW w \in Workers PROVE pc'[w] = "exit"
    <2>1. CASE threads = 0
      BY <1>1, <2>1 DEF JoinProgress
    <2>2. CASE threads # 0
      <3>1. a \in Stoppers /\ Join(a)
        BY <1>3, <2>2, StopEffect
      <3>2. pc[a] = "join" /\ pc[target[a]] = "exit" /\ target[a] = N - 1
        BY <1>3, <2>2, <3>1, ConstantTypes DEF Join, TypeOK
      <3>3. w < target[a] \/ w = target[a]
        BY <3>2, ConstantTypes
      <3> QED BY <1>1, <3>1, <3>2, <3>3 DEF JoinProgress
    <2> QED BY <2>1, <2>2
  <1>4. ASSUME NEW w \in Workers PROVE pc'[w] # "trap"
    <2>1. CASE w # a
      BY <2>1, Frame, ConstantTypes DEF Others, JoinProgress
    <2>2. CASE w = a
      <3>1. PickQueue(a) => pc'[a] # "trap"
        <4>1. PickQueue(a) => threads # 0
          BY <2>2 DEF PickQueue, JoinProgress
        <4> QED BY <2>2, <4>1, ConstantTypes DEF PickQueue, Goto, TypeOK
      <3> QED BY <2>2, <3>1, SubmitMoves, WorkMoves, ConstantTypes DEF ActOf, Move
    <2> QED BY <2>1, <2>2
  <1> QED BY <1>2, <1>3, <1>4 DEF JoinProgress

-----------------------------------------------------------------------------
(***************************************************************************)
(* The theorems.                                                           *)
(***************************************************************************)
\* The constructor establishes the inductive invariant.
LEMMA IInvInit == Init => IInv
  <1> SUFFICES ASSUME Init PROVE IInv
    OBVIOUS
  <1>1. TypeOK
    BY TypeInit
  <1>2. /\ \A w \in Workers : pc[w] = "loop"
        /\ \A c \in Clients : pc[c] = "call"
        /\ \A h \in Helpers : pc[h] = "ready"
        /\ \A s \in Stoppers : pc[s] = "cas"
    BY ConstantTypes DEF Init
  <1>3. \A a \in Actors : target[a] = 0
    BY DEF Init
  <1>4. \A a \in Submitters : pc[a] \in {"loop", "call", "ready"}
    BY <1>2 DEF Submitters
  <1>5. 0 \in Contexts /\ N # 0 /\ threads = N /\ ~m_stop /\ stopReq = {}
    BY ConstantTypes DEF Init
  <1>6. LabelsOK
    BY <1>2 DEF LabelsOK, WorkerLabels, SubmitLabels
  <1>7. SubmitOK
    BY <1>3, <1>4, ConstantTypes DEF SubmitOK, SubmitAt
  <1>8. StealOK /\ ReadyOK /\ StopOK
    BY <1>2, <1>3, <1>5, ConstantTypes DEF StealOK, ReadyOK, StopOK
  <1>9. SharedOK
    BY DEF SharedOK, Init
  <1>10. EmptyHanded
    BY <1>2 DEF EmptyHanded, FoundNothing
  <1>11. OneUpToDate
    BY <1>2 DEF OneUpToDate, Home
  <1>12. NotYetStopped
    BY <1>2, <1>5 DEF NotYetStopped
  <1>13. ShutdownProgress
    BY <1>2 DEF ShutdownProgress, Requested, Bumped, Woken
  <1>14. JoinProgress
    BY <1>2, <1>5 DEF JoinProgress
  <1> QED BY <1>1, <1>6, <1>7, <1>8, <1>9, <1>10, <1>11, <1>12, <1>13, <1>14
          DEF IInv, WhereOK

\* Every step preserves the inductive invariant.
LEMMA IInvStep == IInv /\ [Next]_vars => IInv'
  <1> SUFFICES ASSUME IInv, [Next]_vars PROVE IInv'
    OBVIOUS
  <1>1. CASE UNCHANGED vars
    <2> USE <1>1 DEF vars, poolVars
    <2>1. TypeOK' /\ WhereOK'
      BY DEF IInv, TypeOK, WhereOK, LabelsOK, SubmitOK, SubmitAt, StealOK, ReadyOK,
         StopOK, SharedOK, Steals, StealOrder
    <2>2. EmptyHanded'
      BY DEF IInv, EmptyHanded, Ctx, PendingBump
    <2>3. OneUpToDate' /\ NotYetStopped'
      BY DEF IInv, OneUpToDate, NotYetStopped, Home, Ctx, Notifying
    <2>4. ShutdownProgress'
      BY DEF IInv, ShutdownProgress, Requested, Bumped, Woken, Ctx
    <2>5. JoinProgress'
      BY DEF IInv, JoinProgress
    <2> QED BY <2>1, <2>2, <2>3, <2>4, <2>5 DEF IInv
  <1>2. CASE Next
    <2>1. PICK a \in Actors : ActOf(a)
      BY <1>2, NextIsAct, ActIsActOf
    <2>2. TypeOK'
      BY <2>1, ActStep, TypeStep DEF IInv
    <2>3. WhereOK'
      BY <2>1, WhereStep DEF IInv
    <2>4. EmptyHanded'
      BY <2>1, EmptyHandedStep DEF IInv
    <2>5. OneUpToDate' /\ NotYetStopped'
      BY <2>1, OneUpToDateStep, NotYetStoppedStep DEF IInv
    <2>6. ShutdownProgress'
      BY <2>1, ShutdownProgressStep DEF IInv
    <2>7. JoinProgress'
      BY <2>1, JoinProgressStep DEF IInv
    <2> QED BY <2>2, <2>3, <2>4, <2>5, <2>6, <2>7 DEF IInv
  <1> QED BY <1>1, <1>2

\* The inductive invariant holds throughout: where every thread is, what the
\* workers know of their notifiers, and how far shutdown has got.
THEOREM Invariance == Spec => []IInv
  BY IInvInit, IInvStep, PTL DEF Spec

\* Every variable of the twelve pools stays in the range the code gives it.
THEOREM TypeCorrect == Spec => []TypeOK
  <1>1. IInv => TypeOK
    BY DEF IInv
  <1> QED BY <1>1, Invariance, PTL

\* No push to a context goes unnoticed: the order of worker_loop (load the
\* notifier, look for a task, wait) and of derived_execute (place the task,
\* bump, notify one) leaves somebody awake, or about to be woken, while tasks
\* wait; for any number of workers and submitters.
THEOREM NoWakeupIsLost == Spec => []NoLostWakeup
  <1>1. IInv => NoLostWakeup
    BY NoLostWakeupFollows DEF IInv
  <1> QED BY <1>1, Invariance, PTL

\* When shutdown starts to join, no worker is parked or can still park: the
\* stop requests precede the bumps, and a worker tests its stop token between
\* reading the notifier and waiting for it.
THEOREM StopReachesEveryWorker == Spec => []StopWakesAll
  <1>1. IInv => StopWakesAll
    <2> SUFFICES ASSUME IInv, NEW s \in Stoppers, pc[s] = "join", NEW w \in Workers
                 PROVE  /\ pc[w] # "parked"
                        /\ pc[w] = "wait" => waitVal[w] # notifier[Ctx(w)]
      BY DEF StopWakesAll
    <2>1. Bumped(s, Ctx(w)) /\ Woken(s, Ctx(w))
      BY DEF Bumped, Woken
    <2>2. waitVal[w] \in Nat /\ notifier[Ctx(w)] \in Nat
      BY CtxType DEF IInv, TypeOK
    <2> QED BY <2>1, <2>2 DEF IInv, ShutdownProgress
  <1> QED BY <1>1, Invariance, PTL

\* m_threads is empty only after every worker has left worker_loop, so no task
\* on a worker divides by its size.
THEOREM WorkersLeaveFirst == Spec => []WorkersLeaveBeforeClear
  <1>1. IInv => WorkersLeaveBeforeClear
    BY DEF IInv, JoinProgress, WorkersLeaveBeforeClear
  <1> QED BY <1>1, Invariance, PTL
-----------------------------------------------------------------------------
(***************************************************************************)
(* The life of the tasks: where each one is, from the call of              *)
(* derived_execute that submits it to the end of its body.                 *)
(***************************************************************************)
\* The threads that run tasks.
Runners == Workers \cup Helpers

\* A submitter has offered a task and has not put it into a queue.
InHand(a) == pc[a] \in {"index", "push", "trap"}

\* A worker or a helper has a task in its hands, and has not called it yet.
Inside(r)  == pc[r] \in SubmitLabels \cup {"begin"}
AtStart(r) == pc[r] = "begin"

\* What a submitter submits, and how much of it has left todo.
Source(a) == IF a \in Clients THEN Program[a]
             ELSE IF job[a] \in Tasks THEN Children[job[a]] ELSE <<>>

Passed(a) == Len(Source(a)) - Len(todo[a])

\* What a submitter has not passed yet is new; of the rest, only what it has in hand
\* is offered.
SourceAt(a) ==
    /\ Passed(a) >= 0
    /\ \A i \in DOMAIN todo[a] : todo[a][i] = Source(a)[Passed(a) + i]
    /\ InHand(a) => Passed(a) > 0 /\ task[a] = Source(a)[Passed(a)]
    /\ \A i \in DOMAIN Source(a) :
          /\ status[Source(a)[i]] = "new" <=> i > Passed(a)
          /\ status[Source(a)[i]] = "offered" <=> i = Passed(a) /\ InHand(a)

SourceOK == \A a \in Submitters : SourceAt(a)

\* What a task submits is new until the task runs.
Unborn   == {"new", "refused", "offered", "queued"}
UnbornOK == \A x \in Tasks : status[x] \in Unborn =>
                \A i \in DOMAIN Children[x] : status[Children[x][i]] = "new"

\* A task that has been taken and is not over is with one thread, which is inside it.
Body(r)   == IF r \in Workers THEN "running" ELSE "helped"
LifeOn(r) == IF AtStart(r) THEN "taken" ELSE Body(r)
RunOK ==
    /\ \A r \in Runners : (job[r] \in Tasks <=> Inside(r))
                          /\ (job[r] \in Tasks => status[job[r]] = LifeOn(r))
    /\ \A r, v \in Runners : job[r] \in Tasks /\ job[r] = job[v] => r = v
    /\ \A x \in Tasks : /\ status[x] = "running" => \E w \in Workers : job[w] = x
                        /\ status[x] = "taken" => \E r \in Runners : job[r] = x

\* What is in a queue is queued, in one place, and what is queued is in a queue.
PlaceOK ==
    /\ \A c \in Contexts : \A p \in DOMAIN queue[c] : status[queue[c][p]] = "queued"
    /\ \A c, d \in Contexts : \A p \in DOMAIN queue[c], q \in DOMAIN queue[d] :
          queue[c][p] = queue[d][q] => c = d /\ p = q
    /\ \A x \in Tasks : status[x] = "queued" =>
          \E c \in Contexts : \E p \in DOMAIN queue[c] : queue[c][p] = x

\* The queue of gpq is sorted, and where the order of submission is promised, the
\* tasks of a client wait in the order of its program.
SortedOK ==
    class = gpq => \A c \in Contexts : \A p, q \in DOMAIN queue[c] :
        p < q => RunCount[queue[c][p]] <= RunCount[queue[c][q]]
OrderOK ==
    class \in {gq, lfgq, gpq} => \A c \in Contexts : \A p, q \in DOMAIN queue[c] :
        \A b \in Clients : \A i, j \in DOMAIN Program[b] :
            p < q /\ queue[c][p] = Program[b][j] /\ queue[c][q] = Program[b][i]
                  /\ SamePriority(Program[b][i], Program[b][j])
            => j <= i

TasksOK == SourceOK /\ UnbornOK /\ RunOK /\ PlaceOK /\ SortedOK /\ OrderOK

-----------------------------------------------------------------------------
(***************************************************************************)
(* What a step can do to the tasks                                         *)
(***************************************************************************)
Lives == {"new", "refused", "offered", "queued", "taken", "running", "helped", "done"}

SameHand(a)  == (InHand(a)' <=> InHand(a)) /\ (InHand(a) => task'[a] = task[a])
SameHands    == \A a \in Submitters : SameHand(a)
Stays(r)     == (Inside(r)' <=> Inside(r)) /\ (AtStart(r)' <=> AtStart(r))
EveryoneStays == \A r \in Runners : Stays(r)

\* No task moves.
Quiet == UNCHANGED <<class, queue, status, todo, job>> /\ SameHands /\ EveryoneStays

\* The next task of a leaves its program.
Pass(a, life) ==
    /\ todo[a] # <<>> /\ ~InHand(a)
    /\ todo' = [todo EXCEPT ![a] = Tail(@)]
    /\ status' = [status EXCEPT ![Head(todo[a])] = life]
    /\ UNCHANGED <<class, queue, job>> /\ EveryoneStays
    /\ \A b \in Submitters \ {a} : SameHand(b)

Offer(a)  == Pass(a, "offered") /\ InHand(a)' /\ task'[a] = Head(todo[a])
Refuse(a) == Pass(a, "refused") /\ SameHand(a)

\* The task in hand is put into a queue.
Accept(a, c) ==
    /\ InHand(a) /\ ~InHand(a)'
    /\ status' = [status EXCEPT ![task[a]] = "queued"]
    /\ queue' = [queue EXCEPT ![c] = Insert(@, task[a])]
    /\ UNCHANGED <<class, todo, job>> /\ EveryoneStays
    /\ \A b \in Submitters \ {a} : SameHand(b)

\* Thread r takes the task at the front of a queue.
Fetch(r, c) ==
    /\ queue[c] # <<>> /\ ~Inside(r) /\ ~InHand(r)' /\ Inside(r)' /\ AtStart(r)'
    /\ status' = [status EXCEPT ![Head(queue[c])] = "taken"]
    /\ job' = [job EXCEPT ![r] = Head(queue[c])]
    /\ todo' = [todo EXCEPT ![r] = Children[Head(queue[c])]]
    /\ queue' = [queue EXCEPT ![c] = Tail(@)]
    /\ UNCHANGED class /\ SameHands
    /\ \A v \in Runners \ {r} : Stays(v)

\* Thread r calls the task it has taken.
Start(r) ==
    /\ AtStart(r) /\ ~AtStart(r)' /\ Inside(r)'
    /\ status' = [status EXCEPT ![job[r]] = Body(r)]
    /\ UNCHANGED <<class, queue, todo, job>> /\ SameHands
    /\ \A v \in Runners \ {r} : Stays(v)

\* The task of thread r is over.
Finish(r) ==
    /\ job[r] \in Tasks /\ todo[r] = <<>> /\ ~InHand(r) /\ ~Inside(r)' /\ ~AtStart(r)
    /\ status' = [status EXCEPT ![job[r]] = "done"]
    /\ job' = [job EXCEPT ![r] = NoTask]
    /\ UNCHANGED <<class, queue, todo>> /\ SameHands
    /\ \A v \in Runners \ {r} : Stays(v)

Effect ==
    \/ Quiet
    \/ \E a \in Submitters : Offer(a) \/ Refuse(a) \/ \E c \in Contexts : Accept(a, c)
    \/ \E r \in Runners : Start(r) \/ Finish(r) \/ \E c \in Contexts : Fetch(r, c)

-----------------------------------------------------------------------------
(***************************************************************************)
(* The tasks that are to be submitted                                      *)
(***************************************************************************)
\* What the values above are.
SourceTyped ==
    \A a \in Submitters :
        /\ Source(a) \in Seq(Tasks) /\ todo[a] \in Seq(Tasks)
        /\ Len(Source(a)) \in Nat /\ Len(todo[a]) \in Nat
        /\ DOMAIN Source(a) = 1 .. Len(Source(a)) /\ DOMAIN todo[a] = 1 .. Len(todo[a])
        /\ Passed(a) \in Int /\ Passed(a) = Len(Source(a)) - Len(todo[a])

QueueTyped ==
    \A c \in Contexts : /\ queue[c] \in Seq(Tasks) /\ Len(queue[c]) \in Nat
                        /\ DOMAIN queue[c] = 1 .. Len(queue[c])

\* The domain of a sequence of tasks.
LEMMA Lengths == \A q \in Seq(Tasks) : /\ Len(q) \in Nat /\ DOMAIN q = 1 .. Len(q)
                                       /\ \A i \in DOMAIN q : q[i] \in Tasks
  OBVIOUS

\* The queues are such sequences,
LEMMA QueueTypes == TypeOK => QueueTyped
  <1> SUFFICES ASSUME TypeOK, NEW c \in Contexts PROVE queue[c] \in Seq(Tasks)
    BY Lengths DEF QueueTyped
  <1> QED BY DEF TypeOK

\* and so is what a submitter submits.
LEMMA SourceTypes == TypeOK => SourceTyped
  <1> SUFFICES ASSUME TypeOK, NEW a \in Submitters
               PROVE  Source(a) \in Seq(Tasks) /\ todo[a] \in Seq(Tasks)
    BY Lengths DEF SourceTyped, Passed
  <1>1. todo[a] \in Seq(Tasks)
    BY DEF TypeOK
  <1>2. Source(a) \in Seq(Tasks)
    <2>1. Program \in [Clients -> Seq(Tasks)] /\ Children \in [Tasks -> Seq(Tasks)]
      BY PoolAssumption
    <2>2. <<>> \in Seq(Tasks)
      OBVIOUS
    <2> QED BY <2>1, <2>2 DEF Source
  <1> QED BY <1>1, <1>2

\* A submitter is a client, or it runs a task, or it has nothing to submit.
LEMMA SourceKinds ==
    ASSUME NEW a \in Submitters
    PROVE  \/ a \in Clients /\ a \notin Runners /\ Source(a) = Program[a]
           \/ a \in Runners /\ a \notin Clients /\ job[a] \in Tasks /\ Source(a) = Children[job[a]]
           \/ a \in Runners /\ a \notin Clients /\ job[a] \notin Tasks /\ Source(a) = <<>>
  BY ActorsAssumption DEF Submitters, Source, Runners

\* Runners submit, and are no clients.
LEMMA RunnerKinds ==
    /\ \A r \in Runners : r \in Submitters /\ r \in Actors /\ r \notin Clients
    /\ \A a \in Submitters : a \in Clients \/ a \in Runners
    /\ Workers \subseteq Runners /\ Helpers \subseteq Runners
  BY ActorsAssumption DEF Runners, Submitters, Actors

\* Two places of what is being submitted hold two tasks.
LEMMA SourceApart ==
    ASSUME RunOK, NEW a \in Submitters, NEW b \in Submitters,
           NEW i \in DOMAIN Source(a), NEW j \in DOMAIN Source(b), Source(a)[i] = Source(b)[j]
    PROVE  a = b /\ i = j
  <1>0. DOMAIN <<>> = {}
    OBVIOUS
  <1>1. CASE a \in Clients /\ b \in Clients
    BY <1>1, OnceAssumption DEF Source
  <1>2. CASE a \notin Clients /\ b \notin Clients
    <2>1. /\ a \in Runners /\ job[a] \in Tasks /\ Source(a) = Children[job[a]]
          /\ b \in Runners /\ job[b] \in Tasks /\ Source(b) = Children[job[b]]
      BY <1>0, <1>2, SourceKinds
    <2>2. job[a] = job[b] /\ i = j
      BY <2>1, OnceAssumption
    <2> QED BY <2>1, <2>2 DEF RunOK
  <1>3. CASE a \in Clients /\ b \notin Clients
    <2>1. Source(a) = Program[a] /\ job[b] \in Tasks /\ Source(b) = Children[job[b]]
      BY <1>0, <1>3, SourceKinds
    <2> QED BY <1>3, <2>1, OnceAssumption
  <1>4. CASE a \notin Clients /\ b \in Clients
    <2>1. Source(b) = Program[b] /\ job[a] \in Tasks /\ Source(a) = Children[job[a]]
      BY <1>0, <1>4, SourceKinds
    <2> QED BY <1>4, <2>1, OnceAssumption
  <1> QED BY <1>1, <1>2, <1>3, <1>4

\* A submitter that does not move, and whose tasks live on as they were.
LEMMA SourceStays ==
    ASSUME SourceOK, NEW a \in Submitters, Source(a)' = Source(a), todo'[a] = todo[a],
           SameHand(a),
           \A i \in DOMAIN Source(a) :
              /\ status'[Source(a)[i]] = "new" <=> status[Source(a)[i]] = "new"
              /\ status'[Source(a)[i]] = "offered" <=> status[Source(a)[i]] = "offered"
    PROVE  SourceAt(a)'
  <1>1. SourceAt(a) /\ Passed(a)' = Passed(a)
    BY DEF SourceOK, Passed
  <1>2. InHand(a)' => task'[a] = task[a]
    BY DEF SameHand
  <1>3. InHand(a)' <=> InHand(a)
    BY DEF SameHand
  <1> QED BY <1>1, <1>2, <1>3 DEF SourceAt

\* What is next is a new task with a place in the program.
LEMMA NextPlace ==
    ASSUME TypeOK, SourceOK, NEW a \in Submitters, todo[a] # <<>>
    PROVE  /\ Passed(a) + 1 \in DOMAIN Source(a) /\ Head(todo[a]) = Source(a)[Passed(a) + 1]
           /\ Head(todo[a]) \in Tasks /\ status[Head(todo[a])] = "new"
  <1>0. SourceAt(a)
    BY DEF SourceOK
  <1>1. /\ Source(a) \in Seq(Tasks) /\ todo[a] \in Seq(Tasks)
        /\ Len(Source(a)) \in Nat /\ Len(todo[a]) \in Nat
        /\ DOMAIN Source(a) = 1 .. Len(Source(a)) /\ DOMAIN todo[a] = 1 .. Len(todo[a])
        /\ Passed(a) \in Int /\ Passed(a) = Len(Source(a)) - Len(todo[a])
    BY SourceTypes DEF SourceTyped
  <1>2. Len(todo[a]) > 0 /\ Head(todo[a]) = todo[a][1]
    BY <1>1
  <1>3. Passed(a) >= 0
    BY <1>0 DEF SourceAt
  <1>4. Passed(a) + 1 \in DOMAIN Source(a)
    BY <1>1, <1>2, <1>3
  <1>5. 1 \in DOMAIN todo[a]
    BY <1>1, <1>2
  <1>6. todo[a][1] = Source(a)[Passed(a) + 1]
    BY <1>0, <1>5 DEF SourceAt
  <1>7. Passed(a) \in Int /\ \A n \in Int : n + 1 > n
    BY <1>1
  <1>8. status[Source(a)[Passed(a) + 1]] = "new"
    BY <1>0, <1>4, <1>7 DEF SourceAt
  <1>9. Source(a)[Passed(a) + 1] \in Tasks
    BY <1>1, <1>4, Lengths
  <1> QED BY <1>2, <1>4, <1>6, <1>8, <1>9

\* What is in hand is an offered task with a place in the program.
LEMMA HandPlace ==
    ASSUME TypeOK, SourceOK, NEW a \in Submitters, InHand(a)
    PROVE  /\ Passed(a) \in DOMAIN Source(a) /\ task[a] = Source(a)[Passed(a)]
           /\ task[a] \in Tasks /\ status[task[a]] = "offered"
  <1>0. SourceAt(a)
    BY DEF SourceOK
  <1>1. /\ Source(a) \in Seq(Tasks)
        /\ Len(Source(a)) \in Nat /\ Len(todo[a]) \in Nat
        /\ DOMAIN Source(a) = 1 .. Len(Source(a))
        /\ Passed(a) \in Int /\ Passed(a) = Len(Source(a)) - Len(todo[a])
    BY SourceTypes DEF SourceTyped
  <1>2. Passed(a) > 0 /\ task[a] = Source(a)[Passed(a)]
    BY <1>0 DEF SourceAt
  <1>3. Passed(a) \in DOMAIN Source(a)
    BY <1>1, <1>2
  <1>4. status[Source(a)[Passed(a)]] = "offered"
    BY <1>0, <1>3 DEF SourceAt
  <1>5. Source(a)[Passed(a)] \in Tasks
    BY <1>1, <1>3, Lengths
  <1> QED BY <1>2, <1>3, <1>4, <1>5

\* What happens to a task of one submitter changes nothing for the others.
LEMMA OthersStay ==
    ASSUME TypeOK, RunOK, SourceOK, NEW a \in Submitters, NEW k \in DOMAIN Source(a),
           NEW life \in Lives, status' = [status EXCEPT ![Source(a)[k]] = life], job' = job,
           NEW b \in Submitters, b # a, todo'[b] = todo[b], SameHand(b)
    PROVE  SourceAt(b)'
  <1>1. Source(b)' = Source(b)
    BY DEF Source
  <1>2. \A i \in DOMAIN Source(b) : status'[Source(b)[i]] = status[Source(b)[i]]
    <2> TAKE i \in DOMAIN Source(b)
    <2>1. Source(b)[i] # Source(a)[k]
      BY SourceApart
    <2>2. Source(b)[i] \in Tasks /\ Source(a)[k] \in Tasks
      BY SourceTypes, Lengths DEF SourceTyped
    <2> QED BY <2>1, <2>2 DEF TypeOK
  <1> QED BY <1>1, <1>2, SourceStays

\* When a task is submitted, what other tasks would submit stays new.
LEMMA UnbornStays ==
    ASSUME TypeOK, RunOK, UnbornOK, NEW a \in Submitters, NEW k \in DOMAIN Source(a),
           NEW life \in Lives, status' = [status EXCEPT ![Source(a)[k]] = life],
           status[Source(a)[k]] \in Unborn
    PROVE  UnbornOK'
  <1> SUFFICES ASSUME NEW x \in Tasks, status'[x] \in Unborn, NEW i \in DOMAIN Children[x]
               PROVE  status'[Children[x][i]] = "new"
    BY DEF UnbornOK
  <1>0. Source(a)[k] \in Tasks /\ Children[x][i] \in Tasks
    BY SourceTypes, ConstantTypes, Lengths DEF SourceTyped
  <1>1. status[x] \in Unborn
    BY <1>0 DEF TypeOK
  <1>2. status[Children[x][i]] = "new"
    BY <1>1 DEF UnbornOK
  <1>3. Children[x][i] # Source(a)[k]
    <2> SUFFICES ASSUME Children[x][i] = Source(a)[k] PROVE FALSE
      OBVIOUS
    <2>0. DOMAIN <<>> = {}
      OBVIOUS
    <2>1. CASE a \in Clients
      BY <2>1, OnceAssumption DEF Source
    <2>2. CASE a \notin Clients
      <3>1. a \in Runners /\ job[a] \in Tasks /\ Source(a) = Children[job[a]]
        BY <2>0, <2>2, SourceKinds
      <3>2. job[a] = x
        BY <3>1, OnceAssumption
      <3> QED BY <1>1, <3>1, <3>2 DEF RunOK, Unborn, LifeOn, Body
    <2> QED BY <2>1, <2>2
  <1> QED BY <1>0, <1>2, <1>3 DEF TypeOK

\* Threads that stay inside the tasks they run keep RunOK.
LEMMA RunStays ==
    ASSUME RunOK, job' = job, EveryoneStays,
           \A x \in Tasks : \A life \in {"taken", "running", "helped"} :
               status'[x] = life <=> status[x] = life
    PROVE  RunOK'
  <1>1. \A r \in Runners : (Inside(r)' <=> Inside(r)) /\ (AtStart(r)' <=> AtStart(r))
    BY DEF EveryoneStays, Stays
  <1>2. \A r \in Runners : LifeOn(r)' = LifeOn(r) /\ LifeOn(r) \in {"taken", "running", "helped"}
    BY <1>1 DEF LifeOn, Body
  <1> QED BY <1>1, <1>2 DEF RunOK

\* Queues that stay keep PlaceOK, if nothing else becomes queued,
LEMMA PlaceStays ==
    ASSUME PlaceOK, queue' = queue, QueueTyped,
           \A x \in Tasks : status'[x] = "queued" <=> status[x] = "queued"
    PROVE  PlaceOK'
  <1>1. \A c \in Contexts : \A p \in DOMAIN queue[c] : queue[c][p] \in Tasks
    BY Lengths DEF QueueTyped
  <1> QED BY <1>1 DEF PlaceOK

\* and they keep their order.
LEMMA OrderStays ==
    ASSUME OrderOK, SortedOK, class' = class, queue' = queue
    PROVE  OrderOK' /\ SortedOK'
  BY DEF OrderOK, SortedOK, SamePriority

\* A step that moves no task keeps the invariant.
LEMMA QuietKeeps ==
    ASSUME TypeOK, TasksOK, Quiet
    PROVE  TasksOK'
  <1>0. SourceOK /\ UnbornOK /\ RunOK /\ PlaceOK /\ SortedOK /\ OrderOK /\ QueueTyped
    BY QueueTypes DEF TasksOK
  <1>1. SourceOK'
    <2> SUFFICES ASSUME NEW b \in Submitters PROVE SourceAt(b)'
      BY DEF SourceOK
    <2>1. Source(b)' = Source(b) /\ todo'[b] = todo[b] /\ SameHand(b) /\ status' = status
      BY DEF Quiet, SameHands, Source
    <2> QED BY <1>0, <2>1, SourceStays
  <1>2. UnbornOK'
    BY <1>0 DEF UnbornOK, Quiet
  <1>3. RunOK' /\ PlaceOK' /\ OrderOK' /\ SortedOK'
    BY <1>0, RunStays, PlaceStays, OrderStays DEF Quiet
  <1> QED BY <1>1, <1>2, <1>3 DEF TasksOK

\* The next task of a leaves todo.
LEMMA NextPasses ==
    ASSUME TypeOK, NEW a \in Submitters, SourceAt(a), todo[a] # <<>>,
           todo' = [todo EXCEPT ![a] = Tail(@)], Source(a)' = Source(a)
    PROVE  /\ Passed(a)' = Passed(a) + 1 /\ Passed(a) \in Nat
           /\ \A i \in DOMAIN todo'[a] : todo'[a][i] = Source(a)[Passed(a)' + i]
  <1>1. todo[a] \in Seq(Tasks) /\ todo[a] # <<>> /\ todo'[a] = Tail(todo[a])
    BY DEF TypeOK
  <1>2. /\ Len(todo[a]) \in Nat /\ Len(Source(a)) \in Nat /\ Passed(a) \in Int
        /\ Passed(a) = Len(Source(a)) - Len(todo[a])
    BY SourceTypes DEF SourceTyped
  <1>3. Passed(a) \in Nat
    BY <1>2 DEF SourceAt
  <1>4. Passed(a)' = Passed(a) + 1
    <2>1. Len(Tail(todo[a])) = Len(todo[a]) - 1
      BY <1>1
    <2>2. Passed(a)' = Len(Source(a)) - (Len(todo[a]) - 1)
      BY <1>1, <2>1 DEF Passed
    <2>3. \A m, n \in Nat : m - (n - 1) = (m - n) + 1
      OBVIOUS
    <2> QED BY <1>2, <2>2, <2>3
  <1>5. \A i \in DOMAIN Tail(todo[a]) :
           i \in Nat /\ i + 1 \in DOMAIN todo[a] /\ Tail(todo[a])[i] = todo[a][i + 1]
    BY <1>1
  <1>6. \A i \in DOMAIN todo'[a] : todo'[a][i] = Source(a)[Passed(a)' + i]
    <2> TAKE i \in DOMAIN todo'[a]
    <2>1. todo'[a][i] = Source(a)[Passed(a) + (i + 1)]
      BY <1>1, <1>5 DEF SourceAt
    <2>2. i \in Nat /\ Passed(a) + (i + 1) = (Passed(a) + 1) + i
      BY <1>1, <1>3, <1>5
    <2> QED BY <1>4, <2>1, <2>2
  <1> QED BY <1>3, <1>4, <1>6

\* The next task of a is taken in hand, or refused.
LEMMA PassSource ==
    ASSUME TypeOK, SourceOK, RunOK, NEW a \in Submitters, NEW life \in {"offered", "refused"},
           Pass(a, life), life = "offered" <=> InHand(a)',
           life = "offered" => task'[a] = Head(todo[a])
    PROVE  SourceOK'
  <1> DEFINE k == Passed(a) + 1
  <1>1. /\ k \in DOMAIN Source(a) /\ Head(todo[a]) = Source(a)[k] /\ Head(todo[a]) \in Tasks
    BY NextPlace DEF Pass
  <1>2. /\ status' = [status EXCEPT ![Source(a)[k]] = life] /\ life \in Lives /\ job' = job
    BY <1>1 DEF Pass, Lives
  <1> SUFFICES ASSUME NEW b \in Submitters PROVE SourceAt(b)'
    BY DEF SourceOK
  <1>3. CASE b # a
    <2>1. todo'[b] = todo[b] /\ SameHand(b)
      BY <1>3 DEF Pass, TypeOK
    <2> QED BY <1>1, <1>2, <1>3, <2>1, OthersStay
  <1>4. CASE b = a
    <2>0. Source(a)' = Source(a)
      BY DEF Pass, Source
    <2>1. SourceAt(a) /\ ~InHand(a)
      BY DEF SourceOK, Pass
    <2>2. /\ Passed(a)' = k /\ Passed(a) \in Nat
          /\ \A i \in DOMAIN todo'[a] : todo'[a][i] = Source(a)[Passed(a)' + i]
      BY <2>0, <2>1, NextPasses DEF Pass
    <2>3. ASSUME NEW i \in DOMAIN Source(a)
          PROVE  /\ status'[Source(a)[i]] = "new" <=> i > k
                 /\ status'[Source(a)[i]] = "offered" <=> i = k /\ InHand(a)'
      <3>1. i \in Nat /\ Source(a)[i] \in Tasks /\ k \in Nat
        BY <2>2, SourceTypes, Lengths DEF SourceTyped
      <3>2. CASE i = k
        <4>1. status'[Source(a)[i]] = life
          BY <1>1, <1>2, <3>1, <3>2 DEF TypeOK
        <4>2. ~(i > k)
          BY <3>1, <3>2
        <4> QED BY <3>2, <4>1, <4>2
      <3>3. CASE i # k
        <4>1. Source(a)[i] # Source(a)[k]
          BY <1>1, <3>3, SourceApart
        <4>2. status'[Source(a)[i]] = status[Source(a)[i]]
          BY <1>1, <1>2, <3>1, <4>1 DEF TypeOK
        <4>3. /\ status[Source(a)[i]] = "new" <=> i > Passed(a)
              /\ status[Source(a)[i]] # "offered"
          BY <2>1 DEF SourceAt
        <4>4. i > Passed(a) <=> i > k
          BY <2>2, <3>1, <3>3
        <4> QED BY <3>3, <4>2, <4>3, <4>4
      <3> QED BY <3>2, <3>3
    <2>4. Passed(a)' >= 0 /\ Passed(a)' > 0
      BY <2>2
    <2>5. InHand(a)' => task'[a] = Source(a)[k]
      BY <1>1
    <2> HIDE DEF k
    <2>6. SourceAt(a)'
      BY <2>0, <2>2, <2>3, <2>4, <2>5 DEF SourceAt
    <2> QED BY <1>4, <2>6
  <1> QED BY <1>3, <1>4

\* So does a step that takes the next task out of a program,
LEMMA PassKeeps ==
    ASSUME TypeOK, TasksOK, NEW a \in Submitters, NEW life \in {"offered", "refused"},
           Pass(a, life), life = "offered" <=> InHand(a)',
           life = "offered" => task'[a] = Head(todo[a])
    PROVE  TasksOK'
  <1>0. SourceOK /\ UnbornOK /\ RunOK /\ PlaceOK /\ OrderOK /\ SortedOK /\ QueueTyped
    BY QueueTypes DEF TasksOK
  <1> DEFINE k == Passed(a) + 1
  <1>1. /\ k \in DOMAIN Source(a) /\ Head(todo[a]) = Source(a)[k] /\ Head(todo[a]) \in Tasks
        /\ status[Head(todo[a])] = "new"
    BY <1>0, NextPlace DEF Pass
  <1>2. status' = [status EXCEPT ![Head(todo[a])] = life] /\ life \in Lives
    BY DEF Pass, Lives
  <1>3. UnbornOK'
    <2>1. status' = [status EXCEPT ![Source(a)[k]] = life] /\ status[Source(a)[k]] \in Unborn
      BY <1>1, <1>2 DEF Unborn
    <2> HIDE DEF k
    <2> QED BY <1>0, <1>1, <1>2, <2>1, UnbornStays
  <1>4. \A x \in Tasks : \A l \in {"taken", "running", "helped", "queued"} : status'[x] = l <=> status[x] = l
    BY <1>1, <1>2 DEF TypeOK
  <1>5. RunOK' /\ PlaceOK' /\ OrderOK' /\ SortedOK'
    BY <1>0, <1>4, RunStays, PlaceStays, OrderStays DEF Pass
  <1>6. SourceOK'
    BY <1>0, PassSource
  <1> QED BY <1>3, <1>5, <1>6 DEF TasksOK

\* to offer it
LEMMA OfferKeeps ==
    ASSUME TypeOK, TasksOK, NEW a \in Submitters, Offer(a) PROVE TasksOK'
  BY PassKeeps DEF Offer

\* or to refuse it.
LEMMA RefuseKeeps ==
    ASSUME TypeOK, TasksOK, NEW a \in Submitters, Refuse(a) PROVE TasksOK'
  <1>1. ~InHand(a)'
    BY DEF Refuse, Pass, SameHand
  <1> QED BY <1>1, PassKeeps DEF Refuse

-----------------------------------------------------------------------------
(***************************************************************************)
(* The place of a task in a queue                                          *)
(***************************************************************************)
\* r is q with t behind the first k elements.
Inserted(q, r, t, k) ==
    /\ k \in 0 .. Len(q)
    /\ k + 1 \in DOMAIN r /\ r[k + 1] = t
    /\ \A i \in DOMAIN q : LET p == IF i <= k THEN i ELSE i + 1
                           IN  p \in DOMAIN r /\ r[p] = q[i]
    /\ \A p \in DOMAIN r : p # k + 1 => LET i == IF p <= k THEN p ELSE p - 1
                                        IN  i \in DOMAIN q /\ r[p] = q[i]

\* Place inserts a task behind the first k of a queue.
LEMMA PlaceInserts ==
    ASSUME NEW q \in Seq(Tasks), NEW t \in Tasks, NEW k \in 0 .. Len(q)
    PROVE  Inserted(q, Place(q, t, k), t, k)
  <1> DEFINE a == SubSeq(q, 1, k)
             b == SubSeq(q, k + 1, Len(q))
             r == Place(q, t, k)
  <1>0. Len(q) \in Nat /\ DOMAIN q = 1 .. Len(q) /\ k \in Nat /\ k <= Len(q)
    BY Lengths
  <1>1. a \in Seq(Tasks) /\ Len(a) = k /\ \A p \in 1 .. k : a[p] = q[p]
    BY <1>0
  <1>2. b \in Seq(Tasks) /\ Len(b) = Len(q) - k /\ \A p \in 1 .. Len(q) - k : b[p] = q[k + p]
    <2>1. /\ b \in Seq(Tasks)
          /\ Len(b) = IF k + 1 <= Len(q) THEN Len(q) - (k + 1) + 1 ELSE 0
      BY <1>0
    <2>2. Len(b) = Len(q) - k
      <3> HIDE DEF b
      <3>0. \A m, n \in Nat : n <= m =>
               m - (n + 1) + 1 = m - n /\ (~(n + 1 <= m) => m - n = 0)
        OBVIOUS
      <3>1. Len(q) - (k + 1) + 1 = Len(q) - k /\ (~(k + 1 <= Len(q)) => Len(q) - k = 0)
        BY <1>0, <3>0
      <3> QED BY <2>1, <3>1
    <2>3. \A p \in 1 .. Len(q) - k : b[p] = q[(k + 1) + p - 1] /\ (k + 1) + p - 1 = k + p
      BY <1>0
    <2> QED BY <2>1, <2>2, <2>3
  <1>3. r = a \o <<t>> \o b /\ <<t>> \in Seq(Tasks) /\ Len(<<t>>) = 1 /\ <<t>>[1] = t
    BY DEF Place
  <1> HIDE DEF a, b, r
  <1>4. /\ DOMAIN r = 1 .. Len(q) + 1
        /\ \A p \in 1 .. Len(q) + 1 : r[p] = IF p <= k THEN a[p] ELSE IF p = k + 1 THEN t
                                             ELSE b[p - k - 1]
    <2> DEFINE s == a \o <<t>>
    <2>1. s \in Seq(Tasks) /\ Len(s) = k + 1
      BY <1>0, <1>1, <1>3
    <2>2. \A p \in 1 .. k + 1 : s[p] = IF p <= k THEN a[p] ELSE t
      BY <1>0, <1>1, <1>3
    <2> HIDE DEF s
    <2>3. r = s \o b
      BY <1>3 DEF s
    <2>4. DOMAIN r = 1 .. Len(q) + 1
      <3>1. r \in Seq(Tasks) /\ Len(r) = Len(s) + Len(b)
        BY <1>2, <2>1, <2>3, ConcatProperties
      <3>2. Len(s) + Len(b) = Len(q) + 1
        BY <1>0, <1>2, <2>1
      <3> QED BY <3>1, <3>2, Lengths
    <2>5. \A p \in 1 .. Len(q) + 1 : r[p] = IF p <= Len(s) THEN s[p] ELSE b[p - Len(s)]
      <3>1. Len(s) + Len(b) = Len(q) + 1
        BY <1>0, <1>2, <2>1
      <3>2. s \in Seq(Tasks) /\ b \in Seq(Tasks)
        BY <1>2, <2>1
      <3>3. \A p \in 1 .. Len(s) + Len(b) : (s \o b)[p] = IF p <= Len(s) THEN s[p] ELSE b[p - Len(s)]
        BY <3>2, ConcatProperties, SMTT(40)
      <3> QED BY <2>3, <3>1, <3>3
    <2>6. \A p \in 1 .. Len(q) + 1 : /\ p <= k + 1 <=> p \in 1 .. k + 1
                                     /\ p <= k => p <= k + 1
                                     /\ ~(p <= k) /\ p # k + 1 => ~(p <= k + 1)
                                     /\ p - (k + 1) = p - k - 1
      BY <1>0
    <2> QED BY <2>1, <2>2, <2>4, <2>5, <2>6
  <1>5. k + 1 \in DOMAIN r /\ r[k + 1] = t
    BY <1>0, <1>4
  <1>6. ASSUME NEW p \in DOMAIN r, p # k + 1
        PROVE  LET i == IF p <= k THEN p ELSE p - 1
               IN  i \in DOMAIN q /\ r[p] = q[i]
    <2>1. p \in Nat /\ p >= 1 /\ p <= Len(q) + 1
      BY <1>0, <1>4
    <2>2. CASE p <= k
      BY <1>0, <1>1, <1>4, <2>1, <2>2
    <2>3. CASE ~(p <= k)
      <3>1. p - k - 1 \in 1 .. Len(q) - k /\ p - 1 \in DOMAIN q /\ k + (p - k - 1) = p - 1
        BY <1>0, <1>6, <2>1, <2>3
      <3>2. r[p] = b[p - k - 1]
        BY <1>4, <1>6, <2>3
      <3> QED BY <1>2, <2>3, <3>1, <3>2
    <2> QED BY <2>2, <2>3
  <1>7. ASSUME NEW i \in DOMAIN q
        PROVE  LET p == IF i <= k THEN i ELSE i + 1
               IN  p \in DOMAIN r /\ r[p] = q[i]
    <2>1. i \in Nat /\ i >= 1 /\ i <= Len(q)
      BY <1>0
    <2>2. CASE i <= k
      BY <1>0, <1>1, <1>4, <2>1, <2>2
    <2>3. CASE ~(i <= k)
      <3>1. i + 1 \in DOMAIN r /\ i + 1 # k + 1 /\ ~(i + 1 <= k) /\ (i + 1) - 1 = i
        BY <1>0, <1>4, <2>1, <2>3
      <3>2. r[i + 1] = q[(i + 1) - 1]
        BY <1>6, <3>1
      <3> QED BY <2>3, <3>1, <3>2
    <2> QED BY <2>2, <2>3
  <1>8. Inserted(q, r, t, k)
    BY <1>5, <1>6, <1>7 DEF Inserted
  <1> QED BY <1>8 DEF r

\* The tasks of a sorted queue that go before t are its first ones.
LEMMA AheadIsPrefix ==
    ASSUME NEW q \in Seq(Tasks), NEW t \in Tasks,
           \A i, j \in DOMAIN q : i < j => RunCount[q[i]] <= RunCount[q[j]]
    PROVE  /\ Cardinality(Ahead(q, t)) \in 0 .. Len(q)
           /\ Ahead(q, t) = 1 .. Cardinality(Ahead(q, t))
  <1> DEFINE S == Ahead(q, t)
             k == Cardinality(S)
  <1>0. /\ Len(q) \in Nat /\ DOMAIN q = 1 .. Len(q) /\ RunCount[t] \in Nat
        /\ \A i \in DOMAIN q : RunCount[q[i]] \in Nat
    BY Lengths, PoolAssumption
  <1>1. \A n \in Nat : IsFiniteSet(1 .. n) /\ Cardinality(1 .. n) = n
    <2> SUFFICES ASSUME NEW n \in Nat PROVE IsFiniteSet(1 .. n) /\ Cardinality(1 .. n) = n
      OBVIOUS
    <2>1. 1 \in Int /\ n \in Int
      OBVIOUS
    <2>2. IsFiniteSet(1 .. n) /\ Cardinality(1 .. n) = IF 1 > n THEN 0 ELSE n - 1 + 1
      BY ONLY <2>1, FS_Interval
    <2> QED BY <2>2
  <1>2. S \subseteq 1 .. Len(q)
    BY DEF Ahead
  <1>3. IsFiniteSet(S) /\ k \in Nat /\ k <= Len(q)
    BY <1>0, <1>1, <1>2, FS_Subset, FS_CardinalityType
  <1>4. \A i \in S : i \in Nat /\ 1 .. i \subseteq S
    <2> SUFFICES ASSUME NEW i \in S, NEW j \in 1 .. i PROVE j \in S
      BY <1>2
    <2>1. i \in DOMAIN q /\ j \in DOMAIN q /\ RunCount[q[i]] <= RunCount[t]
      BY <1>0, <1>2 DEF Ahead
    <2>2. RunCount[q[j]] <= RunCount[q[i]]
      <3>1. CASE j = i
        BY <1>0, <2>1, <3>1
      <3>2. CASE j # i
        BY <1>0, <2>1, <3>2
      <3> QED BY <3>1, <3>2
    <2>3. RunCount[q[j]] <= RunCount[t]
      BY <1>0, <2>1, <2>2
    <2> QED BY <1>0, <2>1, <2>3 DEF Ahead
  <1> HIDE DEF S
  <1>5. \A i \in S : i <= k
    <2> TAKE i \in S
    <2>1. i \in Nat /\ 1 .. i \subseteq S
      BY <1>4
    <2>2. Cardinality(1 .. i) <= k
      BY <1>3, <2>1, FS_Subset
    <2> QED BY <1>1, <2>1, <2>2
  <1>6. S \subseteq 1 .. k
    BY <1>2, <1>3, <1>5
  <1>7. S = 1 .. k
    <2>1. IsFiniteSet(1 .. k) /\ Cardinality(1 .. k) = k
      BY <1>1, <1>3
    <2> QED BY <1>6, <2>1, FS_Subset
  <1>8. Cardinality(S) \in 0 .. Len(q) /\ S = 1 .. Cardinality(S)
    BY <1>0, <1>3, <1>7
  <1> QED BY <1>8 DEF S

\* Where each class puts a task: the last place of a fifo, and behind exactly those
\* that have run no more often in the priority queue.
LEMMA InsertPlaces ==
    ASSUME TypeOK, SortedOK, NEW c \in Contexts, NEW t \in Tasks
    PROVE  \E k \in 0 .. Len(queue[c]) :
              /\ Inserted(queue[c], Insert(queue[c], t), t, k)
              /\ class \in {gq, lfgq} => k = Len(queue[c])
              /\ class = gpq => \A i \in DOMAIN queue[c] : RunCount[queue[c][i]] <= RunCount[t] <=> i <= k
  <1> DEFINE q == queue[c]
  <1>0. q \in Seq(Tasks) /\ Len(q) \in Nat /\ DOMAIN q = 1 .. Len(q)
    BY QueueTypes DEF QueueTyped
  <1>1. /\ class.order \in {"fifo", "lifo", "hot", "priority"}
        /\ class \in {gq, lfgq} => class.order = "fifo"
        /\ class = gpq <=> class.order = "priority"
    BY ClassesAssumption DEF TypeOK, AllClasses, gq, lq, lq_steal_seq,
       lq_steal_neighbor, gs, ls, gs_hot, ls_hot, gpq, lqlf_steal_seq, lfgq,
       lflq, Pool
  <1>s. class = gpq => \A i, j \in DOMAIN q : i < j => RunCount[q[i]] <= RunCount[q[j]]
    BY DEF SortedOK
  <1> HIDE DEF q
  <1>2. ASSUME Insert(q, t) = Append(q, t) PROVE Inserted(q, Insert(q, t), t, Len(q))
    <2>1. Len(q) \in 0 .. Len(q) /\ DOMAIN Append(q, t) = 1 .. Len(q) + 1
      BY <1>0
    <2>2. \A i \in 1 .. Len(q) : Append(q, t)[i] = q[i]
      BY <1>0
    <2>3. Append(q, t)[Len(q) + 1] = t
      BY <1>0
    <2> QED BY <1>0, <1>2, <2>1, <2>2, <2>3 DEF Inserted
  <1>3. ASSUME Insert(q, t) = <<t>> \o q PROVE Inserted(q, Insert(q, t), t, 0)
    <2>1. 0 \in 0 .. Len(q) /\ DOMAIN (<<t>> \o q) = 1 .. Len(q) + 1
      BY <1>0
    <2>2. \A i \in 1 .. Len(q) : (<<t>> \o q)[i + 1] = q[i]
      BY <1>0
    <2>3. (<<t>> \o q)[1] = t
      BY <1>0
    <2>4. \A p \in 1 .. Len(q) + 1 : p # 1 => p - 1 \in 1 .. Len(q) /\ (<<t>> \o q)[p] = q[p - 1]
      BY <1>0, <2>2
    <2> QED BY <1>0, <1>3, <2>1, <2>2, <2>3, <2>4 DEF Inserted
  <1>4. CASE class.order = "fifo"
    <2>1. Insert(q, t) = Append(q, t)
      BY <1>4 DEF Insert
    <2>2. Len(q) \in 0 .. Len(q)
      BY <1>0
    <2>3. class # gpq
      BY <1>1, <1>4
    <2> QED BY <1>2, <2>1, <2>2, <2>3 DEF q
  <1>5. CASE class.order = "priority"
    <2> DEFINE k == Cardinality(Ahead(q, t))
    <2>1. Insert(q, t) = Place(q, t, k)
      BY <1>5 DEF Insert
    <2>2. k \in 0 .. Len(q) /\ Ahead(q, t) = 1 .. k
      BY <1>0, <1>1, <1>5, <1>s, AheadIsPrefix
    <2>3. \A i \in DOMAIN q : RunCount[q[i]] <= RunCount[t] <=> i \in Ahead(q, t)
      BY <1>0 DEF Ahead
    <2> HIDE DEF k
    <2>4. \A i \in DOMAIN q : i \in 1 .. k <=> i <= k
      BY <1>0, <2>2
    <2>5. Inserted(q, Insert(q, t), t, k)
      BY <1>0, <2>1, <2>2, PlaceInserts
    <2>6. class \notin {gq, lfgq}
      BY <1>1, <1>5
    <2> QED BY <2>2, <2>3, <2>4, <2>5, <2>6 DEF q
  <1>6. CASE class.order \in {"lifo", "hot"}
    <2>1. Insert(q, t) \in {Append(q, t), <<t>> \o q}
      BY <1>6 DEF Insert
    <2>2. class \notin {gq, lfgq} /\ class # gpq
      BY <1>1, <1>6
    <2>3. Len(q) \in 0 .. Len(q) /\ 0 \in 0 .. Len(q)
      BY <1>0
    <2>4. CASE Insert(q, t) = Append(q, t)
      BY <1>2, <2>2, <2>3, <2>4 DEF q
    <2>5. CASE Insert(q, t) = <<t>> \o q
      BY <1>3, <2>2, <2>3, <2>5 DEF q
    <2> QED BY <2>1, <2>4, <2>5
  <1> QED BY <1>1, <1>4, <1>5, <1>6

-----------------------------------------------------------------------------
(***************************************************************************)
(* A task enters a queue, is taken, is called, and ends                    *)
(***************************************************************************)
\* A submitter that has put its task into a queue has passed it.
LEMMA AcceptSource ==
    ASSUME TypeOK, SourceOK, RunOK, NEW a \in Submitters, NEW c \in Contexts, Accept(a, c)
    PROVE  SourceOK'
  <1> DEFINE k == Passed(a)
  <1>1. k \in DOMAIN Source(a) /\ task[a] = Source(a)[k] /\ task[a] \in Tasks
    BY HandPlace DEF Accept
  <1>2. /\ status' = [status EXCEPT ![Source(a)[k]] = "queued"] /\ "queued" \in Lives
        /\ job' = job /\ todo' = todo
    BY <1>1 DEF Accept, Lives
  <1> SUFFICES ASSUME NEW b \in Submitters PROVE SourceAt(b)'
    BY DEF SourceOK
  <1>3. CASE b # a
    <2>1. todo'[b] = todo[b] /\ SameHand(b)
      BY <1>2, <1>3 DEF Accept
    <2> QED BY <1>1, <1>2, <1>3, <2>1, OthersStay
  <1>4. CASE b = a
    <2>0. Source(a)' = Source(a) /\ Passed(a)' = Passed(a)
      BY <1>2 DEF Source, Passed
    <2>1. SourceAt(a) /\ InHand(a) /\ ~InHand(a)'
      BY DEF SourceOK, Accept
    <2>2. ASSUME NEW i \in DOMAIN Source(a)
          PROVE  /\ status'[Source(a)[i]] = "new" <=> i > Passed(a)
                 /\ status'[Source(a)[i]] # "offered"
      <3>1. i \in Nat /\ Source(a)[i] \in Tasks
        BY SourceTypes, Lengths DEF SourceTyped
      <3>2. CASE i = k
        <4>1. status'[Source(a)[i]] = "queued"
          BY <1>1, <1>2, <3>1, <3>2 DEF TypeOK
        <4>2. ~(i > Passed(a))
          BY <3>1, <3>2
        <4> QED BY <4>1, <4>2
      <3>3. CASE i # k
        <4>1. Source(a)[i] # Source(a)[k]
          BY <1>1, <3>3, SourceApart
        <4>2. status'[Source(a)[i]] = status[Source(a)[i]]
          BY <1>1, <1>2, <3>1, <4>1 DEF TypeOK
        <4>3. /\ status[Source(a)[i]] = "new" <=> i > Passed(a)
              /\ status[Source(a)[i]] # "offered"
          BY <2>1, <3>3 DEF SourceAt
        <4> QED BY <4>2, <4>3
      <3> QED BY <3>2, <3>3
    <2>3. SourceAt(a)'
      BY <1>2, <2>0, <2>1, <2>2 DEF SourceAt
    <2> QED BY <1>4, <2>3
  <1> QED BY <1>3, <1>4

\* Where the elements of a queue come from when t has been put behind the first k.
Back(k, p) == IF p <= k THEN p ELSE p - 1

\* Which task of the old queue is at which position of the new one.
LEMMA InsertedFrom ==
    ASSUME NEW q \in Seq(Tasks), NEW r \in Seq(Tasks), NEW t \in Tasks, NEW k, Inserted(q, r, t, k)
    PROVE  /\ k \in Nat /\ k + 1 \in DOMAIN r /\ r[k + 1] = t
           /\ \A i \in DOMAIN q : i \in Nat /\ \E p \in DOMAIN r : r[p] = q[i]
           /\ \A p \in DOMAIN r : p \in Nat
           /\ \A p \in DOMAIN r : p # k + 1 =>
                 /\ Back(k, p) \in DOMAIN q /\ r[p] = q[Back(k, p)]
                 /\ p < k + 1 => Back(k, p) <= k
                 /\ p > k + 1 => ~(Back(k, p) <= k)
           /\ \A p, s \in DOMAIN r : p # k + 1 /\ s # k + 1 =>
                 /\ p < s => Back(k, p) < Back(k, s)
                 /\ Back(k, p) = Back(k, s) => p = s
  <1>1. k \in Nat /\ (\A p \in DOMAIN r : p \in Nat) /\ (\A i \in DOMAIN q : i \in Nat)
    BY Lengths DEF Inserted
  <1>2. k + 1 \in DOMAIN r /\ r[k + 1] = t
    BY DEF Inserted
  <1>3. \A i \in DOMAIN q : \E p \in DOMAIN r : r[p] = q[i]
    BY DEF Inserted
  <1>4. \A p \in DOMAIN r : p # k + 1 => Back(k, p) \in DOMAIN q /\ r[p] = q[Back(k, p)]
    BY DEF Inserted, Back
  <1>5. \A p \in DOMAIN r : p # k + 1 => /\ p < k + 1 => Back(k, p) <= k
                                         /\ p > k + 1 => ~(Back(k, p) <= k)
    BY <1>1 DEF Back
  <1>6. \A p, s \in DOMAIN r : p # k + 1 /\ s # k + 1 =>
                 /\ p < s => Back(k, p) < Back(k, s)
                 /\ Back(k, p) = Back(k, s) => p = s
    BY <1>1 DEF Back
  <1> QED BY <1>1, <1>2, <1>3, <1>4, <1>5, <1>6

\* What a push makes of the queues.
LEMMA AcceptQueues ==
    ASSUME TypeOK, TypeOK', SortedOK, NEW a \in Submitters, NEW c \in Contexts, task[a] \in Tasks,
           Accept(a, c)
    PROVE  \E k \in Nat :
        /\ k + 1 \in DOMAIN queue'[c] /\ queue'[c][k + 1] = task[a]
        /\ \A i \in DOMAIN queue[c] : \E p \in DOMAIN queue'[c] : queue'[c][p] = queue[c][i]
        /\ \A p \in DOMAIN queue'[c] : p \in Nat
        /\ \A p \in DOMAIN queue'[c] : p # k + 1 =>
              /\ Back(k, p) \in DOMAIN queue[c] /\ queue'[c][p] = queue[c][Back(k, p)]
              /\ p < k + 1 => Back(k, p) <= k
              /\ p > k + 1 => ~(Back(k, p) <= k)
        /\ \A p, s \in DOMAIN queue'[c] : p # k + 1 /\ s # k + 1 =>
              /\ p < s => Back(k, p) < Back(k, s)
              /\ Back(k, p) = Back(k, s) => p = s
        /\ \A d \in Contexts \ {c} : queue'[d] = queue[d]
        /\ class \in {gq, lfgq} => \A i \in DOMAIN queue[c] : i <= k
        /\ class = gpq => \A i \in DOMAIN queue[c] :
              RunCount[queue[c][i]] <= RunCount[task[a]] <=> i <= k
  <1>1. PICK k \in 0 .. Len(queue[c]) :
              /\ Inserted(queue[c], Insert(queue[c], task[a]), task[a], k)
              /\ class \in {gq, lfgq} => k = Len(queue[c])
              /\ class = gpq => \A i \in DOMAIN queue[c] :
                    RunCount[queue[c][i]] <= RunCount[task[a]] <=> i <= k
    BY InsertPlaces
  <1>2. /\ queue'[c] = Insert(queue[c], task[a])
        /\ \A d \in Contexts \ {c} : queue'[d] = queue[d]
    BY DEF Accept, TypeOK
  <1>3. /\ queue[c] \in Seq(Tasks) /\ queue'[c] \in Seq(Tasks)
        /\ Inserted(queue[c], queue'[c], task[a], k)
    BY <1>1, <1>2 DEF TypeOK
  <1>4. class \in {gq, lfgq} => \A i \in DOMAIN queue[c] : i <= k
    BY <1>1, <1>3, Lengths
  <1>5. k \in Nat
    BY <1>3, InsertedFrom
  <1>6. /\ k + 1 \in DOMAIN queue'[c] /\ queue'[c][k + 1] = task[a]
        /\ \A i \in DOMAIN queue[c] : \E p \in DOMAIN queue'[c] : queue'[c][p] = queue[c][i]
        /\ \A p \in DOMAIN queue'[c] : p \in Nat
    BY <1>3, InsertedFrom
  <1>7. \A p \in DOMAIN queue'[c] : p # k + 1 =>
              /\ Back(k, p) \in DOMAIN queue[c] /\ queue'[c][p] = queue[c][Back(k, p)]
              /\ p < k + 1 => Back(k, p) <= k
              /\ p > k + 1 => ~(Back(k, p) <= k)
    BY <1>3, InsertedFrom
  <1>8. \A p, s \in DOMAIN queue'[c] : p # k + 1 /\ s # k + 1 =>
              /\ p < s => Back(k, p) < Back(k, s)
              /\ Back(k, p) = Back(k, s) => p = s
    BY <1>3, InsertedFrom
  <1> QED BY <1>1, <1>2, <1>4, <1>5, <1>6, <1>7, <1>8

\* A task that is put into a queue is in no queue yet, and it comes after every other
\* task of its client that is in one and has run as often.
LEMMA AcceptPlaces ==
    ASSUME TypeOK, TypeOK', TasksOK, NEW a \in Submitters, NEW c \in Contexts, Accept(a, c)
    PROVE  PlaceOK' /\ SortedOK' /\ OrderOK'
  <1>0. SourceOK /\ RunOK /\ PlaceOK /\ OrderOK /\ SortedOK /\ QueueTyped
    BY QueueTypes DEF TasksOK
  <1> DEFINE x == task[a]
  <1>1. /\ x \in Tasks /\ status[x] = "offered"
        /\ Passed(a) \in DOMAIN Source(a) /\ x = Source(a)[Passed(a)]
    BY <1>0, HandPlace DEF Accept
  <1>2. PICK k \in Nat :
        /\ k + 1 \in DOMAIN queue'[c] /\ queue'[c][k + 1] = x
        /\ \A i \in DOMAIN queue[c] : \E p \in DOMAIN queue'[c] : queue'[c][p] = queue[c][i]
        /\ \A p \in DOMAIN queue'[c] : p \in Nat
        /\ \A p \in DOMAIN queue'[c] : p # k + 1 =>
              /\ Back(k, p) \in DOMAIN queue[c] /\ queue'[c][p] = queue[c][Back(k, p)]
              /\ p < k + 1 => Back(k, p) <= k
              /\ p > k + 1 => ~(Back(k, p) <= k)
        /\ \A p, s \in DOMAIN queue'[c] : p # k + 1 /\ s # k + 1 =>
              /\ p < s => Back(k, p) < Back(k, s)
              /\ Back(k, p) = Back(k, s) => p = s
        /\ \A d \in Contexts \ {c} : queue'[d] = queue[d]
        /\ class \in {gq, lfgq} => \A i \in DOMAIN queue[c] : i <= k
        /\ class = gpq => \A i \in DOMAIN queue[c] :
              RunCount[queue[c][i]] <= RunCount[x] <=> i <= k
    BY <1>0, <1>1, AcceptQueues
  <1>3. /\ status'[x] = "queued" /\ \A y \in Tasks \ {x} : status'[y] = status[y]
        /\ class' = class
    BY <1>1 DEF Accept, TypeOK
  <1>4. \A d \in Contexts : \A p \in DOMAIN queue[d] :
           /\ queue[d][p] \in Tasks /\ status[queue[d][p]] = "queued" /\ queue[d][p] # x
    BY <1>0, <1>1, Lengths DEF PlaceOK, QueueTyped
  <1> HIDE DEF x
  <1>n. ASSUME NEW d \in Contexts, NEW p \in DOMAIN queue'[d], ~(d = c /\ p = k + 1)
        PROVE  \E i \in DOMAIN queue[d] : /\ queue'[d][p] = queue[d][i]
                                          /\ i = IF d = c THEN Back(k, p) ELSE p
    <2>1. CASE d = c
      BY <1>2, <1>n, <2>1
    <2>2. CASE d # c
      BY <1>2, <2>2
    <2> QED BY <2>1, <2>2
  <1>5. PlaceOK'
    <2>1. ASSUME NEW d \in Contexts, NEW p \in DOMAIN queue'[d] PROVE status'[queue'[d][p]] = "queued"
      <3>1. CASE d = c /\ p = k + 1
        BY <1>2, <1>3, <3>1
      <3>2. CASE ~(d = c /\ p = k + 1)
        <4>1. PICK i \in DOMAIN queue[d] : queue'[d][p] = queue[d][i]
          BY <1>n, <3>2
        <4> QED BY <1>3, <1>4, <4>1
      <3> QED BY <3>1, <3>2
    <2>2. ASSUME NEW d \in Contexts, NEW e \in Contexts, NEW p \in DOMAIN queue'[d],
                 NEW q \in DOMAIN queue'[e], queue'[d][p] = queue'[e][q]
          PROVE  d = e /\ p = q
      <3>1. CASE d = c /\ p = k + 1
        <4>1. queue'[e][q] = x
          BY <1>2, <2>2, <3>1
        <4>2. e = c /\ q = k + 1
          BY <1>4, <1>n, <4>1
        <4> QED BY <3>1, <4>2
      <3>2. CASE ~(d = c /\ p = k + 1)
        <4>1. PICK i \in DOMAIN queue[d] : /\ queue'[d][p] = queue[d][i]
                                           /\ i = IF d = c THEN Back(k, p) ELSE p
          BY <1>n, <3>2
        <4>2. ~(e = c /\ q = k + 1)
          BY <1>2, <1>4, <2>2, <4>1
        <4>3. PICK j \in DOMAIN queue[e] : /\ queue'[e][q] = queue[e][j]
                                           /\ j = IF e = c THEN Back(k, q) ELSE q
          BY <1>n, <4>2
        <4>4. queue[d][i] = queue[e][j]
          BY <2>2, <4>1, <4>3
        <4>5. d = e /\ i = j
          BY <1>0, <4>4 DEF PlaceOK
        <4>6. CASE d = c
          <5>1. Back(k, p) = Back(k, q) /\ p # k + 1 /\ q # k + 1
            BY <3>2, <4>1, <4>2, <4>3, <4>5, <4>6
          <5>2. p \in DOMAIN queue'[c] /\ q \in DOMAIN queue'[c]
            BY <4>5, <4>6
          <5> QED BY <1>2, <4>5, <5>1, <5>2
        <4>7. CASE d # c
          BY <4>1, <4>3, <4>5, <4>7
        <4> QED BY <4>6, <4>7
      <3> QED BY <3>1, <3>2
    <2>3. ASSUME NEW y \in Tasks, status'[y] = "queued"
          PROVE  \E d \in Contexts : \E p \in DOMAIN queue'[d] : queue'[d][p] = y
      <3>1. CASE y = x
        BY <1>2, <3>1
      <3>2. CASE y # x
        <4>1. status[y] = "queued"
          BY <1>3, <2>3, <3>2
        <4>2. PICK d \in Contexts : \E p \in DOMAIN queue[d] : queue[d][p] = y
          BY <1>0, <4>1 DEF PlaceOK
        <4>3. CASE d = c
          BY <1>2, <4>2, <4>3
        <4>4. CASE d # c
          BY <1>2, <4>2, <4>4
        <4> QED BY <4>3, <4>4
      <3> QED BY <3>1, <3>2
    <2> QED BY <2>1, <2>2, <2>3 DEF PlaceOK
  <1>6. SortedOK'
    <2> SUFFICES ASSUME class = gpq, NEW d \in Contexts, NEW p \in DOMAIN queue'[d],
                        NEW q \in DOMAIN queue'[d], p < q
                 PROVE  RunCount[queue'[d][p]] <= RunCount[queue'[d][q]]
      BY <1>3 DEF SortedOK
    <2>0. \A y \in Tasks : RunCount[y] \in Nat
      BY PoolAssumption
    <2>1. CASE d # c
      BY <1>0, <1>2, <2>1 DEF SortedOK
    <2>2. CASE d = c
      <3>0. p \in DOMAIN queue'[c] /\ q \in DOMAIN queue'[c] /\ p \in Nat /\ q \in Nat
        BY <1>2, <2>2
      <3>1. CASE p = k + 1
        <4>1. q > k + 1 /\ q # k + 1
          BY <3>0, <3>1
        <4>2. Back(k, q) \in DOMAIN queue[c] /\ queue'[c][q] = queue[c][Back(k, q)] /\ ~(Back(k, q) <= k)
          BY <1>2, <3>0, <4>1
        <4>3. ~(RunCount[queue[c][Back(k, q)]] <= RunCount[x]) /\ queue[c][Back(k, q)] \in Tasks
          BY <1>2, <1>4, <4>2
        <4>4. RunCount[x] <= RunCount[queue[c][Back(k, q)]]
          BY <1>1, <2>0, <4>3
        <4> QED BY <1>2, <2>2, <3>1, <4>2, <4>4
      <3>2. CASE q = k + 1
        <4>1. p < k + 1 /\ p # k + 1
          BY <3>0, <3>2
        <4>2. Back(k, p) \in DOMAIN queue[c] /\ queue'[c][p] = queue[c][Back(k, p)] /\ Back(k, p) <= k
          BY <1>2, <3>0, <4>1
        <4> QED BY <1>2, <2>2, <3>2, <4>2
      <3>3. CASE p # k + 1 /\ q # k + 1
        <4>1. /\ Back(k, p) \in DOMAIN queue[c] /\ queue'[c][p] = queue[c][Back(k, p)]
              /\ Back(k, q) \in DOMAIN queue[c] /\ queue'[c][q] = queue[c][Back(k, q)]
              /\ Back(k, p) < Back(k, q)
          BY <1>2, <3>0, <3>3
        <4> QED BY <1>0, <2>2, <4>1 DEF SortedOK
      <3> QED BY <3>1, <3>2, <3>3
    <2> QED BY <2>1, <2>2
  <1>7. OrderOK'
    <2> SUFFICES ASSUME class \in {gq, lfgq, gpq}, NEW d \in Contexts, NEW p \in DOMAIN queue'[d],
                        NEW q \in DOMAIN queue'[d], NEW b \in Clients,
                        NEW i \in DOMAIN Program[b], NEW j \in DOMAIN Program[b],
                        p < q, queue'[d][p] = Program[b][j], queue'[d][q] = Program[b][i],
                        SamePriority(Program[b][i], Program[b][j])
                 PROVE  j <= i
      BY <1>3 DEF OrderOK, SamePriority
    <2>1. CASE d # c
      BY <1>0, <1>2, <2>1 DEF OrderOK
    <2>2. CASE d = c
      <3>0. p \in DOMAIN queue'[c] /\ q \in DOMAIN queue'[c] /\ p \in Nat /\ q \in Nat
        BY <1>2, <2>2
      <3>1. CASE p = k + 1
        <4>1. q > k + 1 /\ q # k + 1
          BY <3>0, <3>1
        <4>2. Back(k, q) \in DOMAIN queue[c] /\ queue'[c][q] = queue[c][Back(k, q)] /\ ~(Back(k, q) <= k)
          BY <1>2, <3>0, <4>1
        <4>3. class = gpq
          BY <1>2, <4>2
        <4>4. ~(RunCount[Program[b][i]] <= RunCount[Program[b][j]])
          BY <1>2, <2>2, <3>1, <4>2, <4>3
        <4>5. RunCount[Program[b][j]] \in Nat
          BY <1>1, <1>2, <2>2, <3>1, PoolAssumption
        <4> QED BY <4>3, <4>4, <4>5 DEF SamePriority
      <3>2. CASE q = k + 1
        <4>1. p # k + 1
          BY <3>0, <3>2
        <4>2. Back(k, p) \in DOMAIN queue[c] /\ queue'[c][p] = queue[c][Back(k, p)]
          BY <1>2, <3>0, <4>1
        <4>3. b \in Submitters /\ Source(b) = Program[b]
          BY DEF Source, Submitters
        <4>4. a = b /\ i = Passed(a)
          BY <1>0, <1>1, <1>2, <2>2, <3>2, <4>3, SourceApart
        <4>5. status[Source(b)[j]] # "new"
          BY <1>4, <2>2, <4>2, <4>3
        <4>6. ~(j > Passed(b))
          BY <1>0, <4>3, <4>5 DEF SourceOK, SourceAt
        <4>7. j \in Nat /\ Passed(b) \in Int
          BY <4>3, SourceTypes DEF SourceTyped
        <4> QED BY <4>4, <4>6, <4>7
      <3>3. CASE p # k + 1 /\ q # k + 1
        <4>1. /\ Back(k, p) \in DOMAIN queue[c] /\ queue'[c][p] = queue[c][Back(k, p)]
              /\ Back(k, q) \in DOMAIN queue[c] /\ queue'[c][q] = queue[c][Back(k, q)]
              /\ Back(k, p) < Back(k, q)
          BY <1>2, <3>0, <3>3
        <4> QED BY <1>0, <2>2, <4>1 DEF OrderOK
      <3> QED BY <3>1, <3>2, <3>3
    <2> QED BY <2>1, <2>2
  <1> QED BY <1>5, <1>6, <1>7

\* A push keeps the invariant.
LEMMA AcceptKeeps ==
    ASSUME TypeOK, TypeOK', TasksOK, NEW a \in Submitters, NEW c \in Contexts, Accept(a, c)
    PROVE  TasksOK'
  <1>0. SourceOK /\ UnbornOK /\ RunOK
    BY DEF TasksOK
  <1>1. /\ Passed(a) \in DOMAIN Source(a) /\ task[a] = Source(a)[Passed(a)]
        /\ task[a] \in Tasks /\ status[task[a]] = "offered"
    BY <1>0, HandPlace DEF Accept
  <1>2. status' = [status EXCEPT ![Source(a)[Passed(a)]] = "queued"] /\ "queued" \in Lives
    BY <1>1 DEF Accept, Lives
  <1>3. UnbornOK'
    BY <1>0, <1>1, <1>2, UnbornStays DEF Unborn
  <1>4. \A y \in Tasks : \A l \in {"taken", "running", "helped"} : status'[y] = l <=> status[y] = l
    BY <1>1, <1>2 DEF TypeOK
  <1>5. RunOK'
    BY <1>0, <1>4, RunStays DEF Accept
  <1> QED BY <1>0, <1>3, <1>5, AcceptSource, AcceptPlaces DEF TasksOK

\* What is left of a queue that has lost its front.
LEMMA FrontGone ==
    ASSUME TypeOK, NEW c \in Contexts, queue[c] # <<>>, queue' = [queue EXCEPT ![c] = Tail(@)]
    PROVE  /\ 1 \in DOMAIN queue[c] /\ queue[c][1] = Head(queue[c]) /\ Head(queue[c]) \in Tasks
           /\ \A d \in Contexts \ {c} : queue'[d] = queue[d]
           /\ \A p \in DOMAIN queue'[c] :
                 /\ p \in Nat /\ p # 0
                 /\ p + 1 \in DOMAIN queue[c] /\ queue'[c][p] = queue[c][p + 1]
           /\ \A p \in DOMAIN queue[c] : p # 1 =>
                 p \in Nat /\ p - 1 \in DOMAIN queue'[c] /\ queue'[c][p - 1] = queue[c][p]
  <1>1. queue[c] \in Seq(Tasks) /\ queue'[c] = Tail(queue[c])
    BY DEF TypeOK
  <1>2. 1 \in DOMAIN queue[c] /\ queue[c][1] = Head(queue[c]) /\ Head(queue[c]) \in Tasks
    BY <1>1
  <1>3. \A p \in DOMAIN Tail(queue[c]) :
           /\ p \in Nat /\ p # 0
           /\ p + 1 \in DOMAIN queue[c] /\ Tail(queue[c])[p] = queue[c][p + 1]
    BY <1>1
  <1>4. \A p \in DOMAIN queue[c] : p # 1 =>
           p \in Nat /\ p - 1 \in DOMAIN Tail(queue[c]) /\ Tail(queue[c])[p - 1] = queue[c][p]
    BY <1>1
  <1>5. \A d \in Contexts \ {c} : queue'[d] = queue[d]
    BY DEF TypeOK
  <1> QED BY <1>1, <1>2, <1>3, <1>4, <1>5

\* A task leaves the front of its queue, and the rest keeps its order.
LEMMA FetchPlaces ==
    ASSUME TypeOK, TypeOK', TasksOK, NEW r \in Runners, NEW c \in Contexts, Fetch(r, c)
    PROVE  PlaceOK' /\ SortedOK' /\ OrderOK'
  <1>0. PlaceOK /\ OrderOK /\ SortedOK /\ QueueTyped
    BY QueueTypes DEF TasksOK
  <1> DEFINE x == Head(queue[c])
  <1>1. /\ 1 \in DOMAIN queue[c] /\ queue[c][1] = x /\ x \in Tasks
        /\ \A d \in Contexts \ {c} : queue'[d] = queue[d]
        /\ \A p \in DOMAIN queue'[c] :
              /\ p \in Nat /\ p # 0
              /\ p + 1 \in DOMAIN queue[c] /\ queue'[c][p] = queue[c][p + 1]
        /\ \A p \in DOMAIN queue[c] : p # 1 =>
              p \in Nat /\ p - 1 \in DOMAIN queue'[c] /\ queue'[c][p - 1] = queue[c][p]
    BY FrontGone DEF Fetch
  <1>2. /\ status'[x] # "queued" /\ \A y \in Tasks \ {x} : status'[y] = status[y]
        /\ class' = class
    BY <1>1 DEF Fetch, TypeOK
  <1> HIDE DEF x
  <1>3. ASSUME NEW d \in Contexts, NEW p \in DOMAIN queue'[d]
        PROVE  \E q \in DOMAIN queue[d] : /\ queue'[d][p] = queue[d][q] /\ p \in Nat
                                          /\ q = (IF d = c THEN p + 1 ELSE p) /\ (d = c => q # 1)
    <2>1. CASE d = c
      BY <1>1, <2>1
    <2>2. CASE d # c
      <3>1. p \in Nat
        BY <1>0, <1>1, <2>2 DEF QueueTyped
      <3> QED BY <1>1, <2>2, <3>1
    <2> QED BY <2>1, <2>2
  <1>4. \A d \in Contexts : \A q \in DOMAIN queue[d] :
           /\ queue[d][q] \in Tasks /\ status[queue[d][q]] = "queued"
           /\ queue[d][q] = x => d = c /\ q = 1
    BY <1>0, <1>1, Lengths DEF QueueTyped, PlaceOK
  <1>5. PlaceOK'
    <2>1. ASSUME NEW d \in Contexts, NEW p \in DOMAIN queue'[d] PROVE status'[queue'[d][p]] = "queued"
      <3>1. PICK q \in DOMAIN queue[d] : queue'[d][p] = queue[d][q] /\ ~(d = c /\ q = 1)
        BY <1>3
      <3> QED BY <1>2, <1>4, <3>1
    <2>2. ASSUME NEW d \in Contexts, NEW e \in Contexts, NEW p \in DOMAIN queue'[d],
                 NEW q \in DOMAIN queue'[e], queue'[d][p] = queue'[e][q]
          PROVE  d = e /\ p = q
      <3>1. PICK p1 \in DOMAIN queue[d] : /\ queue'[d][p] = queue[d][p1] /\ p \in Nat
                                          /\ p1 = (IF d = c THEN p + 1 ELSE p)
        BY <1>3
      <3>2. PICK q1 \in DOMAIN queue[e] : /\ queue'[e][q] = queue[e][q1] /\ q \in Nat
                                          /\ q1 = (IF e = c THEN q + 1 ELSE q)
        BY <1>3
      <3>3. queue[d][p1] = queue[e][q1]
        BY <2>2, <3>1, <3>2
      <3>4. d = e /\ p1 = q1
        BY <1>0, <3>3 DEF PlaceOK
      <3> QED BY <3>1, <3>2, <3>4
    <2>3. ASSUME NEW y \in Tasks, status'[y] = "queued"
          PROVE  \E d \in Contexts : \E p \in DOMAIN queue'[d] : queue'[d][p] = y
      <3>1. y # x /\ status[y] = "queued"
        BY <1>2, <2>3
      <3>2. PICK d \in Contexts : \E p \in DOMAIN queue[d] : queue[d][p] = y
        BY <1>0, <3>1 DEF PlaceOK
      <3>3. PICK p \in DOMAIN queue[d] : queue[d][p] = y
        BY <3>2
      <3>4. CASE d # c
        BY <1>1, <3>3, <3>4
      <3>5. CASE d = c
        <4>1. p # 1
          BY <1>1, <3>1, <3>3, <3>5
        <4> QED BY <1>1, <3>3, <3>5, <4>1
      <3> QED BY <3>4, <3>5
    <2> QED BY <2>1, <2>2, <2>3 DEF PlaceOK
  <1>6. ASSUME NEW d \in Contexts, NEW p \in DOMAIN queue'[d], NEW q \in DOMAIN queue'[d], p < q
        PROVE  \E p1, q1 \in DOMAIN queue[d] :
                  p1 < q1 /\ queue'[d][p] = queue[d][p1] /\ queue'[d][q] = queue[d][q1]
    <2>1. PICK p1 \in DOMAIN queue[d] : /\ queue'[d][p] = queue[d][p1] /\ p \in Nat
                                        /\ p1 = (IF d = c THEN p + 1 ELSE p)
      BY <1>3
    <2>2. PICK q1 \in DOMAIN queue[d] : /\ queue'[d][q] = queue[d][q1] /\ q \in Nat
                                        /\ q1 = (IF d = c THEN q + 1 ELSE q)
      BY <1>3
    <2>3. p1 < q1
      BY <1>6, <2>1, <2>2
    <2> QED BY <2>1, <2>2, <2>3
  <1>7. SortedOK'
    <2> SUFFICES ASSUME class = gpq, NEW d \in Contexts, NEW p \in DOMAIN queue'[d],
                        NEW q \in DOMAIN queue'[d], p < q
                 PROVE  RunCount[queue'[d][p]] <= RunCount[queue'[d][q]]
      BY <1>2 DEF SortedOK
    <2>1. PICK p1 \in DOMAIN queue[d], q1 \in DOMAIN queue[d] :
             p1 < q1 /\ queue'[d][p] = queue[d][p1] /\ queue'[d][q] = queue[d][q1]
      BY <1>6
    <2> QED BY <1>0, <2>1 DEF SortedOK
  <1>8. OrderOK'
    <2> SUFFICES ASSUME class \in {gq, lfgq, gpq}, NEW d \in Contexts, NEW p \in DOMAIN queue'[d],
                        NEW q \in DOMAIN queue'[d], NEW b \in Clients,
                        NEW i \in DOMAIN Program[b], NEW j \in DOMAIN Program[b],
                        p < q, queue'[d][p] = Program[b][j], queue'[d][q] = Program[b][i],
                        SamePriority(Program[b][i], Program[b][j])
                 PROVE  j <= i
      BY <1>2 DEF OrderOK, SamePriority
    <2>1. PICK p1 \in DOMAIN queue[d], q1 \in DOMAIN queue[d] :
             p1 < q1 /\ queue'[d][p] = queue[d][p1] /\ queue'[d][q] = queue[d][q1]
      BY <1>6
    <2> QED BY <1>0, <2>1 DEF OrderOK
  <1> QED BY <1>5, <1>7, <1>8

\* A task at the front of a queue is taken, and what it submits is still new.
LEMMA FetchKeeps ==
    ASSUME TypeOK, TypeOK', TasksOK, NEW r \in Runners, NEW c \in Contexts, Fetch(r, c)
    PROVE  TasksOK'
  <1>0. /\ SourceOK /\ UnbornOK /\ RunOK /\ PlaceOK
        /\ r \in Submitters /\ r \notin Clients
    BY RunnerKinds DEF TasksOK
  <1> DEFINE x == Head(queue[c])
  <1>1. 1 \in DOMAIN queue[c] /\ queue[c][1] = x /\ x \in Tasks
    BY FrontGone DEF Fetch
  <1>2. /\ status' = [status EXCEPT ![x] = "taken"] /\ job' = [job EXCEPT ![r] = x]
        /\ todo' = [todo EXCEPT ![r] = Children[x]]
        /\ ~Inside(r) /\ Inside(r)' /\ AtStart(r)' /\ ~InHand(r)' /\ SameHands
        /\ \A v \in Runners \ {r} : Stays(v)
    BY DEF Fetch
  <1>3. status[x] = "queued"
    BY <1>0, <1>1 DEF PlaceOK
  <1> HIDE DEF x
  <1>4. /\ status'[x] = "taken" /\ \A y \in Tasks \ {x} : status'[y] = status[y]
        /\ todo'[r] = Children[x] /\ \A b \in Submitters \ {r} : todo'[b] = todo[b]
    BY <1>0, <1>1, <1>2 DEF TypeOK
  <1>j. job'[r] = x /\ \A v \in Runners \ {r} : job'[v] = job[v]
    BY <1>2 DEF TypeOK, Runners
  <1>5. job[r] \notin Tasks
    BY <1>0, <1>2 DEF RunOK
  <1>6. \A i \in DOMAIN Children[x] : /\ Children[x][i] \in Tasks /\ status[Children[x][i]] = "new"
                                      /\ status'[Children[x][i]] = "new"
    <2> TAKE i \in DOMAIN Children[x]
    <2>1. Children[x] \in Seq(Tasks)
      BY <1>1, ConstantTypes
    <2>2. Children[x][i] \in Tasks
      BY <2>1, Lengths
    <2>3. status[Children[x][i]] = "new"
      BY <1>0, <1>1, <1>3 DEF UnbornOK, Unborn
    <2> QED BY <1>3, <1>4, <2>2, <2>3
  <1>7. SourceOK'
    <2> SUFFICES ASSUME NEW b \in Submitters PROVE SourceAt(b)'
      BY DEF SourceOK
    <2>1. CASE b # r
      <3>1. Source(b)' = Source(b)
        BY <1>j, <2>1, RunnerKinds DEF Source
      <3>2. todo'[b] = todo[b] /\ SameHand(b)
        BY <1>2, <1>4, <2>1 DEF SameHands
      <3>3. \A i \in DOMAIN Source(b) :
               /\ status'[Source(b)[i]] = "new" <=> status[Source(b)[i]] = "new"
               /\ status'[Source(b)[i]] = "offered" <=> status[Source(b)[i]] = "offered"
        <4> TAKE i \in DOMAIN Source(b)
        <4>1. Source(b)[i] \in Tasks
          BY SourceTypes, Lengths DEF SourceTyped
        <4> QED BY <1>3, <1>4, <4>1
      <3> QED BY <1>0, <3>1, <3>2, <3>3, SourceStays
    <2>2. CASE b = r
      <3>1. Source(r)' = Children[x] /\ todo'[r] = Children[x]
        BY <1>0, <1>1, <1>4, <1>j DEF Source
      <3>2. Children[x] \in Seq(Tasks)
        BY <1>1, ConstantTypes
      <3>3. Len(Children[x]) \in Nat /\ DOMAIN Children[x] = 1 .. Len(Children[x])
        BY <3>2, Lengths
      <3>4. Passed(r)' = 0
        <4>1. Passed(r)' = Len(Children[x]) - Len(Children[x])
          BY <3>1 DEF Passed
        <4> QED BY <3>3, <4>1
      <3>5. \A i \in DOMAIN Children[x] : i > 0 /\ i # 0 /\ Children[x][0 + i] = Children[x][i]
        BY <3>3
      <3>6. SourceAt(r)'
        BY <1>2, <1>6, <3>1, <3>4, <3>5 DEF SourceAt
      <3> QED BY <2>2, <3>6
    <2> QED BY <2>1, <2>2
  <1>8. UnbornOK'
    <2> SUFFICES ASSUME NEW y \in Tasks, status'[y] \in Unborn, NEW i \in DOMAIN Children[y]
                 PROVE  status'[Children[y][i]] = "new"
      BY DEF UnbornOK
    <2>1. status[y] = status'[y]
      BY <1>4 DEF Unborn
    <2>2. status[Children[y][i]] = "new"
      BY <1>0, <2>1 DEF UnbornOK
    <2>3. Children[y][i] \in Tasks
      BY ConstantTypes, Lengths
    <2> QED BY <1>3, <1>4, <2>2, <2>3
  <1>9. RunOK'
    <2>0. /\ \A v \in Runners \ {r} : LifeOn(v)' = LifeOn(v)
          /\ LifeOn(r)' = "taken"
      BY <1>2 DEF LifeOn, Body, Stays
    <2>1. ASSUME NEW v \in Runners \ {r}
          PROVE  /\ job'[v] \in Tasks <=> Inside(v)'
                 /\ job'[v] \in Tasks => job'[v] # x /\ status'[job'[v]] = LifeOn(v)
      <3>1. job'[v] = job[v] /\ (Inside(v)' <=> Inside(v))
        BY <1>2, <1>j DEF Stays
      <3>2. job[v] \in Tasks => job[v] # x /\ status'[job[v]] = LifeOn(v)
        <4>1. job[v] \in Tasks => status[job[v]] = LifeOn(v) /\ LifeOn(v) # "queued"
          BY <1>0 DEF RunOK, LifeOn, Body
        <4> QED BY <1>3, <1>4, <4>1
      <3> QED BY <1>0, <3>1, <3>2 DEF RunOK
    <2>2. ASSUME NEW y \in Tasks, status'[y] = "running" PROVE \E w \in Workers : job'[w] = y
      <3>1. y # x
        BY <1>4, <2>2
      <3>2. PICK w \in Workers : job[w] = y
        BY <1>0, <1>4, <2>2, <3>1 DEF RunOK
      <3>3. w # r /\ w \in Runners
        BY <1>5, <3>2, RunnerKinds
      <3> QED BY <1>j, <3>2, <3>3
    <2>5. ASSUME NEW y \in Tasks, status'[y] = "taken" PROVE \E v \in Runners : job'[v] = y
      <3>1. CASE y = x
        BY <1>j, <3>1
      <3>2. CASE y # x
        <4>1. PICK v \in Runners : job[v] = y
          BY <1>0, <1>4, <2>5, <3>2 DEF RunOK
        <4>2. v # r
          BY <1>5, <4>1
        <4> QED BY <1>j, <4>1, <4>2
      <3> QED BY <3>1, <3>2
    <2>3. /\ job'[r] \in Tasks /\ Inside(r)' /\ job'[r] = x
          /\ status'[job'[r]] = "taken"
      BY <1>1, <1>2, <1>4, <1>j
    <2>4. ASSUME NEW v \in Runners, NEW w \in Runners, job'[v] \in Tasks, job'[v] = job'[w]
          PROVE  v = w
      <3>1. CASE v = r \/ w = r
        BY <2>1, <2>3, <2>4, <3>1
      <3>2. CASE v # r /\ w # r
        BY <1>0, <1>j, <2>4, <3>2 DEF RunOK
      <3> QED BY <3>1, <3>2
    <2> QED BY <2>0, <2>1, <2>2, <2>3, <2>4, <2>5 DEF RunOK
  <1> QED BY <1>7, <1>8, <1>9, FetchPlaces DEF TasksOK

\* The call of a task that has been taken keeps the invariant.
LEMMA StartKeeps ==
    ASSUME TypeOK, TypeOK', TasksOK, NEW r \in Runners, Start(r)
    PROVE  TasksOK'
  <1>0. /\ SourceOK /\ UnbornOK /\ RunOK /\ PlaceOK /\ OrderOK /\ SortedOK /\ QueueTyped
    BY QueueTypes DEF TasksOK
  <1> DEFINE x == job[r]
  <1>1. x \in Tasks /\ status[x] = "taken" /\ Body(r) \in {"running", "helped"} /\ Inside(r)
    BY <1>0 DEF Start, RunOK, LifeOn, Body, Inside, AtStart
  <1>2. /\ status' = [status EXCEPT ![x] = Body(r)] /\ job' = job /\ todo' = todo
        /\ SameHands /\ Inside(r)' /\ ~AtStart(r)' /\ queue' = queue /\ class' = class
        /\ \A v \in Runners \ {r} : Stays(v)
    BY DEF Start
  <1>x. \A v \in Runners \ {r} : job[v] # x
    BY <1>0, <1>1 DEF RunOK
  <1>3. status'[x] = Body(r) /\ \A y \in Tasks \ {x} : status'[y] = status[y]
    BY <1>1, <1>2 DEF TypeOK
  <1>4. SourceOK'
    <2> SUFFICES ASSUME NEW b \in Submitters PROVE SourceAt(b)'
      BY DEF SourceOK
    <2>1. Source(b)' = Source(b) /\ todo'[b] = todo[b] /\ SameHand(b)
      BY <1>2 DEF Source, SameHands
    <2>2. \A i \in DOMAIN Source(b) : Source(b)[i] \in Tasks
      BY SourceTypes, Lengths DEF SourceTyped
    <2>3. \A y \in Tasks : /\ status'[y] = "new" <=> status[y] = "new"
                           /\ status'[y] = "offered" <=> status[y] = "offered"
      BY <1>1, <1>3
    <2> QED BY <1>0, <2>1, <2>2, <2>3, SourceStays
  <1>5. UnbornOK'
    <2> SUFFICES ASSUME NEW y \in Tasks, status'[y] \in Unborn, NEW i \in DOMAIN Children[y]
                 PROVE  status'[Children[y][i]] = "new"
      BY DEF UnbornOK
    <2>1. status[y] = status'[y]
      BY <1>1, <1>3 DEF Unborn
    <2>2. status[Children[y][i]] = "new"
      BY <1>0, <2>1 DEF UnbornOK
    <2>3. Children[y][i] \in Tasks
      BY ConstantTypes, Lengths
    <2> QED BY <1>1, <1>3, <2>2, <2>3
  <1>6. RunOK'
    <2>1. ASSUME NEW v \in Runners \ {r}
          PROVE  /\ job'[v] \in Tasks <=> Inside(v)'
                 /\ job'[v] \in Tasks => status'[job'[v]] = LifeOn(v)'
      <3>1. job'[v] = job[v] /\ (Inside(v)' <=> Inside(v)) /\ LifeOn(v)' = LifeOn(v)
        BY <1>2 DEF Stays, LifeOn, Body
      <3>2. job[v] \in Tasks => status'[job[v]] = LifeOn(v)
        BY <1>0, <1>3, <1>x DEF RunOK
      <3> QED BY <1>0, <3>1, <3>2 DEF RunOK
    <2>2. job'[r] \in Tasks /\ Inside(r)' /\ status'[job'[r]] = LifeOn(r)'
      BY <1>1, <1>2, <1>3 DEF LifeOn, Body
    <2>3. ASSUME NEW y \in Tasks, status'[y] = "running" PROVE \E w \in Workers : job'[w] = y
      <3>1. CASE y = x
        <4>1. r \in Workers
          BY <1>3, <2>3, <3>1 DEF Body
        <4> QED BY <1>2, <3>1, <4>1
      <3>2. CASE y # x
        BY <1>0, <1>2, <1>3, <2>3, <3>2 DEF RunOK
      <3> QED BY <3>1, <3>2
    <2>4. ASSUME NEW y \in Tasks, status'[y] = "taken" PROVE \E v \in Runners : job'[v] = y
      <3>1. y # x
        BY <1>1, <1>3, <2>4
      <3> QED BY <1>0, <1>2, <1>3, <2>4, <3>1 DEF RunOK
    <2>5. \A v, w \in Runners : job'[v] \in Tasks /\ job'[v] = job'[w] => v = w
      BY <1>0, <1>2 DEF RunOK
    <2> QED BY <2>1, <2>2, <2>3, <2>4, <2>5 DEF RunOK
  <1>7. PlaceOK' /\ OrderOK' /\ SortedOK'
    <2>1. \A y \in Tasks : status'[y] = "queued" <=> status[y] = "queued"
      BY <1>1, <1>3
    <2> QED BY <1>0, <1>2, <2>1, PlaceStays, OrderStays
  <1> QED BY <1>4, <1>5, <1>6, <1>7 DEF TasksOK

\* The end of a task, of which nothing is left to submit, keeps the invariant.
LEMMA FinishKeeps ==
    ASSUME TypeOK, TypeOK', TasksOK, NEW r \in Runners, Finish(r)
    PROVE  TasksOK'
  <1>0. /\ SourceOK /\ UnbornOK /\ RunOK /\ PlaceOK /\ OrderOK /\ SortedOK /\ QueueTyped
        /\ r \in Submitters /\ r \notin Clients
    BY QueueTypes, RunnerKinds DEF TasksOK
  <1> DEFINE x == job[r]
  <1>1. x \in Tasks /\ status[x] = LifeOn(r) /\ LifeOn(r) \in {"running", "helped"}
    BY <1>0 DEF Finish, RunOK, LifeOn, Body
  <1>2. /\ status' = [status EXCEPT ![x] = "done"] /\ job' = [job EXCEPT ![r] = NoTask]
        /\ todo' = todo /\ todo[r] = <<>> /\ ~InHand(r) /\ SameHands /\ ~Inside(r)'
        /\ queue' = queue /\ class' = class
        /\ \A v \in Runners \ {r} : Stays(v)
    BY DEF Finish
  <1>x. \A v \in Runners \ {r} : job[v] # x
    BY <1>0, <1>1 DEF RunOK
  <1>w. \A w \in Workers : job[w] = x => w = r
    BY <1>x, RunnerKinds
  <1> HIDE DEF x
  <1>3. /\ status'[x] = "done" /\ \A y \in Tasks \ {x} : status'[y] = status[y]
        /\ NoTask \notin Tasks
    BY <1>1, <1>2, ConstantTypes DEF TypeOK
  <1>j. job'[r] = NoTask /\ \A v \in Runners \ {r} : job'[v] = job[v]
    BY <1>2 DEF TypeOK, Runners
  <1>4. SourceOK'
    <2> SUFFICES ASSUME NEW b \in Submitters PROVE SourceAt(b)'
      BY DEF SourceOK
    <2>1. CASE b # r
      <3>1. Source(b)' = Source(b)
        BY <1>j, <2>1, RunnerKinds DEF Source
      <3>2. todo'[b] = todo[b] /\ SameHand(b)
        BY <1>2 DEF SameHands
      <3>3. \A i \in DOMAIN Source(b) :
               /\ status'[Source(b)[i]] = "new" <=> status[Source(b)[i]] = "new"
               /\ status'[Source(b)[i]] = "offered" <=> status[Source(b)[i]] = "offered"
        <4> TAKE i \in DOMAIN Source(b)
        <4>1. Source(b)[i] \in Tasks
          BY SourceTypes, Lengths DEF SourceTyped
        <4> QED BY <1>1, <1>3, <4>1
      <3> QED BY <1>0, <3>1, <3>2, <3>3, SourceStays
    <2>2. CASE b = r
      <3>1. Source(r)' = <<>> /\ todo'[r] = <<>> /\ ~InHand(r)'
        BY <1>0, <1>2, <1>3, <1>j DEF Source, SameHands, SameHand
      <3>2. Len(<<>>) = 0 /\ DOMAIN <<>> = {}
        OBVIOUS
      <3>3. Passed(r)' = 0
        BY <3>1, <3>2 DEF Passed
      <3>4. SourceAt(r)'
        BY <3>1, <3>2, <3>3 DEF SourceAt
      <3> QED BY <2>2, <3>4
    <2> QED BY <2>1, <2>2
  <1>5. UnbornOK'
    <2> SUFFICES ASSUME NEW y \in Tasks, status'[y] \in Unborn, NEW i \in DOMAIN Children[y]
                 PROVE  status'[Children[y][i]] = "new"
      BY DEF UnbornOK
    <2>1. status[y] = status'[y]
      BY <1>3 DEF Unborn
    <2>2. status[Children[y][i]] = "new"
      BY <1>0, <2>1 DEF UnbornOK
    <2>3. Children[y][i] \in Tasks
      BY ConstantTypes, Lengths
    <2> QED BY <1>1, <1>3, <2>2, <2>3
  <1>6. RunOK'
    <2>0. \A v \in Runners \ {r} : LifeOn(v)' = LifeOn(v)
      BY <1>2 DEF LifeOn, Body, Stays
    <2>1. ASSUME NEW v \in Runners \ {r}
          PROVE  /\ job'[v] \in Tasks <=> Inside(v)'
                 /\ job'[v] \in Tasks => status'[job'[v]] = LifeOn(v)
      <3>1. job'[v] = job[v] /\ (Inside(v)' <=> Inside(v))
        BY <1>2, <1>j DEF Stays
      <3>2. job[v] \in Tasks => status'[job[v]] = LifeOn(v)
        BY <1>0, <1>3, <1>x DEF RunOK
      <3> QED BY <1>0, <3>1, <3>2 DEF RunOK
    <2>2. ASSUME NEW y \in Tasks, status'[y] = "running" PROVE \E w \in Workers : job'[w] = y
      <3>1. y # x /\ status[y] = "running"
        BY <1>3, <2>2
      <3>2. PICK w \in Workers : job[w] = y
        BY <1>0, <3>1 DEF RunOK
      <3>3. w # r /\ w \in Runners
        BY <3>1, <3>2, RunnerKinds DEF x
      <3> QED BY <1>j, <3>2, <3>3
    <2>5. ASSUME NEW y \in Tasks, status'[y] = "taken" PROVE \E v \in Runners : job'[v] = y
      <3>1. y # x /\ status[y] = "taken"
        BY <1>3, <2>5
      <3>2. PICK v \in Runners : job[v] = y
        BY <1>0, <3>1 DEF RunOK
      <3>3. v # r
        BY <3>1, <3>2 DEF x
      <3> QED BY <1>j, <3>2, <3>3
    <2>3. job'[r] \notin Tasks /\ ~Inside(r)'
      BY <1>2, <1>3, <1>j
    <2>4. ASSUME NEW v \in Runners, NEW w \in Runners, job'[v] \in Tasks, job'[v] = job'[w]
          PROVE  v = w
      <3>1. v # r /\ w # r
        BY <2>3, <2>4
      <3> QED BY <1>0, <1>j, <2>4, <3>1 DEF RunOK
    <2> QED BY <2>0, <2>1, <2>2, <2>3, <2>4, <2>5 DEF RunOK
  <1>7. PlaceOK' /\ OrderOK' /\ SortedOK'
    <2>1. \A y \in Tasks : status'[y] = "queued" <=> status[y] = "queued"
      BY <1>1, <1>3
    <2> QED BY <1>0, <1>2, <2>1, PlaceStays, OrderStays
  <1> QED BY <1>4, <1>5, <1>6, <1>7 DEF TasksOK

\* Every effect keeps the invariant.
LEMMA EffectKeeps ==
    ASSUME TypeOK, TypeOK', TasksOK, Effect
    PROVE  TasksOK'
  BY QuietKeeps, OfferKeeps, RefuseKeeps, AcceptKeeps, FetchKeeps, StartKeeps,
     FinishKeeps DEF Effect

-----------------------------------------------------------------------------
(***************************************************************************)
(* The actions have such effects, and are steps of an executor             *)
(***************************************************************************)
Executes == Exec!Next \/ UNCHANGED Exec!vars
Sound    == Effect /\ Executes

\* To an executor, a task changes its life as status says, but for a task that is
\* taken, which changes nothing.
LEMMA AcceptedMoves ==
    ASSUME TypeOK, NEW x \in Tasks, NEW life, status' = [status EXCEPT ![x] = life]
    PROVE  /\ life # "taken" => Accepted' = [Accepted EXCEPT ![x] = life]
           /\ life = "taken" /\ status[x] = "queued" => Accepted' = Accepted
           /\ status[x] # "taken" => Accepted[x] = status[x]
           /\ status[x] = "taken" => Accepted[x] = "queued"
  <1>1. status \in [Tasks -> {"new", "refused", "offered", "queued", "taken",
                             "running", "helped", "done"}]
    BY DEF TypeOK
  <1>2. status'[x] = life /\ \A y \in Tasks \ {x} : status'[y] = status[y]
    BY <1>1
  <1> QED BY <1>1, <1>2 DEF Accepted

\* A thread that goes on, with nothing in hand that it had not, leaves the tasks alone.
LEMMA MoveQuiet ==
    ASSUME NEW a \in Actors, Others(a), UNCHANGED <<class, queue, status, todo, job>>,
           a \in Submitters => SameHand(a), a \in Runners => Stays(a)
    PROVE  Quiet
  <1>1. \A b \in Actors \ {a} : pc'[b] = pc[b] \/ (pc[b] = "parked" /\ pc'[b] = "loop")
    BY DEF Others
  <1>2. SameHands
    <2> SUFFICES ASSUME NEW b \in Submitters, b # a PROVE SameHand(b)
      BY DEF SameHands
    <2>1. task'[b] = task[b] /\ b \in Actors
      BY ConstantTypes DEF Others
    <2> QED BY <1>1, <2>1 DEF SameHand, InHand
  <1>3. EveryoneStays
    <2> SUFFICES ASSUME NEW v \in Runners, v # a PROVE Stays(v)
      BY DEF EveryoneStays
    <2>1. v \in Actors
      BY RunnerKinds
    <2> QED BY <1>1, <2>1 DEF Stays, AtStart, Inside, SubmitLabels
  <1> QED BY <1>2, <1>3 DEF Quiet

\* While one thread moves, the hands of the others and what they are inside of stay.
LEMMA OthersStayPut ==
    ASSUME NEW a \in Actors, Others(a)
    PROVE  /\ \A b \in Submitters \ {a} : SameHand(b)
           /\ \A v \in Runners \ {a} : Stays(v)
  <1>1. \A b \in Actors \ {a} : pc'[b] = pc[b] \/ (pc[b] = "parked" /\ pc'[b] = "loop")
    BY DEF Others
  <1>2. \A b \in Submitters \ {a} : SameHand(b)
    <2> TAKE b \in Submitters \ {a}
    <2>1. task'[b] = task[b] /\ b \in Actors
      BY ConstantTypes DEF Others
    <2> QED BY <1>1, <2>1 DEF SameHand, InHand
  <1>3. \A v \in Runners \ {a} : Stays(v)
    <2> TAKE v \in Runners \ {a}
    <2>1. v \in Actors
      BY RunnerKinds
    <2> QED BY <1>1, <2>1 DEF Stays, AtStart, Inside, SubmitLabels
  <1> QED BY <1>2, <1>3

\* derived_execute offers the next task, or refuses it once m_stop is set.
LEMMA CheckStopSound ==
    ASSUME IInv, TasksOK, NEW a \in Submitters, CheckStop(a)
    PROVE  Sound
  <1>1. TypeOK /\ a \in Actors /\ Others(a)
    BY ConstantTypes, Frame DEF IInv, ActOf
  <1>2. /\ pc[a] = "call" /\ todo[a] # <<>> /\ todo' = [todo EXCEPT ![a] = Tail(@)]
        /\ UNCHANGED <<class, queue, job, m_stop, threads>>
        /\ \/ /\ m_stop /\ status' = [status EXCEPT ![Head(todo[a])] = "refused"]
              /\ UNCHANGED <<pc, task>>
           \/ /\ ~m_stop /\ status' = [status EXCEPT ![Head(todo[a])] = "offered"]
              /\ task' = [task EXCEPT ![a] = Head(todo[a])]
              /\ pc' = [pc EXCEPT ![a] = IF class.shared THEN "push" ELSE "index"]
    BY DEF CheckStop, Become, Goto, poolVars
  <1>3. Head(todo[a]) \in Tasks /\ status[Head(todo[a])] = "new"
    BY <1>1, <1>2, NextPlace DEF TasksOK
  <1>4. CASE m_stop
    <2>1. Refuse(a)
      <3>1. EveryoneStays /\ SameHands
        BY <1>2, <1>4 DEF EveryoneStays, Stays, AtStart, Inside, SameHands, SameHand, InHand
      <3>2. ~InHand(a)
        BY <1>2 DEF InHand
      <3> QED BY <1>2, <1>4, <3>1, <3>2 DEF Refuse, Pass, SameHands
    <2>2. Exec!Refuse(Head(todo[a]))
      <3>1. /\ Accepted[Head(todo[a])] = "new"
            /\ Accepted' = [Accepted EXCEPT ![Head(todo[a])] = "refused"]
        BY <1>1, <1>2, <1>3, <1>4, AcceptedMoves
      <3> QED BY <1>2, <1>4, <3>1 DEF Exec!Refuse, Exec!Become
    <2> QED BY <1>3, <2>1, <2>2 DEF Sound, Effect, Executes, Exec!Next
  <1>5. CASE ~m_stop
    <2>1. pc'[a] \in {"push", "index"} /\ task'[a] = Head(todo[a])
      BY <1>1, <1>2, <1>5 DEF TypeOK
    <2>2. EveryoneStays
      <3>1. a \in Runners => Stays(a)
        BY <1>2, <2>1 DEF Stays, AtStart, Inside, SubmitLabels
      <3> QED BY <1>1, <3>1, OthersStayPut DEF EveryoneStays
    <2>3. Offer(a)
      <3>1. ~InHand(a) /\ InHand(a)'
        BY <1>2, <2>1 DEF InHand
      <3>2. \A b \in Submitters \ {a} : SameHand(b)
        BY <1>1, OthersStayPut
      <3> QED BY <1>2, <1>5, <2>1, <2>2, <3>1, <3>2 DEF Offer, Pass
    <2>4. Exec!Offer(Head(todo[a]))
      <3>1. /\ Accepted[Head(todo[a])] = "new"
            /\ Accepted' = [Accepted EXCEPT ![Head(todo[a])] = "offered"]
        BY <1>1, <1>2, <1>3, <1>5, AcceptedMoves
      <3> QED BY <1>2, <1>5, <3>1 DEF Exec!Offer, Exec!Become
    <2> QED BY <1>3, <2>3, <2>4 DEF Sound, Effect, Executes, Exec!Next
  <1> QED BY <1>4, <1>5

\* A push accepts the task in hand.
LEMMA PushSound ==
    ASSUME IInv, TasksOK, NEW a \in Submitters, Push(a)
    PROVE  Sound
  <1>1. TypeOK /\ a \in Actors /\ Others(a) /\ target[a] \in Contexts
    BY ConstantTypes, Frame DEF IInv, ActOf, Push, WhereOK, SubmitOK, SubmitAt
  <1>2. /\ pc[a] = "push" /\ queue' = [queue EXCEPT ![target[a]] = Insert(@, task[a])]
        /\ status' = [status EXCEPT ![task[a]] = "queued"]
        /\ pc' = [pc EXCEPT ![a] = IF class.lockFree THEN "publish" ELSE "bump"]
        /\ UNCHANGED <<class, job, todo, m_stop, threads>>
    BY DEF Push, Become, Goto
  <1>3. pc'[a] \in {"publish", "bump"}
    BY <1>1, <1>2 DEF TypeOK
  <1>4. InHand(a) /\ ~InHand(a)'
    BY <1>2, <1>3 DEF InHand
  <1>5. EveryoneStays
    <2>1. a \in Runners => Stays(a)
      BY <1>2, <1>3 DEF Stays, AtStart, Inside, SubmitLabels
    <2> QED BY <1>1, <2>1, OthersStayPut DEF EveryoneStays
  <1>6. \A b \in Submitters \ {a} : SameHand(b)
    BY <1>1, OthersStayPut
  <1>7. PICK c \in Contexts : c = target[a]
    BY <1>1
  <1>8. Accept(a, c)
    BY <1>2, <1>4, <1>5, <1>6, <1>7 DEF Accept
  <1>9. task[a] \in Tasks /\ status[task[a]] = "offered"
    BY <1>1, <1>4, HandPlace DEF TasksOK
  <1>10. Exec!Accept(task[a])
    <2>1. /\ Accepted[task[a]] = "offered"
          /\ Accepted' = [Accepted EXCEPT ![task[a]] = "queued"]
      BY <1>1, <1>2, <1>9, AcceptedMoves
    <2> QED BY <1>2, <2>1 DEF Exec!Accept, Exec!Become
  <1> QED BY <1>8, <1>9, <1>10 DEF Sound, Effect, Executes, Exec!Next

\* A thread that takes a task has it in its hands; to an executor nothing happens.
LEMMA TakeSound ==
    ASSUME IInv, TasksOK, NEW r \in Runners, NEW c \in Contexts, Takeable(c),
           Take(r, c), Others(r), pc[r] \in {"pop", "steal", "ready"}
    PROVE  Sound
  <1>1. TypeOK /\ r \in Actors /\ r \in Submitters
    BY RunnerKinds DEF IInv
  <1> DEFINE x == Head(queue[c])
  <1>2. /\ queue[c] # <<>> /\ queue' = [queue EXCEPT ![c] = Tail(@)]
        /\ job' = [job EXCEPT ![r] = x] /\ todo' = [todo EXCEPT ![r] = Children[x]]
        /\ status' = [status EXCEPT ![x] = "taken"]
        /\ pc' = [pc EXCEPT ![r] = "begin"]
        /\ UNCHANGED <<class, m_stop, threads>>
    BY DEF Take, Become, Goto, Takeable
  <1>3. pc'[r] = "begin"
    BY <1>1, <1>2 DEF TypeOK
  <1>4. ~Inside(r) /\ Inside(r)' /\ AtStart(r)' /\ ~InHand(r) /\ ~InHand(r)'
    BY <1>3 DEF Inside, AtStart, InHand, SubmitLabels
  <1>5. /\ \A b \in Submitters \ {r} : SameHand(b)
        /\ \A v \in Runners \ {r} : Stays(v)
    BY <1>1, OthersStayPut
  <1>6. SameHands
    <2>1. SameHand(r)
      BY <1>4 DEF SameHand
    <2> QED BY <1>5, <2>1 DEF SameHands
  <1>7. Fetch(r, c)
    BY <1>2, <1>4, <1>5, <1>6 DEF Fetch
  <1>8. x \in Tasks /\ status[x] = "queued"
    <2>1. 1 \in DOMAIN queue[c] /\ queue[c][1] = x /\ x \in Tasks
      BY <1>1, <1>2, FrontGone
    <2> QED BY <2>1 DEF TasksOK, PlaceOK
  <1> HIDE DEF x
  <1>9. UNCHANGED Exec!vars
    <2>1. Accepted' = Accepted
      BY <1>1, <1>2, <1>8, AcceptedMoves
    <2> QED BY <1>2, <2>1 DEF Exec!vars
  <1> QED BY <1>7, <1>9 DEF Sound, Effect, Executes

\* A worker that calls a task has not been joined; a helper may call one whenever.
LEMMA BeginSound ==
    ASSUME IInv, TasksOK, NEW r \in Runners, Begin(r), Others(r)
    PROVE  Sound
  <1>1. TypeOK /\ r \in Actors /\ r \in Submitters
    BY RunnerKinds DEF IInv
  <1> DEFINE x == job[r]
  <1>2. /\ pc[r] = "begin" /\ pc' = [pc EXCEPT ![r] = "call"]
        /\ status' = [status EXCEPT ![x] = Body(r)]
        /\ UNCHANGED <<class, queue, todo, job, task, m_stop, threads>>
    BY DEF Begin, Become, Goto, Body, poolVars
  <1>3. pc'[r] = "call"
    BY <1>1, <1>2 DEF TypeOK
  <1>4. AtStart(r) /\ ~AtStart(r)' /\ Inside(r) /\ Inside(r)' /\ ~InHand(r) /\ ~InHand(r)'
    BY <1>2, <1>3 DEF Inside, AtStart, InHand, SubmitLabels
  <1>5. /\ \A b \in Submitters \ {r} : SameHand(b)
        /\ \A v \in Runners \ {r} : Stays(v)
    BY <1>1, OthersStayPut
  <1>6. SameHands
    <2>1. SameHand(r)
      BY <1>4 DEF SameHand
    <2> QED BY <1>5, <2>1 DEF SameHands
  <1>7. Start(r)
    BY <1>2, <1>4, <1>5, <1>6 DEF Start
  <1>8. x \in Tasks /\ status[x] = "taken"
    BY <1>4 DEF TasksOK, RunOK, LifeOn
  <1>9. /\ Accepted[x] = "queued" /\ Accepted' = [Accepted EXCEPT ![x] = Body(r)]
    <2>1. Body(r) # "taken"
      BY DEF Body
    <2> QED BY <1>1, <1>2, <1>8, <2>1, AcceptedMoves
  <1> HIDE DEF x
  <1>10. CASE r \in Workers
    <2>1. threads # 0
      <3>1. pc[r] # "exit"
        BY <1>2
      <3> QED BY <1>10, <3>1 DEF IInv, JoinProgress
    <2>2. Exec!Start(x)
      BY <1>2, <1>9, <1>10, <2>1 DEF Exec!Start, Exec!Become, Body
    <2> QED BY <1>7, <1>8, <2>2 DEF Sound, Effect, Executes, Exec!Next
  <1>11. CASE r \notin Workers
    <2>1. Exec!Help(x)
      BY <1>2, <1>9, <1>11 DEF Exec!Help, Exec!Become, Body
    <2> QED BY <1>7, <1>8, <2>1 DEF Sound, Effect, Executes, Exec!Next
  <1> QED BY <1>10, <1>11

\* A thread that has submitted all its task submits finishes the task.
LEMMA ReturnSound ==
    ASSUME IInv, TasksOK, NEW r \in Runners, Return(r), Others(r)
    PROVE  Sound
  <1>1. TypeOK /\ r \in Actors /\ r \in Submitters /\ (r \in Workers \/ r \in Helpers)
    BY RunnerKinds DEF IInv, Runners
  <1>2. /\ pc[r] = "call" /\ todo[r] = <<>>
        /\ status' = [status EXCEPT ![job[r]] = "done"] /\ job' = [job EXCEPT ![r] = NoTask]
        /\ pc' = [pc EXCEPT ![r] = IF r \in Workers THEN "loop" ELSE "ready"]
        /\ UNCHANGED <<class, queue, todo, m_stop, threads>>
    BY DEF Return, Become, Goto, poolVars
  <1>3. pc'[r] \in {"loop", "ready"}
    BY <1>1, <1>2 DEF TypeOK
  <1>4. Inside(r) /\ ~Inside(r)' /\ ~AtStart(r) /\ ~InHand(r) /\ ~InHand(r)'
    BY <1>2, <1>3 DEF Inside, AtStart, InHand, SubmitLabels
  <1>5. /\ \A b \in Submitters \ {r} : SameHand(b)
        /\ \A v \in Runners \ {r} : Stays(v)
    BY <1>1, OthersStayPut
  <1>6. SameHands
    <2>1. SameHand(r)
      BY <1>4 DEF SameHand
    <2> QED BY <1>5, <2>1 DEF SameHands
  <1>7. job[r] \in Tasks /\ status[job[r]] \in {"running", "helped"}
    BY <1>4 DEF TasksOK, RunOK, LifeOn, Body
  <1>8. Finish(r)
    BY <1>2, <1>4, <1>5, <1>6, <1>7 DEF Finish
  <1>9. Exec!Finish(job[r])
    <2>1. /\ Accepted[job[r]] = status[job[r]]
          /\ Accepted' = [Accepted EXCEPT ![job[r]] = "done"]
      BY <1>1, <1>2, <1>7, AcceptedMoves
    <2> QED BY <1>2, <1>7, <2>1 DEF Exec!Finish, Exec!Become
  <1> QED BY <1>7, <1>8, <1>9 DEF Sound, Effect, Executes, Exec!Next

\* Steps on the way between two tasks.
LEMMA MoveSound ==
    ASSUME NEW a \in Actors, Others(a), UNCHANGED <<class, queue, status, todo, job>>,
           UNCHANGED <<m_stop, threads>>,
           a \in Submitters => SameHand(a), a \in Runners => Stays(a)
    PROVE  Sound
  BY MoveQuiet DEF Sound, Effect, Executes, Exec!vars, Accepted

\* Every step of a submission is sound,
LEMMA SubmitSound ==
    ASSUME IInv, TasksOK, NEW a \in Submitters,
           CheckStop(a) \/ PickQueue(a) \/ Push(a) \/ Publish(a) \/ Bump(a) \/ NotifyOne(a)
    PROVE  Sound
  <1>1. TypeOK /\ a \in Actors /\ Others(a)
    BY ConstantTypes, Frame DEF IInv, ActOf
  <1>2. CASE PickQueue(a)
    <2>1. pc[a] = "index" /\ pc'[a] \in {"trap", "push"} /\ task' = task
      BY <1>1, <1>2, SubmitMoves DEF Move, PickQueue
    <2>2. SameHand(a) /\ Stays(a)
      BY <2>1 DEF SameHand, Stays, AtStart, Inside, InHand, SubmitLabels
    <2> QED BY <1>1, <1>2, <2>2, MoveSound DEF PickQueue
  <1>3. CASE Publish(a) \/ Bump(a) \/ NotifyOne(a)
    <2>1. pc[a] \in {"publish", "bump", "notify"} /\ pc'[a] \in {"bump", "notify", "call"}
      BY <1>1, <1>3, SubmitMoves DEF Move
    <2>2. SameHand(a) /\ Stays(a)
      BY <2>1 DEF SameHand, Stays, AtStart, Inside, InHand, SubmitLabels
    <2>3. UNCHANGED <<class, queue, status, todo, job, m_stop, threads>>
      BY <1>3 DEF Publish, Bump, NotifyOne, poolVars
    <2> QED BY <1>1, <2>2, <2>3, MoveSound
  <1> QED BY <1>2, <1>3, CheckStopSound, PushSound

\* every step of a worker,
LEMMA WorkSound ==
    ASSUME IInv, TasksOK, NEW w \in Workers,
           Loop(w) \/ Load(w) \/ Pop(w) \/ Steal(w) \/ Recheck(w) \/ Wait(w)
              \/ Begin(w) \/ Return(w)
    PROVE  Sound
  <1>1. /\ TypeOK /\ w \in Actors /\ w \in Submitters /\ w \in Runners /\ Others(w)
    BY ConstantTypes, RunnerKinds, Frame DEF IInv, ActOf
  <1>2. CASE Loop(w) \/ Load(w) \/ Recheck(w) \/ Wait(w)
    <2>1. /\ pc[w] \in {"loop", "load", "recheck", "wait"}
          /\ pc'[w] \in {"exit", "load", "pop", "wait", "parked", "loop"}
      BY <1>1, <1>2, WorkMoves DEF Move
    <2>2. SameHand(w) /\ Stays(w)
      BY <2>1 DEF SameHand, Stays, AtStart, Inside, InHand, SubmitLabels
    <2>3. UNCHANGED <<class, queue, status, todo, job, m_stop, threads>>
      BY <1>2 DEF Loop, Load, Recheck, Wait, poolVars
    <2> QED BY <1>1, <2>2, <2>3, MoveSound
  <1>3. CASE Pop(w)
    <2>1. CASE Takeable(Ctx(w))
      <3>1. Take(w, Ctx(w)) /\ pc[w] = "pop"
        BY <1>3, <2>1 DEF Pop
      <3>2. PICK c \in Contexts : c = Ctx(w)
        BY <1>1, CtxType
      <3>3. Takeable(c) /\ Take(w, c)
        BY <1>1, <2>1, <3>1, <3>2
      <3> QED BY <1>1, <3>1, <3>3, TakeSound
    <2>2. CASE ~Takeable(Ctx(w))
      <3>1. UNCHANGED <<class, queue, status, todo, job, m_stop, threads>>
        BY <1>3, <2>2 DEF Pop, poolVars
      <3>2. pc[w] = "pop" /\ pc'[w] \in {"steal", "recheck"}
        BY <1>1, <1>3, <2>2 DEF Pop, Goto, TypeOK
      <3>3. SameHand(w) /\ Stays(w)
        BY <3>2 DEF SameHand, Stays, AtStart, Inside, InHand, SubmitLabels
      <3> QED BY <1>1, <3>1, <3>3, MoveSound
    <2> QED BY <2>1, <2>2
  <1>4. CASE Steal(w)
    <2> DEFINE d == StealOrder(w)[target[w]]
    <2>1. CASE Takeable(d) /\ Take(w, d)
      <3>1. d \in Contexts /\ pc[w] = "steal"
        BY <1>4, StealOrderType DEF Steal, IInv, WhereOK, StealOK
      <3> HIDE DEF d
      <3> QED BY <1>1, <2>1, <3>1, TakeSound
    <2>2. CASE ~(Takeable(d) /\ Take(w, d))
      <3>1. UNCHANGED <<class, queue, status, todo, job, m_stop, threads>>
        BY <1>4, <2>2 DEF Steal, poolVars
      <3>2. pc[w] = "steal" /\ pc'[w] \in {"steal", "recheck"}
        BY <1>1, <1>4, <2>2 DEF Steal, Goto, TypeOK
      <3>3. SameHand(w) /\ Stays(w)
        BY <3>2 DEF SameHand, Stays, AtStart, Inside, InHand, SubmitLabels
      <3> QED BY <1>1, <3>1, <3>3, MoveSound
    <2> QED BY <2>1, <2>2
  <1> QED BY <1>1, <1>2, <1>3, <1>4, BeginSound, ReturnSound

\* and every step of a thief.
LEMMA HelpSound ==
    ASSUME IInv, TasksOK, NEW h \in Helpers, Scan(h) \/ Begin(h) \/ Return(h)
    PROVE  Sound
  <1>1. /\ TypeOK /\ h \in Actors /\ h \in Submitters /\ h \in Runners /\ Others(h)
    BY ConstantTypes, RunnerKinds, Frame DEF IInv, ActOf
  <1>2. CASE Scan(h)
    <2>1. CASE Takeable(target[h])
      <3>1. Take(h, target[h]) /\ pc[h] = "ready"
        BY <1>2, <2>1 DEF Scan
      <3>2. PICK c \in Contexts : c = target[h]
        BY <3>1 DEF IInv, WhereOK, ReadyOK
      <3>3. Takeable(c) /\ Take(h, c)
        BY <1>1, <2>1, <3>1, <3>2
      <3> QED BY <1>1, <3>1, <3>3, TakeSound
    <2>2. CASE ~Takeable(target[h])
      <3>1. UNCHANGED <<class, queue, status, todo, job, m_stop, threads, pc, task>>
        BY <1>2, <2>2 DEF Scan, poolVars
      <3>2. SameHand(h) /\ Stays(h)
        BY <3>1 DEF SameHand, Stays, AtStart, Inside, InHand
      <3> QED BY <1>1, <3>1, <3>2, MoveSound
    <2> QED BY <2>1, <2>2
  <1> QED BY <1>1, <1>2, BeginSound, ReturnSound

\* shutdown moves no task.  It stops the executor when it sets m_stop, and closes it
\* when it has joined the last worker, none of which is inside a task.
LEMMA StopSound ==
    ASSUME IInv, TasksOK, NEW s \in Stoppers,
           Cas(s) \/ Request(s) \/ WakeBump(s) \/ WakeAll(s) \/ Join(s)
    PROVE  Sound
  <1>1. /\ TypeOK /\ s \in Actors /\ s \notin Submitters /\ s \notin Runners /\ Others(s)
    BY ConstantTypes, RunnerKinds, Frame DEF IInv, ActOf
  <1>2. UNCHANGED <<class, queue, status, todo, job>>
    BY DEF Cas, Request, WakeBump, WakeAll, Join, poolVars
  <1>3. Quiet
    BY <1>1, <1>2, MoveQuiet
  <1>4. CASE Cas(s)
    <2>1. UNCHANGED <<status, threads>> /\ m_stop' = TRUE /\ m_stop \in BOOLEAN
      BY <1>1, <1>4 DEF Cas, TypeOK
    <2>2. CASE m_stop
      BY <1>3, <2>1, <2>2 DEF Sound, Effect, Executes, Exec!vars, Accepted
    <2>3. CASE ~m_stop
      <3>1. Exec!Stop
        BY <2>1, <2>3 DEF Exec!Stop, Accepted
      <3> QED BY <1>3, <3>1 DEF Sound, Effect, Executes, Exec!Next
    <2> QED BY <2>2, <2>3
  <1>5. CASE Request(s) \/ WakeBump(s) \/ WakeAll(s)
    <2>1. UNCHANGED <<status, m_stop, threads>>
      BY <1>5 DEF Request, WakeBump, WakeAll, poolVars
    <2> QED BY <1>3, <2>1 DEF Sound, Effect, Executes, Exec!vars, Accepted
  <1>6. CASE Join(s)
    <2>1. UNCHANGED <<status, m_stop>> /\ pc[s] = "join"
      BY <1>6 DEF Join
    <2>2. m_stop
      BY <2>1 DEF IInv, NotYetStopped
    <2>3. CASE threads = 0
      <3>1. threads' = 0
        BY <1>6, <2>3 DEF Join
      <3> QED BY <1>3, <2>1, <2>3, <3>1 DEF Sound, Effect, Executes, Exec!vars, Accepted
    <2>4. CASE threads # 0 /\ threads' # 0
      <3>1. (threads = 0)' <=> (threads = 0)
        BY <2>4
      <3> QED BY <1>3, <2>1, <2>4, <3>1 DEF Sound, Effect, Executes, Exec!vars, Accepted
    <2>5. CASE threads # 0 /\ threads' = 0
      <3>0. JoinProgress'
        BY <1>1, <1>6, JoinProgressStep DEF IInv, ActOf
      <3>1. \A w \in Workers : pc'[w] = "exit"
        BY <2>5, <3>0 DEF JoinProgress
      <3>2. \A w \in Workers : ~Inside(w)
        <4>1. \A w \in Workers : ~Inside(w)' /\ w \in Runners
          BY <3>1, RunnerKinds DEF Inside, SubmitLabels
        <4> QED BY <1>3, <4>1 DEF Quiet, EveryoneStays, Stays
      <3>3. \A x \in Tasks : status[x] # "running"
        <4> SUFFICES ASSUME NEW x \in Tasks, status[x] = "running" PROVE FALSE
          OBVIOUS
        <4>1. PICK w \in Workers : job[w] = x
          BY DEF TasksOK, RunOK
        <4>2. w \in Runners
          BY RunnerKinds
        <4> QED BY <3>2, <4>1, <4>2 DEF TasksOK, RunOK
      <3>4. Exec!Close
        <4>1. Accepted' = Accepted /\ \A x \in Tasks : Accepted[x] # "running"
          BY <2>1, <3>3 DEF Accepted
        <4> QED BY <2>1, <2>2, <2>5, <4>1 DEF Exec!Close
      <3> QED BY <1>3, <3>4 DEF Sound, Effect, Executes, Exec!Next
    <2> QED BY <2>3, <2>4, <2>5
  <1> QED BY <1>4, <1>5, <1>6

\* Every step of the pools is sound.
LEMMA StepSound ==
    ASSUME IInv, TasksOK, [Next]_vars
    PROVE  Sound
  <1>1. CASE UNCHANGED vars
    <2> USE <1>1 DEF vars, poolVars
    <2>1. Quiet
      BY DEF Quiet, SameHands, SameHand, InHand, EveryoneStays, Stays, AtStart, Inside
    <2>2. UNCHANGED Exec!vars
      BY DEF Exec!vars, Accepted
    <2> QED BY <2>1, <2>2 DEF Sound, Effect, Executes
  <1>2. CASE Next
    <2>1. PICK a \in Actors : ActOf(a)
      BY <1>2, NextIsAct, ActIsActOf
    <2> QED BY <2>1, SubmitSound, WorkSound, HelpSound, StopSound DEF ActOf
  <1> QED BY <1>1, <1>2

-----------------------------------------------------------------------------
(***************************************************************************)
(* The order in which tasks are taken, and called                          *)
(***************************************************************************)
\* Which lives a step can change, and how.
LEMMA Lifes ==
    ASSUME TypeOK, TasksOK, Effect
    PROVE  \/ status' = status
           \/ \E x \in Tasks : \/ /\ status[x] = "new"
                                  /\ \/ status' = [status EXCEPT ![x] = "refused"]
                                     \/ status' = [status EXCEPT ![x] = "offered"]
                               \/ status[x] = "offered" /\ status' = [status EXCEPT ![x] = "queued"]
                               \/ /\ status[x] = "taken"
                                  /\ \E life \in {"running", "helped"} :
                                        status' = [status EXCEPT ![x] = life]
                               \/ /\ status[x] \in {"running", "helped"}
                                  /\ status' = [status EXCEPT ![x] = "done"]
           \/ \E c \in Contexts : /\ queue[c] # <<>> /\ Head(queue[c]) \in Tasks
                                  /\ 1 \in DOMAIN queue[c] /\ queue[c][1] = Head(queue[c])
                                  /\ status[Head(queue[c])] = "queued"
                                  /\ status' = [status EXCEPT ![Head(queue[c])] = "taken"]
  <1>0. SourceOK /\ RunOK /\ PlaceOK
    BY DEF TasksOK
  <1>1. CASE Quiet
    BY <1>1 DEF Quiet
  <1>2. ASSUME NEW a \in Submitters, NEW life, Pass(a, life)
        PROVE  /\ Head(todo[a]) \in Tasks /\ status[Head(todo[a])] = "new"
               /\ status' = [status EXCEPT ![Head(todo[a])] = life]
    BY <1>0, <1>2, NextPlace DEF Pass
  <1>3. ASSUME NEW a \in Submitters, NEW c \in Contexts, Accept(a, c)
        PROVE  /\ task[a] \in Tasks /\ status[task[a]] = "offered"
               /\ status' = [status EXCEPT ![task[a]] = "queued"]
    BY <1>0, <1>3, HandPlace DEF Accept
  <1>4. ASSUME NEW r \in Runners, Finish(r)
        PROVE  /\ job[r] \in Tasks /\ status[job[r]] \in {"running", "helped"}
               /\ status' = [status EXCEPT ![job[r]] = "done"]
    BY <1>0, <1>4 DEF Finish, RunOK, LifeOn, Body
  <1>5. ASSUME NEW r \in Runners, NEW c \in Contexts, Fetch(r, c)
        PROVE  /\ queue[c] # <<>> /\ Head(queue[c]) \in Tasks
               /\ 1 \in DOMAIN queue[c] /\ queue[c][1] = Head(queue[c])
               /\ status[Head(queue[c])] = "queued"
               /\ status' = [status EXCEPT ![Head(queue[c])] = "taken"]
    <2>1. queue[c] # <<>> /\ status' = [status EXCEPT ![Head(queue[c])] = "taken"]
      BY <1>5 DEF Fetch
    <2>2. 1 \in DOMAIN queue[c] /\ queue[c][1] = Head(queue[c]) /\ Head(queue[c]) \in Tasks
      BY <1>5, FrontGone DEF Fetch
    <2>3. status[Head(queue[c])] = "queued"
      BY <1>0, <2>2 DEF PlaceOK
    <2> QED BY <2>1, <2>2, <2>3
  <1>6. ASSUME NEW r \in Runners, Start(r)
        PROVE  /\ job[r] \in Tasks /\ status[job[r]] = "taken"
               /\ \E life \in {"running", "helped"} : status' = [status EXCEPT ![job[r]] = life]
    BY <1>0, <1>6 DEF Start, RunOK, LifeOn, Body, Inside, AtStart
  <1> QED BY <1>1, <1>2, <1>3, <1>4, <1>5, <1>6 DEF Effect, Offer, Refuse

\* What a step can do to the hands of a worker.
LEMMA Hands ==
    ASSUME TypeOK, TasksOK, Effect, NEW w \in Workers
    PROVE  \/ job'[w] = job[w]
           \/ job'[w] = NoTask
           \/ job'[w] \in Tasks /\ status[job'[w]] = "queued"
  <1>1. CASE UNCHANGED job
    BY <1>1
  <1>2. ASSUME NEW r \in Runners, Finish(r)
        PROVE  job'[w] = job[w] \/ job'[w] = NoTask
    BY <1>2 DEF Finish, TypeOK, Runners
  <1>3. ASSUME NEW r \in Runners, NEW c \in Contexts, Fetch(r, c)
        PROVE  job'[w] = job[w] \/ (job'[w] \in Tasks /\ status[job'[w]] = "queued")
    <2>1. job'[w] = job[w] \/ job'[w] = Head(queue[c])
      BY <1>3 DEF Fetch, TypeOK, Runners
    <2>2. 1 \in DOMAIN queue[c] /\ queue[c][1] = Head(queue[c]) /\ Head(queue[c]) \in Tasks
      BY <1>3, FrontGone DEF Fetch
    <2>3. status[Head(queue[c])] = "queued"
      BY <2>2 DEF TasksOK, PlaceOK
    <2> QED BY <2>1, <2>2, <2>3
  <1> QED BY <1>1, <1>2, <1>3 DEF Effect, Quiet, Offer, Refuse, Pass, Accept, Start

\* A task starts in the hands of the thread that calls it.
LEMMA StartsInHand ==
    ASSUME TypeOK, TasksOK, Effect, NEW x \in Tasks, ~Started(x), Started(x)'
    PROVE  \E r \in Runners : AtStart(r) /\ job'[r] = x
  <1>0. SourceOK /\ RunOK
    BY DEF TasksOK
  <1>1. ASSUME NEW y, NEW life \in {"refused", "offered", "queued", "taken"},
               status' = [status EXCEPT ![y] = life]
        PROVE  FALSE
    BY <1>1 DEF TypeOK, Started
  <1>2. ~Quiet
    BY DEF Quiet, Started
  <1>3. ASSUME NEW r \in Runners, Finish(r) PROVE FALSE
    <2>1. Started(job[r]) /\ status' = [status EXCEPT ![job[r]] = "done"]
      BY <1>0, <1>3 DEF Finish, RunOK, LifeOn, Body, Started
    <2>2. x # job[r]
      BY <2>1
    <2> QED BY <2>1, <2>2 DEF TypeOK, Started
  <1>4. PICK r \in Runners : Start(r)
    BY <1>1, <1>2, <1>3 DEF Effect, Offer, Refuse, Pass, Accept, Fetch
  <1>5. x = job[r]
    BY <1>4 DEF Start, TypeOK, Started
  <1> QED BY <1>4, <1>5 DEF Start

\* gq, lfgq and gpq have one queue.
LEMMA OneQueue ==
    ASSUME SharedOK, class \in {gq, lfgq, gpq}, NEW c \in Contexts, queue[c] # <<>>
    PROVE  c = 0
  BY DEF SharedOK, gq, lfgq, gpq, Pool

\* The front of the only queue comes before everything of its client that waits and
\* has run as often.
LEMMA ProgramOrderStays ==
    ASSUME TypeOK, SharedOK, TasksOK, Effect, ProgramOrder, class' = class
    PROVE  ProgramOrder'
  <1>0. SourceOK /\ PlaceOK /\ OrderOK /\ QueueTyped
    BY QueueTypes DEF TasksOK
  <1> SUFFICES ASSUME class \in {gq, lfgq, gpq}, NEW b \in Clients,
                      NEW i \in DOMAIN Program[b], NEW j \in DOMAIN Program[b],
                      i < j, SamePriority(Program[b][i], Program[b][j]), Left(Program[b][j])'
               PROVE  Left(Program[b][i])' \/ status'[Program[b][i]] = "refused"
    BY DEF ProgramOrder, SamePriority, OrderedPools, Left, Started
  <1>1. /\ Program[b] \in Seq(Tasks) /\ Program[b][i] \in Tasks /\ Program[b][j] \in Tasks
        /\ b \in Submitters /\ Source(b) = Program[b] /\ i \in Nat /\ j \in Nat
    <2>1. Program[b] \in Seq(Tasks)
      BY PoolAssumption
    <2>2. i \in Nat /\ j \in Nat
      BY <2>1, Lengths
    <2> QED BY <2>1, <2>2, Lengths DEF Source, Submitters
  <1>2. \A x \in Tasks : /\ Left(x) => Left(x)'
                         /\ status[x] = "refused" => status'[x] = "refused"
    BY Lifes DEF TypeOK, Left, Started
  <1>3. CASE Left(Program[b][j])
    <2>1. Left(Program[b][i]) \/ status[Program[b][i]] = "refused"
      BY <1>3 DEF ProgramOrder, SamePriority, OrderedPools
    <2> QED BY <1>1, <1>2, <2>1
  <1>4. CASE ~Left(Program[b][j])
    <2>1. PICK c \in Contexts : /\ queue[c] # <<>> /\ 1 \in DOMAIN queue[c]
                                /\ queue[c][1] = Program[b][j]
                                /\ status[Program[b][j]] = "queued"
      BY <1>1, <1>4, Lifes DEF TypeOK, Left, Started
    <2>2. status[Program[b][i]] \notin {"new", "offered"}
      <3>1. Passed(b) \in Int
        BY <1>1, SourceTypes DEF SourceTyped
      <3>2. ~(j > Passed(b))
        BY <1>0, <1>1, <2>1 DEF SourceOK, SourceAt
      <3>3. ~(i > Passed(b)) /\ i # Passed(b)
        BY <1>1, <3>1, <3>2
      <3> QED BY <1>0, <1>1, <3>3 DEF SourceOK, SourceAt
    <2>3. status[Program[b][i]] # "queued"
      <3> SUFFICES ASSUME status[Program[b][i]] = "queued" PROVE FALSE
        OBVIOUS
      <3>1. PICK d \in Contexts : \E q \in DOMAIN queue[d] : queue[d][q] = Program[b][i]
        BY <1>0, <1>1 DEF PlaceOK
      <3>2. PICK q \in DOMAIN queue[d] : queue[d][q] = Program[b][i]
        BY <3>1
      <3>3. d = c
        <4>1. DOMAIN <<>> = {}
          OBVIOUS
        <4>2. d = 0
          BY <3>2, <4>1, OneQueue
        <4> QED BY <2>1, <4>2, OneQueue
      <3>4. q \in Nat /\ q >= 1
        BY <1>0 DEF QueueTyped
      <3>5. CASE q = 1
        <4>1. Program[b][i] = Program[b][j]
          BY <2>1, <3>2, <3>3, <3>5
        <4>2. i = j
          BY <4>1, OnceAssumption
        <4> QED BY <1>1, <4>2
      <3>6. CASE q # 1
        <4>1. 1 < q
          BY <3>4, <3>6
        <4>2. j <= i
          BY <1>0, <2>1, <3>2, <3>3, <4>1 DEF OrderOK
        <4> QED BY <1>1, <4>2
      <3> QED BY <3>5, <3>6
    <2>4. Left(Program[b][i]) \/ status[Program[b][i]] = "refused"
      BY <1>1, <2>2, <2>3 DEF TypeOK, Left, Started
    <2> QED BY <1>1, <1>2, <2>4
  <1> QED BY <1>3, <1>4

\* A task that overtakes others is in a worker's hands when it starts, and while they
\* are not called, no worker that has not got one of them can take one.
LEMMA BodiesStay ==
    ASSUME TypeOK, ReadyOK, TasksOK, Effect, ProgramOrder, BodiesNearlyInOrder,
           ProgramOrder', TasksOK', ReadyOK', class' = class
    PROVE  BodiesNearlyInOrder'
  <1> SUFFICES ASSUME class \in OrderedPools, NEW b \in Clients,
                      NEW j \in DOMAIN Program[b], Started(Program[b][j])'
               PROVE  /\ Overtaken(b, j)' \subseteq {job'[w] : w \in Workers}
                      /\ \E w \in Workers : job'[w] \notin Overtaken(b, j)'
    BY DEF BodiesNearlyInOrder, OrderedPools
  <1>0. RunOK' /\ class # lqlf_steal_seq
    BY DEF TasksOK, OrderedPools, gq, lfgq, gpq, lqlf_steal_seq, Pool
  <1>1. /\ Program[b] \in Seq(Tasks) /\ Program[b][j] \in Tasks /\ j \in Nat
        /\ DOMAIN Program[b] = 1 .. Len(Program[b]) /\ Len(Program[b]) \in Nat
    <2>1. Program[b] \in Seq(Tasks)
      BY PoolAssumption
    <2> QED BY <2>1, Lengths
  <1>2. \A k \in 1 .. j - 1 : k \in DOMAIN Program[b] /\ k < j /\ Program[b][k] \in Tasks
    BY <1>1, Lengths
  <1>3. \A x \in Tasks : /\ Started(x) => Started(x)'
                         /\ status[x] = "refused" => status'[x] = "refused"
    BY Lifes DEF TypeOK, Started
  <1>4. \A r \in Runners : AtStart(r) => r \in Workers
    BY <1>0 DEF Runners, AtStart, ReadyOK
  <1>5. ASSUME NEW t \in Overtaken(b, j)'
        PROVE  t \in {job'[w] : w \in Workers}
    <2>1. PICK k \in 1 .. j - 1 :
             /\ t = Program[b][k] /\ SamePriority(t, Program[b][j])
             /\ ~Started(t)' /\ status'[t] # "refused"
      BY DEF Overtaken, SamePriority, Started
    <2>2. t \in Tasks /\ k \in DOMAIN Program[b] /\ k < j
      BY <1>2, <2>1
    <2>3. Left(Program[b][j])'
      BY DEF Left, Started
    <2>4. Left(t)' \/ status'[t] = "refused"
      BY <2>1, <2>2, <2>3 DEF ProgramOrder, SamePriority, OrderedPools, Left, Started
    <2>5. status'[t] = "taken"
      BY <2>1, <2>4 DEF Left, Started
    <2>6. PICK r \in Runners : job'[r] = t
      BY <1>0, <2>2, <2>5 DEF RunOK
    <2>7. Inside(r)'
      BY <1>0, <2>2, <2>6 DEF RunOK
    <2>8. r \in Workers
      BY <1>0, <2>7 DEF Runners, Inside, SubmitLabels, ReadyOK
    <2> QED BY <2>6, <2>8
  <1>6. \E w \in Workers : job'[w] \notin Overtaken(b, j)'
    <2>1. CASE ~Started(Program[b][j])
      <3>1. PICK r \in Runners : AtStart(r) /\ job'[r] = Program[b][j]
        BY <1>1, <2>1, StartsInHand
      <3>2. Program[b][j] \notin Overtaken(b, j)'
        BY DEF Overtaken, Started
      <3> QED BY <1>4, <3>1, <3>2
    <2>2. CASE Started(Program[b][j])
      <3>1. PICK w \in Workers : job[w] \notin Overtaken(b, j)
        BY <2>2 DEF BodiesNearlyInOrder
      <3>2. ASSUME NEW t \in Overtaken(b, j)'
            PROVE  t \in Overtaken(b, j) /\ t \in Tasks /\ status[t] # "queued"
        <4>1. PICK k \in 1 .. j - 1 :
                 /\ t = Program[b][k] /\ SamePriority(t, Program[b][j])
                 /\ ~Started(t)' /\ status'[t] # "refused"
          BY DEF Overtaken, SamePriority, Started
        <4>2. t \in Tasks /\ k \in DOMAIN Program[b] /\ k < j
          BY <1>2, <4>1
        <4>3. ~Started(t) /\ status[t] # "refused"
          BY <1>3, <4>1, <4>2
        <4>4. Left(t)
          BY <2>2, <4>1, <4>2, <4>3 DEF ProgramOrder, Left
        <4>5. t \in Overtaken(b, j)
          BY <4>1, <4>3 DEF Overtaken
        <4> QED BY <4>2, <4>4, <4>5 DEF Left, Started
      <3>3. \/ job'[w] = job[w] \/ job'[w] = NoTask
            \/ job'[w] \in Tasks /\ status[job'[w]] = "queued"
        BY Hands
      <3>4. job'[w] \notin Overtaken(b, j)'
        BY <3>1, <3>2, <3>3, ConstantTypes
      <3> QED BY <3>4
    <2> QED BY <2>1, <2>2
  <1> QED BY <1>5, <1>6

\* The front of the queue of gpq has run as seldom as any task that waits.
LEMMA FrontRunsFewest ==
    ASSUME TypeOK, SharedOK, TasksOK, Effect, class = gpq, NEW t \in Tasks, NEW u \in Tasks,
           status[t] = "queued", status[u] = "queued", status'[t] = "taken"
    PROVE  RunCount[t] <= RunCount[u]
  <1>0. PlaceOK /\ SortedOK /\ QueueTyped
    BY QueueTypes DEF TasksOK
  <1>1. PICK c \in Contexts : queue[c] # <<>> /\ 1 \in DOMAIN queue[c] /\ queue[c][1] = t
    BY Lifes DEF TypeOK
  <1>2. PICK d \in Contexts : \E q \in DOMAIN queue[d] : queue[d][q] = u
    BY <1>0 DEF PlaceOK
  <1>3. PICK q \in DOMAIN queue[d] : queue[d][q] = u
    BY <1>2
  <1>4. d = c
    <2>1. DOMAIN <<>> = {}
      OBVIOUS
    <2>2. d = 0
      BY <1>3, <2>1, OneQueue
    <2> QED BY <1>1, <2>2, OneQueue
  <1>5. q \in Nat /\ q >= 1
    BY <1>0 DEF QueueTyped
  <1>6. CASE q = 1
    <2>1. t = u
      BY <1>1, <1>3, <1>4, <1>6
    <2>2. RunCount[t] \in Nat
      BY PoolAssumption
    <2> QED BY <2>1, <2>2
  <1>7. CASE q # 1
    <2>1. 1 < q
      BY <1>5, <1>7
    <2> QED BY <1>0, <1>1, <1>3, <1>4, <2>1 DEF SortedOK
  <1> QED BY <1>6, <1>7

-----------------------------------------------------------------------------
(***************************************************************************)
(* The theorems about tasks                                                *)
(***************************************************************************)
LifeOK == TasksOK /\ ProgramOrder /\ BodiesNearlyInOrder

\* At first every task is new and every queue is empty.
LEMMA LifeInit == Init => LifeOK
  <1> SUFFICES ASSUME Init PROVE LifeOK
    OBVIOUS
  <1>1. /\ \A w \in Workers : pc[w] = "loop"
        /\ \A c \in Clients : pc[c] = "call"
        /\ \A h \in Helpers : pc[h] = "ready"
    BY ConstantTypes DEF Init
  <1>2. /\ \A r \in Runners : job[r] = NoTask /\ NoTask \notin Tasks
        /\ \A x \in Tasks : status[x] = "new"
        /\ \A c \in Contexts : queue[c] = <<>>
    BY ConstantTypes DEF Init, Runners
  <1>3. DOMAIN <<>> = {} /\ Len(<<>>) = 0
    OBVIOUS
  <1>4. \A r \in Runners : ~Inside(r)
    BY <1>1 DEF Runners, Inside, AtStart, SubmitLabels
  <1>5. \A a \in Submitters : ~InHand(a)
    BY <1>1 DEF Submitters, InHand
  <1>6. SourceOK
    <2> SUFFICES ASSUME NEW a \in Submitters PROVE SourceAt(a)
      BY DEF SourceOK
    <2>1. todo[a] = Source(a)
      <3>1. todo[a] = IF a \in Clients THEN Program[a] ELSE <<>>
        BY DEF Init
      <3>2. a \notin Clients => job[a] \notin Tasks
        BY <1>2, RunnerKinds
      <3> QED BY <3>1, <3>2 DEF Source
    <2>2. Source(a) \in Seq(Tasks)
      BY TypeInit, SourceTypes DEF SourceTyped
    <2>3. /\ Len(Source(a)) \in Nat /\ DOMAIN Source(a) = 1 .. Len(Source(a))
          /\ \A i \in DOMAIN Source(a) : Source(a)[i] \in Tasks
      BY <2>2, Lengths
    <2>4. Passed(a) = 0
      <3>1. Passed(a) = Len(Source(a)) - Len(Source(a))
        BY <2>1 DEF Passed
      <3> QED BY <2>3, <3>1
    <2>5. \A i \in DOMAIN Source(a) : i > 0 /\ i # 0 /\ 0 + i = i
      BY <2>3
    <2> QED BY <1>2, <1>5, <2>1, <2>3, <2>4, <2>5 DEF SourceAt
  <1>7. UnbornOK
    BY <1>2, ConstantTypes, Lengths DEF UnbornOK
  <1>8. RunOK
    BY <1>2, <1>4 DEF RunOK
  <1>9. PlaceOK /\ SortedOK /\ OrderOK
    BY <1>2, <1>3 DEF PlaceOK, SortedOK, OrderOK
  <1>10. ProgramOrder
    <2>1. \A b \in Clients : \A i \in DOMAIN Program[b] : Program[b][i] \in Tasks
      BY PoolAssumption, Lengths
    <2> QED BY <1>2, <2>1 DEF ProgramOrder, Left, Started
  <1>11. BodiesNearlyInOrder
    <2>1. \A b \in Clients : \A i \in DOMAIN Program[b] : Program[b][i] \in Tasks
      BY PoolAssumption, Lengths
    <2> QED BY <1>2, <2>1 DEF BodiesNearlyInOrder, Started
  <1> QED BY <1>6, <1>7, <1>8, <1>9, <1>10, <1>11 DEF LifeOK, TasksOK

\* Every step keeps each task in one place, and the order.
LEMMA LifeStep == IInv /\ IInv' /\ LifeOK /\ [Next]_vars => LifeOK'
  <1> SUFFICES ASSUME IInv, IInv', LifeOK, [Next]_vars PROVE LifeOK'
    OBVIOUS
  <1>1. /\ TypeOK /\ TypeOK' /\ SharedOK /\ ReadyOK /\ ReadyOK'
        /\ TasksOK /\ ProgramOrder /\ BodiesNearlyInOrder
    BY DEF IInv, LifeOK, WhereOK
  <1>2. Effect
    BY <1>1, StepSound DEF Sound
  <1>3. class' = class
    BY <1>2 DEF Effect, Quiet, Offer, Refuse, Pass, Accept, Fetch, Start, Finish
  <1>4. TasksOK' /\ ProgramOrder'
    BY <1>1, <1>2, <1>3, EffectKeeps, ProgramOrderStays
  <1>5. BodiesNearlyInOrder'
    BY <1>1, <1>2, <1>3, <1>4, BodiesStay
  <1> QED BY <1>4, <1>5 DEF LifeOK

\* Every task is in one place: a program, the hand of a submitter, a queue or a
\* thread; and each queue is in the order its class promises.
THEOREM LifeInvariance == Spec => [](IInv /\ LifeOK)
  <1>1. IInv /\ LifeOK /\ [Next]_vars => (IInv /\ LifeOK)'
    BY IInvStep, LifeStep
  <1> QED BY IInvInit, LifeInit, <1>1, PTL DEF Spec

\* On gq, lfgq and, among tasks that have run equally often, gpq, the tasks of a client
\* leave the queue in the order in which it has submitted them; however many workers
\* pop, and although a claimed cell of the lfqueue is published late.
THEOREM TakenInOrder == Spec => []ProgramOrder
  <1>1. IInv /\ LifeOK => ProgramOrder
    BY DEF LifeOK
  <1> QED BY <1>1, LifeInvariance, PTL

\* On these pools the body of a task begins before that of an earlier one only while a
\* worker has the earlier one in its hands, and never before those that all the workers
\* have: with one worker the bodies begin in the order of submission, and with N of them
\* a body overtakes at most N - 1 others.
THEOREM BodiesBeginNearlyInOrder == Spec => []BodiesNearlyInOrder
  <1>1. IInv /\ LifeOK => BodiesNearlyInOrder
    BY DEF LifeOK
  <1> QED BY <1>1, LifeInvariance, PTL

\* No worker of gpq takes a task while one that has run less often waits: what is
\* pushed goes behind all that have run no more often, and the queue stays sorted.
THEOREM SeldomFirst == Spec => FewestRunsFirst
  <1>1. IInv /\ LifeOK /\ [Next]_vars =>
           [\A t, u \in Tasks :
              /\ class = gpq
              /\ status[t] = "queued" /\ status[u] = "queued"
              /\ status'[t] = "taken"
              => RunCount[t] <= RunCount[u]]_vars
    <2> SUFFICES ASSUME IInv, LifeOK, [Next]_vars, NEW t \in Tasks, NEW u \in Tasks, class = gpq,
                        status[t] = "queued", status[u] = "queued", status'[t] = "taken"
                 PROVE  RunCount[t] <= RunCount[u]
      OBVIOUS
    <2>1. TypeOK /\ SharedOK /\ TasksOK
      BY DEF IInv, LifeOK, WhereOK
    <2>2. Effect
      BY <2>1, StepSound DEF Sound
    <2> QED BY <2>1, <2>2, FrontRunsFewest
  <1> QED BY <1>1, LifeInvariance, PTL DEF Spec, FewestRunsFirst

\* Each of the twelve pools implements the interface of an executor: a task is refused
\* or offered once, and only while the pool is not stopped; it starts once, after it
\* has been accepted; and no worker starts or runs one when m_threads is cleared.
THEOREM Refinement == Spec => ImplementsExecutor
  <1>1. Init => Exec!Init
    BY ConstantTypes DEF Init, Exec!Init, Accepted
  <1>2. IInv /\ LifeOK /\ [Next]_vars => [Exec!Next]_(Exec!vars)
    <2> SUFFICES ASSUME IInv, LifeOK, [Next]_vars PROVE [Exec!Next]_(Exec!vars)
      OBVIOUS
    <2> QED BY StepSound DEF LifeOK, Sound, Executes
  <1> QED BY <1>1, <1>2, LifeInvariance, PTL DEF Spec, ImplementsExecutor, Exec!Spec

=============================================================================
