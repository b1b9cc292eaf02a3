------------------------------ MODULE LfQueue -------------------------------
(***************************************************************************)
(* The bounded lock-free queue of include/pot/algorithms/lfqueue.h, with   *)
(* any number of producers and consumers.  A ring of cells, each with a    *)
(* sequence number that says whose turn it is: pos for the producer of     *)
(* position pos, pos + 1 for its consumer, pos + Capacity for the producer *)
(* one lap later.                                                          *)
(*                                                                         *)
(* A step is one access to shared memory.  The positions are read relaxed, *)
(* so such a read may return any value the thread has not already passed;  *)
(* sequence numbers are read and written with acquire and release, and are *)
(* modelled as sequentially consistent.  Positions are unbounded: a run of *)
(* the program that wraps a 64-bit position is not modelled.               *)
(***************************************************************************)
EXTENDS Integers, Sequences

CONSTANTS Capacity,    \* cells: MPSC_QUEUE_CAPACITY, 1024 in the code
          Producers,   \* threads inside push, or about to be
          Consumers,   \* threads inside pop, or about to be
          Messages,
          NoMessage,   \* a moved-from or default-constructed T
          Script       \* what each producer pushes, in order

\* The static_assert asks for a power of two; the least, 1, would make the
\* turn of a consumer and of the next producer the same number.
ASSUME CapacityAssumption ==
    /\ Capacity \in Nat
    /\ Capacity >= 2
    /\ \E k \in 1 .. 10 : Capacity = 2 ^ k

ASSUME ThreadsAssumption ==
    /\ Producers \cap Consumers = {}
    /\ Script \in [Producers -> Seq(Messages)]
    /\ NoMessage \notin Messages

Threads == Producers \cup Consumers
Cells   == 0 .. Capacity - 1

\* pos & mask, for a capacity that is a power of two.
Cell(p) == p % Capacity

VARIABLES sequence,    \* of each cell
          data,        \* of each cell
          enqueuePos,
          dequeuePos,
          pc,          \* where each thread is
          pos,         \* pos of the last push or pop of each thread
          todo,        \* what each producer has still to push
          result,      \* what the last successful pop of each consumer took
          log          \* history: the message of each position claimed

shared == <<sequence, data, enqueuePos, dequeuePos>>
vars == <<shared, pc, pos, todo, result, log>>

Init == /\ sequence = [i \in Cells |-> i]
        /\ data = [i \in Cells |-> NoMessage]
        /\ enqueuePos = 0
        /\ dequeuePos = 0
        /\ pc = [t \in Threads |-> "load"]
        /\ pos = [t \in Threads |-> 0]
        /\ todo = Script
        /\ result = [c \in Consumers |-> NoMessage]
        /\ log = <<>>

Goto(t, l) == pc' = [pc EXCEPT ![t] = l]

-----------------------------------------------------------------------------
\* A relaxed load of enqueuePos or dequeuePos, at the start of a call or
\* because the thread was overtaken: never older than what the thread knows.
Load(t, current) ==
    /\ pc[t] = "load"
    /\ \E p \in pos[t] .. current : pos' = [pos EXCEPT ![t] = p]
    /\ Goto(t, "test")
    /\ UNCHANGED <<shared, todo, result, log>>

\* seq = cell->sequence.load(): dif is the distance from the turn the thread
\* waits for.  Negative: full, or empty, and the call returns; its caller may
\* call again.
Test(t, turn) ==
    /\ pc[t] = "test"
    /\ LET dif == sequence[Cell(pos[t])] - turn
       IN  Goto(t, IF dif = 0 THEN "cas" ELSE "load")
    /\ UNCHANGED <<shared, pos, todo, result, log>>

\* compare_exchange_weak fails when the position has moved on, or for no
\* reason; either way pos becomes the current position.
CasFails(t, current) ==
    /\ pc[t] = "cas"
    /\ pos' = [pos EXCEPT ![t] = current]
    /\ Goto(t, "test")
    /\ UNCHANGED <<shared, todo, result, log>>

-----------------------------------------------------------------------------
(***************************************************************************)
(* push                                                                    *)
(***************************************************************************)
LoadPush(p) == todo[p] # <<>> /\ Load(p, enqueuePos)

TestPush(p) == Test(p, pos[p])

MutClaimPushRacy(p) ==
    /\ pc[p] = "cas"
    /\ enqueuePos' = pos[p] + 1
    /\ log' = Append(log, Head(todo[p]))
    /\ Goto(p, "access")
    /\ UNCHANGED <<sequence, data, dequeuePos, pos, todo, result>>

ClaimPush(p) ==
    /\ pc[p] = "cas"
    /\ enqueuePos = pos[p]
    /\ enqueuePos' = pos[p] + 1
    /\ log' = Append(log, Head(todo[p]))
    /\ Goto(p, "access")
    /\ UNCHANGED <<sequence, data, dequeuePos, pos, todo, result>>

\* cell->data = msg
Write(p) ==
    /\ pc[p] = "access"
    /\ data' = [data EXCEPT ![Cell(pos[p])] = Head(todo[p])]
    /\ Goto(p, "release")
    /\ UNCHANGED <<sequence, enqueuePos, dequeuePos, pos, todo, result, log>>

\* The cell is the consumer's, and push returns true.
ReleasePush(p) ==
    /\ pc[p] = "release"
    /\ sequence' = [sequence EXCEPT ![Cell(pos[p])] = pos[p] + 1]
    /\ todo' = [todo EXCEPT ![p] = Tail(@)]
    /\ Goto(p, "load")
    /\ UNCHANGED <<data, enqueuePos, dequeuePos, pos, result, log>>

-----------------------------------------------------------------------------
(***************************************************************************)
(* pop                                                                     *)
(***************************************************************************)
LoadPop(c) == Load(c, dequeuePos)

TestPop(c) == Test(c, pos[c] + 1)

MutClaimPopRacy(c) ==
    /\ pc[c] = "cas"
    /\ dequeuePos' = pos[c] + 1
    /\ Goto(c, "access")
    /\ UNCHANGED <<sequence, data, enqueuePos, pos, todo, result, log>>

ClaimPop(c) ==
    /\ pc[c] = "cas"
    /\ dequeuePos = pos[c]
    /\ dequeuePos' = pos[c] + 1
    /\ Goto(c, "access")
    /\ UNCHANGED <<sequence, data, enqueuePos, pos, todo, result, log>>

\* result = std::move(cell->data)
Read(c) ==
    /\ pc[c] = "access"
    /\ result' = [result EXCEPT ![c] = data[Cell(pos[c])]]
    /\ data' = [data EXCEPT ![Cell(pos[c])] = NoMessage]
    /\ Goto(c, "release")
    /\ UNCHANGED <<sequence, enqueuePos, dequeuePos, pos, todo, log>>

MutReleasePopSameLap(c) ==
    /\ pc[c] = "release"
    /\ sequence' = [sequence EXCEPT ![Cell(pos[c])] = pos[c] + (Capacity - 1)]
    /\ Goto(c, "load")
    /\ UNCHANGED <<data, enqueuePos, dequeuePos, pos, todo, result, log>>

\* The cell is the producer's of the next lap: pos + mask + 1.
ReleasePop(c) ==
    /\ pc[c] = "release"
    /\ sequence' = [sequence EXCEPT ![Cell(pos[c])] = pos[c] + (Capacity - 1) + 1]
    /\ Goto(c, "load")
    /\ UNCHANGED <<data, enqueuePos, dequeuePos, pos, todo, result, log>>

-----------------------------------------------------------------------------
Push(p) == \/ LoadPush(p) \/ TestPush(p) \/ ClaimPush(p)
           \/ CasFails(p, enqueuePos) \/ Write(p) \/ ReleasePush(p)

Pop(c) == \/ LoadPop(c) \/ TestPop(c) \/ ClaimPop(c)
          \/ CasFails(c, dequeuePos) \/ Read(c) \/ ReleasePop(c)

Next == (\E p \in Producers : Push(p)) \/ (\E c \in Consumers : Pop(c))

\* Threads are scheduled, the value of a position becomes visible to a thread
\* that keeps reading it, and a weak compare-exchange that can succeed again
\* and again does so in the end (on x86 it never fails for no reason).
Fairness ==
    /\ \A p \in Producers : /\ WF_vars(Push(p))
                            /\ SF_vars(LoadPush(p) /\ pos'[p] = enqueuePos)
                            /\ SF_vars(ClaimPush(p))
    /\ \A c \in Consumers : /\ WF_vars(Pop(c))
                            /\ SF_vars(LoadPop(c) /\ pos'[c] = dequeuePos)
                            /\ SF_vars(ClaimPop(c))

Spec     == Init /\ [][Next]_vars
FairSpec == Spec /\ Fairness

-----------------------------------------------------------------------------
\* Every variable stays in its range; the ring never holds more than Capacity
\* claimed positions.
TypeOK ==
    /\ sequence \in [Cells -> Nat]
    /\ data \in [Cells -> Messages \cup {NoMessage}]
    /\ dequeuePos \in Nat
    /\ enqueuePos \in dequeuePos .. dequeuePos + Capacity
    /\ Len(log) = enqueuePos
    /\ pc \in [Threads -> {"load", "test", "cas", "access", "release"}]
    /\ pos \in [Threads -> Nat]
    /\ todo \in [Producers -> Seq(Messages)]
    /\ result \in [Consumers -> Messages \cup {NoMessage}]
    /\ log \in Seq(Messages)

\* Threads that have claimed a position and not yet released its cell.
Owners(i) == {t \in Threads : pc[t] \in {"access", "release"} /\ Cell(pos[t]) = i}

\* The plain field data of a cell is never accessed by two threads between
\* the claim and the release of a position (no data race on cell->data).
OneOwnerPerCell ==
    \A i \in Cells : \A t, u \in Owners(i) : t = u

\* A call of pop that finds nothing is right: nothing has been pushed, or the
\* producer of the front has claimed it and not yet released it.  A call of
\* push that finds no room is right: all positions are claimed, but the
\* consumer of the oldest may have taken it and not yet released its cell.
\* No call gives up because of a stale position.
GivesUp(t, turn) == /\ pc[t] = "test" /\ pc'[t] = "load"
                    /\ sequence[Cell(pos[t])] < turn

FailuresAreJustified ==
    [][/\ \A c \in Consumers : GivesUp(c, pos[c] + 1) =>
             \/ enqueuePos = dequeuePos
             \/ \E p \in Producers : p \in Owners(Cell(dequeuePos))
       /\ \A p \in Producers : GivesUp(p, pos[p]) =>
             \/ enqueuePos = dequeuePos + Capacity
             \/ \E c \in Consumers : c \in Owners(Cell(enqueuePos))]_vars

\* What a consumer is handed: at the claim of a position, its message.
Given(c) == IF pc[c] = "access" THEN log[pos[c] + 1] ELSE result[c]

\* The queue is a FIFO of at most Capacity messages, each handed once, and a
\* consumer reads the message that was written for the position it claimed.
Queue == INSTANCE BoundedQueue
             WITH contents <- SubSeq(log, dequeuePos + 1, Len(log)),
                  given <- [c \in Consumers |-> Given(c)]
ImplementsQueue == Queue!Spec

\* Every message is pushed and taken in the end while consumers keep popping
\* and producers try again: no cell is left unusable, lap after lap.
EveryMessageTaken ==
    <>[](/\ \A p \in Producers : todo[p] = <<>>
         /\ dequeuePos = enqueuePos)
=============================================================================
