--------------------------- MODULE LfQueue_proofs ---------------------------
(***************************************************************************)
(* Proofs about LfQueue, for any producers, consumers, messages and any    *)
(* capacity of at least two: no cell ever has two owners, a call gives up  *)
(* only when the queue is full or empty up to a thread in the middle of a  *)
(* claimed position, and the queue implements BoundedQueue.                *)
(***************************************************************************)
EXTENDS LfQueue, SequenceTheorems, TLAPS

-----------------------------------------------------------------------------
(***************************************************************************)
(* Positions and cells                                                     *)
(***************************************************************************)
LEMMA Times ==
    ASSUME NEW n \in Nat, n > 0, NEW k \in Int
    PROVE  (k >= 1 => n * k >= n) /\ (k <= -1 => n * k <= -n)
  <1>1. k >= 1 => n * k >= n
    BY SMT
  <1>2. k <= -1 => n * k <= -n
    BY SMT
  <1> QED BY <1>1, <1>2

LEMMA Division ==
    ASSUME NEW n \in Nat, n > 0, NEW p \in Nat
    PROVE  /\ p % n \in 0 .. n - 1
           /\ p \div n \in Int
           /\ p = n * (p \div n) + (p % n)
  BY SMT

\* Quotient and remainder are unique.
LEMMA DivisionUnique ==
    ASSUME NEW n \in Nat, n > 0, NEW k \in Int, NEW d \in Int,
           n * k = d, -n < d, d < n
    PROVE  k = 0 /\ d = 0
  <1>1. ~(k >= 1) /\ ~(k <= -1)
    BY Times
  <1>2. k = 0
    BY <1>1
  <1> QED BY <1>2

LEMMA RemainderShift ==
    ASSUME NEW n \in Nat, n > 0, NEW p \in Nat
    PROVE  (p + n) % n = p % n
  <1> DEFINE a == p \div n + 1
             b == (p + n) \div n
             r == p % n
             s == (p + n) % n
  <1>1. r \in 0 .. n - 1 /\ p \div n \in Int /\ p = n * (p \div n) + r
    BY Division
  <1>2. s \in 0 .. n - 1 /\ b \in Int /\ p + n = n * b + s
    BY Division
  <1>3. n * a = n * (p \div n) + n /\ a \in Int
    BY <1>1, SMT
  <1>4. n * a \in Int /\ n * b \in Int /\ n * (p \div n) \in Int
    BY <1>1, <1>2, <1>3
  <1> HIDE DEF a, b, r, s
  <1>5. n * a + r = n * b + s
    BY <1>1, <1>2, <1>3, <1>4
  <1>6. n * (a - b) = s - r /\ a - b \in Int
    BY <1>1, <1>2, <1>3, <1>5, SMT
  <1>7. s - r \in Int /\ -n < s - r /\ s - r < n
    BY <1>1, <1>2
  <1>8. s - r = 0
    BY <1>6, <1>7, DivisionUnique
  <1>9. r = s
    BY <1>1, <1>2, <1>8
  <1> QED BY <1>9 DEF r, s

\* Positions less than a lap apart have different cells.
LEMMA CellNear ==
    ASSUME NEW p \in Nat, NEW q \in Nat, Cell(p) = Cell(q), p <= q, q < p + Capacity
    PROVE  p = q
  <1> DEFINE n == Capacity
             u == p \div n
             v == q \div n
             r == p % n
  <1>1. n \in Nat /\ n > 0
    BY CapacityAssumption
  <1>2. r \in 0 .. n - 1 /\ u \in Int /\ v \in Int /\ p = n * u + r /\ q = n * v + r
    BY <1>1, Division DEF Cell
  <1> HIDE DEF n, u, v, r
  <1>3. n * (v - u) = q - p /\ v - u \in Int
    BY <1>1, <1>2, SMT
  <1>4. p <= q /\ q < p + n
    BY DEF n
  <1>5. q - p \in Int /\ -n < q - p /\ q - p < n
    BY <1>1, <1>4
  <1>6. q - p = 0
    BY <1>1, <1>3, <1>5, DivisionUnique
  <1> QED BY <1>6

\* A position and the one a lap later share a cell.
LEMMA CellShift == ASSUME NEW p \in Nat PROVE Cell(p + Capacity) = Cell(p)
  <1>1. Capacity \in Nat /\ Capacity > 0
    BY CapacityAssumption
  <1>2. (p + Capacity) % Capacity = p % Capacity
    BY <1>1, RemainderShift
  <1> QED BY <1>2 DEF Cell

LEMMA CellType == ASSUME NEW p \in Nat PROVE Cell(p) \in Cells
  BY CapacityAssumption, Division DEF Cell, Cells

\* Every cell is that of one of the Capacity positions from d on.
LEMMA CellWindow ==
    ASSUME NEW d \in Nat, NEW p \in Nat
    PROVE  \E x \in d .. d + Capacity - 1 : Cell(x) = Cell(p)
  <1> DEFINE n == Capacity
             r == p % n
             e == d % n
             q == d \div n
             x == IF r >= e THEN n * q + r ELSE n * (q + 1) + r
  <1>1. n \in Nat /\ n > 0
    BY CapacityAssumption
  <1>2. /\ r \in 0 .. n - 1 /\ e \in 0 .. n - 1
        /\ q \in Int /\ d = n * q + e
    BY <1>1, Division
  <1>3. n * (q + 1) = n * q + n /\ n * q \in Int
    BY <1>1, <1>2, SMT
  <1>4. x \in d .. d + n - 1 /\ x \in Nat
    <2> HIDE DEF n, r, e, q
    <2> QED BY <1>1, <1>2, <1>3
  <1>5. \E k \in Int : x = n * k + r
    <2>1. q \in Int /\ q + 1 \in Int
      BY <1>2
    <2> HIDE DEF n, r, e, q
    <2> QED BY <2>1
  <1> HIDE DEF n, r, e, q, x
  <1>6. PICK k \in Int : x = n * k + r
    BY <1>5
  <1> DEFINE y == x % n
             z == x \div n
  <1>7. y \in 0 .. n - 1 /\ z \in Int /\ x = n * z + y
    BY <1>1, <1>4, Division
  <1> HIDE DEF y, z
  <1>8. n * (k - z) = y - r /\ k - z \in Int
    BY <1>1, <1>2, <1>6, <1>7, SMT
  <1>9. y - r \in Int /\ -n < y - r /\ y - r < n
    BY <1>1, <1>2, <1>7
  <1>10. y - r = 0
    BY <1>1, <1>8, <1>9, DivisionUnique
  <1>11. y = r
    BY <1>2, <1>7, <1>10
  <1> QED BY <1>4, <1>11 DEF Cell, n, r, y

-----------------------------------------------------------------------------
(***************************************************************************)
(* The invariant                                                           *)
(***************************************************************************)
Claimed(t) == pc[t] \in {"access", "release"}

\* A producer that owns a cell has its turn, and so has one whose exchange can
\* still succeed; after the write the cell holds its message.
ProducerInv(p) ==
    /\ pc[p] # "load" => todo[p] # <<>>
    /\ pos[p] <= enqueuePos
    /\ pc[p] = "cas" /\ pos[p] = enqueuePos => sequence[Cell(enqueuePos)] = enqueuePos
    /\ Claimed(p) => /\ dequeuePos <= pos[p] /\ pos[p] < enqueuePos
                     /\ sequence[Cell(pos[p])] = pos[p]
                     /\ log[pos[p] + 1] = Head(todo[p])
    /\ pc[p] = "release" => data[Cell(pos[p])] = Head(todo[p])

\* The same for a consumer, which finds the message of its position.
ConsumerInv(c) ==
    /\ pos[c] <= dequeuePos
    /\ pc[c] = "cas" /\ pos[c] = dequeuePos => sequence[Cell(dequeuePos)] = dequeuePos + 1
    /\ Claimed(c) => /\ pos[c] < dequeuePos /\ enqueuePos <= pos[c] + Capacity
                     /\ sequence[Cell(pos[c])] = pos[c] + 1
    /\ pc[c] = "access" => data[Cell(pos[c])] = log[pos[c] + 1]
    /\ pc[c] = "release" => result[c] = log[pos[c] + 1]

\* A claimed position that nobody has popped is its producer's, or holds its
\* message; a free one is free, or the consumer's of a lap ago.
Full(x) == \/ /\ sequence[Cell(x)] = x
              /\ \E p \in Producers : Claimed(p) /\ pos[p] = x
           \/ sequence[Cell(x)] = x + 1 /\ data[Cell(x)] = log[x + 1]

Free(x) == \/ sequence[Cell(x)] = x
           \/ /\ sequence[Cell(x)] = x - Capacity + 1
              /\ \E c \in Consumers : Claimed(c) /\ pos[c] = x - Capacity

\* Two producers, or two consumers, never claim one position.
ClaimedOnce ==
    \A t, u \in Threads :
        /\ Claimed(t) /\ Claimed(u) /\ pos[t] = pos[u]
        /\ t \in Producers <=> u \in Producers
        => t = u

IInv == /\ TypeOK
        /\ \A p \in Producers : ProducerInv(p)
        /\ \A c \in Consumers : ConsumerInv(c)
        /\ \A x \in dequeuePos .. enqueuePos - 1 : Full(x)
        /\ \A x \in enqueuePos .. dequeuePos + Capacity - 1 : Free(x)
        /\ ClaimedOnce

LEMMA Constants ==
    /\ Capacity \in Nat /\ Capacity >= 2 /\ Cells = 0 .. Capacity - 1
    /\ Producers \subseteq Threads /\ Consumers \subseteq Threads
    /\ \A t \in Threads : t \in Consumers <=> t \notin Producers
    /\ NoMessage \notin Messages
  BY CapacityAssumption, ThreadsAssumption DEF Cells, Threads

\* The types, one by one.
LEMMA Types ==
    ASSUME IInv
    PROVE  /\ dequeuePos \in Nat /\ enqueuePos \in Nat
           /\ dequeuePos <= enqueuePos /\ enqueuePos <= dequeuePos + Capacity
           /\ log \in Seq(Messages) /\ Len(log) = enqueuePos
           /\ sequence \in [Cells -> Nat]
           /\ data \in [Cells -> Messages \cup {NoMessage}]
           /\ pc \in [Threads -> {"load", "test", "cas", "access", "release"}]
           /\ pos \in [Threads -> Nat]
           /\ todo \in [Producers -> Seq(Messages)]
           /\ result \in [Consumers -> Messages \cup {NoMessage}]
  BY Constants DEF IInv, TypeOK

\* Positions in the window of one lap have cells of their own.
LEMMA Window ==
    ASSUME NEW d \in Nat, NEW x \in Nat, NEW y \in Nat, d <= x, d <= y,
           x < d + Capacity, y < d + Capacity, Cell(x) = Cell(y)
    PROVE  x = y
  <1>1. \/ x <= y /\ y < x + Capacity
        \/ y <= x /\ x < y + Capacity
    BY Constants
  <1> QED BY <1>1, CellNear

\* The cell of the position before is another one.
LEMMA Neighbours == ASSUME NEW x \in Nat PROVE Cell(x) # Cell(x + 1)
  BY Constants, CellNear

-----------------------------------------------------------------------------
\* The invariant holds in the empty queue.
LEMMA IInvInit == Init => IInv
  <1> SUFFICES ASSUME Init PROVE IInv
    OBVIOUS
  <1>1. TypeOK
    <2>1. log \in Seq(Messages) /\ Len(log) = 0
      BY DEF Init
    <2>2. sequence \in [Cells -> Nat] /\ data \in [Cells -> Messages \cup {NoMessage}]
      BY Constants DEF Init
    <2> QED BY <2>1, <2>2, Constants, ThreadsAssumption DEF Init, TypeOK
  <1>2. \A t \in Threads : ~Claimed(t) /\ pc[t] = "load" /\ pos[t] = 0
    BY DEF Init, Claimed
  <1>3. \A p \in Producers : ProducerInv(p)
    BY <1>2, Constants DEF Init, ProducerInv
  <1>4. \A c \in Consumers : ConsumerInv(c)
    BY <1>2, Constants DEF Init, ConsumerInv, Claimed
  <1>5. ASSUME NEW x \in 0 .. Capacity - 1 PROVE Free(x)
    <2>1. Cell(x) = x
      <3>1. x \in Nat /\ Cell(x) \in Cells
        BY Constants, CellType
      <3>2. PICK y \in 0 .. Capacity - 1 : y = Cell(x)
        BY <3>1, Constants
      <3> QED BY <3>1, Constants, SMT DEF Cell
    <2> QED BY <2>1, Constants DEF Init, Free
  <1>6. ClaimedOnce
    BY <1>2 DEF ClaimedOnce
  <1> QED BY <1>1, <1>3, <1>4, <1>5, <1>6, Constants DEF Init, IInv

\* Two owners of one cell are one thread.
LEMMA OwnersMeet ==
    ASSUME IInv, NEW t \in Threads, NEW u \in Threads, Claimed(t), Claimed(u),
           Cell(pos[t]) = Cell(pos[u])
    PROVE  t = u
  <1>1. /\ pos[t] \in Nat /\ pos[u] \in Nat
        /\ dequeuePos \in Nat /\ enqueuePos \in Nat
        /\ dequeuePos <= enqueuePos /\ enqueuePos <= dequeuePos + Capacity
    BY Types
  <1>2. ASSUME NEW p \in Producers, Claimed(p)
        PROVE  /\ dequeuePos <= pos[p] /\ pos[p] < enqueuePos
               /\ sequence[Cell(pos[p])] = pos[p]
    BY <1>2 DEF IInv, ProducerInv
  <1>3. ASSUME NEW c \in Consumers, Claimed(c)
        PROVE  /\ pos[c] < dequeuePos /\ enqueuePos <= pos[c] + Capacity
               /\ sequence[Cell(pos[c])] = pos[c] + 1
    BY <1>3 DEF IInv, ConsumerInv
  <1>4. ASSUME NEW p \in Producers, NEW c \in Consumers, Claimed(p), Claimed(c),
               Cell(pos[p]) = Cell(pos[c])
        PROVE  FALSE
    <2>1. pos[p] \in Nat /\ pos[c] \in Nat
      BY Types, Constants
    <2>2. pos[p] = pos[c] + 1
      BY <1>2, <1>3, <1>4
    <2> QED BY <1>4, <2>1, <2>2, Neighbours
  <1>5. CASE t \in Producers /\ u \in Producers
    <2>1. pos[t] = pos[u]
      BY <1>1, <1>2, <1>5, Window, Constants
    <2> QED BY <1>5, <2>1 DEF IInv, ClaimedOnce
  <1>6. CASE t \notin Producers /\ u \notin Producers
    <2>1. t \in Consumers /\ u \in Consumers
      BY <1>6, Constants
    <2>2. pos[t] = pos[u]
      <3>1. \/ pos[t] <= pos[u] /\ pos[u] < pos[t] + Capacity
            \/ pos[u] <= pos[t] /\ pos[t] < pos[u] + Capacity
        BY <1>1, <1>3, <2>1, Constants
      <3> QED BY <1>1, <3>1, CellNear
    <2> QED BY <1>6, <2>2 DEF IInv, ClaimedOnce
  <1> QED BY <1>4, <1>5, <1>6, Constants

-----------------------------------------------------------------------------
(***************************************************************************)
(* Steps before a claim                                                    *)
(***************************************************************************)
\* A thread that owns no cell looks at the queue: only what it knows changes.
LEMMA LookStep ==
    ASSUME IInv, NEW t \in Threads, ~Claimed(t),
           NEW l \in {"load", "test", "cas"}, NEW n \in Nat,
           pc' = [pc EXCEPT ![t] = l], pos' = [pos EXCEPT ![t] = n],
           UNCHANGED <<shared, todo, result, log>>,
           t \in Producers => ProducerInv(t)', t \in Consumers => ConsumerInv(t)'
    PROVE  IInv'
  <1>1. /\ pc \in [Threads -> {"load", "test", "cas", "access", "release"}]
        /\ pos \in [Threads -> Nat]
    BY Types
  <1>2. /\ sequence' = sequence /\ data' = data /\ enqueuePos' = enqueuePos
        /\ dequeuePos' = dequeuePos /\ todo' = todo /\ result' = result /\ log' = log
    BY DEF shared
  <1>3. \A u \in Threads : /\ Claimed(u)' <=> Claimed(u)
                           /\ u # t => pc'[u] = pc[u] /\ pos'[u] = pos[u]
                           /\ Claimed(u) => pos'[u] = pos[u]
    BY <1>1 DEF Claimed
  <1>4. TypeOK'
    BY <1>1, <1>2 DEF IInv, TypeOK
  <1>5. ASSUME NEW p \in Producers PROVE ProducerInv(p)'
    <2>1. ProducerInv(p)
      BY DEF IInv
    <2>2. CASE p # t
      BY <1>2, <1>3, <2>1, <2>2, Constants DEF ProducerInv, Claimed
    <2> QED BY <2>2
  <1>6. ASSUME NEW c \in Consumers PROVE ConsumerInv(c)'
    <2>1. ConsumerInv(c)
      BY DEF IInv
    <2>2. CASE c # t
      BY <1>2, <1>3, <2>1, <2>2, Constants DEF ConsumerInv, Claimed
    <2> QED BY <2>2
  <1>7. ASSUME NEW x \in dequeuePos .. enqueuePos - 1 PROVE Full(x)'
    <2>1. Full(x)
      BY DEF IInv
    <2> QED BY <1>2, <1>3, <2>1, Constants DEF Full
  <1>8. ASSUME NEW x \in enqueuePos .. dequeuePos + Capacity - 1 PROVE Free(x)'
    <2>1. Free(x)
      BY DEF IInv
    <2> QED BY <1>2, <1>3, <2>1, Constants DEF Free
  <1>9. ClaimedOnce'
    BY <1>3 DEF IInv, ClaimedOnce
  <1> QED BY <1>2, <1>4, <1>5, <1>6, <1>7, <1>8, <1>9 DEF IInv

LEMMA LookPush ==
    ASSUME IInv, NEW p \in Producers,
           LoadPush(p) \/ TestPush(p) \/ CasFails(p, enqueuePos)
    PROVE  IInv'
  <1>1. /\ pc \in [Threads -> {"load", "test", "cas", "access", "release"}]
        /\ pos \in [Threads -> Nat] /\ p \in Threads /\ pos[p] \in Nat
        /\ enqueuePos \in Nat /\ dequeuePos \in Nat
        /\ p \notin Consumers
    BY Types, Constants
  <1>2. ProducerInv(p)
    BY DEF IInv
  <1>3. CASE LoadPush(p)
    <2>1. /\ pc[p] = "load" /\ todo[p] # <<>> /\ pc' = [pc EXCEPT ![p] = "test"]
          /\ UNCHANGED <<shared, todo, result, log>>
      BY <1>3 DEF LoadPush, Load, Goto
    <2>2. PICK n \in pos[p] .. enqueuePos : pos' = [pos EXCEPT ![p] = n]
      BY <1>3 DEF LoadPush, Load
    <2>3. n \in Nat /\ n <= enqueuePos
      BY <1>1
    <2>4. ProducerInv(p)' /\ ~Claimed(p)
      BY <1>1, <2>1, <2>2, <2>3 DEF ProducerInv, Claimed, shared
    <2> QED BY <1>1, <2>1, <2>2, <2>3, <2>4, LookStep
  <1>4. CASE TestPush(p)
    <2>1. /\ pc[p] = "test" /\ UNCHANGED <<shared, pos, todo, result, log>>
          /\ \/ pc' = [pc EXCEPT ![p] = "load"]
             \/ /\ pc' = [pc EXCEPT ![p] = "cas"]
                /\ sequence[Cell(pos[p])] - pos[p] = 0
      BY <1>4 DEF TestPush, Test, Goto
    <2>2. sequence[Cell(pos[p])] \in Nat
      BY <1>1, CellType, Types
    <2>3. pos' = [pos EXCEPT ![p] = pos[p]]
      BY <1>1, <2>1
    <2>4. ProducerInv(p)' /\ ~Claimed(p)
      BY <1>1, <1>2, <2>1, <2>2 DEF ProducerInv, Claimed, shared
    <2> QED BY <1>1, <2>1, <2>3, <2>4, LookStep
  <1>5. CASE CasFails(p, enqueuePos)
    <2>1. /\ pc[p] = "cas" /\ pos' = [pos EXCEPT ![p] = enqueuePos]
          /\ pc' = [pc EXCEPT ![p] = "test"]
          /\ UNCHANGED <<shared, todo, result, log>>
      BY <1>5 DEF CasFails, Goto
    <2>2. ProducerInv(p)' /\ ~Claimed(p)
      BY <1>1, <1>2, <2>1 DEF ProducerInv, Claimed, shared
    <2> QED BY <1>1, <2>1, <2>2, LookStep
  <1> QED BY <1>3, <1>4, <1>5

LEMMA LookPop ==
    ASSUME IInv, NEW c \in Consumers,
           LoadPop(c) \/ TestPop(c) \/ CasFails(c, dequeuePos)
    PROVE  IInv'
  <1>1. /\ pc \in [Threads -> {"load", "test", "cas", "access", "release"}]
        /\ pos \in [Threads -> Nat] /\ c \in Threads /\ pos[c] \in Nat
        /\ enqueuePos \in Nat /\ dequeuePos \in Nat
        /\ c \notin Producers
    BY Types, Constants
  <1>2. ConsumerInv(c)
    BY DEF IInv
  <1>3. CASE LoadPop(c)
    <2>1. /\ pc[c] = "load" /\ pc' = [pc EXCEPT ![c] = "test"]
          /\ UNCHANGED <<shared, todo, result, log>>
      BY <1>3 DEF LoadPop, Load, Goto
    <2>2. PICK n \in pos[c] .. dequeuePos : pos' = [pos EXCEPT ![c] = n]
      BY <1>3 DEF LoadPop, Load
    <2>3. n \in Nat /\ n <= dequeuePos
      BY <1>1
    <2>4. ConsumerInv(c)' /\ ~Claimed(c)
      BY <1>1, <2>1, <2>2, <2>3 DEF ConsumerInv, Claimed, shared
    <2> QED BY <1>1, <2>1, <2>2, <2>3, <2>4, LookStep
  <1>4. CASE TestPop(c)
    <2>1. /\ pc[c] = "test" /\ UNCHANGED <<shared, pos, todo, result, log>>
          /\ \/ pc' = [pc EXCEPT ![c] = "load"]
             \/ /\ pc' = [pc EXCEPT ![c] = "cas"]
                /\ sequence[Cell(pos[c])] - (pos[c] + 1) = 0
      BY <1>4 DEF TestPop, Test, Goto
    <2>2. sequence[Cell(pos[c])] \in Nat
      BY <1>1, CellType, Types
    <2>3. pos' = [pos EXCEPT ![c] = pos[c]]
      BY <1>1, <2>1
    <2>4. ConsumerInv(c)' /\ ~Claimed(c)
      BY <1>1, <1>2, <2>1, <2>2 DEF ConsumerInv, Claimed, shared
    <2> QED BY <1>1, <2>1, <2>3, <2>4, LookStep
  <1>5. CASE CasFails(c, dequeuePos)
    <2>1. /\ pc[c] = "cas" /\ pos' = [pos EXCEPT ![c] = dequeuePos]
          /\ pc' = [pc EXCEPT ![c] = "test"]
          /\ UNCHANGED <<shared, todo, result, log>>
      BY <1>5 DEF CasFails, Goto
    <2>2. ConsumerInv(c)' /\ ~Claimed(c)
      BY <1>1, <1>2, <2>1 DEF ConsumerInv, Claimed, shared
    <2> QED BY <1>1, <2>1, <2>2, LookStep
  <1> QED BY <1>3, <1>4, <1>5

-----------------------------------------------------------------------------
(***************************************************************************)
(* A push                                                                  *)
(***************************************************************************)
\* Position enqueuePos is free, and its cell is not one a consumer owns.
LEMMA ClaimPushStep ==
    ASSUME IInv, NEW p \in Producers, ClaimPush(p) PROVE IInv'
  <1> DEFINE m == Head(todo[p])
  <1>1. /\ pc[p] = "cas" /\ pos[p] = enqueuePos /\ enqueuePos' = enqueuePos + 1
        /\ log' = Append(log, m) /\ pc' = [pc EXCEPT ![p] = "access"]
        /\ UNCHANGED <<sequence, data, dequeuePos, pos, todo, result>>
    BY DEF ClaimPush, Goto
  <1>2. sequence[Cell(enqueuePos)] = enqueuePos /\ todo[p] # <<>>
    BY <1>1 DEF IInv, ProducerInv
  <1>3. m \in Messages
    <2>1. todo[p] \in Seq(Messages)
      BY Types
    <2> QED BY <1>2, <2>1
  <1>4. /\ dequeuePos \in Nat /\ enqueuePos \in Nat
        /\ dequeuePos <= enqueuePos /\ enqueuePos <= dequeuePos + Capacity
        /\ log \in Seq(Messages) /\ Len(log) = enqueuePos
        /\ pc \in [Threads -> {"load", "test", "cas", "access", "release"}]
        /\ pos \in [Threads -> Nat] /\ p \in Threads
    BY Types, Constants
  <1>5. enqueuePos < dequeuePos + Capacity
    <2> SUFFICES ASSUME enqueuePos = dequeuePos + Capacity PROVE FALSE
      BY <1>4, Constants
    <2>1. Full(dequeuePos)
      BY <1>4, Constants DEF IInv
    <2>2. Cell(enqueuePos) = Cell(dequeuePos)
      BY <1>4, CellShift
    <2> QED BY <1>2, <1>4, <2>1, <2>2, Constants DEF Full
  <1>6. /\ log' \in Seq(Messages) /\ Len(log') = enqueuePos + 1
        /\ log'[enqueuePos + 1] = m
        /\ \A i \in 1 .. enqueuePos : log'[i] = log[i]
    BY <1>1, <1>3, <1>4
  <1> HIDE DEF m
  <1>7. TypeOK'
    BY <1>1, <1>4, <1>5, <1>6, Constants DEF IInv, TypeOK
  <1>8. \A u \in Threads : /\ Claimed(u)' <=> Claimed(u) \/ u = p
                           /\ u # p => pc'[u] = pc[u]
    BY <1>1, <1>4 DEF Claimed
  <1>9. \A u \in Threads : pos[u] \in Nat
    BY <1>4
  <1>10. ~Claimed(p) /\ pc'[p] = "access"
    BY <1>1, <1>4 DEF Claimed
  <1>11. ASSUME NEW q \in Producers PROVE ProducerInv(q)'
    <2>1. ProducerInv(q) /\ q \in Threads
      BY Constants DEF IInv
    <2>2. CASE q = p
      BY <1>1, <1>2, <1>4, <1>6, <1>10, <2>1, <2>2 DEF ProducerInv, m
    <2>3. CASE q # p
      <3>1. Claimed(q) => log'[pos[q] + 1] = log[pos[q] + 1]
        BY <1>4, <1>6, <1>9, <2>1 DEF ProducerInv
      <3>2. pos[q] <= enqueuePos /\ pos[q] # enqueuePos'
        BY <1>1, <1>4, <1>9, <2>1 DEF ProducerInv
      <3>3. Claimed(q)' <=> Claimed(q)
        BY <1>8, <2>1, <2>3
      <3>4. pc'[q] = pc[q] /\ pos'[q] = pos[q] /\ pos[q] <= enqueuePos'
        BY <1>1, <1>4, <1>8, <1>9, <2>1, <2>3, <3>2
      <3>5. pos[q] < enqueuePos => pos[q] < enqueuePos'
        BY <1>1, <1>4, <1>9, <2>1
      <3> QED BY <1>1, <2>1, <3>1, <3>2, <3>3, <3>4, <3>5 DEF ProducerInv
    <2> QED BY <2>2, <2>3
  <1>12. ASSUME NEW c \in Consumers PROVE ConsumerInv(c)'
    <2>1. ConsumerInv(c) /\ c \in Threads /\ c # p
      BY Constants DEF IInv
    <2>2. Claimed(c) => enqueuePos + 1 <= pos[c] + Capacity
      <3> SUFFICES ASSUME Claimed(c), enqueuePos = pos[c] + Capacity PROVE FALSE
        BY <1>4, <1>9, <2>1, Constants DEF ConsumerInv
      <3>1. Cell(enqueuePos) = Cell(pos[c])
        BY <1>9, <2>1, CellShift
      <3>2. sequence[Cell(pos[c])] = pos[c] + 1
        BY <2>1 DEF ConsumerInv
      <3> QED BY <1>2, <1>9, <2>1, <3>1, <3>2, Constants
    <2>3. Claimed(c) => log'[pos[c] + 1] = log[pos[c] + 1]
      BY <1>4, <1>6, <1>9, <2>1 DEF ConsumerInv
    <2>4. pc'[c] = pc[c] /\ pos'[c] = pos[c] /\ (Claimed(c)' <=> Claimed(c))
      BY <1>1, <1>8, <2>1
    <2> QED BY <1>1, <2>1, <2>2, <2>3, <2>4 DEF ConsumerInv, Claimed
  <1>13. ASSUME NEW x \in dequeuePos .. enqueuePos' - 1 PROVE Full(x)'
    <2>1. CASE x = enqueuePos
      BY <1>1, <1>2, <1>8, <2>1, Constants DEF Full
    <2>2. CASE x # enqueuePos
      <3>1. x \in dequeuePos .. enqueuePos - 1
        BY <1>1, <1>4, <2>2
      <3>2. Full(x) /\ log'[x + 1] = log[x + 1]
        BY <1>4, <1>6, <3>1 DEF IInv
      <3> QED BY <1>1, <1>8, <3>2, Constants DEF Full
    <2> QED BY <2>1, <2>2
  <1>14. ASSUME NEW x \in enqueuePos' .. dequeuePos + Capacity - 1 PROVE Free(x)'
    <2>1. x \in enqueuePos .. dequeuePos + Capacity - 1
      BY <1>1, <1>4, Constants
    <2>2. Free(x)
      BY <2>1 DEF IInv
    <2> QED BY <1>1, <1>8, <2>2, Constants DEF Free
  <1>15. ClaimedOnce'
    <2>1. \A q \in Producers : Claimed(q) => pos[q] # pos[p]
      <3>1. \A q \in Producers : Claimed(q) => pos[q] < enqueuePos /\ pos[q] \in Nat
        BY <1>9, Constants DEF IInv, ProducerInv
      <3> QED BY <1>1, <1>4, <3>1
    <2> QED BY <1>1, <1>8, <2>1, Constants DEF IInv, ClaimedOnce
  <1> QED BY <1>1, <1>7, <1>11, <1>12, <1>13, <1>14, <1>15 DEF IInv

\* The message goes to a cell that nobody else owns.
LEMMA WriteStep ==
    ASSUME IInv, NEW p \in Producers, Write(p) PROVE IInv'
  <1> DEFINE m == Head(todo[p])
             i == Cell(pos[p])
  <1>1. /\ pc[p] = "access" /\ pc' = [pc EXCEPT ![p] = "release"]
        /\ data' = [data EXCEPT ![i] = m]
        /\ UNCHANGED <<sequence, enqueuePos, dequeuePos, pos, todo, result, log>>
    BY DEF Write, Goto
  <1>2. /\ dequeuePos \in Nat /\ enqueuePos \in Nat
        /\ dequeuePos <= enqueuePos /\ enqueuePos <= dequeuePos + Capacity
        /\ data \in [Cells -> Messages \cup {NoMessage}]
        /\ pc \in [Threads -> {"load", "test", "cas", "access", "release"}]
        /\ \A u \in Threads : pos[u] \in Nat
        /\ p \in Threads
    BY Types, Constants
  <1>3. /\ todo[p] # <<>> /\ dequeuePos <= pos[p] /\ pos[p] < enqueuePos
        /\ sequence[i] = pos[p] /\ Claimed(p) /\ ProducerInv(p)
    BY <1>1 DEF IInv, ProducerInv, Claimed
  <1>4. m \in Messages /\ i \in Cells
    <2>1. todo[p] \in Seq(Messages)
      BY Types
    <2> QED BY <1>2, <1>3, <2>1, CellType
  <1>5. \A u \in Threads : Claimed(u) /\ Cell(pos[u]) = i => u = p
    BY <1>2, <1>3, OwnersMeet
  <1> HIDE DEF m, i
  <1>6. data'[i] = m /\ \A k \in Cells : k # i => data'[k] = data[k]
    BY <1>1, <1>2, <1>4
  <1>7. \A u \in Threads : /\ Claimed(u)' <=> Claimed(u)
                           /\ u # p => pc'[u] = pc[u]
    BY <1>1, <1>2 DEF Claimed
  <1>8. pc'[p] = "release"
    BY <1>1, <1>2
  <1>9. \A x \in Nat : Cell(x) \in Cells
    BY CellType
  <1>10. TypeOK'
    BY <1>1, <1>2, <1>4 DEF IInv, TypeOK
  <1>11. ASSUME NEW q \in Producers PROVE ProducerInv(q)'
    <2>1. ProducerInv(q) /\ q \in Threads
      BY Constants DEF IInv
    <2>2. CASE q = p
      BY <1>1, <1>3, <1>6, <1>7, <1>8, <2>2 DEF ProducerInv, m, i
    <2>3. CASE q # p
      <3>1. pc[q] = "release" => data'[Cell(pos[q])] = data[Cell(pos[q])]
        BY <1>2, <1>5, <1>6, <1>9, <2>1, <2>3 DEF Claimed
      <3> QED BY <1>1, <1>7, <2>1, <2>3, <3>1 DEF ProducerInv, Claimed
    <2> QED BY <2>2, <2>3
  <1>12. ASSUME NEW c \in Consumers PROVE ConsumerInv(c)'
    <2>1. ConsumerInv(c) /\ c \in Threads /\ c # p
      BY Constants DEF IInv
    <2>2. pc[c] = "access" => data'[Cell(pos[c])] = data[Cell(pos[c])]
      BY <1>2, <1>5, <1>6, <1>9, <2>1 DEF Claimed
    <2> QED BY <1>1, <1>7, <2>1, <2>2 DEF ConsumerInv, Claimed
  <1>13. ASSUME NEW x \in dequeuePos .. enqueuePos - 1 PROVE Full(x)'
    <2>1. Full(x)
      BY DEF IInv
    <2>2. CASE sequence[Cell(x)] = x /\ \E q \in Producers : Claimed(q) /\ pos[q] = x
      BY <1>1, <1>7, <2>2, Constants DEF Full
    <2>3. CASE sequence[Cell(x)] = x + 1 /\ data[Cell(x)] = log[x + 1]
      <3>1. Cell(x) # i
        <4>1. /\ x \in Nat /\ dequeuePos <= x /\ x < dequeuePos + Capacity
              /\ pos[p] \in Nat /\ pos[p] < dequeuePos + Capacity
          BY <1>2, <1>3, Constants
        <4>2. Cell(x) = i => x = pos[p]
          BY <1>2, <1>3, <4>1, Window DEF i
        <4> QED BY <1>2, <1>3, <2>3, <4>2
      <3> QED BY <1>1, <1>2, <1>6, <1>9, <2>3, <3>1 DEF Full
    <2> QED BY <2>1, <2>2, <2>3 DEF Full
  <1>14. ASSUME NEW x \in enqueuePos .. dequeuePos + Capacity - 1 PROVE Free(x)'
    <2>1. Free(x)
      BY DEF IInv
    <2> QED BY <1>1, <1>7, <2>1, Constants DEF Free
  <1>15. ClaimedOnce'
    BY <1>1, <1>7 DEF IInv, ClaimedOnce
  <1> QED BY <1>1, <1>10, <1>11, <1>12, <1>13, <1>14, <1>15 DEF IInv

\* The cell of a pushed position becomes the next consumer's.
LEMMA ReleasePushStep ==
    ASSUME IInv, NEW p \in Producers, ReleasePush(p) PROVE IInv'
  <1> DEFINE i == Cell(pos[p])
  <1>1. /\ pc[p] = "release" /\ pc' = [pc EXCEPT ![p] = "load"]
        /\ sequence' = [sequence EXCEPT ![i] = pos[p] + 1]
        /\ todo' = [todo EXCEPT ![p] = Tail(@)]
        /\ UNCHANGED <<data, enqueuePos, dequeuePos, pos, result, log>>
    BY DEF ReleasePush, Goto
  <1>2. /\ dequeuePos \in Nat /\ enqueuePos \in Nat
        /\ dequeuePos <= enqueuePos /\ enqueuePos <= dequeuePos + Capacity
        /\ sequence \in [Cells -> Nat]
        /\ pc \in [Threads -> {"load", "test", "cas", "access", "release"}]
        /\ \A u \in Threads : pos[u] \in Nat
        /\ todo \in [Producers -> Seq(Messages)]
        /\ p \in Threads
    BY Types, Constants
  <1>3. /\ todo[p] # <<>> /\ dequeuePos <= pos[p] /\ pos[p] < enqueuePos
        /\ sequence[i] = pos[p] /\ Claimed(p) /\ ProducerInv(p)
        /\ data[i] = log[pos[p] + 1]
    BY <1>1 DEF IInv, ProducerInv, Claimed
  <1>4. \A u \in Threads : Claimed(u) /\ Cell(pos[u]) = i => u = p
    BY <1>2, <1>3, OwnersMeet
  <1>5. \A x \in Nat : Cell(x) \in Cells
    BY CellType
  <1>6. todo' \in [Producers -> Seq(Messages)]
    <2>1. Tail(todo[p]) \in Seq(Messages)
      <3>1. todo[p] \in Seq(Messages)
        BY <1>2
      <3> QED BY <1>3, <3>1
    <2> QED BY <1>1, <1>2, <2>1
  <1> HIDE DEF i
  <1>7. sequence'[i] = pos[p] + 1 /\ \A k \in Cells : k # i => sequence'[k] = sequence[k]
    BY <1>1, <1>2, <1>5 DEF i
  <1>8. \A u \in Threads : /\ Claimed(u)' <=> Claimed(u) /\ u # p
                           /\ u # p => pc'[u] = pc[u]
    BY <1>1, <1>2 DEF Claimed
  <1>9. pc'[p] = "load"
    BY <1>1, <1>2
  <1>10. TypeOK'
    <2>1. pos[p] + 1 \in Nat
      BY <1>2
    <2>2. sequence' \in [Cells -> Nat]
      BY <1>1, <1>2, <2>1
    <2> QED BY <1>1, <1>2, <1>6, <2>2 DEF IInv, TypeOK
  <1>11. ASSUME NEW q \in Producers PROVE ProducerInv(q)'
    <2>1. ProducerInv(q) /\ q \in Threads
      BY Constants DEF IInv
    <2>2. CASE q = p
      BY <1>1, <1>2, <1>3, <1>8, <1>9, <2>2 DEF ProducerInv
    <2>3. CASE q # p
      <3>1. Claimed(q) => sequence'[Cell(pos[q])] = sequence[Cell(pos[q])]
        BY <1>2, <1>4, <1>5, <1>7, <2>1, <2>3
      <3>2. pc[q] = "cas" /\ pos[q] = enqueuePos
            => sequence'[Cell(enqueuePos)] = sequence[Cell(enqueuePos)]
        <4> SUFFICES ASSUME sequence[Cell(enqueuePos)] = enqueuePos, Cell(enqueuePos) = i
                     PROVE  FALSE
          BY <1>2, <1>5, <1>7, <2>1 DEF ProducerInv
        <4> QED BY <1>2, <1>3
      <3>3. todo'[q] = todo[q]
        BY <1>1, <1>2, <2>3
      <3> QED BY <1>1, <1>8, <2>1, <2>3, <3>1, <3>2, <3>3 DEF ProducerInv
    <2> QED BY <2>2, <2>3
  <1>12. ASSUME NEW c \in Consumers PROVE ConsumerInv(c)'
    <2>1. ConsumerInv(c) /\ c \in Threads /\ c # p
      BY Constants DEF IInv
    <2>2. Claimed(c) => sequence'[Cell(pos[c])] = sequence[Cell(pos[c])]
      BY <1>2, <1>4, <1>5, <1>7, <2>1
    <2>3. pc[c] = "cas" /\ pos[c] = dequeuePos
          => sequence'[Cell(dequeuePos)] = sequence[Cell(dequeuePos)]
      <3> SUFFICES ASSUME sequence[Cell(dequeuePos)] = dequeuePos + 1, Cell(dequeuePos) = i
                   PROVE  FALSE
        BY <1>2, <1>5, <1>7, <2>1 DEF ConsumerInv
      <3>1. pos[p] = dequeuePos + 1
        BY <1>2, <1>3
      <3> QED BY <1>2, <3>1, Neighbours DEF i
    <2> QED BY <1>1, <1>8, <2>1, <2>2, <2>3 DEF ConsumerInv
  <1>13. ASSUME NEW x \in dequeuePos .. enqueuePos - 1 PROVE Full(x)'
    <2>1. Full(x) /\ x \in Nat
      BY <1>2 DEF IInv
    <2>2. CASE Cell(x) = i
      <3>0. pos[p] \in Nat /\ pos[p] < dequeuePos + Capacity /\ dequeuePos <= x
            /\ x < dequeuePos + Capacity
        BY <1>2, <1>3, <2>1, Constants
      <3>1. x = pos[p]
        BY <1>2, <1>3, <2>1, <2>2, <3>0, Window DEF i
      <3> QED BY <1>1, <1>3, <1>7, <2>2, <3>1 DEF Full
    <2>3. CASE Cell(x) # i
      <3>1. \A q \in Producers : Claimed(q) /\ pos[q] = x => Claimed(q)'
        BY <1>8, <2>3, Constants DEF i
      <3> QED BY <1>1, <1>5, <1>7, <2>1, <2>3, <3>1 DEF Full
    <2> QED BY <2>2, <2>3
  <1>14. ASSUME NEW x \in enqueuePos .. dequeuePos + Capacity - 1 PROVE Free(x)'
    <2>1. Free(x) /\ x \in Nat /\ x \in Int /\ enqueuePos <= x /\ x < dequeuePos + Capacity
      BY <1>2, Constants DEF IInv
    <2>2. Cell(x) # i
      <3>0. /\ pos[p] \in Nat /\ pos[p] < dequeuePos + Capacity /\ dequeuePos <= x
        BY <1>2, <1>3, <2>1, Constants
      <3>1. Cell(x) = i => x = pos[p]
        BY <1>2, <1>3, <2>1, <3>0, Window DEF i
      <3> QED BY <1>2, <1>3, <2>1, <3>1
    <2>3. \A c \in Consumers : Claimed(c) => Claimed(c)'
      BY <1>8, Constants
    <2> QED BY <1>1, <1>5, <1>7, <2>1, <2>2, <2>3 DEF Free
  <1>15. ClaimedOnce'
    BY <1>1, <1>8 DEF IInv, ClaimedOnce
  <1> QED BY <1>1, <1>10, <1>11, <1>12, <1>13, <1>14, <1>15 DEF IInv

-----------------------------------------------------------------------------
(***************************************************************************)
(* A pop                                                                   *)
(***************************************************************************)
\* Position dequeuePos holds its message, and its producer has released it.
LEMMA PopFinds ==
    ASSUME IInv, NEW c \in Consumers, ClaimPop(c)
    PROVE  /\ pos[c] = dequeuePos /\ dequeuePos < enqueuePos
           /\ sequence[Cell(dequeuePos)] = dequeuePos + 1
           /\ data[Cell(dequeuePos)] = log[dequeuePos + 1]
  <1>1. pos[c] = dequeuePos /\ sequence[Cell(dequeuePos)] = dequeuePos + 1
    BY DEF ClaimPop, IInv, ConsumerInv
  <1>2. /\ dequeuePos \in Nat /\ enqueuePos \in Nat /\ dequeuePos <= enqueuePos
    BY Types
  <1>3. dequeuePos < enqueuePos
    <2> SUFFICES ASSUME dequeuePos = enqueuePos PROVE FALSE
      BY <1>2
    <2>1. Free(dequeuePos)
      BY <1>2, Constants DEF IInv
    <2> QED BY <1>1, <1>2, <2>1, Constants DEF Free
  <1>4. Full(dequeuePos)
    BY <1>2, <1>3 DEF IInv
  <1> QED BY <1>1, <1>2, <1>3, <1>4 DEF Full

LEMMA ClaimPopStep ==
    ASSUME IInv, NEW c \in Consumers, ClaimPop(c) PROVE IInv'
  <1>1. /\ pc[c] = "cas" /\ dequeuePos' = dequeuePos + 1 /\ pc' = [pc EXCEPT ![c] = "access"]
        /\ UNCHANGED <<sequence, data, enqueuePos, pos, todo, result, log>>
    BY PopFinds DEF ClaimPop, Goto
  <1>2. /\ pos[c] = dequeuePos /\ dequeuePos < enqueuePos
        /\ sequence[Cell(dequeuePos)] = dequeuePos + 1
        /\ data[Cell(dequeuePos)] = log[dequeuePos + 1]
    BY PopFinds
  <1>3. /\ dequeuePos \in Nat /\ enqueuePos \in Nat
        /\ enqueuePos <= dequeuePos + Capacity
        /\ pc \in [Threads -> {"load", "test", "cas", "access", "release"}]
        /\ \A u \in Threads : pos[u] \in Nat
        /\ c \in Threads /\ Capacity \in Nat /\ Capacity >= 2
    BY Types, Constants
  <1>4. \A u \in Threads : /\ Claimed(u)' <=> Claimed(u) \/ u = c
                           /\ u # c => pc'[u] = pc[u]
    BY <1>1, <1>3 DEF Claimed
  <1>5. pc'[c] = "access"
    BY <1>1, <1>3
  <1>6. TypeOK'
    BY <1>1, <1>2, <1>3, Constants DEF IInv, TypeOK
  <1>7. ASSUME NEW q \in Producers PROVE ProducerInv(q)'
    <2>1. ProducerInv(q) /\ q \in Threads /\ q # c
      BY Constants DEF IInv
    <2>2. Claimed(q) => dequeuePos + 1 <= pos[q]
      <3>1. Claimed(q) => pos[q] # dequeuePos /\ dequeuePos <= pos[q]
        BY <1>2, <1>3, <2>1 DEF ProducerInv
      <3> QED BY <1>3, <2>1, <3>1
    <2> QED BY <1>1, <1>4, <2>1, <2>2 DEF ProducerInv, Claimed
  <1>8. ASSUME NEW d \in Consumers PROVE ConsumerInv(d)'
    <2>1. ConsumerInv(d) /\ d \in Threads
      BY Constants DEF IInv
    <2>2. CASE d = c
      BY <1>1, <1>2, <1>3, <1>5, <2>2 DEF ConsumerInv, Claimed
    <2>3. CASE d # c
      <3>1. /\ pos[d] <= dequeuePos + 1 /\ pos[d] # dequeuePos + 1
            /\ pos[d] < dequeuePos => pos[d] < dequeuePos + 1
        BY <1>3, <2>1 DEF ConsumerInv
      <3>2. pc'[d] = pc[d] /\ (Claimed(d)' <=> Claimed(d))
        BY <1>4, <2>1, <2>3
      <3> QED BY <1>1, <2>1, <3>1, <3>2 DEF ConsumerInv
    <2> QED BY <2>2, <2>3
  <1>9. ASSUME NEW x \in dequeuePos' .. enqueuePos - 1 PROVE Full(x)'
    <2>1. x \in dequeuePos .. enqueuePos - 1
      BY <1>1, <1>3
    <2>2. Full(x)
      BY <2>1 DEF IInv
    <2> QED BY <1>1, <1>4, <2>2, Constants DEF Full
  <1>10. ASSUME NEW x \in enqueuePos .. dequeuePos' + Capacity - 1 PROVE Free(x)'
    <2>1. CASE x = dequeuePos + Capacity
      <3>1. Cell(x) = Cell(dequeuePos)
        BY <1>3, <2>1, CellShift
      <3>2. x - Capacity + 1 = dequeuePos + 1 /\ x - Capacity = dequeuePos
        BY <1>3, <2>1
      <3> QED BY <1>1, <1>2, <1>3, <1>4, <3>1, <3>2 DEF Free
    <2>2. CASE x # dequeuePos + Capacity
      <3>1. x \in enqueuePos .. dequeuePos + Capacity - 1
        BY <1>1, <1>3, <2>2
      <3>2. Free(x)
        BY <3>1 DEF IInv
      <3> QED BY <1>1, <1>4, <3>2, Constants DEF Free
    <2> QED BY <2>1, <2>2
  <1>11. ClaimedOnce'
    <2>1. \A d \in Consumers : Claimed(d) => pos[d] # pos[c]
      <3>1. \A d \in Consumers : Claimed(d) => pos[d] < dequeuePos /\ pos[d] \in Nat
        BY <1>3, Constants DEF IInv, ConsumerInv
      <3> QED BY <1>2, <1>3, <3>1
    <2> QED BY <1>1, <1>4, <2>1, Constants DEF IInv, ClaimedOnce
  <1> QED BY <1>1, <1>6, <1>7, <1>8, <1>9, <1>10, <1>11 DEF IInv

\* The message is moved out of a cell that nobody else owns.
LEMMA ReadStep ==
    ASSUME IInv, NEW c \in Consumers, Read(c) PROVE IInv'
  <1> DEFINE i == Cell(pos[c])
  <1>1. /\ pc[c] = "access" /\ pc' = [pc EXCEPT ![c] = "release"]
        /\ result' = [result EXCEPT ![c] = data[i]]
        /\ data' = [data EXCEPT ![i] = NoMessage]
        /\ UNCHANGED <<sequence, enqueuePos, dequeuePos, pos, todo, log>>
    BY DEF Read, Goto
  <1>2. /\ dequeuePos \in Nat /\ enqueuePos \in Nat
        /\ dequeuePos <= enqueuePos /\ enqueuePos <= dequeuePos + Capacity
        /\ data \in [Cells -> Messages \cup {NoMessage}]
        /\ result \in [Consumers -> Messages \cup {NoMessage}]
        /\ pc \in [Threads -> {"load", "test", "cas", "access", "release"}]
        /\ \A u \in Threads : pos[u] \in Nat
        /\ c \in Threads
    BY Types, Constants
  <1>3. /\ pos[c] < dequeuePos /\ enqueuePos <= pos[c] + Capacity
        /\ data[i] = log[pos[c] + 1] /\ Claimed(c) /\ ConsumerInv(c)
    BY <1>1 DEF IInv, ConsumerInv, Claimed
  <1>4. i \in Cells /\ data[i] \in Messages \cup {NoMessage}
    BY <1>2, CellType
  <1>5. \A u \in Threads : Claimed(u) /\ Cell(pos[u]) = i => u = c
    BY <1>2, <1>3, OwnersMeet
  <1> HIDE DEF i
  <1>6. \A k \in Cells : k # i => data'[k] = data[k]
    BY <1>1, <1>2, <1>4
  <1>7. \A u \in Threads : /\ Claimed(u)' <=> Claimed(u)
                           /\ u # c => pc'[u] = pc[u]
    BY <1>1, <1>2 DEF Claimed
  <1>8. pc'[c] = "release"
    BY <1>1, <1>2
  <1>9. \A x \in Nat : Cell(x) \in Cells
    BY CellType
  <1>10. TypeOK'
    BY <1>1, <1>2, <1>4 DEF IInv, TypeOK
  <1>11. ASSUME NEW q \in Producers PROVE ProducerInv(q)'
    <2>1. ProducerInv(q) /\ q \in Threads /\ q # c
      BY Constants DEF IInv
    <2>2. pc[q] = "release" => data'[Cell(pos[q])] = data[Cell(pos[q])]
      BY <1>2, <1>5, <1>6, <1>9, <2>1 DEF Claimed
    <2> QED BY <1>1, <1>7, <2>1, <2>2 DEF ProducerInv, Claimed
  <1>12. ASSUME NEW d \in Consumers PROVE ConsumerInv(d)'
    <2>1. ConsumerInv(d) /\ d \in Threads
      BY Constants DEF IInv
    <2>2. CASE d = c
      <3>1. result'[c] = log[pos[c] + 1]
        BY <1>1, <1>2, <1>3
      <3> QED BY <1>1, <1>3, <1>7, <1>8, <2>2, <3>1 DEF ConsumerInv
    <2>3. CASE d # c
      <3>1. pc[d] = "access" => data'[Cell(pos[d])] = data[Cell(pos[d])]
        BY <1>2, <1>5, <1>6, <1>9, <2>1, <2>3 DEF Claimed
      <3>2. result'[d] = result[d]
        BY <1>1, <1>2, <2>3
      <3> QED BY <1>1, <1>7, <2>1, <2>3, <3>1, <3>2 DEF ConsumerInv, Claimed
    <2> QED BY <2>2, <2>3
  <1>13. ASSUME NEW x \in dequeuePos .. enqueuePos - 1 PROVE Full(x)'
    <2>1. Full(x) /\ x \in Nat /\ dequeuePos <= x /\ x < enqueuePos
      BY <1>2 DEF IInv
    <2>2. Cell(x) # i
      <3>1. Cell(x) = i => x = pos[c]
        BY <1>2, <1>3, <2>1, CellNear, Constants DEF i
      <3> QED BY <1>2, <1>3, <2>1, <3>1
    <2> QED BY <1>1, <1>6, <1>7, <1>9, <2>1, <2>2, Constants DEF Full
  <1>14. ASSUME NEW x \in enqueuePos .. dequeuePos + Capacity - 1 PROVE Free(x)'
    <2>1. Free(x)
      BY DEF IInv
    <2> QED BY <1>1, <1>7, <2>1, Constants DEF Free
  <1>15. ClaimedOnce'
    BY <1>1, <1>7 DEF IInv, ClaimedOnce
  <1> QED BY <1>1, <1>10, <1>11, <1>12, <1>13, <1>14, <1>15 DEF IInv

\* The cell of a popped position becomes the next lap's producer's.
LEMMA ReleasePopStep ==
    ASSUME IInv, NEW c \in Consumers, ReleasePop(c) PROVE IInv'
  <1> DEFINE i == Cell(pos[c])
  <1>1. /\ pc[c] = "release" /\ pc' = [pc EXCEPT ![c] = "load"]
        /\ sequence' = [sequence EXCEPT ![i] = pos[c] + (Capacity - 1) + 1]
        /\ UNCHANGED <<data, enqueuePos, dequeuePos, pos, todo, result, log>>
    BY DEF ReleasePop, Goto
  <1>2. /\ dequeuePos \in Nat /\ enqueuePos \in Nat
        /\ dequeuePos <= enqueuePos /\ enqueuePos <= dequeuePos + Capacity
        /\ sequence \in [Cells -> Nat]
        /\ pc \in [Threads -> {"load", "test", "cas", "access", "release"}]
        /\ \A u \in Threads : pos[u] \in Nat
        /\ c \in Threads /\ Capacity \in Nat /\ Capacity >= 2
    BY Types, Constants
  <1>3. /\ pos[c] < dequeuePos /\ enqueuePos <= pos[c] + Capacity
        /\ sequence[i] = pos[c] + 1 /\ Claimed(c) /\ ConsumerInv(c)
    BY <1>1 DEF IInv, ConsumerInv, Claimed
  <1>4. \A u \in Threads : Claimed(u) /\ Cell(pos[u]) = i => u = c
    BY <1>2, <1>3, OwnersMeet
  <1>5. \A x \in Nat : Cell(x) \in Cells
    BY CellType
  <1>6. pos[c] + (Capacity - 1) + 1 = pos[c] + Capacity /\ pos[c] + Capacity \in Nat
    BY <1>2
  <1> HIDE DEF i
  <1>7. /\ sequence'[i] = pos[c] + Capacity
        /\ \A k \in Cells : k # i => sequence'[k] = sequence[k]
    BY <1>1, <1>2, <1>5, <1>6 DEF i
  <1>8. \A u \in Threads : /\ Claimed(u)' <=> Claimed(u) /\ u # c
                           /\ u # c => pc'[u] = pc[u]
    BY <1>1, <1>2 DEF Claimed
  <1>9. pc'[c] = "load"
    BY <1>1, <1>2
  <1>10. TypeOK'
    BY <1>1, <1>2, <1>6 DEF IInv, TypeOK
  <1>11. ASSUME NEW q \in Producers PROVE ProducerInv(q)'
    <2>1. ProducerInv(q) /\ q \in Threads /\ q # c
      BY Constants DEF IInv
    <2>2. Claimed(q) => sequence'[Cell(pos[q])] = sequence[Cell(pos[q])]
      BY <1>2, <1>4, <1>5, <1>7, <2>1
    <2>3. pc[q] = "cas" /\ pos[q] = enqueuePos
          => sequence'[Cell(enqueuePos)] = sequence[Cell(enqueuePos)]
      <3> SUFFICES ASSUME sequence[Cell(enqueuePos)] = enqueuePos, Cell(enqueuePos) = i
                   PROVE  FALSE
        BY <1>2, <1>5, <1>7, <2>1 DEF ProducerInv
      <3>1. enqueuePos = pos[c] + 1
        BY <1>2, <1>3
      <3> QED BY <1>2, <3>1, Neighbours DEF i
    <2> QED BY <1>1, <1>8, <2>1, <2>2, <2>3 DEF ProducerInv
  <1>12. ASSUME NEW d \in Consumers PROVE ConsumerInv(d)'
    <2>1. ConsumerInv(d) /\ d \in Threads
      BY Constants DEF IInv
    <2>2. CASE d = c
      BY <1>1, <1>2, <1>3, <1>8, <1>9, <2>2 DEF ConsumerInv
    <2>3. CASE d # c
      <3>1. Claimed(d) => sequence'[Cell(pos[d])] = sequence[Cell(pos[d])]
        BY <1>2, <1>4, <1>5, <1>7, <2>1, <2>3
      <3>2. pc[d] = "cas" /\ pos[d] = dequeuePos
            => sequence'[Cell(dequeuePos)] = sequence[Cell(dequeuePos)]
        <4> SUFFICES ASSUME sequence[Cell(dequeuePos)] = dequeuePos + 1, Cell(dequeuePos) = i
                     PROVE  FALSE
          BY <1>2, <1>5, <1>7, <2>1 DEF ConsumerInv
        <4> QED BY <1>2, <1>3
      <3> QED BY <1>1, <1>8, <2>1, <2>3, <3>1, <3>2 DEF ConsumerInv
    <2> QED BY <2>2, <2>3
  <1>13. ASSUME NEW x \in dequeuePos .. enqueuePos - 1 PROVE Full(x)'
    <2>1. Full(x) /\ x \in Nat /\ dequeuePos <= x /\ x < enqueuePos
      BY <1>2 DEF IInv
    <2>2. Cell(x) # i
      <3>1. Cell(x) = i => x = pos[c]
        BY <1>2, <1>3, <2>1, CellNear DEF i
      <3> QED BY <1>2, <1>3, <2>1, <3>1
    <2>3. \A q \in Producers : Claimed(q) => Claimed(q)'
      BY <1>8, Constants
    <2> QED BY <1>1, <1>5, <1>7, <2>1, <2>2, <2>3 DEF Full
  <1>14. ASSUME NEW x \in enqueuePos .. dequeuePos + Capacity - 1 PROVE Free(x)'
    <2>1. /\ Free(x) /\ x \in Nat /\ enqueuePos <= x /\ x < dequeuePos + Capacity
      BY <1>2 DEF IInv
    <2>2. CASE Cell(x) = i
      <3>1. Cell(pos[c] + Capacity) = i
        BY <1>2, CellShift DEF i
      <3>2. x = pos[c] + Capacity
        BY <1>2, <1>3, <1>6, <2>1, <2>2, <3>1, Window
      <3> QED BY <1>7, <2>2, <3>2 DEF Free
    <2>3. CASE Cell(x) # i
      <3>1. \A d \in Consumers : Claimed(d) /\ pos[d] = x - Capacity => Claimed(d)'
        <4> SUFFICES ASSUME pos[c] = x - Capacity PROVE FALSE
          BY <1>8, Constants
        <4>1. x = pos[c] + Capacity
          BY <1>2, <2>1
        <4> QED BY <1>2, <2>3, <4>1, CellShift DEF i
      <3> QED BY <1>1, <1>5, <1>7, <2>1, <2>3, <3>1 DEF Free
    <2> QED BY <2>2, <2>3
  <1>15. ClaimedOnce'
    BY <1>1, <1>8 DEF IInv, ClaimedOnce
  <1> QED BY <1>1, <1>10, <1>11, <1>12, <1>13, <1>14, <1>15 DEF IInv

-----------------------------------------------------------------------------
\* Every step preserves the invariant.
LEMMA IInvStep == IInv /\ [Next]_vars => IInv'
  <1> SUFFICES ASSUME IInv, [Next]_vars PROVE IInv'
    OBVIOUS
  <1>1. ASSUME NEW p \in Producers, Push(p) PROVE IInv'
    BY <1>1, LookPush, ClaimPushStep, WriteStep, ReleasePushStep DEF Push
  <1>2. ASSUME NEW c \in Consumers, Pop(c) PROVE IInv'
    BY <1>2, LookPop, ClaimPopStep, ReadStep, ReleasePopStep DEF Pop
  <1>3. CASE UNCHANGED vars
    BY <1>3 DEF vars, shared, IInv, TypeOK, ProducerInv, ConsumerInv, Full, Free,
                ClaimedOnce, Claimed
  <1> QED BY <1>1, <1>2, <1>3 DEF Next

\* The invariant holds throughout.
THEOREM Invariance == Spec => []IInv
  BY IInvInit, IInvStep, PTL DEF Spec

\* Every variable stays in its range, and the ring never holds more than
\* Capacity positions.
THEOREM TypeCorrect == Spec => []TypeOK
  <1>1. IInv => TypeOK
    BY DEF IInv
  <1> QED BY <1>1, Invariance, PTL

\* The field data of a cell belongs to one thread at a time, whatever the
\* capacity and however many threads push and pop.
THEOREM NoDataRace == Spec => []OneOwnerPerCell
  <1>1. IInv => OneOwnerPerCell
    BY OwnersMeet DEF OneOwnerPerCell, Owners, Claimed
  <1> QED BY <1>1, Invariance, PTL

-----------------------------------------------------------------------------
\* A position that dequeuePos has passed: its cell waits for no one before it.
LEMMA PassedByPop ==
    ASSUME IInv, NEW p \in Nat, p < dequeuePos
    PROVE  sequence[Cell(p)] >= p + 1
  <1>1. /\ dequeuePos \in Nat /\ enqueuePos \in Nat /\ Capacity \in Nat
        /\ dequeuePos <= enqueuePos /\ enqueuePos <= dequeuePos + Capacity
    BY Types, Constants
  <1>2. PICK x \in dequeuePos .. dequeuePos + Capacity - 1 : Cell(x) = Cell(p)
    BY <1>1, CellWindow
  <1>3. x \in Nat /\ x >= p + Capacity
    BY <1>1, <1>2, CellNear
  <1>4. sequence[Cell(x)] \in {x, x + 1, x - Capacity + 1}
    <2>1. x < enqueuePos => Full(x)
      BY <1>1, <1>2 DEF IInv
    <2>2. x >= enqueuePos => Free(x)
      BY <1>1, <1>2 DEF IInv
    <2> QED BY <1>1, <1>3, <2>1, <2>2 DEF Full, Free
  <1> QED BY <1>1, <1>2, <1>3, <1>4, Constants

\* A position that enqueuePos has passed.
LEMMA PassedByPush ==
    ASSUME IInv, NEW p \in Nat, p < enqueuePos
    PROVE  sequence[Cell(p)] >= p
  <1>1. /\ dequeuePos \in Nat /\ enqueuePos \in Nat /\ Cell(p) \in Cells
        /\ sequence \in [Cells -> Nat]
    BY Types, CellType
  <1>2. CASE p < dequeuePos
    BY <1>1, <1>2, PassedByPop
  <1>3. CASE p >= dequeuePos
    <2>1. Full(p)
      BY <1>1, <1>3 DEF IInv
    <2> QED BY <1>1, <2>1 DEF Full
  <1> QED BY <1>1, <1>2, <1>3

\* No call gives up because it has read an old position: pop returns false only
\* when the queue is empty or the front is still being pushed, push only when
\* the queue is full or the oldest cell is still being popped.
THEOREM GivesUpRightly == Spec => FailuresAreJustified
  <1> DEFINE A ==
       /\ \A c \in Consumers : GivesUp(c, pos[c] + 1) =>
             \/ enqueuePos = dequeuePos
             \/ \E p \in Producers : p \in Owners(Cell(dequeuePos))
       /\ \A p \in Producers : GivesUp(p, pos[p]) =>
             \/ enqueuePos = dequeuePos + Capacity
             \/ \E c \in Consumers : c \in Owners(Cell(enqueuePos))
  <1>1. ASSUME IInv, [Next]_vars PROVE [A]_vars
    <2>1. /\ dequeuePos \in Nat /\ enqueuePos \in Nat /\ Capacity \in Nat
          /\ dequeuePos <= enqueuePos /\ enqueuePos <= dequeuePos + Capacity
          /\ sequence \in [Cells -> Nat]
          /\ \A u \in Threads : pos[u] \in Nat
      BY <1>1, Types, Constants
    <2>2. ASSUME NEW c \in Consumers, sequence[Cell(pos[c])] < pos[c] + 1,
                 enqueuePos # dequeuePos
          PROVE  \E p \in Producers : p \in Owners(Cell(dequeuePos))
      <3>1. pos[c] \in Nat /\ pos[c] <= dequeuePos /\ sequence[Cell(pos[c])] \in Nat
        BY <1>1, <2>1, CellType, Constants DEF IInv, ConsumerInv
      <3>2. pos[c] = dequeuePos
        BY <1>1, <2>1, <2>2, <3>1, PassedByPop
      <3>3. Full(dequeuePos)
        BY <1>1, <2>1, <2>2 DEF IInv
      <3>4. sequence[Cell(dequeuePos)] # dequeuePos + 1
        BY <2>1, <2>2, <3>1, <3>2
      <3>5. PICK p \in Producers : Claimed(p) /\ pos[p] = dequeuePos
        BY <3>3, <3>4 DEF Full
      <3> QED BY <3>5, Constants DEF Owners, Claimed
    <2>3. ASSUME NEW p \in Producers, sequence[Cell(pos[p])] < pos[p],
                 enqueuePos # dequeuePos + Capacity
          PROVE  \E c \in Consumers : c \in Owners(Cell(enqueuePos))
      <3>1. pos[p] \in Nat /\ pos[p] <= enqueuePos /\ sequence[Cell(pos[p])] \in Nat
        BY <1>1, <2>1, CellType, Constants DEF IInv, ProducerInv
      <3>2. pos[p] = enqueuePos
        BY <1>1, <2>1, <2>3, <3>1, PassedByPush
      <3>3. Free(enqueuePos)
        <4>1. enqueuePos \in enqueuePos .. dequeuePos + Capacity - 1
          BY <2>1, <2>3
        <4> QED BY <1>1, <4>1 DEF IInv
      <3>4. sequence[Cell(enqueuePos)] # enqueuePos
        BY <2>1, <2>3, <3>1, <3>2
      <3>5. PICK c \in Consumers : Claimed(c) /\ pos[c] = enqueuePos - Capacity
        BY <3>3, <3>4 DEF Free
      <3>6. pos[c] \in Nat /\ enqueuePos = pos[c] + Capacity
        BY <2>1, <3>5, Constants
      <3>7. Cell(pos[c]) = Cell(enqueuePos)
        BY <3>6, CellShift
      <3> QED BY <3>5, <3>7, Constants DEF Owners, Claimed
    <2> QED BY <2>2, <2>3 DEF GivesUp
  <1> QED BY <1>1, Invariance, PTL DEF Spec, FailuresAreJustified

-----------------------------------------------------------------------------
(***************************************************************************)
(* The queue implements BoundedQueue                                       *)
(***************************************************************************)
contentsBar == SubSeq(log, dequeuePos + 1, Len(log))
givenBar    == [c \in Consumers |-> Given(c)]

\* A message behind the log is one behind what is left of it.
LEMMA SubSeqAppend ==
    ASSUME NEW s \in Seq(Messages), NEW m \in Messages, NEW d \in Nat, d <= Len(s)
    PROVE  SubSeq(Append(s, m), d + 1, Len(Append(s, m)))
             = Append(SubSeq(s, d + 1, Len(s)), m)
  <1> DEFINE n == Len(s)
             a == Append(s, m)
             l == SubSeq(a, d + 1, n + 1)
             q == SubSeq(s, d + 1, n)
  <1>1. /\ n \in Nat /\ a \in Seq(Messages) /\ Len(a) = n + 1 /\ a[n + 1] = m
        /\ \A i \in 1 .. n : a[i] = s[i]
    OBVIOUS
  <1> HIDE DEF n, a
  <1>2. \A i \in d + 1 .. n : s[i] \in Messages
    BY DEF n
  <1>3. \A i \in d + 1 .. n + 1 : a[i] \in Messages
    BY <1>1, <1>2
  <1>4. /\ l \in Seq(Messages) /\ Len(l) = n + 1 - d
        /\ \A i \in 1 .. n + 1 - d : l[i] = a[d + i]
    <2>1. /\ d + 1 \in 1 .. Len(a) + 1 /\ n + 1 \in 0 .. Len(a) /\ d + 1 <= n + 1
      BY <1>1 DEF n
    <2> QED BY <1>1, <2>1
  <1>5. /\ q \in Seq(Messages) /\ Len(q) = n - d
        /\ \A i \in 1 .. n - d : q[i] = s[d + i]
    BY <1>1 DEF n
  <1> HIDE DEF l, q
  <1>6. /\ Append(q, m) \in Seq(Messages) /\ Len(Append(q, m)) = n + 1 - d
        /\ Append(q, m)[n + 1 - d] = m
        /\ \A i \in 1 .. n - d : Append(q, m)[i] = q[i]
    BY <1>1, <1>5
  <1>7. ASSUME NEW i \in 1 .. n + 1 - d PROVE l[i] = Append(q, m)[i]
    <2>1. CASE i = n + 1 - d
      BY <1>1, <1>4, <1>6, <2>1
    <2>2. CASE i # n + 1 - d
      <3>1. i \in 1 .. n - d /\ d + i \in 1 .. n
        BY <1>1, <2>2
      <3> QED BY <1>1, <1>4, <1>5, <1>6, <3>1
    <2> QED BY <2>1, <2>2
  <1>8. l = Append(q, m)
    BY <1>4, <1>6, <1>7, SeqEqual
  <1> QED BY <1>1, <1>8 DEF l, q, a, n

\* One message less of the log is its tail.
LEMMA SubSeqTail ==
    ASSUME NEW s \in Seq(Messages), NEW d \in Nat, d < Len(s)
    PROVE  /\ SubSeq(s, d + 1, Len(s)) # <<>>
           /\ Head(SubSeq(s, d + 1, Len(s))) = s[d + 1]
           /\ SubSeq(s, d + 2, Len(s)) = Tail(SubSeq(s, d + 1, Len(s)))
  <1>1. d + 1 \in 1 .. Len(s) /\ Len(s) \in d + 1 .. Len(s) /\ d + 1 + 1 = d + 2
    OBVIOUS
  <1>2. Len(SubSeq(s, d + 1, Len(s))) = Len(s) - d /\ Len(s) - d > 0
    OBVIOUS
  <1>3. /\ Head(SubSeq(s, d + 1, Len(s))) = s[d + 1]
        /\ Tail(SubSeq(s, d + 1, Len(s))) = SubSeq(s, d + 1 + 1, Len(s))
    BY <1>1, HeadTailOfSubSeq
  <1>4. SubSeq(s, d + 1, Len(s)) # <<>>
    <2> DEFINE q == SubSeq(s, d + 1, Len(s))
    <2>1. Len(q) > 0
      BY <1>2
    <2> HIDE DEF q
    <2>2. q # <<>>
      BY <2>1
    <2> QED BY <2>2 DEF q
  <1> QED BY <1>1, <1>3, <1>4

LEMMA SubSeqLen ==
    ASSUME NEW s \in Seq(Messages), NEW d \in Nat, d <= Len(s)
    PROVE  Len(SubSeq(s, d + 1, Len(s))) = Len(s) - d
  OBVIOUS

LEMMA InitMaps == Init => Queue!Init
  <1> SUFFICES ASSUME Init PROVE Queue!Init
    OBVIOUS
  <1>1. SubSeq(<<>>, 0 + 1, Len(<<>>)) = <<>>
    OBVIOUS
  <1>2. contentsBar = <<>>
    BY <1>1 DEF Init, contentsBar
  <1>3. givenBar = [c \in Consumers |-> NoMessage]
    BY Constants DEF Init, givenBar, Given
  <1> QED BY <1>2, <1>3 DEF Queue!Init, contentsBar, givenBar

\* Claiming a position is the abstract operation, by either side; every other
\* step of the queue leaves the abstract queue alone.
LEMMA StepMaps == ASSUME IInv, [Next]_vars PROVE [Queue!Next]_Queue!vars
  <1>1. /\ dequeuePos \in Nat /\ enqueuePos \in Nat /\ Capacity \in Nat
        /\ dequeuePos <= enqueuePos /\ enqueuePos <= dequeuePos + Capacity
        /\ log \in Seq(Messages) /\ Len(log) = enqueuePos
        /\ pc \in [Threads -> {"load", "test", "cas", "access", "release"}]
        /\ todo \in [Producers -> Seq(Messages)]
        /\ result \in [Consumers -> Messages \cup {NoMessage}]
    BY Types, Constants
  <1>2. ASSUME contentsBar' = contentsBar, givenBar' = givenBar
        PROVE  [Queue!Next]_Queue!vars
    BY <1>2 DEF Queue!vars, contentsBar, givenBar
  <1>3. ASSUME NEW p \in Producers, ClaimPush(p) PROVE Queue!Next
    <2>1. /\ log' = Append(log, Head(todo[p])) /\ dequeuePos' = dequeuePos
          /\ pc' = [pc EXCEPT ![p] = "access"] /\ pos' = pos /\ result' = result
          /\ pos[p] = enqueuePos /\ enqueuePos' = enqueuePos + 1
      BY <1>3 DEF ClaimPush, Goto
    <2>2. Head(todo[p]) \in Messages
      <3>1. todo[p] # <<>> /\ todo[p] \in Seq(Messages)
        BY <1>1, <1>3 DEF IInv, ProducerInv, ClaimPush
      <3> QED BY <3>1
    <2>3. enqueuePos < dequeuePos + Capacity
      <3>1. IInv'
        BY <1>3, IInvStep DEF Next, Push
      <3>2. enqueuePos' <= dequeuePos' + Capacity
        BY <3>1 DEF IInv, TypeOK
      <3> QED BY <1>1, <2>1, <3>2
    <2>4. contentsBar' = Append(contentsBar, Head(todo[p])) /\ Len(contentsBar) < Capacity
      BY <1>1, <2>1, <2>2, <2>3, SubSeqAppend, SubSeqLen, SMTT(40) DEF contentsBar
    <2>5. givenBar' = givenBar
      <3>1. ASSUME NEW c \in Consumers PROVE Given(c)' = Given(c)
        <4>1. pc'[c] = pc[c]
          BY <1>1, <2>1, Constants
        <4>2. pc[c] = "access" => log'[pos[c] + 1] = log[pos[c] + 1]
          <5>1. pc[c] = "access" => pos[c] < enqueuePos /\ pos[c] \in Nat
            BY <1>1, Types, Constants DEF IInv, ConsumerInv, Claimed
          <5> QED BY <1>1, <2>1, <2>2, <5>1
        <4> QED BY <2>1, <4>1, <4>2 DEF Given
      <3> QED BY <3>1 DEF givenBar
    <2> QED BY <2>2, <2>4, <2>5 DEF Queue!Next, Queue!Enqueue, contentsBar, givenBar
  <1>4. ASSUME NEW c \in Consumers, ClaimPop(c) PROVE Queue!Next
    <2>1. /\ dequeuePos' = dequeuePos + 1 /\ pc' = [pc EXCEPT ![c] = "access"]
          /\ log' = log /\ pos' = pos /\ result' = result
          /\ pos[c] = dequeuePos /\ dequeuePos < enqueuePos
      BY <1>4, PopFinds DEF ClaimPop, Goto
    <2>2. /\ contentsBar # <<>> /\ Head(contentsBar) = log[dequeuePos + 1]
          /\ contentsBar' = Tail(contentsBar)
      <3>1. dequeuePos' + 1 = dequeuePos + 2
        BY <1>1, <2>1
      <3> QED BY <1>1, <2>1, <3>1, SubSeqTail DEF contentsBar
    <2>3. givenBar' = [givenBar EXCEPT ![c] = Head(contentsBar)]
      <3>1. ASSUME NEW d \in Consumers
            PROVE  Given(d)' = IF d = c THEN log[dequeuePos + 1] ELSE Given(d)
        BY <1>1, <2>1, Constants DEF Given
      <3> QED BY <2>2, <3>1 DEF givenBar
    <2> QED BY <2>2, <2>3 DEF Queue!Next, Queue!Dequeue, contentsBar, givenBar
  <1>5. ASSUME NEW t \in Threads, ~Claimed(t), ~Claimed(t)',
               \E l : pc' = [pc EXCEPT ![t] = l], \E n : pos' = [pos EXCEPT ![t] = n],
               UNCHANGED <<shared, todo, result, log>>
        PROVE  contentsBar' = contentsBar /\ givenBar' = givenBar
    <2>1. \A c \in Consumers : Given(c)' = Given(c)
      BY <1>1, <1>5, Types, Constants DEF Given, Claimed
    <2> QED BY <1>5, <2>1 DEF contentsBar, givenBar, shared
  <1>6. ASSUME NEW p \in Producers, Push(p) PROVE [Queue!Next]_Queue!vars
    <2>1. CASE LoadPush(p)
      BY <1>1, <1>2, <1>5, <2>1, Types, Constants DEF LoadPush, Load, Goto, Claimed
    <2>2. CASE TestPush(p)
      <3>1. pos' = [pos EXCEPT ![p] = pos[p]]
        BY <2>2, Types DEF TestPush, Test
      <3> QED BY <1>1, <1>2, <1>5, <2>2, <3>1, Constants DEF TestPush, Test, Goto, Claimed
    <2>3. CASE CasFails(p, enqueuePos)
      BY <1>1, <1>2, <1>5, <2>3, Constants DEF CasFails, Goto, Claimed
    <2>4. CASE Write(p) \/ ReleasePush(p)
      <3>1. /\ \A c \in Consumers : pc'[c] = pc[c]
            /\ UNCHANGED <<pos, log, result, dequeuePos>>
        BY <1>1, <2>4, Constants DEF Write, ReleasePush, Goto
      <3>2. contentsBar' = contentsBar /\ givenBar' = givenBar
        BY <3>1 DEF contentsBar, givenBar, Given
      <3> QED BY <1>2, <3>2
    <2> QED BY <1>3, <1>6, <2>1, <2>2, <2>3, <2>4 DEF Push
  <1>7. ASSUME NEW c \in Consumers, Pop(c) PROVE [Queue!Next]_Queue!vars
    <2>1. CASE LoadPop(c)
      BY <1>1, <1>2, <1>5, <2>1, Types, Constants DEF LoadPop, Load, Goto, Claimed
    <2>2. CASE TestPop(c)
      <3>1. pos' = [pos EXCEPT ![c] = pos[c]]
        BY <2>2, Types DEF TestPop, Test
      <3> QED BY <1>1, <1>2, <1>5, <2>2, <3>1, Constants DEF TestPop, Test, Goto, Claimed
    <2>3. CASE CasFails(c, dequeuePos)
      BY <1>1, <1>2, <1>5, <2>3, Constants DEF CasFails, Goto, Claimed
    <2>4. CASE Read(c)
      <3>1. /\ pc[c] = "access" /\ pc' = [pc EXCEPT ![c] = "release"]
            /\ result' = [result EXCEPT ![c] = data[Cell(pos[c])]]
            /\ UNCHANGED <<pos, log, dequeuePos>>
        BY <2>4 DEF Read, Goto
      <3>2. data[Cell(pos[c])] = log[pos[c] + 1]
        BY <3>1 DEF IInv, ConsumerInv
      <3>3. \A d \in Consumers : Given(d)' = Given(d)
        BY <1>1, <3>1, <3>2, Constants DEF Given
      <3> QED BY <1>2, <3>1, <3>3 DEF contentsBar, givenBar
    <2>5. CASE ReleasePop(c)
      <3>1. /\ pc[c] = "release" /\ pc' = [pc EXCEPT ![c] = "load"]
            /\ UNCHANGED <<pos, log, result, dequeuePos>>
        BY <2>5 DEF ReleasePop, Goto
      <3>2. \A d \in Consumers : Given(d)' = Given(d)
        BY <1>1, <3>1, Constants DEF Given
      <3> QED BY <1>2, <3>1, <3>2 DEF contentsBar, givenBar
    <2> QED BY <1>4, <1>7, <2>1, <2>2, <2>3, <2>4, <2>5 DEF Pop
  <1>8. CASE UNCHANGED vars
    <2>1. contentsBar' = contentsBar /\ givenBar' = givenBar
      BY <1>8 DEF vars, shared, contentsBar, givenBar, Given
    <2> QED BY <1>2, <2>1
  <1> QED BY <1>6, <1>7, <1>8 DEF Next

\* The queue is a bounded first-in first-out queue that hands every message to
\* one consumer, whatever the capacity and however many threads use it.
THEOREM Refinement == Spec => ImplementsQueue
  <1>1. IInv /\ [Next]_vars => [Queue!Next]_Queue!vars
    BY StepMaps
  <1> QED BY <1>1, InitMaps, Invariance, PTL DEF Spec, ImplementsQueue, Queue!Spec
=============================================================================
