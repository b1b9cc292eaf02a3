-------------------------- MODULE AsyncLock_proofs --------------------------
(***************************************************************************)
(* Proofs about AsyncLock, for any coroutines, workers, capacity and       *)
(* rounds: the lock is exclusive, it is handed on only when somebody takes *)
(* it, nobody overtakes the queue, and no coroutine is ever resumed twice. *)
(***************************************************************************)
EXTENDS AsyncLock, FiniteSetTheorems, SequenceTheorems, TLAPS

\* Who has the lock or is handing it on, and who m_state counts.
Owns(c) == Holds(c) \/ pc[c] = "handoff"
Counted == {c \in Coroutines : Holds(c) \/ Behind(c)}

\* The queue holds the handles of those that have pushed it, published or not.
QueueOK == \A c \in Coroutines : OnQueue(c) <=> pc[c] \in {"publish", "waiting"}

\* Somebody who is behind is behind somebody.
OwnerOK == (\E c \in Coroutines : Behind(c)) => \E c \in Coroutines : Owns(c)

IInv == /\ TypeOK
        /\ QueueOK
        /\ OwnerOK
        /\ MutualExclusion
        /\ HandOffHasTaker
        /\ InOnePlace

-----------------------------------------------------------------------------
\* What a handle put behind a sequence does to its indices.
LEMMA AppendOps ==
    ASSUME NEW S, NEW q \in Seq(S), NEW x \in S
    PROVE  /\ Append(q, x) \in Seq(S)
           /\ DOMAIN Append(q, x) = 1 .. Len(q) + 1
           /\ \A i \in 1 .. Len(q) + 1 : Append(q, x)[i] = IF i = Len(q) + 1 THEN x ELSE q[i]
           /\ DOMAIN q = 1 .. Len(q) /\ Len(q) \in Nat
  OBVIOUS

\* What a coroutine put on top of a stack does to its indices.
LEMMA ConsOps ==
    ASSUME NEW S, NEW q \in Seq(S), NEW x \in S
    PROVE  /\ <<x>> \o q \in Seq(S)
           /\ DOMAIN (<<x>> \o q) = 1 .. Len(q) + 1
           /\ \A i \in 1 .. Len(q) + 1 : (<<x>> \o q)[i] = IF i = 1 THEN x ELSE q[i - 1]
           /\ DOMAIN q = 1 .. Len(q) /\ Len(q) \in Nat
  OBVIOUS

\* What taking the front of a sequence does to its indices.
LEMMA TailOps ==
    ASSUME NEW S, NEW q \in Seq(S), q # <<>>
    PROVE  /\ Tail(q) \in Seq(S)
           /\ DOMAIN Tail(q) = 1 .. Len(q) - 1
           /\ \A i \in 1 .. Len(q) - 1 : Tail(q)[i] = q[i + 1]
           /\ Head(q) = q[1] /\ Head(q) \in S
           /\ DOMAIN q = 1 .. Len(q) /\ Len(q) \in Nat /\ 1 \in DOMAIN q
  OBVIOUS

\* A sequence in which nothing occurs twice.
Distinct(q) == \A i, j \in DOMAIN q : q[i] = q[j] => i = j
Occurs(q, c) == \E i \in DOMAIN q : q[i] = c

\* A handle that is not in the queue is pushed.
LEMMA Pushed ==
    ASSUME NEW q \in Seq(Coroutines), Distinct(q), NEW c \in Coroutines, ~Occurs(q, c)
    PROVE  /\ Distinct(Append(q, c))
           /\ \A d \in Coroutines : Occurs(Append(q, c), d) <=> Occurs(q, d) \/ d = c
  <1>1. /\ DOMAIN Append(q, c) = 1 .. Len(q) + 1
        /\ \A i \in 1 .. Len(q) + 1 : Append(q, c)[i] = IF i = Len(q) + 1 THEN c ELSE q[i]
        /\ DOMAIN q = 1 .. Len(q) /\ Len(q) \in Nat
    BY AppendOps
  <1>2. \A i \in 1 .. Len(q) : Append(q, c)[i] = q[i] /\ q[i] # c /\ i \in 1 .. Len(q) + 1
    BY <1>1 DEF Occurs
  <1>3. Append(q, c)[Len(q) + 1] = c /\ Len(q) + 1 \in 1 .. Len(q) + 1
    BY <1>1
  <1>4. \A i \in 1 .. Len(q) + 1 : i \in 1 .. Len(q) \/ i = Len(q) + 1
    BY <1>1
  <1>5. Distinct(Append(q, c))
    BY <1>1, <1>2, <1>3, <1>4 DEF Distinct
  <1>6. \A d \in Coroutines : Occurs(Append(q, c), d) <=> Occurs(q, d) \/ d = c
    BY <1>1, <1>2, <1>3, <1>4 DEF Occurs
  <1> QED BY <1>5, <1>6

\* The oldest handle of a queue is popped.
LEMMA Popped ==
    ASSUME NEW q \in Seq(Coroutines), Distinct(q), q # <<>>
    PROVE  /\ Head(q) \in Coroutines /\ Occurs(q, Head(q))
           /\ Tail(q) \in Seq(Coroutines)
           /\ Distinct(Tail(q))
           /\ \A d \in Coroutines : Occurs(Tail(q), d) <=> Occurs(q, d) /\ d # Head(q)
  <1>1. /\ DOMAIN Tail(q) = 1 .. Len(q) - 1 /\ Tail(q) \in Seq(Coroutines)
        /\ \A i \in 1 .. Len(q) - 1 : Tail(q)[i] = q[i + 1]
        /\ DOMAIN q = 1 .. Len(q) /\ Len(q) \in Nat
        /\ Head(q) = q[1] /\ 1 \in DOMAIN q /\ Head(q) \in Coroutines
    BY TailOps
  <1>2. \A i \in 1 .. Len(q) - 1 : i + 1 \in DOMAIN q /\ i + 1 # 1
    BY <1>1
  <1>3. \A i \in 1 .. Len(q) - 1 : Tail(q)[i] # Head(q)
    BY <1>1, <1>2 DEF Distinct
  <1>4. ASSUME NEW i \in 1 .. Len(q) - 1, NEW j \in 1 .. Len(q) - 1, Tail(q)[i] = Tail(q)[j]
        PROVE  i = j
    <2>1. i + 1 = j + 1
      BY <1>1, <1>2, <1>4 DEF Distinct
    <2> QED BY <2>1
  <1>5. ASSUME NEW d \in Coroutines, d # Head(q), NEW i \in DOMAIN q, q[i] = d
        PROVE  Occurs(Tail(q), d)
    <2>1. i # 1
      BY <1>1, <1>5
    <2>2. i - 1 \in 1 .. Len(q) - 1 /\ (i - 1) + 1 = i
      BY <1>1, <2>1
    <2>3. Tail(q)[i - 1] = d
      BY <1>1, <1>5, <2>2
    <2> QED BY <1>1, <2>2, <2>3 DEF Occurs
  <1>6. \A d \in Coroutines : Occurs(Tail(q), d) => Occurs(q, d) /\ d # Head(q)
    BY <1>1, <1>2, <1>3 DEF Occurs
  <1>7. \A d \in Coroutines : Occurs(q, d) /\ d # Head(q) => Occurs(Tail(q), d)
    BY <1>5 DEF Occurs
  <1>8. Distinct(Tail(q))
    BY <1>1, <1>4 DEF Distinct
  <1> QED BY <1>1, <1>6, <1>7, <1>8 DEF Occurs

\* Nothing occurs twice on the stacks.
Apart(f) == \A v, w \in Workers : \A i \in DOMAIN f[v], j \in DOMAIN f[w] :
               f[v][i] = f[w][j] => v = w /\ i = j
Within(f, c) == \E w \in Workers : \E i \in DOMAIN f[w] : f[w][i] = c

\* The stacks after c has been put on top of w's, and after w has left one.
Entry(f, w, c) == [f EXCEPT ![w] = <<c>> \o @]
Exit(f, w)     == [f EXCEPT ![w] = Tail(@)]

\* A coroutine that is on no stack is put on top of one.
LEMMA Entered ==
    ASSUME NEW f \in [Workers -> Seq(Coroutines)], Apart(f),
           NEW w \in Workers, NEW c \in Coroutines, ~Within(f, c)
    PROVE  /\ Entry(f, w, c) \in [Workers -> Seq(Coroutines)]
           /\ Apart(Entry(f, w, c))
           /\ \A d \in Coroutines : Within(Entry(f, w, c), d) <=> Within(f, d) \/ d = c
  <1> DEFINE q == f[w]
             r == <<c>> \o q
             g == Entry(f, w, c)
  <1>1. /\ r \in Seq(Coroutines) /\ DOMAIN r = 1 .. Len(q) + 1
        /\ \A i \in 1 .. Len(q) + 1 : r[i] = IF i = 1 THEN c ELSE q[i - 1]
        /\ DOMAIN q = 1 .. Len(q) /\ Len(q) \in Nat
    BY ConsOps
  <1>2. /\ g \in [Workers -> Seq(Coroutines)] /\ g[w] = r
        /\ \A v \in Workers \ {w} : g[v] = f[v]
    BY <1>1 DEF Entry
  <1> HIDE DEF r, g
  <1>3. ASSUME NEW i \in DOMAIN r
        PROVE  /\ i \in Int
               /\ \/ i = 1 /\ r[i] = c
                  \/ i # 1 /\ i - 1 \in DOMAIN q /\ r[i] = q[i - 1]
    <2>1. i \in 1 .. Len(q) + 1
      BY <1>1
    <2>2. i # 1 => i - 1 \in 1 .. Len(q)
      BY <1>1, <2>1
    <2>3. r[i] = IF i = 1 THEN c ELSE q[i - 1]
      BY <1>1, <2>1
    <2>4. i \in Int /\ (i # 1 => i - 1 \in DOMAIN q)
      BY <1>1, <2>1, <2>2
    <2> QED BY <2>3, <2>4
  <1>4. ASSUME NEW i \in DOMAIN q PROVE i + 1 \in DOMAIN r /\ r[i + 1] = q[i]
    <2>1. i + 1 \in 1 .. Len(q) + 1 /\ i + 1 # 1 /\ (i + 1) - 1 = i
      BY <1>1
    <2> QED BY <1>1, <2>1
  <1>5. 1 \in DOMAIN r /\ r[1] = c
    BY <1>1
  <1>6. ASSUME NEW u \in Workers, NEW v \in Workers,
               NEW i \in DOMAIN g[u], NEW j \in DOMAIN g[v], g[u][i] = g[v][j]
        PROVE  u = v /\ i = j
    <2>1. CASE u # w /\ v # w
      BY <1>2, <1>6, <2>1 DEF Apart
    <2>2. CASE u = w /\ v # w
      BY <1>2, <1>3, <1>6, <2>2 DEF Apart, Within
    <2>3. CASE u # w /\ v = w
      BY <1>2, <1>3, <1>6, <2>3 DEF Apart, Within
    <2>4. CASE u = w /\ v = w
      <3>1. i \in DOMAIN r /\ j \in DOMAIN r /\ r[i] = r[j]
        BY <1>2, <1>6, <2>4
      <3>2. \A k \in DOMAIN q : q[k] # c
        BY DEF Within
      <3>3. CASE i = 1 \/ j = 1
        <4>1. r[i] = c /\ r[j] = c
          BY <1>5, <3>1, <3>3
        <4>2. i = 1 /\ j = 1
          BY <1>3, <3>1, <3>2, <4>1
        <4> QED BY <2>4, <4>2
      <3>4. CASE i # 1 /\ j # 1
        <4>1. i - 1 = j - 1
          BY <1>3, <3>1, <3>4 DEF Apart
        <4> QED BY <1>3, <2>4, <3>1, <4>1
      <3> QED BY <2>4, <3>3, <3>4
    <2> QED BY <2>1, <2>2, <2>3, <2>4
  <1>7. ASSUME NEW d \in Coroutines PROVE Within(g, d) => Within(f, d) \/ d = c
    <2>1. ASSUME NEW v \in Workers, NEW i \in DOMAIN g[v]
          PROVE  g[v][i] = c \/ \E k \in DOMAIN f[v] : g[v][i] = f[v][k]
      <3>1. CASE v = w
        BY <1>2, <1>3, <3>1
      <3>2. CASE v # w
        BY <1>2, <3>2
      <3> QED BY <3>1, <3>2
    <2> QED BY <2>1 DEF Within
  <1>8. ASSUME NEW d \in Coroutines PROVE Within(f, d) \/ d = c => Within(g, d)
    <2>1. Within(g, c)
      BY <1>2, <1>5 DEF Within
    <2>2. ASSUME NEW v \in Workers, NEW i \in DOMAIN f[v]
          PROVE  \E k \in DOMAIN g[v] : g[v][k] = f[v][i]
      <3>1. CASE v = w
        BY <1>2, <1>4, <3>1
      <3>2. CASE v # w
        BY <1>2, <3>2
      <3> QED BY <3>1, <3>2
    <2>3. ASSUME Within(f, d) PROVE Within(g, d)
      <3>1. PICK v \in Workers : \E i \in DOMAIN f[v] : f[v][i] = d
        BY <2>3 DEF Within
      <3>2. PICK i \in DOMAIN f[v] : f[v][i] = d
        BY <3>1
      <3>3. \E k \in DOMAIN g[v] : g[v][k] = d
        BY <2>2, <3>2
      <3> QED BY <3>3 DEF Within
    <2> QED BY <2>1, <2>3
  <1> QED BY <1>2, <1>6, <1>7, <1>8 DEF Apart, g

\* The innermost coroutine of a thread gives its thread back.
LEMMA Left ==
    ASSUME NEW f \in [Workers -> Seq(Coroutines)], Apart(f),
           NEW w \in Workers, NEW c, f[w] # <<>>, Head(f[w]) = c
    PROVE  /\ Exit(f, w) \in [Workers -> Seq(Coroutines)]
           /\ Apart(Exit(f, w))
           /\ Within(f, c)
           /\ \A d \in Coroutines : Within(Exit(f, w), d) <=> Within(f, d) /\ d # c
  <1> DEFINE q == f[w]
             r == Tail(q)
             g == Exit(f, w)
  <1>1. /\ r \in Seq(Coroutines) /\ DOMAIN r = 1 .. Len(q) - 1
        /\ \A i \in 1 .. Len(q) - 1 : r[i] = q[i + 1]
        /\ DOMAIN q = 1 .. Len(q) /\ Len(q) \in Nat
        /\ c = q[1] /\ 1 \in DOMAIN q
    BY TailOps
  <1>2. /\ g \in [Workers -> Seq(Coroutines)] /\ g[w] = r
        /\ \A v \in Workers \ {w} : g[v] = f[v]
    BY <1>1 DEF Exit
  <1> HIDE DEF r, g
  <1>3. ASSUME NEW i \in DOMAIN r
        PROVE  i \in Int /\ i + 1 \in DOMAIN q /\ i + 1 # 1 /\ r[i] = q[i + 1]
    BY <1>1
  <1>4. ASSUME NEW i \in DOMAIN q, i # 1 PROVE i - 1 \in DOMAIN r /\ r[i - 1] = q[i]
    <2>1. i - 1 \in 1 .. Len(q) - 1 /\ (i - 1) + 1 = i
      BY <1>1, <1>4
    <2> QED BY <1>1, <2>1
  <1>5. \A v \in Workers : \A i \in DOMAIN g[v] :
           \E k \in DOMAIN f[v] : /\ g[v][i] = f[v][k]
                                  /\ k = IF v = w THEN i + 1 ELSE i
    BY <1>2, <1>3
  <1>6. ASSUME NEW u \in Workers, NEW v \in Workers,
               NEW i \in DOMAIN g[u], NEW j \in DOMAIN g[v], g[u][i] = g[v][j]
        PROVE  u = v /\ i = j
    <2>1. PICK k \in DOMAIN f[u] : g[u][i] = f[u][k] /\ k = IF u = w THEN i + 1 ELSE i
      BY <1>5
    <2>2. PICK l \in DOMAIN f[v] : g[v][j] = f[v][l] /\ l = IF v = w THEN j + 1 ELSE j
      BY <1>5
    <2>3. u = v /\ k = l
      <3>1. f[u][k] = f[v][l]
        BY <1>6, <2>1, <2>2
      <3> QED BY <3>1 DEF Apart
    <2>4. u = w => i \in Int /\ j \in Int
      BY <1>2, <1>3, <2>3
    <2> QED BY <2>1, <2>2, <2>3, <2>4
  <1>7. ASSUME NEW d \in Coroutines, Within(g, d) PROVE Within(f, d) /\ d # c
    <2>1. PICK v \in Workers : \E i \in DOMAIN g[v] : g[v][i] = d
      BY <1>7 DEF Within
    <2>2. PICK i \in DOMAIN g[v] : g[v][i] = d
      BY <2>1
    <2>3. PICK k \in DOMAIN f[v] : g[v][i] = f[v][k] /\ k = IF v = w THEN i + 1 ELSE i
      BY <1>5
    <2>4. d = c => v = w /\ k = 1
      <3>1. c = f[w][1] /\ 1 \in DOMAIN f[w]
        BY <1>1
      <3>2. ASSUME f[v][k] = f[w][1] PROVE v = w /\ k = 1
        BY <3>1, <3>2 DEF Apart
      <3> QED BY <2>2, <2>3, <3>1, <3>2
    <2>5. v = w => k # 1
      BY <1>2, <1>3, <2>3
    <2> QED BY <2>2, <2>3, <2>4, <2>5 DEF Within
  <1>8. ASSUME NEW d \in Coroutines, Within(f, d), d # c PROVE Within(g, d)
    <2>1. PICK v \in Workers : \E i \in DOMAIN f[v] : f[v][i] = d
      BY <1>8 DEF Within
    <2>2. PICK i \in DOMAIN f[v] : f[v][i] = d
      BY <2>1
    <2>3. v = w => i # 1
      BY <1>1, <1>8, <2>2
    <2> QED BY <1>2, <1>4, <2>2, <2>3 DEF Within
  <1>9. Within(f, c)
    BY <1>1 DEF Within
  <1> QED BY <1>2, <1>6, <1>7, <1>8, <1>9 DEF Apart, g

-----------------------------------------------------------------------------
\* The ranges of the variables, apart from what m_state counts.
Ranges ==
    /\ m_queue \in Seq(Coroutines) /\ Len(m_queue) <= Capacity
    /\ pc \in [Coroutines -> {"run", "push", "publish", "waiting", "critical",
                              "back", "handoff", "finished"}]
    /\ left \in [Coroutines -> 0 .. Rounds]
    /\ ready \subseteq Coroutines
    /\ stack \in [Workers -> Seq(Coroutines)]
    /\ stopped \in BOOLEAN
    /\ dead \in BOOLEAN

LEMMA TypeParts == TypeOK <=> m_state = Cardinality(Counted) /\ Ranges
  BY DEF TypeOK, Ranges, Counted

\* The invariant holds before anybody asks for the lock.
LEMMA IInvInit == Init => IInv
  <1> SUFFICES ASSUME Init PROVE IInv
    OBVIOUS
  <1> USE LockAssumption DEF Init, Holds, Behind, Owns
  <1>1. Counted = {} /\ Cardinality(Counted) = 0
    <2>1. Counted = {}
      BY DEF Counted
    <2> QED BY <2>1, FS_EmptySet
  <1>2. Ranges
    <2>1. m_queue \in Seq(Coroutines) /\ Len(m_queue) = 0
      OBVIOUS
    <2>2. pc \in [Coroutines -> {"run", "push", "publish", "waiting", "critical",
                                 "back", "handoff", "finished"}]
      OBVIOUS
    <2>3. left \in [Coroutines -> 0 .. Rounds]
      OBVIOUS
    <2>4. stack \in [Workers -> Seq(Coroutines)]
      OBVIOUS
    <2>5. ready \subseteq Coroutines /\ stopped \in BOOLEAN /\ dead \in BOOLEAN
      OBVIOUS
    <2>6. Len(m_queue) <= Capacity
      BY <2>1
    <2> HIDE DEF Init
    <2> QED BY <2>1, <2>2, <2>3, <2>4, <2>5, <2>6 DEF Ranges
  <1>3. TypeOK
    BY <1>1, <1>2, TypeParts
  <1>4. QueueOK /\ OwnerOK /\ MutualExclusion /\ HandOffHasTaker
    BY DEF QueueOK, OwnerOK, MutualExclusion, HandOffHasTaker, OnQueue
  <1>5. InOnePlace
    BY DEF InOnePlace, OnQueue, OnStack, Waits
  <1> QED BY <1>3, <1>4, <1>5 DEF IInv

\* What c may assume while worker w executes it.
LEMMA Running ==
    ASSUME IInv, ~dead, NEW w \in Workers, NEW c \in Coroutines, Runs(w, c)
    PROVE  /\ OnStack(c) /\ ~Waits(c) /\ c \notin ready
           /\ stack[w] # <<>> /\ Head(stack[w]) = c
           /\ OnQueue(c) => pc[c] = "publish"
  <1>1. stack \in [Workers -> Seq(Coroutines)] /\ Apart(stack)
    BY DEF IInv, TypeOK, InOnePlace, Apart
  <1>2. stack[w] # <<>> /\ Head(stack[w]) = c
    BY DEF Runs
  <1>3. Within(stack, c)
    BY <1>1, <1>2, Left
  <1>4. OnStack(c) /\ ~Waits(c) /\ c \notin ready
    BY <1>3 DEF IInv, InOnePlace, OnStack, Within
  <1> QED BY <1>2, <1>4 DEF IInv, QueueOK, Waits

-----------------------------------------------------------------------------
(***************************************************************************)
(* What m_state counts                                                     *)
(***************************************************************************)
LEMMA CountGrows ==
    ASSUME TypeOK, NEW c \in Coroutines, ~Holds(c), ~Behind(c),
           m_state' = m_state + 1, Counted' = Counted \cup {c}
    PROVE  m_state' = Cardinality(Counted)'
  <1>1. IsFiniteSet(Counted) /\ c \notin Counted
    BY LockAssumption, FS_Subset DEF Counted
  <1> QED BY <1>1, FS_AddElement, TypeParts

LEMMA CountShrinks ==
    ASSUME TypeOK, NEW c \in Coroutines, Holds(c),
           m_state' = m_state - 1, Counted' = Counted \ {c}
    PROVE  m_state' = Cardinality(Counted)'
  <1>1. IsFiniteSet(Counted) /\ c \in Counted
    BY LockAssumption, FS_Subset DEF Counted
  <1> QED BY <1>1, FS_RemoveElement, TypeParts

\* m_state is zero when nobody is counted, and one when the holder is alone.
LEMMA CountTests ==
    ASSUME TypeOK
    PROVE  /\ m_state = 0 <=> Counted = {}
           /\ \A c \in Counted : m_state = 1 <=> Counted = {c}
  <1>1. IsFiniteSet(Counted) /\ m_state = Cardinality(Counted)
    BY LockAssumption, FS_Subset, TypeParts DEF Counted
  <1>2. m_state = 0 <=> Counted = {}
    BY <1>1, FS_EmptySet
  <1>3. ASSUME NEW c \in Counted PROVE m_state = 1 <=> Counted = {c}
    <2>1. Counted = {c} => m_state = 1
      BY <1>1, FS_Singleton
    <2>2. m_state = 1 => \E d : Counted = {d}
      BY <1>1, FS_Singleton
    <2> QED BY <2>1, <2>2
  <1> QED BY <1>2, <1>3

\* The handle that unlock pops is that of a suspended coroutine.
LEMMA Popping ==
    ASSUME IInv, Takeable
    PROVE  /\ Head(m_queue) \in Coroutines
           /\ pc[Head(m_queue)] = "waiting"
           /\ OnQueue(Head(m_queue))
           /\ m_queue # <<>> /\ m_queue \in Seq(Coroutines) /\ Distinct(m_queue)
  <1>1. m_queue # <<>> /\ m_queue \in Seq(Coroutines) /\ Distinct(m_queue)
    BY DEF IInv, TypeOK, InOnePlace, Distinct, Takeable
  <1>2. Head(m_queue) \in Coroutines /\ Occurs(m_queue, Head(m_queue))
    BY <1>1, Popped
  <1> QED BY <1>1, <1>2 DEF IInv, QueueOK, OnQueue, Occurs, Takeable

-----------------------------------------------------------------------------
(***************************************************************************)
(* Who owns the lock                                                       *)
(***************************************************************************)
Ownership == /\ m_state = Cardinality(Counted)
             /\ OwnerOK
             /\ MutualExclusion
             /\ HandOffHasTaker

\* The lock is taken without a wait when nobody is counted, and then nobody
\* hands it on either.
LEMMA OwnLock ==
    ASSUME IInv, NEW c \in Coroutines, Lock(c) PROVE Ownership'
  <1>1. /\ pc[c] = "run" /\ m_state' = m_state + 1
        /\ pc' = [pc EXCEPT ![c] = IF m_state = 0 THEN "critical" ELSE "push"]
        /\ pc \in [Coroutines -> {"run", "push", "publish", "waiting", "critical",
                                  "back", "handoff", "finished"}]
        /\ TypeOK
    BY DEF Lock, Goto, IInv, TypeOK
  <1>2. /\ OwnerOK /\ MutualExclusion /\ HandOffHasTaker
    BY DEF IInv
  <1>3. m_state = 0 <=> \A d \in Coroutines : ~Holds(d) /\ ~Behind(d)
    BY <1>1, CountTests DEF Counted
  <1>4. Counted' = Counted \cup {c}
    BY <1>1 DEF Counted, Holds, Behind
  <1>5. m_state' = Cardinality(Counted)'
    BY <1>1, <1>4, CountGrows DEF Holds, Behind
  <1>6. CASE m_state = 0
    <2>1. \A d \in Coroutines : ~Owns(d) /\ ~Behind(d)
      BY <1>2, <1>3, <1>6 DEF HandOffHasTaker, Owns
    <2>2. pc' = [pc EXCEPT ![c] = "critical"]
      BY <1>1, <1>6
    <2>3. \A d \in Coroutines : (Owns(d)' <=> d = c) /\ ~Behind(d)' /\ pc'[d] # "handoff"
      BY <1>1, <2>1, <2>2 DEF Owns, Holds, Behind
    <2> QED BY <1>5, <2>3
            DEF Ownership, OwnerOK, MutualExclusion, HandOffHasTaker, Owns
  <1>7. CASE m_state # 0
    <2>1. \E d \in Coroutines : Owns(d)
      BY <1>2, <1>3, <1>7 DEF OwnerOK, Owns
    <2>2. pc' = [pc EXCEPT ![c] = "push"]
      BY <1>1, <1>7
    <2>3. \A d \in Coroutines : /\ Owns(d)' <=> Owns(d)
                                /\ Behind(d)' <=> Behind(d) \/ d = c
                                /\ pc'[d] = "handoff" <=> pc[d] = "handoff"
      BY <1>1, <2>2 DEF Owns, Holds, Behind
    <2> QED BY <1>2, <1>5, <2>1, <2>3
            DEF Ownership, OwnerOK, MutualExclusion, HandOffHasTaker, Owns
  <1> QED BY <1>6, <1>7

\* A holder that is not alone leaves somebody behind it to hand the lock to.
LEMMA OwnUnlock ==
    ASSUME IInv, NEW c \in Coroutines, Unlock(c) PROVE Ownership'
  <1>1. /\ Holds(c) /\ m_state' = m_state - 1
        /\ pc' = [pc EXCEPT ![c] = IF m_state = 1 THEN "run" ELSE "handoff"]
        /\ pc \in [Coroutines -> {"run", "push", "publish", "waiting", "critical",
                                  "back", "handoff", "finished"}]
        /\ TypeOK
    BY DEF Unlock, Goto, IInv, TypeOK
  <1>2. /\ OwnerOK /\ MutualExclusion /\ HandOffHasTaker
    BY DEF IInv
  <1>3. m_state = 1 <=> \A d \in Coroutines : Holds(d) \/ Behind(d) => d = c
    BY <1>1, CountTests DEF Counted
  <1>4. Counted' = Counted \ {c}
    BY <1>1 DEF Counted, Holds, Behind
  <1>5. m_state' = Cardinality(Counted)'
    BY <1>1, <1>4, CountShrinks
  <1>6. \A d \in Coroutines : Owns(d) <=> d = c
    BY <1>1, <1>2 DEF MutualExclusion, Owns
  <1>7. CASE m_state = 1
    <2>1. pc' = [pc EXCEPT ![c] = "run"]
      BY <1>1, <1>7
    <2>2. \A d \in Coroutines : ~Owns(d)' /\ ~Behind(d)' /\ pc'[d] # "handoff"
      BY <1>1, <1>3, <1>6, <1>7, <2>1 DEF Owns, Holds, Behind
    <2> QED BY <1>5, <2>2
            DEF Ownership, OwnerOK, MutualExclusion, HandOffHasTaker, Owns
  <1>8. CASE m_state # 1
    <2>1. \E d \in Coroutines : Behind(d)
      BY <1>1, <1>3, <1>6, <1>8 DEF Owns
    <2>2. pc' = [pc EXCEPT ![c] = "handoff"]
      BY <1>1, <1>8
    <2>3. \A d \in Coroutines : /\ Owns(d)' <=> d = c
                                /\ Behind(d)' <=> Behind(d)
      BY <1>1, <1>6, <2>2 DEF Owns, Holds, Behind
    <2> QED BY <1>5, <2>1, <2>3
            DEF Ownership, OwnerOK, MutualExclusion, HandOffHasTaker, Owns
  <1> QED BY <1>7, <1>8

\* The lock passes to one of those behind, and nobody else has it.
LEMMA OwnHandOff ==
    ASSUME IInv, NEW w \in Workers, NEW c \in Coroutines, HandOff(w, c)
    PROVE  Ownership'
  <1> DEFINE d == Head(m_queue)
  <1>1. /\ pc[c] = "handoff" /\ m_state' = m_state
        /\ pc' = [pc EXCEPT ![c] = "run", ![d] = "critical"]
        /\ d \in Coroutines /\ pc[d] = "waiting"
        /\ pc \in [Coroutines -> {"run", "push", "publish", "waiting", "critical",
                                  "back", "handoff", "finished"}]
        /\ m_state = Cardinality(Counted)
    BY Popping, TypeParts DEF HandOff, IInv, TypeOK
  <1> HIDE DEF d
  <1>2. /\ MutualExclusion
    BY DEF IInv
  <1>3. Counted' = Counted
    BY <1>1 DEF Counted, Holds, Behind
  <1>4. \A e \in Coroutines : Owns(e) <=> e = c
    BY <1>1, <1>2 DEF MutualExclusion, Owns
  <1>5. \A e \in Coroutines : (Owns(e)' <=> e = d) /\ pc'[e] # "handoff"
    BY <1>1, <1>4 DEF Owns, Holds
  <1> QED BY <1>1, <1>3, <1>5
          DEF Ownership, OwnerOK, MutualExclusion, HandOffHasTaker, Owns

\* The other steps move nobody between those behind and those that own.
LEMMA OwnRest ==
    ASSUME IInv, NEW c \in Coroutines, m_state' = m_state,
           \/ pc' = pc
           \/ pc[c] = "push" /\ pc' = [pc EXCEPT ![c] = "publish"]
           \/ pc[c] = "publish" /\ pc' = [pc EXCEPT ![c] = "waiting"]
           \/ pc[c] = "critical" /\ pc' = [pc EXCEPT ![c] = "back"]
           \/ pc[c] = "run" /\ pc' = [pc EXCEPT ![c] = "finished"]
    PROVE  Ownership'
  <1>1. /\ pc \in [Coroutines -> {"run", "push", "publish", "waiting", "critical",
                                  "back", "handoff", "finished"}]
        /\ m_state = Cardinality(Counted)
    BY TypeParts DEF IInv, TypeOK
  <1>2. \A d \in Coroutines : /\ Holds(d)' <=> Holds(d)
                              /\ Behind(d)' <=> Behind(d)
                              /\ pc'[d] = "handoff" <=> pc[d] = "handoff"
    BY <1>1 DEF Holds, Behind
  <1>3. Counted' = Counted
    BY <1>2 DEF Counted
  <1>4. Ownership
    BY <1>1 DEF IInv, Ownership
  <1>5. \A d \in Coroutines : Owns(d)' <=> Owns(d)
    BY <1>2 DEF Owns
  <1> QED BY <1>2, <1>3, <1>4, <1>5
          DEF Ownership, OwnerOK, MutualExclusion, HandOffHasTaker, Owns

-----------------------------------------------------------------------------
(***************************************************************************)
(* Where each coroutine is                                                 *)
(***************************************************************************)
Places == Ranges /\ QueueOK /\ InOnePlace

\* The places of a coroutine, read off the sequences.
LEMMA PlaceDefs ==
    /\ \A c : (OnQueue(c) <=> Occurs(m_queue, c)) /\ (OnStack(c) <=> Within(stack, c))
    /\ \A c : (OnQueue(c)' <=> Occurs(m_queue', c)) /\ (OnStack(c)' <=> Within(stack', c))
    /\ InOnePlace => Distinct(m_queue) /\ Apart(stack)
  BY DEF OnQueue, OnStack, Occurs, Within, InOnePlace, Distinct, Apart

\* A coroutine that worker w executes goes on there, without a word to queue,
\* executor or stacks.
LEMMA PlaceStays ==
    ASSUME IInv, ~dead, NEW w \in Workers, NEW c \in Coroutines, Runs(w, c),
           NEW l \in {"push", "critical", "run", "handoff"},
           pc[c] \notin {"publish", "waiting"}, pc' = [pc EXCEPT ![c] = l],
           left' \in [Coroutines -> 0 .. Rounds],
           UNCHANGED <<m_queue, ready, stack, stopped, dead>>
    PROVE  Places'
  <1>1. OnStack(c) /\ c \notin ready /\ ~OnQueue(c)
    BY Running
  <1>2. Ranges /\ QueueOK /\ InOnePlace
    BY TypeParts DEF IInv
  <1>3. Ranges'
    BY <1>2 DEF Ranges
  <1>4. \A d \in Coroutines : /\ OnQueue(d)' <=> OnQueue(d)
                              /\ OnStack(d)' <=> OnStack(d)
                              /\ d # c => pc'[d] = pc[d]
    BY <1>2 DEF OnQueue, OnStack, Ranges
  <1>5. pc'[c] = l
    BY <1>2 DEF Ranges
  <1>6. QueueOK'
    BY <1>1, <1>2, <1>4, <1>5 DEF QueueOK
  <1>7. InOnePlace'
    BY <1>1, <1>2, <1>4, <1>5 DEF InOnePlace, Waits
  <1> QED BY <1>3, <1>6, <1>7 DEF Places

\* A worker takes a coroutine from the executor's queue to its stack.
LEMMA PlaceStart ==
    ASSUME IInv, ~dead, NEW w \in Workers, NEW c \in Coroutines, Start(w, c)
    PROVE  Places'
  <1>1. /\ c \in ready /\ ready' = ready \ {c} /\ stack[w] = <<>>
        /\ stack' = [stack EXCEPT ![w] = <<c>>]
        /\ UNCHANGED <<m_queue, pc, left, stopped, dead>>
    BY DEF Start
  <1>2. Ranges /\ QueueOK /\ InOnePlace
    BY TypeParts DEF IInv
  <1>3. stack' = Entry(stack, w, c)
    <2>1. <<c>> \o <<>> = <<c>>
      OBVIOUS
    <2> QED BY <1>1, <2>1 DEF Entry
  <1>4. stack \in [Workers -> Seq(Coroutines)] /\ Apart(stack) /\ ~Within(stack, c)
    BY <1>1, <1>2, PlaceDefs DEF Ranges, InOnePlace
  <1>5. /\ stack' \in [Workers -> Seq(Coroutines)] /\ Apart(stack')
        /\ \A d \in Coroutines : OnStack(d)' <=> OnStack(d) \/ d = c
    <2>1. \A d \in Coroutines : Within(stack', d) <=> Within(stack, d) \/ d = c
      BY <1>3, <1>4, Entered
    <2>2. stack' \in [Workers -> Seq(Coroutines)] /\ Apart(stack')
      BY <1>3, <1>4, Entered
    <2> QED BY <2>1, <2>2, PlaceDefs
  <1>6. Ranges'
    BY <1>1, <1>2, <1>5 DEF Ranges
  <1>7. \A d \in Coroutines : /\ OnQueue(d)' <=> OnQueue(d)
                              /\ Waits(d)' <=> Waits(d)
                              /\ d \in ready' <=> d \in ready /\ d # c
    BY <1>1 DEF OnQueue, Waits
  <1>8. QueueOK'
    BY <1>1, <1>2, <1>7 DEF QueueOK
  <1>9. InOnePlace'
    <2>1. \A d \in Coroutines :
              /\ ~(Waits(d)' /\ d \in ready')
              /\ ~(Waits(d)' /\ OnStack(d)')
              /\ ~(d \in ready' /\ OnStack(d)')
              /\ Waits(d)' \/ d \in ready' \/ OnStack(d)' <=> pc'[d] # "finished"
      BY <1>1, <1>2, <1>5, <1>7 DEF InOnePlace
    <2>2. \A i, j \in DOMAIN m_queue' : m_queue'[i] = m_queue'[j] => i = j
      BY <1>1, <1>2 DEF InOnePlace
    <2> QED BY <1>5, <2>1, <2>2 DEF InOnePlace, Apart
  <1> QED BY <1>6, <1>8, <1>9 DEF Places

\* A handle is pushed while the coroutine is still on its thread's stack.
LEMMA PlacePush ==
    ASSUME IInv, ~dead, NEW w \in Workers, NEW c \in Coroutines, Runs(w, c), Push(c)
    PROVE  Places'
  <1>1. /\ pc[c] = "push" /\ Len(m_queue) < Capacity
        /\ m_queue' = Append(m_queue, c) /\ pc' = [pc EXCEPT ![c] = "publish"]
        /\ UNCHANGED <<left, ready, stack, stopped, dead>>
    BY DEF Push, Goto
  <1>2. Ranges /\ QueueOK /\ InOnePlace
    BY TypeParts DEF IInv
  <1>3. OnStack(c) /\ c \notin ready /\ ~OnQueue(c)
    BY <1>1, Running
  <1>4. m_queue \in Seq(Coroutines) /\ Distinct(m_queue) /\ ~Occurs(m_queue, c)
    BY <1>2, <1>3, PlaceDefs DEF Ranges
  <1>5. /\ Distinct(m_queue')
        /\ \A d \in Coroutines : OnQueue(d)' <=> OnQueue(d) \/ d = c
    BY <1>1, <1>4, Pushed, PlaceDefs
  <1>6. m_queue' \in Seq(Coroutines) /\ Len(m_queue') <= Capacity
    <2>1. m_queue' \in Seq(Coroutines) /\ Len(m_queue') = Len(m_queue) + 1
      BY <1>1, <1>4
    <2> QED BY <1>1, <1>4, <2>1, LockAssumption
  <1>7. Ranges'
    BY <1>1, <1>2, <1>6 DEF Ranges
  <1>8. \A d \in Coroutines : /\ OnStack(d)' <=> OnStack(d)
                              /\ pc'[d] = IF d = c THEN "publish" ELSE pc[d]
    BY <1>1, <1>2 DEF OnStack, Ranges
  <1>9. QueueOK'
    BY <1>2, <1>5, <1>8 DEF QueueOK
  <1>10. InOnePlace'
    <2>1. \A d \in Coroutines : Waits(d)' <=> Waits(d)
      BY <1>1, <1>5, <1>8 DEF Waits
    <2>2. \A d \in Coroutines :
              /\ ~(Waits(d)' /\ d \in ready')
              /\ ~(Waits(d)' /\ OnStack(d)')
              /\ ~(d \in ready' /\ OnStack(d)')
              /\ Waits(d)' \/ d \in ready' \/ OnStack(d)' <=> pc'[d] # "finished"
      BY <1>1, <1>2, <1>3, <1>8, <2>1 DEF InOnePlace
    <2> QED BY <1>1, <1>2, <1>5, <2>2 DEF InOnePlace, Distinct
  <1> QED BY <1>7, <1>9, <1>10 DEF Places

\* A coroutine gives its thread back when its handle is in the queue, when the
\* executor has it, or when it is finished.
LEMMA PlaceLeave ==
    ASSUME IInv, ~dead, NEW w \in Workers, NEW c \in Coroutines, Runs(w, c), Leave(w),
           UNCHANGED <<m_queue, left, stopped, dead>>,
           \/ pc[c] = "publish" /\ pc' = [pc EXCEPT ![c] = "waiting"] /\ ready' = ready
           \/ pc[c] = "critical" /\ pc' = [pc EXCEPT ![c] = "back"] /\ ready' = ready \cup {c}
           \/ pc[c] = "run" /\ pc' = [pc EXCEPT ![c] = "finished"] /\ ready' = ready
    PROVE  Places'
  <1>1. Ranges /\ QueueOK /\ InOnePlace
    BY TypeParts DEF IInv
  <1>2. OnStack(c) /\ c \notin ready /\ (OnQueue(c) <=> pc[c] = "publish")
    BY <1>1, Running DEF QueueOK
  <1>3. stack \in [Workers -> Seq(Coroutines)] /\ Apart(stack)
    BY <1>1, PlaceDefs DEF Ranges
  <1>4. stack[w] # <<>> /\ Head(stack[w]) = c /\ stack' = Exit(stack, w)
    BY Running DEF Leave, Exit
  <1>5. /\ stack' \in [Workers -> Seq(Coroutines)] /\ Apart(stack')
        /\ \A d \in Coroutines : OnStack(d)' <=> OnStack(d) /\ d # c
    <2>1. \A d \in Coroutines : Within(stack', d) <=> Within(stack, d) /\ d # c
      BY <1>3, <1>4, Left
    <2>2. stack' \in [Workers -> Seq(Coroutines)] /\ Apart(stack')
      BY <1>3, <1>4, Left
    <2> QED BY <2>1, <2>2, PlaceDefs
  <1>6. Ranges'
    BY <1>1, <1>5 DEF Ranges
  <1>7. \A d \in Coroutines : /\ OnQueue(d)' <=> OnQueue(d)
                              /\ d # c => pc'[d] = pc[d] /\ (d \in ready' <=> d \in ready)
    BY <1>1 DEF OnQueue, Ranges
  <1>8. /\ pc[c] = "publish" => pc'[c] = "waiting" /\ c \notin ready'
        /\ pc[c] = "critical" => pc'[c] = "back" /\ c \in ready'
        /\ pc[c] = "run" => pc'[c] = "finished" /\ c \notin ready'
        /\ pc[c] \in {"publish", "critical", "run"}
    BY <1>1, <1>2 DEF Ranges
  <1>9. QueueOK'
    BY <1>1, <1>7, <1>8 DEF QueueOK
  <1>10. InOnePlace'
    <2>1. \A d \in Coroutines :
              /\ ~(Waits(d)' /\ d \in ready')
              /\ ~(Waits(d)' /\ OnStack(d)')
              /\ ~(d \in ready' /\ OnStack(d)')
              /\ Waits(d)' \/ d \in ready' \/ OnStack(d)' <=> pc'[d] # "finished"
      BY <1>1, <1>2, <1>5, <1>7, <1>8 DEF InOnePlace, Waits
    <2>2. \A i, j \in DOMAIN m_queue' : m_queue'[i] = m_queue'[j] => i = j
      BY <1>1 DEF InOnePlace
    <2> QED BY <1>5, <2>1, <2>2 DEF InOnePlace, Apart
  <1> QED BY <1>6, <1>9, <1>10 DEF Places

\* The next coroutine goes from the queue to the executor or on top of the
\* stack; when a stopped executor throws, the process ends.
LEMMA PlaceHandOff ==
    ASSUME IInv, ~dead, NEW w \in Workers, NEW c \in Coroutines, Runs(w, c), HandOff(w, c)
    PROVE  Places'
  <1> DEFINE d == Head(m_queue)
  <1>1. Ranges /\ QueueOK /\ InOnePlace
    BY TypeParts DEF IInv
  <1>2. /\ pc[c] = "handoff" /\ pc' = [pc EXCEPT ![c] = "run", ![d] = "critical"]
        /\ m_queue' = Tail(m_queue) /\ left' = left /\ stopped' = stopped
        /\ d \in Coroutines /\ pc[d] = "waiting" /\ OnQueue(d)
        /\ m_queue # <<>> /\ m_queue \in Seq(Coroutines) /\ Distinct(m_queue)
    BY Popping DEF HandOff
  <1>3. \/ /\ stack' = stack /\ dead' = stopped
           /\ ready' = IF stopped THEN ready ELSE ready \cup {d}
        \/ /\ stack' = Entry(stack, w, d)
           /\ ready' = ready /\ dead' = dead
    BY DEF HandOff, Entry
  <1>4. /\ m_queue' \in Seq(Coroutines) /\ Distinct(m_queue')
        /\ \A e \in Coroutines : OnQueue(e)' <=> OnQueue(e) /\ e # d
    BY <1>2, Popped, PlaceDefs
  <1>5. Len(m_queue') <= Capacity
    <2>1. Len(m_queue') = Len(m_queue) - 1 /\ Len(m_queue) \in Nat /\ Len(m_queue) <= Capacity
      BY <1>1, <1>2 DEF Ranges
    <2> QED BY <2>1, LockAssumption
  <1>6. Waits(d) /\ d \notin ready /\ ~OnStack(d)
    BY <1>1, <1>2 DEF InOnePlace, Waits
  <1>7. OnStack(c) /\ c \notin ready /\ ~OnQueue(c) /\ c # d
    BY <1>2, Running
  <1> HIDE DEF d
  <1>8. \A e \in Coroutines : pc'[e] = IF e = c THEN "run" ELSE IF e = d THEN "critical" ELSE pc[e]
    BY <1>1, <1>2, <1>7 DEF Ranges
  <1>9. QueueOK'
    BY <1>1, <1>4, <1>7, <1>8 DEF QueueOK
  <1>10. \A e \in Coroutines : Waits(e)' <=> Waits(e) /\ e # d
    BY <1>4, <1>7, <1>8 DEF Waits
  <1>11. \A i, j \in DOMAIN m_queue' : m_queue'[i] = m_queue'[j] => i = j
    BY <1>4 DEF Distinct
  <1>12. pc[c] = "handoff" /\ pc[d] = "waiting"
    BY <1>2
  <1>13. CASE /\ stack' = stack /\ dead' = stopped
              /\ ready' = IF stopped THEN ready ELSE ready \cup {d}
    <2>1. Ranges'
      BY <1>1, <1>2, <1>4, <1>5, <1>7, <1>8, <1>13 DEF Ranges
    <2>2. Apart(stack')
      BY <1>1, <1>13, PlaceDefs
    <2>3. ASSUME ~dead', NEW e \in Coroutines
          PROVE  /\ ~(Waits(e)' /\ e \in ready')
                 /\ ~(Waits(e)' /\ OnStack(e)')
                 /\ ~(e \in ready' /\ OnStack(e)')
                 /\ Waits(e)' \/ e \in ready' \/ OnStack(e)' <=> pc'[e] # "finished"
      <3>1. ready' = ready \cup {d} /\ (OnStack(e)' <=> OnStack(e))
        BY <1>13, <2>3 DEF OnStack
      <3>2. /\ Waits(e)' <=> Waits(e) /\ e # d
            /\ e \in ready' <=> e \in ready \/ e = d
        BY <1>10, <3>1
      <3>3. pc'[e] # "finished" <=> pc[e] # "finished"
        BY <1>8, <1>12
      <3>4. /\ ~(Waits(e) /\ e \in ready) /\ ~(Waits(e) /\ OnStack(e))
            /\ ~(e \in ready /\ OnStack(e))
            /\ Waits(e) \/ e \in ready \/ OnStack(e) <=> pc[e] # "finished"
        BY <1>1 DEF InOnePlace
      <3> QED BY <1>6, <3>1, <3>2, <3>3, <3>4
    <2>4. InOnePlace'
      BY <1>11, <2>2, <2>3 DEF InOnePlace, Apart
    <2> QED BY <1>9, <2>1, <2>4 DEF Places
  <1>14. CASE /\ stack' = Entry(stack, w, d)
              /\ ready' = ready /\ dead' = dead
    <2>1. stack \in [Workers -> Seq(Coroutines)] /\ Apart(stack) /\ ~Within(stack, d)
      BY <1>1, <1>6, PlaceDefs DEF Ranges
    <2>2. /\ stack' \in [Workers -> Seq(Coroutines)] /\ Apart(stack')
          /\ \A e \in Coroutines : OnStack(e)' <=> OnStack(e) \/ e = d
      <3>1. \A e \in Coroutines : Within(stack', e) <=> Within(stack, e) \/ e = d
        BY <1>2, <1>14, <2>1, Entered
      <3>2. stack' \in [Workers -> Seq(Coroutines)] /\ Apart(stack')
        BY <1>2, <1>14, <2>1, Entered
      <3> QED BY <3>1, <3>2, PlaceDefs
    <2>3. Ranges'
      BY <1>1, <1>2, <1>4, <1>5, <1>7, <1>8, <1>14, <2>2 DEF Ranges
    <2>4. ASSUME ~dead', NEW e \in Coroutines
          PROVE  /\ ~(Waits(e)' /\ e \in ready')
                 /\ ~(Waits(e)' /\ OnStack(e)')
                 /\ ~(e \in ready' /\ OnStack(e)')
                 /\ Waits(e)' \/ e \in ready' \/ OnStack(e)' <=> pc'[e] # "finished"
      <3>1. /\ Waits(e)' <=> Waits(e) /\ e # d
            /\ e \in ready' <=> e \in ready
            /\ OnStack(e)' <=> OnStack(e) \/ e = d
        BY <1>10, <1>14, <2>2
      <3>2. pc'[e] # "finished" <=> pc[e] # "finished"
        BY <1>8, <1>12
      <3>3. /\ ~(Waits(e) /\ e \in ready) /\ ~(Waits(e) /\ OnStack(e))
            /\ ~(e \in ready /\ OnStack(e))
            /\ Waits(e) \/ e \in ready \/ OnStack(e) <=> pc[e] # "finished"
        BY <1>1 DEF InOnePlace
      <3> QED BY <1>6, <3>1, <3>2, <3>3
    <2>5. InOnePlace'
      BY <1>11, <2>2, <2>4 DEF InOnePlace, Apart
    <2> QED BY <1>9, <2>3, <2>5 DEF Places
  <1> QED BY <1>3, <1>13, <1>14

-----------------------------------------------------------------------------
\* Every step preserves the invariant.
LEMMA IInvStep == ASSUME IInv, Next PROVE IInv'
  <1>1. Ranges /\ QueueOK /\ InOnePlace
    BY TypeParts DEF IInv
  <1>2. ~dead
    BY DEF Next
  <1>3. ASSUME Ownership', Places' PROVE IInv'
    <2>1. (m_state = Cardinality(Counted) /\ Ranges)' => TypeOK'
      BY DEF TypeOK, Ranges, Counted, Holds, Behind
    <2> QED BY <1>3, <2>1 DEF IInv, Ownership, Places
  <1>4. CASE Stop
    <2>1. pc' = pc /\ m_state' = m_state /\ stopped' \in BOOLEAN
          /\ UNCHANGED <<m_queue, left, ready, stack, dead>>
      BY <1>4 DEF Stop
    <2>2. Places'
      BY <1>1, <2>1 DEF Places, Ranges, QueueOK, InOnePlace, OnQueue, OnStack, Waits
    <2>3. Ownership'
      BY <1>1, <2>1 DEF IInv, TypeOK, Ownership, OwnerOK, MutualExclusion, HandOffHasTaker,
                   Owns, Holds, Behind, Counted
    <2> QED BY <1>3, <2>2, <2>3
  <1>5. ASSUME NEW w \in Workers, NEW c \in Coroutines, Start(w, c) PROVE IInv'
    <2>1. pc' = pc /\ m_state' = m_state
      BY <1>5 DEF Start
    <2> QED BY <1>2, <1>3, <1>5, <2>1, OwnRest, PlaceStart
  <1>6. ASSUME NEW w \in Workers, NEW c \in Coroutines, Runs(w, c), Step(w, c)
        PROVE  IInv'
    <2>1. CASE Lock(c)
      <3>1. PICK l \in {"push", "critical", "run", "handoff"} : pc' = [pc EXCEPT ![c] = l]
        BY <2>1 DEF Lock, Goto
      <3>2. /\ pc[c] \notin {"publish", "waiting"}
            /\ left[c] > 0 /\ left' = [left EXCEPT ![c] = @ - 1]
            /\ UNCHANGED <<m_queue, ready, stack, stopped, dead>>
        BY <2>1 DEF Lock
      <3>3. left' \in [Coroutines -> 0 .. Rounds]
        BY <1>1, <3>2, LockAssumption DEF Ranges
      <3>4. Places'
        BY <1>2, <1>6, <3>1, <3>2, <3>3, PlaceStays
      <3> QED BY <1>3, <2>1, <3>4, OwnLock
    <2>2. CASE Push(c)
      BY <1>2, <1>3, <1>6, <2>2, OwnRest, PlacePush DEF Push, Goto
    <2>3. CASE Publish(w, c)
      BY <1>2, <1>3, <1>6, <2>3, OwnRest, PlaceLeave DEF Publish, Goto
    <2>4. CASE Yield(w, c)
      BY <1>2, <1>3, <1>6, <2>4, OwnRest, PlaceLeave DEF Yield, Goto
    <2>5. CASE Unlock(c)
      <3>1. PICK l \in {"push", "critical", "run", "handoff"} : pc' = [pc EXCEPT ![c] = l]
        BY <2>5 DEF Unlock, Goto
      <3>2. /\ pc[c] \notin {"publish", "waiting"} /\ left' = left
            /\ UNCHANGED <<m_queue, ready, stack, stopped, dead>>
        BY <2>5 DEF Unlock, Holds
      <3>3. Places'
        BY <1>1, <1>2, <1>6, <3>1, <3>2, PlaceStays DEF Ranges
      <3> QED BY <1>3, <2>5, <3>3, OwnUnlock
    <2>6. CASE HandOff(w, c)
      BY <1>2, <1>3, <1>6, <2>6, OwnHandOff, PlaceHandOff
    <2>7. CASE End(w, c)
      BY <1>2, <1>3, <1>6, <2>7, OwnRest, PlaceLeave DEF End, Goto
    <2> QED BY <1>6, <2>1, <2>2, <2>3, <2>4, <2>5, <2>6, <2>7 DEF Step
  <1> QED BY <1>4, <1>5, <1>6 DEF Next, Work

\* The invariant holds throughout.
THEOREM Invariance == Spec => []IInv
  <1>1. IInv /\ [Next]_vars => IInv'
    <2> SUFFICES ASSUME IInv, UNCHANGED vars PROVE IInv'
      BY IInvStep
    <2> QED BY DEF vars, IInv, TypeOK, QueueOK, OwnerOK, MutualExclusion, HandOffHasTaker,
                   InOnePlace, Waits, OnQueue, OnStack, Owns, Holds, Behind
  <1> QED BY <1>1, IInvInit, PTL DEF Spec

\* Every variable stays in its range, and m_state is the number of coroutines
\* that hold the lock or are behind it.
THEOREM TypeCorrect == Spec => []TypeOK
  <1>1. IInv => TypeOK
    BY DEF IInv
  <1> QED BY <1>1, Invariance, PTL

\* Two coroutines never hold the lock, nor hold it and hand it on, together.
THEOREM Exclusive == Spec => []MutualExclusion
  <1>1. IInv => MutualExclusion
    BY DEF IInv
  <1> QED BY <1>1, Invariance, PTL

\* A thread spins in unlock only for a coroutine that is behind the lock.
THEOREM SpinsForSomebody == Spec => []HandOffHasTaker
  <1>1. IInv => HandOffHasTaker
    BY DEF IInv
  <1> QED BY <1>1, Invariance, PTL

\* A coroutine is in the lock's queue, in the executor's, on one stack or
\* finished: nothing resumes it twice and nothing forgets it.
THEOREM NeverResumedTwice == Spec => []InOnePlace
  <1>1. IInv => InOnePlace
    BY DEF IInv
  <1> QED BY <1>1, Invariance, PTL

\* The fast path of lock finds the lock free, with nobody behind it and nobody
\* handing it on.
THEOREM FastPathIsFair == Spec => NoBarging
  <1> DEFINE Barging == \A c \in Coroutines :
          pc[c] = "run" /\ pc'[c] = "critical" =>
             \A d \in Coroutines : ~Holds(d) /\ ~Behind(d) /\ pc[d] # "handoff"
  <1>1. ASSUME IInv, [Next]_vars PROVE [Barging]_vars
    <2> SUFFICES ASSUME Next, NEW c \in Coroutines, pc[c] = "run", pc'[c] = "critical",
                        NEW d \in Coroutines
                 PROVE  ~Holds(d) /\ ~Behind(d) /\ pc[d] # "handoff"
      BY <1>1
    <2>1. /\ pc \in [Coroutines -> {"run", "push", "publish", "waiting", "critical",
                                    "back", "handoff", "finished"}]
          /\ HandOffHasTaker /\ TypeOK
      BY <1>1 DEF IInv, TypeOK
    <2>2. ASSUME NEW w \in Workers, NEW e \in Coroutines, HandOff(w, e) PROVE FALSE
      <3>1. pc' = [pc EXCEPT ![e] = "run", ![Head(m_queue)] = "critical"]
            /\ pc[Head(m_queue)] = "waiting"
        BY <1>1, <2>2, Popping DEF HandOff
      <3> QED BY <2>1, <3>1
    <2>3. m_state = 0
      BY <2>1, <2>2 DEF Next, Work, Stop, Start, Step, Lock, Push, Publish, Yield, Unlock,
                        End, Goto, Holds
    <2>4. \A e \in Coroutines : ~Holds(e) /\ ~Behind(e)
      BY <2>1, <2>3, CountTests DEF Counted
    <2> QED BY <2>1, <2>4 DEF HandOffHasTaker
  <1> QED BY <1>1, Invariance, PTL DEF Spec, NoBarging
=============================================================================
