--------------------------- MODULE ForkJoin_proofs ---------------------------
(***************************************************************************)
(* Proofs about ForkJoin and the arithmetic of Chunks it is built on.      *)
(*                                                                         *)
(* For any range, chunk size, number of threads, vector width and array: a *)
(* chunk stays within its share of the range, the chunks cover the range   *)
(* when the end of the last one fits the index type, and every element of  *)
(* a reduction is in one block.  For any loops: what a loop that returns   *)
(* has done, that nothing is done twice, which failure is reported, and    *)
(* when a coroutine can run into a destroyed frame.                        *)
(***************************************************************************)
EXTENDS ForkJoin, TLAPS

-----------------------------------------------------------------------------
(***************************************************************************)
(* Division                                                                *)
(***************************************************************************)
LEMMA Times ==
    ASSUME NEW n \in Nat, n > 0, NEW k \in Int
    PROVE  (k >= 1 => n * k >= n) /\ (k <= -1 => n * k <= -n)
  <1>1. k >= 1 => n * k >= n
    BY SMT
  <1>2. k <= -1 => n * k <= -n
    BY SMT
  <1> QED BY <1>1, <1>2

LEMMA Division ==
    ASSUME NEW n \in Nat, n > 0, NEW p \in Nat
    PROVE  /\ p % n \in 0 .. n - 1
           /\ p \div n \in Int
           /\ p = n * (p \div n) + (p % n)
  BY SMT

\* Only zero is a multiple of n between -n and n.
LEMMA NoMultiple ==
    ASSUME NEW n \in Nat, n > 0, NEW k \in Int, NEW d \in Int,
           n * k = d, -n < d, d < n
    PROVE  k = 0 /\ d = 0
  <1>1. ~(k >= 1) /\ ~(k <= -1)
    BY Times
  <1>2. k = 0
    BY <1>1
  <1> QED BY <1>2

\* A number below the modulus is its own remainder, and one in the next lap
\* leaves the excess.
LEMMA Remainder ==
    ASSUME NEW n \in Nat, n > 0, NEW x \in Nat, x < n + n
    PROVE  x % n = IF x < n THEN x ELSE x - n
  <1> DEFINE r == x % n
             q == x \div n
             d == IF x < n THEN x ELSE x - n
             j == IF x < n THEN 0 ELSE 1
  <1>1. r \in 0 .. n - 1 /\ q \in Int /\ x = n * q + r
    BY Division
  <1>2. d \in 0 .. n - 1 /\ j \in Int /\ x = n * j + d
    BY SMT
  <1> HIDE DEF r, q, d, j
  <1>3. n * (q - j) = d - r /\ q - j \in Int
    BY <1>1, <1>2, SMT
  <1>4. d - r \in Int /\ -n < d - r /\ d - r < n
    BY <1>1, <1>2
  <1>5. d - r = 0
    BY <1>3, <1>4, NoMultiple
  <1>6. r = d
    BY <1>1, <1>2, <1>5
  <1> QED BY <1>6 DEF r, d

\* CeilDiv(a, b) shares of b are enough for a, and one less is not.
LEMMA CeilDivBounds ==
    ASSUME NEW a \in Nat, a > 0, NEW b \in Nat, b > 0
    PROVE  /\ CeilDiv(a, b) \in Nat /\ CeilDiv(a, b) >= 1
           /\ a <= b * CeilDiv(a, b)
           /\ b * CeilDiv(a, b) <= a + b - 1
  <1> DEFINE q == CeilDiv(a, b)
             r == (a + b - 1) % b
  <1>1. r \in 0 .. b - 1 /\ q \in Int /\ a + b - 1 = b * q + r
    <2>1. a + b - 1 \in Nat
      OBVIOUS
    <2> QED BY <2>1, Division DEF CeilDiv
  <1> HIDE DEF q, r
  <1>2. b * q \in Int /\ a <= b * q /\ b * q <= a + b - 1
    BY <1>1
  <1>3. q >= 1
    <2> SUFFICES ASSUME q <= 0 PROVE FALSE
      BY <1>1
    <2>1. q = 0 \/ q <= -1
      BY <1>1
    <2>2. q = 0 => b * q = 0
      BY SMT
    <2> QED BY <1>1, <1>2, <2>1, <2>2, Times
  <1> QED BY <1>1, <1>2, <1>3 DEF q

\* Shares of the same size follow each other without a gap or an overlap.
LEMMA ShareUnique ==
    ASSUME NEW b \in Nat, b > 0, NEW k \in Nat, NEW l \in Nat, NEW x \in Int,
           k * b <= x, x < k * b + b, l * b <= x, x < l * b + b
    PROVE  k = l
  <1>1. k * b \in Int /\ l * b \in Int
    OBVIOUS
  <1>2. b * (k - l) = k * b - l * b /\ k - l \in Int
    BY SMT
  <1>3. k * b - l * b \in Int /\ -b < k * b - l * b /\ k * b - l * b < b
    BY <1>1
  <1>4. k - l = 0
    BY <1>2, <1>3, NoMultiple
  <1> QED BY <1>4

LEMMA ShareExists ==
    ASSUME NEW b \in Nat, b > 0, NEW n \in Nat, NEW x \in Nat, x < b * n
    PROVE  \E k \in 0 .. n - 1 : k * b <= x /\ x < k * b + b
  <1> DEFINE q == x \div b
             r == x % b
  <1>1. r \in 0 .. b - 1 /\ q \in Int /\ x = b * q + r
    BY Division
  <1> HIDE DEF q, r
  <1>2. q * b = b * q /\ b * q \in Int /\ b * n \in Int
    BY <1>1, SMT
  <1>3. q >= 0
    <2> SUFFICES ASSUME q <= -1 PROVE FALSE
      BY <1>1
    <2> QED BY <1>1, <1>2, Times
  <1>4. q < n
    <2> SUFFICES ASSUME q >= n PROVE FALSE
      BY <1>1
    <2>1. b * (q - n) = b * q - b * n /\ q - n \in Int
      BY <1>1, SMT
    <2>2. q - n = 0 \/ q - n >= 1
      BY <1>1
    <2>4. q - n >= 1 => b * (q - n) >= b
      BY <2>1, Times
    <2>3. q - n = 0 => b * (q - n) = 0
      BY SMT
    <2> QED BY <1>1, <1>2, <2>1, <2>2, <2>3, <2>4
  <1> QED BY <1>1, <1>2, <1>3, <1>4

-----------------------------------------------------------------------------
(***************************************************************************)
(* The chunks of parfor                                                    *)
(***************************************************************************)
\* Where a chunk starts does not wrap around: only its end may.
LEMMA StartFits ==
    ASSUME NEW from \in Nat, NEW to \in Nat, NEW size \in Nat, NEW top \in Nat,
           from < to, to < top, size > 0,
           NEW k \in 0 .. NumChunks(to - from, size) - 1
    PROVE  /\ k * size \in Nat /\ from + k * size < to
           /\ ChunkStart(from, size, k, top) = from + k * size
  <1> DEFINE n == to - from
             N == NumChunks(n, size)
  <1>1. n \in Nat /\ n > 0
    OBVIOUS
  <1>2. N \in Nat /\ size * N <= n + size - 1 /\ size * N \in Int
    <2>1. CeilDiv(n, size) \in Nat /\ size * CeilDiv(n, size) <= n + size - 1
      BY <1>1, CeilDivBounds
    <2> HIDE DEF n
    <2> QED BY <1>1, <2>1 DEF NumChunks
  <1>3. k \in Nat /\ k <= N - 1
    BY <1>2
  <1> HIDE DEF n, N
  <1>4. k * size \in Nat /\ k * size < n
    <2>1. size * (N - 1 - k) >= 0
      <3>1. N - 1 - k \in Nat
        BY <1>2, <1>3
      <3> QED BY <3>1, SMT
    <2>2. size * (N - 1 - k) = size * N - size - k * size /\ k * size \in Nat
      BY <1>2, <1>3, SMT
    <2> QED BY <1>1, <1>2, <2>1, <2>2
  <1>5. from + k * size < to /\ k * size < top
    BY <1>4 DEF n
  <1>6. (k * size) % top = k * size
    BY <1>4, <1>5, Remainder
  <1>7. (from + k * size) % top = from + k * size
    <2>1. from + k * size \in Nat /\ from + k * size < top
      BY <1>4, <1>5
    <2> QED BY <2>1, Remainder
  <1> QED BY <1>4, <1>5, <1>6, <1>7 DEF ChunkStart

\* A chunk never leaves its share of the range, even when its end wraps around.
THEOREM ChunkInShare ==
    ASSUME NEW from \in Nat, NEW to \in Nat, NEW size \in Nat, NEW top \in Nat,
           from < to, to < top, size > 0,
           NEW k \in 0 .. NumChunks(to - from, size) - 1
    PROVE  \A x \in Chunk(from, to, size, k, top) :
              from + k * size <= x /\ x < from + k * size + size /\ x < to
  <1>0. /\ k * size \in Nat /\ from + k * size < to
        /\ ChunkStart(from, size, k, top) = from + k * size
    <2>1. k * size \in Nat
      BY StartFits
    <2>2. from + k * size < to
      BY StartFits
    <2>3. ChunkStart(from, size, k, top) = from + k * size
      BY StartFits
    <2> QED BY <2>1, <2>2, <2>3
  <1> TAKE x \in Chunk(from, to, size, k, top)
  <1> DEFINE s == from + k * size
             w == size % top
             e == (s + w) % top
  <1>1. /\ s \in Nat /\ s < to /\ ChunkStart(from, size, k, top) = s
    BY <1>0
  <1>2. w \in 0 .. top - 1 /\ w <= size
    <2>1. w \in 0 .. top - 1 /\ size \div top \in Int /\ size = top * (size \div top) + w
      BY Division
    <2>2. size \div top >= 0
      <3> SUFFICES ASSUME size \div top <= -1 PROVE FALSE
        BY <2>1
      <3>1. top * (size \div top) <= -top
        BY <2>1, Times
      <3> HIDE DEF w
      <3> QED BY <2>1, <3>1
    <2>3. top * (size \div top) >= 0
      BY <2>1, <2>2, SMT
    <2> HIDE DEF w
    <2> QED BY <2>1, <2>3
  <1> HIDE DEF s, w
  <1>3. e = IF s + w < top THEN s + w ELSE s + w - top
    BY <1>1, <1>2, Remainder
  <1> HIDE DEF e
  <1>4. x \in s .. Least(e, to) - 1
    BY <1>1 DEF Chunk, ChunkEnd, e, w
  <1>5. e \in Int /\ (e <= s + size \/ e < s)
    BY <1>1, <1>2, <1>3
  <1>6. x < e /\ x < to
    BY <1>1, <1>4, <1>5 DEF Least
  <1> QED BY <1>1, <1>2, <1>3, <1>4, <1>5, <1>6 DEF s

\* If the end of the last chunk fits the index type, a chunk is its share.
THEOREM ChunkIsShare ==
    ASSUME NEW from \in Nat, NEW to \in Nat, NEW size \in Nat, NEW top \in Nat,
           from < to, to < top, size > 0, Fits(from, to, size, top),
           NEW k \in 0 .. NumChunks(to - from, size) - 1
    PROVE  Chunk(from, to, size, k, top)
             = from + k * size .. Least(from + k * size + size, to) - 1
  <1> DEFINE s == from + k * size
             N == NumChunks(to - from, size)
  <1>1. /\ s \in Nat /\ s < to /\ ChunkStart(from, size, k, top) = s
    <2>1. /\ k * size \in Nat /\ from + k * size < to
          /\ ChunkStart(from, size, k, top) = from + k * size
      BY StartFits
    <2> QED BY <2>1
  <1>2. s + size < top /\ size < top
    <2>1. N \in Nat /\ from + N * size < top
      <3>1. to - from \in Nat /\ to - from > 0
        OBVIOUS
      <3> QED BY <3>1, CeilDivBounds DEF Fits, NumChunks
    <2> HIDE DEF N
    <2>2. N - 1 - k \in Nat /\ k \in Nat
      BY <2>1 DEF N
    <2>3. (N - 1 - k) * size >= 0 /\ (N - 1 - k) * size = N * size - size - k * size
      BY <2>1, <2>2, SMT
    <2>4. N * size \in Int /\ k * size \in Int
      BY <2>1, <2>2
    <2>5. k * size \in Nat
      BY <2>2, SMT
    <2> QED BY <2>1, <2>3, <2>4, <2>5
  <1>3. size % top = size
    BY <1>2, Remainder
  <1> HIDE DEF s
  <1>4. (s + size) % top = s + size
    <2>1. s + size \in Nat /\ s + size < top
      BY <1>1, <1>2 DEF s
    <2> QED BY <2>1, Remainder
  <1> QED BY <1>1, <1>3, <1>4 DEF Chunk, ChunkEnd, s

\* No index is in two chunks, whatever wraps around.
THEOREM ChunksApart ==
    ASSUME NEW from \in Nat, NEW to \in Nat, NEW size \in Nat, NEW top \in Nat,
           from < to, to < top, size > 0,
           NEW k \in 0 .. NumChunks(to - from, size) - 1,
           NEW l \in 0 .. NumChunks(to - from, size) - 1,
           NEW x \in Chunk(from, to, size, k, top), x \in Chunk(from, to, size, l, top)
    PROVE  k = l
  <1>1. /\ from + k * size <= x /\ x < from + k * size + size
        /\ from + l * size <= x /\ x < from + l * size + size
    BY ChunkInShare
  <1>2. k * size \in Nat /\ l * size \in Nat
    BY StartFits
  <1>3. k \in Nat /\ l \in Nat
    <2> DEFINE n == to - from
    <2>1. n \in Nat /\ n > 0
      OBVIOUS
    <2>2. NumChunks(n, size) \in Nat
      <3> HIDE DEF n
      <3> QED BY <2>1, CeilDivBounds DEF NumChunks
    <2> QED BY <2>2
  <1>4. x \in Int
    BY StartFits DEF Chunk
  <1>5. /\ k * size <= x - from /\ x - from < k * size + size
        /\ l * size <= x - from /\ x - from < l * size + size
        /\ x - from \in Int
    BY <1>1, <1>2, <1>4
  <1> QED BY <1>3, <1>5, ShareUnique

\* Every index of the range is in a chunk, if the end of the last one fits.
THEOREM ChunksCover ==
    ASSUME NEW from \in Nat, NEW to \in Nat, NEW size \in Nat, NEW top \in Nat,
           from < to, to < top, size > 0, Fits(from, to, size, top),
           NEW x \in from .. to - 1
    PROVE  \E k \in 0 .. NumChunks(to - from, size) - 1 :
              x \in Chunk(from, to, size, k, top)
  <1> DEFINE N == NumChunks(to - from, size)
  <1>1. N \in Nat /\ to - from <= size * N /\ size * N \in Int
    <2> DEFINE n == to - from
    <2>1. n \in Nat /\ n > 0
      OBVIOUS
    <2>2. CeilDiv(n, size) \in Nat /\ n <= size * CeilDiv(n, size)
      <3> HIDE DEF n
      <3> QED BY <2>1, CeilDivBounds
    <2> QED BY <2>2 DEF NumChunks
  <1> HIDE DEF N
  <1>2. x - from \in Nat /\ x - from < size * N
    BY <1>1
  <1>3. PICK k \in 0 .. N - 1 : k * size <= x - from /\ x - from < k * size + size
    BY <1>1, <1>2, ShareExists
  <1>4. k * size \in Int
    BY <1>1, <1>3
  <1>5. x \in from + k * size .. Least(from + k * size + size, to) - 1
    BY <1>2, <1>3, <1>4 DEF Least
  <1>6. Chunk(from, to, size, k, top)
          = from + k * size .. Least(from + k * size + size, to) - 1
    BY <1>3, ChunkIsShare DEF N
  <1> QED BY <1>3, <1>5, <1>6 DEF N

-----------------------------------------------------------------------------
(***************************************************************************)
(* The blocks of a reduction                                               *)
(***************************************************************************)
\* Every element of the array is in one block, if the blocks are long enough.
THEOREM BlocksCoverOnce ==
    ASSUME NEW n \in Nat, NEW blocks \in Nat, NEW size \in Nat, size > 0,
           n <= size * blocks, NEW e \in 0 .. n - 1
    PROVE  /\ \E b \in 0 .. blocks - 1 : e \in Block(n, size, b)
           /\ \A b, c \in 0 .. blocks - 1 :
                 e \in Block(n, size, b) /\ e \in Block(n, size, c) => b = c
  <1>1. e \in Nat /\ e < n /\ size * blocks \in Int
    OBVIOUS
  <1>2. \A b \in 0 .. blocks - 1 :
           e \in Block(n, size, b) <=> b * size <= e /\ e < b * size + size
    <2> SUFFICES ASSUME NEW b \in 0 .. blocks - 1
                 PROVE  e \in Block(n, size, b) <=> b * size <= e /\ e < b * size + size
      OBVIOUS
    <2>1. b * size \in Int
      OBVIOUS
    <2> QED BY <1>1, <2>1 DEF Block, Least
  <1>3. \E b \in 0 .. blocks - 1 : b * size <= e /\ e < b * size + size
    <2>1. e < size * blocks
      BY <1>1
    <2> QED BY <1>1, <2>1, ShareExists
  <1>4. \A b, c \in 0 .. blocks - 1 :
           /\ b * size <= e /\ e < b * size + size
           /\ c * size <= e /\ e < c * size + size
           => b = c
    BY <1>1, ShareUnique
  <1> QED BY <1>2, <1>3, <1>4

\* Blocks of a rounded up size are long enough, and so are longer ones.
LEMMA BlocksSuffice ==
    ASSUME NEW n \in Nat, n > 0, NEW blocks \in Nat, blocks > 0,
           NEW size \in Nat, CeilDiv(n, blocks) <= size
    PROVE  size > 0 /\ n <= size * blocks
  <1> DEFINE q == CeilDiv(n, blocks)
  <1>1. q \in Nat /\ q >= 1 /\ n <= blocks * q
    BY CeilDivBounds
  <1> HIDE DEF q
  <1>2. blocks * (size - q) >= 0 /\ size - q \in Int
    <2>1. size - q \in Nat
      BY <1>1 DEF q
    <2> QED BY <2>1, SMT
  <1>3. blocks * (size - q) = size * blocks - blocks * q
    BY <1>1, SMT
  <1>4. size * blocks \in Int /\ blocks * q \in Int
    BY <1>1
  <1> QED BY <1>1, <1>2, <1>3, <1>4 DEF q

\* The two loops over a block meet within it: every element of the block is in
\* a whole vector or in the scalar rest, and in one of them only.
THEOREM VectorEndInside ==
    ASSUME NEW begin \in Nat, NEW end \in Nat, NEW lanes \in Nat, lanes > 0
    PROVE  /\ VectorEnd(begin, end, lanes) \in Nat
           /\ begin <= VectorEnd(begin, end, lanes)
           /\ begin <= end => VectorEnd(begin, end, lanes) <= end
           /\ end < begin => VectorEnd(begin, end, lanes) = begin
  <1> DEFINE m == Greatest(0, end - begin)
             q == m \div lanes
             r == m % lanes
  <1>1. m \in Nat /\ (begin <= end => m = end - begin) /\ (end < begin => m = 0)
    BY DEF Greatest
  <1>2. r \in 0 .. lanes - 1 /\ q \in Int /\ m = lanes * q + r
    <2> HIDE DEF m
    <2> QED BY <1>1, Division
  <1> HIDE DEF m, q, r
  <1>3. q * lanes = lanes * q /\ lanes * q \in Int
    BY <1>2, SMT
  <1>4. q >= 0
    <2> SUFFICES ASSUME q <= -1 PROVE FALSE
      BY <1>2
    <2> QED BY <1>1, <1>2, <1>3, Times
  <1>5. lanes * q >= 0
    BY <1>2, <1>4, SMT
  <1>6. VectorEnd(begin, end, lanes) = begin + lanes * q
    BY <1>3 DEF VectorEnd, m, q
  <1>7. end < begin => lanes * q = 0
    BY <1>1, <1>2, <1>3, <1>5
  <1> QED BY <1>1, <1>2, <1>3, <1>5, <1>6, <1>7

-----------------------------------------------------------------------------
(***************************************************************************)
(* The tasks and their frames                                              *)
(***************************************************************************)
TypeOK ==
    /\ loop \in Loops
    /\ stopped \in BOOLEAN
    /\ state \in [Coro -> {"none", "queued", "dropped", "running", "exchange",
                           "ready", "notify", "late", "continue", "final",
                           "undefined"}]
    /\ cursor \in [Tasks -> Nat]
    /\ m_ready \in [Coro -> BOOLEAN]
    /\ m_awaiter \in [Coro -> {"null", "handle", "sentinel"}]
    /\ m_data \in [Coro -> {"none", "value", "exception", "bad_function_call"}]
    /\ next \in [Coro -> BOOLEAN]
    /\ alive \in SUBSET Coro
    /\ pc \in [{inner, outer, parfor} -> {"spawn", "call", "check", "suspend",
                                          "suspended", "resume", "none"}]
    /\ at \in Tasks
    /\ count \in [Observed -> Nat]
    /\ outcome \in {"none", "value", "exception", "bad_function_call"}

\* What the promise of a coroutine says of where the coroutine is.
PromiseOK ==
    \A c \in Coro :
        /\ state[c] \in {"none", "queued", "dropped", "running"} => m_data[c] = "none"
        /\ Done(c) => m_data[c] # "none"
        /\ m_awaiter[c] = "sentinel" => state[c] \in Published \union {"ready", "undefined"}
        /\ state[c] \in Published \union {"ready"} => m_awaiter[c] = "sentinel"
        /\ m_ready[c] => state[c] \in Published
        /\ state[c] = "late" => m_ready[c] /\ ~next[c]
        /\ state[c] = "notify" => m_ready[c]
        /\ c \in Tasks => m_data[c] # "bad_function_call"
        /\ c \in alive => state[c] \notin {"none", "late", "undefined"}

\* The loop is started from the inside to the outside and ends in that order; what
\* a coroutine awaits or is to await has a frame.
StageOK ==
    /\ pc[parfor] = "spawn" =>
          /\ pc[inner] = "none" /\ pc[outer] = "none"
          /\ state[inner] = "none" /\ state[outer] = "none"
          /\ \A k \in Tasks : state[k] # "none" => k \in alive
    /\ pc[inner] # "none" =>
          /\ state[inner] = "running" /\ pc[outer] # "none"
          /\ \A k \in Tasks : at <= k => k \in alive
    /\ pc[outer] # "none" =>
          /\ state[outer] = "running" /\ pc[parfor] \notin {"none", "spawn"}
          /\ inner \in alive
    /\ pc[parfor] \notin {"none", "spawn"} => outer \in alive
    /\ outcome # "none" <=> pc[parfor] = "none"

\* A promise whose coroutine goes on, or will go on, with the awaiter.
Handed(c) == m_awaiter[c] = "handle" \/ (next[c] /\ state[c] \in {"ready", "notify", "continue"})

\* The handle in a promise is that of a coroutine suspended on it, and whoever
\* has been let through has something to read.
AwaitOK ==
    /\ \A k \in Tasks : Handed(k) => k = at /\ pc[inner] = "suspended"
    /\ Handed(inner) => pc[outer] = "suspended"
    /\ Handed(outer) => pc[parfor] = "suspended"
    /\ pc[inner] = "resume" => Done(at)
    /\ pc[outer] = "resume" => Done(inner)
    /\ pc[parfor] = "resume" => Done(outer)

\* A result is handed on from task to task, if the promise was ready in time.
ResultOK ==
    /\ \A k \in Tasks : k < at => m_ready[k] /\ m_data[k] = "value"
    /\ m_data[inner] \notin {"none", "bad_function_call"} =>
          /\ m_ready[at] /\ m_data[inner] = m_data[at]
          /\ m_data[inner] = "value" => \A k \in Tasks : k <= at
    /\ m_data[outer] \notin {"none", "bad_function_call"} =>
          m_ready[inner] /\ m_data[outer] = m_data[inner]
    /\ outcome \notin {"none", "bad_function_call"} =>
          m_ready[outer] /\ outcome = m_data[outer]

\* Which frames are destroyed.
FramesOK ==
    \A c \in Coro \ {parfor} :
        state[c] # "none" /\ c \notin alive =>
            \/ m_ready[c]
            \/ c \in Tasks /\ outcome # "none"
            \/ c = outer /\ outcome = "bad_function_call"
            \/ c = inner /\ m_data[outer] = "bad_function_call"
            \/ c = at /\ m_data[inner] = "bad_function_call"

\* The indices chunk k has called the function object for.
Worked(k) == chunkStart(k) .. cursor[k] - 1

\* An index of the loop that has been worked on.
Visited(i) == \E k \in Tasks : i \in Worked(k)

\* The cursor of a chunk stays within it, and an element counts once if the
\* index that uses it has been visited.
CursorOK ==
    \A k \in Tasks :
        /\ Worked(k) \subseteq Chunk(loop.from, loop.to, chunk_size, k, loop.top)
        /\ state[k] \in {"none", "queued"} => Worked(k) = {}
        /\ state[k] = "running" => cursor[k] >= chunkStart(k)
        /\ m_data[k] = "value" => cursor[k] >= chunkEnd(k)

CountOK ==
    \A e \in Observed :
        count[e] = IF \E i \in loop.from .. loop.to - 1 : Visited(i) /\ Uses(i, e) = 1
                      THEN 1 ELSE 0

IInv == TypeOK /\ PromiseOK /\ StageOK /\ AwaitOK /\ ResultOK /\ FramesOK /\ CursorOK /\ CountOK

-----------------------------------------------------------------------------
(***************************************************************************)
(* The loop and the coroutines                                             *)
(***************************************************************************)
\* The numbers of a loop, and what they are divided by.
LEMMA LoopNumbers ==
    ASSUME loop \in Loops
    PROVE  /\ loop.from \in Nat /\ loop.to \in Nat /\ loop.top \in Nat
           /\ loop.n \in Nat /\ loop.lanes \in Nat /\ loop.lanes > 0
           /\ loop.static \in Int /\ loop.threads \in Nat /\ loop.threads > 0
           /\ loop.from < loop.to /\ loop.to < loop.top
           /\ chunk_size \in Nat /\ chunk_size > 0
  <1>1. loop \in Loop /\ Legal(loop)
    BY LoopsAssumption
  <1>2. /\ loop.from \in Nat /\ loop.to \in Nat /\ loop.top \in Nat
        /\ loop.n \in Nat /\ loop.lanes \in Nat /\ loop.lanes > 0
        /\ loop.static \in Int /\ loop.threads \in Nat /\ loop.threads > 0
    BY <1>1 DEF Loop
  <1>3. loop.from < loop.to /\ loop.to < loop.top /\ loop.static # 0
    BY <1>1 DEF Legal
  <1>4. chunk_size \in Nat /\ chunk_size > 0
    <2> DEFINE n == loop.to - loop.from
               q == n \div loop.threads
    <2>1. n \in Nat
      BY <1>2, <1>3
    <2>2. q \in Int
      <3> HIDE DEF n
      <3> QED BY <1>2, <2>1, Division
    <2>3. chunk_size = IF loop.static < 0 THEN Greatest(1, q) ELSE loop.static
      BY DEF chunk_size, ChunkSize
    <2> HIDE DEF q
    <2> QED BY <1>2, <1>3, <2>2, <2>3 DEF Greatest
  <1> QED BY <1>2, <1>3, <1>4

LEMMA SomeChunks == ASSUME loop \in Loops PROVE numChunks \in Nat /\ numChunks >= 1
  <1> DEFINE n == loop.to - loop.from
  <1>1. n \in Nat /\ n > 0 /\ chunk_size \in Nat /\ chunk_size > 0
    BY LoopNumbers
  <1>2. numChunks = CeilDiv(n, chunk_size)
    BY DEF numChunks, NumChunks
  <1> HIDE DEF n
  <1> QED BY <1>1, <1>2, CeilDivBounds

\* The coroutines, and who awaits whom.
LEMMA Names ==
    ASSUME loop \in Loops
    PROVE  /\ Coro = Tasks \union {inner, outer, parfor}
           /\ inner .. parfor = {inner, outer, parfor}
           /\ 0 .. outer = Coro \ {parfor}
           /\ inner \notin Tasks /\ outer \notin Tasks /\ parfor \notin Tasks
           /\ inner # outer /\ inner # parfor /\ outer # parfor
           /\ Tasks \subseteq Nat /\ 0 \in Tasks
           /\ \A k \in Tasks : Awaiter(k) = inner
           /\ Awaiter(inner) = outer /\ Awaiter(outer) = parfor
           /\ Awaited(inner) = at /\ Awaited(outer) = inner /\ Awaited(parfor) = outer
  <1>1. numChunks \in Nat /\ numChunks >= 1
    BY SomeChunks
  <1> QED BY <1>1 DEF Coro, Tasks, inner, outer, parfor, Awaiter, Awaited

\* Nothing about the loop changes.
LEMMA LoopStays ==
    ASSUME loop' = loop
    PROVE  /\ chunk_size' = chunk_size /\ numChunks' = numChunks
           /\ Coro' = Coro /\ Tasks' = Tasks
           /\ inner' = inner /\ outer' = outer /\ parfor' = parfor
           /\ Observed' = Observed /\ Elements' = Elements
  BY DEF chunk_size, numChunks, Coro, Tasks, inner, outer, parfor, Observed, Elements

LEMMA LoopConstant == Next => loop' = loop
  BY DEF Next, Launch, Run, WhenAll, Shutdown, Start, Iterate, Ending, Exchange, StoreReady, Notify,
         Continue, Dangle, Awaiting, Check, Suspend, Resuming, ResumeInner, ResumeOuter,
         ResumeParfor

\* The ends of a chunk are indices.
LEMMA ChunkBounds ==
    ASSUME loop \in Loops, NEW k \in Tasks
    PROVE  /\ chunkStart(k) \in Nat /\ chunkStart(k) < loop.to
           /\ chunkEnd(k) \in Nat /\ chunkEnd(k) <= loop.to
  <1> DEFINE size == chunk_size
             w == size % loop.top
             e == (chunkStart(k) + w) % loop.top
  <1>1. /\ loop.from \in Nat /\ loop.to \in Nat /\ loop.top \in Nat
        /\ loop.from < loop.to /\ loop.to < loop.top /\ size \in Nat /\ size > 0
    BY LoopNumbers
  <1>2. k \in 0 .. NumChunks(loop.to - loop.from, size) - 1
    BY DEF Tasks, numChunks
  <1>3. chunkEnd(k) = Least(e, loop.to)
    BY DEF chunkEnd, ChunkEnd, chunkStart
  <1>4. /\ k * size \in Nat /\ loop.from + k * size < loop.to
        /\ chunkStart(k) = loop.from + k * size
    <2> DEFINE from == loop.from
               to == loop.to
               top == loop.top
    <2>1. /\ from \in Nat /\ to \in Nat /\ top \in Nat /\ from < to /\ to < top
          /\ size \in Nat /\ size > 0 /\ k \in 0 .. NumChunks(to - from, size) - 1
      BY <1>1, <1>2
    <2> HIDE DEF size, from, to, top
    <2>2. ChunkStart(from, size, k, top) = from + k * size
      BY <2>1, StartFits
    <2>3. k * size \in Nat
      BY <2>1, StartFits
    <2>4. from + k * size < to
      BY <2>1, StartFits
    <2> QED BY <2>2, <2>3, <2>4 DEF chunkStart, size, from, to, top
  <1>5. chunkStart(k) \in Nat /\ chunkStart(k) < loop.to
    BY <1>1, <1>4
  <1> HIDE DEF size
  <1>6. w \in 0 .. loop.top - 1
    BY <1>1, Division
  <1> HIDE DEF w
  <1>7. e \in 0 .. loop.top - 1
    <2>1. chunkStart(k) + w \in Nat
      BY <1>5, <1>6
    <2> QED BY <1>1, <2>1, Division
  <1> HIDE DEF e
  <1> QED BY <1>1, <1>3, <1>5, <1>7 DEF Least

LEMMA UsesNat == \A i, e : Uses(i, e) \in Nat
  BY DEF Uses

LEMMA RunStep ==
    ASSUME IInv, NEW k \in Tasks, Run(k)
    PROVE  TypeOK' /\ PromiseOK' /\ StageOK' /\ AwaitOK' /\ ResultOK' /\ FramesOK'
  <1> USE DEF promise, Done, Published, Finish, Result, Handed
  <1>0. /\ loop \in Loops /\ loop' = loop
        /\ TypeOK /\ PromiseOK /\ StageOK /\ AwaitOK /\ ResultOK /\ FramesOK
    BY DEF IInv, TypeOK, Run
  <1>a. /\ Coro' = Coro /\ Tasks' = Tasks /\ Observed' = Observed
        /\ inner' = inner /\ outer' = outer /\ parfor' = parfor
    BY <1>0, LoopStays
  <1>1. TypeOK'
    <2>1. CASE UNCHANGED promise
      BY <1>0, <1>a, <2>1, Names DEF TypeOK, Run
    <2>2. CASE ~UNCHANGED promise
      <3>1. /\ state' = [state EXCEPT ![k] = "final"]
            /\ m_awaiter' = [m_awaiter EXCEPT ![k] = "sentinel"]
            /\ m_ready' = [m_ready EXCEPT ![k] = TRUE]
            /\ m_data' = [m_data EXCEPT ![k] = "exception"]
            /\ alive' = alive \union {k}
            /\ UNCHANGED <<next, loop, stopped, cursor, pc, at, count, outcome>>
        BY <2>2 DEF Run
      <3> QED BY <1>0, <1>a, <3>1, Names DEF TypeOK
    <2> QED BY <2>1, <2>2
  <1>2. PromiseOK'
    BY <1>0, <1>a, Names DEF TypeOK, PromiseOK, Run
  <1>3. StageOK'
    BY <1>0, <1>a, Names DEF TypeOK, StageOK, Run
  <1>4. AwaitOK'
    BY <1>0, <1>a, Names DEF TypeOK, AwaitOK, Run
  <1>5. ResultOK'
    BY <1>0, <1>a, Names DEF TypeOK, ResultOK, PromiseOK, Run
  <1>6. FramesOK'
    BY <1>0, <1>a, Names DEF TypeOK, FramesOK, Run
  <1> QED BY <1>1, <1>2, <1>3, <1>4, <1>5, <1>6

LEMMA WhenAllStep ==
    ASSUME IInv, WhenAll
    PROVE  TypeOK' /\ PromiseOK' /\ StageOK' /\ AwaitOK' /\ ResultOK' /\ FramesOK'
  <1> USE DEF promise, Done, Published, Finish, Result, Handed
  <1>0. /\ loop \in Loops /\ loop' = loop
        /\ TypeOK /\ PromiseOK /\ StageOK /\ AwaitOK /\ ResultOK /\ FramesOK
    BY DEF IInv, TypeOK, WhenAll
  <1>a. /\ Coro' = Coro /\ Tasks' = Tasks /\ Observed' = Observed
        /\ inner' = inner /\ outer' = outer /\ parfor' = parfor
    BY <1>0, LoopStays
  <1>1. TypeOK'
    BY <1>0, <1>a, Names DEF TypeOK, WhenAll
  <1>2. PromiseOK'
    BY <1>0, <1>a, Names DEF TypeOK, PromiseOK, StageOK, WhenAll
  <1>3. StageOK'
    BY <1>0, <1>a, Names DEF TypeOK, StageOK, WhenAll
  <1>4. AwaitOK'
    BY <1>0, <1>a, Names DEF TypeOK, AwaitOK, StageOK, PromiseOK, WhenAll
  <1>5. ResultOK'
    BY <1>0, <1>a, Names DEF TypeOK, ResultOK, WhenAll
  <1>6. FramesOK'
    BY <1>0, <1>a, Names DEF TypeOK, FramesOK, WhenAll
  <1> QED BY <1>1, <1>2, <1>3, <1>4, <1>5, <1>6

LEMMA ShutdownStep ==
    ASSUME IInv, Shutdown
    PROVE  TypeOK' /\ PromiseOK' /\ StageOK' /\ AwaitOK' /\ ResultOK' /\ FramesOK'
  <1> USE DEF promise, Done, Published, Finish, Result, Handed
  <1>0. /\ loop \in Loops /\ loop' = loop
        /\ TypeOK /\ PromiseOK /\ StageOK /\ AwaitOK /\ ResultOK /\ FramesOK
    BY DEF IInv, TypeOK, Shutdown
  <1>a. /\ Coro' = Coro /\ Tasks' = Tasks /\ Observed' = Observed
        /\ inner' = inner /\ outer' = outer /\ parfor' = parfor
    BY <1>0, LoopStays
  <1>1. TypeOK'
    BY <1>0, <1>a, Names DEF TypeOK, Shutdown
  <1>2. PromiseOK'
    BY <1>0, <1>a, Names DEF TypeOK, PromiseOK, Shutdown
  <1>3. StageOK'
    BY <1>0, <1>a, Names DEF TypeOK, StageOK, Shutdown
  <1>4. AwaitOK'
    BY <1>0, <1>a, Names DEF TypeOK, AwaitOK, Shutdown
  <1>5. ResultOK'
    BY <1>0, <1>a, Names DEF TypeOK, ResultOK, Shutdown
  <1>6. FramesOK'
    BY <1>0, <1>a, Names DEF TypeOK, FramesOK, Shutdown
  <1> QED BY <1>1, <1>2, <1>3, <1>4, <1>5, <1>6

LEMMA StartStep ==
    ASSUME IInv, NEW k \in Tasks, Start(k)
    PROVE  TypeOK' /\ PromiseOK' /\ StageOK' /\ AwaitOK' /\ ResultOK' /\ FramesOK'
  <1> USE DEF promise, Done, Published, Finish, Result, Handed
  <1>0. /\ loop \in Loops /\ loop' = loop
        /\ TypeOK /\ PromiseOK /\ StageOK /\ AwaitOK /\ ResultOK /\ FramesOK
    BY DEF IInv, TypeOK, Start
  <1>a. /\ Coro' = Coro /\ Tasks' = Tasks /\ Observed' = Observed
        /\ inner' = inner /\ outer' = outer /\ parfor' = parfor
    BY <1>0, LoopStays
  <1>1. TypeOK'
    BY <1>0, <1>a, Names, ChunkBounds DEF TypeOK, Start
  <1>2. PromiseOK'
    BY <1>0, <1>a, Names DEF TypeOK, PromiseOK, Start
  <1>3. StageOK'
    BY <1>0, <1>a, Names DEF TypeOK, StageOK, Start
  <1>4. AwaitOK'
    BY <1>0, <1>a, Names DEF TypeOK, AwaitOK, Start
  <1>5. ResultOK'
    BY <1>0, <1>a, Names DEF TypeOK, ResultOK, Start
  <1>6. FramesOK'
    BY <1>0, <1>a, Names DEF TypeOK, FramesOK, Start
  <1> QED BY <1>1, <1>2, <1>3, <1>4, <1>5, <1>6

LEMMA IterateStep ==
    ASSUME IInv, NEW k \in Tasks, Iterate(k)
    PROVE  TypeOK' /\ PromiseOK' /\ StageOK' /\ AwaitOK' /\ ResultOK' /\ FramesOK'
  <1> USE DEF promise, Done, Published, Finish, Result, Handed
  <1>0. /\ loop \in Loops /\ loop' = loop
        /\ TypeOK /\ PromiseOK /\ StageOK /\ AwaitOK /\ ResultOK /\ FramesOK
    BY DEF IInv, TypeOK, Iterate
  <1>a. /\ Coro' = Coro /\ Tasks' = Tasks /\ Observed' = Observed
        /\ inner' = inner /\ outer' = outer /\ parfor' = parfor
    BY <1>0, LoopStays
  <1>1. TypeOK'
    BY <1>0, <1>a, Names, UsesNat DEF TypeOK, Iterate
  <1>2. PromiseOK'
    BY <1>0, <1>a, Names DEF TypeOK, PromiseOK, Iterate
  <1>3. StageOK'
    BY <1>0, <1>a, Names DEF TypeOK, StageOK, Iterate
  <1>4. AwaitOK'
    BY <1>0, <1>a, Names DEF TypeOK, AwaitOK, Iterate
  <1>5. ResultOK'
    BY <1>0, <1>a, Names DEF TypeOK, ResultOK, PromiseOK, Iterate
  <1>6. FramesOK'
    BY <1>0, <1>a, Names DEF TypeOK, FramesOK, Iterate
  <1> QED BY <1>1, <1>2, <1>3, <1>4, <1>5, <1>6

LEMMA ExchangeStep ==
    ASSUME IInv, NEW c \in Coro \ {parfor}, Exchange(c)
    PROVE  TypeOK' /\ PromiseOK' /\ StageOK' /\ AwaitOK' /\ ResultOK' /\ FramesOK'
  <1> USE DEF promise, Done, Published, Finish, Result, Handed
  <1>0. /\ loop \in Loops /\ loop' = loop
        /\ TypeOK /\ PromiseOK /\ StageOK /\ AwaitOK /\ ResultOK /\ FramesOK
    BY DEF IInv, TypeOK, Exchange
  <1>a. /\ Coro' = Coro /\ Tasks' = Tasks /\ Observed' = Observed
        /\ inner' = inner /\ outer' = outer /\ parfor' = parfor
    BY <1>0, LoopStays
  <1>1. TypeOK'
    BY <1>0, <1>a, Names DEF TypeOK, Exchange
  <1>2. PromiseOK'
    BY <1>0, <1>a, Names DEF TypeOK, PromiseOK, Exchange
  <1>3. StageOK'
    BY <1>0, <1>a, Names DEF TypeOK, StageOK, Exchange
  <1>4. AwaitOK'
    <2>1. \A k \in Tasks : Handed(k)' => k = at' /\ pc'[inner] = "suspended"
      BY <1>0, <1>a, Names, ZenonT(40) DEF TypeOK, AwaitOK, Exchange
    <2>2. /\ Handed(inner)' => pc'[outer] = "suspended"
          /\ Handed(outer)' => pc'[parfor] = "suspended"
      BY <1>0, <1>a, Names DEF TypeOK, AwaitOK, Exchange
    <2>3. /\ pc'[inner] = "resume" => Done(at)'
          /\ pc'[outer] = "resume" => Done(inner)'
          /\ pc'[parfor] = "resume" => Done(outer)'
      BY <1>0, <1>a, Names DEF TypeOK, AwaitOK, Exchange
    <2> QED BY <1>a, <2>1, <2>2, <2>3 DEF AwaitOK
  <1>5. ResultOK'
    BY <1>0, <1>a, Names DEF TypeOK, ResultOK, Exchange
  <1>6. FramesOK'
    BY <1>0, <1>a, Names DEF TypeOK, FramesOK, Exchange
  <1> QED BY <1>1, <1>2, <1>3, <1>4, <1>5, <1>6

LEMMA StoreReadyStep ==
    ASSUME IInv, NEW c \in Coro \ {parfor}, StoreReady(c)
    PROVE  TypeOK' /\ PromiseOK' /\ StageOK' /\ AwaitOK' /\ ResultOK' /\ FramesOK'
  <1> USE DEF promise, Done, Published, Finish, Result, Handed
  <1>0. /\ loop \in Loops /\ loop' = loop
        /\ TypeOK /\ PromiseOK /\ StageOK /\ AwaitOK /\ ResultOK /\ FramesOK
    BY DEF IInv, TypeOK, StoreReady
  <1>a. /\ Coro' = Coro /\ Tasks' = Tasks /\ Observed' = Observed
        /\ inner' = inner /\ outer' = outer /\ parfor' = parfor
    BY <1>0, LoopStays
  <1>1. TypeOK'
    BY <1>0, <1>a, Names DEF TypeOK, StoreReady
  <1>2. PromiseOK'
    BY <1>0, <1>a, Names DEF TypeOK, PromiseOK, StoreReady
  <1>3. StageOK'
    BY <1>0, <1>a, Names DEF TypeOK, StageOK, StoreReady
  <1>4. AwaitOK'
    BY <1>0, <1>a, Names DEF TypeOK, AwaitOK, StoreReady
  <1>5. ResultOK'
    BY <1>0, <1>a, Names DEF TypeOK, ResultOK, StoreReady
  <1>6. FramesOK'
    BY <1>0, <1>a, Names DEF TypeOK, FramesOK, StoreReady
  <1> QED BY <1>1, <1>2, <1>3, <1>4, <1>5, <1>6

LEMMA NotifyStep ==
    ASSUME IInv, NEW c \in Coro \ {parfor}, Notify(c)
    PROVE  TypeOK' /\ PromiseOK' /\ StageOK' /\ AwaitOK' /\ ResultOK' /\ FramesOK'
  <1> USE DEF promise, Done, Published, Finish, Result, Handed
  <1>0. /\ loop \in Loops /\ loop' = loop
        /\ TypeOK /\ PromiseOK /\ StageOK /\ AwaitOK /\ ResultOK /\ FramesOK
    BY DEF IInv, TypeOK, Notify
  <1>a. /\ Coro' = Coro /\ Tasks' = Tasks /\ Observed' = Observed
        /\ inner' = inner /\ outer' = outer /\ parfor' = parfor
    BY <1>0, LoopStays
  <1>1. TypeOK'
    BY <1>0, <1>a, Names DEF TypeOK, Notify
  <1>2. PromiseOK'
    BY <1>0, <1>a, Names DEF TypeOK, PromiseOK, Notify
  <1>3. StageOK'
    BY <1>0, <1>a, Names DEF TypeOK, StageOK, Notify
  <1>4. AwaitOK'
    BY <1>0, <1>a, Names DEF TypeOK, AwaitOK, Notify
  <1>5. ResultOK'
    BY <1>0, <1>a, Names DEF TypeOK, ResultOK, Notify
  <1>6. FramesOK'
    BY <1>0, <1>a, Names DEF TypeOK, FramesOK, Notify
  <1> QED BY <1>1, <1>2, <1>3, <1>4, <1>5, <1>6

LEMMA ContinueStep ==
    ASSUME IInv, NEW c \in Coro \ {parfor}, Continue(c)
    PROVE  TypeOK' /\ PromiseOK' /\ StageOK' /\ AwaitOK' /\ ResultOK' /\ FramesOK'
  <1> USE DEF promise, Done, Published, Finish, Result, Handed
  <1>0. /\ loop \in Loops /\ loop' = loop
        /\ TypeOK /\ PromiseOK /\ StageOK /\ AwaitOK /\ ResultOK /\ FramesOK
    BY DEF IInv, TypeOK, Continue
  <1>a. /\ Coro' = Coro /\ Tasks' = Tasks /\ Observed' = Observed
        /\ inner' = inner /\ outer' = outer /\ parfor' = parfor
    BY <1>0, LoopStays
  <1>1. TypeOK'
    BY <1>0, <1>a, Names DEF TypeOK, Continue
  <1>2. PromiseOK'
    BY <1>0, <1>a, Names DEF TypeOK, PromiseOK, Continue
  <1>3. StageOK'
    <2>1. /\ state' = [state EXCEPT ![c] = "final"]
          /\ pc' = [pc EXCEPT ![Awaiter(c)] =
                      IF next[c] THEN "resume"
                      ELSE IF c \notin Tasks /\ @ = "call" THEN "check" ELSE @]
          /\ UNCHANGED <<at, alive, promise, outcome>> /\ state[c] = "continue"
      BY DEF Continue
    <2>2. CASE c \in Tasks
      BY <1>0, <1>a, <2>1, <2>2, Names DEF TypeOK, PromiseOK, StageOK, AwaitOK
    <2>3. CASE c = inner
      BY <1>0, <1>a, <2>1, <2>3, Names DEF TypeOK, PromiseOK, StageOK, AwaitOK
    <2>4. CASE c = outer
      BY <1>0, <1>a, <2>1, <2>4, Names DEF TypeOK, PromiseOK, StageOK, AwaitOK
    <2> QED BY <1>0, <2>2, <2>3, <2>4, Names
  <1>4. AwaitOK'
    <2>1. /\ state' = [state EXCEPT ![c] = "final"]
          /\ pc' = [pc EXCEPT ![Awaiter(c)] =
                      IF next[c] THEN "resume"
                      ELSE IF c \notin Tasks /\ @ = "call" THEN "check" ELSE @]
          /\ UNCHANGED <<at, alive, promise, outcome>> /\ state[c] = "continue"
      BY DEF Continue
    <2>2. CASE c \in Tasks
      BY <1>0, <1>a, <2>1, <2>2, Names DEF TypeOK, PromiseOK, StageOK, AwaitOK
    <2>3. CASE c = inner
      BY <1>0, <1>a, <2>1, <2>3, Names DEF TypeOK, PromiseOK, StageOK, AwaitOK
    <2>4. CASE c = outer
      BY <1>0, <1>a, <2>1, <2>4, Names DEF TypeOK, PromiseOK, StageOK, AwaitOK
    <2> QED BY <1>0, <2>2, <2>3, <2>4, Names
  <1>5. ResultOK'
    BY <1>0, <1>a, Names DEF TypeOK, ResultOK, Continue
  <1>6. FramesOK'
    BY <1>0, <1>a, Names DEF TypeOK, FramesOK, Continue
  <1> QED BY <1>1, <1>2, <1>3, <1>4, <1>5, <1>6

LEMMA DangleStep ==
    ASSUME IInv, NEW c \in Coro \ {parfor}, Dangle(c)
    PROVE  TypeOK' /\ PromiseOK' /\ StageOK' /\ AwaitOK' /\ ResultOK' /\ FramesOK'
  <1> USE DEF promise, Done, Published, Finish, Result, Handed
  <1>0. /\ loop \in Loops /\ loop' = loop
        /\ TypeOK /\ PromiseOK /\ StageOK /\ AwaitOK /\ ResultOK /\ FramesOK
    BY DEF IInv, TypeOK, Dangle
  <1>a. /\ Coro' = Coro /\ Tasks' = Tasks /\ Observed' = Observed
        /\ inner' = inner /\ outer' = outer /\ parfor' = parfor
    BY <1>0, LoopStays
  <1>1. TypeOK'
    BY <1>0, <1>a, Names DEF TypeOK, Dangle
  <1>2. PromiseOK'
    <2>1. Handed(c) => c \in alive
      BY <1>0, Names DEF TypeOK, StageOK, AwaitOK
    <2> QED BY <1>0, <1>a, <2>1, Names DEF TypeOK, PromiseOK, Dangle
  <1>3. StageOK'
    BY <1>0, <1>a, Names DEF TypeOK, StageOK, Dangle
  <1>4. AwaitOK'
    BY <1>0, <1>a, Names DEF TypeOK, AwaitOK, StageOK, PromiseOK, Dangle
  <1>5. ResultOK'
    BY <1>0, <1>a, Names DEF TypeOK, ResultOK, Dangle
  <1>6. FramesOK'
    BY <1>0, <1>a, Names DEF TypeOK, FramesOK, Dangle
  <1> QED BY <1>1, <1>2, <1>3, <1>4, <1>5, <1>6

LEMMA CheckStep ==
    ASSUME IInv, NEW j \in {inner, outer, parfor}, Check(j)
    PROVE  TypeOK' /\ PromiseOK' /\ StageOK' /\ AwaitOK' /\ ResultOK' /\ FramesOK'
  <1> USE DEF promise, Done, Published, Finish, Result, Handed
  <1>0. /\ loop \in Loops /\ loop' = loop
        /\ TypeOK /\ PromiseOK /\ StageOK /\ AwaitOK /\ ResultOK /\ FramesOK
    BY DEF IInv, TypeOK, Check
  <1>a. /\ Coro' = Coro /\ Tasks' = Tasks /\ Observed' = Observed
        /\ inner' = inner /\ outer' = outer /\ parfor' = parfor
    BY <1>0, LoopStays
  <1>1. TypeOK'
    BY <1>0, <1>a, Names DEF TypeOK, Check
  <1>2. PromiseOK'
    BY <1>0, <1>a, Names DEF TypeOK, PromiseOK, Check
  <1>3. StageOK'
    BY <1>0, <1>a, Names DEF TypeOK, StageOK, Check
  <1>4. AwaitOK'
    <2>1. /\ pc[j] = "check"
          /\ \/ pc' = [pc EXCEPT ![j] = "resume"] /\ (Done(Awaited(j)) \/ m_ready[Awaited(j)])
             \/ pc' = [pc EXCEPT ![j] = "suspend"]
          /\ UNCHANGED <<state, at, alive, promise>>
      BY DEF Check
    <2>2. CASE j = inner
      BY <1>0, <1>a, <2>1, <2>2, Names DEF TypeOK, PromiseOK, StageOK, AwaitOK
    <2>3. CASE j = outer
      BY <1>0, <1>a, <2>1, <2>3, Names DEF TypeOK, PromiseOK, StageOK, AwaitOK
    <2>4. CASE j = parfor
      BY <1>0, <1>a, <2>1, <2>4, Names DEF TypeOK, PromiseOK, StageOK, AwaitOK
    <2> QED BY <2>2, <2>3, <2>4
  <1>5. ResultOK'
    BY <1>0, <1>a, Names DEF TypeOK, ResultOK, Check
  <1>6. FramesOK'
    BY <1>0, <1>a, Names DEF TypeOK, FramesOK, Check
  <1> QED BY <1>1, <1>2, <1>3, <1>4, <1>5, <1>6

LEMMA SuspendStep ==
    ASSUME IInv, NEW j \in {inner, outer, parfor}, Suspend(j)
    PROVE  TypeOK' /\ PromiseOK' /\ StageOK' /\ AwaitOK' /\ ResultOK' /\ FramesOK'
  <1> USE DEF promise, Done, Published, Finish, Result, Handed
  <1>0. /\ loop \in Loops /\ loop' = loop
        /\ TypeOK /\ PromiseOK /\ StageOK /\ AwaitOK /\ ResultOK /\ FramesOK
    BY DEF IInv, TypeOK, Suspend
  <1>a. /\ Coro' = Coro /\ Tasks' = Tasks /\ Observed' = Observed
        /\ inner' = inner /\ outer' = outer /\ parfor' = parfor
    BY <1>0, LoopStays
  <1>1. TypeOK'
    <2>1. /\ pc[j] = "suspend"
          /\ \/ /\ m_awaiter' = [m_awaiter EXCEPT ![Awaited(j)] = "handle"]
                /\ m_awaiter[Awaited(j)] = "null"
                /\ pc' = [i \in {inner, outer, parfor} |->
                            IF i = j THEN "suspended"
                            ELSE IF i = j + 1 /\ pc[i] = "call" THEN "check" ELSE pc[i]]
             \/ /\ pc' = [pc EXCEPT ![j] = "resume"]
                /\ m_awaiter[Awaited(j)] = "sentinel"
                /\ UNCHANGED m_awaiter
          /\ UNCHANGED <<loop, stopped, state, cursor, m_ready, m_data, next, alive, at, count, outcome>>
      BY <1>0, Names DEF Suspend
    <2>2. CASE j = inner
      BY <1>0, <1>a, <2>1, <2>2, Names DEF TypeOK
    <2>3. CASE j = outer
      BY <1>0, <1>a, <2>1, <2>3, Names DEF TypeOK
    <2>4. CASE j = parfor
      BY <1>0, <1>a, <2>1, <2>4, Names DEF TypeOK
    <2> QED BY <2>2, <2>3, <2>4
  <1>2. PromiseOK'
    BY <1>0, <1>a, Names DEF TypeOK, PromiseOK, Suspend
  <1>3. StageOK'
    BY <1>0, <1>a, Names DEF TypeOK, StageOK, Suspend
  <1>4. AwaitOK'
    <2>1. /\ pc[j] = "suspend"
          /\ \/ /\ m_awaiter' = [m_awaiter EXCEPT ![Awaited(j)] = "handle"]
                /\ m_awaiter[Awaited(j)] = "null"
                /\ pc' = [i \in {inner, outer, parfor} |->
                            IF i = j THEN "suspended"
                            ELSE IF i = j + 1 /\ pc[i] = "call" THEN "check" ELSE pc[i]]
             \/ /\ pc' = [pc EXCEPT ![j] = "resume"]
                /\ m_awaiter[Awaited(j)] = "sentinel"
                /\ UNCHANGED m_awaiter
          /\ UNCHANGED <<loop, stopped, state, cursor, m_ready, m_data, next, alive, at, count, outcome>>
      BY <1>0, Names DEF Suspend
    <2>2. CASE j = inner
      BY <1>0, <1>a, <2>1, <2>2, Names DEF TypeOK, PromiseOK, StageOK, AwaitOK
    <2>3. CASE j = outer
      BY <1>0, <1>a, <2>1, <2>3, Names DEF TypeOK, PromiseOK, StageOK, AwaitOK
    <2>4. CASE j = parfor
      BY <1>0, <1>a, <2>1, <2>4, Names DEF TypeOK, PromiseOK, StageOK, AwaitOK
    <2> QED BY <2>2, <2>3, <2>4
  <1>5. ResultOK'
    BY <1>0, <1>a, Names DEF TypeOK, ResultOK, Suspend
  <1>6. FramesOK'
    BY <1>0, <1>a, Names DEF TypeOK, FramesOK, Suspend
  <1> QED BY <1>1, <1>2, <1>3, <1>4, <1>5, <1>6

LEMMA ResumeInnerStep ==
    ASSUME IInv, ResumeInner
    PROVE  TypeOK' /\ PromiseOK' /\ StageOK' /\ AwaitOK' /\ ResultOK' /\ FramesOK'
  <1> USE DEF promise, Done, Published, Finish, Result, Handed
  <1>0. /\ loop \in Loops /\ loop' = loop
        /\ TypeOK /\ PromiseOK /\ StageOK /\ AwaitOK /\ ResultOK /\ FramesOK
    BY DEF IInv, TypeOK, ResumeInner
  <1>a. /\ Coro' = Coro /\ Tasks' = Tasks /\ Observed' = Observed
        /\ inner' = inner /\ outer' = outer /\ parfor' = parfor
    BY <1>0, LoopStays
  <1>b. /\ pc[inner] = "resume" /\ m_data[at] # "none" /\ state[inner] = "running"
        /\ m_data[inner] = "none" /\ ~m_ready[inner] /\ pc[outer] # "none" /\ at \in Coro
        /\ pc[parfor] \notin {"none", "spawn"} /\ outcome = "none" /\ outer \in alive /\ inner \in alive
    BY <1>0, Names DEF TypeOK, PromiseOK, StageOK, AwaitOK, ResumeInner
  <1>1. TypeOK'
    <2>0. /\ at \in Nat /\ numChunks \in Nat /\ numChunks >= 1
          /\ \A k : k \in Tasks <=> k \in Nat /\ k <= numChunks - 1
      BY <1>0, SomeChunks DEF TypeOK, Tasks
    <2>1. CASE Result(at) = "value" /\ at < numChunks - 1
      <3>1. /\ at' = at + 1 /\ pc' = [pc EXCEPT ![inner] = "check"]
            /\ UNCHANGED <<loop, stopped, cursor, state, m_data, m_ready, m_awaiter, next, count, outcome>>
            /\ alive' = alive \ {at}
        BY <2>1 DEF ResumeInner
      <3>2. at + 1 \in Tasks
        BY <2>0, <2>1
      <3> QED BY <1>0, <1>a, <1>b, <2>0, <2>1, <3>1, <3>2, Names DEF TypeOK
    <2>2. CASE ~(Result(at) = "value" /\ at < numChunks - 1)
      <3>1. /\ state' = [state EXCEPT ![inner] = "exchange"]
            /\ m_data' = [m_data EXCEPT ![inner] = Result(at)]
            /\ pc' = [pc EXCEPT ![inner] = "none"]
            /\ UNCHANGED <<loop, stopped, cursor, at, m_ready, m_awaiter, next, count, outcome>>
            /\ alive' = alive \ {at}
        BY <2>2 DEF ResumeInner
      <3> QED BY <1>0, <1>a, <1>b, <2>0, <2>2, <3>1, Names DEF TypeOK
    <2> QED BY <2>1, <2>2
  <1>2. PromiseOK'
    BY <1>0, <1>a, <1>b, Names DEF TypeOK, PromiseOK, ResumeInner
  <1>3. StageOK'
    BY <1>0, <1>a, <1>b, Names DEF TypeOK, StageOK, ResumeInner
  <1>4. AwaitOK'
    BY <1>0, <1>a, <1>b, Names DEF TypeOK, AwaitOK, ResumeInner
  <1>5. ResultOK'
    <2>0. /\ at \in Nat /\ numChunks \in Nat /\ numChunks >= 1
          /\ \A k : k \in Tasks <=> k \in Nat /\ k <= numChunks - 1
      BY <1>0, SomeChunks DEF TypeOK, Tasks
    <2>1. CASE Result(at) = "value" /\ at < numChunks - 1
      <3>1. /\ at' = at + 1 /\ pc' = [pc EXCEPT ![inner] = "check"]
            /\ UNCHANGED <<loop, stopped, cursor, state, m_data, m_ready, m_awaiter, next, count, outcome>>
            /\ alive' = alive \ {at}
        BY <2>1 DEF ResumeInner
      <3>2. at + 1 \in Tasks
        BY <2>0, <2>1
      <3>3. m_ready[at] /\ m_data[at] = "value"
        BY <2>1
      <3>4. \A k \in Tasks : k < at + 1 => k < at \/ k = at
        BY <2>0
      <3>5. \A k \in Tasks : k < at' => m_ready'[k] /\ m_data'[k] = "value"
        BY <1>0, <3>1, <3>3, <3>4 DEF ResultOK
      <3>6. outcome' = "none" /\ m_data'[inner] = "none"
        BY <1>b, <3>1
      <3>7. m_data' = m_data /\ m_ready' = m_ready
        BY <3>1
      <3> QED BY <1>0, <1>a, <3>5, <3>6, <3>7 DEF ResultOK
    <2>2. CASE ~(Result(at) = "value" /\ at < numChunks - 1)
      <3>1. /\ state' = [state EXCEPT ![inner] = "exchange"]
            /\ m_data' = [m_data EXCEPT ![inner] = Result(at)]
            /\ pc' = [pc EXCEPT ![inner] = "none"]
            /\ UNCHANGED <<loop, stopped, cursor, at, m_ready, m_awaiter, next, count, outcome>>
            /\ alive' = alive \ {at}
        BY <2>2 DEF ResumeInner
      <3> QED BY <1>0, <1>a, <1>b, <2>0, <2>2, <3>1, Names DEF TypeOK, PromiseOK, ResultOK
    <2> QED BY <2>1, <2>2
  <1>6. FramesOK'
    BY <1>0, <1>a, <1>b, Names DEF TypeOK, FramesOK, ResumeInner
  <1> QED BY <1>1, <1>2, <1>3, <1>4, <1>5, <1>6

LEMMA ResumeOuterStep ==
    ASSUME IInv, ResumeOuter
    PROVE  TypeOK' /\ PromiseOK' /\ StageOK' /\ AwaitOK' /\ ResultOK' /\ FramesOK'
  <1> USE DEF promise, Done, Published, Finish, Result, Handed
  <1>0. /\ loop \in Loops /\ loop' = loop
        /\ TypeOK /\ PromiseOK /\ StageOK /\ AwaitOK /\ ResultOK /\ FramesOK
    BY DEF IInv, TypeOK, ResumeOuter
  <1>a. /\ Coro' = Coro /\ Tasks' = Tasks /\ Observed' = Observed
        /\ inner' = inner /\ outer' = outer /\ parfor' = parfor
    BY <1>0, LoopStays
  <1>b. /\ pc[outer] = "resume" /\ m_data[inner] # "none" /\ state[outer] = "running"
        /\ m_data[outer] = "none" /\ ~m_ready[outer] /\ pc[inner] = "none" /\ Done(inner)
        /\ pc[parfor] \notin {"none", "spawn"} /\ outcome = "none" /\ outer \in alive
    BY <1>0, Names DEF TypeOK, PromiseOK, StageOK, AwaitOK, ResumeOuter
  <1>1. TypeOK'
    BY <1>0, <1>a, <1>b, Names DEF TypeOK, ResumeOuter
  <1>2. PromiseOK'
    BY <1>0, <1>a, <1>b, Names DEF TypeOK, PromiseOK, ResumeOuter
  <1>3. StageOK'
    BY <1>0, <1>a, <1>b, Names DEF TypeOK, StageOK, ResumeOuter
  <1>4. AwaitOK'
    BY <1>0, <1>a, <1>b, Names DEF TypeOK, AwaitOK, ResumeOuter
  <1>5. ResultOK'
    BY <1>0, <1>a, <1>b, Names DEF TypeOK, ResultOK, ResumeOuter
  <1>6. FramesOK'
    BY <1>0, <1>a, <1>b, Names DEF TypeOK, FramesOK, ResumeOuter
  <1> QED BY <1>1, <1>2, <1>3, <1>4, <1>5, <1>6

LEMMA ResumeParforStep ==
    ASSUME IInv, ResumeParfor
    PROVE  TypeOK' /\ PromiseOK' /\ StageOK' /\ AwaitOK' /\ ResultOK' /\ FramesOK'
  <1> USE DEF promise, Done, Published, Finish, Result, Handed
  <1>0. /\ loop \in Loops /\ loop' = loop
        /\ TypeOK /\ PromiseOK /\ StageOK /\ AwaitOK /\ ResultOK /\ FramesOK
    BY DEF IInv, TypeOK, ResumeParfor
  <1>a. /\ Coro' = Coro /\ Tasks' = Tasks /\ Observed' = Observed
        /\ inner' = inner /\ outer' = outer /\ parfor' = parfor
    BY <1>0, LoopStays
  <1>b. /\ pc[parfor] = "resume" /\ m_data[outer] # "none" /\ pc[outer] = "none"
        /\ pc[inner] = "none" /\ outcome = "none" /\ Done(outer)
    BY <1>0, Names DEF TypeOK, PromiseOK, StageOK, AwaitOK, ResumeParfor
  <1>1. TypeOK'
    BY <1>0, <1>a, <1>b, Names DEF TypeOK, ResumeParfor
  <1>2. PromiseOK'
    BY <1>0, <1>a, <1>b, Names DEF TypeOK, PromiseOK, ResumeParfor
  <1>3. StageOK'
    BY <1>0, <1>a, <1>b, Names DEF TypeOK, StageOK, ResumeParfor
  <1>4. AwaitOK'
    BY <1>0, <1>a, <1>b, Names DEF TypeOK, AwaitOK, ResumeParfor
  <1>5. ResultOK'
    BY <1>0, <1>a, <1>b, Names DEF TypeOK, ResultOK, ResumeParfor
  <1>6. FramesOK'
    BY <1>0, <1>a, <1>b, Names DEF TypeOK, FramesOK, ResultOK, ResumeParfor
  <1> QED BY <1>1, <1>2, <1>3, <1>4, <1>5, <1>6

-----------------------------------------------------------------------------
(***************************************************************************)
(* What is worked on                                                       *)
(***************************************************************************)
\* A reduction gives each call the elements of a block, by vectors or not.
LEMMA UsesBlock ==
    ASSUME loop \in Loops, loop.kind \in {"reduce", "simd"}
    PROVE  /\ loop.from = 0
           /\ \E size \in Nat :
                 /\ size > 0 /\ loop.n <= size * loop.to
                 /\ \A i \in loop.from .. loop.to - 1, e \in Nat :
                       Uses(i, e) = IF e \in Block(loop.n, size, i) THEN 1 ELSE 0
  <1>1. /\ loop.from \in Nat /\ loop.to \in Nat /\ loop.n \in Nat /\ loop.lanes \in Nat
        /\ loop.lanes > 0 /\ loop.from < loop.to
    BY LoopNumbers
  <1>2. loop.from = 0 /\ loop.n > 0
    BY LoopsAssumption DEF Legal
  <1>3. loop.to > 0
    BY <1>1
  <1> DEFINE n == loop.n
             blocks == loop.to
             q == CeilDiv(n, blocks)
  <1>4. q \in Nat /\ q >= 1
    <2>1. n \in Nat /\ n > 0 /\ blocks \in Nat /\ blocks > 0
      BY <1>1, <1>2, <1>3
    <2> HIDE DEF n, blocks
    <2> QED BY <2>1, CeilDivBounds
  <1>5. CASE loop.kind = "reduce"
    <2>1. q > 0 /\ n <= q * blocks
      <3>1. n \in Nat /\ n > 0 /\ blocks \in Nat /\ blocks > 0 /\ q \in Nat /\ CeilDiv(n, blocks) <= q
        BY <1>1, <1>2, <1>3, <1>4
      <3> HIDE DEF n, blocks, q
      <3> QED BY <3>1, BlocksSuffice
    <2>2. \A i, e : Uses(i, e) = IF e \in Block(n, q, i) THEN 1 ELSE 0
      BY <1>5 DEF Uses, ReduceWork, BlockSize
    <2> QED BY <1>2, <1>4, <2>1, <2>2
  <1>6. CASE loop.kind = "simd"
    <2> DEFINE size == SimdBlockSize(n, blocks, loop.lanes)
    <2>1. size \in Nat /\ size > 0 /\ q <= size
      BY <1>1, <1>4 DEF SimdBlockSize, Greatest
    <2>2. n <= size * blocks
      <3>1. n \in Nat /\ n > 0 /\ blocks \in Nat /\ blocks > 0 /\ CeilDiv(n, blocks) <= size
        BY <1>1, <1>2, <1>3, <2>1
      <3> HIDE DEF n, blocks, size
      <3> QED BY <2>1, <3>1, BlocksSuffice
    <2>3. ASSUME NEW i \in 0 .. blocks - 1, NEW e \in Nat
          PROVE  Uses(i, e) = IF e \in Block(n, size, i) THEN 1 ELSE 0
      <3> DEFINE begin == i * size
                 end == Least(n, begin + size)
                 middle == VectorEnd(begin, end, loop.lanes)
      <3>1. begin \in Nat
        <4> HIDE DEF size
        <4> QED BY <1>1, <2>1
      <3>2. end \in Nat
        <4> HIDE DEF begin, size
        <4> QED BY <1>1, <2>1, <3>1 DEF Least
      <3>3. /\ middle \in Nat /\ begin <= middle
            /\ begin <= end => middle <= end
            /\ end < begin => middle = begin
        <4> HIDE DEF begin, end
        <4> QED BY <1>1, <3>1, <3>2, VectorEndInside, ZenonT(40)
      <3>4. /\ SimdVectors(i) = begin .. middle - 1
            /\ SimdRest(i) = middle .. end - 1
            /\ Block(n, size, i) = begin .. end - 1
        BY DEF SimdVectors, SimdRest, Block
      <3> HIDE DEF begin, end, middle
      <3>5. /\ e \in Block(n, size, i) <=> e \in SimdVectors(i) \/ e \in SimdRest(i)
            /\ ~(e \in SimdVectors(i) /\ e \in SimdRest(i))
        BY <3>1, <3>2, <3>3, <3>4
      <3>6. Uses(i, e) = (IF e \in SimdVectors(i) THEN 1 ELSE 0) + (IF e \in SimdRest(i) THEN 1 ELSE 0)
        BY <1>6 DEF Uses
      <3> HIDE DEF size
      <3> QED BY <3>5, <3>6
    <2> HIDE DEF size
    <2> QED BY <1>2, <2>1, <2>2, <2>3
  <1> QED BY <1>5, <1>6

\* Every element is used by one index, once, and nothing else is used.
LEMMA UsedOnce ==
    ASSUME loop \in Loops, NEW e \in Nat
    PROVE  /\ \A i \in loop.from .. loop.to - 1 :
                 /\ Uses(i, e) \in {0, 1}
                 /\ Uses(i, e) = 1 => e \in Elements
                 /\ \A j \in loop.from .. loop.to - 1 :
                       Uses(i, e) = 1 /\ Uses(j, e) = 1 => i = j
           /\ e \in Elements => \E i \in loop.from .. loop.to - 1 : Uses(i, e) = 1
  <1>1. CASE loop.kind \notin {"reduce", "simd"}
    <2>1. \A i : Uses(i, e) = IF e = i THEN 1 ELSE 0
      BY <1>1 DEF Uses
    <2>2. Elements = loop.from .. loop.to - 1
      BY <1>1 DEF Elements
    <2> QED BY <2>1, <2>2
  <1>2. CASE loop.kind \in {"reduce", "simd"}
    <2>1. PICK size \in Nat :
             /\ size > 0 /\ loop.n <= size * loop.to
             /\ \A i \in loop.from .. loop.to - 1, x \in Nat :
                   Uses(i, x) = IF x \in Block(loop.n, size, i) THEN 1 ELSE 0
      BY <1>2, UsesBlock
    <2>2. loop.from = 0 /\ loop.n \in Nat /\ loop.to \in Nat
      BY <1>2, UsesBlock, LoopNumbers
    <2>3. \A i \in loop.from .. loop.to - 1 :
             Uses(i, e) = IF e \in Block(loop.n, size, i) THEN 1 ELSE 0
      BY <2>1
    <2>4. Elements = 0 .. loop.n - 1
      BY <1>2 DEF Elements
    <2>5. \A i \in 0 .. loop.to - 1 : e \in Block(loop.n, size, i) => e < loop.n
      BY <2>2 DEF Block, Least
    <2>6. CASE e < loop.n
      <3> DEFINE n == loop.n
                 blocks == loop.to
      <3>1. e \in 0 .. n - 1
        BY <2>2, <2>6
      <3>a. n \in Nat /\ blocks \in Nat /\ size > 0 /\ n <= size * blocks
        BY <2>1, <2>2
      <3> HIDE DEF n, blocks
      <3>2. \E b \in 0 .. blocks - 1 : e \in Block(n, size, b)
        BY <3>a, <3>1, BlocksCoverOnce
      <3>3. \A b, c \in 0 .. blocks - 1 :
               e \in Block(n, size, b) /\ e \in Block(n, size, c) => b = c
        BY <3>a, <3>1, BlocksCoverOnce
      <3> USE DEF n, blocks
      <3> QED BY <2>2, <2>3, <2>4, <3>1, <3>2, <3>3
    <2>7. CASE ~(e < loop.n)
      <3>1. \A i \in loop.from .. loop.to - 1 : Uses(i, e) = 0
        BY <2>2, <2>3, <2>5, <2>7
      <3>2. e \notin Elements
        BY <2>2, <2>4, <2>7
      <3> QED BY <3>1, <3>2
    <2> QED BY <2>6, <2>7
  <1> QED BY <1>1, <1>2

\* The chunks of the loop, by the operators of ForkJoin.
LEMMA ChunkFacts ==
    ASSUME loop \in Loops, NEW k \in Tasks
    PROVE  /\ Chunk(loop.from, loop.to, chunk_size, k, loop.top) = chunkStart(k) .. chunkEnd(k) - 1
           /\ \A x \in Chunk(loop.from, loop.to, chunk_size, k, loop.top) :
                 /\ x \in loop.from .. loop.to - 1
                 /\ \A l \in Tasks :
                       x \in Chunk(loop.from, loop.to, chunk_size, l, loop.top) => k = l
  <1>1. Chunk(loop.from, loop.to, chunk_size, k, loop.top) = chunkStart(k) .. chunkEnd(k) - 1
    BY DEF Chunk, chunkStart, chunkEnd
  <1> DEFINE from == loop.from
             to == loop.to
             size == chunk_size
             top == loop.top
             T == 0 .. NumChunks(to - from, size) - 1
  <1>2. /\ from \in Nat /\ to \in Nat /\ top \in Nat /\ from < to /\ to < top
        /\ size \in Nat /\ size > 0 /\ Tasks = T
    BY LoopNumbers DEF Tasks, numChunks
  <1> HIDE DEF from, to, size, top
  <1>3. k \in T
    BY <1>2
  <1>4. \A x \in Chunk(from, to, size, k, top) : from + k * size <= x /\ x < to
    BY <1>2, <1>3, ChunkInShare
  <1>5. k * size \in Nat
    BY <1>2, <1>3, StartFits
  <1>6. \A x \in Chunk(from, to, size, k, top) : x \in Int
    <2>1. Chunk(from, to, size, k, top) = chunkStart(k) .. chunkEnd(k) - 1
      BY <1>1 DEF from, to, size, top
    <2>2. chunkStart(k) \in Nat /\ chunkEnd(k) \in Nat
      BY ChunkBounds
    <2> QED BY <2>1, <2>2
  <1>7. \A x \in Chunk(from, to, size, k, top) : x \in from .. to - 1
    BY <1>2, <1>4, <1>5, <1>6
  <1>8. ASSUME NEW x \in Chunk(from, to, size, k, top), NEW l \in Tasks,
               x \in Chunk(from, to, size, l, top)
        PROVE  k = l
    <2>1. l \in T
      BY <1>2
    <2> QED BY <1>2, <1>3, <1>8, <2>1, ChunksApart
  <1> QED BY <1>1, <1>7, <1>8 DEF from, to, size, top

-----------------------------------------------------------------------------
(***************************************************************************)
(* Cursors and counts                                                      *)
(***************************************************************************)
\* The operators on the loop do not change with it.
LEMMA OperatorsStay ==
    ASSUME loop' = loop
    PROVE  /\ \A k : chunkStart(k)' = chunkStart(k) /\ chunkEnd(k)' = chunkEnd(k)
           /\ \A i, e : Uses(i, e)' = Uses(i, e)
           /\ \A k : Chunk(loop.from, loop.to, chunk_size, k, loop.top)'
                       = Chunk(loop.from, loop.to, chunk_size, k, loop.top)
  <1>1. chunk_size' = chunk_size
    BY LoopStays
  <1>2. \A i, e : Uses(i, e)' = Uses(i, e)
    BY DEF Uses, ReduceWork, SimdVectors, SimdRest
  <1> QED BY <1>1, <1>2 DEF chunkStart, chunkEnd

\* The steps that call no function object: a chunk may come out of its loop.
LEMMA WorkStays ==
    ASSUME IInv, loop' = loop, UNCHANGED <<cursor, count>>,
           \A k \in Tasks :
              /\ state'[k] \in {"none", "queued"} => state[k] \in {"none", "queued"}
              /\ state'[k] = "running" => state[k] = "running"
              /\ m_data'[k] = "value" => m_data[k] = "value" \/ cursor[k] >= chunkEnd(k)
    PROVE  CursorOK' /\ CountOK'
  <1>1. Tasks' = Tasks /\ Observed' = Observed
    BY LoopStays
  <1>2. \A k : Worked(k)' = Worked(k)
    BY OperatorsStay DEF Worked
  <1>3. CursorOK'
    BY <1>1, <1>2, OperatorsStay DEF IInv, CursorOK
  <1>4. \A i : Visited(i)' = Visited(i)
    BY <1>1, <1>2 DEF Visited
  <1>5. CountOK'
    BY <1>1, <1>4, OperatorsStay DEF IInv, CountOK
  <1> QED BY <1>3, <1>5

\* A chunk that starts has not worked on anything.
LEMMA WorkStarts ==
    ASSUME IInv, NEW k \in Tasks, Start(k)
    PROVE  CursorOK' /\ CountOK'
  <1>0. /\ loop \in Loops /\ loop' = loop /\ count' = count /\ m_data' = m_data
        /\ state[k] = "queued" /\ m_data[k] = "none" /\ k \in Coro
        /\ state' = [state EXCEPT ![k] = "running"]
        /\ cursor' = [cursor EXCEPT ![k] = chunkStart(k)]
        /\ state \in [Coro -> {"none", "queued", "dropped", "running", "exchange",
                               "ready", "notify", "late", "continue", "final",
                           "undefined"}]
        /\ cursor \in [Tasks -> Nat]
    BY Names DEF IInv, TypeOK, PromiseOK, Start, promise
  <1>1. Tasks' = Tasks /\ Observed' = Observed /\ Coro = Tasks \union {inner, outer, parfor}
    BY <1>0, LoopStays, Names
  <1>2. cursor'[k] = chunkStart(k) /\ state'[k] = "running" /\ chunkStart(k) \in Nat
    BY <1>0, ChunkBounds
  <1>3. \A l \in Tasks \ {k} : cursor'[l] = cursor[l] /\ state'[l] = state[l]
    BY <1>0, <1>1
  <1>4. Worked(k) = {} /\ Worked(k)' = {}
    BY <1>0, <1>2, OperatorsStay DEF IInv, CursorOK, Worked
  <1>5. \A l \in Tasks : Worked(l)' = Worked(l)
    <2>1. \A l \in Tasks \ {k} : Worked(l)' = Worked(l)
      BY <1>0, <1>3, OperatorsStay DEF Worked
    <2> QED BY <1>4, <2>1
  <1>6. CursorOK'
    <2> SUFFICES ASSUME NEW l \in Tasks
                 PROVE  /\ Worked(l)' \subseteq Chunk(loop.from, loop.to, chunk_size, l, loop.top)
                        /\ state'[l] \in {"none", "queued"} => Worked(l)' = {}
                        /\ state'[l] = "running" => cursor'[l] >= chunkStart(l)
                        /\ m_data'[l] = "value" => cursor'[l] >= chunkEnd(l)
      BY <1>0, <1>1, OperatorsStay DEF CursorOK
    <2>1. CASE l = k
      BY <1>0, <1>2, <1>4, <2>1
    <2>2. CASE l # k
      BY <1>0, <1>3, <1>5, <2>2 DEF IInv, CursorOK
    <2> QED BY <2>1, <2>2
  <1>7. \A i : Visited(i)' = Visited(i)
    BY <1>1, <1>5 DEF Visited
  <1>8. CountOK'
    BY <1>0, <1>1, <1>7, OperatorsStay DEF IInv, CountOK
  <1> QED BY <1>6, <1>8

\* The elements observed are numbers, and the elements are among them.
LEMMA Observing == ASSUME loop \in Loops PROVE Observed \subseteq Nat /\ Elements \subseteq Observed
  <1>1. /\ loop.from \in Nat /\ loop.to \in Nat /\ loop.top \in Nat /\ loop.n \in Nat
        /\ loop.from < loop.to /\ loop.to < loop.top
    BY LoopNumbers
  <1> QED BY <1>1 DEF Observed, Elements

\* The function object is called for an index nobody has been called for.
LEMMA WorkGrows ==
    ASSUME IInv, NEW k \in Tasks, state[k] = "running", cursor[k] < chunkEnd(k),
           loop' = loop, UNCHANGED <<state, m_data>>,
           count' = [e \in Observed |-> count[e] + Uses(cursor[k], e)],
           cursor' = [cursor EXCEPT ![k] = @ + 1]
    PROVE  CursorOK' /\ CountOK'
  <1> DEFINE i == cursor[k]
             C(l) == Chunk(loop.from, loop.to, chunk_size, l, loop.top)
  <1>0. /\ loop \in Loops /\ m_data[k] = "none" /\ cursor \in [Tasks -> Nat]
        /\ count \in [Observed -> Nat] /\ i \in Nat /\ cursor'[k] = i + 1
        /\ \A l \in Tasks \ {k} : cursor'[l] = cursor[l]
    BY Names DEF IInv, TypeOK, PromiseOK
  <1>1. Tasks' = Tasks /\ Observed' = Observed
    BY LoopStays
  <1>2. /\ chunkStart(k) \in Nat /\ chunkStart(k) <= i
        /\ chunkEnd(k) \in Nat /\ i < chunkEnd(k)
    BY <1>0, ChunkBounds DEF IInv, CursorOK
  <1>3. i \in C(k) /\ i \in loop.from .. loop.to - 1
    <2>1. i \in chunkStart(k) .. chunkEnd(k) - 1
      BY <1>0, <1>2
    <2>2. i \in C(k)
      BY <1>0, <2>1, ChunkFacts
    <2> QED BY <1>0, <2>2, ChunkFacts
  <1>4. Worked(k)' = Worked(k) \union {i} /\ i \notin Worked(k)
    <2>1. Worked(k)' = chunkStart(k) .. (i + 1) - 1 /\ Worked(k) = chunkStart(k) .. i - 1
      BY <1>0, OperatorsStay DEF Worked
    <2> HIDE DEF i
    <2> QED BY <1>0, <1>2, <2>1
  <1>5. \A l \in Tasks \ {k} : Worked(l)' = Worked(l) /\ i \notin Worked(l)
    <2> SUFFICES ASSUME NEW l \in Tasks \ {k} PROVE Worked(l)' = Worked(l) /\ i \notin Worked(l)
      OBVIOUS
    <2>1. Worked(l)' = Worked(l)
      BY <1>0, OperatorsStay DEF Worked
    <2>2. i \notin C(l)
      BY <1>0, <1>3, ChunkFacts
    <2> QED BY <2>1, <2>2 DEF IInv, CursorOK
  <1>6. CursorOK'
    <2> SUFFICES ASSUME NEW l \in Tasks
                 PROVE  /\ Worked(l)' \subseteq C(l)
                        /\ state[l] \in {"none", "queued"} => Worked(l)' = {}
                        /\ state[l] = "running" => cursor'[l] >= chunkStart(l)
                        /\ m_data[l] = "value" => cursor'[l] >= chunkEnd(l)
      BY <1>1, OperatorsStay DEF CursorOK
    <2>1. CASE l = k
      <3>1. Worked(k)' \subseteq C(k)
        BY <1>3, <1>4 DEF IInv, CursorOK
      <3>2. cursor'[k] >= chunkStart(k)
        BY <1>0, <1>2
      <3> QED BY <1>0, <2>1, <3>1, <3>2
    <2>2. CASE l # k
      BY <1>0, <1>5, <2>2 DEF IInv, CursorOK
    <2> QED BY <2>1, <2>2
  <1>7. ~Visited(i) /\ \A x : Visited(x)' <=> Visited(x) \/ x = i
    BY <1>1, <1>4, <1>5 DEF Visited
  <1>8. CountOK'
    <2> SUFFICES ASSUME NEW e \in Observed
                 PROVE  count'[e] = IF \E x \in loop.from .. loop.to - 1 : Visited(x)' /\ Uses(x, e) = 1
                                       THEN 1 ELSE 0
      BY <1>1, OperatorsStay DEF CountOK
    <2>1. /\ count[e] = IF \E x \in loop.from .. loop.to - 1 : Visited(x) /\ Uses(x, e) = 1
                           THEN 1 ELSE 0
          /\ count'[e] = count[e] + Uses(i, e)
      BY DEF IInv, CountOK
    <2>2. e \in Nat
      BY <1>0, Observing
    <2>3. /\ Uses(i, e) \in {0, 1}
          /\ \A x \in loop.from .. loop.to - 1 : Uses(x, e) = 1 /\ Uses(i, e) = 1 => x = i
      BY <1>0, <1>3, <2>2, UsedOnce
    <2> HIDE DEF i
    <2>4. CASE Uses(i, e) = 0
      <3>1. \A x \in loop.from .. loop.to - 1 :
               Visited(x)' /\ Uses(x, e) = 1 <=> Visited(x) /\ Uses(x, e) = 1
        BY <1>7, <2>4
      <3> QED BY <2>1, <2>4, <3>1
    <2>5. CASE Uses(i, e) = 1
      <3>1. \A x \in loop.from .. loop.to - 1 : ~(Visited(x) /\ Uses(x, e) = 1)
        BY <1>7, <2>3, <2>5
      <3>2. \E x \in loop.from .. loop.to - 1 : Visited(x)' /\ Uses(x, e) = 1
        BY <1>3, <1>7, <2>5
      <3> QED BY <2>1, <2>5, <3>1, <3>2
    <2> QED BY <2>3, <2>4, <2>5
  <1> QED BY <1>6, <1>8

-----------------------------------------------------------------------------
(***************************************************************************)
(* The invariant                                                           *)
(***************************************************************************)
LEMMA IInvInit == Init => IInv
  <1> SUFFICES ASSUME Init PROVE IInv
    OBVIOUS
  <1> USE DEF promise, Done, Handed
  <1>0. loop \in Loops
    BY DEF Init
  <1>1. TypeOK
    BY <1>0, Names DEF Init, TypeOK
  <1>2. PromiseOK
    BY <1>0 DEF Init, PromiseOK, Published
  <1>3. StageOK
    BY <1>0, Names DEF Init, StageOK
  <1>4. AwaitOK
    BY <1>0, Names DEF Init, AwaitOK
  <1>5. ResultOK
    BY <1>0, Names DEF Init, ResultOK
  <1>6. FramesOK
    BY <1>0, Names DEF Init, FramesOK
  <1>7. \A k \in Tasks : Worked(k) = {}
    <2> SUFFICES ASSUME NEW k \in Tasks PROVE Worked(k) = {}
      OBVIOUS
    <2>1. cursor[k] = 0 /\ chunkStart(k) \in Nat
      BY <1>0, ChunkBounds DEF Init
    <2> QED BY <2>1 DEF Worked
  <1>8. CursorOK
    BY <1>0, <1>7, Names DEF Init, CursorOK
  <1>9. CountOK
    BY <1>7 DEF Init, CountOK, Visited
  <1> QED BY <1>1, <1>2, <1>3, <1>4, <1>5, <1>6, <1>8, <1>9 DEF IInv

\* The actions, one for each coroutine it is an action of.
LEMMA NextCases ==
    ASSUME loop \in Loops, Next
    PROVE  \/ WhenAll \/ Shutdown \/ ResumeInner \/ ResumeOuter \/ ResumeParfor
           \/ \E k \in Tasks : Run(k) \/ Start(k) \/ Iterate(k)
           \/ \E c \in Coro \ {parfor} : Ending(c)
           \/ \E j \in {inner, outer, parfor} : Check(j) \/ Suspend(j)
  BY Names DEF Next, Launch, Awaiting, Resuming

\* Every step that calls no function object and starts no chunk.
LEMMA QuietSteps ==
    ASSUME IInv,
           \/ WhenAll \/ Shutdown \/ ResumeInner \/ ResumeOuter \/ ResumeParfor
           \/ \E k \in Tasks : Run(k)
           \/ \E c \in Coro \ {parfor} : Ending(c)
           \/ \E j \in {inner, outer, parfor} : Check(j) \/ Suspend(j)
    PROVE  CursorOK' /\ CountOK'
  <1> DEFINE Quiet == /\ loop' = loop /\ UNCHANGED <<cursor, count>>
                      /\ \A k \in Tasks :
                            /\ state'[k] \in {"none", "queued"} => state[k] \in {"none", "queued"}
                            /\ state'[k] = "running" => state[k] = "running"
                            /\ m_data'[k] = "value" => m_data[k] = "value"
  <1> SUFFICES Quiet
    BY WorkStays
  <1> USE DEF promise, Finish
  <1>0. loop \in Loops /\ TypeOK
    BY DEF IInv, TypeOK
  <1>1. CASE WhenAll
    BY <1>0, <1>1, Names DEF TypeOK, WhenAll
  <1>2. CASE Shutdown
    BY <1>0, <1>2, Names DEF TypeOK, Shutdown
  <1>3. CASE ResumeInner
    BY <1>0, <1>3, Names DEF TypeOK, ResumeInner
  <1>4. CASE ResumeOuter
    BY <1>0, <1>4, Names DEF TypeOK, ResumeOuter
  <1>5. CASE ResumeParfor
    BY <1>0, <1>5, Names DEF TypeOK, ResumeParfor
  <1>6. CASE \E k \in Tasks : Run(k)
    BY <1>0, <1>6, Names DEF TypeOK, Run
  <1>7. CASE \E c \in Coro \ {parfor} : Ending(c)
    BY <1>0, <1>7, Names DEF TypeOK, Ending, Exchange, StoreReady, Notify, Continue, Dangle
  <1>8. CASE \E j \in {inner, outer, parfor} : Check(j) \/ Suspend(j)
    BY <1>0, <1>8, Names DEF TypeOK, Check, Suspend
  <1> QED BY <1>1, <1>2, <1>3, <1>4, <1>5, <1>6, <1>7, <1>8

LEMMA IterateWork ==
    ASSUME IInv, NEW k \in Tasks, Iterate(k)
    PROVE  CursorOK' /\ CountOK'
  <1>0. /\ loop \in Loops /\ loop' = loop /\ state[k] = "running"
        /\ k \in Coro /\ Tasks \subseteq Coro
        /\ state \in [Coro -> {"none", "queued", "dropped", "running", "exchange",
                               "ready", "notify", "late", "continue", "final",
                           "undefined"}]
        /\ m_data \in [Coro -> {"none", "value", "exception", "bad_function_call"}]
    BY Names DEF IInv, TypeOK, Iterate
  <1>1. CASE /\ cursor[k] < chunkEnd(k)
             /\ count' = [e \in Observed |-> count[e] + Uses(cursor[k], e)]
             /\ cursor' = [cursor EXCEPT ![k] = @ + 1]
             /\ UNCHANGED <<state, m_data>>
    BY <1>0, <1>1, WorkGrows
  <1>2. CASE Finish(k, "exception") /\ UNCHANGED <<count, cursor>>
    <2>1. \A l \in Tasks :
             /\ state'[l] \in {"none", "queued"} => state[l] \in {"none", "queued"}
             /\ state'[l] = "running" => state[l] = "running"
             /\ m_data'[l] = "value" => m_data[l] = "value"
      BY <1>0, <1>2 DEF Finish
    <2> QED BY <1>0, <1>2, <2>1, WorkStays
  <1>3. CASE cursor[k] >= chunkEnd(k) /\ Finish(k, "value") /\ UNCHANGED <<count, cursor>>
    <2>1. \A l \in Tasks :
             /\ state'[l] \in {"none", "queued"} => state[l] \in {"none", "queued"}
             /\ state'[l] = "running" => state[l] = "running"
             /\ m_data'[l] = "value" => m_data[l] = "value" \/ cursor[l] >= chunkEnd(l)
      BY <1>0, <1>3 DEF Finish
    <2> QED BY <1>0, <1>3, <2>1, WorkStays
  <1> QED BY <1>1, <1>2, <1>3 DEF Iterate

LEMMA IInvStep == IInv /\ [Next]_vars => IInv'
  <1> SUFFICES ASSUME IInv, [Next]_vars PROVE IInv'
    OBVIOUS
  <1>0. loop \in Loops
    BY DEF IInv, TypeOK
  <1>1. CASE Next
    <2>1. TypeOK' /\ PromiseOK' /\ StageOK' /\ AwaitOK' /\ ResultOK' /\ FramesOK'
      BY <1>0, <1>1, NextCases, RunStep, WhenAllStep, ShutdownStep, StartStep, IterateStep,
         ExchangeStep, StoreReadyStep, NotifyStep, ContinueStep, DangleStep, CheckStep, SuspendStep,
         ResumeInnerStep, ResumeOuterStep, ResumeParforStep DEF Ending
    <2>2. CursorOK' /\ CountOK'
      BY <1>0, <1>1, NextCases, QuietSteps, WorkStarts, IterateWork
    <2> QED BY <2>1, <2>2 DEF IInv
  <1>2. CASE UNCHANGED vars
    <2>1. /\ UNCHANGED <<loop, stopped, state, cursor, m_ready, m_awaiter, m_data, next>>
          /\ UNCHANGED <<alive, pc, at, count, outcome>>
      BY <1>2 DEF vars, promise
    <2>2. /\ Coro' = Coro /\ Tasks' = Tasks /\ Observed' = Observed
          /\ inner' = inner /\ outer' = outer /\ parfor' = parfor
      BY <2>1, LoopStays
    <2>3. TypeOK' /\ PromiseOK' /\ StageOK' /\ ResultOK'
      BY <2>1, <2>2 DEF IInv, TypeOK, PromiseOK, StageOK, ResultOK, Done
    <2>4. AwaitOK' /\ FramesOK'
      BY <2>1, <2>2 DEF IInv, AwaitOK, FramesOK, Handed, Done
    <2>5. CursorOK' /\ CountOK'
      BY <2>1, WorkStays
    <2> QED BY <2>3, <2>4, <2>5 DEF IInv
  <1> QED BY <1>1, <1>2

\* The invariant holds throughout.
THEOREM Invariance == Spec => []IInv
  BY IInvInit, IInvStep, PTL DEF Spec

-----------------------------------------------------------------------------
(***************************************************************************)
(* What a loop promises                                                    *)
(***************************************************************************)
\* Whatever the index type, the chunk size and the number of threads, and
\* however the chunks interleave, fail or are left behind: no element is given
\* to the function object of parfor twice, and none outside the range.
THEOREM NothingTwice == Spec => []NeverTwice
  <1>1. IInv => NeverTwice
    <2> SUFFICES ASSUME IInv, NEW e \in Observed
                 PROVE  count[e] <= IF e \in Elements THEN 1 ELSE 0
      BY DEF NeverTwice
    <2>1. e \in Nat /\ loop \in Loops
      BY Observing DEF IInv, TypeOK
    <2>2. \A i \in loop.from .. loop.to - 1 : Uses(i, e) = 1 => e \in Elements
      BY <2>1, UsedOnce
    <2>3. count[e] = IF \E i \in loop.from .. loop.to - 1 : Visited(i) /\ Uses(i, e) = 1
                        THEN 1 ELSE 0
      BY DEF IInv, CountOK
    <2> QED BY <2>2, <2>3
  <1> QED BY <1>1, Invariance, PTL

\* A loop of parfor that returns has done all of its work, if the end of its
\* last chunk fits the index type, and has left no chunk behind.
THEOREM CompleteOnReturn == Spec => []ReturnsComplete
  <1>1. IInv => ReturnsComplete
    <2> SUFFICES ASSUME IInv, outcome = "value" PROVE ReturnsComplete
      BY DEF ReturnsComplete
    <2>1. loop \in Loops /\ at \in Tasks
      BY DEF IInv, TypeOK
    <2>2. /\ m_ready[outer] /\ m_ready[inner] /\ m_ready[at]
          /\ m_data[inner] = "value" /\ m_data[at] = "value"
      BY DEF IInv, ResultOK
    <2>3. \A k \in Tasks : m_data[k] = "value" /\ m_ready[k]
      <3>1. \A k \in Tasks : k < at \/ k = at
        <4>1. \A k \in Tasks : k <= at
          BY <2>2 DEF IInv, ResultOK
        <4> QED BY <2>1, <4>1 DEF Tasks
      <3> QED BY <2>2, <3>1 DEF IInv, ResultOK
    <2>4. \A c \in 0 .. outer : state[c] \in Published
      <3>1. \A c \in 0 .. outer : c \in Coro /\ m_ready[c]
        BY <2>1, <2>2, <2>3, Names
      <3> QED BY <3>1 DEF IInv, PromiseOK
    <2>5. ASSUME Fits(loop.from, loop.to, chunk_size, loop.top), NEW e \in Elements
          PROVE  count[e] = 1
      <3>1. e \in Observed /\ e \in Nat
        BY <2>1, Observing
      <3>2. PICK i \in loop.from .. loop.to - 1 : Uses(i, e) = 1
        BY <2>1, <3>1, UsedOnce
      <3>3. PICK k \in Tasks : i \in Chunk(loop.from, loop.to, chunk_size, k, loop.top)
        <4> DEFINE from == loop.from
                   to == loop.to
                   size == chunk_size
                   top == loop.top
                   T == 0 .. NumChunks(to - from, size) - 1
        <4>1. /\ from \in Nat /\ to \in Nat /\ top \in Nat /\ from < to /\ to < top
              /\ size \in Nat /\ size > 0 /\ Tasks = T /\ Fits(from, to, size, top)
              /\ i \in from .. to - 1
          BY <2>1, <2>5, LoopNumbers DEF Tasks, numChunks
        <4> HIDE DEF from, to, size, top
        <4>2. \E k \in T : i \in Chunk(from, to, size, k, top)
          BY <4>1, ChunksCover
        <4> QED BY <4>1, <4>2 DEF from, to, size, top
      <3>4. /\ i \in chunkStart(k) .. chunkEnd(k) - 1 /\ chunkStart(k) \in Nat
            /\ chunkEnd(k) \in Nat
        BY <2>1, <3>3, ChunkFacts, ChunkBounds
      <3>5. cursor[k] \in Nat /\ cursor[k] >= chunkEnd(k)
        BY <2>3 DEF IInv, TypeOK, CursorOK
      <3>6. i \in Worked(k)
        BY <3>4, <3>5 DEF Worked
      <3> QED BY <3>1, <3>2, <3>6 DEF IInv, CountOK, Visited
    <2> QED BY <2>3, <2>4, <2>5 DEF ReturnsComplete
  <1> QED BY <1>1, Invariance, PTL

\* Whatever order the chunks fail in, when_all gives the exception of the first
\* in the order of the tasks, and every chunk before it has succeeded.
THEOREM FirstFailure == Spec => []FirstFailureReported
  <1>1. IInv => FirstFailureReported
    <2> SUFFICES ASSUME IInv, outcome = "exception" PROVE FirstFailureReported
      BY DEF FirstFailureReported
    <2>1. m_data[at] = "exception"
      BY DEF IInv, ResultOK
    <2>2. \A k \in 0 .. at - 1 : k \in Tasks /\ k < at
      BY SomeChunks DEF IInv, TypeOK, Tasks
    <2> QED BY <2>1, <2>2 DEF IInv, ResultOK, FirstFailureReported
  <1> QED BY <1>1, Invariance, PTL

\* The frame of a coroutine that is not done is destroyed in these cases only, and a
\* coroutine that notifies a promise that is gone has nobody to resume.
THEOREM DanglingExplained == Spec => []DanglesInThreeCases
  <1>1. ASSUME IInv, NEW c \in 0 .. outer, state[c] = "undefined"
        PROVE  \/ c \in Tasks /\ outcome \in {"exception", "bad_function_call"}
               \/ c = outer /\ outcome = "bad_function_call"
               \/ c = inner /\ m_data[outer] = "bad_function_call"
               \/ c = at /\ m_data[inner] = "bad_function_call"
    <2>1. c \in Coro \ {parfor} /\ loop \in Loops
      BY <1>1, Names DEF IInv, TypeOK
    <2>2. c \notin alive /\ ~m_ready[c]
      BY <1>1, <2>1 DEF IInv, PromiseOK, Published
    <2>3. outcome \in {"none", "value", "exception", "bad_function_call"}
      BY <1>1 DEF IInv, TypeOK
    <2>4. CASE outcome = "value"
      <3>1. m_ready[outer] /\ m_ready[inner] /\ m_ready[at] /\ \A k \in Tasks : k <= at
        BY <1>1, <2>4 DEF IInv, ResultOK
      <3>2. \A k \in Tasks : m_ready[k]
        <4>1. at \in Tasks
          BY <1>1 DEF IInv, TypeOK
        <4>2. \A k \in Tasks : k < at \/ k = at
          BY <3>1, <4>1 DEF Tasks
        <4> QED BY <1>1, <3>1, <4>2 DEF IInv, ResultOK
      <3> QED BY <2>1, <2>2, <3>1, <3>2, Names
    <2> QED BY <1>1, <2>1, <2>2, <2>3, <2>4 DEF IInv, FramesOK
  <1>2. ASSUME IInv, NEW c \in 0 .. outer, state[c] = "late"
        PROVE  m_ready[c] /\ ~next[c]
    BY <1>2, Names DEF IInv, TypeOK, PromiseOK
  <1>3. IInv => DanglesInThreeCases
    BY <1>1, <1>2 DEF DanglesInThreeCases
  <1> QED BY <1>3, Invariance, PTL
=============================================================================
