--------------------------- MODULE LfDeque_proofs ---------------------------
(***************************************************************************)
(* Proofs about LfDeque, for any thieves, initial size and number of       *)
(* pushes: the active buffer holds the items of the deque, no buffer is    *)
(* deleted under a thief at work, and the deque implements WorkDeque.      *)
(***************************************************************************)
EXTENDS LfDeque, FiniteSetTheorems, SequenceTheorems, TLAPS

AtWork == {"top", "bottom", "buffer", "cas", "get", "done"}

TypeOK ==
    /\ top \in Nat /\ bottom \in Int
    /\ active_buffer \in Nat /\ unlinked \in Nat \union {None}
    /\ buffers = [a \in DOMAIN buffers |-> [size |-> buffers[a].size,
                                            segment |-> buffers[a].segment]]
    /\ \A a \in DOMAIN buffers : /\ a \in Nat
                                 /\ buffers[a].size \in Nat \ {0}
                                 /\ buffers[a].segment \in [0 .. buffers[a].size - 1 -> Nat]
    /\ id_list \in Seq(Thieves)
    /\ was_idle \in [Thieves -> BOOLEAN]
    /\ id_last_used \in [Thieves -> Nat]
    /\ pc \in {"idle", "grow", "put", "publish", "look", "last", "restore", "shrink",
               "scan", "used", "destroyed"}
    /\ b \in Int /\ t \in Nat
    /\ scan \in Seq(Thieves) /\ min_id \in Nat
    /\ tpc \in [Thieves -> AtWork \union {"unregistered", "idle", "reload", "id",
                                          "undefined", "destroyed"}]
    /\ tt \in [Thieves -> Nat] /\ ta \in [Thieves -> Nat]
    /\ pushes \in 0 .. MaxPushes[0]
    /\ itemAt \in [0 .. MaxPushes[0] -> Nat]
    /\ taken \in SUBSET Nat

\* push is on its way to put an item at the index b.
Pushing == \/ pc \in {"grow", "put", "publish"}
           \/ pc \in {"scan", "used"} /\ bottom = b

\* What the owner knows: how bottom, b and t lie, and that the active buffer has
\* room for the item that push has still to put.
OwnerOK ==
    /\ pc \in {"idle", "destroyed"} => top <= bottom
    /\ pc \in {"grow", "put", "publish"} => b = bottom /\ top <= b
    /\ pc = "grow" => t <= top /\ b - t <= size(active_buffer) - 1
    /\ pc \in {"scan", "used"} => /\ b \in {bottom, bottom + 1} /\ top <= bottom
                                  /\ min_id <= active_buffer /\ unlinked # None
    /\ pc = "used" => scan # <<>>
    /\ Pushing /\ pc # "grow" => b - top <= size(active_buffer) - 2
    /\ pc \in {"look", "last", "restore", "shrink"} => b = bottom + 1
    /\ pc = "look" => top <= b
    /\ pc = "last" => t = bottom /\ top \in {t, t + 1}
    /\ pc = "restore" => top = b
    /\ pc = "shrink" => t <= top /\ top <= bottom

\* The deque fits the active buffer.
FitsOK == pc # "destroyed" => End - top <= size(active_buffer) - 1

\* The buffers that exist.
ChainOK ==
    /\ DOMAIN buffers = CASE pc = "destroyed" -> {}
                          [] pc # "destroyed" /\ unlinked = None -> {active_buffer}
                          [] OTHER -> unlinked .. active_buffer
    /\ unlinked <= active_buffer

\* The items are numbered in the order of the pushes, and that of a push under way
\* is neither in the deque nor taken.
Used == IF Pushing THEN pushes - 1 ELSE pushes

ItemsOK ==
    /\ taken \subseteq 1 .. Used
    /\ pc # "restore" => End <= Used
    /\ pc = "restore" => b <= Used
    /\ \A i \in Indices : itemAt[i] \in 1 .. Used
    /\ pc = "publish" => itemAt[b] = pushes /\ get(active_buffer, b) = pushes

Registered(s) == \E k \in DOMAIN id_list : id_list[k] = s

\* A thief at work has said so, is on the list, and uses no buffer older than the one
\* it has noted; what reclaim_buffers has not found out yet it has still to look at.
ThiefOK(s) ==
    /\ tpc[s] \in AtWork => ~was_idle[s]
    /\ tpc[s] \notin {"unregistered", "destroyed"} => Registered(s)
    /\ tpc[s] = "destroyed" <=> pc = "destroyed"
    /\ id_last_used[s] <= active_buffer
    /\ tpc[s] = "id" => ta[s] <= active_buffer
    /\ tpc[s] \in {"cas", "get"} => ta[s] \in DOMAIN buffers /\ id_last_used[s] <= ta[s]
    /\ tpc[s] \in {"cas", "get"} /\ pc \in {"scan", "used"} =>
          min_id <= ta[s] \/ \E k \in DOMAIN scan : scan[k] = s

\* A thief whose claim will succeed has read a buffer with the item, and one whose
\* claim has succeeded still has it there until a later item is claimed.
ClaimOK(s) ==
    /\ tt[s] <= top
    /\ tpc[s] \in {"buffer", "cas"} /\ top = tt[s] => tt[s] \in Indices
    /\ tpc[s] = "cas" /\ top = tt[s] => get(ta[s], tt[s]) = itemAt[tt[s]]
    /\ tpc[s] = "get" => /\ tt[s] < top
                         /\ get(ta[s], tt[s]) = itemAt[tt[s]] \/ top >= tt[s] + 2

Unregistered == {s \in Thieves : tpc[s] = "unregistered"}

\* There is a place on the list for everyone.
ListOK == Len(id_list) + Cardinality(Unregistered) <= Cardinality(Thieves)

IInv == /\ TypeOK /\ OwnerOK /\ FitsOK /\ ChainOK /\ ItemsOK /\ ListOK
        /\ ActiveHoldsContents
        /\ \A s \in Thieves : ThiefOK(s) /\ ClaimOK(s)

-----------------------------------------------------------------------------
(***************************************************************************)
(* Slots and buffers                                                       *)
(***************************************************************************)
LEMMA Times ==
    ASSUME NEW n \in Nat, n > 0, NEW k \in Int
    PROVE  (k >= 1 => n * k >= n) /\ (k <= -1 => n * k <= -n)
  <1>1. k >= 1 => n * k >= n
    BY SMT
  <1>2. k <= -1 => n * k <= -n
    BY SMT
  <1> QED BY <1>1, <1>2

LEMMA Division ==
    ASSUME NEW n \in Nat, n > 0, NEW i \in Nat
    PROVE  /\ i % n \in 0 .. n - 1
           /\ i \div n \in Int
           /\ i = n * (i \div n) + (i % n)
  BY SMT

\* Indices less than the size apart have different slots.
LEMMA SlotsDiffer ==
    ASSUME NEW n \in Nat, n > 0, NEW i \in Nat, NEW j \in Nat, i % n = j % n,
           i - j < n, j - i < n
    PROVE  i = j
  <1> DEFINE k == (i \div n) - (j \div n)
  <1>1. k \in Int /\ n * k = i - j
    <2>1. /\ i \div n \in Int /\ i = n * (i \div n) + (i % n)
          /\ j \div n \in Int /\ j = n * (j \div n) + (j % n)
          /\ i % n \in Int
      BY Division
    <2> DEFINE x == i \div n
               y == j \div n
    <2> HIDE DEF x, y
    <2>2. n * (x - y) = n * x - n * y
      BY <2>1, SMT DEF x, y
    <2> QED BY <2>1, <2>2 DEF x, y
  <1> HIDE DEF k
  <1>2. ~(k >= 1) /\ ~(k <= -1)
    BY <1>1, Times
  <1>3. k = 0
    BY <1>1, <1>2
  <1> QED BY <1>1, <1>3

\* A buffer that is left alone keeps its size and its items.
LEMMA BufferStays ==
    ASSUME NEW a, buffers'[a] = buffers[a]
    PROVE  size(a)' = size(a) /\ \A i : get(a, i)' = get(a, i)
  BY DEF size, get

LEMMA SlotType ==
    ASSUME TypeOK, NEW a \in DOMAIN buffers, NEW i \in Nat
    PROVE  /\ size(a) \in Nat /\ size(a) > 0
           /\ i % size(a) \in 0 .. size(a) - 1
           /\ get(a, i) \in Nat
  <1>1. size(a) \in Nat /\ size(a) > 0 /\ buffers[a].segment \in [0 .. size(a) - 1 -> Nat]
    BY DEF TypeOK, size
  <1>2. i % size(a) \in 0 .. size(a) - 1
    BY <1>1, Division
  <1> QED BY <1>1, <1>2 DEF get

\* resize leaves the buffers that exist alone; the next one has the items of the
\* indices t .. b - 1 if there is room for them.
LEMMA ResizeEffect ==
    ASSUME TypeOK, NEW n \in Nat, n > 0, Resize(n), active_buffer \in DOMAIN buffers,
           \A a \in DOMAIN buffers : a <= active_buffer
    PROVE  /\ active_buffer' = active_buffer + 1
           /\ unlinked' = IF unlinked = None THEN active_buffer ELSE unlinked
           /\ DOMAIN buffers' = DOMAIN buffers \union {active_buffer'}
           /\ \A a \in DOMAIN buffers : buffers'[a] = buffers[a]
           /\ size(active_buffer)' = n
           /\ b - t <= n =>
                 \A i \in t .. b - 1 : get(active_buffer, i)' = get(active_buffer, i)
           /\ buffers' = [a \in DOMAIN buffers' |-> [size |-> buffers'[a].size,
                                                     segment |-> buffers'[a].segment]]
           /\ \A a \in DOMAIN buffers' :
                 /\ a \in Nat
                 /\ buffers'[a].size \in Nat \ {0}
                 /\ buffers'[a].segment \in [0 .. buffers'[a].size - 1 -> Nat]
  <1> DEFINE id == active_buffer
             copy == [j \in 0 .. n - 1 |->
                        IF \E i \in t .. b - 1 : i % n = j
                           THEN get(id, CHOOSE i \in t .. b - 1 : i % n = j) ELSE 0]
             new == [size |-> n, segment |-> copy]
  <1>1. /\ buffers' = [a \in DOMAIN buffers \union {id + 1} |->
                          IF a = id + 1 THEN new ELSE buffers[a]]
        /\ active_buffer' = id + 1
        /\ unlinked' = IF unlinked = None THEN id ELSE unlinked
    BY DEF Resize
  <1>2. copy \in [0 .. n - 1 -> Nat]
    <2>1. ASSUME NEW j \in 0 .. n - 1, \E i \in t .. b - 1 : i % n = j
          PROVE  get(id, CHOOSE i \in t .. b - 1 : i % n = j) \in Nat
      <3>1. (CHOOSE i \in t .. b - 1 : i % n = j) \in Nat
        BY <2>1, SMTT(40) DEF TypeOK
      <3> QED BY <3>1, SlotType
    <2> QED BY <2>1
  <1>3. ASSUME b - t <= n, NEW i \in t .. b - 1 PROVE copy[i % n] = get(id, i)
    <2>1. i \in Nat /\ i % n \in 0 .. n - 1
      BY Division DEF TypeOK
    <2>2. \A k \in t .. b - 1 : k % n = i % n => k = i
      <3>1. ASSUME NEW k \in t .. b - 1, k % n = i % n PROVE k = i
        <4>1. k \in Nat /\ i - k < n /\ k - i < n
          <5>1. b \in Int /\ t \in Nat
            BY DEF TypeOK
          <5> QED BY <1>3, <5>1
        <4> QED BY <2>1, <3>1, <4>1, SlotsDiffer
      <3> QED BY <3>1
    <2>3. (CHOOSE k \in t .. b - 1 : k % n = i % n) = i
      BY <2>2
    <2> QED BY <2>1, <2>3
  <1> HIDE DEF copy
  <1>4. id + 1 \notin DOMAIN buffers /\ id \in Nat
    BY DEF TypeOK
  <1>5. buffers'[id + 1] = new /\ \A a \in DOMAIN buffers : buffers'[a] = buffers[a]
    BY <1>1, <1>4
  <1>6. size(active_buffer)' = n
    BY <1>1, <1>5 DEF size
  <1>7. b - t <= n => \A i \in t .. b - 1 : get(active_buffer, i)' = get(active_buffer, i)
    BY <1>1, <1>3, <1>5, <1>6 DEF get
  <1>8. \A a \in DOMAIN buffers' :
           /\ a \in Nat /\ buffers'[a].size \in Nat \ {0}
           /\ buffers'[a].segment \in [0 .. buffers'[a].size - 1 -> Nat]
           /\ buffers'[a] = [size |-> buffers'[a].size, segment |-> buffers'[a].segment]
    <2>1. CASE TRUE
      <3>1. \A a \in DOMAIN buffers :
               /\ a \in Nat /\ buffers[a].size \in Nat \ {0}
               /\ buffers[a].segment \in [0 .. buffers[a].size - 1 -> Nat]
               /\ buffers[a] = [size |-> buffers[a].size, segment |-> buffers[a].segment]
        BY DEF TypeOK
      <3> QED BY <1>1, <1>2, <1>4, <1>5, <3>1
    <2> QED BY <2>1
  <1> QED BY <1>1, <1>5, <1>6, <1>7, <1>8

\* reclaim_buffers and the destructor leave the other buffers alone.
LEMMA DeleteEffect ==
    ASSUME TypeOK, NEW ids, Delete(ids)
    PROVE  /\ DOMAIN buffers' = DOMAIN buffers \ ids
           /\ \A a \in DOMAIN buffers' : buffers'[a] = buffers[a]
           /\ buffers' = [a \in DOMAIN buffers' |-> [size |-> buffers'[a].size,
                                                     segment |-> buffers'[a].segment]]
           /\ \A a \in DOMAIN buffers' :
                 /\ a \in Nat
                 /\ buffers'[a].size \in Nat \ {0}
                 /\ buffers'[a].segment \in [0 .. buffers'[a].size - 1 -> Nat]
  <1>1. buffers' = [a \in DOMAIN buffers \ ids |-> buffers[a]]
    BY DEF Delete
  <1>2. \A a \in DOMAIN buffers :
           buffers[a] = [size |-> buffers[a].size, segment |-> buffers[a].segment]
    BY DEF TypeOK
  <1> QED BY <1>1, <1>2 DEF TypeOK

\* put changes one slot of the active buffer.
LEMMA PutEffect ==
    ASSUME TypeOK, Put, active_buffer \in DOMAIN buffers, b \in Nat
    PROVE  /\ DOMAIN buffers' = DOMAIN buffers
           /\ \A a \in DOMAIN buffers : a # active_buffer => buffers'[a] = buffers[a]
           /\ \A a \in DOMAIN buffers : size(a)' = size(a)
           /\ get(active_buffer, b)' = pushes
           /\ \A i \in Nat : i # b /\ i - b < size(active_buffer) /\ b - i < size(active_buffer) =>
                 get(active_buffer, i)' = get(active_buffer, i)
           /\ buffers' = [a \in DOMAIN buffers' |-> [size |-> buffers'[a].size,
                                                     segment |-> buffers'[a].segment]]
           /\ \A a \in DOMAIN buffers' :
                 /\ a \in Nat
                 /\ buffers'[a].size \in Nat \ {0}
                 /\ buffers'[a].segment \in [0 .. buffers'[a].size - 1 -> Nat]
  <1> DEFINE id == active_buffer
             n == size(id)
  <1>1. n \in Nat /\ n > 0 /\ b % n \in 0 .. n - 1
    BY SlotType
  <1>2. /\ buffers' = [buffers EXCEPT ![id].segment[b % n] = pushes]
        /\ active_buffer' = active_buffer /\ b' = b
    BY DEF Put
  <1>3. /\ buffers[id] = [size |-> n, segment |-> buffers[id].segment]
        /\ buffers[id].segment \in [0 .. n - 1 -> Nat]
        /\ pushes \in Nat
    BY DEF TypeOK, size
  <1>4. /\ DOMAIN buffers' = DOMAIN buffers
        /\ \A a \in DOMAIN buffers : a # id => buffers'[a] = buffers[a]
        /\ buffers'[id] = [size |-> n,
                           segment |-> [buffers[id].segment EXCEPT ![b % n] = pushes]]
    <2>1. buffers = [a \in DOMAIN buffers |-> buffers[a]]
      BY DEF TypeOK
    <2> DEFINE k == b % n
    <2>2. buffers' = [buffers EXCEPT ![id].segment[k] = pushes]
      BY <1>2
    <2> HIDE DEF k, n
    <2>3. /\ DOMAIN buffers' = DOMAIN buffers
          /\ \A a \in DOMAIN buffers : a # id => buffers'[a] = buffers[a]
      BY <2>1, <2>2
    <2>4. buffers'[id] = [buffers[id] EXCEPT !.segment[k] = pushes]
      BY <2>1, <2>2
    <2> DEFINE g == buffers[id].segment
    <2>5. buffers'[id] = [size |-> n, segment |-> [g EXCEPT ![k] = pushes]]
      BY <1>3, <2>4
    <2> QED BY <2>3, <2>5 DEF k
  <1>5. size(id)' = n /\ \A a \in DOMAIN buffers : size(a)' = size(a)
    BY <1>2, <1>4 DEF size
  <1> HIDE DEF n
  <1>6. get(active_buffer, b)' = pushes
    BY <1>1, <1>2, <1>3, <1>4, <1>5 DEF get
  <1>7. ASSUME NEW i \in Nat, i # b, i - b < n, b - i < n
        PROVE  get(active_buffer, i)' = get(active_buffer, i)
    <2>1. i % n # b % n /\ i % n \in 0 .. n - 1
      BY <1>1, <1>7, SlotsDiffer, Division
    <2> QED BY <1>1, <1>2, <1>3, <1>4, <1>5, <2>1 DEF get, n
  <1>8. \A a \in DOMAIN buffers' :
           /\ a \in Nat /\ buffers'[a].size \in Nat \ {0}
           /\ buffers'[a].segment \in [0 .. buffers'[a].size - 1 -> Nat]
           /\ buffers'[a] = [size |-> buffers'[a].size, segment |-> buffers'[a].segment]
    <2>1. \A a \in DOMAIN buffers :
               /\ a \in Nat /\ buffers[a].size \in Nat \ {0}
               /\ buffers[a].segment \in [0 .. buffers[a].size - 1 -> Nat]
               /\ buffers[a] = [size |-> buffers[a].size, segment |-> buffers[a].segment]
      BY DEF TypeOK
    <2>2. [buffers[id].segment EXCEPT ![b % n] = pushes] \in [0 .. n - 1 -> Nat]
      BY <1>1, <1>3
    <2> SUFFICES ASSUME NEW a \in DOMAIN buffers'
                 PROVE  /\ a \in Nat /\ buffers'[a].size \in Nat \ {0}
                        /\ buffers'[a].segment \in [0 .. buffers'[a].size - 1 -> Nat]
                        /\ buffers'[a] = [size |-> buffers'[a].size,
                                          segment |-> buffers'[a].segment]
      OBVIOUS
    <2>3. CASE a = id
      <3>1. /\ buffers'[id].size = n
            /\ buffers'[id].segment = [buffers[id].segment EXCEPT ![b % n] = pushes]
        BY <1>4
      <3> QED BY <1>1, <1>4, <2>1, <2>2, <2>3, <3>1
    <2>4. CASE a # id
      BY <1>4, <2>1, <2>4
    <2> QED BY <2>3, <2>4
  <1>9. buffers' = [a \in DOMAIN buffers' |-> [size |-> buffers'[a].size,
                                               segment |-> buffers'[a].segment]]
    <2>1. buffers' = [a \in DOMAIN buffers' |-> buffers'[a]]
      BY <1>2 DEF TypeOK
    <2> QED BY <1>8, <2>1
  <1> QED BY <1>4, <1>5, <1>6, <1>7, <1>8, <1>9 DEF n
-----------------------------------------------------------------------------
(***************************************************************************)
(* What is left alone                                                      *)
(***************************************************************************)
LEMMA Constants ==
    /\ MaxPushes[0] \in Nat /\ InitialSize \in Nat /\ InitialSize > 0
    /\ Cardinality(Thieves) \in Nat
    /\ \A n \in 0 .. Cardinality(Thieves) : MaxPushes[n] \in Nat /\ MaxPushes[n] <= MaxPushes[0]
  <1>1. Cardinality(Thieves) \in Nat
    BY DequeAssumption, FS_CardinalityType
  <1> QED BY <1>1, DequeAssumption

LEMMA ActiveExists ==
    ASSUME TypeOK, ChainOK, pc # "destroyed"
    PROVE  /\ active_buffer \in DOMAIN buffers
           /\ \A a \in DOMAIN buffers : a <= active_buffer
           /\ size(active_buffer) \in Nat /\ size(active_buffer) > 0
           /\ unlinked # None => \A a \in unlinked .. active_buffer : a \in DOMAIN buffers
  <1>1. /\ active_buffer \in DOMAIN buffers
        /\ \A a \in DOMAIN buffers : a <= active_buffer
        /\ unlinked # None => \A a \in unlinked .. active_buffer : a \in DOMAIN buffers
    BY DEF TypeOK, ChainOK, None
  <1> QED BY <1>1, SlotType

\* A thief's claim stays good while it takes no step, top only grows, the owner
\* leaves the item at top, and the item is still where the thief looks for it.
LEMMA ClaimStays ==
    ASSUME TypeOK, TypeOK', NEW s \in Thieves, ClaimOK(s),
           tpc'[s] = tpc[s], tt'[s] = tt[s], ta'[s] = ta[s],
           top' >= top, top' = top /\ top < End => top < End', End' \in Int, End \in Int,
           (tpc[s] = "cas" /\ top = tt[s]) \/ (tpc[s] = "get" /\ top = tt[s] + 1) =>
              get(ta[s], tt[s])' = get(ta[s], tt[s]) /\ itemAt'[tt[s]] = itemAt[tt[s]]
    PROVE  ClaimOK(s)'
  <1>1. top \in Nat /\ top' \in Nat /\ tt[s] \in Nat
    BY DEF TypeOK
  <1>2. tt'[s] <= top'
    BY <1>1 DEF ClaimOK
  <1>3. tpc'[s] \in {"buffer", "cas"} /\ top' = tt'[s] => tt'[s] \in Indices'
    BY <1>1 DEF ClaimOK, Indices
  <1>4. tpc'[s] = "cas" /\ top' = tt'[s] => get(ta[s], tt[s])' = itemAt'[tt'[s]]
    BY <1>1 DEF ClaimOK
  <1>5. tpc'[s] = "get" => /\ tt'[s] < top'
                           /\ get(ta[s], tt[s])' = itemAt'[tt'[s]] \/ top' >= tt'[s] + 2
    BY <1>1 DEF ClaimOK
  <1> QED BY <1>2, <1>3, <1>4, <1>5 DEF ClaimOK

\* A step of the owner does not disturb a thief, if it deletes no buffer a thief at
\* work still uses and its scan passes over nobody at work.
LEMMA ThiefStays ==
    ASSUME TypeOK, TypeOK', NEW s \in Thieves, ThiefOK(s),
           UNCHANGED <<tokens, thief>>,
           active_buffer' >= active_buffer, pc # "destroyed", pc' # "destroyed",
           tpc[s] \in {"cas", "get"} => ta[s] \in DOMAIN buffers',
           tpc[s] \in {"cas", "get"} /\ pc' \in {"scan", "used"} =>
              min_id' <= ta[s] \/ \E k \in DOMAIN scan' : scan'[k] = s
    PROVE  ThiefOK(s)'
  <1>1. UNCHANGED <<id_list, was_idle, id_last_used, tpc, ta>>
    BY DEF tokens, thief
  <1>2. active_buffer \in Nat /\ active_buffer' \in Nat /\ ta[s] \in Nat /\ id_last_used[s] \in Nat
    BY DEF TypeOK
  <1>3. id_last_used'[s] <= active_buffer' /\ (tpc'[s] = "id" => ta'[s] <= active_buffer')
    BY <1>1, <1>2 DEF ThiefOK
  <1>4. /\ tpc'[s] \in AtWork => ~was_idle'[s]
        /\ tpc'[s] \notin {"unregistered", "destroyed"} => Registered(s)'
        /\ tpc'[s] = "destroyed" <=> pc' = "destroyed"
    BY <1>1 DEF ThiefOK, Registered
  <1>5. tpc'[s] \in {"cas", "get"} => ta'[s] \in DOMAIN buffers' /\ id_last_used'[s] <= ta'[s]
    BY <1>1 DEF ThiefOK
  <1>6. tpc'[s] \in {"cas", "get"} /\ pc' \in {"scan", "used"} =>
              min_id' <= ta'[s] \/ \E k \in DOMAIN scan' : scan'[k] = s
    BY <1>1
  <1> QED BY <1>3, <1>4, <1>5, <1>6 DEF ThiefOK

\* No step of the owner but put disturbs the thieves: see ClaimStays and ThiefStays.
LEMMA ThievesStay ==
    ASSUME TypeOK, TypeOK', \A s \in Thieves : ThiefOK(s) /\ ClaimOK(s),
           UNCHANGED <<tokens, thief, itemAt>>,
           active_buffer' >= active_buffer, pc # "destroyed", pc' # "destroyed",
           \A a \in DOMAIN buffers \cap DOMAIN buffers' : buffers'[a] = buffers[a],
           top' >= top, top' = top /\ top < End => top < End',
           \A s \in Thieves : tpc[s] \in {"cas", "get"} =>
              /\ ta[s] \in DOMAIN buffers'
              /\ pc' \in {"scan", "used"} =>
                    min_id' <= ta[s] \/ \E k \in DOMAIN scan' : scan'[k] = s
    PROVE  \A s \in Thieves : ThiefOK(s)' /\ ClaimOK(s)'
  <1> SUFFICES ASSUME NEW s \in Thieves PROVE ThiefOK(s)' /\ ClaimOK(s)'
    OBVIOUS
  <1>1. ThiefOK(s)'
    BY ThiefStays
  <1>2. /\ tpc'[s] = tpc[s] /\ tt'[s] = tt[s] /\ ta'[s] = ta[s] /\ itemAt' = itemAt
        /\ UNCHANGED ta
    BY DEF thief
  <1>3. tpc[s] \in {"cas", "get"} => get(ta[s], tt[s])' = get(ta[s], tt[s])
    <2>1. ASSUME tpc[s] \in {"cas", "get"} PROVE get(ta[s], tt[s])' = get(ta[s], tt[s])
      <3>1. buffers'[ta[s]] = buffers[ta[s]]
        BY <2>1 DEF ThiefOK
      <3> QED BY <1>2, <3>1 DEF get, size
    <2> QED BY <2>1
  <1>4. End \in Int /\ End' \in Int
    BY DEF TypeOK, End
  <1>5. ClaimOK(s)
    OBVIOUS
  <1>6. ClaimOK(s)'
    BY <1>2, <1>3, <1>4, <1>5, ClaimStays
  <1> QED BY <1>1, <1>6

LEMMA ThievesWatch ==
    ASSUME IInv, TypeOK', UNCHANGED <<tokens, thief, memory, itemAt>>,
           pc # "destroyed", pc' \notin {"destroyed", "scan", "used"},
           top' >= top, top' = top /\ top < End => top < End'
    PROVE  \A s \in Thieves : ThiefOK(s)' /\ ClaimOK(s)'
  <1>1. TypeOK /\ \A s \in Thieves : ThiefOK(s) /\ ClaimOK(s)
    BY DEF IInv
  <1>2. /\ buffers' = buffers /\ active_buffer' = active_buffer /\ active_buffer \in Nat
        /\ UNCHANGED <<tokens, thief, itemAt>>
    BY <1>1 DEF memory, TypeOK
  <1>3. \A s \in Thieves : tpc[s] \in {"cas", "get"} => ta[s] \in DOMAIN buffers'
    BY <1>1, <1>2 DEF ThiefOK
  <1> QED BY <1>1, <1>2, <1>3, ThievesStay

\* The active buffer keeps the items of the deque when it keeps its slots, and
\* nothing is added.
LEMMA ContentsStay ==
    ASSUME TypeOK, TypeOK', ActiveHoldsContents, pc # "destroyed",
           UNCHANGED <<active_buffer, buffers, itemAt>>,
           \A i \in Indices' : i \in Indices
    PROVE  ActiveHoldsContents'
  BY DEF ActiveHoldsContents, get, size

LEMMA ListStays ==
    ASSUME ListOK, id_list' = id_list, tpc' = tpc
    PROVE  ListOK'
  BY DEF ListOK, Unregistered

-----------------------------------------------------------------------------
LEMMA IInvInit == Init => IInv
  <1> SUFFICES ASSUME Init PROVE IInv
    OBVIOUS
  <1>1. TypeOK
    BY Constants DEF Init, TypeOK, Ring, None, AtWork
  <1>2. size(active_buffer) = InitialSize
    BY DEF Init, size, Ring
  <1>3. Indices = {}
    BY DEF Init, Indices, End
  <1>4. OwnerOK /\ FitsOK /\ ActiveHoldsContents
    BY <1>2, <1>3, Constants DEF Init, OwnerOK, FitsOK, ActiveHoldsContents, Pushing, End
  <1>5. ChainOK
    BY DEF Init, ChainOK, None
  <1>6. ItemsOK
    BY <1>3 DEF Init, ItemsOK, End, Used, Pushing
  <1>7. ListOK
    <2>1. Unregistered = Thieves
      BY DEF Init, Unregistered
    <2> QED BY <2>1, Constants DEF Init, ListOK
  <1>8. \A s \in Thieves : ThiefOK(s) /\ ClaimOK(s)
    BY DEF Init, ThiefOK, ClaimOK, AtWork
  <1> QED BY <1>1, <1>4, <1>5, <1>6, <1>7, <1>8 DEF IInv

(***************************************************************************)
(* Steps of the owner                                                      *)
(***************************************************************************)
LEMMA PushStep == ASSUME IInv, Push PROVE IInv'
  <1> USE DEF thief, tokens, memory, owner
  <1>0. /\ TypeOK /\ OwnerOK /\ FitsOK /\ ChainOK /\ ItemsOK /\ ListOK /\ ActiveHoldsContents
        /\ \A s \in Thieves : ThiefOK(s) /\ ClaimOK(s)
    BY DEF IInv
  <1>a. /\ pc = "idle" /\ pc' = "grow" /\ b' = bottom /\ t' = top /\ pushes' = pushes + 1
        /\ UNCHANGED <<top, bottom, memory, tokens, scan, min_id, thief, itemAt, taken>>
    BY DEF Push
  <1>c. pushes \in Nat /\ pushes < MaxPushes[0]
    <2>1. Len(id_list) \in 0 .. Cardinality(Thieves)
      <3>1. Unregistered \subseteq Thieves /\ IsFiniteSet(Thieves)
        BY DequeAssumption DEF Unregistered
      <3>2. Cardinality(Unregistered) \in Nat
        BY <3>1, FS_Subset, FS_CardinalityType
      <3> QED BY <1>0, <3>2, Constants DEF ListOK, TypeOK
    <2>2. pushes \in Nat /\ pushes < MaxPushes[Len(id_list)]
      BY <1>0 DEF Push, TypeOK
    <2> QED BY <2>1, <2>2, Constants
  <1>b. bottom \in Nat /\ top \in Nat /\ top <= bottom
    BY <1>0, <1>a DEF OwnerOK, TypeOK
  <1>1. TypeOK'
    <2>1. pushes' \in 0 .. MaxPushes[0]
      BY <1>a, <1>c, Constants
    <2> QED BY <1>0, <1>a, <1>b, <2>1 DEF TypeOK
  <1>2. size(active_buffer)' = size(active_buffer) /\ End' = End /\ Indices' = Indices
    BY <1>a DEF size, End, Indices
  <1>3. OwnerOK' /\ FitsOK'
    BY <1>0, <1>a, <1>b, <1>2 DEF OwnerOK, FitsOK, Pushing, End
  <1>4. ChainOK'
    BY <1>0, <1>a DEF ChainOK
  <1>5. ItemsOK'
    <2>1. Used' = Used
      BY <1>0, <1>a DEF Used, Pushing, TypeOK
    <2> QED BY <1>0, <1>a, <1>2, <2>1 DEF ItemsOK
  <1>6. ActiveHoldsContents'
    BY <1>0, <1>1, <1>2, <1>a, ContentsStay
  <1>7. \A s \in Thieves : ThiefOK(s)' /\ ClaimOK(s)'
    <2>1. pc' \notin {"destroyed", "scan", "used"} /\ pc # "destroyed" /\ itemAt' = itemAt
      BY <1>a
    <2>2. top' >= top /\ (top' = top /\ top < End => top < End')
      BY <1>a, <1>b, <1>2
    <2> QED BY <1>1, <1>a, <2>1, <2>2, ThievesWatch
  <1> QED BY <1>0, <1>a, <1>1, <1>3, <1>4, <1>5, <1>6, <1>7, ListStays DEF IInv

LEMMA PopStep == ASSUME IInv, Pop PROVE IInv'
  <1> USE DEF thief, tokens, memory, owner, EndCall
  <1>0. /\ TypeOK /\ OwnerOK /\ FitsOK /\ ChainOK /\ ItemsOK /\ ListOK /\ ActiveHoldsContents
        /\ \A s \in Thieves : ThiefOK(s) /\ ClaimOK(s)
    BY DEF IInv
  <1>a. /\ pc = "idle" /\ pc' = "look" /\ b' = bottom /\ bottom' = bottom - 1
        /\ UNCHANGED <<top, memory, tokens, t, scan, min_id, thief, ghost>>
    BY DEF Pop
  <1>b. bottom \in Nat /\ top \in Nat /\ top <= bottom
    BY <1>0, <1>a DEF OwnerOK, TypeOK
  <1>1. TypeOK'
    BY <1>0, <1>a, <1>b, SMTT(40) DEF TypeOK, ghost
  <1>2. size(active_buffer)' = size(active_buffer) /\ End' = End /\ Indices' = Indices
    BY <1>a DEF size, End, Indices
  <1>3. OwnerOK' /\ FitsOK'
    BY <1>0, <1>a, <1>b, <1>2 DEF OwnerOK, FitsOK, Pushing, End
  <1>4. ChainOK'
    BY <1>0, <1>a DEF ChainOK
  <1>5. ItemsOK'
    <2>1. Used' = Used
      BY <1>a DEF Used, Pushing, ghost
    <2> QED BY <1>0, <1>a, <1>2, <2>1 DEF ItemsOK, ghost
  <1>6. ActiveHoldsContents'
    BY <1>0, <1>1, <1>2, <1>a, ContentsStay DEF ghost
  <1>7. \A s \in Thieves : ThiefOK(s)' /\ ClaimOK(s)'
    <2>1. pc' \notin {"destroyed", "scan", "used"} /\ pc # "destroyed" /\ itemAt' = itemAt
      BY <1>a DEF ghost
    <2>2. top' >= top /\ (top' = top /\ top < End => top < End')
      BY <1>a, <1>b, <1>2
    <2> QED BY <1>1, <1>a, <2>1, <2>2, ThievesWatch
  <1> QED BY <1>0, <1>a, <1>1, <1>3, <1>4, <1>5, <1>6, <1>7, ListStays DEF IInv

LEMMA RestoreStep == ASSUME IInv, Restore PROVE IInv'
  <1> USE DEF thief, tokens, memory, owner, EndCall
  <1>0. /\ TypeOK /\ OwnerOK /\ FitsOK /\ ChainOK /\ ItemsOK /\ ListOK /\ ActiveHoldsContents
        /\ \A s \in Thieves : ThiefOK(s) /\ ClaimOK(s)
    BY DEF IInv
  <1>a. /\ pc = "restore" /\ pc' = "idle" /\ bottom' = b
        /\ b' = 0 /\ t' = 0 /\ scan' = <<>> /\ min_id' = 0
        /\ UNCHANGED <<top, memory, tokens, thief, ghost>>
    BY DEF Restore
  <1>b. bottom \in Int /\ top \in Nat /\ top = b /\ bottom = b - 1
    BY <1>0, <1>a DEF OwnerOK, TypeOK
  <1>1. TypeOK'
    BY <1>0, <1>a, <1>b, SMTT(40) DEF TypeOK, ghost
  <1>2. /\ size(active_buffer)' = size(active_buffer) /\ End' = top /\ End \in Int /\ End < top
        /\ \A i : i \notin Indices /\ i \notin Indices'
    BY <1>a, <1>b DEF size, End, Indices
  <1>3. OwnerOK' /\ FitsOK'
    <2>1. size(active_buffer) \in Nat /\ size(active_buffer) > 0
      BY <1>0, <1>a, ActiveExists
    <2> QED BY <1>0, <1>a, <1>b, <1>2, <2>1 DEF OwnerOK, FitsOK, Pushing
  <1>4. ChainOK'
    BY <1>0, <1>a DEF ChainOK
  <1>5. ItemsOK'
    <2>1. Used' = Used
      BY <1>a DEF Used, Pushing, ghost
    <2> QED BY <1>0, <1>a, <1>b, <1>2, <2>1 DEF ItemsOK, ghost
  <1>6. ActiveHoldsContents'
    BY <1>0, <1>1, <1>2, <1>a, ContentsStay DEF ghost
  <1>7. \A s \in Thieves : ThiefOK(s)' /\ ClaimOK(s)'
    <2>1. pc' \notin {"destroyed", "scan", "used"} /\ pc # "destroyed" /\ itemAt' = itemAt
      BY <1>a DEF ghost
    <2>2. top' >= top /\ (top' = top /\ top < End => top < End')
      BY <1>a, <1>b, <1>2
    <2> QED BY <1>1, <1>a, <2>1, <2>2, ThievesWatch
  <1> QED BY <1>0, <1>a, <1>1, <1>3, <1>4, <1>5, <1>6, <1>7, ListStays DEF IInv

LEMMA PublishStep == ASSUME IInv, Publish PROVE IInv'
  <1> USE DEF thief, tokens, memory, owner, EndCall
  <1>0. /\ TypeOK /\ OwnerOK /\ FitsOK /\ ChainOK /\ ItemsOK /\ ListOK /\ ActiveHoldsContents
        /\ \A s \in Thieves : ThiefOK(s) /\ ClaimOK(s)
    BY DEF IInv
  <1>a. /\ pc = "publish" /\ pc' = "idle" /\ bottom' = b + 1
        /\ b' = 0 /\ t' = 0 /\ scan' = <<>> /\ min_id' = 0
        /\ UNCHANGED <<top, memory, tokens, thief, ghost>>
    BY DEF Publish
  <1>b. bottom \in Nat /\ top \in Nat /\ top <= bottom /\ b = bottom
    BY <1>0, <1>a DEF OwnerOK, TypeOK
  <1>1. TypeOK'
    <2>1. bottom' \in Int
      BY <1>a, <1>b
    <2> QED BY <1>0, <1>a, <2>1, SMTT(40) DEF TypeOK, ghost
  <1>2. /\ size(active_buffer)' = size(active_buffer) /\ End = b /\ End' = b + 1
        /\ \A i \in Indices' : i = b \/ i \in Indices
    BY <1>a, <1>b DEF size, End, Indices
  <1>3. OwnerOK' /\ FitsOK'
    <2>1. size(active_buffer) \in Nat /\ b - top <= size(active_buffer) - 2
      BY <1>0, <1>a, ActiveExists DEF OwnerOK, Pushing
    <2> QED BY <1>0, <1>a, <1>b, <1>2, <2>1 DEF OwnerOK, FitsOK, Pushing
  <1>4. ChainOK'
    BY <1>0, <1>a DEF ChainOK
  <1>5. ItemsOK'
    <2>1. Used = pushes - 1 /\ Used' = pushes /\ pushes \in Nat
      BY <1>0, <1>a DEF Used, Pushing, ghost, TypeOK
    <2>2. b \in Nat /\ b <= pushes - 1 /\ itemAt[b] = pushes
      BY <1>0, <1>a, <1>b, <1>2, <2>1 DEF ItemsOK
    <2>3. taken' \subseteq 1 .. Used'
      BY <1>0, <1>a, <2>1 DEF ItemsOK, ghost
    <2>4. \A i \in Indices' : itemAt'[i] \in 1 .. Used'
      BY <1>0, <1>a, <1>2, <2>1, <2>2 DEF ItemsOK, ghost
    <2> QED BY <1>a, <1>2, <2>1, <2>2, <2>3, <2>4 DEF ItemsOK
  <1>6. ActiveHoldsContents'
    <2>1. ASSUME NEW i \in Indices' PROVE get(active_buffer, i)' = itemAt'[i]
      <3>1. get(active_buffer, i) = itemAt[i]
        BY <1>0, <1>a, <1>2, <2>1 DEF ActiveHoldsContents, ItemsOK
      <3> QED BY <1>a, <3>1 DEF get, size, ghost
    <2> QED BY <2>1 DEF ActiveHoldsContents
  <1>7. \A s \in Thieves : ThiefOK(s)' /\ ClaimOK(s)'
    <2>1. pc' \notin {"destroyed", "scan", "used"} /\ pc # "destroyed" /\ itemAt' = itemAt
      BY <1>a DEF ghost
    <2>2. top' >= top /\ (top' = top /\ top < End => top < End')
      BY <1>a, <1>b, <1>2
    <2> QED BY <1>1, <1>a, <2>1, <2>2, ThievesWatch
  <1> QED BY <1>0, <1>a, <1>1, <1>3, <1>4, <1>5, <1>6, <1>7, ListStays DEF IInv

LEMMA LastItemStep == ASSUME IInv, LastItem PROVE IInv'
  <1> USE DEF thief, tokens, memory, owner, EndCall
  <1>0. /\ TypeOK /\ OwnerOK /\ FitsOK /\ ChainOK /\ ItemsOK /\ ListOK /\ ActiveHoldsContents
        /\ \A s \in Thieves : ThiefOK(s) /\ ClaimOK(s)
    BY DEF IInv
  <1>a. /\ pc = "last" /\ pc' = "restore" /\ t' = 0
        /\ \/ top = t /\ top' = t + 1 /\ taken' = taken \union {itemAt[t]}
           \/ top # t /\ top' = top /\ taken' = taken
        /\ UNCHANGED <<bottom, memory, tokens, b, scan, min_id, thief, pushes, itemAt>>
    BY DEF LastItem, Take
  <1>b. /\ bottom \in Int /\ top \in Nat /\ t \in Nat /\ bottom = t /\ b = t + 1
        /\ top \in {t, t + 1} /\ top' = b
    BY <1>0, <1>a DEF OwnerOK, TypeOK
  <1>2. /\ size(active_buffer)' = size(active_buffer) /\ End' = bottom /\ End = b
        /\ \A i : i \notin Indices'
        /\ top = t => t \in Indices
    BY <1>a, <1>b DEF size, End, Indices
  <1>c. taken' \subseteq 1 .. Used /\ Used \in Nat
    BY <1>0, <1>a, <1>2 DEF ItemsOK, Used, Pushing, TypeOK
  <1>1. TypeOK'
    <2>1. taken' \in SUBSET Nat
      BY <1>c
    <2> QED BY <1>0, <1>a, <1>b, <2>1 DEF TypeOK
  <1>3. OwnerOK' /\ FitsOK'
    <2>1. size(active_buffer) \in Nat /\ size(active_buffer) > 0
      BY <1>0, <1>a, ActiveExists
    <2> QED BY <1>0, <1>a, <1>b, <1>2, <2>1 DEF OwnerOK, FitsOK, Pushing
  <1>4. ChainOK'
    BY <1>0, <1>a DEF ChainOK
  <1>5. ItemsOK'
    <2>1. Used' = Used
      BY <1>a DEF Used, Pushing
    <2> QED BY <1>0, <1>a, <1>b, <1>c, <1>2, <2>1 DEF ItemsOK
  <1>6. ActiveHoldsContents'
    BY <1>0, <1>1, <1>2, <1>a, ContentsStay
  <1>7. \A s \in Thieves : ThiefOK(s)' /\ ClaimOK(s)'
    <2>1. pc' \notin {"destroyed", "scan", "used"} /\ pc # "destroyed" /\ itemAt' = itemAt
      BY <1>a
    <2>2. top' >= top /\ (top' = top /\ top < End => top < End')
      BY <1>a, <1>b, <1>2
    <2> QED BY <1>1, <1>a, <2>1, <2>2, ThievesWatch
  <1> QED BY <1>0, <1>a, <1>1, <1>3, <1>4, <1>5, <1>6, <1>7, ListStays DEF IInv

LEMMA LookStep == ASSUME IInv, Look PROVE IInv'
  <1> USE DEF thief, tokens, memory, owner, EndCall
  <1>0. /\ TypeOK /\ OwnerOK /\ FitsOK /\ ChainOK /\ ItemsOK /\ ListOK /\ ActiveHoldsContents
        /\ \A s \in Thieves : ThiefOK(s) /\ ClaimOK(s)
    BY DEF IInv
  <1>a. /\ pc = "look" /\ t' \in {t, top}
        /\ \/ b - top <= 0 /\ pc' = "restore" /\ taken' = taken
           \/ b - top = 1 /\ pc' = "last" /\ t' = top /\ taken' = taken
           \/ b - top > 1 /\ pc' = "shrink" /\ t' = top /\ taken' = taken \union {itemAt[b - 1]}
        /\ UNCHANGED <<top, bottom, memory, tokens, b, scan, min_id, thief, pushes, itemAt>>
    BY DEF Look, Take
  <1>b. /\ bottom \in Int /\ b \in Nat /\ top \in Nat /\ b = bottom + 1 /\ top <= b
    BY <1>0, <1>a DEF OwnerOK, TypeOK
  <1>2. /\ size(active_buffer)' = size(active_buffer) /\ End = b /\ End' \in {b, b - 1}
        /\ top < End => top < End' /\ b - 1 \in Indices
        /\ \A i \in Indices' : i \in Indices
        /\ pc' = "shrink" => End' = b - 1
    BY <1>a, <1>b DEF size, End, Indices
  <1>c. taken' \subseteq 1 .. Used /\ Used \in Nat
    <2>1. Used \in Nat /\ taken \subseteq 1 .. Used
      BY <1>0, <1>a DEF ItemsOK, Used, Pushing, TypeOK
    <2>2. b - top > 1 => itemAt[b - 1] \in 1 .. Used
      BY <1>0, <1>a, <1>b, <1>2 DEF ItemsOK
    <2> QED BY <1>a, <2>1, <2>2
  <1>1. TypeOK'
    <2>1. taken' \in SUBSET Nat
      BY <1>c
    <2> QED BY <1>0, <1>a, <1>b, <2>1 DEF TypeOK
  <1>3. OwnerOK' /\ FitsOK'
    <2>1. size(active_buffer) \in Nat /\ size(active_buffer) > 0
      BY <1>0, <1>a, ActiveExists
    <2> QED BY <1>0, <1>a, <1>b, <1>2, <2>1 DEF OwnerOK, FitsOK, Pushing
  <1>4. ChainOK'
    BY <1>0, <1>a DEF ChainOK
  <1>5. ItemsOK'
    <2>1. Used' = Used
      BY <1>a DEF Used, Pushing
    <2> QED BY <1>0, <1>a, <1>b, <1>c, <1>2, <2>1 DEF ItemsOK
  <1>6. ActiveHoldsContents'
    BY <1>0, <1>1, <1>2, <1>a, ContentsStay
  <1>7. \A s \in Thieves : ThiefOK(s)' /\ ClaimOK(s)'
    <2>1. pc' \notin {"destroyed", "scan", "used"} /\ pc # "destroyed" /\ itemAt' = itemAt
      BY <1>a
    <2>2. top' >= top /\ (top' = top /\ top < End => top < End')
      BY <1>a, <1>b, <1>2
    <2> QED BY <1>1, <1>a, <2>1, <2>2, ThievesWatch
  <1> QED BY <1>0, <1>a, <1>1, <1>3, <1>4, <1>5, <1>6, <1>7, ListStays DEF IInv

LEMMA PutStep == ASSUME IInv, Put PROVE IInv'
  <1> USE DEF thief, tokens, memory, owner, EndCall
  <1>0. /\ TypeOK /\ OwnerOK /\ FitsOK /\ ChainOK /\ ItemsOK /\ ListOK /\ ActiveHoldsContents
        /\ \A s \in Thieves : ThiefOK(s) /\ ClaimOK(s)
    BY DEF IInv
  <1>a. /\ pc = "put" /\ pc' = "publish" /\ itemAt' = [itemAt EXCEPT ![b] = pushes]
        /\ UNCHANGED <<top, bottom, active_buffer, unlinked, tokens,
                       b, t, scan, min_id, thief, pushes, taken>>
    BY DEF Put
  <1>b. /\ b \in Nat /\ top \in Nat /\ b = bottom /\ top <= b
        /\ b - top <= size(active_buffer) - 2
    BY <1>0, <1>a DEF OwnerOK, TypeOK, Pushing
  <1>c. /\ active_buffer \in DOMAIN buffers
        /\ size(active_buffer) \in Nat /\ size(active_buffer) > 0
    BY <1>0, <1>a, ActiveExists
  <1>d. /\ DOMAIN buffers' = DOMAIN buffers
        /\ \A a \in DOMAIN buffers : a # active_buffer => buffers'[a] = buffers[a]
        /\ \A a \in DOMAIN buffers : size(a)' = size(a)
        /\ get(active_buffer, b)' = pushes
        /\ \A i \in Nat : i # b /\ i - b < size(active_buffer) /\ b - i < size(active_buffer) =>
              get(active_buffer, i)' = get(active_buffer, i)
    BY <1>0, <1>b, <1>c, PutEffect
  <1>e. /\ buffers' = [a \in DOMAIN buffers' |-> [size |-> buffers'[a].size,
                                                  segment |-> buffers'[a].segment]]
        /\ \A a \in DOMAIN buffers' :
              /\ a \in Nat
              /\ buffers'[a].size \in Nat \ {0}
              /\ buffers'[a].segment \in [0 .. buffers'[a].size - 1 -> Nat]
    BY <1>0, <1>b, <1>c, PutEffect
  <1>2. /\ size(active_buffer)' = size(active_buffer) /\ End = b /\ End' = b
        /\ Indices = top .. b - 1 /\ Indices' = Indices
    BY <1>a, <1>b, <1>c, <1>d DEF End, Indices, size
  <1>f. /\ b \in 0 .. MaxPushes[0] /\ pushes \in Nat /\ Used = pushes - 1 /\ Used' = Used
        /\ b <= Used
    BY <1>0, <1>a, <1>b, <1>2, Constants, SMTT(40) DEF ItemsOK, Used, Pushing, TypeOK
  <1>g. /\ itemAt'[b] = pushes /\ \A i \in Nat : i # b => itemAt'[i] = itemAt[i]
        /\ itemAt' \in [0 .. MaxPushes[0] -> Nat]
    BY <1>0, <1>a, <1>f DEF TypeOK
  <1>1. TypeOK'
    BY <1>0, <1>a, <1>e, <1>g DEF TypeOK
  <1>3. OwnerOK' /\ FitsOK'
    BY <1>0, <1>a, <1>b, <1>c, <1>2 DEF OwnerOK, FitsOK, Pushing
  <1>4. ChainOK'
    BY <1>0, <1>a, <1>d DEF ChainOK
  <1>5. ItemsOK'
    <2>1. get(active_buffer, b)' = pushes' /\ itemAt'[b'] = pushes'
      BY <1>a, <1>d, <1>g
    <2>2. \A i \in Indices' : itemAt'[i] \in 1 .. Used'
      BY <1>0, <1>b, <1>2, <1>f, <1>g DEF ItemsOK
    <2> QED BY <1>0, <1>a, <1>b, <1>2, <1>f, <2>1, <2>2 DEF ItemsOK
  <1>6. ActiveHoldsContents'
    <2>1. ASSUME NEW i \in Indices' PROVE get(active_buffer, i)' = itemAt'[i]
      <3>1. i \in Indices /\ i \in Nat /\ i # b /\ i - b < size(active_buffer)
            /\ b - i < size(active_buffer)
        BY <1>b, <1>c, <1>2, <2>1
      <3> QED BY <1>0, <1>a, <1>d, <1>g, <3>1 DEF ActiveHoldsContents
    <2> QED BY <2>1 DEF ActiveHoldsContents
  <1>7. ASSUME NEW s \in Thieves PROVE ThiefOK(s)' /\ ClaimOK(s)'
    <2>1. ThiefOK(s)'
      <3>1. /\ active_buffer' >= active_buffer /\ pc # "destroyed"
            /\ pc' \notin {"destroyed", "scan", "used"} /\ ThiefOK(s)
            /\ UNCHANGED <<tokens, thief>>
        BY <1>0, <1>a DEF TypeOK
      <3>2. tpc[s] \in {"cas", "get"} => ta[s] \in DOMAIN buffers'
        BY <1>0, <1>d DEF ThiefOK
      <3> QED BY <1>0, <1>1, <3>1, <3>2, ThiefStays
    <2>2. /\ tpc'[s] = tpc[s] /\ tt'[s] = tt[s] /\ ta'[s] = ta[s] /\ UNCHANGED ta
          /\ ClaimOK(s) /\ ThiefOK(s) /\ tt[s] \in Nat
      BY <1>0, <1>a DEF TypeOK
    <2>3. ASSUME \/ tpc[s] = "cas" /\ top = tt[s]
                 \/ tpc[s] = "get" /\ top = tt[s] + 1
          PROVE  get(ta[s], tt[s])' = get(ta[s], tt[s]) /\ itemAt'[tt[s]] = itemAt[tt[s]]
      <3>1. tt[s] # b /\ tt[s] - b < size(active_buffer) /\ b - tt[s] < size(active_buffer)
        BY <1>b, <1>c, <1>2, <2>2, <2>3 DEF ClaimOK
      <3>2. ta[s] \in DOMAIN buffers
        BY <2>2, <2>3 DEF ThiefOK
      <3>3. CASE ta[s] = active_buffer
        <4>1. get(ta[s], tt[s])' = get(active_buffer, tt[s])'
          BY <1>a, <2>2, <3>3 DEF get, size
        <4> QED BY <1>d, <1>g, <2>2, <3>1, <3>3, <4>1
      <3>4. CASE ta[s] # active_buffer
        BY <1>d, <1>g, <2>2, <3>1, <3>2, <3>4 DEF get, size
      <3> QED BY <3>3, <3>4
    <2>4. top' >= top /\ (top' = top /\ top < End => top < End') /\ End' \in Int /\ End \in Int
      BY <1>a, <1>b, <1>2
    <2>5. ClaimOK(s)'
      BY <1>0, <1>1, <2>2, <2>3, <2>4, ClaimStays
    <2> QED BY <2>1, <2>5
  <1> QED BY <1>0, <1>a, <1>1, <1>3, <1>4, <1>5, <1>6, <1>7, ListStays DEF IInv

\* A resize adds the next buffer to the chain.
LEMMA ResizeChain ==
    ASSUME TypeOK, ChainOK, pc # "destroyed", pc' # "destroyed",
           active_buffer' = active_buffer + 1,
           unlinked' = IF unlinked = None THEN active_buffer ELSE unlinked,
           DOMAIN buffers' = DOMAIN buffers \union {active_buffer'}
    PROVE  ChainOK' /\ unlinked' # None
  <1>1. active_buffer \in Nat /\ unlinked \in Nat \union {None} /\ unlinked <= active_buffer
    BY DEF TypeOK, ChainOK
  <1>2. unlinked' \in Nat /\ unlinked' <= active_buffer' /\ unlinked' # None
    BY <1>1 DEF None
  <1>3. DOMAIN buffers = IF unlinked = None THEN {active_buffer} ELSE unlinked .. active_buffer
    BY DEF ChainOK
  <1>4. DOMAIN buffers' = unlinked' .. active_buffer'
    BY <1>1, <1>3 DEF None
  <1> QED BY <1>2, <1>4 DEF ChainOK

\* The scan begins with every thief at work still to be looked at.
LEMMA ScanStarts ==
    ASSUME TypeOK, TypeOK', \A s \in Thieves : ThiefOK(s) /\ ClaimOK(s),
           UNCHANGED <<tokens, thief, itemAt, top>>,
           active_buffer' >= active_buffer, pc # "destroyed", pc' # "destroyed",
           pc' # "used", pc' = "scan" => scan' = id_list,
           DOMAIN buffers \subseteq DOMAIN buffers',
           \A a \in DOMAIN buffers : buffers'[a] = buffers[a],
           top < End => top < End'
    PROVE  \A s \in Thieves : ThiefOK(s)' /\ ClaimOK(s)'
  <1>1. \A s \in Thieves : tpc[s] \in {"cas", "get"} =>
              /\ ta[s] \in DOMAIN buffers'
              /\ pc' \in {"scan", "used"} =>
                    min_id' <= ta[s] \/ \E k \in DOMAIN scan' : scan'[k] = s
    BY DEF ThiefOK, Registered
  <1>2. top' >= top
    BY DEF TypeOK
  <1> QED BY <1>1, <1>2, ThievesStay

LEMMA GrowStep == ASSUME IInv, Grow PROVE IInv'
  <1> USE DEF thief, tokens, memory, owner, EndCall
  <1>0. /\ TypeOK /\ OwnerOK /\ FitsOK /\ ChainOK /\ ItemsOK /\ ListOK /\ ActiveHoldsContents
        /\ \A s \in Thieves : ThiefOK(s) /\ ClaimOK(s)
    BY DEF IInv
  <1>a. /\ pc = "grow" /\ UNCHANGED <<top, bottom, tokens, thief, ghost>>
        /\ \/ /\ unlinked' # None /\ pc' = "scan" /\ scan' = id_list
              /\ min_id' = active_buffer' /\ t' = 0 /\ b' = b
           \/ /\ unlinked' = None /\ pc' = "put" /\ t' = 0 /\ UNCHANGED <<b, scan, min_id>>
    BY DEF Grow, StartScan
  <1>b. /\ b \in Nat /\ top \in Nat /\ t \in Nat /\ b = bottom /\ top <= b /\ t <= top
        /\ b - t <= size(active_buffer) - 1
    BY <1>0, <1>a DEF OwnerOK, TypeOK
  <1>c. /\ active_buffer \in DOMAIN buffers /\ \A a \in DOMAIN buffers : a <= active_buffer
        /\ size(active_buffer) \in Nat /\ size(active_buffer) > 0
    BY <1>0, <1>a, ActiveExists
  <1>d. /\ active_buffer' >= active_buffer /\ active_buffer' \in Nat
        /\ DOMAIN buffers \subseteq DOMAIN buffers'
        /\ \A a \in DOMAIN buffers : buffers'[a] = buffers[a]
        /\ size(active_buffer)' \in Nat /\ b - top <= size(active_buffer)' - 2
        /\ \A i \in top .. b - 1 : get(active_buffer, i)' = get(active_buffer, i)
        /\ ChainOK'
        /\ unlinked' \in Nat \union {None}
        /\ buffers' = [a \in DOMAIN buffers' |-> [size |-> buffers'[a].size,
                                                  segment |-> buffers'[a].segment]]
        /\ \A a \in DOMAIN buffers' :
              /\ a \in Nat
              /\ buffers'[a].size \in Nat \ {0}
              /\ buffers'[a].segment \in [0 .. buffers'[a].size - 1 -> Nat]
    <2> DEFINE n == 2 * size(active_buffer)
    <2>1. CASE b - t >= size(active_buffer) - 1
      <3>1. Resize(n)
        BY <1>a, <2>1 DEF Grow
      <3>2. n \in Nat /\ n > 0 /\ b - t <= n /\ b - top <= n - 2
        BY <1>b, <1>c
      <3> HIDE DEF n
      <3>3. /\ active_buffer' = active_buffer + 1
            /\ unlinked' = IF unlinked = None THEN active_buffer ELSE unlinked
            /\ DOMAIN buffers' = DOMAIN buffers \union {active_buffer'}
            /\ \A a \in DOMAIN buffers : buffers'[a] = buffers[a]
            /\ size(active_buffer)' = n
            /\ \A i \in t .. b - 1 : get(active_buffer, i)' = get(active_buffer, i)
            /\ buffers' = [a \in DOMAIN buffers' |-> [size |-> buffers'[a].size,
                                                      segment |-> buffers'[a].segment]]
            /\ \A a \in DOMAIN buffers' :
                  /\ a \in Nat
                  /\ buffers'[a].size \in Nat \ {0}
                  /\ buffers'[a].segment \in [0 .. buffers'[a].size - 1 -> Nat]
        BY <1>0, <1>c, <3>1, <3>2, ResizeEffect
      <3>4. ChainOK'
        BY <1>0, <1>a, <3>3, ResizeChain
      <3>5. active_buffer \in Nat /\ unlinked \in Nat \union {None}
        BY <1>0 DEF TypeOK
      <3>6. \A i \in top .. b - 1 : i \in t .. b - 1
        BY <1>b
      <3> QED BY <3>2, <3>3, <3>4, <3>5, <3>6
    <2>2. CASE ~(b - t >= size(active_buffer) - 1)
      <3>1. UNCHANGED <<active_buffer, buffers, unlinked>>
        BY <2>2 DEF Grow
      <3>2. size(active_buffer)' = size(active_buffer)
            /\ \A i : get(active_buffer, i)' = get(active_buffer, i)
        BY <3>1 DEF size, get
      <3>3. ChainOK'
        BY <1>0, <1>a, <3>1 DEF ChainOK
      <3>4. b - top <= size(active_buffer) - 2
        BY <1>b, <1>c, <2>2
      <3> QED BY <1>0, <1>c, <3>1, <3>2, <3>3, <3>4 DEF TypeOK
    <2> QED BY <2>1, <2>2
  <1>2. /\ End = b /\ End' = b /\ Indices = top .. b - 1 /\ Indices' = Indices
    BY <1>a, <1>b DEF End, Indices
  <1>1. TypeOK'
    <2>1. scan' \in Seq(Thieves) /\ min_id' \in Nat /\ t' \in Nat /\ b' \in Int
      BY <1>0, <1>a, <1>d, SMTT(40) DEF TypeOK
    <2>2. pc' \in {"scan", "put"}
      BY <1>a
    <2> QED BY <1>0, <1>a, <1>d, <2>1, <2>2 DEF TypeOK, ghost
  <1>3. OwnerOK' /\ FitsOK'
    BY <1>a, <1>b, <1>c, <1>d, <1>2, SMTT(40) DEF OwnerOK, FitsOK, Pushing
  <1>4. ChainOK'
    BY <1>d
  <1>5. ItemsOK'
    <2>1. Used' = Used
      BY <1>a, <1>b DEF Used, Pushing, ghost
    <2> QED BY <1>0, <1>a, <1>2, <2>1 DEF ItemsOK, ghost
  <1>6. ActiveHoldsContents'
    BY <1>0, <1>a, <1>d, <1>2 DEF ActiveHoldsContents, ghost
  <1>7. \A s \in Thieves : ThiefOK(s)' /\ ClaimOK(s)'
    <2>1. /\ pc # "destroyed" /\ pc' \notin {"destroyed", "used"}
          /\ pc' = "scan" => scan' = id_list
          /\ UNCHANGED <<tokens, thief, itemAt, top>>
      BY <1>a DEF ghost
    <2> QED BY <1>0, <1>1, <1>2, <1>d, <2>1, ScanStarts
  <1> QED BY <1>0, <1>a, <1>1, <1>3, <1>4, <1>5, <1>6, <1>7, ListStays DEF IInv

LEMMA ShrinkStep == ASSUME IInv, Shrink PROVE IInv'
  <1> USE DEF thief, tokens, memory, owner, EndCall
  <1>0. /\ TypeOK /\ OwnerOK /\ FitsOK /\ ChainOK /\ ItemsOK /\ ListOK /\ ActiveHoldsContents
        /\ \A s \in Thieves : ThiefOK(s) /\ ClaimOK(s)
    BY DEF IInv
  <1>a. /\ pc = "shrink" /\ UNCHANGED <<top, bottom, tokens, thief, ghost>>
        /\ \/ /\ unlinked' # None /\ pc' = "scan" /\ scan' = id_list
              /\ min_id' = active_buffer' /\ t' = 0 /\ b' = b
           \/ /\ unlinked' = None /\ pc' = "idle" /\ t' = 0 /\ b' = 0
              /\ scan' = <<>> /\ min_id' = 0
    BY DEF Shrink, StartScan
  <1>b. /\ bottom \in Nat /\ top \in Nat /\ t \in Nat /\ b = bottom + 1 /\ top <= bottom /\ t <= top
    BY <1>0, <1>a DEF OwnerOK, TypeOK
  <1>2. /\ End = bottom /\ End' = bottom /\ Indices = top .. bottom - 1 /\ Indices' = Indices
    BY <1>a, <1>b DEF End, Indices
  <1>c. /\ active_buffer \in DOMAIN buffers /\ \A a \in DOMAIN buffers : a <= active_buffer
        /\ size(active_buffer) \in Nat /\ size(active_buffer) > 0
        /\ bottom - top <= size(active_buffer) - 1
    BY <1>0, <1>a, <1>2, ActiveExists DEF FitsOK
  <1>d. /\ active_buffer' >= active_buffer /\ active_buffer' \in Nat
        /\ DOMAIN buffers \subseteq DOMAIN buffers'
        /\ \A a \in DOMAIN buffers : buffers'[a] = buffers[a]
        /\ size(active_buffer)' \in Nat /\ bottom - top <= size(active_buffer)' - 1
        /\ \A i \in top .. bottom - 1 : get(active_buffer, i)' = get(active_buffer, i)
        /\ ChainOK'
        /\ unlinked' \in Nat \union {None}
        /\ buffers' = [a \in DOMAIN buffers' |-> [size |-> buffers'[a].size,
                                                  segment |-> buffers'[a].segment]]
        /\ \A a \in DOMAIN buffers' :
              /\ a \in Nat
              /\ buffers'[a].size \in Nat \ {0}
              /\ buffers'[a].segment \in [0 .. buffers'[a].size - 1 -> Nat]
    <2> DEFINE n == size(active_buffer) \div 2
    <2>1. CASE b - t <= size(active_buffer) \div 3 /\ b - t > InitialSize
      <3>1. Resize(n)
        BY <1>a, <2>1 DEF Shrink
      <3>2. n \in Nat /\ n > 0 /\ b - t <= n /\ bottom - top <= n - 1
        <4> DEFINE m == size(active_buffer)
        <4>1. m \in Nat /\ b - t \in Int /\ b - t >= 2 /\ b - t <= m \div 3
          BY <1>b, <1>c, <2>1, Constants
        <4> HIDE DEF m
        <4>2. m >= 6 /\ m \div 3 <= m \div 2 /\ m \div 2 \in Nat
          BY <4>1, SMT
        <4> QED BY <1>b, <4>1, <4>2 DEF m
      <3> HIDE DEF n
      <3>3. /\ active_buffer' = active_buffer + 1
            /\ unlinked' = IF unlinked = None THEN active_buffer ELSE unlinked
            /\ DOMAIN buffers' = DOMAIN buffers \union {active_buffer'}
            /\ \A a \in DOMAIN buffers : buffers'[a] = buffers[a]
            /\ size(active_buffer)' = n
            /\ \A i \in t .. b - 1 : get(active_buffer, i)' = get(active_buffer, i)
            /\ buffers' = [a \in DOMAIN buffers' |-> [size |-> buffers'[a].size,
                                                      segment |-> buffers'[a].segment]]
            /\ \A a \in DOMAIN buffers' :
                  /\ a \in Nat
                  /\ buffers'[a].size \in Nat \ {0}
                  /\ buffers'[a].segment \in [0 .. buffers'[a].size - 1 -> Nat]
        BY <1>0, <1>c, <3>1, <3>2, ResizeEffect
      <3>4. ChainOK'
        BY <1>0, <1>a, <3>3, ResizeChain
      <3>5. active_buffer \in Nat /\ unlinked \in Nat \union {None}
        BY <1>0 DEF TypeOK
      <3>6. \A i \in top .. bottom - 1 : i \in t .. b - 1
        BY <1>b
      <3> QED BY <3>2, <3>3, <3>4, <3>5, <3>6
    <2>2. CASE ~(b - t <= size(active_buffer) \div 3 /\ b - t > InitialSize)
      <3>1. UNCHANGED <<active_buffer, buffers, unlinked>>
        BY <2>2 DEF Shrink
      <3>2. size(active_buffer)' = size(active_buffer)
            /\ \A i : get(active_buffer, i)' = get(active_buffer, i)
        BY <3>1 DEF size, get
      <3>3. ChainOK'
        BY <1>0, <1>a, <3>1 DEF ChainOK
      <3> QED BY <1>0, <1>c, <3>1, <3>2, <3>3 DEF TypeOK
    <2> QED BY <2>1, <2>2
  <1>1. TypeOK'
    <2>1. scan' \in Seq(Thieves) /\ min_id' \in Nat /\ t' \in Nat /\ b' \in Int
      <3>1. id_list \in Seq(Thieves) /\ b \in Int
        BY <1>0 DEF TypeOK
      <3>2. /\ scan' = id_list \/ scan' = <<>>
            /\ min_id' = active_buffer' \/ min_id' = 0
            /\ t' = 0 /\ (b' = b \/ b' = 0)
        BY <1>a
      <3>3. active_buffer' \in Nat
        BY <1>d
      <3>4. <<>> \in Seq(Thieves)
        OBVIOUS
      <3>5. scan' \in Seq(Thieves)
        BY <3>1, <3>2, <3>4
      <3>6. min_id' \in Nat /\ t' \in Nat /\ b' \in Int
        BY <3>1, <3>2, <3>3
      <3> QED BY <3>5, <3>6
    <2>2. pc' \in {"scan", "idle"}
      BY <1>a
    <2> QED BY <1>0, <1>a, <1>d, <2>1, <2>2 DEF TypeOK, ghost
  <1>3. OwnerOK' /\ FitsOK'
    <2>1. ~Pushing'
      BY <1>a, <1>b DEF Pushing
    <2>2. OwnerOK'
      BY <1>a, <1>b, <1>d, <2>1 DEF OwnerOK
    <2>3. FitsOK'
      BY <1>a, <1>b, <1>d, <1>2 DEF FitsOK
    <2> QED BY <2>2, <2>3
  <1>4. ChainOK'
    BY <1>d
  <1>5. ItemsOK'
    <2>1. Used' = Used
      BY <1>a, <1>b DEF Used, Pushing, ghost
    <2> QED BY <1>0, <1>a, <1>2, <2>1 DEF ItemsOK, ghost
  <1>6. ActiveHoldsContents'
    BY <1>0, <1>a, <1>d, <1>2 DEF ActiveHoldsContents, ghost
  <1>7. \A s \in Thieves : ThiefOK(s)' /\ ClaimOK(s)'
    <2>1. /\ pc # "destroyed" /\ pc' \notin {"destroyed", "used"}
          /\ pc' = "scan" => scan' = id_list
          /\ UNCHANGED <<tokens, thief, itemAt, top>>
      BY <1>a DEF ghost
    <2> QED BY <1>0, <1>1, <1>2, <1>d, <2>1, ScanStarts
  <1> QED BY <1>0, <1>a, <1>1, <1>3, <1>4, <1>5, <1>6, <1>7, ListStays DEF IInv

LEMMA ReadIdleStep == ASSUME IInv, ReadIdle PROVE IInv'
  <1> USE DEF thief, tokens, memory, owner, EndCall
  <1>0. /\ TypeOK /\ OwnerOK /\ FitsOK /\ ChainOK /\ ItemsOK /\ ListOK /\ ActiveHoldsContents
        /\ \A s \in Thieves : ThiefOK(s) /\ ClaimOK(s)
    BY DEF IInv
  <1>a. /\ pc = "scan" /\ scan # <<>>
        /\ \/ was_idle[Head(scan)] /\ scan' = Tail(scan) /\ pc' = "scan"
           \/ ~was_idle[Head(scan)] /\ pc' = "used" /\ scan' = scan
        /\ UNCHANGED <<top, bottom, memory, tokens, b, t, min_id, thief, ghost>>
    BY DEF ReadIdle
  <1>b. /\ top \in Nat /\ bottom \in Nat /\ min_id \in Nat /\ active_buffer \in Nat
        /\ b \in {bottom, bottom + 1} /\ top <= bottom /\ min_id <= active_buffer
        /\ unlinked # None /\ id_last_used \in [Thieves -> Nat]
    BY <1>0, <1>a, SMTT(40) DEF OwnerOK, TypeOK
  <1>c. scan \in Seq(Thieves) /\ scan # <<>> /\ Head(scan) \in Thieves /\ Tail(scan) \in Seq(Thieves)
    BY <1>0, <1>a DEF TypeOK, OwnerOK
  <1>2. /\ size(active_buffer)' = size(active_buffer) /\ End' = End /\ Indices' = Indices
    BY <1>a DEF size, End, Indices
  <1>1. TypeOK'
    <2>1. scan' \in Seq(Thieves) /\ pc' \in {"scan", "used"}
      BY <1>a, <1>c
    <2> QED BY <1>0, <1>a, <2>1 DEF TypeOK, ghost
  <1>3. OwnerOK' /\ FitsOK'
    BY <1>0, <1>a, <1>b, <1>2 DEF OwnerOK, FitsOK, Pushing
  <1>4. ChainOK'
    BY <1>0, <1>a DEF ChainOK
  <1>5. ItemsOK'
    <2>1. Used' = Used
      BY <1>a DEF Used, Pushing, ghost
    <2> QED BY <1>0, <1>a, <1>2, <2>1 DEF ItemsOK, ghost
  <1>6. ActiveHoldsContents'
    BY <1>0, <1>1, <1>2, <1>a, ContentsStay DEF ghost
  <1>7. \A s \in Thieves : ThiefOK(s)' /\ ClaimOK(s)'
    <2>1. /\ active_buffer' >= active_buffer /\ pc # "destroyed" /\ pc' # "destroyed"
          /\ buffers' = buffers /\ top' >= top /\ (top' = top /\ top < End => top < End')
          /\ UNCHANGED <<tokens, thief, itemAt>>
      BY <1>a, <1>b, <1>2 DEF ghost
    <2>2. ASSUME NEW s \in Thieves, tpc[s] \in {"cas", "get"}
          PROVE  /\ ta[s] \in DOMAIN buffers'
                 /\ min_id' <= ta[s] \/ \E k \in DOMAIN scan' : scan'[k] = s
      <3>1. /\ ta[s] \in DOMAIN buffers /\ id_last_used[s] <= ta[s] /\ ~was_idle[s]
            /\ min_id <= ta[s] \/ \E k \in DOMAIN scan : scan[k] = s
            /\ ta[s] \in Nat
        BY <1>0, <1>a, <2>2 DEF ThiefOK, AtWork, TypeOK
      <3>2. ASSUME NEW k \in DOMAIN scan, scan[k] = s
            PROVE  s = Head(scan) \/ \E j \in DOMAIN Tail(scan) : Tail(scan)[j] = s
        <4>1. CASE k = 1
          BY <1>c, <3>2, <4>1
        <4>2. CASE k # 1
          <5>1. k - 1 \in DOMAIN Tail(scan) /\ Tail(scan)[k - 1] = s
            BY <1>c, <3>2, <4>2
          <5> QED BY <5>1
        <4> QED BY <4>1, <4>2
      <3> QED BY <1>a, <1>b, <2>1, <3>1, <3>2
    <2> QED BY <1>0, <1>1, <2>1, <2>2, ThievesStay
  <1> QED BY <1>0, <1>a, <1>1, <1>3, <1>4, <1>5, <1>6, <1>7, ListStays DEF IInv

LEMMA ReadLastUsedStep == ASSUME IInv, ReadLastUsed PROVE IInv'
  <1> USE DEF thief, tokens, memory, owner, EndCall
  <1>0. /\ TypeOK /\ OwnerOK /\ FitsOK /\ ChainOK /\ ItemsOK /\ ListOK /\ ActiveHoldsContents
        /\ \A s \in Thieves : ThiefOK(s) /\ ClaimOK(s)
    BY DEF IInv
  <1>a. /\ pc = "used" /\ pc' = "scan" /\ scan' = Tail(scan)
        /\ min_id' = IF id_last_used[Head(scan)] < min_id THEN id_last_used[Head(scan)] ELSE min_id
        /\ UNCHANGED <<top, bottom, memory, tokens, b, t, thief, ghost>>
    BY DEF ReadLastUsed
  <1>b. /\ top \in Nat /\ bottom \in Nat /\ min_id \in Nat /\ active_buffer \in Nat
        /\ b \in {bottom, bottom + 1} /\ top <= bottom /\ min_id <= active_buffer
        /\ unlinked # None /\ id_last_used \in [Thieves -> Nat]
    BY <1>0, <1>a, SMTT(40) DEF OwnerOK, TypeOK
  <1>c. scan \in Seq(Thieves) /\ scan # <<>> /\ Head(scan) \in Thieves /\ Tail(scan) \in Seq(Thieves)
    BY <1>0, <1>a DEF TypeOK, OwnerOK
  <1>2. /\ size(active_buffer)' = size(active_buffer) /\ End' = End /\ Indices' = Indices
    BY <1>a DEF size, End, Indices
  <1>1. TypeOK'
    <2>1. scan' \in Seq(Thieves) /\ min_id' \in Nat
      BY <1>a, <1>b, <1>c
    <2> QED BY <1>0, <1>a, <2>1 DEF TypeOK, ghost
  <1>3. OwnerOK' /\ FitsOK'
    <2>1. min_id' <= active_buffer
      BY <1>a, <1>b, <1>c
    <2> QED BY <1>0, <1>a, <1>b, <1>2, <2>1 DEF OwnerOK, FitsOK, Pushing
  <1>4. ChainOK'
    BY <1>0, <1>a DEF ChainOK
  <1>5. ItemsOK'
    <2>1. Used' = Used
      BY <1>a DEF Used, Pushing, ghost
    <2> QED BY <1>0, <1>a, <1>2, <2>1 DEF ItemsOK, ghost
  <1>6. ActiveHoldsContents'
    BY <1>0, <1>1, <1>2, <1>a, ContentsStay DEF ghost
  <1>7. \A s \in Thieves : ThiefOK(s)' /\ ClaimOK(s)'
    <2>1. /\ active_buffer' >= active_buffer /\ pc # "destroyed" /\ pc' # "destroyed"
          /\ buffers' = buffers /\ top' >= top /\ (top' = top /\ top < End => top < End')
          /\ UNCHANGED <<tokens, thief, itemAt>>
      BY <1>a, <1>b, <1>2 DEF ghost
    <2>2. ASSUME NEW s \in Thieves, tpc[s] \in {"cas", "get"}
          PROVE  /\ ta[s] \in DOMAIN buffers'
                 /\ min_id' <= ta[s] \/ \E k \in DOMAIN scan' : scan'[k] = s
      <3>1. /\ ta[s] \in DOMAIN buffers /\ id_last_used[s] <= ta[s] /\ ~was_idle[s]
            /\ min_id <= ta[s] \/ \E k \in DOMAIN scan : scan[k] = s
            /\ ta[s] \in Nat
        BY <1>0, <1>a, <2>2 DEF ThiefOK, AtWork, TypeOK
      <3>2. ASSUME NEW k \in DOMAIN scan, scan[k] = s
            PROVE  s = Head(scan) \/ \E j \in DOMAIN Tail(scan) : Tail(scan)[j] = s
        <4>1. CASE k = 1
          BY <1>c, <3>2, <4>1
        <4>2. CASE k # 1
          <5>1. k - 1 \in DOMAIN Tail(scan) /\ Tail(scan)[k - 1] = s
            BY <1>c, <3>2, <4>2
          <5> QED BY <5>1
        <4> QED BY <4>1, <4>2
      <3> QED BY <1>a, <1>b, <2>1, <3>1, <3>2
    <2> QED BY <1>0, <1>1, <2>1, <2>2, ThievesStay
  <1> QED BY <1>0, <1>a, <1>1, <1>3, <1>4, <1>5, <1>6, <1>7, ListStays DEF IInv

LEMMA ReclaimStep == ASSUME IInv, Reclaim PROVE IInv'
  <1> USE DEF thief, tokens, memory, owner, EndCall
  <1>0. /\ TypeOK /\ OwnerOK /\ FitsOK /\ ChainOK /\ ItemsOK /\ ListOK /\ ActiveHoldsContents
        /\ \A s \in Thieves : ThiefOK(s) /\ ClaimOK(s)
    BY DEF IInv
  <1>a. /\ pc = "scan" /\ scan = <<>>
        /\ Delete(unlinked .. min_id - 1)
        /\ unlinked' = IF unlinked < min_id THEN min_id ELSE unlinked
        /\ \/ /\ bottom = b /\ pc' = "put" /\ UNCHANGED <<b, t>>
           \/ /\ bottom # b /\ pc' = "idle" /\ b' = 0 /\ t' = 0
        /\ scan' = <<>> /\ min_id' = 0
        /\ UNCHANGED <<top, bottom, active_buffer, tokens, thief, ghost>>
    BY DEF Reclaim, AfterScan
  <1>b. /\ top \in Nat /\ bottom \in Nat /\ min_id \in Nat /\ active_buffer \in Nat
        /\ b \in {bottom, bottom + 1} /\ top <= bottom /\ min_id <= active_buffer
        /\ unlinked \in Nat /\ unlinked <= active_buffer
        /\ DOMAIN buffers = unlinked .. active_buffer
    BY <1>0, <1>a DEF OwnerOK, TypeOK, ChainOK
  <1>c. /\ DOMAIN buffers' = DOMAIN buffers \ (unlinked .. min_id - 1)
        /\ \A a \in DOMAIN buffers' : buffers'[a] = buffers[a]
        /\ buffers' = [a \in DOMAIN buffers' |-> [size |-> buffers'[a].size,
                                                  segment |-> buffers'[a].segment]]
        /\ \A a \in DOMAIN buffers' :
              /\ a \in Nat
              /\ buffers'[a].size \in Nat \ {0}
              /\ buffers'[a].segment \in [0 .. buffers'[a].size - 1 -> Nat]
    BY <1>0, <1>a, DeleteEffect
  <1>d. /\ unlinked' \in Nat /\ unlinked' <= active_buffer
        /\ DOMAIN buffers' = unlinked' .. active_buffer
    BY <1>a, <1>b, <1>c
  <1>2. /\ size(active_buffer)' = size(active_buffer) /\ End' = End /\ Indices' = Indices
        /\ \A i : get(active_buffer, i)' = get(active_buffer, i)
    BY <1>a, <1>b, <1>c, <1>d DEF size, get, End, Indices
  <1>1. TypeOK'
    <2>1. scan' \in Seq(Thieves) /\ pc' \in {"put", "idle"} /\ b' \in Int /\ t' \in Nat
      BY <1>0, <1>a DEF TypeOK
    <2> QED BY <1>0, <1>a, <1>c, <1>d, <2>1 DEF TypeOK, ghost
  <1>3. OwnerOK' /\ FitsOK'
    BY <1>0, <1>a, <1>b, <1>2 DEF OwnerOK, FitsOK, Pushing
  <1>4. ChainOK'
    BY <1>a, <1>d DEF ChainOK, None
  <1>5. ItemsOK'
    <2>1. Used' = Used
      BY <1>a DEF Used, Pushing, ghost
    <2> QED BY <1>0, <1>a, <1>2, <2>1 DEF ItemsOK, ghost
  <1>6. ActiveHoldsContents'
    BY <1>0, <1>a, <1>2 DEF ActiveHoldsContents, ghost
  <1>7. \A s \in Thieves : ThiefOK(s)' /\ ClaimOK(s)'
    <2>1. /\ active_buffer' >= active_buffer /\ pc # "destroyed"
          /\ pc' \notin {"destroyed", "scan", "used"}
          /\ top' >= top /\ (top' = top /\ top < End => top < End')
          /\ UNCHANGED <<tokens, thief, itemAt>>
      BY <1>a, <1>b, <1>2 DEF ghost
    <2>2. ASSUME NEW s \in Thieves, tpc[s] \in {"cas", "get"} PROVE ta[s] \in DOMAIN buffers'
      <3>1. ta[s] \in DOMAIN buffers /\ ta[s] \in Nat
            /\ (min_id <= ta[s] \/ \E k \in DOMAIN scan : scan[k] = s)
        BY <1>0, <1>a, <2>2 DEF ThiefOK, TypeOK
      <3> QED BY <1>a, <1>b, <1>c, <3>1
    <2> QED BY <1>0, <1>1, <1>c, <2>1, <2>2, ThievesStay
  <1> QED BY <1>0, <1>a, <1>1, <1>3, <1>4, <1>5, <1>6, <1>7, ListStays DEF IInv

LEMMA DestroyStep == ASSUME IInv, Destroy PROVE IInv'
  <1> USE DEF thief, tokens, memory, owner, EndCall
  <1>0. /\ TypeOK /\ OwnerOK /\ FitsOK /\ ChainOK /\ ItemsOK /\ ListOK /\ ActiveHoldsContents
        /\ \A s \in Thieves : ThiefOK(s) /\ ClaimOK(s)
    BY DEF IInv
  <1>a. /\ pc = "idle" /\ pc' = "destroyed"
        /\ Delete({active_buffer} \union
                  (IF unlinked = None THEN {} ELSE unlinked .. active_buffer - 1))
        /\ id_list' = <<>> /\ tpc' = [s \in Thieves |-> "destroyed"]
        /\ UNCHANGED <<top, bottom, active_buffer, unlinked, was_idle, id_last_used,
                       b, t, scan, min_id, tt, ta, ghost>>
    BY DEF Destroy
  <1>c. /\ \A a \in DOMAIN buffers' : buffers'[a] = buffers[a]
        /\ buffers' = [a \in DOMAIN buffers' |-> [size |-> buffers'[a].size,
                                                  segment |-> buffers'[a].segment]]
        /\ \A a \in DOMAIN buffers' :
              /\ a \in Nat
              /\ buffers'[a].size \in Nat \ {0}
              /\ buffers'[a].segment \in [0 .. buffers'[a].size - 1 -> Nat]
        /\ DOMAIN buffers' = DOMAIN buffers \ ({active_buffer} \union
                  (IF unlinked = None THEN {} ELSE unlinked .. active_buffer - 1))
    BY <1>0, <1>a, DeleteEffect
  <1>1. TypeOK'
    <2>1. id_list' \in Seq(Thieves)
      BY <1>a
    <2> QED BY <1>0, <1>a, <1>c, <2>1 DEF TypeOK, ghost
  <1>3. OwnerOK' /\ FitsOK'
    BY <1>0, <1>a DEF OwnerOK, FitsOK, Pushing
  <1>4. ChainOK'
    <2>1. active_buffer \in Nat /\ unlinked \in Nat \union {None}
      BY <1>0 DEF TypeOK
    <2>2. DOMAIN buffers' = {}
      BY <1>0, <1>a, <1>c, <2>1 DEF ChainOK
    <2> QED BY <1>0, <1>a, <2>2 DEF ChainOK
  <1>5. ItemsOK'
    <2>1. Used' = Used /\ Indices' = Indices /\ End' = End
      BY <1>a DEF Used, Pushing, Indices, End, ghost
    <2> QED BY <1>0, <1>a, <2>1 DEF ItemsOK, ghost
  <1>6. ActiveHoldsContents'
    BY <1>a DEF ActiveHoldsContents
  <1>7. \A s \in Thieves : ThiefOK(s)' /\ ClaimOK(s)'
    BY <1>0, <1>a DEF ThiefOK, ClaimOK, AtWork
  <1>8. ListOK'
    <2>1. Unregistered' = {}
      BY <1>a DEF Unregistered
    <2> QED BY <1>a, <2>1, Constants, FS_EmptySet DEF ListOK
  <1> QED BY <1>1, <1>3, <1>4, <1>5, <1>6, <1>7, <1>8 DEF IInv

-----------------------------------------------------------------------------
(***************************************************************************)
(* Steps of the thieves                                                    *)
(***************************************************************************)
\* A thief's step does not disturb the others.
LEMMA OthersStay ==
    ASSUME TypeOK, TypeOK', NEW u \in Thieves, ThiefOK(u), ClaimOK(u),
           UNCHANGED <<bottom, memory, owner, itemAt>>, top' >= top, pc # "destroyed",
           tpc'[u] = tpc[u], tt'[u] = tt[u], ta'[u] = ta[u],
           was_idle'[u] = was_idle[u], id_last_used'[u] = id_last_used[u],
           Registered(u) => Registered(u)'
    PROVE  ThiefOK(u)' /\ ClaimOK(u)'
  <1>1. /\ UNCHANGED <<active_buffer, buffers, pc, b, bottom, scan, min_id>>
        /\ End' = End /\ End \in Int /\ active_buffer \in Nat
    BY DEF memory, owner, End, TypeOK
  <1>2. ThiefOK(u)'
    BY <1>1 DEF ThiefOK
  <1>3. get(ta[u], tt[u])' = get(ta[u], tt[u]) /\ itemAt'[tt[u]] = itemAt[tt[u]]
    BY <1>1 DEF get, size
  <1>4. ClaimOK(u)'
    BY <1>1, <1>3, ClaimStays
  <1> QED BY <1>2, <1>4

\* Every step of a registered thief but a successful claim is its own affair.
LEMMA OwnAffair ==
    ASSUME IInv, TypeOK', NEW s \in Thieves, tpc[s] \notin {"unregistered", "destroyed"},
           UNCHANGED <<top, bottom, memory, id_list, owner, ghost>>,
           \E l \in AtWork \union {"idle", "reload", "id", "undefined"} :
              tpc' = [tpc EXCEPT ![s] = l],
           \A u \in Thieves \ {s} :
              /\ tt'[u] = tt[u] /\ ta'[u] = ta[u]
              /\ was_idle'[u] = was_idle[u] /\ id_last_used'[u] = id_last_used[u],
           ThiefOK(s)', ClaimOK(s)'
    PROVE  IInv'
  <1> USE DEF memory, owner, ghost
  <1>0. /\ TypeOK /\ OwnerOK /\ FitsOK /\ ChainOK /\ ItemsOK /\ ListOK /\ ActiveHoldsContents
        /\ \A u \in Thieves : ThiefOK(u) /\ ClaimOK(u)
    BY DEF IInv
  <1>1. /\ End' = End /\ Indices' = Indices /\ Pushing' = Pushing /\ Used' = Used
        /\ size(active_buffer)' = size(active_buffer)
        /\ \A i : get(active_buffer, i)' = get(active_buffer, i)
    BY DEF End, Indices, Pushing, Used, size, get
  <1>2. OwnerOK' /\ FitsOK' /\ ChainOK'
    BY <1>0, <1>1 DEF OwnerOK, FitsOK, ChainOK
  <1>3. ItemsOK' /\ ActiveHoldsContents'
    BY <1>0, <1>1 DEF ItemsOK, ActiveHoldsContents
  <1>4. ListOK'
    <2>1. Unregistered' = Unregistered
      BY <1>0 DEF Unregistered, AtWork, TypeOK
    <2> QED BY <1>0, <2>1 DEF ListOK
  <1>5. ASSUME NEW u \in Thieves, u # s PROVE ThiefOK(u)' /\ ClaimOK(u)'
    <2>1. pc # "destroyed" /\ top' >= top /\ tpc'[u] = tpc[u]
      BY <1>0, <1>5 DEF ThiefOK, TypeOK
    <2>2. Registered(u) => Registered(u)'
      BY DEF Registered
    <2> QED BY <1>0, <1>5, <2>1, <2>2, OthersStay
  <1> QED BY <1>2, <1>3, <1>4, <1>5 DEF IInv

LEMMA RegisterStep == ASSUME IInv, NEW s \in Thieves, Register(s) PROVE IInv'
  <1> USE DEF memory, owner, ghost, Goto
  <1>0. /\ TypeOK /\ OwnerOK /\ FitsOK /\ ChainOK /\ ItemsOK /\ ListOK /\ ActiveHoldsContents
        /\ \A u \in Thieves : ThiefOK(u) /\ ClaimOK(u)
    BY DEF IInv
  <1>a. /\ tpc[s] = "unregistered" /\ tpc' = [tpc EXCEPT ![s] = "idle"]
        /\ id_list' = <<s>> \o id_list
        /\ UNCHANGED <<top, bottom, memory, was_idle, id_last_used, owner, tt, ta, ghost>>
    BY DEF Register
  <1>b. /\ id_list \in Seq(Thieves) /\ id_list' \in Seq(Thieves)
        /\ Len(id_list') = Len(id_list) + 1 /\ Len(id_list) \in Nat
        /\ id_list'[1] = s
        /\ \A k \in DOMAIN id_list : k + 1 \in DOMAIN id_list' /\ id_list'[k + 1] = id_list[k]
    <2>1. id_list \in Seq(Thieves) /\ <<s>> \in Seq(Thieves) /\ Len(<<s>>) = 1
          /\ <<s>>[1] = s
      BY <1>0 DEF TypeOK
    <2> QED BY <1>a, <2>1
  <1>c. pc # "destroyed"
    BY <1>0, <1>a DEF ThiefOK
  <1>1. TypeOK'
    <2>1. tpc' \in [Thieves -> AtWork \union {"unregistered", "idle", "reload", "id",
                                              "undefined", "destroyed"}]
      BY <1>0, <1>a DEF TypeOK
    <2>2. id_list' \in Seq(Thieves)
      BY <1>b
    <2> QED BY <1>0, <1>a, <2>1, <2>2 DEF TypeOK
  <1>2. /\ End' = End /\ Indices' = Indices /\ Pushing' = Pushing /\ Used' = Used
        /\ size(active_buffer)' = size(active_buffer)
        /\ \A i : get(active_buffer, i)' = get(active_buffer, i)
    BY <1>a DEF End, Indices, Pushing, Used, size, get
  <1>3. OwnerOK' /\ FitsOK' /\ ChainOK'
    BY <1>0, <1>a, <1>2 DEF OwnerOK, FitsOK, ChainOK
  <1>4. ItemsOK' /\ ActiveHoldsContents'
    BY <1>0, <1>a, <1>2 DEF ItemsOK, ActiveHoldsContents
  <1>5. ListOK'
    <2>1. Unregistered' = Unregistered \ {s} /\ s \in Unregistered
      BY <1>0, <1>a DEF Unregistered, TypeOK
    <2>2. IsFiniteSet(Unregistered) /\ Cardinality(Unregistered) \in Nat
      <3>1. Unregistered \subseteq Thieves /\ IsFiniteSet(Thieves)
        BY DequeAssumption DEF Unregistered
      <3> QED BY <3>1, FS_Subset, FS_CardinalityType
    <2>3. Cardinality(Unregistered') = Cardinality(Unregistered) - 1
      BY <2>1, <2>2, FS_RemoveElement
    <2> QED BY <1>0, <1>b, <2>2, <2>3, Constants DEF ListOK
  <1>6. ASSUME NEW u \in Thieves, u # s PROVE ThiefOK(u)' /\ ClaimOK(u)'
    <2>1. top' >= top /\ tpc'[u] = tpc[u]
      BY <1>0, <1>a, <1>6 DEF TypeOK
    <2>2. Registered(u) => Registered(u)'
      BY <1>b DEF Registered
    <2> QED BY <1>0, <1>1, <1>a, <1>c, <2>1, <2>2, OthersStay
  <1>7. ThiefOK(s)' /\ ClaimOK(s)'
    <2>1. tpc'[s] = "idle" /\ pc' # "destroyed"
      BY <1>0, <1>a, <1>c DEF TypeOK
    <2>2. Registered(s)'
      <3>1. 1 \in DOMAIN id_list'
        BY <1>b
      <3> QED BY <1>b, <3>1 DEF Registered
    <2> QED BY <1>0, <1>a, <2>1, <2>2 DEF ThiefOK, ClaimOK, AtWork
  <1> QED BY <1>1, <1>3, <1>4, <1>5, <1>6, <1>7 DEF IInv

\* A claim that succeeds takes the item at top, which the owner has not reserved
\* unless it races for it.
LEMMA ClaimStep == ASSUME IInv, NEW s \in Thieves, Claim(s), top = tt[s] PROVE IInv'
  <1> USE DEF memory, owner, tokens, Goto
  <1>0. /\ TypeOK /\ OwnerOK /\ FitsOK /\ ChainOK /\ ItemsOK /\ ListOK /\ ActiveHoldsContents
        /\ \A u \in Thieves : ThiefOK(u) /\ ClaimOK(u)
    BY DEF IInv
  <1>a. /\ tpc[s] = "cas" /\ tpc' = [tpc EXCEPT ![s] = "get"] /\ top' = top + 1
        /\ taken' = taken \union {itemAt[top]}
        /\ UNCHANGED <<bottom, memory, tokens, owner, tt, ta, pushes, itemAt>>
    BY DEF Claim, Take
  <1>b. /\ top \in Nat /\ End \in Int /\ top < End /\ top \in Indices /\ pc # "destroyed"
        /\ bottom \in Int /\ b \in Int
    BY <1>0, <1>a DEF ClaimOK, ThiefOK, Indices, End, TypeOK
  <1>2. /\ End' = End /\ Indices' = top + 1 .. End - 1 /\ Pushing' = Pushing /\ Used' = Used
        /\ \A i \in Indices' : i \in Indices
        /\ size(active_buffer)' = size(active_buffer) /\ size(active_buffer) \in Nat
        /\ \A i : get(active_buffer, i)' = get(active_buffer, i)
    BY <1>0, <1>a, <1>b, ActiveExists DEF End, Indices, Pushing, Used, size, get
  <1>c. taken' \subseteq 1 .. Used /\ Used \in Nat
    BY <1>0, <1>a, <1>b, SMTT(40) DEF ItemsOK, Used, TypeOK
  <1>1. TypeOK'
    <2>1. taken' \in SUBSET Nat /\ top' \in Nat
      BY <1>a, <1>b, <1>c
    <2> QED BY <1>0, <1>a, <2>1 DEF TypeOK, AtWork
  <1>3. OwnerOK'
    <2>1. pc \in {"idle", "grow", "put", "publish", "scan", "used", "shrink"} =>
             top + 1 <= bottom
      BY <1>b DEF End
    <2>2. pc \in {"look", "last"} => top + 1 <= b
      BY <1>b DEF End
    <2>3. pc # "restore"
      BY <1>0, <1>b DEF OwnerOK, End
    <2>4. /\ UNCHANGED <<pc, b, bottom, t, scan, min_id, unlinked, active_buffer>>
          /\ top' = top + 1 /\ t \in Nat
      BY <1>0, <1>a DEF TypeOK
    <2>5. OwnerOK
      BY <1>0
    <2>6. Pushing' /\ pc' # "grow" => b' - top' <= size(active_buffer)' - 2
      BY <1>b, <1>2, <2>4, <2>5, SMTT(40) DEF OwnerOK
    <2>7. pc' = "grow" => t' <= top' /\ b' - t' <= size(active_buffer)' - 1
      BY <1>b, <1>2, <2>4, <2>5, SMTT(40) DEF OwnerOK
    <2>8. /\ pc' \in {"idle", "destroyed"} => top' <= bottom'
          /\ pc' \in {"grow", "put", "publish"} => b' = bottom' /\ top' <= b'
          /\ pc' \in {"scan", "used"} => /\ b' \in {bottom', bottom' + 1} /\ top' <= bottom'
                                         /\ min_id' <= active_buffer' /\ unlinked' # None
          /\ pc' = "used" => scan' # <<>>
      BY <1>b, <2>1, <2>4, <2>5 DEF OwnerOK
    <2>9. /\ pc' \in {"look", "last", "restore", "shrink"} => b' = bottom' + 1
          /\ pc' = "look" => top' <= b'
          /\ pc' = "last" => t' = bottom' /\ top' \in {t', t' + 1}
          /\ pc' = "restore" => top' = b'
          /\ pc' = "shrink" => t' <= top' /\ top' <= bottom'
      BY <1>b, <2>1, <2>2, <2>3, <2>4, <2>5 DEF OwnerOK
    <2> QED BY <2>6, <2>7, <2>8, <2>9 DEF OwnerOK
  <1>4. FitsOK' /\ ChainOK' /\ ItemsOK' /\ ActiveHoldsContents'
    <2>1. FitsOK' /\ ChainOK'
      BY <1>0, <1>a, <1>b, <1>2 DEF FitsOK, ChainOK
    <2>2. ItemsOK'
      BY <1>0, <1>a, <1>c, <1>2 DEF ItemsOK
    <2>3. ActiveHoldsContents'
      BY <1>0, <1>a, <1>2 DEF ActiveHoldsContents
    <2> QED BY <2>1, <2>2, <2>3
  <1>5. ListOK'
    <2>1. Unregistered' = Unregistered
      BY <1>0, <1>a DEF Unregistered, TypeOK
    <2> QED BY <1>0, <1>a, <2>1 DEF ListOK
  <1>6. ASSUME NEW u \in Thieves, u # s PROVE ThiefOK(u)' /\ ClaimOK(u)'
    <2>1. top' >= top /\ tpc'[u] = tpc[u]
      BY <1>0, <1>a, <1>b, <1>6 DEF TypeOK
    <2>2. Registered(u) => Registered(u)'
      BY <1>a DEF Registered
    <2> QED BY <1>0, <1>1, <1>a, <1>b, <2>1, <2>2, OthersStay
  <1>7. ThiefOK(s)'
    <2>1. tpc'[s] = "get"
      BY <1>0, <1>a DEF TypeOK
    <2> QED BY <1>0, <1>a, <2>1 DEF ThiefOK, AtWork, Registered
  <1>8. ClaimOK(s)'
    <2>1. tpc'[s] = "get" /\ tt'[s] = top
      BY <1>0, <1>a DEF TypeOK
    <2>2. get(ta[s], tt[s])' = get(ta[s], tt[s])
      BY <1>a DEF get, size
    <2> QED BY <1>0, <1>a, <1>b, <2>1, <2>2 DEF ClaimOK
  <1> QED BY <1>1, <1>3, <1>4, <1>5, <1>6, <1>7, <1>8 DEF IInv

\* The other steps of a thief.
LEMMA AttemptStep ==
    ASSUME IInv, NEW s \in Thieves,
           \/ Begin(s) \/ ReadTop(s) \/ ReadBottom(s) \/ ReadBuffer(s)
           \/ Claim(s) /\ top # tt[s]
           \/ Get(s) \/ SetIdle(s) \/ ReloadBuffer(s) \/ StoreId(s)
    PROVE  IInv'
  <1> USE DEF memory, tokens, Goto, Attempted
  <1>0. /\ TypeOK /\ OwnerOK /\ FitsOK /\ ChainOK /\ ItemsOK /\ ListOK /\ ActiveHoldsContents
        /\ ThiefOK(s) /\ ClaimOK(s)
    BY DEF IInv
  <1>1. /\ tpc \in [Thieves -> AtWork \union {"unregistered", "idle", "reload", "id",
                                              "undefined", "destroyed"}]
        /\ tt \in [Thieves -> Nat] /\ ta \in [Thieves -> Nat]
        /\ was_idle \in [Thieves -> BOOLEAN] /\ id_last_used \in [Thieves -> Nat]
        /\ top \in Nat /\ active_buffer \in Nat
    BY <1>0 DEF TypeOK
  <1>2. ASSUME UNCHANGED <<top, bottom, memory, id_list, owner, ghost>>,
               tpc[s] \notin {"unregistered", "destroyed"},
               NEW l \in AtWork \union {"idle", "reload", "id", "undefined"},
               tpc' = [tpc EXCEPT ![s] = l],
               NEW x \in Nat, tt' = [tt EXCEPT ![s] = x],
               NEW a \in Nat, ta' = [ta EXCEPT ![s] = a],
               NEW w \in BOOLEAN, was_idle' = [was_idle EXCEPT ![s] = w],
               NEW n \in Nat, id_last_used' = [id_last_used EXCEPT ![s] = n],
               l \in AtWork => ~w,
               n <= active_buffer, l = "id" => a <= active_buffer,
               l \in {"cas", "get"} =>
                  /\ a \in DOMAIN buffers /\ n <= a
                  /\ pc \in {"scan", "used"} =>
                        min_id <= a \/ \E k \in DOMAIN scan : scan[k] = s,
               x <= top,
               l \in {"buffer", "cas"} /\ top = x => x \in Indices,
               l = "cas" /\ top = x => get(a, x) = itemAt[x],
               l # "get"
        PROVE  IInv'
    <2>1. TypeOK'
      BY <1>0, <1>1, <1>2 DEF TypeOK, owner, ghost
    <2>2. /\ tpc'[s] = l /\ tt'[s] = x /\ ta'[s] = a /\ was_idle'[s] = w /\ id_last_used'[s] = n
          /\ l \notin {"unregistered", "destroyed"}
          /\ UNCHANGED <<pc, scan, min_id, buffers, active_buffer, top, itemAt>>
          /\ pc # "destroyed" /\ Registered(s) /\ Registered(s)' = Registered(s)
          /\ Indices' = Indices
      BY <1>0, <1>1, <1>2 DEF ThiefOK, Registered, AtWork, owner, ghost, Indices, End
    <2>3. ThiefOK(s)'
      BY <1>2, <2>2 DEF ThiefOK
    <2>4. ClaimOK(s)'
      <3>1. get(ta[s], tt[s])' = get(a, x)
        BY <2>2 DEF get, size
      <3> QED BY <1>2, <2>2, <3>1 DEF ClaimOK
    <2>5. \A u \in Thieves \ {s} :
              /\ tt'[u] = tt[u] /\ ta'[u] = ta[u]
              /\ was_idle'[u] = was_idle[u] /\ id_last_used'[u] = id_last_used[u]
      BY <1>1, <1>2
    <2> QED BY <1>2, <2>1, <2>3, <2>4, <2>5, OwnAffair
  <1>3. CASE Begin(s)
    <2> DEFINE l == "top"
               x == tt[s]
               a == ta[s]
               w == FALSE
               n == id_last_used[s]
    <2>1. /\ UNCHANGED <<top, bottom, memory, id_list, owner, ghost>>
          /\ tpc[s] = "idle"
          /\ tpc' = [tpc EXCEPT ![s] = l]
          /\ tt' = [tt EXCEPT ![s] = x] /\ ta' = [ta EXCEPT ![s] = a]
          /\ was_idle' = [was_idle EXCEPT ![s] = w]
          /\ id_last_used' = [id_last_used EXCEPT ![s] = n]
      BY <1>1, <1>3 DEF Begin, ghost
    <2>2. /\ l \in AtWork \union {"idle", "reload", "id", "undefined"}
          /\ x \in Nat /\ a \in Nat /\ w \in BOOLEAN /\ n \in Nat
          /\ l \in AtWork => ~w
          /\ n <= active_buffer /\ (l = "id" => a <= active_buffer) /\ x <= top /\ l # "get"
      BY <1>0, <1>1, <2>1 DEF AtWork, ThiefOK, ClaimOK
    <2>3. l \notin {"buffer", "cas"}
      OBVIOUS
    <2> HIDE DEF l, x, a, w, n
    <2> QED BY <1>2, <2>1, <2>2, <2>3
  <1>4. CASE ReadTop(s)
    <2> DEFINE l == "bottom"
               x == top
               a == ta[s]
               w == was_idle[s]
               n == id_last_used[s]
    <2>1. /\ UNCHANGED <<top, bottom, memory, id_list, owner, ghost>>
          /\ tpc[s] = "top"
          /\ tpc' = [tpc EXCEPT ![s] = l]
          /\ tt' = [tt EXCEPT ![s] = x] /\ ta' = [ta EXCEPT ![s] = a]
          /\ was_idle' = [was_idle EXCEPT ![s] = w]
          /\ id_last_used' = [id_last_used EXCEPT ![s] = n]
      BY <1>1, <1>4 DEF ReadTop, ghost
    <2>2. /\ l \in AtWork \union {"idle", "reload", "id", "undefined"}
          /\ x \in Nat /\ a \in Nat /\ w \in BOOLEAN /\ n \in Nat
          /\ l \in AtWork => ~w
          /\ n <= active_buffer /\ (l = "id" => a <= active_buffer) /\ x <= top /\ l # "get"
      BY <1>0, <1>1, <2>1 DEF AtWork, ThiefOK, ClaimOK
    <2>3. l \notin {"buffer", "cas"}
      OBVIOUS
    <2> HIDE DEF l, x, a, w, n
    <2> QED BY <1>2, <2>1, <2>2, <2>3
  <1>5. CASE ReadBottom(s) /\ bottom - tt[s] > 0
    <2> DEFINE l == "buffer"
               x == tt[s]
               a == ta[s]
               w == was_idle[s]
               n == id_last_used[s]
    <2>1. /\ UNCHANGED <<top, bottom, memory, id_list, owner, ghost>>
          /\ tpc[s] = "bottom"
          /\ tpc' = [tpc EXCEPT ![s] = l]
          /\ tt' = [tt EXCEPT ![s] = x] /\ ta' = [ta EXCEPT ![s] = a]
          /\ was_idle' = [was_idle EXCEPT ![s] = w]
          /\ id_last_used' = [id_last_used EXCEPT ![s] = n]
      BY <1>1, <1>5 DEF ReadBottom, ghost
    <2>2. /\ l \in AtWork \union {"idle", "reload", "id", "undefined"}
          /\ x \in Nat /\ a \in Nat /\ w \in BOOLEAN /\ n \in Nat
          /\ l \in AtWork => ~w
          /\ n <= active_buffer /\ (l = "id" => a <= active_buffer) /\ x <= top /\ l # "get"
      BY <1>0, <1>1, <2>1 DEF AtWork, ThiefOK, ClaimOK
    <2>3. top = tt[s] => tt[s] \in Indices
      <3>1. bottom \in Int /\ b \in Int
        BY <1>0 DEF TypeOK
      <3>2. pc \in {"look", "last"} => b = bottom + 1
        BY <1>0 DEF OwnerOK
      <3> QED BY <1>1, <1>5, <3>1, <3>2 DEF Indices, End
    <2> HIDE DEF a, w, n
    <2> QED BY <1>2, <2>1, <2>2, <2>3
  <1>12. CASE ReadBottom(s) /\ ~(bottom - tt[s] > 0)
    <2> DEFINE l == "done"
               x == 0
               a == 0
               w == was_idle[s]
               n == id_last_used[s]
    <2>1. /\ UNCHANGED <<top, bottom, memory, id_list, owner, ghost>>
          /\ tpc[s] = "bottom"
          /\ tpc' = [tpc EXCEPT ![s] = l]
          /\ tt' = [tt EXCEPT ![s] = x] /\ ta' = [ta EXCEPT ![s] = a]
          /\ was_idle' = [was_idle EXCEPT ![s] = w]
          /\ id_last_used' = [id_last_used EXCEPT ![s] = n]
      BY <1>1, <1>12 DEF ReadBottom, ghost
    <2>2. /\ l \in AtWork \union {"idle", "reload", "id", "undefined"}
          /\ x \in Nat /\ a \in Nat /\ w \in BOOLEAN /\ n \in Nat
          /\ l \in AtWork => ~w
          /\ n <= active_buffer /\ (l = "id" => a <= active_buffer) /\ x <= top /\ l # "get"
      BY <1>0, <1>1, <2>1 DEF AtWork, ThiefOK, ClaimOK
    <2>3. l \notin {"buffer", "cas"}
      OBVIOUS
    <2> HIDE DEF l, x, a, w, n
    <2> QED BY <1>2, <2>1, <2>2, <2>3
  <1>6. CASE ReadBuffer(s)
    <2> DEFINE l == "cas"
               x == tt[s]
               a == active_buffer
               w == was_idle[s]
               n == id_last_used[s]
    <2>1. /\ UNCHANGED <<top, bottom, memory, id_list, owner, ghost>>
          /\ tpc[s] = "buffer"
          /\ tpc' = [tpc EXCEPT ![s] = l]
          /\ tt' = [tt EXCEPT ![s] = x] /\ ta' = [ta EXCEPT ![s] = a]
          /\ was_idle' = [was_idle EXCEPT ![s] = w]
          /\ id_last_used' = [id_last_used EXCEPT ![s] = n]
      BY <1>1, <1>6 DEF ReadBuffer, ghost
    <2>2. /\ l \in AtWork \union {"idle", "reload", "id", "undefined"}
          /\ x \in Nat /\ a \in Nat /\ w \in BOOLEAN /\ n \in Nat
          /\ l \in AtWork => ~w
          /\ n <= active_buffer /\ (l = "id" => a <= active_buffer) /\ x <= top /\ l # "get"
      BY <1>0, <1>1, <2>1 DEF AtWork, ThiefOK, ClaimOK
    <2>3. /\ active_buffer \in DOMAIN buffers
          /\ top = tt[s] => tt[s] \in Indices
          /\ top = tt[s] => get(active_buffer, tt[s]) = itemAt[tt[s]]
          /\ pc \in {"scan", "used"} => min_id <= active_buffer
      <3>1. pc # "destroyed" /\ (top = tt[s] => tt[s] \in Indices)
        BY <1>0, <2>1 DEF ThiefOK, ClaimOK
      <3> QED BY <1>0, <3>1, ActiveExists DEF ActiveHoldsContents, OwnerOK
    <2> HIDE DEF w, n
    <2> QED BY <1>2, <2>1, <2>2, <2>3
  <1>7. CASE Claim(s) /\ top # tt[s]
    <2> DEFINE l == "done"
               x == 0
               a == 0
               w == was_idle[s]
               n == id_last_used[s]
    <2>1. /\ UNCHANGED <<top, bottom, memory, id_list, owner, ghost>>
          /\ tpc[s] = "cas"
          /\ tpc' = [tpc EXCEPT ![s] = l]
          /\ tt' = [tt EXCEPT ![s] = x] /\ ta' = [ta EXCEPT ![s] = a]
          /\ was_idle' = [was_idle EXCEPT ![s] = w]
          /\ id_last_used' = [id_last_used EXCEPT ![s] = n]
      BY <1>1, <1>7 DEF Claim, ghost
    <2>2. /\ l \in AtWork \union {"idle", "reload", "id", "undefined"}
          /\ x \in Nat /\ a \in Nat /\ w \in BOOLEAN /\ n \in Nat
          /\ l \in AtWork => ~w
          /\ n <= active_buffer /\ (l = "id" => a <= active_buffer) /\ x <= top /\ l # "get"
      BY <1>0, <1>1, <2>1 DEF AtWork, ThiefOK, ClaimOK
    <2>3. l \notin {"buffer", "cas"}
      OBVIOUS
    <2> HIDE DEF l, x, a, w, n
    <2> QED BY <1>2, <2>1, <2>2, <2>3
  <1>8. CASE Get(s)
    <2> DEFINE l == "done"
               x == 0
               a == 0
               w == was_idle[s]
               n == id_last_used[s]
    <2>1. /\ UNCHANGED <<top, bottom, memory, id_list, owner, ghost>>
          /\ tpc[s] = "get"
          /\ tpc' = [tpc EXCEPT ![s] = l]
          /\ tt' = [tt EXCEPT ![s] = x] /\ ta' = [ta EXCEPT ![s] = a]
          /\ was_idle' = [was_idle EXCEPT ![s] = w]
          /\ id_last_used' = [id_last_used EXCEPT ![s] = n]
      BY <1>1, <1>8 DEF Get, ghost
    <2>2. /\ l \in AtWork \union {"idle", "reload", "id", "undefined"}
          /\ x \in Nat /\ a \in Nat /\ w \in BOOLEAN /\ n \in Nat
          /\ l \in AtWork => ~w
          /\ n <= active_buffer /\ (l = "id" => a <= active_buffer) /\ x <= top /\ l # "get"
      BY <1>0, <1>1, <2>1 DEF AtWork, ThiefOK, ClaimOK
    <2>3. l \notin {"buffer", "cas"}
      OBVIOUS
    <2> HIDE DEF l, x, a, w, n
    <2> QED BY <1>2, <2>1, <2>2, <2>3
  <1>9. CASE SetIdle(s)
    <2> DEFINE l == "reload"
               x == tt[s]
               a == ta[s]
               w == TRUE
               n == id_last_used[s]
    <2>1. /\ UNCHANGED <<top, bottom, memory, id_list, owner, ghost>>
          /\ tpc[s] = "done"
          /\ tpc' = [tpc EXCEPT ![s] = l]
          /\ tt' = [tt EXCEPT ![s] = x] /\ ta' = [ta EXCEPT ![s] = a]
          /\ was_idle' = [was_idle EXCEPT ![s] = w]
          /\ id_last_used' = [id_last_used EXCEPT ![s] = n]
      BY <1>1, <1>9 DEF SetIdle, ghost
    <2>2. /\ l \in AtWork \union {"idle", "reload", "id", "undefined"}
          /\ x \in Nat /\ a \in Nat /\ w \in BOOLEAN /\ n \in Nat
          /\ l \in AtWork => ~w
          /\ n <= active_buffer /\ (l = "id" => a <= active_buffer) /\ x <= top /\ l # "get"
      BY <1>0, <1>1, <2>1 DEF AtWork, ThiefOK, ClaimOK
    <2>3. l \notin {"buffer", "cas"}
      OBVIOUS
    <2> HIDE DEF l, x, a, w, n
    <2> QED BY <1>2, <2>1, <2>2, <2>3
  <1>10. CASE ReloadBuffer(s)
    <2> DEFINE l == "id"
               x == tt[s]
               a == active_buffer
               w == was_idle[s]
               n == id_last_used[s]
    <2>1. /\ UNCHANGED <<top, bottom, memory, id_list, owner, ghost>>
          /\ tpc[s] = "reload"
          /\ tpc' = [tpc EXCEPT ![s] = l]
          /\ tt' = [tt EXCEPT ![s] = x] /\ ta' = [ta EXCEPT ![s] = a]
          /\ was_idle' = [was_idle EXCEPT ![s] = w]
          /\ id_last_used' = [id_last_used EXCEPT ![s] = n]
      BY <1>1, <1>10 DEF ReloadBuffer, ghost
    <2>2. /\ l \in AtWork \union {"idle", "reload", "id", "undefined"}
          /\ x \in Nat /\ a \in Nat /\ w \in BOOLEAN /\ n \in Nat
          /\ l \in AtWork => ~w
          /\ n <= active_buffer /\ (l = "id" => a <= active_buffer) /\ x <= top /\ l # "get"
      BY <1>0, <1>1, <2>1 DEF AtWork, ThiefOK, ClaimOK
    <2>3. l \notin {"buffer", "cas"}
      OBVIOUS
    <2> HIDE DEF l, x, a, w, n
    <2> QED BY <1>2, <2>1, <2>2, <2>3
  <1>11. CASE StoreId(s)
    <2> DEFINE l == IF ta[s] \notin DOMAIN buffers THEN "undefined" ELSE "idle"
               x == tt[s]
               a == 0
               w == was_idle[s]
               n == IF ta[s] \notin DOMAIN buffers THEN id_last_used[s] ELSE ta[s]
    <2>1. /\ UNCHANGED <<top, bottom, memory, id_list, owner, ghost>>
          /\ tpc[s] = "id"
          /\ tpc' = [tpc EXCEPT ![s] = l]
          /\ tt' = [tt EXCEPT ![s] = x] /\ ta' = [ta EXCEPT ![s] = a]
          /\ was_idle' = [was_idle EXCEPT ![s] = w]
          /\ id_last_used' = [id_last_used EXCEPT ![s] = n]
      BY <1>1, <1>11 DEF StoreId, ghost
    <2>2. /\ l \in AtWork \union {"idle", "reload", "id", "undefined"}
          /\ x \in Nat /\ a \in Nat /\ w \in BOOLEAN /\ n \in Nat
          /\ l \in AtWork => ~w
          /\ n <= active_buffer /\ (l = "id" => a <= active_buffer) /\ x <= top /\ l # "get"
      BY <1>0, <1>1, <2>1 DEF AtWork, ThiefOK, ClaimOK
    <2>3. l \notin {"buffer", "cas"}
      OBVIOUS
    <2> HIDE DEF l, x, a, w, n
    <2> QED BY <1>2, <2>1, <2>2, <2>3
  <1> QED BY <1>3, <1>4, <1>5, <1>6, <1>7, <1>8, <1>9, <1>10, <1>11, <1>12

-----------------------------------------------------------------------------
(***************************************************************************)
(* The invariant and what follows from it                                  *)
(***************************************************************************)
\* Every step preserves the invariant.
LEMMA IInvStep == IInv /\ [Next]_vars => IInv'
  <1> SUFFICES ASSUME IInv, [Next]_vars PROVE IInv'
    OBVIOUS
  <1>1. CASE Owner
    BY <1>1, PushStep, GrowStep, PutStep, PublishStep, PopStep, LookStep, LastItemStep,
       RestoreStep, ShrinkStep, ReadIdleStep, ReadLastUsedStep, ReclaimStep DEF Owner
  <1>2. CASE Destroy
    BY <1>2, DestroyStep
  <1>3. ASSUME NEW s \in Thieves, Thief(s) PROVE IInv'
    <2>1. CASE Register(s)
      BY <2>1, RegisterStep
    <2>2. CASE Claim(s) /\ top = tt[s]
      BY <2>2, ClaimStep
    <2>3. CASE ~Register(s) /\ ~(Claim(s) /\ top = tt[s])
      BY <1>3, <2>3, AttemptStep DEF Thief
    <2> QED BY <2>1, <2>2, <2>3
  <1>4. CASE UNCHANGED vars
    <2>1. /\ UNCHANGED <<top, bottom, active_buffer, buffers, unlinked, id_list, was_idle>>
          /\ UNCHANGED <<id_last_used, pc, b, t, scan, min_id, tpc, tt, ta, pushes, itemAt, taken>>
      BY <1>4 DEF vars, memory, tokens, owner, thief, ghost
    <2>2. /\ TypeOK /\ OwnerOK /\ FitsOK /\ ChainOK /\ ItemsOK /\ ListOK /\ ActiveHoldsContents
          /\ \A s \in Thieves : ThiefOK(s) /\ ClaimOK(s)
      BY DEF IInv
    <2>3. /\ End' = End /\ Indices' = Indices /\ Pushing' = Pushing /\ Used' = Used
          /\ \A a : size(a)' = size(a)
      BY <2>1 DEF End, Indices, Pushing, Used, size
    <2>4. \A a, i : get(a, i)' = get(a, i)
      BY <2>1 DEF get, size
    <2>5. TypeOK' /\ ChainOK' /\ ListOK'
      BY <2>1, <2>2 DEF TypeOK, ChainOK, ListOK, Unregistered
    <2>8. OwnerOK' /\ FitsOK'
      BY <2>1, <2>2, <2>3 DEF OwnerOK, FitsOK
    <2>6. ItemsOK' /\ ActiveHoldsContents'
      BY <2>1, <2>2, <2>3, <2>4 DEF ItemsOK, ActiveHoldsContents
    <2>7. ASSUME NEW s \in Thieves PROVE ThiefOK(s)' /\ ClaimOK(s)'
      <3>1. ThiefOK(s)'
        BY <2>1, <2>2 DEF ThiefOK, Registered
      <3>2. get(ta[s], tt[s])' = get(ta[s], tt[s])
        BY <2>1 DEF get, size
      <3>3. ClaimOK(s)'
        BY <2>1, <2>2, <2>3, <3>2 DEF ClaimOK
      <3> QED BY <3>1, <3>3
    <2> QED BY <2>5, <2>6, <2>7, <2>8 DEF IInv
  <1> QED BY <1>1, <1>2, <1>3, <1>4 DEF Next

\* The invariant holds throughout.
THEOREM Invariance == Spec => []IInv
  BY IInvInit, IInvStep, PTL DEF Spec

\* Every variable stays in its range: top never falls below zero, and every ring
\* buffer is as large as it says.
THEOREM TypeCorrect == Spec => []TypeOK
  <1>1. IInv => TypeOK
    BY DEF IInv
  <1> QED BY <1>1, Invariance, PTL

\* The active buffer holds every item of the deque at its slot, whatever the owner
\* pushes and pops and the thieves steal while a resize copies it.
THEOREM ContentsKept == Spec => []ActiveHoldsContents
  <1>1. IInv => ActiveHoldsContents
    BY DEF IInv
  <1> QED BY <1>1, Invariance, PTL

\* reclaim_buffers deletes the buffers from the oldest unlinked one on and none that a
\* thief between its load of active_buffer and its read of the item still uses, and
\* the destructor leaves none over.
THEOREM NoUseAfterReclaim == Spec => []BuffersKept
  <1>1. IInv => BuffersKept
    BY DEF IInv, ChainOK, ThiefOK, BuffersKept
  <1> QED BY <1>1, Invariance, PTL

\* A thief that has claimed an item reads that item, unless a later one is claimed
\* before it looks.
THEOREM ItemFound == Spec => []ItemUnlessOvertaken
  <1>1. IInv => ItemUnlessOvertaken
    BY DEF IInv, ClaimOK, ItemUnlessOvertaken
  <1> QED BY <1>1, Invariance, PTL

-----------------------------------------------------------------------------
(***************************************************************************)
(* The deque implements WorkDeque                                          *)
(***************************************************************************)
\* How many items the deque has.
Count == IF top < End THEN End - top ELSE 0

ContentsOK ==
    /\ Count \in Nat /\ top \in Nat /\ End \in Int
    /\ Contents = [i \in 1 .. Count |-> itemAt[top + i - 1]]
    /\ Contents \in Seq(Nat) /\ Len(Contents) = Count
    /\ \A i \in 1 .. Count : top + i - 1 \in Indices /\ Contents[i] \in 1 .. Used

LEMMA ContentsAre == TypeOK /\ ItemsOK => ContentsOK
  <1> SUFFICES ASSUME TypeOK, ItemsOK PROVE ContentsOK
    OBVIOUS
  <1>1. top \in Nat /\ End \in Int
    BY DEF TypeOK, End
  <1>2. Cardinality(Indices) = Count /\ Count \in Nat
    BY <1>1, FS_Interval DEF Indices, Count
  <1>3. \A i \in 1 .. Count : top + i - 1 \in Indices
    BY <1>1 DEF Indices, Count
  <1>4. Contents = [i \in 1 .. Count |-> itemAt[top + i - 1]]
    BY <1>2 DEF Contents
  <1>5. \A i \in 1 .. Count : Contents[i] \in 1 .. Used
    BY <1>3, <1>4 DEF ItemsOK
  <1>6. Contents \in Seq(Nat) /\ Len(Contents) = Count
    <2>1. \A i \in 1 .. Count : itemAt[top + i - 1] \in Nat
      BY <1>3 DEF ItemsOK
    <2> QED BY <1>2, <1>4, <2>1
  <1> QED BY <1>1, <1>2, <1>3, <1>4, <1>5, <1>6 DEF ContentsOK

LEMMA ContentsWillBe == TypeOK' /\ ItemsOK' => ContentsOK'
  BY ContentsAre, PTL

\* The contents are given by the items at the indices from top on.
LEMMA SameContents ==
    ASSUME TypeOK, ItemsOK, TypeOK', ItemsOK', Count' = Count,
           Count > 0 => top' = top, \A i \in Indices : itemAt'[i] = itemAt[i]
    PROVE  Contents' = Contents
  <1>1. /\ Count \in Nat /\ Contents = [i \in 1 .. Count |-> itemAt[top + i - 1]]
        /\ \A i \in 1 .. Count : top + i - 1 \in Indices
    BY ContentsAre DEF ContentsOK
  <1>2. Contents' = [i \in 1 .. Count' |-> itemAt'[top' + i - 1]]
    BY ContentsWillBe DEF ContentsOK
  <1>3. \A i \in 1 .. Count : itemAt'[top' + i - 1] = itemAt[top + i - 1]
    BY <1>1
  <1> QED BY <1>1, <1>2, <1>3

\* Taking the item at top is the abstract Steal.
LEMMA TakeOldest ==
    ASSUME TypeOK, ItemsOK, TypeOK', ItemsOK', Count > 0, Count' = Count - 1,
           top' = top + 1, itemAt' = itemAt, taken' = taken \union {itemAt[top]}
    PROVE  Abstract!Steal
  <1>1. /\ Count \in Nat /\ top \in Nat
        /\ Contents = [i \in 1 .. Count |-> itemAt[top + i - 1]]
        /\ Contents \in Seq(Nat) /\ Len(Contents) = Count
    BY ContentsAre DEF ContentsOK
  <1>2. /\ Contents' = [i \in 1 .. Count - 1 |-> itemAt[top + i]]
        /\ Contents' \in Seq(Nat) /\ Len(Contents') = Count - 1
    <2>1. /\ Contents' = [i \in 1 .. Count' |-> itemAt'[top' + i - 1]]
          /\ Contents' \in Seq(Nat) /\ Len(Contents') = Count'
      BY ContentsWillBe DEF ContentsOK
    <2>2. \A i \in 1 .. Count - 1 : itemAt'[top' + i - 1] = itemAt[top + i]
      <3>1. \A i \in 1 .. Count - 1 : top' + i - 1 = top + i
        BY <1>1
      <3> QED BY <3>1
    <2> QED BY <1>1, <2>1, <2>2
  <1>3. Contents # <<>> /\ Head(Contents) = itemAt[top]
    <2>1. Contents[1] = itemAt[top] /\ Len(Contents) > 0
      BY <1>1
    <2> QED BY <1>1, <2>1
  <1>4. /\ Tail(Contents) \in Seq(Nat) /\ Len(Tail(Contents)) = Count - 1
        /\ \A i \in 1 .. Count - 1 : Tail(Contents)[i] = itemAt[top + i]
    <2>1. \A i \in 1 .. Count - 1 : Contents[i + 1] = itemAt[top + i]
      BY <1>1
    <2>2. /\ Tail(Contents) \in Seq(Nat) /\ Len(Tail(Contents)) = Count - 1
          /\ \A i \in 1 .. Count - 1 : Tail(Contents)[i] = Contents[i + 1]
      <3>1. Contents \in Seq(Nat) /\ Contents # <<>> /\ Len(Contents) = Count
        BY <1>1, <1>3
      <3> QED BY <3>1
    <2> QED BY <2>1, <2>2
  <1>5. Contents' = Tail(Contents)
    BY <1>1, <1>2, <1>4, SeqEqual
  <1> QED BY <1>3, <1>5 DEF Abstract!Steal

\* Taking the item at the other end is the abstract Pop.
LEMMA TakeNewest ==
    ASSUME TypeOK, ItemsOK, TypeOK', ItemsOK', Count > 0, Count' = Count - 1,
           top' = top, itemAt' = itemAt, taken' = taken \union {itemAt[top + Count - 1]}
    PROVE  Abstract!Pop
  <1>1. /\ Count \in Nat /\ top \in Nat
        /\ Contents = [i \in 1 .. Count |-> itemAt[top + i - 1]]
        /\ Contents \in Seq(Nat) /\ Len(Contents) = Count
    BY ContentsAre DEF ContentsOK
  <1>2. /\ Contents' = [i \in 1 .. Count - 1 |-> itemAt[top + i - 1]]
        /\ Contents' \in Seq(Nat) /\ Len(Contents') = Count - 1
    BY ContentsWillBe DEF ContentsOK
  <1>3. Contents # <<>> /\ Abstract!Last(Contents) = itemAt[top + Count - 1]
    <2>1. Contents[Count] = itemAt[top + Count - 1] /\ Len(Contents) > 0
      BY <1>1
    <2> QED BY <1>1, <2>1 DEF Abstract!Last
  <1>4. /\ SubSeq(Contents, 1, Count - 1) \in Seq(Nat)
        /\ Len(SubSeq(Contents, 1, Count - 1)) = Count - 1
        /\ \A i \in 1 .. Count - 1 : SubSeq(Contents, 1, Count - 1)[i] = itemAt[top + i - 1]
    <2>1. \A i \in 1 .. Count - 1 : Contents[i] = itemAt[top + i - 1]
      BY <1>1
    <2>2. /\ SubSeq(Contents, 1, Count - 1) \in Seq(Nat)
          /\ Len(SubSeq(Contents, 1, Count - 1)) = Count - 1
          /\ \A i \in 1 .. Count - 1 : SubSeq(Contents, 1, Count - 1)[i] = Contents[i]
      <3>1. Contents \in Seq(Nat) /\ Len(Contents) = Count /\ Count \in Nat /\ Count > 0
        BY <1>1
      <3> QED BY <3>1
    <2> QED BY <2>1, <2>2
  <1>5. Contents' = SubSeq(Contents, 1, Count - 1)
    BY <1>1, <1>2, <1>4, SeqEqual
  <1> QED BY <1>1, <1>3, <1>5 DEF Abstract!Pop, Abstract!Front

\* One item more at that end, which is not there yet and not taken, is the abstract Push.
LEMMA AddNewest ==
    ASSUME TypeOK, ItemsOK, TypeOK', ItemsOK', Count' = Count + 1, NEW x \in 1 .. MaxPushes[0],
           top' = top, itemAt' = itemAt, taken' = taken, itemAt[top + Count] = x, x > Used
    PROVE  Abstract!Push(x)
  <1>1. /\ Count \in Nat /\ top \in Nat
        /\ Contents = [i \in 1 .. Count |-> itemAt[top + i - 1]]
        /\ Contents \in Seq(Nat) /\ Len(Contents) = Count
        /\ \A i \in 1 .. Count : Contents[i] \in 1 .. Used
    BY ContentsAre DEF ContentsOK
  <1>2. /\ Contents' = [i \in 1 .. Count + 1 |-> itemAt[top + i - 1]]
        /\ Contents' \in Seq(Nat) /\ Len(Contents') = Count + 1
    BY ContentsWillBe DEF ContentsOK
  <1>3. x \in Nat /\ Used \in Int /\ taken \subseteq 1 .. Used
    <2>1. pushes \in Nat /\ taken \subseteq 1 .. Used
      BY Constants DEF TypeOK, ItemsOK
    <2>2. Used = pushes - 1 \/ Used = pushes
      BY DEF Used
    <2> QED BY <2>1, <2>2, Constants
  <1>4. x \notin taken /\ \A i \in DOMAIN Contents : Contents[i] # x
    <2>1. DOMAIN Contents = 1 .. Count
      BY <1>1
    <2>2. \A y \in 1 .. Used : y # x
      BY <1>3
    <2> QED BY <1>1, <1>3, <2>1, <2>2
  <1>5. /\ Append(Contents, x) \in Seq(Nat) /\ Len(Append(Contents, x)) = Count + 1
        /\ \A i \in 1 .. Count + 1 : Append(Contents, x)[i] = itemAt[top + i - 1]
    <2>1. \A i \in 1 .. Count : Contents[i] = itemAt[top + i - 1]
      BY <1>1
    <2>2. /\ Append(Contents, x) \in Seq(Nat) /\ Len(Append(Contents, x)) = Count + 1
          /\ Append(Contents, x)[Count + 1] = x
          /\ \A i \in 1 .. Count : Append(Contents, x)[i] = Contents[i]
      <3>1. Contents \in Seq(Nat) /\ Len(Contents) = Count /\ Count \in Nat
        BY <1>1
      <3> QED BY <1>3, <3>1
    <2>3. itemAt[top + (Count + 1) - 1] = x
      <3>1. top + (Count + 1) - 1 = top + Count
        BY <1>1
      <3> QED BY <3>1
    <2>4. ASSUME NEW i \in 1 .. Count + 1
          PROVE  Append(Contents, x)[i] = itemAt[top + i - 1]
      <3>1. CASE i = Count + 1
        BY <2>2, <2>3, <3>1
      <3>2. CASE i # Count + 1
        <4>1. i \in 1 .. Count
          BY <1>1, <3>2
        <4> QED BY <2>1, <2>2, <4>1
      <3> QED BY <3>1, <3>2
    <2> QED BY <2>2, <2>4
  <1>6. Contents' = Append(Contents, x)
    BY <1>1, <1>2, <1>5, SeqEqual
  <1> QED BY <1>4, <1>6 DEF Abstract!Push

LEMMA InitMaps == Init => Abstract!Init
  <1> SUFFICES ASSUME Init PROVE Abstract!Init
    OBVIOUS
  <1>1. TypeOK /\ ItemsOK
    BY IInvInit DEF IInv
  <1>2. Count = 0
    BY DEF Init, Count, End
  <1>3. Contents = <<>>
    BY <1>1, <1>2, ContentsAre DEF ContentsOK
  <1> QED BY <1>3 DEF Abstract!Init, Init

\* The publication of bottom is the abstract Push, the load of top that finds two items
\* or more the abstract Pop, and a claim that succeeds the abstract Steal; every other
\* step leaves the abstract deque alone.
LEMMA StepMaps == ASSUME IInv, [Next]_vars PROVE [Abstract!Next]_<<Contents, taken>>
  <1> USE DEF memory, tokens, owner, thief, ghost
  <1>0. /\ TypeOK /\ OwnerOK /\ ItemsOK /\ TypeOK' /\ ItemsOK'
        /\ \A s \in Thieves : ThiefOK(s) /\ ClaimOK(s)
    BY IInvStep DEF IInv
  <1>1. top \in Nat /\ bottom \in Int /\ b \in Int /\ t \in Nat /\ pushes \in 0 .. MaxPushes[0]
    BY <1>0 DEF TypeOK
  <1>2. ASSUME Count' = Count, Count > 0 => top' = top, taken' = taken,
               \A i \in Indices : itemAt'[i] = itemAt[i]
        PROVE  [Abstract!Next]_<<Contents, taken>>
    BY <1>0, <1>2, SameContents
  <1>3. ASSUME UNCHANGED <<top, bottom, itemAt, taken>>,
               pc \in {"look", "last"} => UNCHANGED <<pc, b>>,
               pc' \in {"look", "last"} => UNCHANGED <<pc, b>>
        PROVE  [Abstract!Next]_<<Contents, taken>>
    BY <1>2, <1>3 DEF Count, End
  <1>4. CASE Publish
    <2>1. /\ pc = "publish" /\ pc' = "idle" /\ bottom' = b + 1 /\ b = bottom /\ top <= b
          /\ UNCHANGED <<top, itemAt, taken>>
      BY <1>0, <1>4 DEF Publish, EndCall, OwnerOK
    <2>2. Count = b - top /\ Count' = Count + 1 /\ top + Count = b
      BY <1>1, <2>1 DEF Count, End
    <2>3. itemAt[top + Count] = pushes /\ pushes > Used /\ pushes \in 1 .. MaxPushes[0]
      <3>1. itemAt[b] = pushes /\ Used = pushes - 1 /\ pushes \in 0 .. MaxPushes[0]
        BY <1>0, <1>1, <2>1 DEF ItemsOK, Used, Pushing
      <3>2. b <= Used
        BY <1>0, <2>1 DEF ItemsOK, End
      <3> QED BY <1>1, <2>1, <2>2, <3>1, <3>2, Constants
    <2> QED BY <1>0, <2>1, <2>2, <2>3, AddNewest DEF Abstract!Next
  <1>5. CASE Look
    <2>1. pc = "look" /\ top <= b /\ b = bottom + 1
          /\ UNCHANGED <<top, bottom, b, itemAt>>
      BY <1>0, <1>5 DEF Look, OwnerOK
    <2>2. CASE b - top <= 0
      <3>1. pc' = "restore" /\ taken' = taken
        BY <1>1, <1>5, <2>2 DEF Look
      <3> QED BY <1>1, <1>2, <2>1, <2>2, <3>1 DEF Count, End
    <2>3. CASE b - top = 1
      <3>1. pc' = "last" /\ taken' = taken
        BY <1>1, <1>5, <2>3 DEF Look
      <3> QED BY <1>1, <1>2, <2>1, <2>3, <3>1 DEF Count, End
    <2>4. CASE b - top > 1
      <3>1. pc' = "shrink" /\ taken' = taken \union {itemAt[b - 1]}
        BY <1>1, <1>5, <2>4 DEF Look, Take
      <3>2. Count = b - top /\ Count' = Count - 1 /\ Count > 0 /\ top + Count - 1 = b - 1
        BY <1>1, <2>1, <2>4, <3>1 DEF Count, End
      <3> QED BY <1>0, <2>1, <3>1, <3>2, TakeNewest DEF Abstract!Next
    <2> QED BY <1>1, <2>2, <2>3, <2>4
  <1>6. CASE LastItem
    <2>1. /\ pc = "last" /\ pc' = "restore" /\ b = bottom + 1 /\ t = bottom /\ top \in {t, t + 1}
          /\ UNCHANGED <<bottom, b, itemAt>>
      BY <1>0, <1>6 DEF LastItem, OwnerOK
    <2>2. CASE top = t
      <3>1. top' = top + 1 /\ taken' = taken \union {itemAt[top]}
        BY <1>6, <2>2 DEF LastItem, Take
      <3>2. Count = 1 /\ Count' = Count - 1
        BY <1>1, <2>1, <2>2, <3>1 DEF Count, End
      <3> QED BY <1>0, <2>1, <3>1, <3>2, TakeOldest DEF Abstract!Next
    <2>3. CASE top # t
      <3>1. top' = top /\ taken' = taken
        BY <1>6, <2>3 DEF LastItem
      <3> QED BY <1>1, <1>2, <2>1, <2>3, <3>1 DEF Count, End
    <2> QED BY <2>2, <2>3
  <1>7. CASE Restore
    <2>1. /\ pc = "restore" /\ pc' = "idle" /\ bottom' = b /\ top = b /\ b = bottom + 1
          /\ UNCHANGED <<top, itemAt, taken>>
      BY <1>0, <1>7 DEF Restore, EndCall, OwnerOK
    <2> QED BY <1>1, <1>2, <2>1 DEF Count, End
  <1>8. CASE Pop
    <2>1. /\ pc = "idle" /\ pc' = "look" /\ b' = bottom
          /\ UNCHANGED <<top, itemAt, taken>>
      BY <1>8 DEF Pop
    <2> QED BY <1>2, <2>1 DEF Count, End
  <1>9. CASE Put
    <2>1. /\ pc = "put" /\ pc' = "publish" /\ UNCHANGED <<top, bottom, taken>>
          /\ itemAt' = [itemAt EXCEPT ![b] = pushes] /\ b = bottom
      BY <1>0, <1>9 DEF Put, OwnerOK
    <2>2. \A i \in Indices : itemAt'[i] = itemAt[i]
      BY <1>0, <1>1, <2>1 DEF Indices, End, TypeOK
    <2> QED BY <1>2, <2>1, <2>2 DEF Count, End
  <1>10. CASE Push \/ Grow \/ Shrink \/ ReadIdle \/ ReadLastUsed \/ Reclaim
    <2>1. UNCHANGED <<top, bottom, itemAt, taken>>
      BY <1>10 DEF Push, Grow, Shrink, ReadIdle, ReadLastUsed, Reclaim
    <2>2. pc \notin {"look", "last"} /\ pc' \notin {"look", "last"}
      BY <1>10 DEF Push, Grow, Shrink, ReadIdle, ReadLastUsed, Reclaim, StartScan, EndCall,
                   AfterScan
    <2> QED BY <1>3, <2>1, <2>2
  <1>11. CASE Destroy
    BY <1>3, <1>11 DEF Destroy
  <1>12. ASSUME NEW s \in Thieves, Thief(s) PROVE [Abstract!Next]_<<Contents, taken>>
    <2>1. CASE Claim(s) /\ top = tt[s]
      <3>1. /\ tpc[s] = "cas" /\ top' = top + 1 /\ taken' = taken \union {itemAt[top]}
            /\ UNCHANGED <<pc, b, bottom, itemAt>>
        BY <2>1 DEF Claim, Take
      <3>2. top < End /\ End \in Int
        BY <1>0, <1>1, <2>1, <3>1 DEF ClaimOK, Indices, End
      <3>3. Count > 0 /\ Count' = Count - 1
        <4>1. End' = End
          BY <3>1 DEF End
        <4> QED BY <1>1, <3>1, <3>2, <4>1 DEF Count
      <3> QED BY <1>0, <3>1, <3>3, TakeOldest DEF Abstract!Next
    <2>2. CASE ~(Claim(s) /\ top = tt[s])
      <3>1. UNCHANGED <<pc, b, top, bottom, itemAt, taken>>
        BY <1>12, <2>2 DEF Thief, Register, Begin, ReadTop, ReadBottom, ReadBuffer, Claim, Get,
                           SetIdle, ReloadBuffer, StoreId
      <3> QED BY <1>3, <3>1
    <2> QED BY <2>1, <2>2
  <1>13. CASE UNCHANGED vars
    BY <1>3, <1>13 DEF vars
  <1> QED BY <1>4, <1>5, <1>6, <1>7, <1>8, <1>9, <1>10, <1>11, <1>12, <1>13 DEF Next, Owner

\* The deque is one whose owner takes the newest item and whose thieves take the oldest,
\* each item once, whatever the number of thieves and the initial size.
THEOREM Refinement == Spec => ImplementsDeque
  <1>1. IInv /\ [Next]_vars => [Abstract!Next]_<<Contents, taken>>
    BY StepMaps
  <1> QED BY <1>1, InitMaps, Invariance, PTL DEF Spec, ImplementsDeque, Abstract!Spec
=============================================================================
