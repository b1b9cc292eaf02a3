-------------------------------- MODULE LfDeque --------------------------------
(***************************************************************************)
(* The work-stealing deque of include/pot/algorithms/lfdequeue.h, access   *)
(* by access: push and pop of its one owner, pop_back of registered        *)
(* thieves, the growing and shrinking ring buffers and their reclamation.  *)
(*                                                                         *)
(* A buffer is known by its id; each resize makes the next one and links   *)
(* the old one to it.  It has its size for the log_size of the code, which *)
(* a resize changes by one.  The items are the numbers of the pushes.      *)
(* Accesses interleave sequentially consistently.                          *)
(***************************************************************************)
EXTENDS Integers, Sequences, FiniteSets

CONSTANTS Thieves,
          InitialSize,  \* 1 << log_initial_size
          MaxPushes     \* bounds on the calls of push, by the number of thieves

ASSUME DequeAssumption == /\ InitialSize \in Nat \ {0}
                          /\ IsFiniteSet(Thieves)
                          /\ MaxPushes \in [0 .. Cardinality(Thieves) -> Nat]
                          /\ \A n \in DOMAIN MaxPushes : MaxPushes[n] <= MaxPushes[0]

VARIABLES top, bottom, active_buffer,
          buffers,      \* the ring buffers that exist, by id
          unlinked,     \* the oldest buffer not reclaimed, or None
          id_list,      \* the registered tokens, newest first
          was_idle, id_last_used,
          pc,           \* the owner
          b, t,         \* what it has read
          scan, min_id, \* reclaim_buffers
          tpc,          \* the thieves
          tt, ta,       \* the top and the buffer they have read
          pushes,       \* the number of items pushed
          itemAt,       \* history: the item pushed last at each index
          taken         \* history: the items taken

owner == <<pc, b, t, scan, min_id>>
thief == <<tpc, tt, ta>>
tokens == <<id_list, was_idle, id_last_used>>
memory == <<active_buffer, buffers, unlinked>>
ghost == <<pushes, itemAt, taken>>
vars == <<top, bottom, memory, tokens, owner, thief, ghost>>

None == -1

\* ring_buffer
Ring(n) == [size |-> n, segment |-> [i \in 0 .. n - 1 |-> 0]]

size(a) == buffers[a].size

get(a, i) == buffers[a].segment[i % size(a)]

Init == /\ top = 0 /\ bottom = 0
        /\ active_buffer = 0
        /\ buffers = [a \in {0} |-> Ring(InitialSize)]
        /\ unlinked = None
        /\ id_list = <<>>
        /\ was_idle = [s \in Thieves |-> TRUE]
        /\ id_last_used = [s \in Thieves |-> 0]
        /\ pc = "idle"
        /\ b = 0 /\ t = 0
        /\ scan = <<>> /\ min_id = 0
        /\ tpc = [s \in Thieves |-> "unregistered"]
        /\ tt = [s \in Thieves |-> 0]
        /\ ta = [s \in Thieves |-> 0]
        /\ pushes = 0
        /\ itemAt = [i \in 0 .. MaxPushes[0] |-> 0]
        /\ taken = {}

-----------------------------------------------------------------------------
(***************************************************************************)
(* The owner.                                                              *)
(***************************************************************************)
MutResizeShort(n) ==
    LET id == active_buffer
        copy == [j \in 0 .. n - 1 |->
                    IF \E i \in t .. b - 2 : i % n = j
                       THEN get(id, CHOOSE i \in t .. b - 2 : i % n = j) ELSE 0]
    IN  /\ buffers' = [a \in DOMAIN buffers \union {id + 1} |->
                         IF a = id + 1 THEN [size |-> n, segment |-> copy] ELSE buffers[a]]
        /\ active_buffer' = id + 1
        /\ unlinked' = IF unlinked = None THEN id ELSE unlinked

\* resize, and the store of active_buffer: the next buffer has the items of the
\* indices t .. b - 1.
Resize(n) ==
    LET id == active_buffer
        copy == [j \in 0 .. n - 1 |->
                    IF \E i \in t .. b - 1 : i % n = j
                       THEN get(id, CHOOSE i \in t .. b - 1 : i % n = j) ELSE 0]
    IN  /\ buffers' = [a \in DOMAIN buffers \union {id + 1} |->
                         IF a = id + 1 THEN [size |-> n, segment |-> copy] ELSE buffers[a]]
        /\ active_buffer' = id + 1
        /\ unlinked' = IF unlinked = None THEN id ELSE unlinked

\* The owner's call is over, and its locals with it; a local that is not read
\* any more is 0 throughout.
EndCall == /\ pc' = "idle"
           /\ b' = 0 /\ t' = 0
           /\ scan' = <<>> /\ min_id' = 0

\* Where reclaim_buffers begins, if there is something to reclaim.
StartScan == /\ pc' = "scan"
             /\ scan' = id_list
             /\ min_id' = active_buffer'
             /\ t' = 0
             /\ UNCHANGED b

\* push: the loads of bottom, top and active_buffer, of which only top changes
\* under the owner's feet.
Push ==
    /\ pc = "idle"
    /\ pushes < MaxPushes[Len(id_list)]
    /\ b' = bottom /\ t' = top
    /\ pushes' = pushes + 1
    /\ pc' = "grow"
    /\ UNCHANGED <<top, bottom, memory, tokens, scan, min_id, thief, itemAt, taken>>

MutGrowLate ==
    /\ pc = "grow"
    /\ IF b - t >= size(active_buffer)
          THEN Resize(2 * size(active_buffer)) ELSE UNCHANGED <<active_buffer, buffers, unlinked>>
    /\ IF unlinked' # None
          THEN StartScan
          ELSE pc' = "put" /\ t' = 0 /\ UNCHANGED <<b, scan, min_id>>
    /\ UNCHANGED <<top, bottom, tokens, thief, ghost>>

Grow ==
    /\ pc = "grow"
    /\ IF b - t >= size(active_buffer) - 1
          THEN Resize(2 * size(active_buffer)) ELSE UNCHANGED <<active_buffer, buffers, unlinked>>
    /\ IF unlinked' # None
          THEN StartScan
          ELSE pc' = "put" /\ t' = 0 /\ UNCHANGED <<b, scan, min_id>>
    /\ UNCHANGED <<top, bottom, tokens, thief, ghost>>

Put ==
    /\ pc = "put"
    /\ buffers' = [buffers EXCEPT ![active_buffer].segment[b % size(active_buffer)] = pushes]
    /\ itemAt' = [itemAt EXCEPT ![b] = pushes]
    /\ pc' = "publish"
    /\ UNCHANGED <<top, bottom, active_buffer, unlinked, tokens,
                   b, t, scan, min_id, thief, pushes, taken>>

Publish ==
    /\ pc = "publish"
    /\ bottom' = b + 1
    /\ EndCall
    /\ UNCHANGED <<top, memory, tokens, thief, ghost>>

\* pop: reserves the last index.
Pop ==
    /\ pc = "idle"
    /\ b' = bottom
    /\ bottom' = bottom - 1
    /\ pc' = "look"
    /\ UNCHANGED <<top, memory, tokens, t, scan, min_id, thief, ghost>>

Take(i) == taken' = taken \union {itemAt[i]}

MutLookGreedy ==
    /\ pc = "look"
    /\ t' = top
    /\ IF b - top <= 0 THEN pc' = "restore" /\ UNCHANGED taken
                       ELSE pc' = "shrink" /\ Take(b - 1)
    /\ UNCHANGED <<top, bottom, memory, tokens, b, scan, min_id, thief, pushes, itemAt>>

\* The load of top: nothing left, the last item, or more than that.
Look ==
    /\ pc = "look"
    /\ \/ b - top <= 0 /\ pc' = "restore" /\ UNCHANGED <<t, taken>>
       \/ b - top = 1 /\ pc' = "last" /\ t' = top /\ UNCHANGED taken
       \/ b - top > 1 /\ pc' = "shrink" /\ t' = top /\ Take(b - 1)
    /\ UNCHANGED <<top, bottom, memory, tokens, b, scan, min_id, thief, pushes, itemAt>>

\* The last item is raced for like a thief's.
LastItem ==
    /\ pc = "last"
    /\ IF top = t THEN top' = t + 1 /\ Take(t) ELSE UNCHANGED <<top, taken>>
    /\ pc' = "restore"
    /\ t' = 0
    /\ UNCHANGED <<bottom, memory, tokens, b, scan, min_id, thief, pushes, itemAt>>

Restore ==
    /\ pc = "restore"
    /\ bottom' = b
    /\ EndCall
    /\ UNCHANGED <<top, memory, tokens, thief, ghost>>

Shrink ==
    /\ pc = "shrink"
    /\ IF b - t <= size(active_buffer) \div 3 /\ b - t > InitialSize
          THEN Resize(size(active_buffer) \div 2) ELSE UNCHANGED <<active_buffer, buffers, unlinked>>
    /\ IF unlinked' # None THEN StartScan ELSE EndCall
    /\ UNCHANGED <<top, bottom, tokens, thief, ghost>>

\* The rest of the call that has led to reclaim_buffers: push has not moved
\* bottom yet, and pop has nothing left to do.
AfterScan == IF bottom = b THEN /\ pc' = "put"
                                /\ scan' = <<>> /\ min_id' = 0
                                /\ UNCHANGED <<b, t>>
                           ELSE EndCall

\* reclaim_buffers: the next token's was_idle, sequentially consistent with the store
\* of active_buffer before it although the code has no fence between them ...
ReadIdle ==
    /\ pc = "scan" /\ scan # <<>>
    /\ IF was_idle[Head(scan)] THEN scan' = Tail(scan) /\ UNCHANGED pc
                               ELSE pc' = "used" /\ UNCHANGED scan
    /\ UNCHANGED <<top, bottom, memory, tokens, b, t, min_id, thief, ghost>>

\* ... and, of a thief at work, its id_last_used.
ReadLastUsed ==
    /\ pc = "used"
    /\ LET last == id_last_used[Head(scan)]
       IN  min_id' = IF last < min_id THEN last ELSE min_id
    /\ scan' = Tail(scan)
    /\ pc' = "scan"
    /\ UNCHANGED <<top, bottom, memory, tokens, b, t, thief, ghost>>

Delete(ids) == buffers' = [id \in DOMAIN buffers \ ids |-> buffers[id]]

MutReclaimAll ==
    /\ pc = "scan" /\ scan = <<>>
    /\ Delete(unlinked .. active_buffer - 1)
    /\ unlinked' = active_buffer
    /\ AfterScan
    /\ UNCHANGED <<top, bottom, active_buffer, tokens, thief, ghost>>

\* The buffers below min_id are deleted, the oldest first.
Reclaim ==
    /\ pc = "scan" /\ scan = <<>>
    /\ Delete(unlinked .. min_id - 1)
    /\ unlinked' = IF unlinked < min_id THEN min_id ELSE unlinked
    /\ AfterScan
    /\ UNCHANGED <<top, bottom, active_buffer, tokens, thief, ghost>>

Owner == \/ Push \/ Grow \/ Put \/ Publish
         \/ Pop \/ Look \/ LastItem \/ Restore \/ Shrink
         \/ ReadIdle \/ ReadLastUsed \/ Reclaim

-----------------------------------------------------------------------------
(***************************************************************************)
(* The thieves.                                                            *)
(***************************************************************************)
Goto(s, l) == tpc' = [tpc EXCEPT ![s] = l]

\* The attempt is over; the locals of its first half are gone.
Attempted(s) == /\ Goto(s, "done")
                /\ tt' = [tt EXCEPT ![s] = 0]
                /\ ta' = [ta EXCEPT ![s] = 0]

\* register_stealer: the new token goes to the head of the list.
Register(s) ==
    /\ tpc[s] = "unregistered"
    /\ pushes <= MaxPushes[Len(id_list) + 1]
    /\ id_list' = <<s>> \o id_list
    /\ Goto(s, "idle")
    /\ UNCHANGED <<top, bottom, memory, was_idle, id_last_used, owner, tt, ta, ghost>>

\* pop_back
Begin(s) ==
    /\ tpc[s] = "idle"
    /\ was_idle' = [was_idle EXCEPT ![s] = FALSE]
    /\ Goto(s, "top")
    /\ UNCHANGED <<top, bottom, memory, id_list, id_last_used, owner, tt, ta, ghost>>

ReadTop(s) ==
    /\ tpc[s] = "top"
    /\ tt' = [tt EXCEPT ![s] = top]
    /\ Goto(s, "bottom")
    /\ UNCHANGED <<top, bottom, memory, tokens, owner, ta, ghost>>

ReadBottom(s) ==
    /\ tpc[s] = "bottom"
    /\ IF bottom - tt[s] > 0 THEN Goto(s, "buffer") /\ UNCHANGED <<tt, ta>>
                             ELSE Attempted(s)
    /\ UNCHANGED <<top, bottom, memory, tokens, owner, ghost>>

ReadBuffer(s) ==
    /\ tpc[s] = "buffer"
    /\ ta' = [ta EXCEPT ![s] = active_buffer]
    /\ Goto(s, "cas")
    /\ UNCHANGED <<top, bottom, memory, tokens, owner, tt, ghost>>

\* The compare_exchange of top claims the item ...
Claim(s) ==
    /\ tpc[s] = "cas"
    /\ IF top = tt[s]
          THEN /\ top' = tt[s] + 1 /\ Take(tt[s])
               /\ Goto(s, "get") /\ UNCHANGED <<tt, ta>>
          ELSE Attempted(s) /\ UNCHANGED <<top, taken>>
    /\ UNCHANGED <<bottom, memory, tokens, owner, pushes, itemAt>>

\* ... which is read from the buffer only now.
Get(s) ==
    /\ tpc[s] = "get"
    /\ Attempted(s)
    /\ UNCHANGED <<top, bottom, memory, tokens, owner, ghost>>

SetIdle(s) ==
    /\ tpc[s] = "done"
    /\ was_idle' = [was_idle EXCEPT ![s] = TRUE]
    /\ Goto(s, "reload")
    /\ UNCHANGED <<top, bottom, memory, id_list, id_last_used, owner, tt, ta, ghost>>

ReloadBuffer(s) ==
    /\ tpc[s] = "reload"
    /\ ta' = [ta EXCEPT ![s] = active_buffer]
    /\ Goto(s, "id")
    /\ UNCHANGED <<top, bottom, memory, tokens, owner, tt, ghost>>

\* The id is read from the buffer, which nothing protects any more: undefined
\* if it has been reclaimed meanwhile.
StoreId(s) ==
    /\ tpc[s] = "id"
    /\ IF ta[s] \notin DOMAIN buffers
          THEN Goto(s, "undefined") /\ UNCHANGED id_last_used
          ELSE Goto(s, "idle") /\ id_last_used' = [id_last_used EXCEPT ![s] = ta[s]]
    /\ ta' = [ta EXCEPT ![s] = 0]
    /\ UNCHANGED <<top, bottom, memory, id_list, was_idle, owner, tt, ghost>>

Thief(s) == \/ Register(s) \/ Begin(s) \/ ReadTop(s) \/ ReadBottom(s)
            \/ ReadBuffer(s) \/ Claim(s) \/ Get(s) \/ SetIdle(s)
            \/ ReloadBuffer(s) \/ StoreId(s)

\* The destructor, when nobody uses the deque any more: what is still unlinked,
\* the active buffer and the tokens.
Destroy ==
    /\ pc = "idle"
    /\ \A s \in Thieves : tpc[s] \in {"unregistered", "idle"}
    /\ Delete({active_buffer} \union
              (IF unlinked = None THEN {} ELSE unlinked .. active_buffer - 1))
    /\ id_list' = <<>>
    /\ pc' = "destroyed"
    /\ tpc' = [s \in Thieves |-> "destroyed"]
    /\ UNCHANGED <<top, bottom, active_buffer, unlinked, was_idle, id_last_used,
                   b, t, scan, min_id, tt, ta, ghost>>

Next == Owner \/ Destroy \/ \E s \in Thieves : Thief(s)

Spec == Init /\ [][Next]_vars

-----------------------------------------------------------------------------
\* Where the deque ends: pop has made up its mind about the last item only when it
\* has read top.
End == IF pc \in {"look", "last"} THEN b ELSE bottom

\* The indices of the items in the deque.
Indices == top .. End - 1

\* The active buffer holds every item of the deque at the slot of its index,
\* whatever has been pushed, popped and stolen while it was copied.
ActiveHoldsContents ==
    pc # "destroyed" => \A i \in Indices : get(active_buffer, i) = itemAt[i]

\* The buffers that exist are the active one and those from the first unlinked
\* one on, no thief at work has lost its own, and in the end none is left over.
BuffersKept ==
    /\ DOMAIN buffers = CASE pc = "destroyed" -> {}
                          [] pc # "destroyed" /\ unlinked = None -> {active_buffer}
                          [] OTHER -> unlinked .. active_buffer
    /\ \A s \in Thieves : tpc[s] \in {"cas", "get"} => ta[s] \in DOMAIN buffers

\* A thief that has claimed an item finds it in the buffer it has read, unless
\* a later item has been claimed before it looks: the slot may then be reused.
ItemUnlessOvertaken ==
    \A s \in Thieves :
        tpc[s] = "get" /\ get(ta[s], tt[s]) # itemAt[tt[s]] => top >= tt[s] + 2

Contents == [i \in 1 .. Cardinality(Indices) |-> itemAt[top + i - 1]]

Abstract == INSTANCE WorkDeque WITH Items <- 1 .. MaxPushes[0],
                                    contents <- Contents, taken <- taken

\* The owner takes the newest and the thieves take the oldest item of a deque,
\* and every item is taken once, by the claims of pop and pop_back.
ImplementsDeque == Abstract!Spec
=============================================================================
