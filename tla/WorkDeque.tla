------------------------------- MODULE WorkDeque -------------------------------
(***************************************************************************)
(* What a work-stealing deque (include/pot/algorithms/lfdequeue.h)         *)
(* promises: its owner pushes and takes items at one end, thieves take     *)
(* them at the other, and each item is taken once.                         *)
(***************************************************************************)
EXTENDS Sequences, SequencesExt

CONSTANT Items

VARIABLES contents,  \* the items in the deque, oldest first
          taken      \* the items that have been taken out

Init == contents = <<>> /\ taken = {}

Push(x) == /\ x \notin taken /\ \A i \in DOMAIN contents : contents[i] # x
           /\ contents' = Append(contents, x)
           /\ UNCHANGED taken

Pop == /\ contents # <<>>
       /\ contents' = Front(contents)
       /\ taken' = taken \union {Last(contents)}

Steal == /\ contents # <<>>
         /\ contents' = Tail(contents)
         /\ taken' = taken \union {Head(contents)}

Next == Pop \/ Steal \/ \E x \in Items : Push(x)

Spec == Init /\ [][Next]_<<contents, taken>>
=============================================================================
