---------------------------- MODULE BoundedQueue ----------------------------
(***************************************************************************)
(* What lfqueue (include/pot/algorithms/lfqueue.h) promises its users: a   *)
(* first-in first-out queue of at most Capacity messages, from which every *)
(* message is handed to exactly one consumer.                              *)
(***************************************************************************)
EXTENDS Naturals, Sequences

CONSTANTS Messages, NoMessage, Consumers, Capacity

VARIABLES contents,  \* the messages in the queue, oldest first
          given      \* what the last successful pop of each consumer returned

vars == <<contents, given>>

Init == /\ contents = <<>>
        /\ given = [c \in Consumers |-> NoMessage]

Enqueue(m) == /\ Len(contents) < Capacity
              /\ contents' = Append(contents, m)
              /\ UNCHANGED given

Dequeue(c) == /\ contents # <<>>
              /\ contents' = Tail(contents)
              /\ given' = [given EXCEPT ![c] = Head(contents)]

Next == \/ \E m \in Messages : Enqueue(m)
        \/ \E c \in Consumers : Dequeue(c)

Spec == Init /\ [][Next]_vars
=============================================================================
