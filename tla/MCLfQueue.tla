----------------------------- MODULE MCLfQueue ------------------------------
(***************************************************************************)
(* Two producers and two consumers on a ring of two cells, which three     *)
(* messages go round: the third meets the cell of the first one lap later. *)
(***************************************************************************)
EXTENDS LfQueue

CONSTANTS m1, m2, m3, p1, p2

MCMessages == {m1, m2, m3}
MCScript   == [p \in Producers |-> IF p = p1 THEN <<m1, m2>> ELSE <<m3>>]
=============================================================================
