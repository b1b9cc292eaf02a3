------------------------------- MODULE MCLfDeque -------------------------------
EXTENDS LfDeque, TLC

\* Two thieves race for three items; with more items there is one thief, and the
\* buffer grows to eight slots and shrinks again.
MCMaxPushes == [n \in 0 .. 2 |-> IF n = 2 THEN 3 ELSE 5]

MCSymmetry == Permutations(Thieves)
===============================================================================
