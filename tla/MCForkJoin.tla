------------------------------ MODULE MCForkJoin ------------------------------
EXTENDS ForkJoin

A(kind, from, to, static, threads, top, n, lanes) ==
    [kind |-> kind, from |-> from, to |-> to, static |-> static,
     threads |-> threads, top |-> top, n |-> n, lanes |-> lanes]

\* Shares per thread and a fixed size, two ends that do not fit an index type of
\* two bits, two sections, and reductions with a short and an empty last block.
MCLoops == {A("parfor", 1, 5, -1, 2, 16, 0, 1),
            A("parfor", 0, 3,  2, 2, 16, 0, 1),
            A("parfor", 0, 3,  2, 2,  4, 0, 1),
            A("parfor", 0, 3,  5, 2,  4, 0, 1),
            A("sections", 0, 2, 1, 2, 16, 0, 1),
            A("reduce", 0, 3, -1, 3, 16, 4, 1),
            A("simd", 0, 2, -1, 3, 16, 5, 2)}
==============================================================================
