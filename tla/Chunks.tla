-------------------------------- MODULE Chunks --------------------------------
(***************************************************************************)
(* How the parallel algorithms split their work: parfor                    *)
(* (include/pot/algorithms/parfor.h) splits a range of indices into chunks *)
(* and the two reductions (include/pot/algorithms/reduce.h) split an array *)
(* into blocks, which they give to parfor as its indices.                  *)
(*                                                                         *)
(* IndexType of parfor is an unsigned type with the values 0 .. top - 1;   *)
(* the other quantities are 64 bits wide and do not overflow.              *)
(***************************************************************************)
EXTENDS Integers

Least(a, b)    == IF a <= b THEN a ELSE b
Greatest(a, b) == IF a >= b THEN a ELSE b

\* The quotient rounded up, as the sources write it.
CeilDiv(a, b) == (a + b - 1) \div b

-----------------------------------------------------------------------------
\* chunk_size; a negative static_chunk_size asks for a share per thread.
ChunkSize(n, static, threads) ==
    IF static < 0 THEN Greatest(1, n \div threads) ELSE static

NumChunks(n, size) == CeilDiv(n, size)

ChunkStart(from, size, k, top) == (from + ((k * size) % top)) % top

MutChunkEndWide(from, to, size, k, top) ==
    ChunkStart(from, size, k, top) + size

\* std::min<IndexType> converts the sum back to IndexType before it compares.
ChunkEnd(from, to, size, k, top) ==
    Least((ChunkStart(from, size, k, top) + (size % top)) % top, to)

\* The iterations of one chunk.
Chunk(from, to, size, k, top) ==
    ChunkStart(from, size, k, top) .. ChunkEnd(from, to, size, k, top) - 1

\* The end of the last chunk is an IndexType: no chunk ends at a wrapped index.
Fits(from, to, size, top) ==
    from + NumChunks(to - from, size) * size < top

-----------------------------------------------------------------------------
\* elementwise_reduce: one block per thread.
BlockCount(threads) == Greatest(1, threads)

BlockSize(n, blocks) == CeilDiv(n, blocks)

\* elementwise_reduce_simd: at least one vector of elements in a block, if
\* there are that many.
SimdBlockCount(n, threads, lanes) ==
    Least(Greatest(1, threads), Greatest(1, n \div lanes))

SimdBlockSize(n, blocks, lanes) == Greatest(lanes, CeilDiv(n, blocks))

\* The elements of block b; the last blocks may be empty.
Block(n, size, b) == b * size .. Least(n, b * size + size) - 1

\* Where the loop over vectors leaves off and the scalar loop goes on.
VectorEnd(begin, end, lanes) ==
    begin + (Greatest(0, end - begin) \div lanes) * lanes
=============================================================================
