---------------------------- MODULE ImplicitHeap ----------------------------
(* The allocator src/lab6_malloc/mm-implict.c: first fit over all blocks.   *)
EXTENDS HeapMemory

heap_listp == 2 * WSIZE

\* VARIANT of coalesce: only the next block is looked at.
coalesceForward(h, bp) ==
    LET size == GET_SIZE(h, HDRP(bp))
        next == Succ(h, bp)
    IN  [h  |-> IF GET_ALLOC(h, HDRP(next)) = 1 THEN h
                ELSE Mark(h, bp, size + GET_SIZE(h, HDRP(next)), 0),
         bp |-> bp]

\* Blocks that are free on either side are merged with bp; the address returned when both
\* are is bp's own, not that of the merged block.
coalesce(h, bp) ==
    LET prev       == Pred(h, bp)
        next       == Succ(h, bp)
        prev_alloc == GET_ALLOC(h, FTRP(h, prev)) = 1
        next_alloc == GET_ALLOC(h, HDRP(next)) = 1
        first      == IF prev_alloc THEN bp ELSE prev
        size       == GET_SIZE(h, HDRP(bp))
                        + (IF next_alloc THEN 0 ELSE GET_SIZE(h, FTRP(h, next)))
                        + (IF prev_alloc THEN 0 ELSE GET_SIZE(h, HDRP(prev)))
    IN  [h  |-> IF prev_alloc /\ next_alloc THEN h ELSE Mark(h, first, size, 0),
         bp |-> IF next_alloc THEN first ELSE bp]

\* The new block begins where the heap ended: its header replaces the old epilogue.
extend_heap(h, size) ==
    LET bp == h.brk
        h1 == Mark(mem_sbrk(h, size), bp, size, 0)
    IN  coalesce(PUT(h1, HDRP(Succ(h1, bp)), PACK(0, 1)), bp)

mm_init(h) ==
    LET h0 == mem_sbrk(h, 4 * WSIZE)
        h1 == PUT(h0, 0, 0)
        h2 == Mark(h1, heap_listp, DSIZE, 1)
        h3 == PUT(h2, 3 * WSIZE, PACK(0, 1))
    IN  extend_heap(h3, CHUNKSIZE).h

\* VARIANT of find_fit: blocks in use are not passed over.
find_fitInUse(h, need) ==
    LET from[bp \in Ptrs] ==
            LET size == GET_SIZE(h, HDRP(bp))
            IN  IF size >= need THEN bp
                ELSE IF size = 0 \/ Succ(h, bp) \notin Ptrs THEN NULL
                ELSE from[Succ(h, bp)]
    IN  from[Succ(h, heap_listp)]

\* The first free block that is large enough; the epilogue, of size 0, ends the walk.  (In
\* a heap that is tiled with blocks no step of it leaves the heap.)
find_fit(h, need) ==
    LET from[bp \in Ptrs] ==
            LET size == GET_SIZE(h, HDRP(bp))
            IN  IF GET_ALLOC(h, HDRP(bp)) = 0 /\ size >= need THEN bp
                ELSE IF size = 0 \/ Succ(h, bp) \notin Ptrs THEN NULL
                ELSE from[Succ(h, bp)]
    IN  from[Succ(h, heap_listp)]

\* VARIANT of place: the rest of the block keeps its old footer.
placeHeaderOnly(h, bp, need) ==
    LET rest == GET_SIZE(h, HDRP(bp)) - need
        g    == Mark(h, bp, need, 1)
    IN  IF rest > 0 THEN PUT(g, HDRP(Succ(g, bp)), PACK(rest, 0)) ELSE g

\* Whatever is left over becomes a free block, be it 8 bytes.
place(h, bp, need) ==
    LET rest == GET_SIZE(h, HDRP(bp)) - need
        g    == Mark(h, bp, need, 1)
    IN  IF rest > 0 THEN Mark(g, Succ(g, bp), rest, 0) ELSE g

mm_malloc(h, size) == malloc(h, size, find_fit, place, extend_heap)
mm_free(h, bp) == free(h, bp, coalesce)
mm_realloc(h, ptr, size) == realloc(h, ptr, size, mm_malloc, mm_free)
=============================================================================
