---------------------------- MODULE ExplicitHeap ----------------------------
(***************************************************************************)
(* The allocator src/lab6_malloc/mm-explicit.c: free blocks hold the       *)
(* offsets of the next and the previous free block in their first two      *)
(* words; the list begins at the prologue and ends at the epilogue.        *)
(***************************************************************************)
EXTENDS HeapMemory

heap_listp == 2 * WSIZE
OFFSET(bp) == bp - heap_listp

PUT_NEXT(h, bp, off) == PUT(h, bp, off)
PUT_PREV(h, bp, off) == PUT(h, bp + WSIZE, off)
NEXT_EXBP(h, bp) == heap_listp + GET(h, bp)
PREV_EXBP(h, bp) == heap_listp + GET(h, bp + WSIZE)

\* bp's list neighbours are linked to each other.
Unlink(h, bp) ==
    LET g == PUT_NEXT(h, PREV_EXBP(h, bp), OFFSET(NEXT_EXBP(h, bp)))
    IN  PUT_PREV(g, NEXT_EXBP(g, bp), OFFSET(PREV_EXBP(g, bp)))

\* VARIANT of PushFront: the block that was first is not told of its new neighbour.
PushFrontOneWay(h, bp) ==
    LET h1 == PUT_NEXT(h, bp, GET(h, heap_listp))
    IN  PUT_NEXT(PUT_PREV(h1, bp, 0), heap_listp, OFFSET(bp))

\* bp becomes the first block of the list.
PushFront(h, bp) ==
    LET h1 == PUT_NEXT(h, bp, GET(h, heap_listp))
        h2 == PUT_PREV(h1, bp, 0)
        h3 == PUT_PREV(h2, NEXT_EXBP(h2, heap_listp), OFFSET(bp))
    IN  PUT_NEXT(h3, heap_listp, OFFSET(bp))

\* bp is merged with its free neighbours, which leave the list, and put in front.
coalesce(h, bp) ==
    LET prede == Pred(h, bp)
        succ  == Succ(h, bp)
        prev_alloc == GET_ALLOC(h, HDRP(prede)) = 1
        next_alloc == GET_ALLOC(h, HDRP(succ)) = 1
        h1    == IF prev_alloc THEN h ELSE Unlink(h, prede)
        h2    == IF next_alloc THEN h1 ELSE Unlink(h1, succ)
        first == IF prev_alloc THEN bp ELSE prede
        size  == GET_SIZE(h, HDRP(bp))
                   + (IF next_alloc THEN 0 ELSE GET_SIZE(h, HDRP(succ)))
                   + (IF prev_alloc THEN 0 ELSE GET_SIZE(h, HDRP(prede)))
    IN  [h |-> Mark(PushFront(h2, first), first, size, 0), bp |-> first]

\* The epilogue moves from bp to end: the block before it in the list, which bp still
\* knows, is told.
MoveEpilogue(h, bp, end) ==
    LET h1 == PUT_NEXT(h, PREV_EXBP(h, bp), OFFSET(end))
        h2 == PUT_PREV(h1, end, OFFSET(PREV_EXBP(h1, bp)))
    IN  PUT_NEXT(PUT(h2, HDRP(end), PACK(0, 1)), end, -1)

\* The new block takes the place of the epilogue.
extend_heap(h, size) ==
    LET bp == h.brk - 8
    IN  coalesce(MoveEpilogue(Mark(mem_sbrk(h, size), bp, size, 0), bp, bp + size), bp)

mm_init(h) ==
    LET epilogue == 2 * DSIZE
        h0 == PUT(mem_sbrk(h, 8 * WSIZE), 0, 0)
        h1 == Mark(h0, heap_listp, 16, 1)
        h2 == PUT_PREV(PUT_NEXT(h1, heap_listp, epilogue), heap_listp, -1)
        h3 == PUT(h2, HDRP(heap_listp + epilogue), PACK(0, 1))
        h4 == PUT_PREV(PUT_NEXT(h3, heap_listp + epilogue, -1), heap_listp + epilogue, 0)
    IN  extend_heap(h4, CHUNKSIZE).h

\* A free block fits if nothing is left over, or enough for a free block.
Fits(size, need) == size >= need + 16 \/ size = need

\* VARIANT of find_fit: only the first free block is tried.
find_fitFirst(h, need) ==
    LET bp == NEXT_EXBP(h, heap_listp)
    IN  IF Fits(GET_SIZE(h, HDRP(bp)), need) THEN bp ELSE NULL

\* First fit along the list; the epilogue, of size 0, ends it.  (In a heap whose free blocks
\* are linked no step of it leaves the heap.)
find_fit(h, need) ==
    LET from[bp \in Ptrs] ==
            LET size == GET_SIZE(h, HDRP(bp))
            IN  IF Fits(size, need) THEN bp
                ELSE IF size = 0 \/ NEXT_EXBP(h, bp) \notin Ptrs THEN NULL
                ELSE from[NEXT_EXBP(h, bp)]
    IN  from[NEXT_EXBP(h, heap_listp)]

\* succ takes bp's place in the list.
Replace(h, bp, succ) ==
    LET h1 == PUT_NEXT(h, PREV_EXBP(h, bp), OFFSET(succ))
        h2 == PUT_PREV(h1, succ, OFFSET(PREV_EXBP(h1, bp)))
        h3 == PUT_NEXT(h2, succ, OFFSET(NEXT_EXBP(h2, bp)))
    IN  PUT_PREV(h3, NEXT_EXBP(h3, bp), OFFSET(succ))

\* The rest of bp takes its place, if anything is left.
place(h, bp, need) ==
    LET rest == GET_SIZE(h, HDRP(bp)) - need
        g    == Mark(h, bp, need, 1)
    IN  IF rest > 0 THEN Replace(Mark(g, bp + need, rest, 0), bp, bp + need)
        ELSE Unlink(g, bp)

mm_malloc(h, size) == malloc(h, size, find_fit, place, extend_heap)
mm_free(h, bp) == free(h, bp, coalesce)
mm_realloc(h, ptr, size) == realloc(h, ptr, size, mm_malloc, mm_free)
=============================================================================
