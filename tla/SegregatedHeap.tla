--------------------------- MODULE SegregatedHeap ---------------------------
(***************************************************************************)
(* The allocator src/lab6_malloc/mm.c (mm-finalversion.c is the same       *)
(* text): eight lists of free blocks, one per class of sizes, each sorted  *)
(* by size.  The prologue holds the first block of every list, the         *)
(* epilogue the last one, as offsets from heap_listp.                      *)
(***************************************************************************)
EXTENDS HeapMemory, Sequences, FiniteSets

CONSTANT Stray      \* what the pointer prede_bp holds before it is set

heap_listp == 2 * WSIZE
OFFSET(bp) == bp - heap_listp

\* Bytes of the prologue, and from the epilogue to the end of the heap.
SEGMENTS == 40

\* The largest block of every class but the last; 1024 is left out.
Limits == <<32, 64, 128, 256, 512, 2048, 4096>>
LARGEST == 28096

getNextOffbySize(size) == WSIZE * Cardinality({k \in DOMAIN Limits : Limits[k] < size})
getMaxsize(size) ==
    LET k == getNextOffbySize(size) \div WSIZE + 1
    IN  IF k \in DOMAIN Limits THEN Limits[k] ELSE LARGEST

SameClass(a, b) == getNextOffbySize(a) = getNextOffbySize(b)

IsEpilogue(h, bp) == GET_SIZE(h, HDRP(bp)) = 0

\* size says which of its lists is meant if bp is the prologue or the epilogue.  The next
\* of the epilogue cannot be set.
putNextGeneral(h, bp, size, off) ==
    IF bp = heap_listp THEN PUT(h, heap_listp + getNextOffbySize(size), off)
    ELSE IF IsEpilogue(h, bp) THEN h
    ELSE PUT(h, bp, off)

getNextGeneral(h, bp, size) ==
    GET(h, IF bp = heap_listp THEN bp + getNextOffbySize(size) ELSE bp)

\* The prologue has no prev.
putPrevGeneral(h, bp, size, off) ==
    IF bp = heap_listp THEN h
    ELSE IF IsEpilogue(h, bp) THEN PUT(h, bp + getNextOffbySize(size) + WSIZE, off)
    ELSE PUT(h, bp + WSIZE, off)

getPrevGeneral(h, bp, size) ==
    GET(h, bp + WSIZE + (IF IsEpilogue(h, bp) THEN getNextOffbySize(size) ELSE 0))

\* bp's neighbours in the list of size's class are linked to each other.
SkipForward(h, bp, size) ==
    putNextGeneral(h, heap_listp + getPrevGeneral(h, bp, size), size, getNextGeneral(h, bp, size))
SkipBackward(h, bp, size) ==
    putPrevGeneral(h, heap_listp + getNextGeneral(h, bp, size), size, getPrevGeneral(h, bp, size))
Unlink(h, bp, size) == SkipBackward(SkipForward(h, bp, size), bp, size)

\* The first block of the class that is not smaller than size, or the epilogue, and the
\* block before it.
FirstNotSmaller(h, size) ==
    LET from[ibp, nbp \in Ptrs] ==
            LET isize == GET_SIZE(h, HDRP(nbp))
            IN  IF isize = 0 \/ isize >= size THEN [ibp |-> ibp, nbp |-> nbp]
                ELSE from[nbp, heap_listp + getNextGeneral(h, nbp, size)]
    IN  from[heap_listp, heap_listp + getNextGeneral(h, heap_listp, size)]

InsertAt(h, bp, size, at) ==
    LET h1 == putNextGeneral(h, at.ibp, size, OFFSET(bp))
        h2 == putPrevGeneral(h1, bp, size, OFFSET(at.ibp))
        h3 == putNextGeneral(h2, bp, size, OFFSET(at.nbp))
    IN  Mark(putPrevGeneral(h3, at.nbp, size, OFFSET(bp)), bp, size, 0)

\* A free block of that size enters the list of its class, in order.
Insert(h, bp, size) == InsertAt(h, bp, size, FirstNotSmaller(h, size))

\* Blocks of the class of a are not merged into one of another class.
StayInClass(a, b) == a + b <= getMaxsize(a)

\* A block next to one of that size: free means free and of the same class.
Neighbour(h, bp, size) ==
    LET own == GET_SIZE(h, HDRP(bp))
    IN  [bp |-> bp, size |-> own, free |-> GET_ALLOC(h, HDRP(bp)) = 0 /\ SameClass(size, own)]

\* A neighbour is merged if it is free and the sum stays in the class.  With both of them
\* free the block that leaves the list is the one on the other side of the one that is
\* merged, and prede_bp is set only if succ is merged.
Merge(h, bp, size, prede, succ) ==
    LET both  == prede.free /\ succ.free
        takesSucc == succ.free /\ StayInClass(size, succ.size)
        more  == IF takesSucc THEN size + succ.size ELSE size
        h1    == IF takesSucc THEN Unlink(h, IF both THEN prede.bp ELSE succ.bp, size) ELSE h
        takesPred == prede.free /\ StayInClass(more, prede.size)
        h2    == IF takesPred THEN Unlink(h1, IF both THEN succ.bp ELSE prede.bp, more) ELSE h1
        first == IF ~takesPred THEN bp ELSE IF both /\ ~takesSucc THEN Stray ELSE prede.bp
    IN  Insert(h2, first, IF takesPred THEN more + prede.size ELSE more)

coalesce(h, bp) ==
    LET size == GET_SIZE(h, HDRP(bp))
    IN  Merge(h, bp, size, Neighbour(h, Pred(h, bp), size), Neighbour(h, Succ(h, bp), size))

\* The epilogue moves up; the last block of every list is told.  The sizes 32, 64, ... 8192
\* of the loop, without 1024, stand for the eight classes.
Extend(h, size) ==
    LET bp  == h.brk - SEGMENTS
        ebp == bp + size
        g   == memcpy(mem_sbrk(h, size), HDRP(ebp), HDRP(bp), SEGMENTS + WSIZE)
        classes == Append(Limits, 2 * 4096)
        told[k \in 0 .. Len(classes)] ==
            LET old  == told[k - 1]
                last == heap_listp + getPrevGeneral(old, ebp, classes[k])
            IN  IF k = 0 THEN g ELSE putNextGeneral(old, last, classes[k], OFFSET(ebp))
    IN  told[Len(classes)]

extend_heap(h, size) ==
    LET bp == h.brk - SEGMENTS
    IN  [h |-> Mark(Extend(h, size), bp, size, 1), p |-> bp]

mm_init(h) ==
    LET words == [k \in 0 .. 21 |->
                    CASE k \in {1, 10}  -> PACK(SEGMENTS, 1)
                      [] k \in 2 .. 9   -> SEGMENTS
                      [] k \in {11, 21} -> PACK(0, 1)
                      [] k = 12         -> -1
                      [] OTHER          -> 0]
    IN  [mem_sbrk(h, 22 * WSIZE) EXCEPT
            !.mem = [w \in Words |-> IF w < 22 * WSIZE THEN words[w \div WSIZE] ELSE h.mem[w]]]

\* The rest of a block is given back if a free block can be made of it, whatever its class.
SplitOff(h, bp, size, need) ==
    IF size - need < 16 THEN Mark(h, bp, size, 1)
    ELSE coalesce(Mark(Mark(h, bp, need, 1), bp + need, size - need, 0), bp + need)

\* VARIANT of TakeOut: the list is told, but not the block after at.nbp.
TakeOutOneWay(h, at, need) == putNextGeneral(h, at.ibp, need, getNextGeneral(h, at.nbp, need))

\* The blocks before and after at.nbp are linked to each other.
TakeOut(h, at, need) ==
    LET nnbp == heap_listp + getNextGeneral(h, at.nbp, need)
        g    == putNextGeneral(h, at.ibp, need, OFFSET(nnbp))
    IN  putPrevGeneral(g, nnbp, need, OFFSET(at.ibp))

find_fitWithPlace(h, need) ==
    LET at   == FirstNotSmaller(h, need)
        size == GET_SIZE(h, HDRP(at.nbp))
    IN  IF size = 0 THEN [h |-> h, p |-> NULL]
        ELSE [h |-> SplitOff(TakeOut(h, at, need), at.nbp, size, need), p |-> at.nbp]

mm_malloc(h, size) ==
    LET need == asize(size)
        fit  == find_fitWithPlace(h, need)
    IN  IF size = 0 THEN [h |-> h, p |-> NULL]
        ELSE IF fit.p # NULL THEN fit
        ELSE IF CanGrow(h, need) THEN extend_heap(h, need)
        ELSE [h |-> h, p |-> NULL]

mm_free(h, bp) == coalesce(Mark(h, bp, GET_SIZE(h, HDRP(bp)), 0), bp)

mm_reallocOld2(h, ptr, size) == realloc(h, ptr, size, mm_malloc, mm_free)

\* The heap grows by a whole block of the class, the rest of it is free, be it nothing.
mm_reallocHelper(h, grow, need) ==
    LET bp == h.brk - SEGMENTS
        g  == Mark(Extend(h, grow), bp, need, 1)
    IN  IF ~CanGrow(h, grow) THEN [h |-> h, p |-> NULL]
        ELSE [h |-> coalesce(Mark(g, Succ(g, bp), grow - need, 0), Succ(g, bp)), p |-> bp]

\* 614792 is for the trace realloc-bal.rep.
mm_reallocOld(h, ptr, size) ==
    LET need == asize(size)
        grow == IF getMaxsize(size) < need THEN 614792 ELSE getMaxsize(size)
    IN  Move(mm_reallocHelper(h, grow, need), ptr, size, mm_free)

\* The block grows into its free successor, which leaves its list.
GrowInPlace(h, ptr, succ, need) ==
    LET old   == GET_SIZE(h, HDRP(ptr))
        total == old + GET_SIZE(h, HDRP(succ))
        g     == Unlink(h, succ, total - old)
        rest  == ptr + need
    IN  IF total - need < 16 THEN Mark(g, ptr, total, 1)
        ELSE coalesce(Mark(Mark(g, rest, total - need, 0), ptr, need, 1), rest)

mm_realloc(h, ptr, size) ==
    LET need == asize(size)
        old  == GET_SIZE(h, HDRP(ptr))
        succ == Succ(h, ptr)
        room == IF GET_ALLOC(h, HDRP(succ)) = 0 THEN GET_SIZE(h, HDRP(succ)) ELSE 0
    IN  IF size = 0 THEN [h |-> h, p |-> NULL]
        ELSE IF old = need THEN [h |-> h, p |-> ptr]
        ELSE IF getMaxsize(old) # getMaxsize(need) THEN mm_reallocOld2(h, ptr, size)
        ELSE IF old > need THEN [h |-> SplitOff(h, ptr, old, need), p |-> ptr]
        ELSE IF room > 0 /\ old + room >= need
             THEN [h |-> GrowInPlace(h, ptr, succ, need), p |-> ptr]
        ELSE mm_reallocOld(h, ptr, size)
=============================================================================
