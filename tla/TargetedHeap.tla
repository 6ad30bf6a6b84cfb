---------------------------- MODULE TargetedHeap ----------------------------
(***************************************************************************)
(* The allocator src/lab6_malloc/mm-segrete_v1.c: a general list, kept as  *)
(* in mm-explicit.c, and one list for every target size, whose blocks are  *)
(* never split and never merged.                                           *)
(***************************************************************************)
EXTENDS HeapMemory, Sequences

CONSTANTS
    TargetSizes,    \* 24, 72, 80, 120, ... 8200 in the code, eleven of them
    BATCH           \* 512: smaller target blocks are made many at a time

General == INSTANCE ExplicitHeap

heap_listp == 2 * WSIZE
OFFSET(bp) == bp - heap_listp

\* Bytes of the prologue, and from the epilogue to the end of the heap.
SEGMENTS == WSIZE * (Len(TargetSizes) + 3)

inTargetSize(size) == \E k \in DOMAIN TargetSizes : TargetSizes[k] = size
\* getInfoBySize(size)->nextOff, of a target size.
nextOff(size) == WSIZE * (CHOOSE k \in DOMAIN TargetSizes : TargetSizes[k] = size)

IsEpilogue(h, bp) == GET_SIZE(h, HDRP(bp)) = 0
PUT_NEXTSEG(h, off, next) == PUT(h, heap_listp + off, next)
GET_NEXTSEG(h, off) == GET(h, heap_listp + off)

\* A block of the list at off, or the epilogue, is told what is before it.
TellPrev(h, bp, off, prev) ==
    PUT(h, bp + WSIZE + (IF IsEpilogue(h, bp) THEN off ELSE 0), prev)

\* As in mm-explicit.c, but blocks of a target size count as allocated.
coalGeneral(h, bp) ==
    LET prede == Pred(h, bp)
        succ  == Succ(h, bp)
        predsize == GET_SIZE(h, HDRP(prede))
        succsize == GET_SIZE(h, HDRP(succ))
        prev_alloc == GET_ALLOC(h, HDRP(prede)) = 1 \/ inTargetSize(predsize)
        next_alloc == GET_ALLOC(h, HDRP(succ)) = 1 \/ inTargetSize(succsize)
        h1    == IF prev_alloc THEN h ELSE General!Unlink(h, prede)
        h2    == IF next_alloc THEN h1 ELSE General!Unlink(h1, succ)
        first == IF prev_alloc THEN bp ELSE prede
        size  == GET_SIZE(h, HDRP(bp)) + (IF next_alloc THEN 0 ELSE succsize)
                   + (IF prev_alloc THEN 0 ELSE predsize)
    IN  [h |-> Mark(General!PushFront(h2, first), first, size, 0), bp |-> first]

\* A block of a target size becomes the first one of its list.
coalesce(h, bp) ==
    LET size == GET_SIZE(h, HDRP(bp))
        off  == nextOff(size)
        next == GET_NEXTSEG(h, off)
        h1   == TellPrev(PUT(h, bp, next), heap_listp + next, off, OFFSET(bp))
    IN  IF inTargetSize(size)
        THEN [h |-> PUT(PUT_NEXTSEG(h1, off, OFFSET(bp)), bp + WSIZE, 0), bp |-> bp]
        ELSE coalGeneral(h, bp)

\* num blocks of a target size, one after the other, become its list.
divideNLink(h, bp, size, num, endoff) ==
    LET off == nextOff(size)
        block(k) == bp + size * k
        made[k \in 0 .. num] ==
            IF k = 0 THEN PUT_NEXTSEG(h, off, OFFSET(bp))
            ELSE LET g == PUT(made[k - 1], block(k - 1),
                              IF k = num THEN endoff ELSE OFFSET(block(k)))
                 IN  Mark(PUT(g, block(k - 1) + WSIZE, IF k = 1 THEN 0 ELSE OFFSET(block(k - 2))),
                          block(k - 1), size, 0)
    IN  PUT(made[num], heap_listp + endoff + off + WSIZE, OFFSET(block(num - 1)))

\* How many blocks of a target size are made at once: as many bytes as would fit in BATCH.
Number(size) == IF size > BATCH THEN 1 ELSE (BATCH \div size) * size

\* What the heap grows by for a block of that size.
Growth(size) == IF inTargetSize(size) THEN Number(size) * size ELSE size

\* The epilogue moves up; the last block of every list, or the prologue, is told.
extend_heap(h, size) ==
    LET bp   == h.brk - SEGMENTS
        grow == Growth(size)
        ebp  == bp + grow
        g    == memcpy(mem_sbrk(h, grow), HDRP(ebp), HDRP(bp), SEGMENTS + WSIZE)
        told[k \in 0 .. Len(TargetSizes)] ==
            LET old  == IF k = 0 THEN g ELSE told[k - 1]
                prev == GET(old, ebp + WSIZE + WSIZE * k)
            IN  PUT(old, heap_listp + prev + (IF prev = 0 THEN WSIZE * k ELSE 0), OFFSET(ebp))
        new  == Mark(told[Len(TargetSizes)], bp, grow, 0)
    IN  IF inTargetSize(size)
        THEN [h |-> divideNLink(new, bp, size, Number(size), OFFSET(ebp)), bp |-> bp]
        ELSE coalesce(new, bp)

mm_init(h) ==
    LET lists == Len(TargetSizes) + 1
        end   == 2 * lists + 5
        words == [k \in 0 .. end |->
                    CASE k \in {1, lists + 2}       -> PACK(SEGMENTS, 3)
                      [] k \in 2 .. lists + 1       -> SEGMENTS
                      [] k \in {lists + 3, end}     -> PACK(0, 1)
                      [] k = lists + 4              -> -1
                      [] OTHER                      -> 0]
    IN  [mem_sbrk(h, WSIZE * (end + 1)) EXCEPT
            !.mem = [w \in Words |-> IF w \div WSIZE <= end THEN words[w \div WSIZE] ELSE h.mem[w]]]

\* The first block of a target size's list; the general list as in mm-explicit.c.
find_fit(h, need) ==
    LET bp == heap_listp + GET_NEXTSEG(h, nextOff(need))
    IN  IF ~inTargetSize(need) THEN General!find_fit(h, need)
        ELSE IF IsEpilogue(h, bp) THEN NULL
        ELSE bp

\* VARIANT of place: the block after bp still has bp for its prev.
placeOneWay(h, bp, need) ==
    IF inTargetSize(need) THEN PUT_NEXTSEG(Mark(h, bp, need, 1), nextOff(need), GET(h, bp))
    ELSE General!place(h, bp, need)

place(h, bp, need) ==
    LET g == PUT_NEXTSEG(Mark(h, bp, need, 1), nextOff(need), GET(h, bp))
    IN  IF inTargetSize(need) THEN TellPrev(g, heap_listp + GET(g, bp), nextOff(need), 0)
        ELSE General!place(h, bp, need)

mm_malloc(h, size) ==
    LET need == asize(size)
        bp   == find_fit(h, need)
    IN  IF size = 0 THEN [h |-> h, p |-> NULL]
        ELSE IF bp # NULL THEN PlaceAt([h |-> h, bp |-> bp], need, place)
        ELSE IF ~CanGrow(h, Growth(need)) THEN [h |-> h, p |-> NULL]
        ELSE PlaceAt(extend_heap(h, need), need, place)

mm_free(h, bp) == free(h, bp, coalesce)
mm_realloc(h, ptr, size) == realloc(h, ptr, size, mm_malloc, mm_free)
=============================================================================
