----------------------------- MODULE HeapMemory -----------------------------
(***************************************************************************)
(* What the allocators of src/lab6_malloc share: the heap of memlib.c and  *)
(* the macros that read and write block headers and footers.  A heap is a  *)
(* record of its words, at addresses that are multiples of 4, and its brk; *)
(* an operation takes a heap and returns the heap it leaves.               *)
(***************************************************************************)
EXTENDS Integers

CONSTANTS
    MAX_HEAP,   \* size of the heap, 20 MB in config.h
    CHUNKSIZE,  \* what the heap grows by at least, 4096 in the code
    SIZE_T      \* sizeof(size_t): 4 in the build of the Makefile, 8 in that of CMake

ASSUME HeapAssumption ==
    /\ MAX_HEAP \in Nat /\ MAX_HEAP % 8 = 0
    /\ CHUNKSIZE \in Nat /\ CHUNKSIZE % 8 = 0 /\ CHUNKSIZE >= 16
    /\ SIZE_T \in {4, 8}

WSIZE == 4
DSIZE == 8
Words == {WSIZE * k : k \in 0 .. MAX_HEAP \div WSIZE - 1}
\* Where a block may begin, the end of the heap included.
Ptrs == {DSIZE * k : k \in 1 .. MAX_HEAP \div DSIZE}
NULL == 0

\* mem_init and mem_reset_brk: the words keep what was there before.
mem_reset_brk(h) == [h EXCEPT !.brk = 0]

\* mem_sbrk gives the heap's old end, if the heap may grow.
CanGrow(h, incr) == h.brk + incr <= MAX_HEAP
mem_sbrk(h, incr) == [h EXCEPT !.brk = @ + incr]

GET(h, p) == h.mem[p]
PUT(h, p, val) == [h EXCEPT !.mem[p] = val]
PACK(size, alloc) == size + alloc
GET_SIZE(h, p) == GET(h, p) - (GET(h, p) % 8)
GET_ALLOC(h, p) == GET(h, p) % 2

HDRP(bp) == bp - WSIZE
FTRP(h, bp) == bp + GET_SIZE(h, HDRP(bp)) - DSIZE

\* The neighbours of a block: NEXT_BLKP and PREV_BLKP, or SUCC_EXBP and PREDE_EXBP.
Succ(h, bp) == bp + GET_SIZE(h, HDRP(bp))
Pred(h, bp) == bp - GET_SIZE(h, bp - DSIZE)

\* Both header and footer of a block are written.
Mark(h, bp, size, alloc) ==
    LET g == PUT(h, HDRP(bp), PACK(size, alloc))
    IN  PUT(g, FTRP(g, bp), PACK(size, alloc))

\* The size of the block for a payload of size bytes.
asize(size) == IF size <= DSIZE THEN 2 * DSIZE
               ELSE DSIZE * ((size + DSIZE + (DSIZE - 1)) \div DSIZE)

\* What mm_realloc takes for the size of the old payload is the size_t that ends where
\* the payload begins: the footer of the block before it and, if a size_t is 8 bytes, the
\* block's own header as the upper half, which is more than any size.
copySize(h, ptr, size) ==
    LET found == GET(h, ptr - DSIZE)
    IN  IF size < found \/ (SIZE_T = 8 /\ GET(h, HDRP(ptr)) > 0) THEN size ELSE found

\* memcpy of whole words; what lies behind the heap reads as 0.
memcpy(h, dst, src, n) ==
    [h EXCEPT !.mem = [w \in Words |->
        IF w >= dst /\ w + WSIZE <= dst + n
        THEN IF src + (w - dst) \in Words THEN h.mem[src + (w - dst)] ELSE 0
        ELSE h.mem[w]]]

-----------------------------------------------------------------------------
(* mm_malloc, mm_free and mm_realloc are the same text in mm-implict.c and mm-explicit.c;
   the operators they are given are the allocator's own. *)

\* The payload is at the beginning of the free block at found.bp.
PlaceAt(found, need, place(_, _, _)) ==
    [h |-> place(found.h, found.bp, need), p |-> found.bp]

malloc(h, size, find_fit(_, _), place(_, _, _), extend_heap(_, _)) ==
    LET need == asize(size)
        bp   == find_fit(h, need)
        more == IF need > CHUNKSIZE THEN need ELSE CHUNKSIZE
    IN  IF size = 0 THEN [h |-> h, p |-> NULL]
        ELSE IF bp # NULL THEN PlaceAt([h |-> h, bp |-> bp], need, place)
        ELSE IF ~CanGrow(h, more) THEN [h |-> h, p |-> NULL]
        ELSE PlaceAt(extend_heap(h, more), need, place)

free(h, bp, coalesce(_, _)) == coalesce(Mark(h, bp, GET_SIZE(h, HDRP(bp)), 0), bp).h

\* The payload at ptr moves to new.p, if there is one.
Move(new, ptr, size, mm_free(_, _)) ==
    IF new.p = NULL THEN new
    ELSE [h |-> mm_free(memcpy(new.h, new.p, ptr, copySize(new.h, ptr, size)), ptr),
          p |-> new.p]

realloc(h, ptr, size, mm_malloc(_, _), mm_free(_, _)) ==
    Move(mm_malloc(h, size), ptr, size, mm_free)
=============================================================================
