----------------------------- MODULE NaiveHeap ------------------------------
(* The allocator src/lab6_malloc/mm-naive.c: nothing is ever reused.  The    *)
(* eight bytes before a payload hold its size.                               *)
EXTENDS HeapMemory

mm_init(h) == h

\* Bytes a payload takes, its size_t included: rounded up to a multiple of 8.
ALIGN(size) == DSIZE * ((size + DSIZE - 1) \div DSIZE)
newsize(size) == ALIGN(size + DSIZE)

\* The upper half of a size_t of 8 bytes is 0.
mm_malloc(h, size) ==
    LET p == h.brk
        g == PUT(mem_sbrk(h, newsize(size)), p, size)
    IN  IF CanGrow(h, newsize(size))
        THEN [h |-> IF SIZE_T = 8 THEN PUT(g, p + WSIZE, 0) ELSE g, p |-> p + DSIZE]
        ELSE [h |-> h, p |-> NULL]

mm_free(h, bp) == h
mm_realloc(h, ptr, size) == realloc(h, ptr, size, mm_malloc, mm_free)
=============================================================================
