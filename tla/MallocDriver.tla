---------------------------- MODULE MallocDriver ----------------------------
(***************************************************************************)
(* The driver src/lab6_malloc/mdriver.c running traces on an allocator     *)
(* (eval_mm_valid): it fills every payload with the low byte of its index, *)
(* checks where payloads lie and that mm_realloc keeps what was in them.   *)
(***************************************************************************)
EXTENDS HeapMemory, FiniteSets, Sequences

CONSTANTS
    Allocators,     \* the allocators that are driven
    TargetSizes,    \* parameters of mm-segrete_v1.c
    BATCH,
    Stray,          \* what an uninitialised pointer of mm.c holds
    Index,          \* the ids of a trace
    Sizes,          \* the sizes of its requests: multiples of WSIZE
    MaxOps          \* bound: requests, over all traces

ASSUME DriverAssumption ==
    /\ Allocators \subseteq {"naive", "implicit", "explicit", "targeted", "segregated"}
    /\ Index \subseteq 1 .. 127
    /\ \A n \in Sizes : n \in Nat \ {0} /\ n % WSIZE = 0
    /\ MaxOps \in Nat
    /\ Stray \in Ptrs /\ BATCH \in Nat
    /\ TargetSizes \in Seq(Nat) /\ Len(TargetSizes) % 2 = 1
    /\ \A n \in DOMAIN TargetSizes : TargetSizes[n] % 8 = 0 /\ TargetSizes[n] >= 16

VARIABLES
    mm,             \* the allocator that is linked in
    h,              \* the heap
    blocks,         \* trace->blocks: payload of every id, NULL if it has none
    block_sizes,    \* trace->block_sizes
    verdict,        \* "valid" so far, or what malloc_error said
    ops             \* number of requests made

vars == <<mm, h, blocks, block_sizes, verdict, ops>>

Naive == INSTANCE NaiveHeap
Implicit == INSTANCE ImplicitHeap
Explicit == INSTANCE ExplicitHeap
Targeted == INSTANCE TargetedHeap
Segregated == INSTANCE SegregatedHeap

mm_init(g) ==
    CASE mm = "naive"      -> Naive!mm_init(g)
      [] mm = "implicit"   -> Implicit!mm_init(g)
      [] mm = "explicit"   -> Explicit!mm_init(g)
      [] mm = "targeted"   -> Targeted!mm_init(g)
      [] mm = "segregated" -> Segregated!mm_init(g)
mm_malloc(g, size) ==
    CASE mm = "naive"      -> Naive!mm_malloc(g, size)
      [] mm = "implicit"   -> Implicit!mm_malloc(g, size)
      [] mm = "explicit"   -> Explicit!mm_malloc(g, size)
      [] mm = "targeted"   -> Targeted!mm_malloc(g, size)
      [] mm = "segregated" -> Segregated!mm_malloc(g, size)
mm_free(g, p) ==
    CASE mm = "naive"      -> Naive!mm_free(g, p)
      [] mm = "implicit"   -> Implicit!mm_free(g, p)
      [] mm = "explicit"   -> Explicit!mm_free(g, p)
      [] mm = "targeted"   -> Targeted!mm_free(g, p)
      [] mm = "segregated" -> Segregated!mm_free(g, p)
mm_realloc(g, p, size) ==
    CASE mm = "naive"      -> Naive!mm_realloc(g, p, size)
      [] mm = "implicit"   -> Implicit!mm_realloc(g, p, size)
      [] mm = "explicit"   -> Explicit!mm_realloc(g, p, size)
      [] mm = "targeted"   -> Targeted!mm_realloc(g, p, size)
      [] mm = "segregated" -> Segregated!mm_realloc(g, p, size)

-----------------------------------------------------------------------------
NoBlocks == [i \in Index |-> NULL]
Live == {i \in Index : blocks[i] # NULL}
remove_range(i) == Live \ {i}

\* A byte of i in every byte of a word, and the words of a payload.
Fill(i) == i * (1 + 256 * (1 + 256 * (1 + 256)))
Payload(p, size) == {p + WSIZE * k : k \in 0 .. (size \div WSIZE) - 1}
memset(g, p, i, size) ==
    [g EXCEPT !.mem = [w \in Words |-> IF w \in Payload(p, size) THEN Fill(i) ELSE g.mem[w]]]

\* add_range: what is wrong with a payload, given those of the ids in others.
add_range(g, lo, size, others) ==
    LET hi == lo + size - 1
        Within(x, i) == blocks[i] <= x /\ x <= blocks[i] + block_sizes[i] - 1
    IN  IF lo % 8 # 0 THEN "not aligned"
        ELSE IF lo > g.brk - 1 \/ hi > g.brk - 1 THEN "outside heap"
        ELSE IF \E i \in others : Within(lo, i) \/ Within(hi, i) THEN "overlaps"
        ELSE "valid"

\* The heap has been used before by any trace, or never.
Init ==
    /\ mm \in Allocators
    /\ h = mm_init([mem |-> [w \in Words |-> 0], brk |-> 0])
    /\ blocks = NoBlocks /\ block_sizes = [i \in Index |-> 0]
    /\ verdict = "valid" /\ ops = 0

Request == ops < MaxOps /\ ops' = ops + 1 /\ verdict = "valid" /\ UNCHANGED mm

\* The request's payload p is what the allocator gave; g is its heap.
Accept(i, g, p, size, found) ==
    /\ verdict' = found
    /\ h' = IF found = "valid" THEN memset(g, p, i, size) ELSE g
    /\ blocks' = IF found = "valid" THEN [blocks EXCEPT ![i] = p] ELSE blocks
    /\ block_sizes' = IF found = "valid" THEN [block_sizes EXCEPT ![i] = size] ELSE block_sizes

\* What the driver makes of the answer r of mm_malloc.
Allocated(i, size, r) ==
    Accept(i, r.h, r.p, size,
           IF r.p = NULL THEN "mm_malloc failed" ELSE add_range(r.h, r.p, size, Live))

\* ALLOC: ids are taken in order.
Alloc(i, size) ==
    /\ Request /\ blocks[i] = NULL /\ \A j \in Index \ Live : i <= j
    /\ Allocated(i, size, mm_malloc(h, size))

\* The first words of the new payload are those of the old one.
Preserved(g, p, i, size) ==
    \A w \in Payload(p, IF size < block_sizes[i] THEN size ELSE block_sizes[i]) :
        g.mem[w] = Fill(i)

\* What the driver makes of the answer r of mm_realloc.
Reallocated(i, size, r) ==
    LET range == add_range(r.h, r.p, size, remove_range(i))
    IN  Accept(i, r.h, r.p, size,
               IF r.p = NULL THEN "mm_realloc failed"
               ELSE IF range # "valid" THEN range
               ELSE IF ~Preserved(r.h, r.p, i, size) THEN "not preserved"
               ELSE "valid")

Realloc(i, size) ==
    /\ Request /\ blocks[i] # NULL
    /\ Reallocated(i, size, mm_realloc(h, blocks[i], size))

Free(i) ==
    /\ Request /\ blocks[i] # NULL
    /\ h' = mm_free(h, blocks[i])
    /\ blocks' = [blocks EXCEPT ![i] = NULL]
    /\ UNCHANGED <<block_sizes, verdict>>

\* The next trace, after the last one ended or failed: the words of the heap stay.
NextTrace ==
    /\ ops < MaxOps /\ ops' = ops + 1
    /\ h' = mm_init(mem_reset_brk(h))
    /\ blocks' = NoBlocks /\ verdict' = "valid"
    /\ UNCHANGED <<mm, block_sizes>>

\* A trace file may hold any sequence of requests of the three kinds; read_trace takes
\* them over as they are.
Next ==
    \/ NextTrace
    \/ \E i \in Index : Free(i) \/ \E size \in Sizes : Alloc(i, size) \/ Realloc(i, size)

Spec == Init /\ [][Next]_vars

-----------------------------------------------------------------------------
(* The heap as a whole. *)

\* All but mm-naive.c have blocks with headers and footers, a prologue and an epilogue.
HasBlocks == mm # "naive"
First == 2 * WSIZE
Epilogue == h.brk - (CASE mm = "explicit"   -> 8
                       [] mm = "targeted"   -> Targeted!SEGMENTS
                       [] mm = "segregated" -> Segregated!SEGMENTS
                       [] OTHER             -> 0)

\* The blocks between prologue and epilogue, as the sizes in their headers say.
Blocks ==
    LET from[bp \in Ptrs] ==
            IF GET_SIZE(h, HDRP(bp)) <= 0 \/ Succ(h, bp) \notin Ptrs THEN {bp}
            ELSE {bp} \cup from[Succ(h, bp)]
    IN  from[Succ(h, First)]

Size(bp) == GET_SIZE(h, HDRP(bp))
FreeBlocks == {bp \in Blocks : GET_ALLOC(h, HDRP(bp)) = 0}

\* Whether coalesce is to merge a free block of size a with one of size b.
Merges(a, b) ==
    CASE mm = "targeted"   -> ~Targeted!inTargetSize(a) /\ ~Targeted!inTargetSize(b)
      [] mm = "segregated" -> Segregated!SameClass(a, b) /\ a + b <= Segregated!getMaxsize(a)
      [] OTHER             -> TRUE

\* The lists of free blocks, by where prologue and epilogue keep their ends, and those that
\* may hold a block of that size: what mm-segrete_v1.c splits off stays in the general list.
Lists ==
    CASE mm = "explicit"   -> {0}
      [] mm = "targeted"   -> {WSIZE * k : k \in 0 .. Len(TargetSizes)}
      [] mm = "segregated" -> {WSIZE * k : k \in 0 .. 7}
      [] OTHER             -> {}
ListsOf(size) ==
    CASE mm = "targeted" /\ Targeted!inTargetSize(size) -> {0, Targeted!nextOff(size)}
      [] mm = "segregated" -> {Segregated!getNextOffbySize(size)}
      [] OTHER -> {0}

\* The list at off, from the prologue on, through the blocks of empty.
Walk(off, empty) ==
    LET from[at \in Int \X Nat] ==   \* an address, and how many blocks may follow it
            IF at[2] = 0 \/ at[1] \notin empty THEN <<at[1]>>
            ELSE <<at[1]>> \o from[<<First + GET(h, at[1]), at[2] - 1>>]
    IN  <<First>> \o from[<<First + GET(h, First + off), Cardinality(empty)>>]

\* Whether a free block would be found by a search for need bytes.
Suffices(bp, need) ==
    CASE mm = "implicit"   -> Size(bp) >= need
      [] mm = "explicit"   -> Explicit!Fits(Size(bp), need)
      [] mm = "segregated" -> Segregated!SameClass(Size(bp), need) /\ Size(bp) >= need
      [] mm = "targeted"   -> IF Targeted!inTargetSize(need)
                              THEN bp = Walk(Targeted!nextOff(need), FreeBlocks)[2]
                              ELSE ~Targeted!inTargetSize(Size(bp)) /\ Explicit!Fits(Size(bp), need)
\* What the heap is asked to grow by if there is none.
Growths(size) ==
    CASE mm = "naive"      -> {Naive!newsize(size)}
      [] mm = "targeted"   -> {Targeted!Growth(asize(size))}
      [] mm = "segregated" -> {asize(size)}
      [] OTHER             -> {asize(size), CHUNKSIZE}

\* Headers lead from the prologue to the epilogue, every footer agrees with its header,
\* and the allocated blocks are exactly those whose payload somebody has, each large
\* enough: no block is lost, or given away twice.
HeapTiled == HasBlocks =>
    /\ Epilogue \in Blocks /\ GET(h, HDRP(Epilogue)) = PACK(0, 1)
    /\ \A bp \in Blocks \ {Epilogue} : GET(h, HDRP(bp)) = GET(h, FTRP(h, bp))
    /\ {blocks[i] : i \in Live} = Blocks \ (FreeBlocks \cup {Epilogue})
    /\ \A i \in Live : block_sizes[i] + DSIZE <= Size(blocks[i])

\* Free blocks are merged: a free block is not followed by one it should be merged with.
NoFreeNeighbours == HasBlocks =>
    \A bp \in FreeBlocks :
        LET succ == Succ(h, bp)
        IN  GET_ALLOC(h, HDRP(succ)) = 1 \/ ~Merges(Size(bp), Size(succ))

\* Every list of free blocks leads from the prologue to the epilogue and back; every free
\* block is in one of them, once, and in one for its size.
FreeListExact == HasBlocks /\ mm # "implicit" =>
    LET empty == FreeBlocks
        walk  == [off \in Lists |-> Walk(off, empty)]
        Prev(bp, off) == First + GET(h, bp + WSIZE + (IF bp = Epilogue THEN off ELSE 0))
        Home(bp, off) == off \in ListsOf(Size(bp)) /\ \E n \in DOMAIN walk[off] : walk[off][n] = bp
    IN  /\ \A off \in Lists :
              /\ walk[off][Len(walk[off])] = Epilogue
              /\ \A n \in 2 .. Len(walk[off]) : Prev(walk[off][n], off) = walk[off][n - 1]
        /\ \A bp \in empty : Cardinality({off \in Lists : Home(bp, off)}) = 1

\* The driver never finds fault with a payload: all are aligned, inside the heap and
\* apart, and mm_realloc keeps the contents.
DriverIsContent == verdict \in {"valid", "mm_malloc failed", "mm_realloc failed"}

\* A request fails only when the heap cannot grow and no free block would do.
FailsOnlyWhenFull ==
    [][verdict # "mm_malloc failed" /\ verdict' = "mm_malloc failed" =>
         \E i \in Index, size \in Sizes :
            /\ Alloc(i, size)
            /\ \E n \in Growths(size) : ~CanGrow(h, n)
            /\ HasBlocks => \A bp \in FreeBlocks : ~Suffices(bp, asize(size))
      ]_vars

\* What the callers see: payloads that nobody else touches.
Seen == INSTANCE Allocator WITH
    HeapEnd <- MAX_HEAP,
    region <- [i \in Index |-> IF i \in Live THEN Payload(blocks[i], block_sizes[i]) ELSE {}],
    data <- [i \in Index |->
        IF i \in Live /\ \A w \in Payload(blocks[i], block_sizes[i]) : h.mem[w] = Fill(i)
        THEN i ELSE 0]

\* No request touches a payload other than its own, and what is given is free.
ImplementsAllocator == Seen!Spec
=============================================================================
