------------------------------ MODULE MallocProofs ------------------------------
(***************************************************************************)
(* Proofs about mm-implict.c under its driver, for every size of the heap  *)
(* and any requests: the heap stays tiled with blocks, free blocks are     *)
(* merged, payloads are apart and keep what was written into them.  At the *)
(* end, that payloads are apart and kept with mm-naive.c as well.          *)
(***************************************************************************)
EXTENDS MallocDriver, Least

-----------------------------------------------------------------------------
(* Addresses and headers. *)

LEMMA InWords ==
    ASSUME NEW n \in Nat, n % 4 = 0, n < MAX_HEAP
    PROVE  n \in Words
<1>1. n = 4 * (n \div 4) /\ n \div 4 \in 0 .. MAX_HEAP \div 4 - 1
  BY HeapAssumption
<1> QED
  BY <1>1 DEF Words, WSIZE

LEMMA WordIs ==
    ASSUME NEW w \in Words
    PROVE  w \in Nat /\ w % 4 = 0 /\ w < MAX_HEAP
BY HeapAssumption DEF Words, WSIZE

LEMMA PtrIs ==
    ASSUME NEW p
    PROVE  p \in Ptrs <=> p \in Nat /\ p % 8 = 0 /\ 8 <= p /\ p <= MAX_HEAP
<1>1. ASSUME p \in Ptrs PROVE p \in Nat /\ p % 8 = 0 /\ 8 <= p /\ p <= MAX_HEAP
  BY <1>1, HeapAssumption DEF Ptrs, DSIZE
<1>2. ASSUME p \in Nat, p % 8 = 0, 8 <= p, p <= MAX_HEAP PROVE p \in Ptrs
  <2>1. p = 8 * (p \div 8) /\ p \div 8 \in 1 .. MAX_HEAP \div 8
    BY <1>2, HeapAssumption
  <2> QED
    BY <2>1 DEF Ptrs, DSIZE
<1> QED
  BY <1>1, <1>2

\* A header packs a size, a multiple of 8, with the bit for a block in use.
LEMMA Packed ==
    ASSUME NEW size \in Nat, size % 8 = 0, NEW a \in {0, 1}
    PROVE  /\ size + a \in Nat
           /\ (size + a) - ((size + a) % 8) = size
           /\ (size + a) % 2 = a
OBVIOUS

\* Where the words of a block are.
LEMMA BlockWords ==
    ASSUME NEW bp \in Ptrs, NEW size \in Nat, size % 8 = 0, 8 <= size, bp + size <= MAX_HEAP
    PROVE  /\ bp - 4 \in Words /\ bp + size - 8 \in Words /\ bp + size - 4 \in Words
           /\ bp + size \in Ptrs
<1>1. bp \in Nat /\ bp % 8 = 0 /\ 8 <= bp
  BY PtrIs
<1>2. /\ bp - 4 \in Nat /\ (bp - 4) % 4 = 0 /\ bp - 4 < MAX_HEAP
      /\ bp + size - 8 \in Nat /\ (bp + size - 8) % 4 = 0 /\ bp + size - 8 < MAX_HEAP
      /\ bp + size - 4 \in Nat /\ (bp + size - 4) % 4 = 0 /\ bp + size - 4 < MAX_HEAP
      /\ bp + size \in Nat /\ (bp + size) % 8 = 0 /\ 8 <= bp + size
  BY <1>1, HeapAssumption
<1> QED
  BY <1>2, InWords, PtrIs

LEMMA HeaderWord ==
    ASSUME NEW p \in Nat, p % 8 = 0, 8 <= p, p <= MAX_HEAP
    PROVE  p - 4 \in Words
<1>1. p - 4 \in Nat /\ (p - 4) % 4 = 0 /\ p - 4 < MAX_HEAP
  BY HeapAssumption
<1> QED
  BY <1>1, InWords

\* Those of the prologue.
LEMMA PrologueWords ==
    16 <= MAX_HEAP => 0 \in Words /\ 4 \in Words /\ 8 \in Words /\ 12 \in Words
<1>1. /\ 0 \in Nat /\ 0 % 4 = 0 /\ 4 \in Nat /\ 4 % 4 = 0
      /\ 8 \in Nat /\ 8 % 4 = 0 /\ 12 \in Nat /\ 12 % 4 = 0
  OBVIOUS
<1> QED
  BY <1>1, InWords, HeapAssumption

Heap == [mem : [Words -> Int], brk : Nat]

\* m is g with v written at w.
Puts(g, m, w, v) ==
    /\ m \in Heap /\ m.brk = g.brk /\ m.mem[w] = v
    /\ \A x \in Words : x # w => m.mem[x] = g.mem[x]

LEMMA PutIs ==
    ASSUME NEW g \in Heap, NEW w \in Words, NEW v \in Int
    PROVE  Puts(g, PUT(g, w, v), w, v)
<1> DEFINE m == PUT(g, w, v)
<1>1. m.mem = [g.mem EXCEPT ![w] = v] /\ m.brk = g.brk /\ m \in Heap
  BY DEF PUT, Heap
<1> QED
  BY <1>1 DEF Heap, Puts

\* The header and the footer of a block of that size.
Marked(g, bp, size, a) == g.mem[bp - 4] = size + a /\ g.mem[bp + size - 8] = size + a

\* There is room for a block of that size, and m is g with its header and footer written.
Room(bp, size) ==
    bp \in Ptrs /\ size \in Nat /\ size % 8 = 0 /\ 8 <= size /\ bp + size <= MAX_HEAP
Marks(g, m, bp, size, a) ==
    /\ m \in Heap /\ m.brk = g.brk /\ Marked(m, bp, size, a)
    /\ \A w \in Words : w # bp - 4 /\ w # bp + size - 8 => m.mem[w] = g.mem[w]

\* What Mark writes.
LEMMA MarkIs ==
    ASSUME NEW g \in Heap, NEW bp, NEW size, Room(bp, size), NEW a \in {0, 1}
    PROVE  Marks(g, Mark(g, bp, size, a), bp, size, a)
<1>1. /\ bp \in Ptrs /\ size \in Nat /\ size % 8 = 0 /\ 8 <= size /\ bp + size <= MAX_HEAP
      /\ bp \in Nat
  BY PtrIs DEF Room
<1>2. bp - 4 \in Words /\ bp + size - 8 \in Words
  BY <1>1, BlockWords
<1>3. size + a \in Nat /\ (size + a) - ((size + a) % 8) = size
  BY <1>1, Packed
<1> DEFINE f == PUT(g, bp - 4, size + a)
<1>4. /\ f \in Heap /\ f.brk = g.brk
      /\ f.mem = [g.mem EXCEPT ![bp - 4] = size + a]
  <2>1. PICK v \in Int : v = size + a
    BY <1>3
  <2>2. PUT(g, bp - 4, v) \in Heap
    BY <1>2, PutIs DEF Puts
  <2> QED
    BY <2>1, <2>2 DEF Heap, PUT
<1>5. f.mem[bp - 4] = size + a
  BY <1>2, <1>4 DEF Heap
<1>6. Mark(g, bp, size, a) = PUT(f, bp + size - 8, size + a)
  <2>1. GET_SIZE(f, HDRP(bp)) = size
    BY <1>3, <1>5 DEF GET_SIZE, GET, HDRP, WSIZE
  <2> QED
    BY <2>1 DEF Mark, FTRP, HDRP, WSIZE, DSIZE, PACK
<1> HIDE DEF f
<1>7. /\ PUT(f, bp + size - 8, size + a) \in Heap
      /\ PUT(f, bp + size - 8, size + a).brk = g.brk
      /\ PUT(f, bp + size - 8, size + a).mem = [f.mem EXCEPT ![bp + size - 8] = size + a]
  BY <1>2, <1>3, <1>4 DEF Heap, PUT
<1>8. Marked(PUT(f, bp + size - 8, size + a), bp, size, a)
  BY <1>1, <1>2, <1>4, <1>7 DEF Heap, Marked
<1>9. \A w \in Words : w # bp - 4 /\ w # bp + size - 8
                        => PUT(f, bp + size - 8, size + a).mem[w] = g.mem[w]
  BY <1>2, <1>4, <1>7 DEF Heap
<1> QED
  BY <1>6, <1>7, <1>8, <1>9 DEF Marks

-----------------------------------------------------------------------------
(* A heap that is tiled with blocks. *)

Sz(g, bp) == GET_SIZE(g, HDRP(bp))
Al(g, bp) == GET_ALLOC(g, HDRP(bp))

\* The block at bp, if blocks begin at the addresses of S: its footer agrees with its
\* header, and no other block begins before it ends.
BlockIn(g, S, bp) ==
    /\ Sz(g, bp) \in Nat /\ Sz(g, bp) % 8 = 0 /\ 8 <= Sz(g, bp)
    /\ Al(g, bp) \in {0, 1} /\ g.mem[bp - 4] = Sz(g, bp) + Al(g, bp)
    /\ g.mem[bp + Sz(g, bp) - 8] = g.mem[bp - 4]
    /\ bp + Sz(g, bp) \in S
    /\ \A x \in S : x <= bp \/ bp + Sz(g, bp) <= x

\* The prologue, of 8 bytes in mm-implict.c and of 16 in mm-explicit.c, and where it ends.
Lo(g) == g.mem[4] + 7
Prologue(g) == Lo(g) \in {16, 24} /\ g.mem[Lo(g) - 8] = g.mem[4]

\* Blocks begin at the addresses of S, behind the prologue; the last is the epilogue.
Tiles(g, S) ==
    /\ g \in Heap /\ S \subseteq Ptrs /\ Prologue(g) /\ Lo(g) \in S /\ g.brk \in S
    /\ \A x \in S : Lo(g) <= x /\ x <= g.brk
    /\ g.mem[g.brk - 4] = 1
    /\ \A x \in S \ {g.brk} : BlockIn(g, S, x)

Used(g, S) == {x \in S \ {g.brk} : Al(g, x) = 1}

\* A block that was not written to is what it was.
LEMMA SameBlock ==
    ASSUME NEW g \in Heap, NEW S, NEW x, BlockIn(g, S, x), NEW k, NEW T,
           k.mem[x - 4] = g.mem[x - 4], k.mem[x + Sz(g, x) - 8] = g.mem[x + Sz(g, x) - 8],
           x + Sz(g, x) \in T, \A y \in T : y <= x \/ x + Sz(g, x) <= y
    PROVE  BlockIn(k, T, x) /\ Sz(k, x) = Sz(g, x) /\ Al(k, x) = Al(g, x)
<1>1. Sz(k, x) = Sz(g, x) /\ Al(k, x) = Al(g, x)
  BY DEF Sz, Al, GET_SIZE, GET_ALLOC, GET, HDRP, WSIZE
<1> QED
  BY <1>1 DEF BlockIn

\* A block of that size ends in T, and none begins before it does.
Fits(T, x, size) == x + size \in T /\ \A y \in T : y <= x \/ x + size <= y

\* A block whose header and footer were just written.
LEMMA NewBlock ==
    ASSUME NEW k, NEW T, NEW x, NEW size, Room(x, size), NEW a \in {0, 1},
           Marked(k, x, size, a), Fits(T, x, size)
    PROVE  BlockIn(k, T, x) /\ Sz(k, x) = size /\ Al(k, x) = a
<1>1. Sz(k, x) = size /\ Al(k, x) = a
  BY Packed DEF Room, Marked, Sz, Al, GET_SIZE, GET_ALLOC, GET, HDRP, WSIZE
<1> QED
  BY <1>1 DEF BlockIn, Marked, Room, Fits

\* Where blocks are.
LEMMA TilesFacts ==
    ASSUME NEW g, NEW S, Tiles(g, S)
    PROVE  /\ \A x \in S : x \in Nat /\ x % 8 = 0 /\ 16 <= x /\ x <= g.brk /\ x <= MAX_HEAP
           /\ Lo(g) \in {16, 24} /\ \A x \in S : Lo(g) <= x
           /\ g.brk \in Nat /\ g.brk <= MAX_HEAP
           /\ \A x \in S \ {g.brk} : x < g.brk /\ x + Sz(g, x) \in S /\ x + Sz(g, x) > x
<1>0. Lo(g) \in {16, 24} /\ \A x \in S : Lo(g) <= x
  BY DEF Tiles, Prologue
<1>1. \A x \in S : x \in Nat /\ x % 8 = 0 /\ 16 <= x /\ x <= g.brk /\ x <= MAX_HEAP
  BY <1>0, PtrIs DEF Tiles
<1>2. g.brk \in S
  BY DEF Tiles
<1>3. ASSUME NEW x \in S \ {g.brk} PROVE x < g.brk /\ x + Sz(g, x) \in S /\ x + Sz(g, x) > x
  <2>1. BlockIn(g, S, x)
    BY DEF Tiles
  <2>2. Sz(g, x) \in Nat /\ 8 <= Sz(g, x) /\ x + Sz(g, x) \in S
    BY <2>1 DEF BlockIn
  <2> QED
    BY <1>1, <1>2, <2>2
<1> QED
  BY <1>0, <1>1, <1>2, <1>3

\* Writes to a block and behind it leave the prologue alone.
LEMMA PrologueKept ==
    ASSUME NEW g, NEW S, Tiles(g, S), NEW p \in S, NEW k,
           \A w \in Words : w < p - 4 => k.mem[w] = g.mem[w]
    PROVE  Prologue(k) /\ Lo(k) = Lo(g)
<1>1. PICK lo \in {16, 24} : lo = Lo(g) /\ lo \in S /\ g.mem[lo - 8] = g.mem[4]
  BY DEF Tiles, Prologue
<1>2. lo <= p /\ p \in Nat /\ lo <= MAX_HEAP
  BY <1>1, TilesFacts
<1>3. 4 \in Words /\ lo - 8 \in Words
  <2>1. lo - 8 \in Nat /\ (lo - 8) % 4 = 0 /\ lo - 8 < MAX_HEAP /\ 16 <= MAX_HEAP
    BY <1>1, <1>2, HeapAssumption
  <2> QED
    BY <2>1, InWords, PrologueWords
<1>4. k.mem[4] = g.mem[4] /\ k.mem[lo - 8] = g.mem[lo - 8]
  BY <1>1, <1>2, <1>3
<1> QED
  BY <1>1, <1>4 DEF Lo, Prologue

\* All words but those between lo - 4 and hi - 8 are left alone.
Outside(g, k, lo, hi) ==
    \A w \in Words : w < lo - 4 \/ w > hi - 8 => k.mem[w] = g.mem[w]

\* The stretch of one or more blocks from bp to end is marked as one block.
LEMMA MergeTiles ==
    ASSUME NEW g, NEW S, Tiles(g, S), NEW bp \in S, NEW size \in Nat, 0 < size,
           bp + size \in S, NEW a \in {0, 1},
           NEW k, k = Mark(g, bp, size, a), NEW T, T = {x \in S : x <= bp \/ bp + size <= x}
    PROVE  /\ Tiles(k, T) /\ k.brk = g.brk
           /\ Sz(k, bp) = size /\ Al(k, bp) = a
           /\ \A x \in T \ {bp, g.brk} : Sz(k, x) = Sz(g, x) /\ Al(k, x) = Al(g, x)
           /\ Outside(g, k, bp, bp + size)
<1>1. /\ bp \in Nat /\ bp % 8 = 0 /\ 16 <= bp /\ (bp + size) % 8 = 0 /\ bp + size <= MAX_HEAP
      /\ bp + size <= g.brk /\ bp \in Ptrs /\ g \in Heap
  BY TilesFacts DEF Tiles
<1>2. size % 8 = 0 /\ 8 <= size
  BY <1>1
<1>3. /\ k \in Heap /\ k.brk = g.brk /\ Marked(k, bp, size, a) /\ Room(bp, size)
      /\ \A w \in Words : w # bp - 4 /\ w # bp + size - 8 => k.mem[w] = g.mem[w]
  <2>1. Room(bp, size)
    BY <1>1, <1>2 DEF Room
  <2>2. Marks(g, k, bp, size, a)
    BY <1>1, <2>1, MarkIs
  <2> QED
    BY <2>1, <2>2 DEF Marks
<1>4. bp - 4 \in Words /\ bp + size - 8 \in Words
  BY <1>1, <1>2, BlockWords
<1>5. Outside(g, k, bp, bp + size)
  BY <1>1, <1>3, WordIs DEF Outside
<1>6. BlockIn(k, T, bp) /\ Sz(k, bp) = size /\ Al(k, bp) = a
  <2>1. Fits(T, bp, size)
    BY <1>1, <1>2 DEF Fits
  <2> QED
    BY <1>3, <2>1, NewBlock
<1>7. ASSUME NEW x \in T \ {bp, g.brk}
      PROVE  BlockIn(k, T, x) /\ Sz(k, x) = Sz(g, x) /\ Al(k, x) = Al(g, x)
  <2>1. BlockIn(g, S, x) /\ x \in S /\ x \in Ptrs
    BY DEF Tiles
  <2>2. /\ x \in Nat /\ x % 8 = 0 /\ Sz(g, x) \in Nat /\ Sz(g, x) % 8 = 0 /\ 8 <= Sz(g, x)
        /\ x + Sz(g, x) \in S /\ x + Sz(g, x) <= MAX_HEAP
        /\ \A y \in S : y <= x \/ x + Sz(g, x) <= y
    BY <2>1, TilesFacts DEF BlockIn
  <2>3. x + Sz(g, x) <= bp \/ bp + size <= x
    BY <1>1, <2>2
  <2>4. x - 4 \in Words /\ x + Sz(g, x) - 8 \in Words
    BY <2>1, <2>2, BlockWords
  <2>5. k.mem[x - 4] = g.mem[x - 4] /\ k.mem[x + Sz(g, x) - 8] = g.mem[x + Sz(g, x) - 8]
    BY <1>1, <1>5, <2>2, <2>3, <2>4 DEF Outside
  <2>6. x + Sz(g, x) \in T /\ \A y \in T : y <= x \/ x + Sz(g, x) <= y
    BY <1>1, <2>2, <2>3
  <2> QED
    BY <1>1, <2>1, <2>5, <2>6, SameBlock
<1>8. Tiles(k, T)
  <2>1. Prologue(k) /\ Lo(k) = Lo(g)
    BY <1>5, PrologueKept DEF Outside
  <2>2. T \subseteq Ptrs /\ Lo(k) \in T /\ k.brk \in T /\ \A x \in T : Lo(k) <= x /\ x <= k.brk
    BY <1>1, <1>3, <2>1, TilesFacts DEF Tiles
  <2>3. k.mem[k.brk - 4] = 1
    <3>1. g.brk \in S /\ g.mem[g.brk - 4] = 1
      BY DEF Tiles
    <3>2. g.brk \in Nat /\ g.brk % 8 = 0 /\ 16 <= g.brk /\ g.brk <= MAX_HEAP
      BY <3>1, TilesFacts
    <3>3. g.brk - 4 \in Words
      BY <3>2, HeaderWord
    <3> QED
      BY <1>1, <1>3, <1>5, <3>1, <3>2, <3>3 DEF Outside
  <2>4. \A x \in T \ {k.brk} : BlockIn(k, T, x)
    BY <1>3, <1>6, <1>7
  <2> QED
    BY <1>3, <2>1, <2>2, <2>3, <2>4 DEF Tiles
<1> QED
  BY <1>3, <1>5, <1>6, <1>7, <1>8

\* k is g with the block at bp marked as two, the first of them in use.
Splits(g, S, bp, n, rest, m, k, T) ==
    m = Mark(g, bp, n, 1) /\ k = Mark(m, bp + n, rest, 0) /\ T = S \cup {bp + n}

\* What is known of it then.
Halves(g, S, bp, n, rest, k, T) ==
    /\ Tiles(k, T) /\ k.brk = g.brk /\ bp + n \notin S
    /\ Sz(k, bp) = n /\ Al(k, bp) = 1 /\ Sz(k, bp + n) = rest /\ Al(k, bp + n) = 0
    /\ \A x \in S \ {bp, g.brk} : Sz(k, x) = Sz(g, x) /\ Al(k, x) = Al(g, x)
    /\ Outside(g, k, bp, bp + n + rest)

LEMMA SplitTiles ==
    ASSUME NEW g, NEW S, Tiles(g, S), NEW bp \in S \ {g.brk}, NEW n \in Nat, n % 8 = 0, 8 <= n,
           NEW rest \in Nat, 0 < rest, Sz(g, bp) = n + rest,
           NEW m, NEW k, NEW T, Splits(g, S, bp, n, rest, m, k, T)
    PROVE  Halves(g, S, bp, n, rest, k, T)
<1> USE DEF Splits
<1>1. BlockIn(g, S, bp) /\ g \in Heap
  BY DEF Tiles
<1>2. /\ bp + (n + rest) \in S /\ \A y \in S : y <= bp \/ bp + (n + rest) <= y
      /\ (n + rest) % 8 = 0 /\ rest % 8 = 0 /\ 8 <= rest
  BY <1>1 DEF BlockIn
<1>3. /\ bp \in Nat /\ bp % 8 = 0 /\ 16 <= bp /\ bp + n + rest \in S /\ bp + n + rest <= MAX_HEAP
      /\ bp + n + rest <= g.brk /\ bp \in Ptrs /\ bp + n <= MAX_HEAP
  BY <1>2, TilesFacts, HeapAssumption DEF Tiles
<1>4. bp + n \in Ptrs /\ bp + n \in Nat
  <2>1. bp + n \in Nat /\ (bp + n) % 8 = 0 /\ 8 <= bp + n
    BY <1>3
  <2> QED
    BY <1>3, <2>1, PtrIs
<1>5. /\ bp - 4 \in Words /\ bp + n - 8 \in Words /\ bp + n - 4 \in Words
      /\ bp + n + rest - 8 \in Words
  BY <1>2, <1>3, <1>4, BlockWords
<1>6. /\ m \in Heap /\ m.brk = g.brk /\ Marked(m, bp, n, 1) /\ Room(bp, n)
      /\ \A w \in Words : w # bp - 4 /\ w # bp + n - 8 => m.mem[w] = g.mem[w]
  <2>1. Room(bp, n)
    BY <1>3 DEF Room
  <2>2. Marks(g, m, bp, n, 1)
    BY <1>1, <2>1, MarkIs
  <2> QED
    BY <2>1, <2>2 DEF Marks
<1>7. /\ k \in Heap /\ k.brk = g.brk /\ Marked(k, bp + n, rest, 0) /\ Room(bp + n, rest)
      /\ \A w \in Words : w # bp + n - 4 /\ w # bp + n + rest - 8 => k.mem[w] = m.mem[w]
  <2>1. Room(bp + n, rest)
    BY <1>2, <1>3, <1>4 DEF Room
  <2>2. Marks(m, k, bp + n, rest, 0)
    BY <1>6, <2>1, MarkIs
  <2>3. m.brk = g.brk
    BY <1>6
  <2> QED
    BY <1>3, <2>1, <2>2, <2>3 DEF Marks
<1>8. bp + n \notin S
  BY <1>2, <1>3
<1>9. Outside(g, k, bp, bp + n + rest)
  BY <1>2, <1>3, <1>6, <1>7, WordIs DEF Outside
<1>10. BlockIn(k, T, bp) /\ Sz(k, bp) = n /\ Al(k, bp) = 1
  <2>1. Marked(k, bp, n, 1)
    <3>1. m.mem[bp - 4] = n + 1 /\ m.mem[bp + n - 8] = n + 1
      BY <1>6 DEF Marked
    <3>2. /\ bp - 4 # bp + n - 4 /\ bp - 4 # bp + n + rest - 8
          /\ bp + n - 8 # bp + n - 4 /\ bp + n - 8 # bp + n + rest - 8
      BY <1>2, <1>3
    <3> QED
      BY <1>5, <1>7, <3>1, <3>2 DEF Marked
  <2>2. Fits(T, bp, n)
    BY <1>2, <1>3 DEF Fits
  <2> QED
    <3>1. Room(bp, n) /\ 1 \in {0, 1}
      BY <1>6
    <3> QED
      BY ONLY <2>1, <2>2, <3>1, NewBlock
<1>11. BlockIn(k, T, bp + n) /\ Sz(k, bp + n) = rest /\ Al(k, bp + n) = 0
  <2>1. Fits(T, bp + n, rest)
    BY <1>2, <1>3, TilesFacts DEF Fits
  <2>2. Marked(k, bp + n, rest, 0) /\ Room(bp + n, rest) /\ 0 \in {0, 1}
    BY <1>7
  <2> QED
    BY ONLY <2>1, <2>2, NewBlock
<1>12. ASSUME NEW x \in S \ {bp, g.brk}
       PROVE  BlockIn(k, T, x) /\ Sz(k, x) = Sz(g, x) /\ Al(k, x) = Al(g, x)
  <2>1. BlockIn(g, S, x) /\ x \in S /\ x \in Ptrs
    BY DEF Tiles
  <2>2. /\ x \in Nat /\ x % 8 = 0 /\ Sz(g, x) \in Nat /\ Sz(g, x) % 8 = 0 /\ 8 <= Sz(g, x)
        /\ x + Sz(g, x) \in S /\ x + Sz(g, x) <= MAX_HEAP
        /\ \A y \in S : y <= x \/ x + Sz(g, x) <= y
    BY <2>1, TilesFacts DEF BlockIn
  <2>3. x + Sz(g, x) <= bp \/ bp + n + rest <= x
    BY <1>2, <1>3, <2>2
  <2>4. x - 4 \in Words /\ x + Sz(g, x) - 8 \in Words
    BY <2>1, <2>2, BlockWords
  <2>5. k.mem[x - 4] = g.mem[x - 4] /\ k.mem[x + Sz(g, x) - 8] = g.mem[x + Sz(g, x) - 8]
    BY <1>3, <1>9, <2>2, <2>3, <2>4 DEF Outside
  <2>6. x + Sz(g, x) \in T /\ \A y \in T : y <= x \/ x + Sz(g, x) <= y
    BY <1>3, <2>2, <2>3
  <2> QED
    BY <1>1, <2>1, <2>5, <2>6, SameBlock
<1>13. Tiles(k, T)
  <2>1. Prologue(k) /\ Lo(k) = Lo(g)
    BY <1>9, PrologueKept DEF Outside
  <2>2. T \subseteq Ptrs /\ Lo(k) \in T /\ k.brk \in T /\ \A x \in T : Lo(k) <= x /\ x <= k.brk
    <3>1. Lo(g) <= bp + n /\ bp + n <= g.brk
      BY <1>3, TilesFacts
    <3> QED
      BY <1>3, <1>4, <1>7, <2>1, <3>1 DEF Tiles
  <2>3. k.mem[k.brk - 4] = 1
    <3>1. g.brk \in S /\ g.mem[g.brk - 4] = 1
      BY DEF Tiles
    <3>2. g.brk \in Nat /\ g.brk % 8 = 0 /\ 16 <= g.brk /\ g.brk <= MAX_HEAP
      BY <3>1, TilesFacts
    <3>3. g.brk - 4 \in Words
      BY <3>2, HeaderWord
    <3> QED
      BY <1>3, <1>7, <1>9, <3>1, <3>2, <3>3 DEF Outside
  <2>4. \A x \in T \ {k.brk} : BlockIn(k, T, x)
    BY <1>7, <1>10, <1>11, <1>12
  <2> QED
    BY <1>7, <2>1, <2>2, <2>3, <2>4 DEF Tiles
<1> QED
  BY <1>7, <1>8, <1>9, <1>10, <1>11, <1>12, <1>13 DEF Halves

\* The heap grows by one block; it begins where the epilogue was.
LEMMA ExtendTiles ==
    ASSUME NEW g, NEW S, Tiles(g, S), NEW size \in Nat, size % 8 = 0, 8 <= size, CanGrow(g, size),
           NEW m, m = Mark(mem_sbrk(g, size), g.brk, size, 0),
           NEW k, k = PUT(m, HDRP(Succ(m, g.brk)), PACK(0, 1)),
           NEW T, T = S \cup {g.brk + size}
    PROVE  /\ Tiles(k, T) /\ k.brk = g.brk + size
           /\ Sz(k, g.brk) = size /\ Al(k, g.brk) = 0 /\ Al(k, k.brk) = 1
           /\ \A x \in S \ {g.brk} : Sz(k, x) = Sz(g, x) /\ Al(k, x) = Al(g, x)
           /\ Outside(g, k, g.brk, g.brk + size + 4)
<1>1. PICK b \in S : b = g.brk
  BY DEF Tiles
<1>2. /\ b \in Nat /\ b % 8 = 0 /\ 16 <= b /\ b \in Ptrs /\ b <= MAX_HEAP
      /\ b + size \in Nat /\ b + size <= MAX_HEAP /\ (b + size) % 8 = 0 /\ g \in Heap
      /\ \A x \in S : x \in Nat /\ x <= b
  BY <1>1, TilesFacts DEF Tiles, CanGrow
<1>3. mem_sbrk(g, size) \in Heap /\ mem_sbrk(g, size).brk = b + size /\ mem_sbrk(g, size).mem = g.mem
  BY <1>1, <1>2 DEF mem_sbrk, Heap
<1>4. /\ b - 4 \in Words /\ b + size - 8 \in Words /\ b + size - 4 \in Words
      /\ b + size \in Ptrs
  BY <1>2, BlockWords
<1>5. /\ m \in Heap /\ m.brk = b + size /\ Marked(m, b, size, 0) /\ Room(b, size)
      /\ \A w \in Words : w # b - 4 /\ w # b + size - 8 => m.mem[w] = g.mem[w]
  <2>1. Room(b, size)
    BY <1>2 DEF Room
  <2>2. Marks(mem_sbrk(g, size), m, b, size, 0)
    BY <1>1, <1>3, <2>1, MarkIs
  <2> QED
    BY <1>3, <2>1, <2>2 DEF Marks
<1>6. HDRP(Succ(m, b)) = b + size - 4
  <2>1. m.mem[b - 4] = size + 0
    BY <1>5 DEF Marked
  <2>2. GET_SIZE(m, HDRP(b)) = size
    BY <2>1, Packed DEF GET_SIZE, GET, HDRP, WSIZE
  <2> QED
    BY <1>2, <2>2 DEF Succ, HDRP, WSIZE
<1>7. /\ k \in Heap /\ k.brk = b + size
      /\ k.mem[b + size - 4] = 1
      /\ \A w \in Words : w # b + size - 4 => k.mem[w] = m.mem[w]
  <2>1. k = PUT(m, b + size - 4, 1)
    BY <1>1, <1>6 DEF PACK
  <2>2. PICK w \in Words, v \in Nat : w = b + size - 4 /\ v = 1
    BY <1>4
  <2>3. k = PUT(m, w, v)
    BY <2>1, <2>2
  <2>4. m \in Heap /\ m.brk = b + size
    BY <1>5
  <2>5. Puts(m, k, w, v)
    BY <2>3, <2>4, PutIs
  <2> QED
    BY <2>2, <2>4, <2>5 DEF Puts
<1>8. Outside(g, k, b, b + size + 4)
  BY <1>2, <1>5, <1>7, WordIs DEF Outside
<1>9. BlockIn(k, T, b) /\ Sz(k, b) = size /\ Al(k, b) = 0
  <2>1. Marked(k, b, size, 0)
    <3>1. m.mem[b - 4] = size + 0 /\ m.mem[b + size - 8] = size + 0
      BY <1>5 DEF Marked
    <3>2. b - 4 # b + size - 4 /\ b + size - 8 # b + size - 4
      BY <1>2
    <3> QED
      BY <1>4, <1>7, <3>1, <3>2 DEF Marked
  <2>2. Fits(T, b, size)
    BY <1>1, <1>2 DEF Fits
  <2> QED
    BY <1>5, <2>1, <2>2, NewBlock
<1>10. ASSUME NEW x \in S \ {b}
       PROVE  BlockIn(k, T, x) /\ Sz(k, x) = Sz(g, x) /\ Al(k, x) = Al(g, x)
  <2>1. BlockIn(g, S, x) /\ x \in S /\ x \in Ptrs
    BY <1>1 DEF Tiles
  <2>2. /\ x \in Nat /\ x % 8 = 0 /\ Sz(g, x) \in Nat /\ Sz(g, x) % 8 = 0 /\ 8 <= Sz(g, x)
        /\ x + Sz(g, x) \in S /\ x + Sz(g, x) <= b /\ x + Sz(g, x) <= MAX_HEAP
        /\ \A y \in S : y <= x \/ x + Sz(g, x) <= y
    BY <1>1, <2>1, TilesFacts DEF BlockIn
  <2>3. x - 4 \in Words /\ x + Sz(g, x) - 8 \in Words
    BY <2>1, <2>2, BlockWords
  <2>4. k.mem[x - 4] = g.mem[x - 4] /\ k.mem[x + Sz(g, x) - 8] = g.mem[x + Sz(g, x) - 8]
    BY <1>2, <1>8, <2>2, <2>3 DEF Outside
  <2>5. x + Sz(g, x) \in T /\ \A y \in T : y <= x \/ x + Sz(g, x) <= y
    BY <1>1, <1>2, <2>2
  <2> QED
    BY <1>2, <2>1, <2>4, <2>5, SameBlock
<1>11. Al(k, b + size) = 1
  <2>1. k.mem[(b + size) - 4] = 1
    BY <1>2, <1>7
  <2> QED
    BY <2>1 DEF Al, GET_ALLOC, GET, HDRP, WSIZE
<1>12. Tiles(k, T)
  <2>1. Prologue(k) /\ Lo(k) = Lo(g)
    BY <1>1, <1>8, PrologueKept DEF Outside
  <2>2. T \subseteq Ptrs /\ Lo(k) \in T /\ k.brk \in T /\ \A x \in T : Lo(k) <= x /\ x <= k.brk
    <3>1. Lo(g) \in {16, 24} /\ \A x \in S : Lo(g) <= x
      BY TilesFacts
    <3> QED
      BY <1>1, <1>2, <1>4, <1>7, <2>1, <3>1 DEF Tiles
  <2>3. k.mem[k.brk - 4] = 1
    BY <1>2, <1>7
  <2>4. \A x \in T \ {k.brk} : BlockIn(k, T, x)
    BY <1>1, <1>7, <1>9, <1>10
  <2> QED
    BY <1>7, <2>1, <2>2, <2>3, <2>4 DEF Tiles
<1> QED
  BY <1>1, <1>7, <1>8, <1>9, <1>10, <1>11, <1>12

-----------------------------------------------------------------------------
(* Free blocks are merged. *)

\* No free block is followed by a free one.
Merged(g, S) == \A x \in S \ {g.brk} : Al(g, x) = 1 \/ Al(g, x + Sz(g, x)) = 1

\* The words of a block but its header and its footer.
Body(g, x) == {w \in Words : x <= w /\ w < x + Sz(g, x) - 8}

\* The block at x, in use in g, is in k as it was.
KeptBlock(g, k, T, x) ==
    /\ x \in Used(k, T) /\ Sz(k, x) = Sz(g, x)
    /\ \A w \in Body(g, x) : k.mem[w] = g.mem[w]

\* The blocks in use in k are those in use in g, as they were.
Same(g, S, k, T) == Used(k, T) = Used(g, S) /\ \A x \in Used(g, S) : KeptBlock(g, k, T, x)

LEMMA SameTransitive ==
    ASSUME NEW g, NEW S, NEW k, NEW T, NEW l, NEW U, Same(g, S, k, T), Same(k, T, l, U)
    PROVE  Same(g, S, l, U)
<1>1. ASSUME NEW x \in Used(g, S) PROVE KeptBlock(g, l, U, x)
  <2>1. KeptBlock(g, k, T, x) /\ KeptBlock(k, l, U, x)
    BY DEF Same
  <2>2. Sz(k, x) = Sz(g, x)
    BY <2>1 DEF KeptBlock
  <2>3. Body(k, x) = Body(g, x)
    BY <2>2 DEF Body
  <2> QED
    BY <2>1, <2>2, <2>3 DEF KeptBlock
<1> QED
  BY <1>1 DEF Same

\* The epilogue counts as a block in use.
LEMMA EpilogueUsed ==
    ASSUME NEW g, NEW S, Tiles(g, S)
    PROVE  Al(g, g.brk) = 1 /\ Sz(g, g.brk) = 0
<1>1. g.mem[g.brk - 4] = 1
  BY DEF Tiles
<1> QED
  BY <1>1 DEF Al, Sz, GET_ALLOC, GET_SIZE, GET, HDRP, WSIZE

\* A block of a tiled heap.
LEMMA BlockFacts ==
    ASSUME NEW g, NEW S, Tiles(g, S), NEW x \in S \ {g.brk}
    PROVE  /\ x \in Nat /\ x % 8 = 0 /\ 16 <= x /\ Sz(g, x) \in Nat /\ Sz(g, x) % 8 = 0
           /\ 8 <= Sz(g, x) /\ x + Sz(g, x) \in S /\ x + Sz(g, x) <= g.brk
           /\ x + Sz(g, x) \in Nat /\ x + Sz(g, x) <= MAX_HEAP
           /\ \A y \in S : y <= x \/ x + Sz(g, x) <= y
           /\ Al(g, x) \in {0, 1}
<1>1. BlockIn(g, S, x)
  BY DEF Tiles
<1> QED
  BY <1>1, TilesFacts DEF BlockIn

\* A block that is not the first begins where another ends.
LEMMA Before ==
    ASSUME NEW g, NEW S, Tiles(g, S), NEW bp \in S, bp # Lo(g)
    PROVE  \E p \in S \ {g.brk} : p + Sz(g, p) = bp
<1> DEFINE Ps == {x \in S : x < bp}
<1>1. bp \in Nat /\ Lo(g) < bp /\ bp <= g.brk /\ S \in SUBSET Nat /\ Lo(g) \in S /\ g.brk \in Nat
  BY TilesFacts DEF Tiles
<1>2. PICK p \in Ps : \A y \in Ps : y <= p
  <2>1. Ps \in SUBSET Nat /\ Lo(g) \in Ps
    BY <1>1
  <2>2. \A y \in Ps : y <= bp
    BY <1>1
  <2> QED
    BY <1>1, <2>1, <2>2, GreatestNatural
<1>3. p \in S \ {g.brk} /\ p < bp /\ p \in Nat
  BY <1>1
<1>4. /\ p + Sz(g, p) \in S /\ 8 <= Sz(g, p) /\ Sz(g, p) \in Nat
      /\ bp <= p \/ p + Sz(g, p) <= bp
  BY <1>3, BlockFacts
<1>5. ~(p + Sz(g, p) < bp)
  BY <1>2, <1>3, <1>4
<1> QED
  BY <1>1, <1>3, <1>4, <1>5

\* The heap k is tiled, free blocks are merged, and the blocks in use are those of g.
Tidy(g, S, k, T) == Tiles(k, T) /\ Merged(k, T) /\ Same(g, S, k, T)

\* The blocks from bp to bp + size are free, and the next one is in use, if any two free
\* blocks that follow each other are among them.
Stretch(g, S, bp, size) ==
    /\ bp \in S /\ size \in Nat /\ 0 < size /\ bp + size \in S /\ Al(g, bp + size) = 1
    /\ \A x \in S : bp <= x /\ x < bp + size => Al(g, x) = 0
    /\ \A x \in S \ {g.brk} : x < bp \/ bp + size <= x
                                 => Al(g, x) = 1 \/ Al(g, x + Sz(g, x)) = 1

\* They are marked as one.
LEMMA MergeFree ==
    ASSUME NEW g, NEW S, Tiles(g, S), NEW bp, NEW size, Stretch(g, S, bp, size),
           NEW k, k = Mark(g, bp, size, 0), NEW T, T = {x \in S : x <= bp \/ bp + size <= x}
    PROVE  /\ Tidy(g, S, k, T) /\ k.brk = g.brk
           /\ bp \in T \ {k.brk} /\ Sz(k, bp) = size /\ Al(k, bp) = 0
           /\ \A x \in T \ {bp, g.brk} : Sz(k, x) = Sz(g, x) /\ Al(k, x) = Al(g, x)
           /\ Outside(g, k, bp, bp + size)
<1> USE DEF Stretch
<1>1. bp \in Nat /\ bp < bp + size /\ bp + size <= g.brk /\ g.brk \in Nat /\ S \in SUBSET Nat
  BY TilesFacts
<1>2. /\ Tiles(k, T) /\ k.brk = g.brk
      /\ Sz(k, bp) = size /\ Al(k, bp) = 0
      /\ \A x \in T \ {bp, g.brk} : Sz(k, x) = Sz(g, x) /\ Al(k, x) = Al(g, x)
      /\ Outside(g, k, bp, bp + size)
  BY MergeTiles
<1>3. bp \in T \ {k.brk} /\ Al(g, bp) = 0
  BY <1>1, <1>2
<1>4. ASSUME NEW x \in T \ {k.brk} PROVE Al(k, x) = 1 \/ Al(k, x + Sz(k, x)) = 1
  <2>1. \A y \in T : Al(g, y) = 1 => Al(k, y) = 1
    <3>1. Al(k, g.brk) = 1
      BY <1>2, EpilogueUsed
    <3> QED
      BY <1>2, <1>3, <3>1
  <2>2. CASE x = bp
    <3>1. bp + size \in T
      BY <1>1
    <3> QED
      BY <1>2, <2>1, <2>2, <3>1
  <2>3. CASE x # bp
    <3>1. /\ Sz(k, x) = Sz(g, x) /\ x \in S \ {g.brk} /\ (x < bp \/ bp + size <= x)
          /\ Al(k, x) = Al(g, x)
      BY <1>1, <1>2, <2>3
    <3>2. CASE Al(g, x) = 1
      BY <3>1, <3>2
    <3>3. CASE Al(g, x + Sz(g, x)) = 1
      <4>1. PICK y \in S : y = x + Sz(g, x)
        BY <3>1, BlockFacts
      <4>2. y \in Nat /\ ~(bp <= y /\ y < bp + size)
        BY <1>1, <3>3, <4>1
      <4>3. y \in T
        BY <1>1, <4>2
      <4> QED
        BY <2>1, <3>1, <3>3, <4>1, <4>3
    <3> QED
      BY <3>1, <3>2, <3>3
  <2> QED
    BY <2>2, <2>3
<1>5. ASSUME NEW x \in Used(g, S) PROVE KeptBlock(g, k, T, x)
  <2>1. x \in S \ {g.brk} /\ Al(g, x) = 1
    BY DEF Used
  <2>2. x < bp \/ bp + size <= x
    BY <1>1, <2>1
  <2>3. x \in T \ {bp, g.brk}
    BY <1>1, <2>1, <2>2
  <2>4. /\ x \in Nat /\ Sz(g, x) \in Nat /\ 8 <= Sz(g, x)
        /\ bp <= x \/ x + Sz(g, x) <= bp
    BY <2>1, BlockFacts
  <2>5. ASSUME NEW w \in Body(g, x) PROVE k.mem[w] = g.mem[w]
    <3>1. w \in Words /\ w \in Nat /\ x <= w /\ w < x + Sz(g, x) - 8
      BY WordIs DEF Body
    <3>2. w < bp - 4 \/ w > (bp + size) - 8
      BY <1>1, <2>2, <2>4, <3>1
    <3> QED
      BY <1>2, <3>1, <3>2 DEF Outside
  <2> QED
    BY <1>2, <2>1, <2>3, <2>5 DEF KeptBlock, Used
<1>6. Used(k, T) \subseteq Used(g, S)
  BY <1>2, <1>3 DEF Used
<1>7. Same(g, S, k, T)
  BY <1>5, <1>6 DEF Same, KeptBlock
<1> QED
  BY <1>2, <1>3, <1>4, <1>7 DEF Merged, Tidy

\* What coalesce finds before and behind a block.
LEMMA FooterIs ==
    ASSUME NEW g, NEW S, Tiles(g, S), NEW x \in S \ {g.brk}
    PROVE  /\ Succ(g, x) = x + Sz(g, x) /\ FTRP(g, x) = x + Sz(g, x) - 8
           /\ GET_SIZE(g, FTRP(g, x)) = Sz(g, x) /\ GET_ALLOC(g, FTRP(g, x)) = Al(g, x)
<1>1. g.mem[x + Sz(g, x) - 8] = g.mem[x - 4]
  BY DEF Tiles, BlockIn
<1>2. Succ(g, x) = x + Sz(g, x) /\ FTRP(g, x) = x + Sz(g, x) - 8
  BY BlockFacts DEF Succ, FTRP, Sz, DSIZE
<1> QED
  BY <1>1, <1>2 DEF Sz, Al, GET_SIZE, GET_ALLOC, GET, HDRP, WSIZE

LEMMA PrologueIs ==
    ASSUME NEW g, NEW S, Tiles(g, S)
    PROVE  /\ Pred(g, Lo(g)) = 8 /\ Succ(g, 8) = Lo(g) /\ FTRP(g, 8) = Lo(g) - 8
           /\ GET_ALLOC(g, FTRP(g, 8)) = 1 /\ GET_ALLOC(g, HDRP(8)) = 1
<1>1. PICK lo \in {16, 24} : lo = Lo(g) /\ g.mem[4] = lo - 7 /\ g.mem[lo - 8] = lo - 7
  <2>1. g.mem[4] \in Int
    <3>1. 16 <= MAX_HEAP
      <4>1. PICK x \in S : 16 <= x /\ x <= MAX_HEAP /\ x \in Nat
        BY TilesFacts DEF Tiles
      <4> QED
        BY <4>1, HeapAssumption
    <3> QED
      BY <3>1, PrologueWords DEF Tiles, Heap
  <2> QED
    BY <2>1 DEF Tiles, Prologue, Lo
<1>2. /\ GET_SIZE(g, lo - 8) = lo - 8 /\ GET_SIZE(g, 4) = lo - 8
      /\ GET_ALLOC(g, lo - 8) = 1 /\ GET_ALLOC(g, 4) = 1
  BY <1>1 DEF GET_SIZE, GET_ALLOC, GET
<1>3. Pred(g, lo) = 8
  BY <1>2 DEF Pred, DSIZE
<1>4. FTRP(g, 8) = lo - 8 /\ Succ(g, 8) = lo
  BY <1>2 DEF FTRP, Succ, HDRP, WSIZE, DSIZE
<1> QED
  BY <1>1, <1>2, <1>3, <1>4 DEF HDRP, WSIZE

LEMMA PredIs ==
    ASSUME NEW g, NEW S, Tiles(g, S), NEW p \in S \ {g.brk}, NEW bp, bp = p + Sz(g, p)
    PROVE  Pred(g, bp) = p
<1>1. /\ p \in Nat /\ Sz(g, p) \in Nat /\ bp \in Nat /\ FTRP(g, p) = bp - 8
      /\ GET_SIZE(g, FTRP(g, p)) = Sz(g, p)
  BY BlockFacts, FooterIs
<1> QED
  BY <1>1 DEF Pred, DSIZE

\* The macros that mm-implict.c is written with.
LEMMA ImplicitMacros ==
    ASSUME NEW g, NEW p
    PROVE  /\ Implicit!GET_SIZE(g, p) = GET_SIZE(g, p) /\ Implicit!GET_ALLOC(g, p) = GET_ALLOC(g, p)
           /\ Implicit!HDRP(p) = HDRP(p) /\ Implicit!FTRP(g, p) = FTRP(g, p)
           /\ Implicit!Succ(g, p) = Succ(g, p) /\ Implicit!Pred(g, p) = Pred(g, p)
BY DEF Implicit!GET_SIZE, GET_SIZE, Implicit!GET_ALLOC, GET_ALLOC, Implicit!GET, GET,
       Implicit!HDRP, HDRP, Implicit!FTRP, FTRP, Implicit!Succ, Succ, Implicit!Pred, Pred,
       Implicit!WSIZE, WSIZE, Implicit!DSIZE, DSIZE

LEMMA ImplicitMark ==
    ASSUME NEW g, NEW p, NEW v, NEW a
    PROVE  Implicit!PUT(g, p, v) = PUT(g, p, v) /\ Implicit!Mark(g, p, v, a) = Mark(g, p, v, a)
BY ImplicitMacros DEF Implicit!Mark, Mark, Implicit!PUT, PUT, Implicit!PACK, PACK

\* No free block is followed by a free one, but for the one at bp and those beside it.
MergedBut(g, S, bp) ==
    \A x \in S \ {g.brk} :
        x # bp /\ x + Sz(g, x) # bp => Al(g, x) = 1 \/ Al(g, x + Sz(g, x)) = 1

\* p is the block before bp, if a says that it is free.
LeftOf(g, S, bp, p, a) ==
    IF a # 1 THEN p \in S \ {g.brk} /\ p + Sz(g, p) = bp /\ Al(g, p) = 0
    ELSE \A x \in S \ {g.brk} : x + Sz(g, x) = bp => Al(g, x) = 1

\* Where bp and its free neighbours begin, and their size.
Begins(bp, p, a) == IF a # 1 THEN p ELSE bp
Spans(g, bp, p, a) ==
    Sz(g, bp) + (IF Al(g, bp + Sz(g, bp)) = 1 THEN 0 ELSE Sz(g, bp + Sz(g, bp)))
              + (IF a # 1 THEN Sz(g, p) ELSE 0)

\* The stretch of a free block and its neighbours, if they are free.
LEMMA StretchIs ==
    ASSUME NEW g, NEW S, Tiles(g, S), NEW bp \in S \ {g.brk}, Al(g, bp) = 0,
           MergedBut(g, S, bp), NEW p, NEW a, LeftOf(g, S, bp, p, a),
           NEW f, f = Begins(bp, p, a), NEW n, n = Spans(g, bp, p, a),
           NEW next, next = bp + Sz(g, bp)
    PROVE  /\ Stretch(g, S, f, n) /\ Sz(g, bp) <= n
           /\ \A x \in S : f <= x /\ x < f + n
                 <=> x = f \/ x = bp \/ (Al(g, next) # 1 /\ x = next)
<1>1. /\ bp \in Nat /\ Sz(g, bp) \in Nat /\ 8 <= Sz(g, bp) /\ next \in S
      /\ \A y \in S : y <= bp \/ next <= y
  BY BlockFacts
<1>2. /\ bp \in Nat /\ Sz(g, bp) \in Nat /\ 8 <= Sz(g, bp) /\ next \in S /\ next \in Nat
      /\ bp < next /\ \A y \in S : y <= bp \/ next <= y
  BY <1>1
<1>3. ASSUME a # 1
      PROVE  p \in S \ {g.brk} /\ p + Sz(g, p) = bp /\ Al(g, p) = 0
  BY <1>3 DEF LeftOf
<1>4. ASSUME NEW x \in S \ {g.brk}, x + Sz(g, x) = bp, a = 1
      PROVE  Al(g, x) = 1
  BY <1>4 DEF LeftOf
<1>5. ASSUME Al(g, next) # 1
      PROVE  next \in S \ {g.brk} /\ Al(g, next) = 0
  <2>1. next \in S \ {g.brk}
    BY <1>2, <1>5, EpilogueUsed
  <2> QED
    BY <1>5, <2>1, BlockFacts
<1>6. PICK e \in S : e = IF Al(g, next) = 1 THEN next ELSE next + Sz(g, next)
  BY <1>2, <1>5, BlockFacts
<1>7. f \in S /\ f \in Nat /\ f <= bp /\ \A y \in S : y <= f \/ bp <= y
  <2>1. CASE a = 1
    BY <1>2, <2>1, TilesFacts DEF Begins
  <2>2. CASE a # 1
    <3>1. f = p
      BY <2>2 DEF Begins
    <3>2. p \in Nat /\ Sz(g, p) \in Nat /\ \A y \in S : y <= p \/ bp <= y
      BY <1>3, <2>2, BlockFacts
    <3>3. p + Sz(g, p) = bp
      BY <1>3, <2>2
    <3> QED
      BY <1>3, <2>2, <3>1, <3>2, <3>3
  <2> QED
    BY <2>1, <2>2
<1>8. e \in Nat /\ next <= e /\ \A y \in S : y <= next \/ e <= y
  <2>1. CASE Al(g, next) = 1
    BY <1>2, <1>6, <2>1, TilesFacts
  <2>2. CASE Al(g, next) # 1
    BY <1>2, <1>5, <1>6, <2>2, BlockFacts
  <2> QED
    BY <2>1, <2>2
<1>9. n \in Nat /\ f + n = e /\ 0 < n /\ Sz(g, bp) <= n
  <2>1. PICK c \in Nat : c = IF Al(g, next) = 1 THEN 0 ELSE Sz(g, next)
    BY <1>5, BlockFacts
  <2>2. e = next + c
    BY <1>2, <1>5, <1>6, <2>1
  <2>3. PICK b \in Nat : b = IF a # 1 THEN Sz(g, p) ELSE 0
    BY <1>3, BlockFacts
  <2>4. f + b = bp
    BY <1>2, <1>3, <2>3 DEF Begins
  <2>5. n = Sz(g, bp) + c + b
    BY <2>1, <2>3 DEF Spans
  <2> QED
    BY <1>2, <1>7, <2>2, <2>4, <2>5
<1>10. Al(g, e) = 1
  <2>1. CASE Al(g, next) = 1
    BY <1>6, <2>1
  <2>2. CASE Al(g, next) # 1
    <3>1. next # bp /\ next + Sz(g, next) # bp
      BY <1>2, <1>5, <1>6, <1>8, <2>2
    <3> QED
      BY <1>5, <1>6, <2>2, <3>1 DEF MergedBut
  <2> QED
    BY <2>1, <2>2
<1>11. ASSUME NEW x \in S
       PROVE  f <= x /\ x < e <=> x = f \/ x = bp \/ (Al(g, next) # 1 /\ x = next)
  <2>1. x \in Nat /\ (x <= f \/ bp <= x) /\ (x <= bp \/ next <= x) /\ (x <= next \/ e <= x)
    BY <1>2, <1>7, <1>8, TilesFacts
  <2>2. Al(g, next) = 1 <=> e = next
    <3>1. Al(g, next) # 1 => Sz(g, next) \in Nat /\ 8 <= Sz(g, next)
      BY <1>5, BlockFacts
    <3> QED
      BY <1>2, <1>6, <3>1
  <2> QED
    BY <1>2, <1>7, <1>8, <2>1, <2>2
<1>12. ASSUME NEW x \in S, f <= x, x < e PROVE Al(g, x) = 0
  <2>1. x = f \/ x = bp \/ (Al(g, next) # 1 /\ x = next)
    BY <1>11, <1>12
  <2> QED
    BY <1>3, <1>5, <2>1 DEF Begins
<1>13. ASSUME NEW x \in S \ {g.brk}, x < f \/ e <= x
       PROVE  Al(g, x) = 1 \/ Al(g, x + Sz(g, x)) = 1
  <2>1. x \in Nat /\ x # bp
    BY <1>2, <1>7, <1>8, <1>13, TilesFacts
  <2>2. CASE x + Sz(g, x) = bp
    <3>0. Sz(g, x) \in Nat /\ 8 <= Sz(g, x) /\ \A y \in S : y <= x \/ x + Sz(g, x) <= y
      BY BlockFacts
    <3>1. x < bp /\ \A y \in S : y <= x \/ bp <= y
      BY <2>1, <2>2, <3>0
    <3>2. a = 1
      <4>1. SUFFICES ASSUME a # 1 PROVE FALSE
        OBVIOUS
      <4>2. f = p /\ p + Sz(g, p) = bp /\ Sz(g, p) \in Nat /\ 8 <= Sz(g, p)
        BY <1>3, <4>1, BlockFacts DEF Begins
      <4> QED
        BY <1>2, <1>7, <1>8, <1>13, <2>1, <3>1, <4>2
    <3> QED
      BY <1>4, <2>2, <3>2
  <2>3. CASE x + Sz(g, x) # bp
    BY <2>1, <2>3 DEF MergedBut
  <2> QED
    BY <2>2, <2>3
<1> QED
  BY <1>7, <1>9, <1>10, <1>11, <1>12, <1>13 DEF Stretch

\* coalesce merges the free block at bp with its neighbours; if the next block is in use,
\* the address that it returns is that of the free block in which bp's words now are.
LEMMA CoalesceIs ==
    ASSUME NEW g, NEW S, Tiles(g, S), NEW bp \in S \ {g.brk}, Al(g, bp) = 0,
           MergedBut(g, S, bp), NEW r, r = Implicit!coalesce(g, bp)
    PROVE  \E T : /\ Tidy(g, S, r.h, T) /\ r.h.brk = g.brk
                  /\ Al(g, bp + Sz(g, bp)) = 1
                       => r.bp \in T \ {g.brk} /\ Al(r.h, r.bp) = 0 /\ Sz(g, bp) <= Sz(r.h, r.bp)
<1>1. PICK prev, a, next : /\ prev = Pred(g, bp) /\ a = GET_ALLOC(g, FTRP(g, prev))
                           /\ next = bp + Sz(g, bp)
  OBVIOUS
<1>2. LeftOf(g, S, bp, prev, a)
  <2>1. ASSUME NEW x \in S \ {g.brk}, x + Sz(g, x) = bp
        PROVE  prev = x /\ a = Al(g, x)
    BY <1>1, <2>1, PredIs, FooterIs
  <2>2. CASE bp = Lo(g)
    <3>1. a = 1
      BY <1>1, <2>2, PrologueIs
    <3> QED
      BY <2>1, <3>1 DEF LeftOf
  <2>3. CASE bp # Lo(g)
    <3>1. PICK p \in S \ {g.brk} : p + Sz(g, p) = bp
      BY <2>3, Before
    <3> QED
      BY <2>1, <3>1, BlockFacts DEF LeftOf
  <2> QED
    BY <2>2, <2>3
<1>3. PICK f, n : f = Begins(bp, prev, a) /\ n = Spans(g, bp, prev, a)
  OBVIOUS
<1>4. Stretch(g, S, f, n) /\ Sz(g, bp) <= n
  BY <1>1, <1>2, <1>3, StretchIs
<1>5. r = [h  |-> IF a = 1 /\ Al(g, next) = 1 THEN g ELSE Mark(g, f, n, 0),
           bp |-> IF Al(g, next) = 1 THEN f ELSE bp]
  <2>1. Succ(g, bp) = next /\ next \in S
    BY <1>1, FooterIs, BlockFacts
  <2>2. /\ GET_ALLOC(g, HDRP(next)) = Al(g, next) /\ GET_SIZE(g, HDRP(bp)) = Sz(g, bp)
        /\ GET_SIZE(g, HDRP(prev)) = Sz(g, prev)
    BY DEF Al, Sz
  <2>3. Al(g, next) # 1 => GET_SIZE(g, FTRP(g, next)) = Sz(g, next)
    BY <2>1, EpilogueUsed, FooterIs
  <2> QED
    BY <1>1, <1>3, <2>1, <2>2, <2>3, ImplicitMacros, ImplicitMark
    DEF Implicit!coalesce, Begins, Spans
<1>6. CASE a = 1 /\ Al(g, next) = 1
  <2>1. r.h = g /\ r.bp = bp
    BY <1>3, <1>5, <1>6 DEF Begins
  <2>2. Merged(g, S)
    BY <1>1, <1>2, <1>6 DEF MergedBut, Merged, LeftOf
  <2>3. Same(g, S, g, S)
    BY DEF Same, KeptBlock
  <2>4. Sz(g, bp) <= Sz(g, bp)
    BY BlockFacts
  <2> QED
    BY <2>1, <2>2, <2>3, <2>4 DEF Tidy
<1>7. CASE ~(a = 1 /\ Al(g, next) = 1)
  <2>1. PICK T : T = {x \in S : x <= f \/ f + n <= x}
    OBVIOUS
  <2>2. r.h = Mark(g, f, n, 0) /\ (Al(g, next) = 1 => r.bp = f)
    BY <1>5, <1>7
  <2>3. Tidy(g, S, r.h, T) /\ r.h.brk = g.brk /\ f \in T \ {r.h.brk} /\ Sz(r.h, f) = n /\ Al(r.h, f) = 0
    BY <1>4, <2>1, <2>2, MergeFree
  <2> QED
    BY <1>1, <1>4, <2>2, <2>3
<1> QED
  BY <1>6, <1>7

\* k is g with a free block of that size behind the others.
Grown(g, S, size, k, T) ==
    /\ T = S \cup {g.brk + size} /\ Tiles(k, T) /\ k.brk = g.brk + size
    /\ Sz(k, g.brk) = size /\ Al(k, g.brk) = 0 /\ Al(k, k.brk) = 1
    /\ \A x \in S \ {g.brk} : Sz(k, x) = Sz(g, x) /\ Al(k, x) = Al(g, x)
    /\ Outside(g, k, g.brk, g.brk + size + 4)

LEMMA GrowIs ==
    ASSUME NEW g, NEW S, Tiles(g, S), NEW size \in Nat, size % 8 = 0, 8 <= size, CanGrow(g, size),
           NEW m, m = Mark(mem_sbrk(g, size), g.brk, size, 0),
           NEW k, k = PUT(m, HDRP(Succ(m, g.brk)), PACK(0, 1)),
           NEW T, T = S \cup {g.brk + size}
    PROVE  Grown(g, S, size, k, T)
<1>1. /\ Tiles(k, T) /\ k.brk = g.brk + size
      /\ Sz(k, g.brk) = size /\ Al(k, g.brk) = 0 /\ Al(k, k.brk) = 1
      /\ \A x \in S \ {g.brk} : Sz(k, x) = Sz(g, x) /\ Al(k, x) = Al(g, x)
      /\ Outside(g, k, g.brk, g.brk + size + 4)
  BY ExtendTiles
<1> QED
  BY <1>1 DEF Grown

\* Only that block may follow a free one.
LEMMA GrownIs ==
    ASSUME NEW g, NEW S, Tiles(g, S), Merged(g, S), NEW size \in Nat, 0 < size,
           NEW k, NEW T, Grown(g, S, size, k, T)
    PROVE  MergedBut(k, T, g.brk) /\ Same(g, S, k, T) /\ T \ {k.brk} = S /\ g.brk \in T \ {k.brk}
<1> USE DEF Grown
<1>1. g.brk \in S /\ g.brk \in Nat /\ \A x \in S : x \in Nat /\ x <= g.brk
  BY TilesFacts DEF Tiles
<1>2. T \ {k.brk} = S
  BY <1>1
<1>3. MergedBut(k, T, g.brk)
  <2>1. ASSUME NEW x \in S \ {g.brk}, x + Sz(g, x) # g.brk
        PROVE  Al(k, x) = 1 \/ Al(k, x + Sz(k, x)) = 1
    <3>1. x + Sz(g, x) \in S \ {g.brk}
      BY <2>1, BlockFacts
    <3> QED
      BY <3>1 DEF Merged
  <2>2. \A x \in S \ {g.brk} : Sz(k, x) = Sz(g, x)
    OBVIOUS
  <2> QED
    BY <1>2, <2>1, <2>2 DEF MergedBut
<1>4. Same(g, S, k, T)
  <2>1. Used(k, T) = Used(g, S)
    BY <1>1, <1>2 DEF Used
  <2>2. ASSUME NEW x \in Used(g, S) PROVE KeptBlock(g, k, T, x)
    <3>1. x \in S \ {g.brk}
      BY DEF Used
    <3>2. x + Sz(g, x) <= g.brk /\ x \in Nat /\ Sz(g, x) \in Nat
      BY <3>1, BlockFacts
    <3>3. ASSUME NEW w \in Body(g, x) PROVE k.mem[w] = g.mem[w]
      <4>1. w \in Words /\ w \in Nat /\ w < x + Sz(g, x) - 8
        BY WordIs DEF Body
      <4>2. w < g.brk - 4
        BY <1>1, <3>2, <4>1
      <4> QED
        BY <4>1, <4>2 DEF Outside
    <3> QED
      BY <2>1, <3>1, <3>3 DEF KeptBlock
  <2> QED
    BY <2>1, <2>2 DEF Same
<1> QED
  BY <1>1, <1>2, <1>3, <1>4

\* The heap grows by a block, which is merged with a free one that ended the heap.
LEMMA ExtendIs ==
    ASSUME NEW g, NEW S, Tiles(g, S), Merged(g, S), NEW size \in Nat, size % 8 = 0, 8 <= size,
           CanGrow(g, size), NEW r, r = Implicit!extend_heap(g, size)
    PROVE  \E T : /\ Tidy(g, S, r.h, T) /\ r.h.brk = g.brk + size
                  /\ r.bp \in T \ {r.h.brk} /\ Al(r.h, r.bp) = 0 /\ size <= Sz(r.h, r.bp)
<1>0. PICK m, k, T : /\ m = Mark(mem_sbrk(g, size), g.brk, size, 0)
                     /\ k = PUT(m, HDRP(Succ(m, g.brk)), PACK(0, 1))
                     /\ T = S \cup {g.brk + size}
  OBVIOUS
<1>1. r = Implicit!coalesce(k, g.brk)
  BY <1>0, ImplicitMacros, ImplicitMark
  DEF Implicit!extend_heap, Implicit!mem_sbrk, mem_sbrk, Implicit!PACK, PACK
<1>2. Grown(g, S, size, k, T)
  BY <1>0, GrowIs
<1>3. /\ Tiles(k, T) /\ k.brk = g.brk + size /\ Sz(k, g.brk) = size /\ Al(k, g.brk) = 0
      /\ Al(k, k.brk) = 1
  BY <1>2 DEF Grown
<1>4. MergedBut(k, T, g.brk) /\ Same(g, S, k, T) /\ g.brk \in T \ {k.brk}
  BY <1>2, GrownIs
<1>5. \E U : /\ Tidy(k, T, r.h, U) /\ r.h.brk = k.brk
             /\ r.bp \in U \ {k.brk} /\ Al(r.h, r.bp) = 0 /\ size <= Sz(r.h, r.bp)
  BY <1>1, <1>3, <1>4, CoalesceIs
<1> QED
  BY <1>3, <1>4, <1>5, SameTransitive DEF Tidy

\* The blocks in use in k are those in use in g and the one at bp.
Added(g, S, k, T, bp) ==
    /\ bp \notin Used(g, S) /\ Used(k, T) = Used(g, S) \cup {bp}
    /\ \A x \in Used(g, S) : KeptBlock(g, k, T, x)

\* The blocks in use in k are those in use in g but the one at bp.
Removed(g, S, k, T, bp) ==
    /\ bp \in Used(g, S) /\ Used(k, T) = Used(g, S) \ {bp}
    /\ \A x \in Used(g, S) \ {bp} : KeptBlock(g, k, T, x)

\* k is g with the block at bp marked as in use, or, if it has more than need bytes, as two
\* blocks, the second of them free.
Divides(g, bp, need, k) ==
    k = IF Sz(g, bp) - need > 0
        THEN Mark(Mark(g, bp, need, 1), bp + need, Sz(g, bp) - need, 0)
        ELSE Mark(g, bp, need, 1)

\* What is known of it then.
Divided(g, S, bp, need, k, T) ==
    /\ Tiles(k, T) /\ Merged(k, T) /\ Added(g, S, k, T, bp) /\ k.brk = g.brk /\ Sz(k, bp) = need
    /\ IF Sz(g, bp) = need THEN T = S
       ELSE /\ T = S \cup {bp + need} /\ bp + need \notin S
            /\ Sz(k, bp + need) = Sz(g, bp) - need /\ Al(k, bp + need) = 0
    /\ \A x \in S \ {bp, g.brk} : Sz(k, x) = Sz(g, x) /\ Al(k, x) = Al(g, x)
    /\ Outside(g, k, bp, bp + Sz(g, bp))

LEMMA DividedIs ==
    ASSUME NEW g, NEW S, Tiles(g, S), Merged(g, S), NEW bp \in S \ {g.brk}, Al(g, bp) = 0,
           NEW need \in Nat, need % 8 = 0, 8 <= need, need <= Sz(g, bp),
           NEW k, Divides(g, bp, need, k)
    PROVE  \E T : Divided(g, S, bp, need, k, T)
<1>1. PICK size \in Nat : size = Sz(g, bp)
  BY BlockFacts
<1>2. PICK rest \in Nat : rest = size - need /\ size = need + rest
  BY <1>1
<1>3. PICK m : m = Mark(g, bp, need, 1)
  OBVIOUS
<1>4. /\ bp \in Nat /\ bp + size \in S /\ \A y \in S : y <= bp \/ bp + size <= y
      /\ g.brk \in Nat /\ bp + size <= g.brk /\ S \subseteq Nat /\ 0 < size
  BY <1>1, BlockFacts, TilesFacts
<1>5. Al(g, bp + size) = 1
  BY <1>1 DEF Merged
<1>6. bp \notin Used(g, S)
  BY DEF Used
<1>7. \A x \in Used(g, S) : \A w \in Body(g, x) : w < bp - 4 \/ w > (bp + size) - 8
  <2>1. SUFFICES ASSUME NEW x \in Used(g, S), NEW w \in Body(g, x)
                 PROVE  w < bp - 4 \/ w > (bp + size) - 8
    OBVIOUS
  <2>2. x \in S \ {g.brk} /\ x # bp /\ w \in Nat /\ x <= w /\ w < x + Sz(g, x) - 8
    BY <1>6, WordIs DEF Used, Body
  <2>3. /\ x \in Nat /\ Sz(g, x) \in Nat /\ (bp <= x \/ x + Sz(g, x) <= bp)
        /\ x <= bp \/ bp + size <= x
    BY <1>4, <2>2, BlockFacts
  <2> QED
    BY <1>4, <2>2, <2>3
<1>8. ASSUME NEW T, Tiles(k, T), k.brk = g.brk, S \subseteq T, \A x \in T \ S : Al(k, x) = 0,
             Al(k, bp) = 1, Outside(g, k, bp, bp + size),
             \A x \in S \ {bp, g.brk} : Sz(k, x) = Sz(g, x) /\ Al(k, x) = Al(g, x)
      PROVE  Added(g, S, k, T, bp)
  <2>1. Used(k, T) = Used(g, S) \cup {bp}
    BY <1>8 DEF Used
  <2>2. ASSUME NEW x \in Used(g, S) PROVE KeptBlock(g, k, T, x)
    <3>1. x \in S \ {bp, g.brk} /\ x \in Used(k, T)
      BY <1>6, <2>1 DEF Used
    <3>2. \A w \in Body(g, x) : k.mem[w] = g.mem[w]
      BY <1>7, <1>8 DEF Outside, Body
    <3> QED
      BY <1>8, <3>1, <3>2 DEF KeptBlock
  <2> QED
    BY <1>6, <2>1, <2>2 DEF Added
<1>9. CASE rest = 0
  <2>1. k = m
    <3>1. Sz(g, bp) - need = rest /\ ~(rest > 0)
      BY <1>1, <1>2, <1>9
    <3> QED
      BY <1>3, <3>1 DEF Divides
  <2>2. PICK T : T = {x \in S : x <= bp \/ bp + size <= x}
    OBVIOUS
  <2>3. PICK a \in {0, 1} : a = 1
    OBVIOUS
  <2>4. k = Mark(g, bp, size, a)
    BY <1>2, <1>3, <1>9, <2>1, <2>3
  <2>5. /\ Tiles(k, T) /\ k.brk = g.brk
        /\ Sz(k, bp) = size /\ Al(k, bp) = a
        /\ \A x \in T \ {bp, g.brk} : Sz(k, x) = Sz(g, x) /\ Al(k, x) = Al(g, x)
        /\ Outside(g, k, bp, bp + size)
    <3>1. bp \in S /\ 0 < size /\ bp + size \in S
      BY <1>4
    <3> QED
      BY <2>2, <2>4, <3>1, MergeTiles
  <2>6. T = S
    BY <1>4, <2>2
  <2>7. ASSUME NEW x \in S \ {g.brk} PROVE Al(k, x) = 1 \/ Al(k, x + Sz(k, x)) = 1
    <3>1. CASE x = bp
      BY <2>3, <2>5, <3>1
    <3>2. CASE x # bp
      <4>1. PICK y \in S : y = x + Sz(g, x)
        BY BlockFacts
      <4>2. Sz(k, x) = Sz(g, x) /\ Al(k, x) = Al(g, x)
        BY <2>5, <2>6, <3>2
      <4>3. Al(g, y) = 1 => Al(k, y) = 1
        BY <2>3, <2>5, <2>6, EpilogueUsed
      <4> QED
        BY <4>1, <4>2, <4>3 DEF Merged
    <3> QED
      BY <3>1, <3>2
  <2>8. Added(g, S, k, T, bp)
    BY <1>8, <2>3, <2>5, <2>6
  <2>9. Sz(k, bp) = need
    BY <1>2, <1>9, <2>5
  <2>10. Sz(g, bp) = need
    BY <1>1, <1>2, <1>9
  <2>11. Merged(k, T)
    BY <2>5, <2>6, <2>7 DEF Merged
  <2> QED
    BY <1>1, <2>5, <2>6, <2>8, <2>9, <2>10, <2>11 DEF Divided
<1>10. CASE rest > 0
  <2>1. PICK T : T = S \cup {bp + need}
    OBVIOUS
  <2>3. k = Mark(m, bp + need, rest, 0)
    <3>1. Sz(g, bp) - need = rest
      BY <1>1, <1>2
    <3> QED
      BY <1>3, <1>10, <3>1 DEF Divides
  <2>4. /\ Tiles(k, T) /\ k.brk = g.brk /\ bp + need \notin S
        /\ Sz(k, bp) = need /\ Al(k, bp) = 1 /\ Sz(k, bp + need) = rest /\ Al(k, bp + need) = 0
        /\ \A x \in S \ {bp, g.brk} : Sz(k, x) = Sz(g, x) /\ Al(k, x) = Al(g, x)
        /\ Outside(g, k, bp, bp + need + rest)
    <3>1. 0 < rest /\ Sz(g, bp) = need + rest
      BY <1>1, <1>2, <1>10
    <3>2. Splits(g, S, bp, need, rest, m, k, T)
      BY <1>3, <2>1, <2>3 DEF Splits
    <3>3. Halves(g, S, bp, need, rest, k, T)
      BY <1>2, <3>1, <3>2, SplitTiles
    <3> QED
      BY <3>3 DEF Halves
  <2>5. Outside(g, k, bp, bp + size) /\ bp + need + rest = bp + size
    BY <1>2, <1>4, <2>4
  <2>6. Added(g, S, k, T, bp)
    BY <1>8, <2>1, <2>4, <2>5
  <2>7. \A y \in S : Al(g, y) = 1 => Al(k, y) = 1
    BY <2>4, EpilogueUsed
  <2>8. ASSUME NEW x \in T \ {k.brk} PROVE Al(k, x) = 1 \/ Al(k, x + Sz(k, x)) = 1
    <3>1. CASE x = bp
      BY <2>4, <3>1
    <3>2. CASE x = bp + need
      <4>1. x + Sz(k, x) = bp + size
        BY <2>4, <2>5, <3>2
      <4> QED
        BY <1>4, <1>5, <2>7, <4>1
    <3>3. CASE x \in S \ {bp, g.brk}
      <4>1. PICK y \in S : y = x + Sz(g, x)
        BY <3>3, BlockFacts
      <4>2. Sz(k, x) = Sz(g, x) /\ Al(k, x) = Al(g, x)
        BY <2>4, <3>3
      <4> QED
        BY <2>7, <3>3, <4>1, <4>2 DEF Merged
    <3> QED
      BY <2>1, <2>4, <3>1, <3>2, <3>3
  <2>9. Sz(g, bp) # need /\ rest = Sz(g, bp) - need
    BY <1>1, <1>2, <1>10
  <2>10. Merged(k, T)
    BY <2>4, <2>8 DEF Merged
  <2> QED
    BY <1>1, <2>1, <2>4, <2>5, <2>6, <2>9, <2>10 DEF Divided
<1> QED
  BY <1>9, <1>10

\* A free block that is large enough is taken; what is left of it is a free block.
LEMMA PlaceIs ==
    ASSUME NEW g, NEW S, Tiles(g, S), Merged(g, S), NEW bp \in S \ {g.brk}, Al(g, bp) = 0,
           NEW need \in Nat, need % 8 = 0, 8 <= need, need <= Sz(g, bp),
           NEW k, k = Implicit!place(g, bp, need)
    PROVE  \E T : /\ Tiles(k, T) /\ Merged(k, T) /\ Added(g, S, k, T, bp)
                  /\ k.brk = g.brk /\ Sz(k, bp) = need
<1>1. PICK m : m = Mark(g, bp, need, 1)
  OBVIOUS
<1>2. Succ(m, bp) = bp + need
  <2>1. Room(bp, need)
    <3>1. bp \in Ptrs /\ bp \in Nat /\ Sz(g, bp) \in Nat /\ bp + Sz(g, bp) <= MAX_HEAP
      BY BlockFacts, TilesFacts DEF Tiles
    <3> QED
      BY <3>1, HeapAssumption DEF Room
  <2>2. Marks(g, m, bp, need, 1)
    BY <1>1, <2>1, MarkIs DEF Tiles
  <2>3. Sz(m, bp) = need
    BY <2>2, Packed DEF Marks, Marked, Sz, GET_SIZE, GET, HDRP, WSIZE
  <2> QED
    BY <2>3 DEF Succ, Sz
<1>3. Divides(g, bp, need, k)
  BY <1>1, <1>2, ImplicitMacros, ImplicitMark DEF Implicit!place, Divides, Sz
<1> QED
  BY <1>3, DividedIs DEF Divided

\* m is g with the block at bp, which was in use, marked free.
Unmarked(g, S, bp, m) ==
    /\ Tiles(m, S) /\ m.brk = g.brk /\ MergedBut(m, S, bp)
    /\ bp \in S \ {m.brk} /\ Sz(m, bp) = Sz(g, bp) /\ Al(m, bp) = 0
    /\ \A x \in S \ {bp, g.brk} : Sz(m, x) = Sz(g, x) /\ Al(m, x) = Al(g, x)
    /\ Outside(g, m, bp, bp + Sz(g, bp))

LEMMA UnmarkedIs ==
    ASSUME NEW g, NEW S, Tiles(g, S), Merged(g, S), NEW bp \in Used(g, S),
           NEW m, m = Mark(g, bp, Sz(g, bp), 0)
    PROVE  Unmarked(g, S, bp, m)
<1>1. bp \in S \ {g.brk} /\ Al(g, bp) = 1
  BY DEF Used
<1>2. PICK size \in Nat : size = Sz(g, bp) /\ 0 < size
  BY <1>1, BlockFacts
<1>3. PICK T, a : T = S /\ a = 0 /\ a \in {0, 1} /\ m = Mark(g, bp, size, a)
  BY <1>2
<1>4. /\ bp \in Nat /\ bp + size \in S /\ \A y \in S : y \in Nat /\ (y <= bp \/ bp + size <= y)
  BY <1>1, <1>2, BlockFacts, TilesFacts
<1>5. /\ Tiles(m, S) /\ m.brk = g.brk
      /\ Sz(m, bp) = size /\ Al(m, bp) = a
      /\ \A x \in S \ {bp, g.brk} : Sz(m, x) = Sz(g, x) /\ Al(m, x) = Al(g, x)
      /\ Outside(g, m, bp, bp + size)
  <2>1. T = {x \in S : x <= bp \/ bp + size <= x}
    BY <1>3, <1>4
  <2>2. bp \in S /\ 0 < size /\ bp + size \in S
    BY <1>1, <1>2, <1>4
  <2>3. /\ Tiles(m, T) /\ m.brk = g.brk
        /\ Sz(m, bp) = size /\ Al(m, bp) = a
        /\ \A x \in T \ {bp, g.brk} : Sz(m, x) = Sz(g, x) /\ Al(m, x) = Al(g, x)
        /\ Outside(g, m, bp, bp + size)
    <3>1. a \in {0, 1} /\ m = Mark(g, bp, size, a)
      BY <1>3
    <3> QED
      BY <2>1, <2>2, <3>1, MergeTiles
  <2> QED
    BY <1>3, <2>3
<1>6. MergedBut(m, S, bp)
  <2>1. ASSUME NEW x \in S \ {m.brk}, x # bp, x + Sz(m, x) # bp
        PROVE  Al(m, x) = 1 \/ Al(m, x + Sz(m, x)) = 1
    <3>1. x \in S \ {bp, g.brk} /\ Sz(m, x) = Sz(g, x) /\ Al(m, x) = Al(g, x)
      BY <1>5, <2>1
    <3>2. PICK y \in S : y = x + Sz(g, x)
      BY <3>1, BlockFacts
    <3>3. y # bp
      BY <2>1, <3>1, <3>2
    <3>4. Al(g, y) = 1 => Al(m, y) = 1
      BY <1>5, <3>3, EpilogueUsed
    <3> QED
      BY <3>1, <3>2, <3>4 DEF Merged
  <2> QED
    BY <2>1 DEF MergedBut
<1> QED
  BY <1>1, <1>2, <1>3, <1>5, <1>6 DEF Unmarked

\* If the blocks in use stay what they are from then on, only the one at bp is gone.
LEMMA RemovedIs ==
    ASSUME NEW g, NEW S, Tiles(g, S), NEW bp \in Used(g, S), NEW m, Unmarked(g, S, bp, m),
           NEW k, NEW U, Same(m, S, k, U)
    PROVE  Removed(g, S, k, U, bp)
<1> USE DEF Unmarked
<1>1. bp \in S \ {g.brk} /\ Al(g, bp) = 1
  BY DEF Used
<1>2. PICK size \in Nat : size = Sz(g, bp) /\ 0 < size
  BY <1>1, BlockFacts
<1>3. /\ bp \in Nat /\ bp + size \in S /\ \A y \in S : y \in Nat /\ (y <= bp \/ bp + size <= y)
  BY <1>1, <1>2, BlockFacts, TilesFacts
<1>4. Used(m, S) = Used(g, S) \ {bp}
  BY <1>1 DEF Used
<1>5. ASSUME NEW x \in Used(g, S) \ {bp} PROVE KeptBlock(g, k, U, x)
  <2>1. x \in S \ {bp, g.brk} /\ x \in Nat /\ Sz(g, x) \in Nat /\ x \in Used(m, S)
    BY <1>4, BlockFacts DEF Used
  <2>2. (x <= bp \/ bp + size <= x) /\ (bp <= x \/ x + Sz(g, x) <= bp)
    BY <1>1, <1>3, <2>1, BlockFacts
  <2>3. ASSUME NEW w \in Body(g, x) PROVE m.mem[w] = g.mem[w]
    <3>1. w \in Words /\ w \in Nat /\ x <= w /\ w < x + Sz(g, x) - 8
      BY WordIs DEF Body
    <3>2. w < bp - 4 \/ w > (bp + size) - 8
      BY <1>3, <2>1, <2>2, <3>1
    <3> QED
      BY <1>2, <3>1, <3>2 DEF Outside
  <2>4. KeptBlock(m, k, U, x)
    BY <2>1 DEF Same
  <2>5. Sz(m, x) = Sz(g, x)
    BY <2>1
  <2>6. Body(m, x) = Body(g, x)
    BY <2>5 DEF Body
  <2> QED
    BY <2>3, <2>4, <2>5, <2>6 DEF KeptBlock
<1> QED
  BY <1>4, <1>5 DEF Removed, Same

\* A block in use is marked free and merged with its neighbours.
LEMMA FreeIs ==
    ASSUME NEW g, NEW S, Tiles(g, S), Merged(g, S), NEW bp \in Used(g, S),
           NEW k, k = Implicit!mm_free(g, bp)
    PROVE  \E T : Tiles(k, T) /\ Merged(k, T) /\ Removed(g, S, k, T, bp) /\ k.brk = g.brk
<1>1. PICK m, r : m = Mark(g, bp, Sz(g, bp), 0) /\ r = Implicit!coalesce(m, bp)
  OBVIOUS
<1>2. k = r.h
  BY <1>1, ImplicitMacros, ImplicitMark DEF Implicit!mm_free, Implicit!free, Sz
<1>3. Unmarked(g, S, bp, m)
  BY <1>1, UnmarkedIs
<1>4. PICK U : Tidy(m, S, k, U) /\ k.brk = m.brk
  BY <1>1, <1>2, <1>3, CoalesceIs DEF Unmarked
<1>5. Removed(g, S, k, U, bp)
  BY <1>3, <1>4, RemovedIs DEF Tidy
<1> QED
  BY <1>3, <1>4, <1>5 DEF Tidy, Unmarked

-----------------------------------------------------------------------------
(* The search for a free block. *)

\* find_fit is the end of a walk that the addresses of the heap bound.
LEMMA FindFitWalk ==
    ASSUME NEW g, NEW need
    PROVE  \E f : /\ \A bp \in Ptrs :
                        f[bp] = IF Al(g, bp) = 0 /\ Sz(g, bp) >= need THEN bp
                                ELSE IF Sz(g, bp) = 0 \/ Succ(g, bp) \notin Ptrs THEN NULL
                                ELSE f[Succ(g, bp)]
                  /\ Implicit!find_fit(g, need) = f[Succ(g, 8)]
<1> DEFINE Stop(bp) == Al(g, bp) = 0 /\ Sz(g, bp) >= need
           End(bp) == Sz(g, bp) = 0 \/ Succ(g, bp) \notin Ptrs
           V == Ptrs \cup {NULL}
           stop == {bp \in Ptrs : Stop(bp) \/ End(bp)}
           val == [bp \in Ptrs |-> IF Stop(bp) THEN bp ELSE NULL]
           nx == [bp \in Ptrs |-> IF End(bp) THEN bp ELSE Succ(g, bp)]
<1>1. PICK f \in [Ptrs -> V] : \A x \in Ptrs : f[x] = IF x \in stop THEN val[x] ELSE f[nx[x]]
  <2>1. TailOver(Ptrs, V, stop, val, nx)
    BY DEF TailOver
  <2> HIDE DEF nx, V, val, stop
  <2> QED
    BY <2>1, TailDefined
<1>2. \A x \in Ptrs : f[x] = IF Stop(x) THEN x ELSE IF End(x) THEN NULL ELSE f[Succ(g, x)]
  <2>1. ASSUME NEW x \in Ptrs
        PROVE  f[x] = IF Stop(x) THEN x ELSE IF End(x) THEN NULL ELSE f[Succ(g, x)]
    <3> HIDE DEF Stop, End
    <3> QED
      BY <1>1
  <2> QED
    BY <2>1
<1> HIDE DEF nx, V, val, stop
<1> DEFINE G(from) ==
        [bp \in Implicit!Ptrs |->
           LET size == Implicit!GET_SIZE(g, Implicit!HDRP(bp))
           IN  IF Implicit!GET_ALLOC(g, Implicit!HDRP(bp)) = 0 /\ size >= need THEN bp
               ELSE IF size = 0 \/ Implicit!Succ(g, bp) \notin Implicit!Ptrs
               THEN Implicit!NULL ELSE from[Implicit!Succ(g, bp)]]
           F == CHOOSE from : from = G(from)
<1>3. F = [bp \in Ptrs |-> IF Stop(bp) THEN bp ELSE IF End(bp) THEN NULL ELSE F[Succ(g, bp)]]
  <2>1. f = [bp \in Ptrs |-> IF Stop(bp) THEN bp ELSE IF End(bp) THEN NULL ELSE f[Succ(g, bp)]]
    BY <1>2
  <2>2. Implicit!Ptrs = Ptrs /\ Implicit!NULL = NULL
    BY DEF Implicit!Ptrs, Ptrs, Implicit!NULL, NULL, Implicit!DSIZE, DSIZE
  <2>3. \A from : G(from) = [bp \in Ptrs |-> IF Stop(bp) THEN bp ELSE IF End(bp) THEN NULL
                                            ELSE from[Succ(g, bp)]]
    BY <2>2, ImplicitMacros DEF Al, Sz
  <2> HIDE DEF Stop, End
  <2>4. f = G(f)
    BY <2>1, <2>3
  <2>5. F = G(F)
    <3> HIDE DEF G
    <3> QED
      BY <2>4
  <2> QED
    BY <2>3, <2>5
<1>4. Implicit!find_fit(g, need) = F[Implicit!Succ(g, Implicit!heap_listp)]
  BY DEF Implicit!find_fit
<1>5. Implicit!Succ(g, Implicit!heap_listp) = Succ(g, 8)
  BY ImplicitMacros DEF Implicit!heap_listp, Implicit!WSIZE
<1>6. \A bp \in Ptrs : F[bp] = IF Stop(bp) THEN bp ELSE IF End(bp) THEN NULL ELSE F[Succ(g, bp)]
  <2> HIDE DEF Stop, End, F
  <2> QED
    BY <1>3
<1> HIDE DEF F
<1> QED
  BY <1>4, <1>5, <1>6

\* The first free block that is large enough is found, and none only if there is none.
LEMMA FindFitIs ==
    ASSUME NEW g, NEW S, Tiles(g, S), NEW need \in Nat, NEW p, p = Implicit!find_fit(g, need)
    PROVE  \/ p = NULL /\ \A x \in S \ {g.brk} : Al(g, x) = 1 \/ Sz(g, x) < need
           \/ p # NULL /\ p \in S \ {g.brk} /\ Al(g, p) = 0 /\ need <= Sz(g, p)
<1> DEFINE Stop(bp) == Al(g, bp) = 0 /\ Sz(g, bp) >= need
           Found(x, v) == \/ v = NULL /\ \A y \in S \ {g.brk} : x <= y => ~Stop(y)
                          \/ v # NULL /\ v \in S \ {g.brk} /\ Stop(v)
<1>1. PICK f : /\ \A bp \in Ptrs :
                     f[bp] = IF Stop(bp) THEN bp
                             ELSE IF Sz(g, bp) = 0 \/ Succ(g, bp) \notin Ptrs THEN NULL
                             ELSE f[Succ(g, bp)]
               /\ p = f[Succ(g, 8)]
  BY FindFitWalk
<1>2. S \subseteq Ptrs /\ g.brk \in S /\ g.brk \in Nat /\ \A x \in S : x \in Nat /\ 16 <= x /\ x <= g.brk
  BY TilesFacts DEF Tiles
<1> DEFINE Bad == {x \in S : ~Found(x, f[x])}
<1>3. Bad = {}
  <2>1. SUFFICES ASSUME Bad # {} PROVE FALSE
    OBVIOUS
  <2>2. PICK x \in Bad : \A y \in Bad : y <= x
    <3>1. Bad \in SUBSET Nat /\ \A y \in Bad : y <= g.brk
      BY <1>2
    <3> HIDE DEF Bad
    <3> QED
      BY <1>2, <2>1, <3>1, GreatestNatural
  <2>3. x \in S /\ x \in Ptrs /\ ~Found(x, f[x])
    BY <1>2
  <2>4. x # g.brk
    <3>1. SUFFICES ASSUME x = g.brk PROVE FALSE
      OBVIOUS
    <3>2. Sz(g, x) = 0 /\ Al(g, x) = 1
      BY <3>1, EpilogueUsed
    <3>3. f[x] = NULL
      BY <1>1, <2>3, <3>2
    <3> QED
      BY <1>2, <2>3, <3>1, <3>3
  <2>5. PICK n \in S : n = x + Sz(g, x) /\ x < n /\ n = Succ(g, x) /\ \A y \in S : y <= x \/ n <= y
    BY <2>3, <2>4, BlockFacts, FooterIs
  <2>6. Sz(g, x) # 0 /\ n \in Ptrs /\ n \notin Bad
    <3>1. x \in Nat /\ n \in Nat /\ ~(n <= x)
      BY <1>2, <2>3, <2>5
    <3>2. n \notin Bad
      <4> HIDE DEF Bad
      <4> QED
        BY <2>2, <3>1
    <3> QED
      BY <1>2, <2>5, <3>1, <3>2
  <2>7. Found(n, f[n])
    BY <2>6
  <2>8. CASE Stop(x)
    <3>1. f[x] = x /\ x # NULL
      BY <1>1, <1>2, <2>3, <2>8 DEF NULL
    <3> QED
      BY <2>3, <2>4, <2>8, <3>1
  <2>9. CASE ~Stop(x)
    <3>1. f[x] = f[n]
      BY <1>1, <2>3, <2>5, <2>6, <2>9
    <3>2. \A y \in S : x <= y => y = x \/ n <= y
      BY <1>2, <2>3, <2>5
    <3> HIDE DEF Stop
    <3> QED
      BY <2>3, <2>7, <2>9, <3>1, <3>2
  <2> QED
    BY <2>8, <2>9
<1>4. Found(Lo(g), p)
  BY <1>1, <1>3, PrologueIs DEF Tiles
<1>5. ASSUME NEW x \in S \ {g.brk} PROVE Al(g, x) = 1 \/ Sz(g, x) < need \/ Stop(x)
  BY BlockFacts
<1>6. \A x \in S : Lo(g) <= x
  BY TilesFacts
<1> QED
  BY <1>2, <1>4, <1>5, <1>6

-----------------------------------------------------------------------------
(* mm_init, mm_malloc and mm_realloc. *)

\* A block for a payload of size bytes has room for them and two words.
LEMMA AsizeIs ==
    ASSUME NEW size \in Nat
    PROVE  asize(size) \in Nat /\ asize(size) % 8 = 0 /\ 8 <= asize(size) /\ size + 8 <= asize(size)
<1>1. CASE size <= 8
  BY <1>1 DEF asize, DSIZE
<1>2. CASE size > 8
  <2>1. PICK q \in Nat : q = (size + 15) \div 8
    OBVIOUS
  <2>2. size + 15 < 8 * q + 8
    BY <2>1
  <2>3. asize(size) = 8 * q
    BY <1>2, <2>1 DEF asize, DSIZE
  <2> QED
    BY <1>2, <2>2, <2>3
<1> QED
  BY <1>1, <1>2

LEMMA SameAdded ==
    ASSUME NEW g, NEW S, NEW k, NEW T, NEW l, NEW U, NEW bp, Same(g, S, k, T), Added(k, T, l, U, bp)
    PROVE  Added(g, S, l, U, bp)
<1>1. ASSUME NEW x \in Used(g, S) PROVE KeptBlock(g, l, U, x)
  <2>1. KeptBlock(g, k, T, x) /\ KeptBlock(k, l, U, x)
    BY DEF Same, Added
  <2>2. Sz(k, x) = Sz(g, x)
    BY <2>1 DEF KeptBlock
  <2>3. Body(k, x) = Body(g, x)
    BY <2>2 DEF Body
  <2> QED
    BY <2>1, <2>2, <2>3 DEF KeptBlock
<1> QED
  BY <1>1 DEF Same, Added

\* What mm_malloc answers: NULL, if no free block is large enough and the heap cannot grow,
\* or a new block of the size that asize says.
Refused(g, S, size, r) ==
    /\ r.p = NULL /\ r.h = g
    /\ \E n \in {asize(size), CHUNKSIZE} : ~CanGrow(g, n)
    /\ \A x \in S \ {g.brk} : Al(g, x) = 1 \/ Sz(g, x) < asize(size)
Granted(g, S, size, r, T) ==
    /\ r.p # NULL /\ Tiles(r.h, T) /\ Merged(r.h, T)
    /\ Added(g, S, r.h, T, r.p) /\ Sz(r.h, r.p) = asize(size)

LEMMA MallocIs ==
    ASSUME NEW g, NEW S, Tiles(g, S), Merged(g, S), NEW size \in Nat, size # 0,
           NEW r, r = Implicit!mm_malloc(g, size)
    PROVE  Refused(g, S, size, r) \/ \E T : Granted(g, S, size, r, T)
<1>1. PICK need \in Nat : need = asize(size) /\ need % 8 = 0 /\ 8 <= need
  BY AsizeIs
<1>2. PICK bp : bp = Implicit!find_fit(g, need)
  OBVIOUS
<1>3. \/ bp = NULL /\ \A x \in S \ {g.brk} : Al(g, x) = 1 \/ Sz(g, x) < need
      \/ bp # NULL /\ bp \in S \ {g.brk} /\ Al(g, bp) = 0 /\ need <= Sz(g, bp)
  BY <1>1, <1>2, FindFitIs
<1>4. PICK more \in Nat : /\ more = IF need > CHUNKSIZE THEN need ELSE CHUNKSIZE
                          /\ more % 8 = 0 /\ 8 <= more /\ need <= more
  BY <1>1, HeapAssumption
<1>5. r = IF bp # NULL THEN [h |-> Implicit!place(g, bp, need), p |-> bp]
          ELSE IF ~CanGrow(g, more) THEN [h |-> g, p |-> NULL]
          ELSE [h |-> Implicit!place(Implicit!extend_heap(g, more).h,
                                     Implicit!extend_heap(g, more).bp, need),
                p |-> Implicit!extend_heap(g, more).bp]
  <2>1. Implicit!asize(size) = need
    BY <1>1 DEF Implicit!asize, asize, Implicit!DSIZE, DSIZE
  <2>2. Implicit!NULL = NULL
    BY DEF Implicit!NULL, NULL
  <2>3. Implicit!CanGrow(g, more) <=> CanGrow(g, more)
    BY DEF Implicit!CanGrow, CanGrow
  <2> QED
    BY <1>2, <1>4, <2>1, <2>2, <2>3 DEF Implicit!mm_malloc, Implicit!malloc, Implicit!PlaceAt
<1>6. CASE bp # NULL
  <2>1. PICK k : k = Implicit!place(g, bp, need)
    OBVIOUS
  <2>2. bp \in S \ {g.brk} /\ Al(g, bp) = 0 /\ need <= Sz(g, bp)
    BY <1>3, <1>6
  <2>3. \E T : /\ Tiles(k, T) /\ Merged(k, T) /\ Added(g, S, k, T, bp)
               /\ k.brk = g.brk /\ Sz(k, bp) = need
    BY <1>1, <2>1, <2>2, PlaceIs
  <2>4. r.h = k /\ r.p = bp
    BY <1>5, <1>6, <2>1
  <2> QED
    BY <1>1, <1>6, <2>3, <2>4 DEF Granted
<1>7. CASE bp = NULL /\ ~CanGrow(g, more)
  <2>1. r.h = g /\ r.p = NULL
    BY <1>5, <1>7
  <2>2. more \in {asize(size), CHUNKSIZE}
    BY <1>1, <1>4
  <2> QED
    BY <1>1, <1>3, <1>7, <2>1, <2>2 DEF Refused
<1>8. CASE bp = NULL /\ CanGrow(g, more)
  <2>1. PICK e : e = Implicit!extend_heap(g, more)
    OBVIOUS
  <2>2. PICK T : /\ Tidy(g, S, e.h, T) /\ e.bp \in T \ {e.h.brk}
                 /\ Al(e.h, e.bp) = 0 /\ more <= Sz(e.h, e.bp)
    BY <1>4, <1>8, <2>1, ExtendIs
  <2>3. PICK k : k = Implicit!place(e.h, e.bp, need)
    OBVIOUS
  <2>4. need <= Sz(e.h, e.bp)
    BY <1>1, <1>4, <2>2, BlockFacts DEF Tidy
  <2>5. PICK U : /\ Tiles(k, U) /\ Merged(k, U) /\ Added(e.h, T, k, U, e.bp)
                 /\ Sz(k, e.bp) = need
    BY <1>1, <2>2, <2>3, <2>4, PlaceIs DEF Tidy
  <2>6. Added(g, S, k, U, e.bp)
    BY <2>2, <2>5, SameAdded DEF Tidy
  <2>7. r.h = k /\ r.p = e.bp
    BY <1>5, <1>8, <2>1, <2>3
  <2>8. e.bp # NULL
    BY <2>2, TilesFacts DEF NULL, Tidy
  <2> QED
    BY <1>1, <2>5, <2>6, <2>7, <2>8 DEF Granted
<1> QED
  BY <1>6, <1>7, <1>8

\* What was written while the heap was used before is of no account to mm_init.
LEMMA InitIs ==
    ASSUME NEW g \in Heap, g.brk = 0, CHUNKSIZE + 16 <= MAX_HEAP, NEW k, k = Implicit!mm_init(g)
    PROVE  \E T : Tiles(k, T) /\ Merged(k, T) /\ Used(k, T) = {}
<1>1. PICK h0, h1, h2, h3 : /\ h0 = mem_sbrk(g, 16) /\ h1 = PUT(h0, 0, 0)
                            /\ h2 = Mark(h1, 8, 8, 1) /\ h3 = PUT(h2, 12, 1)
  OBVIOUS
<1>2. k = Implicit!extend_heap(h3, CHUNKSIZE).h
  BY <1>1, ImplicitMark
  DEF Implicit!mm_init, Implicit!mem_sbrk, mem_sbrk, Implicit!WSIZE, Implicit!DSIZE,
      Implicit!heap_listp, Implicit!PACK
<1>3. h0 \in Heap /\ h0.brk = 16
  BY <1>1 DEF mem_sbrk, Heap
<1>4. /\ 0 \in Words /\ 4 \in Words /\ 8 \in Words /\ 12 \in Words /\ 8 \in Ptrs /\ 16 \in Ptrs
      /\ 16 \in Nat /\ 16 <= MAX_HEAP
  <2>1. 16 <= MAX_HEAP /\ 0 < MAX_HEAP /\ 8 <= MAX_HEAP
    BY HeapAssumption
  <2> QED
    BY <2>1, PrologueWords, PtrIs, InWords
<1>5. h1 \in Heap /\ h1.brk = 16
  <2>1. Puts(h0, h1, 0, 0)
    BY <1>1, <1>3, <1>4, PutIs
  <2> QED
    BY <1>3, <2>1 DEF Puts
<1>6. h2 \in Heap /\ h2.brk = 16 /\ h2.mem[4] = 9 /\ h2.mem[8] = 9
  <2>1. Room(8, 8)
    BY <1>4 DEF Room
  <2>2. Marks(h1, h2, 8, 8, 1)
    BY <1>1, <1>5, <2>1, MarkIs
  <2> QED
    BY <1>5, <2>2 DEF Marks, Marked
<1>7. h3 \in Heap /\ h3.brk = 16 /\ h3.mem[4] = 9 /\ h3.mem[8] = 9 /\ h3.mem[12] = 1
  <2>1. Puts(h2, h3, 12, 1)
    BY <1>1, <1>4, <1>6, PutIs
  <2> QED
    BY <1>4, <1>6, <2>1 DEF Puts
<1>8. Tiles(h3, {16}) /\ Merged(h3, {16})
  <2>1. h3.mem[h3.brk - 4] = 1
    BY <1>7
  <2>2. Prologue(h3) /\ Lo(h3) = 16
    BY <1>7 DEF Prologue, Lo
  <2> QED
    BY <1>4, <1>7, <2>1, <2>2 DEF Tiles, Merged
<1>9. CanGrow(h3, CHUNKSIZE)
  BY <1>7, HeapAssumption DEF CanGrow
<1>10. PICK e : e = Implicit!extend_heap(h3, CHUNKSIZE)
  OBVIOUS
<1>11. \E T : Tidy(h3, {16}, e.h, T)
  <2>1. CHUNKSIZE \in Nat /\ CHUNKSIZE % 8 = 0 /\ 8 <= CHUNKSIZE
    BY HeapAssumption
  <2> QED
    BY <1>8, <1>9, <1>10, <2>1, ExtendIs
<1>12. Used(h3, {16}) = {}
  BY <1>7 DEF Used
<1> QED
  BY <1>2, <1>10, <1>11, <1>12 DEF Tidy, Same

\* k is g with other words in the body of the block at p.
Rewritten(g, k, p) ==
    /\ k \in Heap /\ k.brk = g.brk
    /\ \A w \in Words : w \in Body(g, p) \/ k.mem[w] = g.mem[w]

\* What is written into a payload leaves the heap tiled and the other blocks alone.
LEMMA WriteIs ==
    ASSUME NEW g, NEW S, Tiles(g, S), Merged(g, S), NEW p \in Used(g, S), NEW k, Rewritten(g, k, p)
    PROVE  /\ Tiles(k, S) /\ Merged(k, S) /\ Used(k, S) = Used(g, S) /\ Sz(k, p) = Sz(g, p)
           /\ \A x \in Used(g, S) \ {p} : KeptBlock(g, k, S, x)
           /\ \A x \in S : Sz(k, x) = Sz(g, x) /\ Al(k, x) = Al(g, x)
<1>1. /\ p \in S \ {g.brk} /\ p \in Nat /\ 16 <= p /\ Sz(g, p) \in Nat /\ 8 <= Sz(g, p)
      /\ \A y \in S : y \in Nat /\ (y <= p \/ p + Sz(g, p) <= y)
  BY BlockFacts, TilesFacts DEF Used
<1>2. /\ k \in Heap /\ k.brk = g.brk
      /\ \A w \in Words : w < p \/ w >= p + Sz(g, p) - 8 => k.mem[w] = g.mem[w]
  <2>1. ASSUME NEW w \in Words, w < p \/ w >= p + Sz(g, p) - 8 PROVE k.mem[w] = g.mem[w]
    <3>1. w \notin Body(g, p)
      BY <1>1, <2>1, WordIs DEF Body
    <3> QED
      BY <3>1 DEF Rewritten
  <2> QED
    BY <2>1 DEF Rewritten
<1>3. ASSUME NEW x \in S PROVE k.mem[x - 4] = g.mem[x - 4]
  <2>1. x \in Ptrs /\ x \in Nat /\ x - 4 \in Words
    <3>1. x \in Ptrs
      BY DEF Tiles
    <3> QED
      BY <3>1, PtrIs, HeaderWord
  <2>2. x - 4 < p \/ x - 4 >= p + Sz(g, p) - 8
    BY <1>1, <2>1
  <2> QED
    BY <1>2, <2>1, <2>2
<1>4. \A x \in S : Sz(k, x) = Sz(g, x) /\ Al(k, x) = Al(g, x)
  BY <1>3 DEF Sz, Al, GET_SIZE, GET_ALLOC, GET, HDRP, WSIZE
<1>5. ASSUME NEW x \in S \ {g.brk} PROVE BlockIn(k, S, x)
  <2>1. /\ x \in Nat /\ Sz(g, x) \in Nat /\ Sz(g, x) % 8 = 0 /\ 8 <= Sz(g, x)
        /\ x + Sz(g, x) \in S /\ x + Sz(g, x) <= MAX_HEAP
        /\ \A y \in S : y <= x \/ x + Sz(g, x) <= y
    BY BlockFacts
  <2>2. x \in Ptrs /\ BlockIn(g, S, x) /\ g \in Heap
    BY DEF Tiles
  <2>3. x + Sz(g, x) - 8 \in Words
    BY <2>1, <2>2, BlockWords
  <2>4. x + Sz(g, x) - 8 < p \/ x + Sz(g, x) - 8 >= p + Sz(g, p) - 8
    <3>1. CASE x = p
      BY <1>1, <3>1
    <3>2. CASE x # p
      BY <1>1, <2>1, <3>2
    <3> QED
      BY <3>1, <3>2
  <2>5. k.mem[x + Sz(g, x) - 8] = g.mem[x + Sz(g, x) - 8]
    BY <1>2, <2>3, <2>4
  <2> QED
    BY <1>3, <2>1, <2>2, <2>5, SameBlock
<1>6. Tiles(k, S)
  <2>1. Prologue(k) /\ Lo(k) = Lo(g)
    <3>1. \A w \in Words : w < p - 4 => k.mem[w] = g.mem[w]
      BY <1>1, <1>2, WordIs
    <3> QED
      BY <1>1, <3>1, PrologueKept
  <2>2. k.mem[k.brk - 4] = 1
    BY <1>2, <1>3 DEF Tiles
  <2> QED
    BY <1>2, <1>5, <2>1, <2>2 DEF Tiles
<1>7. Merged(k, S)
  <2>1. ASSUME NEW x \in S \ {k.brk} PROVE Al(k, x) = 1 \/ Al(k, x + Sz(k, x)) = 1
    <3>1. PICK y \in S : y = x + Sz(g, x)
      BY <1>2, BlockFacts
    <3> QED
      BY <1>2, <1>4, <3>1 DEF Merged
  <2> QED
    BY <2>1 DEF Merged
<1>8. Used(k, S) = Used(g, S)
  BY <1>2, <1>4 DEF Used
<1>9. ASSUME NEW x \in Used(g, S) \ {p} PROVE KeptBlock(g, k, S, x)
  <2>1. x \in S \ {g.brk} /\ x # p
    BY DEF Used
  <2>2. /\ x \in Nat /\ Sz(g, x) \in Nat /\ (p <= x \/ x + Sz(g, x) <= p)
        /\ (x <= p \/ p + Sz(g, p) <= x)
    BY <1>1, <2>1, BlockFacts
  <2>3. ASSUME NEW w \in Body(g, x) PROVE k.mem[w] = g.mem[w]
    <3>1. w \in Words /\ w \in Nat /\ x <= w /\ w < x + Sz(g, x) - 8
      BY WordIs DEF Body
    <3>2. w < p \/ w >= p + Sz(g, p) - 8
      BY <1>1, <2>1, <2>2, <3>1
    <3> QED
      BY <1>2, <3>1, <3>2
  <2> QED
    BY <1>4, <1>8, <2>1, <2>3 DEF KeptBlock
<1> QED
  BY <1>1, <1>4, <1>6, <1>7, <1>8, <1>9

\* The payload at ptr was moved to a new block of the size that asize says, or stays where
\* it is if there is none.
Moved(g, S, ptr, size, r, T) ==
    /\ r.p # NULL /\ r.p \notin Used(g, S) /\ Tiles(r.h, T) /\ Merged(r.h, T)
    /\ Used(r.h, T) = (Used(g, S) \ {ptr}) \cup {r.p} /\ Sz(r.h, r.p) = asize(size)
    /\ \A x \in Used(g, S) \ {ptr} : KeptBlock(g, r.h, T, x)
    /\ \A w \in Body(g, ptr) :
          w + 4 <= ptr + size => r.h.mem[r.p + (w - ptr)] = g.mem[w]

\* m is the heap of new with the old payload copied to the new block.
Copied(g, S, ptr, size, new, T, m) ==
    /\ Rewritten(new.h, m, new.p) /\ new.p # NULL
    /\ Tiles(m, T) /\ Merged(m, T) /\ Used(m, T) = Used(g, S) \cup {new.p}
    /\ ptr \in Used(m, T) /\ new.p \notin Used(g, S) /\ Sz(m, new.p) = asize(size)
    /\ \A x \in Used(g, S) : KeptBlock(g, m, T, x)
    /\ \A w \in Body(g, ptr) :
          w + 4 <= ptr + size => /\ new.p + (w - ptr) \in Body(m, new.p)
                                 /\ m.mem[new.p + (w - ptr)] = g.mem[w]

LEMMA CopiedIs ==
    ASSUME NEW g, NEW S, Tiles(g, S), NEW ptr \in Used(g, S), NEW size \in Nat,
           NEW new, NEW T, Granted(g, S, size, new, T),
           NEW m, m = memcpy(new.h, new.p, ptr, size)
    PROVE  Copied(g, S, ptr, size, new, T, m)
<1>1. /\ new.p # NULL /\ Tiles(new.h, T) /\ Merged(new.h, T) /\ new.p \in Used(new.h, T)
      /\ ptr \in Used(new.h, T) /\ KeptBlock(g, new.h, T, ptr) /\ new.p # ptr
      /\ Sz(new.h, new.p) = asize(size) /\ new.h \in Heap
      /\ Used(new.h, T) = Used(g, S) \cup {new.p} /\ new.p \notin Used(g, S)
  BY DEF Granted, Added, Tiles
<1>2. /\ new.p \in Nat /\ new.p % 8 = 0 /\ size + 8 <= Sz(new.h, new.p)
      /\ Sz(new.h, new.p) \in Nat
  <2>1. Tiles(new.h, T) /\ new.p \in T \ {new.h.brk}
    BY <1>1 DEF Used
  <2>2. new.p \in Nat /\ new.p % 8 = 0 /\ Sz(new.h, new.p) \in Nat
    BY <2>1, BlockFacts
  <2>3. size + 8 <= asize(size)
    BY AsizeIs
  <2> QED
    BY <1>1, <2>2, <2>3
<1>3. /\ m \in Heap /\ m.brk = new.h.brk
      /\ \A w \in Words : m.mem[w] = IF w >= new.p /\ w + 4 <= new.p + size
                                     THEN IF ptr + (w - new.p) \in Words
                                          THEN new.h.mem[ptr + (w - new.p)] ELSE 0
                                     ELSE new.h.mem[w]
  BY <1>1 DEF memcpy, Heap, WSIZE
<1>4. Rewritten(new.h, m, new.p)
  <2>1. ASSUME NEW w \in Words, w \notin Body(new.h, new.p)
        PROVE  ~(w >= new.p /\ w + 4 <= new.p + size)
    BY <1>2, <2>1, WordIs DEF Body
  <2> QED
    BY <1>3, <2>1 DEF Rewritten
<1>5. /\ Tiles(m, T) /\ Merged(m, T) /\ Used(m, T) = Used(new.h, T)
      /\ Sz(m, new.p) = Sz(new.h, new.p)
      /\ \A x \in Used(new.h, T) \ {new.p} : KeptBlock(new.h, m, T, x)
  BY <1>1, <1>4, WriteIs
<1>6. ASSUME NEW x \in Used(g, S) PROVE KeptBlock(g, m, T, x)
  <2>1. KeptBlock(g, new.h, T, x) /\ x # new.p
    BY DEF Granted, Added
  <2>2. KeptBlock(new.h, m, T, x)
    BY <1>5, <2>1 DEF KeptBlock
  <2>3. Sz(new.h, x) = Sz(g, x)
    BY <2>1 DEF KeptBlock
  <2>4. Body(new.h, x) = Body(g, x)
    BY <2>3 DEF Body
  <2> QED
    BY <2>1, <2>2, <2>4 DEF KeptBlock
<1>7. ASSUME NEW w \in Body(g, ptr), w + 4 <= ptr + size
      PROVE  new.p + (w - ptr) \in Body(m, new.p) /\ m.mem[new.p + (w - ptr)] = g.mem[w]
  <2>1. ptr \in Nat /\ ptr % 8 = 0 /\ w \in Words /\ w \in Nat /\ w % 4 = 0 /\ ptr <= w
    BY BlockFacts, WordIs DEF Body, Used
  <2>2. new.h.mem[w] = g.mem[w]
    BY <1>1 DEF KeptBlock
  <2>3. PICK d \in Nat : d = w - ptr /\ d % 4 = 0 /\ d + 4 <= size
    BY <1>7, <2>1
  <2>4. PICK v \in Nat : v = new.p + d /\ v % 4 = 0
    BY <1>2, <2>3
  <2>5. v < new.p + Sz(new.h, new.p) - 8 /\ new.p <= v /\ v < MAX_HEAP
    <3>1. new.p + Sz(new.h, new.p) <= MAX_HEAP
      BY <1>1, BlockFacts DEF Used
    <3> QED
      BY <1>2, <2>3, <2>4, <3>1, HeapAssumption
  <2>6. v \in Words /\ v \in Body(m, new.p)
    BY <1>5, <2>4, <2>5, InWords DEF Body
  <2>7. m.mem[v] = g.mem[w]
    <3>1. v >= new.p /\ v + 4 <= new.p + size /\ ptr + (v - new.p) = w
      BY <1>2, <2>1, <2>3, <2>4
    <3> QED
      BY <1>3, <2>1, <2>2, <2>6, <3>1
  <2> QED
    BY <2>3, <2>4, <2>6, <2>7
<1> QED
  BY <1>1, <1>4, <1>5, <1>6, <1>7 DEF Copied

\* Then the old block is freed.
LEMMA MovedIs ==
    ASSUME NEW g, NEW S, NEW ptr \in Used(g, S), NEW size, NEW new, NEW T, NEW m,
           Copied(g, S, ptr, size, new, T, m), NEW r, NEW U, r.p = new.p,
           Tiles(r.h, U), Merged(r.h, U), Removed(m, T, r.h, U, ptr)
    PROVE  Moved(g, S, ptr, size, r, U)
<1> USE DEF Copied
<1>1. Used(r.h, U) = (Used(g, S) \ {ptr}) \cup {r.p}
  BY DEF Removed
<1>2. KeptBlock(m, r.h, U, new.p)
  BY DEF Removed
<1>3. Sz(r.h, r.p) = asize(size)
  BY <1>2 DEF KeptBlock
<1>4. ASSUME NEW x \in Used(g, S) \ {ptr} PROVE KeptBlock(g, r.h, U, x)
  <2>1. KeptBlock(g, m, T, x) /\ KeptBlock(m, r.h, U, x)
    BY DEF Removed
  <2>2. Sz(m, x) = Sz(g, x)
    BY <2>1 DEF KeptBlock
  <2>3. Body(m, x) = Body(g, x)
    BY <2>2 DEF Body
  <2> QED
    BY <2>1, <2>3 DEF KeptBlock
<1>5. ASSUME NEW w \in Body(g, ptr), w + 4 <= ptr + size
      PROVE  r.h.mem[r.p + (w - ptr)] = g.mem[w]
  BY <1>2, <1>5 DEF KeptBlock
<1> QED
  BY <1>1, <1>3, <1>4, <1>5 DEF Moved

\* With a size_t of 8 bytes mm_realloc takes the header of a block in use for the upper half
\* of the size of its payload, which makes it more than any size.
LEMMA CopySizeIs ==
    ASSUME NEW g, NEW S, Tiles(g, S), NEW ptr \in Used(g, S), NEW size, SIZE_T = 8
    PROVE  copySize(g, ptr, size) = size
<1>1. ptr \in S \ {g.brk} /\ Al(g, ptr) = 1
  BY DEF Used
<1>2. g.mem[ptr - 4] = Sz(g, ptr) + 1 /\ Sz(g, ptr) \in Nat
  BY <1>1 DEF Tiles, BlockIn
<1>3. GET(g, HDRP(ptr)) > 0
  BY <1>2 DEF GET, HDRP, WSIZE
<1> QED
  BY <1>3 DEF copySize

\* mm_realloc moves the payload to a block that mm_malloc gives, or answers NULL.
LEMMA ReallocIs ==
    ASSUME NEW g, NEW S, Tiles(g, S), Merged(g, S), NEW ptr \in Used(g, S), SIZE_T = 8,
           NEW size \in Nat, size # 0, NEW r, r = Implicit!mm_realloc(g, ptr, size)
    PROVE  (r.p = NULL /\ r.h = g) \/ \E T : Moved(g, S, ptr, size, r, T)
<1>1. PICK new : new = Implicit!mm_malloc(g, size)
  OBVIOUS
<1>2. Refused(g, S, size, new) \/ \E T : Granted(g, S, size, new, T)
  BY <1>1, MallocIs
<1>3. r = Implicit!Move(new, ptr, size, Implicit!mm_free)
  BY <1>1 DEF Implicit!mm_realloc, Implicit!realloc
<1>4. CASE Refused(g, S, size, new)
  BY <1>3, <1>4 DEF Implicit!Move, Implicit!NULL, Refused, NULL
<1>5. CASE \E T : Granted(g, S, size, new, T)
  <2>1. PICK T, m : Granted(g, S, size, new, T) /\ m = memcpy(new.h, new.p, ptr, size)
    BY <1>5
  <2>2. Copied(g, S, ptr, size, new, T, m)
    BY <2>1, CopiedIs
  <2>3. copySize(new.h, ptr, size) = size
    <3>1. ptr \in Used(new.h, T) /\ Tiles(new.h, T)
      BY <2>1 DEF Granted, Added
    <3> QED
      BY <3>1, CopySizeIs
  <2>4. r = [h |-> Implicit!mm_free(m, ptr), p |-> new.p]
    <3>1. Implicit!copySize(new.h, ptr, size) = copySize(new.h, ptr, size)
      BY ImplicitMacros
      DEF Implicit!copySize, copySize, Implicit!GET, GET, Implicit!DSIZE, DSIZE
    <3>2. Implicit!memcpy(new.h, new.p, ptr, size) = m
      BY <2>1 DEF Implicit!memcpy, memcpy, Implicit!Words, Words, Implicit!WSIZE, WSIZE
    <3> QED
      BY <1>3, <2>1, <2>3, <3>1, <3>2 DEF Implicit!Move, Implicit!NULL, NULL, Granted
  <2>5. PICK U : Tiles(r.h, U) /\ Merged(r.h, U) /\ Removed(m, T, r.h, U, ptr)
    BY <2>2, <2>4, FreeIs DEF Copied
  <2>6. r.p = new.p
    BY <2>4
  <2> QED
    BY <2>2, <2>5, <2>6, MovedIs
<1> QED
  BY <1>2, <1>4, <1>5

-----------------------------------------------------------------------------
(* The payloads that the driver has. *)

\* The words of a payload are in the body of its block.
LEMMA PayloadIs ==
    ASSUME NEW g, NEW S, Tiles(g, S), NEW p \in Used(g, S), NEW size \in Nat, size % 4 = 0,
           size + 8 <= Sz(g, p)
    PROVE  /\ Payload(p, size) = {w \in Body(g, p) : w + 4 <= p + size}
           /\ p \in Nat /\ p % 8 = 0 /\ 16 <= p /\ p + size + 8 <= g.brk /\ g.brk \in Nat
<1>1. /\ p \in Nat /\ p % 8 = 0 /\ 16 <= p /\ Sz(g, p) \in Nat /\ p + Sz(g, p) <= g.brk
      /\ g.brk \in Nat /\ g.brk <= MAX_HEAP
  BY BlockFacts, TilesFacts DEF Used
<1>2. ASSUME NEW k \in 0 .. (size \div 4) - 1
      PROVE  p + 4 * k \in Body(g, p) /\ (p + 4 * k) + 4 <= p + size
  <2>1. 4 * k + 4 <= size /\ k \in Nat
    OBVIOUS
  <2>2. PICK w \in Nat : w = p + 4 * k /\ w % 4 = 0
    BY <1>1, <2>1
  <2>3. w < MAX_HEAP /\ p <= w /\ w < p + Sz(g, p) - 8 /\ w + 4 <= p + size
    BY <1>1, <2>1, <2>2, HeapAssumption
  <2> QED
    BY <2>2, <2>3, InWords DEF Body
<1>3. ASSUME NEW w \in Body(g, p), w + 4 <= p + size
      PROVE  \E k \in 0 .. (size \div 4) - 1 : w = p + 4 * k
  <2>1. w \in Nat /\ w % 4 = 0 /\ p <= w
    BY WordIs DEF Body
  <2>2. PICK d \in Nat : d = w - p /\ d % 4 = 0 /\ d + 4 <= size
    BY <1>1, <1>3, <2>1
  <2>3. d = 4 * (d \div 4) /\ d \div 4 \in Nat /\ d \div 4 \in 0 .. (size \div 4) - 1
    BY <2>2
  <2> QED
    BY <1>1, <2>1, <2>2, <2>3
<1>4. Payload(p, size) = {w \in Body(g, p) : w + 4 <= p + size}
  BY <1>2, <1>3 DEF Payload, WSIZE
<1>5. p + size + 8 <= g.brk
  BY <1>1
<1> QED
  BY <1>1, <1>4, <1>5

\* The block in use at p has a payload of size bytes that is filled for the id i.
Holds(g, S, p, size, i) ==
    /\ p \in Used(g, S) /\ size \in Nat /\ size % 4 = 0 /\ size # 0 /\ size + 8 <= Sz(g, p)
    /\ \A w \in Payload(p, size) : g.mem[w] = Fill(i)

\* The blocks in use are those of the ids of L, one for each, with their payloads.
Owns(g, S, L, b, z) ==
    /\ Used(g, S) = {b[i] : i \in L}
    /\ \A i, j \in L : b[i] = b[j] => i = j
    /\ \A i \in L : Holds(g, S, b[i], z[i], i)

LEMMA HoldsKept ==
    ASSUME NEW g, NEW S, NEW p, NEW size, NEW i, Tiles(g, S), Holds(g, S, p, size, i),
           NEW k, NEW T, KeptBlock(g, k, T, p)
    PROVE  Holds(k, T, p, size, i)
<1>1. Payload(p, size) \subseteq Body(g, p)
  BY PayloadIs DEF Holds
<1> QED
  BY <1>1 DEF Holds, KeptBlock

\* A block in use at p is not that of any id of others, which have the rest.
Offered(g, T, p, size, others) ==
    /\ Tiles(g, T) /\ Merged(g, T) /\ size + 8 <= Sz(g, p)
    /\ Used(g, T) = {blocks[j] : j \in others} \cup {p}
    /\ \A j \in others : blocks[j] # p
    /\ \A j, l \in others : blocks[j] = blocks[l] => j = l
    /\ \A j \in others : Holds(g, T, blocks[j], block_sizes[j], j)

\* What becomes of it.
Taken(g, m, T, p, size, i, others, b, z) ==
    /\ add_range(g, p, size, others) = "valid" /\ Rewritten(g, m, p)
    /\ Tiles(m, T) /\ Merged(m, T) /\ Owns(m, T, others \cup {i}, b, z)

\* A payload in a block of its own is accepted, filled, and then its id's.
LEMMA AcceptIs ==
    ASSUME NEW g, NEW T, NEW p, NEW size \in Nat, size % 4 = 0, size # 0, NEW i \in Index,
           NEW others \in SUBSET Index, i \notin others, Offered(g, T, p, size, others),
           NEW m, m = memset(g, p, i, size), NEW b, b = [blocks EXCEPT ![i] = p],
           NEW z, z = [block_sizes EXCEPT ![i] = size],
           blocks \in [Index -> Nat], block_sizes \in [Index -> Nat]
    PROVE  Taken(g, m, T, p, size, i, others, b, z)
<1>0. Fill(i) \in Nat
  <2>1. i \in Nat
    BY DriverAssumption
  <2> QED
    BY <2>1 DEF Fill
<1> USE DEF Offered
<1>1. /\ p \in Used(g, T) /\ p \in Nat /\ p % 8 = 0 /\ 16 <= p /\ p + size + 8 <= g.brk
      /\ g.brk \in Nat /\ Payload(p, size) = {w \in Body(g, p) : w + 4 <= p + size}
  <2>1. p \in Used(g, T)
    OBVIOUS
  <2> QED
    BY <2>1, PayloadIs
<1>2. ASSUME NEW j \in others
      PROVE  p + size - 1 < blocks[j] \/ blocks[j] + block_sizes[j] - 1 < p
  <2>1. PICK q : q = blocks[j] /\ q # p /\ q \in Used(g, T) /\ q \in Nat
    BY <1>2 DEF Holds
  <2>2. block_sizes[j] \in Nat /\ block_sizes[j] + 8 <= Sz(g, q)
    BY <2>1 DEF Holds
  <2>3. /\ Sz(g, p) \in Nat /\ Sz(g, q) \in Nat
        /\ (q <= p \/ p + Sz(g, p) <= q) /\ (p <= q \/ q + Sz(g, q) <= p)
    BY <1>1, <2>1, BlockFacts DEF Used
  <2> QED
    BY <1>1, <2>1, <2>2, <2>3
<1>3. add_range(g, p, size, others) = "valid"
  <2>1. p % 8 = 0 /\ ~(p > g.brk - 1) /\ ~(p + size - 1 > g.brk - 1)
    BY <1>1
  <2>2. ASSUME NEW j \in others
        PROVE  /\ ~(blocks[j] <= p /\ p <= blocks[j] + block_sizes[j] - 1)
               /\ ~(blocks[j] <= p + size - 1 /\ p + size - 1 <= blocks[j] + block_sizes[j] - 1)
    <3>1. blocks[j] \in Nat /\ block_sizes[j] \in Nat
      OBVIOUS
    <3> QED
      BY <1>1, <1>2, <3>1
  <2> QED
    BY <2>1, <2>2 DEF add_range
<1>4. /\ m \in Heap /\ m.brk = g.brk
      /\ \A w \in Words : m.mem[w] = IF w \in Payload(p, size) THEN Fill(i) ELSE g.mem[w]
  <2>1. g \in Heap
    BY DEF Tiles
  <2> QED
    BY <1>0, <2>1 DEF memset, Heap
<1>5. Rewritten(g, m, p)
  BY <1>1, <1>4 DEF Rewritten
<1>6. /\ Tiles(m, T) /\ Merged(m, T) /\ Used(m, T) = Used(g, T) /\ Sz(m, p) = Sz(g, p)
      /\ \A x \in Used(g, T) \ {p} : KeptBlock(g, m, T, x)
  BY <1>1, <1>5, WriteIs
<1>7. b[i] = p /\ z[i] = size /\ \A j \in others : b[j] = blocks[j] /\ z[j] = block_sizes[j]
  OBVIOUS
<1>8. ASSUME NEW j \in others PROVE Holds(m, T, b[j], z[j], j)
  <2>1. blocks[j] \in Used(g, T) \ {p}
    OBVIOUS
  <2> QED
    BY <1>6, <1>7, <2>1, HoldsKept
<1>9. Holds(m, T, p, size, i)
  <2>1. \A w \in Payload(p, size) : w \in Words
    BY <1>1 DEF Body
  <2> QED
    BY <1>1, <1>4, <1>6, <2>1 DEF Holds
<1>10. Owns(m, T, others \cup {i}, b, z)
  BY <1>6, <1>7, <1>8, <1>9 DEF Owns
<1> QED
  BY <1>3, <1>5, <1>6, <1>10 DEF Taken

-----------------------------------------------------------------------------
(* What a request of the driver does to the payloads. *)

\* A tiled heap whose blocks in use are those of the ids that have a payload.
Held(g, S) == Tiles(g, S) /\ Merged(g, S) /\ Owns(g, S, Live, blocks, block_sizes)

Typed == blocks \in [Index -> Nat] /\ block_sizes \in [Index -> Nat]

LEMMA SizesAre == \A size \in Sizes : size \in Nat /\ size # 0 /\ size % 4 = 0
BY DriverAssumption DEF WSIZE

\* A payload that was given up.
LEMMA FreedIs ==
    ASSUME Typed, NEW g, NEW S, Held(g, S), NEW i \in Live,
           NEW k, NEW T, Removed(g, S, k, T, blocks[i]),
           NEW b, b = [blocks EXCEPT ![i] = NULL]
    PROVE  b \in [Index -> Nat] /\ Owns(k, T, Live \ {i}, b, block_sizes)
<1>1. i \in Index /\ Live \subseteq Index
  BY DEF Live
<1>2. \A j \in Live \ {i} : b[j] = blocks[j]
  BY DEF Typed, Live
<1>3. ASSUME NEW j \in Live \ {i} PROVE Holds(k, T, b[j], block_sizes[j], j)
  <2>1. blocks[j] \in Used(g, S) \ {blocks[i]} /\ Holds(g, S, blocks[j], block_sizes[j], j)
    BY DEF Held, Owns
  <2>2. KeptBlock(g, k, T, blocks[j])
    BY <2>1 DEF Removed
  <2> QED
    BY <1>2, <2>1, <2>2, HoldsKept DEF Held
<1>4. Used(k, T) = {b[j] : j \in Live \ {i}}
  BY <1>2 DEF Held, Owns, Removed
<1>5. \A j, l \in Live \ {i} : b[j] = b[l] => j = l
  BY <1>2 DEF Held, Owns
<1>6. b \in [Index -> Nat]
  BY DEF Typed, NULL
<1> QED
  BY <1>3, <1>4, <1>5, <1>6 DEF Owns

\* The payload that was answered is filled and written down.
Noted(i, size, r, m, b, z) ==
    /\ m = memset(r.h, r.p, i, size)
    /\ b = [blocks EXCEPT ![i] = r.p] /\ z = [block_sizes EXCEPT ![i] = size]

LEMMA NotedIs ==
    ASSUME Typed, NEW i \in Index, NEW size \in Sizes, NEW r, r.p \in Nat, r.p # NULL,
           NEW m, NEW b, NEW z, Noted(i, size, r, m, b, z)
    PROVE  /\ b \in [Index -> Nat] /\ z \in [Index -> Nat]
           /\ Live \cup {i} = {j \in Index : b[j] # NULL}
BY SizesAre DEF Typed, Noted, Live

\* A payload that mm_malloc gave.
LEMMA AllocatedIs ==
    ASSUME Typed, NEW g, NEW S, Held(g, S), NEW i \in Index \ Live, NEW size \in Sizes,
           NEW r, NEW T, Granted(g, S, size, r, T),
           NEW m, NEW b, NEW z, Noted(i, size, r, m, b, z)
    PROVE  /\ Taken(r.h, m, T, r.p, size, i, Live, b, z)
           /\ b \in [Index -> Nat] /\ z \in [Index -> Nat]
           /\ Live \cup {i} = {j \in Index : b[j] # NULL}
<1>1. size \in Nat /\ size # 0 /\ size % 4 = 0
  BY SizesAre
<1>2. /\ r.p # NULL /\ Tiles(r.h, T) /\ Merged(r.h, T) /\ size + 8 <= Sz(r.h, r.p)
      /\ Used(r.h, T) = Used(g, S) \cup {r.p} /\ r.p \notin Used(g, S)
      /\ \A x \in Used(g, S) : KeptBlock(g, r.h, T, x)
  BY <1>1, AsizeIs DEF Granted, Added
<1>3. Used(r.h, T) = {blocks[j] : j \in Live} \cup {r.p} /\ \A j \in Live : blocks[j] # r.p
  BY <1>2 DEF Held, Owns
<1>4. ASSUME NEW j \in Live PROVE Holds(r.h, T, blocks[j], block_sizes[j], j)
  <2>1. blocks[j] \in Used(g, S) /\ Holds(g, S, blocks[j], block_sizes[j], j)
    BY DEF Held, Owns
  <2> QED
    BY <1>2, <2>1, HoldsKept DEF Held
<1>5. \A j, l \in Live : blocks[j] = blocks[l] => j = l
  BY DEF Held, Owns
<1>6. Offered(r.h, T, r.p, size, Live)
  BY <1>2, <1>3, <1>4, <1>5 DEF Offered
<1>7. Live \in SUBSET Index
  BY DEF Live
<1>8. Taken(r.h, m, T, r.p, size, i, Live, b, z)
  BY <1>1, <1>6, <1>7, AcceptIs DEF Typed, Noted
<1>9. r.p \in Nat
  BY <1>2, TilesFacts DEF Used
<1> QED
  BY <1>2, <1>8, <1>9, NotedIs

\* A payload that mm_realloc moved.
LEMMA ReallocatedIs ==
    ASSUME Typed, NEW g, NEW S, Held(g, S), NEW i \in Live, NEW size \in Sizes,
           NEW ptr, ptr = blocks[i], NEW others, others = Live \ {i},
           NEW r, NEW T, Moved(g, S, ptr, size, r, T),
           NEW m, NEW b, NEW z, Noted(i, size, r, m, b, z)
    PROVE  /\ Taken(r.h, m, T, r.p, size, i, others, b, z)
           /\ Preserved(r.h, r.p, i, size)
<1>1. size \in Nat /\ size # 0 /\ size % 4 = 0
  BY SizesAre
<1>2. ptr = blocks[i]
  OBVIOUS
<1>3. ptr \in Used(g, S) /\ Holds(g, S, ptr, block_sizes[i], i) /\ Tiles(g, S)
  BY <1>2 DEF Held, Owns
<1>4. /\ r.p # NULL /\ Tiles(r.h, T) /\ Merged(r.h, T) /\ size + 8 <= Sz(r.h, r.p)
      /\ Used(r.h, T) = (Used(g, S) \ {ptr}) \cup {r.p} /\ r.p \notin Used(g, S)
      /\ \A x \in Used(g, S) \ {ptr} : KeptBlock(g, r.h, T, x)
  BY <1>1, <1>2, AsizeIs DEF Moved
<1>5. others \in SUBSET Index /\ others = Live \ {i} /\ i \in Index
  BY DEF Live
<1>6. \A j \in others : blocks[j] \in Used(g, S) \ {ptr}
  BY <1>2, <1>5 DEF Held, Owns
<1>7. Used(r.h, T) = {blocks[j] : j \in others} \cup {r.p} /\ \A j \in others : blocks[j] # r.p
  BY <1>2, <1>4, <1>5, <1>6 DEF Held, Owns
<1>8. ASSUME NEW j \in others PROVE Holds(r.h, T, blocks[j], block_sizes[j], j)
  <2>1. Holds(g, S, blocks[j], block_sizes[j], j)
    BY <1>5 DEF Held, Owns
  <2> QED
    BY <1>3, <1>4, <1>6, <2>1, HoldsKept
<1>9. \A j, l \in others : blocks[j] = blocks[l] => j = l
  BY <1>5 DEF Held, Owns
<1>10. Offered(r.h, T, r.p, size, others) /\ i \notin others
  BY <1>4, <1>5, <1>7, <1>8, <1>9 DEF Offered
<1>11. Taken(r.h, m, T, r.p, size, i, others, b, z)
  BY <1>1, <1>5, <1>10, AcceptIs DEF Typed, Noted
<1>12. Preserved(r.h, r.p, i, size)
  <2>1. PICK n \in Nat : /\ n = IF size < block_sizes[i] THEN size ELSE block_sizes[i]
                         /\ n <= size /\ n <= block_sizes[i] /\ n % 4 = 0
    BY <1>1, <1>3 DEF Holds
  <2>2. r.p \in Used(r.h, T) /\ n + 8 <= Sz(r.h, r.p) /\ n + 8 <= Sz(g, ptr)
    <3>1. r.p \in Used(r.h, T) /\ Sz(r.h, r.p) \in Nat /\ Sz(g, ptr) \in Nat
      BY <1>3, <1>4, BlockFacts DEF Used
    <3> QED
      BY <1>1, <1>3, <1>4, <2>1, <3>1 DEF Holds
  <2>3. /\ Payload(r.p, n) = {w \in Body(r.h, r.p) : w + 4 <= r.p + n}
        /\ Payload(ptr, n) = {w \in Body(g, ptr) : w + 4 <= ptr + n}
        /\ Payload(ptr, block_sizes[i]) = {w \in Body(g, ptr) : w + 4 <= ptr + block_sizes[i]}
        /\ r.p \in Nat /\ ptr \in Nat /\ block_sizes[i] \in Nat
    BY <1>3, <1>4, <2>1, <2>2, PayloadIs DEF Holds
  <2>4. ASSUME NEW k \in 0 .. (n \div 4) - 1 PROVE r.h.mem[r.p + 4 * k] = Fill(i)
    <3>1. PICK w : w = ptr + 4 * k
      OBVIOUS
    <3>2. w \in Payload(ptr, n)
      BY <3>1 DEF Payload, WSIZE
    <3>3. w \in Nat /\ w \in Body(g, ptr) /\ w + 4 <= ptr + n
      BY <2>3, <3>2, WordIs DEF Body
    <3>4. w + 4 <= ptr + size /\ w + 4 <= ptr + block_sizes[i]
      BY <1>1, <2>1, <2>3, <3>3
    <3>5. r.h.mem[r.p + (w - ptr)] = g.mem[w]
      BY <1>2, <3>3, <3>4 DEF Moved
    <3>6. g.mem[w] = Fill(i)
      BY <1>3, <2>3, <3>3, <3>4 DEF Holds
    <3>7. r.p + (w - ptr) = r.p + 4 * k
      BY <2>3, <3>1
    <3> QED
      BY <3>5, <3>6, <3>7
  <2> QED
    BY <2>1, <2>4 DEF Preserved, Payload, WSIZE
<1> QED
  BY <1>5, <1>11, <1>12

-----------------------------------------------------------------------------
(* The driver on mm-implict.c. *)

\* The heap up to where its epilogue is: mm-explicit.c keeps two words behind it.
View == [mem |-> h.mem, brk |-> Epilogue]

\* The heap is tiled with blocks, free ones are merged, and those in use are those of the
\* ids that have a payload; the driver found no fault.
HeapInv ==
    /\ Typed /\ verdict \in {"valid", "mm_malloc failed", "mm_realloc failed"}
    /\ h \in Heap /\ \E S : Held(View, S)

LEMMA ImplicitView == mm = "implicit" /\ h \in Heap => View = h
<1> SUFFICES ASSUME mm = "implicit", h \in Heap PROVE View = h
  OBVIOUS
<1>1. h.brk - 0 = h.brk /\ h = [mem |-> h.mem, brk |-> h.brk]
  BY DEF Heap
<1>2. Epilogue = h.brk - 0
  BY DEF Epilogue
<1> QED
  BY <1>1, <1>2 DEF View

\* What the steps below show of the next state.
LEMMA ImplicitInv ==
    ASSUME mm' = "implicit", Typed', verdict' \in {"valid", "mm_malloc failed", "mm_realloc failed"},
           NEW S, Tiles(h', S), Merged(h', S), Owns(h', S, Live', blocks', block_sizes')
    PROVE  HeapInv'
<1>1. h' \in Heap
  BY DEF Tiles
<1>2. (mm = "implicit" /\ h \in Heap => View = h)'
  BY ImplicitView, PTL
<1>3. View' = h'
  BY <1>1, <1>2
<1> QED
  BY <1>1, <1>3 DEF HeapInv, Held

LEMMA InitInv ==
    ASSUME CHUNKSIZE + 16 <= MAX_HEAP, Init, mm = "implicit"
    PROVE  HeapInv
<1>1. PICK g : g = [mem |-> [w \in Words |-> 0], brk |-> 0]
  OBVIOUS
<1>2. g \in Heap /\ g.brk = 0
  BY <1>1 DEF Heap
<1>3. h = Implicit!mm_init(g)
  BY <1>1 DEF Init, mm_init
<1>4. PICK S : Tiles(h, S) /\ Merged(h, S) /\ Used(h, S) = {}
  BY <1>2, <1>3, InitIs
<1>5. Live = {}
  BY DEF Init, NoBlocks, Live
<1>6. Held(h, S)
  BY <1>4, <1>5 DEF Owns, Held
<1>7. Typed /\ verdict = "valid"
  BY DEF Init, NoBlocks, NULL, Typed
<1> QED
  BY <1>4, <1>6, <1>7, ImplicitView DEF HeapInv, Tiles

LEMMA NextTraceInv ==
    ASSUME CHUNKSIZE + 16 <= MAX_HEAP, HeapInv, NextTrace, mm = "implicit"
    PROVE  HeapInv'
<1>1. PICK g : g = mem_reset_brk(h)
  OBVIOUS
<1>2. g \in Heap /\ g.brk = 0
  BY <1>1 DEF Heap, mem_reset_brk, HeapInv
<1>3. h' = Implicit!mm_init(g)
  BY <1>1 DEF NextTrace, mm_init
<1>4. PICK S : Tiles(h', S) /\ Merged(h', S) /\ Used(h', S) = {}
  BY <1>2, <1>3, InitIs
<1>5. Live' = {}
  BY DEF NextTrace, NoBlocks, Live
<1>6. Owns(h', S, Live', blocks', block_sizes')
  BY <1>4, <1>5 DEF Owns
<1>7. Typed' /\ verdict' = "valid" /\ mm' = "implicit"
  BY DEF NextTrace, NoBlocks, NULL, HeapInv, Typed
<1> QED
  BY <1>4, <1>6, <1>7, ImplicitInv

LEMMA FreeInv ==
    ASSUME HeapInv, NEW i \in Index, Free(i), mm = "implicit"
    PROVE  HeapInv'
<1>1. PICK S : Held(h, S)
  BY ImplicitView DEF HeapInv
<1>2. i \in Live /\ blocks[i] \in Used(h, S)
  BY <1>1 DEF Free, Live, Owns, Held
<1>3. h' = Implicit!mm_free(h, blocks[i])
  BY DEF Free, mm_free
<1>4. PICK T : Tiles(h', T) /\ Merged(h', T) /\ Removed(h, S, h', T, blocks[i])
  BY <1>1, <1>2, <1>3, FreeIs DEF Held
<1>5. blocks' = [blocks EXCEPT ![i] = NULL] /\ block_sizes' = block_sizes /\ verdict' = verdict
  BY DEF Free
<1>6. blocks' \in [Index -> Nat] /\ Owns(h', T, Live \ {i}, blocks', block_sizes')
  BY <1>1, <1>2, <1>4, <1>5, FreedIs DEF HeapInv
<1>7. Live' = Live \ {i}
  BY <1>5 DEF Live, HeapInv, Typed
<1>8. Typed' /\ mm' = "implicit"
  BY <1>5, <1>6 DEF HeapInv, Typed, Free, Request
<1> QED
  BY <1>4, <1>5, <1>6, <1>7, <1>8, ImplicitInv DEF HeapInv

LEMMA AllocInv ==
    ASSUME HeapInv, NEW i \in Index, NEW size \in Sizes, Alloc(i, size), mm = "implicit"
    PROVE  HeapInv'
<1>1. PICK S : Held(h, S)
  BY ImplicitView DEF HeapInv
<1>2. PICK r : r = Implicit!mm_malloc(h, size)
  OBVIOUS
<1>3. Allocated(i, size, r) /\ i \in Index \ Live /\ mm' = "implicit"
  BY <1>2 DEF Alloc, mm_malloc, Live, Request
<1>4. size \in Nat /\ size # 0
  BY SizesAre
<1>5. Refused(h, S, size, r) \/ \E T : Granted(h, S, size, r, T)
  BY <1>1, <1>2, <1>4, MallocIs DEF Held
<1>6. CASE Refused(h, S, size, r)
  <2>1. /\ verdict' = "mm_malloc failed" /\ h' = h /\ blocks' = blocks
        /\ block_sizes' = block_sizes
    BY <1>3, <1>6 DEF Allocated, Accept, Refused
  <2> QED
    BY <1>1, <1>3, <2>1, ImplicitInv DEF HeapInv, Live, Typed, Held
<1>7. CASE \E T : Granted(h, S, size, r, T)
  <2>1. PICK T : Granted(h, S, size, r, T)
    BY <1>7
  <2>2. PICK m, b, z : Noted(i, size, r, m, b, z)
    BY DEF Noted
  <2>3. /\ Taken(r.h, m, T, r.p, size, i, Live, b, z)
        /\ b \in [Index -> Nat] /\ z \in [Index -> Nat]
        /\ Live \cup {i} = {j \in Index : b[j] # NULL}
    <3>1. Typed /\ i \in Index \ Live /\ size \in Sizes
      BY <1>3 DEF HeapInv
    <3> QED
      BY <1>1, <2>1, <2>2, <3>1, AllocatedIs
  <2>4. verdict' = "valid" /\ h' = m /\ blocks' = b /\ block_sizes' = z
    BY <1>3, <2>1, <2>2, <2>3 DEF Allocated, Accept, Taken, Granted, Noted
  <2>5. Typed' /\ Live' = Live \cup {i}
    BY <2>3, <2>4 DEF Typed, Live
  <2> QED
    BY <1>3, <2>3, <2>4, <2>5, ImplicitInv DEF Taken
<1> QED
  BY <1>5, <1>6, <1>7

LEMMA ReallocInv ==
    ASSUME HeapInv, NEW i \in Index, NEW size \in Sizes, Realloc(i, size), mm = "implicit",
           SIZE_T = 8
    PROVE  HeapInv'
<1>1. PICK S : Held(h, S)
  BY ImplicitView DEF HeapInv
<1>2. PICK r : r = Implicit!mm_realloc(h, blocks[i], size)
  OBVIOUS
<1>3. Reallocated(i, size, r) /\ i \in Live /\ mm' = "implicit"
  BY <1>2 DEF Realloc, mm_realloc, Live, Request
<1>4. size \in Nat /\ size # 0
  BY SizesAre
<1>5. blocks[i] \in Used(h, S)
  BY <1>1, <1>3 DEF Owns, Held
<1>6. (r.p = NULL /\ r.h = h) \/ \E T : Moved(h, S, blocks[i], size, r, T)
  BY <1>1, <1>2, <1>4, <1>5, ReallocIs DEF Held
<1>7. CASE r.p = NULL /\ r.h = h
  <2>1. /\ verdict' = "mm_realloc failed" /\ h' = h /\ blocks' = blocks
        /\ block_sizes' = block_sizes
    BY <1>3, <1>7 DEF Reallocated, Accept
  <2> QED
    BY <1>1, <1>3, <2>1, ImplicitInv DEF HeapInv, Live, Typed, Held
<1>8. CASE \E T : Moved(h, S, blocks[i], size, r, T)
  <2>1. PICK T : Moved(h, S, blocks[i], size, r, T)
    BY <1>8
  <2>2. PICK m, b, z : Noted(i, size, r, m, b, z)
    BY DEF Noted
  <2>3. PICK others :
            /\ others = Live \ {i} /\ Live = others \cup {i}
            /\ Taken(r.h, m, T, r.p, size, i, others, b, z) /\ Preserved(r.h, r.p, i, size)
    <3>1. Typed /\ i \in Live /\ size \in Sizes
      BY <1>3 DEF HeapInv
    <3>2. PICK ptr, others : ptr = blocks[i] /\ others = Live \ {i}
      OBVIOUS
    <3> QED
      BY <1>1, <2>1, <2>2, <3>1, <3>2, ReallocatedIs
  <2>4. verdict' = "valid" /\ h' = m /\ blocks' = b /\ block_sizes' = z
    BY <1>3, <2>1, <2>2, <2>3 DEF Reallocated, Accept, Taken, Moved, remove_range, Noted
  <2>5. Typed' /\ Live' = Live
    <3>1. r.p \in Nat /\ r.p # NULL /\ Typed /\ i \in Index
      BY <1>3, <2>1, TilesFacts DEF Moved, Used, HeapInv, Live
    <3>2. b \in [Index -> Nat] /\ z \in [Index -> Nat] /\ Live \cup {i} = {j \in Index : b[j] # NULL}
      BY <2>2, <3>1, NotedIs
    <3> QED
      BY <1>3, <2>4, <3>2 DEF Typed, Live
  <2> QED
    BY <1>3, <2>3, <2>4, <2>5, ImplicitInv DEF Taken
<1> QED
  BY <1>6, <1>7, <1>8

\* Of mm-implict.c, with a size_t of 8 bytes and a heap that mm_init finds room in.
THEOREM HeapCorrect ==
    ASSUME CHUNKSIZE + 16 <= MAX_HEAP, SIZE_T = 8
    PROVE  Spec => [](mm = "implicit" => HeapInv)
<1>1. Init => (mm = "implicit" => HeapInv)
  BY InitInv
<1>2. (mm = "implicit" => HeapInv) /\ [Next]_vars => (mm = "implicit" => HeapInv)'
  <2>1. SUFFICES ASSUME mm = "implicit" => HeapInv, [Next]_vars, mm' = "implicit" PROVE HeapInv'
    OBVIOUS
  <2>2. mm = "implicit"
    BY <2>1 DEF Next, NextTrace, Free, Alloc, Realloc, Request, vars
  <2>3. HeapInv
    BY <2>1, <2>2
  <2>4. CASE NextTrace
    BY <2>2, <2>3, <2>4, NextTraceInv
  <2>5. ASSUME NEW i \in Index, Free(i) PROVE HeapInv'
    BY <2>2, <2>3, <2>5, FreeInv
  <2>6. ASSUME NEW i \in Index, NEW size \in Sizes, Alloc(i, size) PROVE HeapInv'
    BY <2>2, <2>3, <2>6, AllocInv
  <2>7. ASSUME NEW i \in Index, NEW size \in Sizes, Realloc(i, size) PROVE HeapInv'
    BY <2>2, <2>3, <2>7, ReallocInv
  <2>8. CASE UNCHANGED vars
    BY <2>3, <2>8 DEF vars, HeapInv, Live, Typed, View, Epilogue, Held
  <2> QED
    BY <2>1, <2>4, <2>5, <2>6, <2>7, <2>8 DEF Next
<1> QED
  BY <1>1, <1>2, PTL DEF Spec

-----------------------------------------------------------------------------
(* The properties of the heap that the driver's runs check. *)

\* Walking from the prologue by the sizes in the headers visits every block, and no more.
LEMMA BlocksAre ==
    ASSUME NEW S, NEW k, k.mem = h.mem, Tiles(k, S)
    PROVE  Blocks = S
<1> DEFINE End(bp) == Sz(k, bp) <= 0 \/ Succ(k, bp) \notin Ptrs
           G(from) == [bp \in Ptrs |-> IF GET_SIZE(h, HDRP(bp)) <= 0 \/ Succ(h, bp) \notin Ptrs
                                       THEN {bp} ELSE {bp} \cup from[Succ(h, bp)]]
           F == CHOOSE from : from = G(from)
           nx == [bp \in Ptrs |-> IF End(bp) THEN bp ELSE Succ(k, bp)]
           V == SUBSET Ptrs
           base == [bp \in Ptrs |-> {bp}]
           comb == [bp \in Ptrs |-> [v \in V |-> {bp} \cup v]]
<1>0. \A x : Sz(k, x) = GET_SIZE(h, HDRP(x)) /\ Succ(k, x) = Succ(h, x)
  BY DEF Sz, Succ, GET_SIZE, GET
<1>1. Ptrs \in SUBSET Nat /\ \A x \in Ptrs : x <= MAX_HEAP
  BY PtrIs
<1>2. ASSUME NEW x \in Ptrs PROVE Sz(k, x) \in Int /\ Succ(k, x) = x + Sz(k, x)
  <2>1. x - 4 \in Words
    BY PtrIs, HeaderWord
  <2>2. k.mem[x - 4] \in Int
    BY <2>1 DEF Tiles, Heap
  <2> QED
    BY <2>2 DEF Succ, Sz, GET_SIZE, GET, HDRP, WSIZE
<1>3. nx \in [Ptrs -> Ptrs] /\ base \in [Ptrs -> V] /\ comb \in [Ptrs -> [V -> V]]
  OBVIOUS
<1>4. \A x \in Ptrs : x <= nx[x]
  BY <1>1, <1>2
<1>5. \A x \in Ptrs : nx[x] = x <=> End(x)
  BY <1>1, <1>2
<1>6. PICK f \in [Ptrs -> V] :
          \A x \in Ptrs : f[x] = IF nx[x] = x THEN base[x] ELSE comb[x][f[nx[x]]]
  <2> HIDE DEF nx, V, base, comb, F
  <2>1. LoopOver(Ptrs, MAX_HEAP, V, base, comb, nx)
    BY <1>1, <1>3, <1>4, HeapAssumption DEF LoopOver
  <2> QED
    BY <2>1, LoopDefined
<1>7. \A x \in Ptrs : f[x] = IF End(x) THEN {x} ELSE {x} \cup f[Succ(k, x)]
  <2>1. SUFFICES ASSUME NEW x \in Ptrs
                 PROVE  f[x] = IF End(x) THEN {x} ELSE {x} \cup f[Succ(k, x)]
    OBVIOUS
  <2>2. CASE End(x)
    BY <1>5, <1>6, <2>2
  <2>3. CASE ~End(x)
    <3>1. nx[x] = Succ(k, x) /\ f[nx[x]] \in V
      BY <2>3
    <3>2. comb[x][f[nx[x]]] = {x} \cup f[nx[x]]
      BY <3>1
    <3> QED
      BY <1>5, <1>6, <2>3, <3>1, <3>2
  <2> QED
    BY <2>2, <2>3
<1> HIDE DEF nx, V, base, comb
<1>8. \A x \in Ptrs : F[x] = IF End(x) THEN {x} ELSE {x} \cup F[Succ(k, x)]
  <2>1. \A from : G(from) = [x \in Ptrs |-> IF End(x) THEN {x} ELSE {x} \cup from[Succ(k, x)]]
    BY <1>0
  <2>2. f = G(f)
    <3> HIDE DEF G, F, End
    <3> QED
      BY <1>7, <2>1
  <2>3. F = G(F)
    <3> HIDE DEF G
    <3> QED
      BY <2>2
  <2> HIDE DEF G, F, End
  <2> QED
    BY <2>1, <2>3
<1>9. Blocks = F[Lo(k)]
  <2>1. Succ(h, First) = Lo(k)
    BY <1>0, PrologueIs DEF First, WSIZE
  <2> QED
    BY <2>1 DEF Blocks
<1> HIDE DEF F, G
<1>10. S \subseteq Ptrs /\ k.brk \in S /\ k.brk \in Nat /\ \A x \in S : x \in Nat /\ Lo(k) <= x /\ x <= k.brk
  BY TilesFacts DEF Tiles
<1> DEFINE Bad == {x \in S : F[x] # {y \in S : x <= y}}
<1>11. Bad = {}
  <2>1. SUFFICES ASSUME Bad # {} PROVE FALSE
    OBVIOUS
  <2>2. PICK x \in Bad : \A y \in Bad : y <= x
    <3>1. Bad \in SUBSET Nat /\ \A y \in Bad : y <= k.brk
      BY <1>10
    <3> HIDE DEF Bad
    <3> QED
      BY <1>10, <2>1, <3>1, GreatestNatural
  <2>3. x \in S /\ x \in Ptrs /\ F[x] # {y \in S : x <= y}
    BY <1>10
  <2>4. x # k.brk
    <3>1. SUFFICES ASSUME x = k.brk PROVE FALSE
      OBVIOUS
    <3>2. F[x] = {x}
      <4>1. Sz(k, x) = 0
        BY <3>1, EpilogueUsed
      <4>2. Sz(k, x) <= 0
        BY <4>1
      <4> QED
        BY <1>8, <2>3, <4>2
    <3>3. {y \in S : x <= y} = {x}
      BY <1>10, <3>1
    <3> QED
      BY <2>3, <3>2, <3>3
  <2>5. PICK n \in S : n = x + Sz(k, x) /\ x < n /\ n = Succ(k, x) /\ \A y \in S : y <= x \/ n <= y
    BY <2>3, <2>4, BlockFacts, FooterIs
  <2>6. ~(Sz(k, x) <= 0) /\ n \in Ptrs /\ n \notin Bad
    <3>1. x \in Nat /\ n \in Nat /\ ~(n <= x)
      BY <1>10, <2>3, <2>5
    <3>2. n \notin Bad
      <4> HIDE DEF Bad
      <4> QED
        BY <2>2, <3>1
    <3> QED
      BY <1>2, <1>10, <2>3, <2>5, <3>1, <3>2
  <2>7. F[n] = {y \in S : n <= y}
    BY <2>6
  <2>8. F[x] = {x} \cup F[n]
    BY <1>8, <2>3, <2>5, <2>6
  <2>9. {y \in S : x <= y} = {x} \cup {y \in S : n <= y}
    <3>1. n \in Nat /\ x \in Nat
      BY <1>10, <2>3, <2>5
    <3>2. ASSUME NEW y \in S PROVE x <= y <=> (y = x \/ n <= y)
      <4>1. y \in Nat /\ (y <= x \/ n <= y) /\ x < n
        BY <1>10, <2>5
      <4> QED
        BY <3>1, <4>1
    <3> QED
      BY <2>3, <3>2
  <2> QED
    BY <2>3, <2>7, <2>8, <2>9
<1>12. F[Lo(k)] = {y \in S : Lo(k) <= y}
  BY <1>11 DEF Tiles
<1>13. {y \in S : Lo(k) <= y} = S
  BY <1>10
<1> QED
  BY <1>9, <1>12, <1>13

LEMMA TiledIs ==
    ASSUME mm \in {"implicit", "explicit"}, HeapInv
    PROVE  HeapTiled /\ NoFreeNeighbours
<1>1. PICK k, S : k = View /\ Held(k, S)
  BY DEF HeapInv
<1>2. k.mem = h.mem /\ k.brk = Epilogue /\ Blocks = S
  <2>1. k.mem = h.mem /\ k.brk = Epilogue
    BY <1>1 DEF View
  <2> QED
    BY <1>1, <2>1, BlocksAre DEF Held
<1>3. /\ Tiles(k, S) /\ Merged(k, S) /\ Owns(k, S, Live, blocks, block_sizes)
      /\ \A x : Sz(k, x) = GET_SIZE(h, HDRP(x)) /\ Al(k, x) = GET_ALLOC(h, HDRP(x))
      /\ \A x : Succ(k, x) = Succ(h, x) /\ FTRP(k, x) = FTRP(h, x)
  BY <1>1, <1>2 DEF Held, Sz, Al, Succ, FTRP, GET_SIZE, GET_ALLOC, GET
<1>4. \A x \in S \ {k.brk} : GET(h, HDRP(x)) = GET(h, FTRP(h, x))
  <2>1. SUFFICES ASSUME NEW x \in S \ {k.brk} PROVE GET(h, HDRP(x)) = GET(h, FTRP(h, x))
    OBVIOUS
  <2>2. k.mem[x + Sz(k, x) - 8] = k.mem[x - 4]
    BY <1>3 DEF Tiles, BlockIn
  <2>3. FTRP(k, x) = x + Sz(k, x) - 8
    BY <1>3, FooterIs
  <2> QED
    BY <1>2, <1>3, <2>2, <2>3 DEF GET, HDRP, WSIZE
<1>5. FreeBlocks = {x \in S \ {k.brk} : Al(k, x) = 0}
  BY <1>2, <1>3, EpilogueUsed DEF FreeBlocks
<1>6. Used(k, S) = S \ (FreeBlocks \cup {k.brk})
  BY <1>3, <1>5, BlockFacts DEF Used
<1>7. HeapTiled
  <2>1. k.brk \in S /\ GET(h, HDRP(k.brk)) = PACK(0, 1)
    BY <1>2, <1>3 DEF Tiles, GET, HDRP, PACK, WSIZE
  <2>2. \A i \in Live : block_sizes[i] + DSIZE <= Size(blocks[i])
    BY <1>3 DEF Owns, Holds, DSIZE, Size
  <2>3. {blocks[i] : i \in Live} = S \ (FreeBlocks \cup {k.brk})
    BY <1>3, <1>6 DEF Owns
  <2> QED
    BY <1>2, <1>4, <2>1, <2>2, <2>3 DEF HeapTiled
<1>8. NoFreeNeighbours
  <2>1. SUFFICES ASSUME NEW x \in FreeBlocks PROVE GET_ALLOC(h, HDRP(Succ(h, x))) = 1
    BY DEF NoFreeNeighbours
  <2>2. x \in S \ {k.brk} /\ Al(k, x) = 0
    BY <1>5
  <2>3. Al(k, Succ(k, x)) = 1
    BY <1>3, <2>2, FooterIs DEF Merged
  <2> QED
    BY <1>3, <2>3
<1> QED
  BY <1>7, <1>8

\* In the heap of mm-implict.c headers lead from the prologue to the epilogue, footers agree
\* with them, and the blocks in use are those that a payload was given in.
THEOREM BlocksTileTheHeap ==
    ASSUME CHUNKSIZE + 16 <= MAX_HEAP, SIZE_T = 8
    PROVE  Spec => [](mm = "implicit" => HeapTiled)
<1>1. (mm = "implicit" => HeapInv) => (mm = "implicit" => HeapTiled)
  BY TiledIs
<1> QED
  BY <1>1, HeapCorrect, PTL

\* coalesce leaves no free block of mm-implict.c beside another.
THEOREM FreeBlocksAreMerged ==
    ASSUME CHUNKSIZE + 16 <= MAX_HEAP, SIZE_T = 8
    PROVE  Spec => [](mm = "implicit" => NoFreeNeighbours)
<1>1. (mm = "implicit" => HeapInv) => (mm = "implicit" => NoFreeNeighbours)
  BY TiledIs
<1> QED
  BY <1>1, HeapCorrect, PTL

-----------------------------------------------------------------------------
(* When a request fails, and what the callers see. *)

\* The allocator is not changed while the driver runs.
LEMMA SameAllocator == Spec /\ mm = "implicit" => [](mm = "implicit")
<1>1. mm = "implicit" /\ [Next]_vars => (mm = "implicit")'
  BY DEF Next, NextTrace, Free, Alloc, Realloc, Request, vars
<1> QED
  BY <1>1, PTL DEF Spec

\* mm_malloc of mm-implict.c gives up only when no free block is large enough and the heap
\* cannot grow.
THEOREM GivesUpOnlyWhenFull ==
    ASSUME CHUNKSIZE + 16 <= MAX_HEAP, SIZE_T = 8
    PROVE  Spec /\ mm = "implicit" => FailsOnlyWhenFull
<1> DEFINE Full(size) == /\ \E n \in Growths(size) : ~CanGrow(h, n)
                         /\ HasBlocks => \A bp \in FreeBlocks : ~Suffices(bp, asize(size))
<1>1. ASSUME HeapInv, mm = "implicit", Next, verdict # "mm_malloc failed",
             verdict' = "mm_malloc failed"
      PROVE  \E i \in Index, size \in Sizes : Alloc(i, size) /\ Full(size)
  <2>1. PICK S : Held(h, S) /\ Tiles(h, S) /\ Merged(h, S)
    BY <1>1, ImplicitView DEF HeapInv, Held
  <2>2. PICK i \in Index, size \in Sizes : Alloc(i, size)
    <3>1. ~NextTrace
      BY <1>1 DEF NextTrace
    <3>2. \A i \in Index : ~Free(i)
      BY <1>1 DEF Free
    <3>3. ASSUME NEW i \in Index, NEW size \in Sizes PROVE ~Realloc(i, size)
      BY <1>1 DEF Realloc, Reallocated, Accept, add_range
    <3> QED
      BY <1>1, <3>1, <3>2, <3>3 DEF Next
  <2>3. PICK r : r = Implicit!mm_malloc(h, size)
    OBVIOUS
  <2>4. Allocated(i, size, r)
    BY <1>1, <2>2, <2>3 DEF Alloc, mm_malloc
  <2>5. r.p = NULL
    BY <1>1, <2>4 DEF Allocated, Accept, add_range
  <2>6. Refused(h, S, size, r)
    <3>1. size \in Nat /\ size # 0
      BY SizesAre
    <3> QED
      BY <2>1, <2>3, <2>5, <3>1, MallocIs DEF Granted
  <2>7. \E n \in Growths(size) : ~CanGrow(h, n)
    <3>1. Growths(size) = {asize(size), CHUNKSIZE}
      BY <1>1 DEF Growths
    <3> QED
      BY <2>6, <3>1 DEF Refused
  <2>8. ASSUME NEW bp \in FreeBlocks PROVE ~Suffices(bp, asize(size))
    <3>1. bp \in S /\ Al(h, bp) = 0
      BY <2>1, BlocksAre DEF FreeBlocks, Al
    <3>2. bp # h.brk
      BY <2>1, <3>1, EpilogueUsed
    <3>3. Sz(h, bp) < asize(size) /\ Sz(h, bp) \in Nat /\ asize(size) \in Nat
      BY <2>1, <2>6, <3>1, <3>2, BlockFacts, SizesAre, AsizeIs DEF Refused
    <3>4. Suffices(bp, asize(size)) <=> Size(bp) >= asize(size)
      BY <1>1 DEF Suffices
    <3> QED
      BY <3>3, <3>4 DEF Size, Sz
  <2> QED
    BY <2>2, <2>7, <2>8
<1>2. (mm = "implicit" => HeapInv) /\ mm = "implicit" /\ [Next]_vars
        => [verdict # "mm_malloc failed" /\ verdict' = "mm_malloc failed" =>
              \E i \in Index, size \in Sizes :
                 /\ Alloc(i, size)
                 /\ \E n \in Growths(size) : ~CanGrow(h, n)
                 /\ HasBlocks => \A bp \in FreeBlocks : ~Suffices(bp, asize(size))]_vars
  BY <1>1
<1> QED
  BY <1>2, HeapCorrect, SameAllocator, PTL DEF Spec, FailsOnlyWhenFull

\* What Allocator.tla says of the state of the driver: the region of every id, and what is
\* in it.
SeenRegion == [i \in Index |-> IF i \in Live THEN Payload(blocks[i], block_sizes[i]) ELSE {}]
SeenData ==
    [i \in Index |->
        IF i \in Live /\ \A w \in Payload(blocks[i], block_sizes[i]) : h.mem[w] = Fill(i)
        THEN i ELSE 0]

\* Payloads are filled, not empty, apart and inside the heap.
SeenFacts ==
    /\ SeenData = [i \in Index |-> IF i \in Live THEN i ELSE 0]
    /\ \A i \in Live : SeenRegion[i] # {} /\ SeenData[i] = i
    /\ \A i, j \in Live : i # j => SeenRegion[i] \cap SeenRegion[j] = {}
    /\ \A i \in Live : \E k \in 1 .. (MAX_HEAP - block_sizes[i]) \div 8 : blocks[i] = 8 * k

LEMMA SeenIs == HeapInv => SeenFacts
<1> SUFFICES ASSUME HeapInv PROVE SeenFacts
  OBVIOUS
<1>1. PICK k, S : /\ k.mem = h.mem /\ Tiles(k, S) /\ Merged(k, S)
                   /\ Owns(k, S, Live, blocks, block_sizes)
  BY DEF HeapInv, Held, View
<1>2. ASSUME NEW i \in Live
      PROVE  /\ i \in Index /\ Holds(k, S, blocks[i], block_sizes[i], i)
             /\ SeenRegion[i] = Payload(blocks[i], block_sizes[i]) /\ SeenData[i] = i
             /\ SeenRegion[i] \subseteq Body(k, blocks[i])
  <2>1. i \in Index /\ Holds(k, S, blocks[i], block_sizes[i], i)
    BY <1>1 DEF Live, Owns
  <2>2. SeenRegion[i] = Payload(blocks[i], block_sizes[i]) /\ SeenData[i] = i
    BY <1>1, <2>1 DEF SeenRegion, SeenData, Holds
  <2>3. Payload(blocks[i], block_sizes[i]) \subseteq Body(k, blocks[i])
    BY <1>1, <2>1, PayloadIs DEF Holds
  <2> QED
    BY <2>1, <2>2, <2>3
<1>3. SeenData = [i \in Index |-> IF i \in Live THEN i ELSE 0]
  BY <1>2 DEF SeenData, Holds
<1>4. ASSUME NEW i \in Live PROVE SeenRegion[i] # {}
  <2>1. PICK n \in Nat : n = block_sizes[i] /\ n % 4 = 0 /\ n # 0
    BY <1>2 DEF Holds
  <2>2. 0 \in 0 .. (n \div 4) - 1
    BY <2>1
  <2>3. blocks[i] + WSIZE * 0 \in Payload(blocks[i], n)
    BY <2>2 DEF Payload, WSIZE
  <2> QED
    BY <1>2, <2>1, <2>3
<1>5. ASSUME NEW i \in Live, NEW j \in Live, i # j PROVE SeenRegion[i] \cap SeenRegion[j] = {}
  <2>1. PICK p \in Used(k, S), q \in Used(k, S) : p = blocks[i] /\ q = blocks[j] /\ p # q
    BY <1>1, <1>5 DEF Owns
  <2>2. /\ p \in Nat /\ q \in Nat /\ Sz(k, p) \in Nat /\ Sz(k, q) \in Nat
        /\ (q <= p \/ p + Sz(k, p) <= q) /\ (p <= q \/ q + Sz(k, q) <= p)
    BY <1>1, <2>1, BlockFacts DEF Used
  <2>3. ASSUME NEW w, w \in Body(k, p), w \in Body(k, q) PROVE FALSE
    <3>1. w \in Nat /\ p <= w /\ w < p + Sz(k, p) - 8 /\ q <= w /\ w < q + Sz(k, q) - 8
      BY <2>3, WordIs DEF Body
    <3> QED
      BY <2>1, <2>2, <3>1
  <2> QED
    BY <1>2, <2>1, <2>3
<1>6. ASSUME NEW i \in Live
      PROVE  \E l \in 1 .. (MAX_HEAP - block_sizes[i]) \div 8 : blocks[i] = 8 * l
  <2>1. PICK p \in Used(k, S), n \in Nat :
            p = blocks[i] /\ n = block_sizes[i] /\ n + 8 <= Sz(k, p)
    BY <1>2 DEF Holds
  <2>2. /\ p \in Nat /\ p % 8 = 0 /\ 16 <= p /\ Sz(k, p) \in Nat /\ p + Sz(k, p) <= MAX_HEAP
    BY <1>1, <2>1, BlockFacts DEF Used
  <2>3. PICK l \in Nat : l = p \div 8 /\ p = 8 * l
    BY <2>2
  <2>4. 8 * l <= MAX_HEAP - n /\ MAX_HEAP - n \in Nat
    BY <2>1, <2>2, <2>3, HeapAssumption
  <2>5. l <= (MAX_HEAP - n) \div 8 /\ 1 <= l
    BY <2>2, <2>3, <2>4
  <2> QED
    BY <2>1, <2>3, <2>4, <2>5
<1> QED
  BY <1>2, <1>3, <1>4, <1>5, <1>6 DEF SeenFacts

\* A request that gives the id i a payload of size bytes, for those that see only regions.
LEMMA GiveRefines ==
    ASSUME Typed, SeenFacts, SeenFacts', NEW i \in Index, NEW size \in Sizes, NEW p,
           blocks' = [blocks EXCEPT ![i] = p], p # NULL,
           block_sizes' = [block_sizes EXCEPT ![i] = size]
    PROVE  Seen!Give(i, size)
<1>1. blocks \in [Index -> Nat] /\ block_sizes \in [Index -> Nat]
  BY DEF Typed
<1>2. Live' = Live \cup {i} /\ Live \subseteq Index
  BY <1>1 DEF Live
<1>3. blocks'[i] = p /\ block_sizes'[i] = size
  BY <1>1
<1>4. SeenFacts /\ SeenFacts'
  OBVIOUS
<1>5. PICK k \in 1 .. (MAX_HEAP - size) \div 8 : p = 8 * k
  BY <1>2, <1>3, <1>4 DEF SeenFacts
<1>6. SeenData' = [SeenData EXCEPT ![i] = i]
  BY <1>2, <1>4 DEF SeenFacts
<1>7. Payload(p, size) = Seen!Region(8 * k, size)
  BY <1>5 DEF Payload, Seen!Region, WSIZE
<1>8. SeenRegion' = [SeenRegion EXCEPT ![i] = Seen!Region(8 * k, size)]
  BY <1>1, <1>2, <1>3, <1>7 DEF SeenRegion
<1>9. ASSUME NEW j \in Index \ {i} PROVE Seen!Region(8 * k, size) \cap SeenRegion[j] = {}
  <2>1. CASE j \in Live
    <3>1. SeenRegion'[i] \cap SeenRegion'[j] = {}
      BY <1>2, <1>4, <2>1 DEF SeenFacts
    <3>2. SeenRegion'[i] = Seen!Region(8 * k, size) /\ SeenRegion'[j] = SeenRegion[j]
      BY <1>8 DEF SeenRegion
    <3> QED
      BY <3>1, <3>2
  <2>2. CASE j \notin Live
    BY <2>2 DEF SeenRegion
  <2> QED
    BY <2>1, <2>2
<1> QED
  BY <1>5, <1>6, <1>8, <1>9 DEF Seen!Give, SeenRegion, SeenData

\* Every step of the driver is one that Allocator.tla allows, or none that it sees.
LEMMA StepRefines ==
    ASSUME Typed, SeenFacts, SeenFacts', Next
    PROVE  Seen!Next \/ UNCHANGED Seen!vars
<1>1. SeenFacts /\ SeenFacts'
  OBVIOUS
<1>2. blocks \in [Index -> Nat] /\ block_sizes \in [Index -> Nat] /\ Live \subseteq Index
  BY DEF Typed, Live
<1>3. CASE NextTrace
  <2>1. Live' = {}
    BY <1>3 DEF NextTrace, NoBlocks, Live
  <2>2. SeenRegion' = [i \in Index |-> {}] /\ SeenData' = [i \in Index |-> 0]
    BY <1>1, <2>1 DEF SeenFacts, SeenRegion
  <2>3. Seen!Restart
    BY <2>2 DEF Seen!Restart, SeenRegion, SeenData
  <2> QED
    BY <2>3 DEF Seen!Next
<1>4. ASSUME NEW i \in Index, Free(i) PROVE Seen!Next
  <2>1. blocks' = [blocks EXCEPT ![i] = NULL] /\ block_sizes' = block_sizes /\ i \in Live
    BY <1>4 DEF Free, Live
  <2>2. Live' = Live \ {i}
    BY <1>2, <2>1 DEF Live
  <2>3. SeenData' = [SeenData EXCEPT ![i] = 0]
    BY <1>1, <2>2 DEF SeenFacts
  <2>4. SeenRegion' = [SeenRegion EXCEPT ![i] = {}]
    BY <1>2, <2>1, <2>2 DEF SeenRegion
  <2>5. SeenRegion[i] # {} /\ SeenData[i] = i
    BY <1>1, <2>1 DEF SeenFacts
  <2>6. Seen!Free(i)
    BY <2>3, <2>4, <2>5 DEF Seen!Free, SeenRegion, SeenData
  <2> QED
    BY <2>6 DEF Seen!Next
<1>5. ASSUME blocks' = blocks, block_sizes' = block_sizes PROVE UNCHANGED Seen!vars
  <2>1. Live' = Live
    BY <1>5 DEF Live
  <2>2. SeenRegion' = SeenRegion /\ SeenData' = SeenData
    BY <1>1, <1>5, <2>1 DEF SeenFacts, SeenRegion
  <2> QED
    BY <2>2 DEF Seen!vars, SeenRegion, SeenData
<1>6. ASSUME NEW i \in Index, NEW size \in Sizes, Alloc(i, size)
      PROVE  Seen!Next \/ UNCHANGED Seen!vars
  <2>1. PICK r : Allocated(i, size, r) /\ i \notin Live
    BY <1>6 DEF Alloc, Live
  <2>2. CASE blocks' = blocks /\ block_sizes' = block_sizes
    BY <1>5, <2>2
  <2>3. CASE /\ blocks' = [blocks EXCEPT ![i] = r.p] /\ r.p # NULL
             /\ block_sizes' = [block_sizes EXCEPT ![i] = size]
    <3>1. Seen!Give(i, size)
      BY <2>3, GiveRefines
    <3>2. SeenRegion[i] = {}
      BY <2>1 DEF SeenRegion
    <3>3. Seen!Malloc(i, size)
      BY <3>1, <3>2 DEF Seen!Malloc, SeenRegion
    <3> QED
      BY <3>3 DEF Seen!Next
  <2> QED
    BY <2>1, <2>2, <2>3 DEF Allocated, Accept
<1>7. ASSUME NEW i \in Index, NEW size \in Sizes, Realloc(i, size)
      PROVE  Seen!Next \/ UNCHANGED Seen!vars
  <2>1. PICK r : Reallocated(i, size, r) /\ i \in Live
    BY <1>7 DEF Realloc, Live
  <2>2. CASE blocks' = blocks /\ block_sizes' = block_sizes
    BY <1>5, <2>2
  <2>3. CASE /\ blocks' = [blocks EXCEPT ![i] = r.p] /\ r.p # NULL
             /\ block_sizes' = [block_sizes EXCEPT ![i] = size]
    <3>1. Seen!Give(i, size)
      BY <2>3, GiveRefines
    <3>2. SeenRegion[i] # {} /\ SeenData[i] = i
      BY <1>1, <2>1 DEF SeenFacts
    <3>3. Seen!Realloc(i, size)
      BY <3>1, <3>2 DEF Seen!Realloc, SeenRegion, SeenData
    <3> QED
      BY <3>3 DEF Seen!Next
  <2> QED
    BY <2>1, <2>2, <2>3 DEF Reallocated, Accept
<1> QED
  BY <1>3, <1>4, <1>6, <1>7 DEF Next

\* An allocator under which the payloads are always filled and apart implements the
\* abstract one.
LEMMA SeenImplements == Spec /\ [](Typed /\ SeenFacts) => ImplementsAllocator
<1>1. Init => Seen!Init
  <2>1. SUFFICES ASSUME Init PROVE Seen!Init
    OBVIOUS
  <2>2. Live = {}
    BY <2>1 DEF Init, NoBlocks, Live
  <2> QED
    BY <2>2 DEF Seen!Init
<1>2. Typed /\ SeenFacts /\ (Typed /\ SeenFacts)' /\ [Next]_vars => [Seen!Next]_(Seen!vars)
  <2>1. SUFFICES ASSUME Typed, SeenFacts, SeenFacts', [Next]_vars
                 PROVE  Seen!Next \/ UNCHANGED Seen!vars
    OBVIOUS
  <2>2. CASE Next
    BY <2>1, <2>2, StepRefines
  <2>3. CASE UNCHANGED vars
    BY <2>3 DEF vars, Seen!vars, Live
  <2> QED
    BY <2>1, <2>2, <2>3
<1> QED
  BY <1>1, <1>2, PTL DEF Spec, ImplementsAllocator, Seen!Spec

\* To those that call it, mm-implict.c gives and takes back stretches of the heap that
\* nobody else has, and leaves alone what is in them.
THEOREM PayloadsAreApart ==
    ASSUME CHUNKSIZE + 16 <= MAX_HEAP, SIZE_T = 8
    PROVE  Spec /\ mm = "implicit" => ImplementsAllocator
<1>1. HeapInv => Typed /\ SeenFacts
  BY SeenIs DEF HeapInv
<1> QED
  BY <1>1, HeapCorrect, SameAllocator, SeenImplements, PTL

-----------------------------------------------------------------------------
(* The driver on mm-naive.c, which never reuses anything: what was given out lies apart
   from all that came before because the heap only grows. *)

\* A payload of size bytes at p, behind the size_t that holds its size, filled for the id i.
Stored(g, p, size, i) ==
    /\ p \in Nat /\ p % 8 = 0 /\ 8 <= p /\ p + size <= g.brk
    /\ size \in Nat /\ size % 4 = 0 /\ size # 0
    /\ g.mem[p - 8] = size /\ (SIZE_T = 8 => g.mem[p - 4] = 0)
    /\ \A w \in Payload(p, size) : g.mem[w] = Fill(i)

\* Two payloads with their size_t do not meet.
Clear(p, size, q, other) == p + size <= q - 8 \/ q + other <= p - 8

Growing(g) == g \in Heap /\ g.brk % 8 = 0 /\ g.brk <= MAX_HEAP

\* Payloads are filled, behind their sizes and apart; the driver found no fault.
NaiveInv ==
    /\ Typed /\ verdict \in {"valid", "mm_malloc failed", "mm_realloc failed"}
    /\ Growing(h)
    /\ \A i \in Live : Stored(h, blocks[i], block_sizes[i], i)
    /\ \A i, j \in Live : i # j => Clear(blocks[i], block_sizes[i], blocks[j], block_sizes[j])

LEMMA NaiveMacros ==
    /\ \A g, n : Naive!CanGrow(g, n) = CanGrow(g, n) /\ Naive!mem_sbrk(g, n) = mem_sbrk(g, n)
    /\ \A g, p, val : Naive!PUT(g, p, val) = PUT(g, p, val)
BY DEF Naive!CanGrow, CanGrow, Naive!mem_sbrk, mem_sbrk, Naive!PUT, PUT

LEMMA NaivePayload ==
    ASSUME NEW g, g.brk <= MAX_HEAP, g.brk \in Nat, NEW p \in Nat, p % 8 = 0, NEW size \in Nat,
           size % 4 = 0, p + size <= g.brk, NEW w \in Payload(p, size)
    PROVE  w \in Words /\ w \in Nat /\ p <= w /\ w + 4 <= p + size
<1>1. PICK k \in 0 .. (size \div 4) - 1 : w = p + 4 * k
  BY DEF Payload, WSIZE
<1>2. k \in Nat /\ 4 * k + 4 <= size
  BY <1>1
<1>3. w \in Nat /\ w % 4 = 0 /\ p <= w /\ w + 4 <= p + size
  BY <1>1, <1>2
<1>4. w < MAX_HEAP
  BY <1>3, HeapAssumption
<1> QED
  BY <1>3, <1>4, InWords

\* A new payload at p has been given in the heap k that was g.
Appended(g, k, p, size) ==
    /\ Growing(k) /\ p = g.brk + 8 /\ p + size <= k.brk
    /\ k.mem[p - 8] = size /\ (SIZE_T = 8 => k.mem[p - 4] = 0)
    /\ \A w \in Words : w < g.brk => k.mem[w] = g.mem[w]

\* mm_malloc of mm-naive.c.
LEMMA NaiveMallocIs ==
    ASSUME NEW g, Growing(g), NEW size \in Nat, size # 0, size % 4 = 0,
           NEW r, r = Naive!mm_malloc(g, size)
    PROVE  \/ r.p = NULL /\ r.h = g /\ ~CanGrow(g, Naive!newsize(size))
           \/ r.p # NULL /\ Appended(g, r.h, r.p, size)
<1>1. PICK n \in Nat : n = Naive!newsize(size) /\ n % 8 = 0 /\ size + 8 <= n
  BY DEF Naive!newsize, Naive!ALIGN, Naive!DSIZE
<1>2. CASE ~CanGrow(g, n)
  BY <1>1, <1>2, NaiveMacros DEF Naive!mm_malloc, Naive!NULL, NULL
<1>3. CASE CanGrow(g, n)
  <2>1. PICK e \in Nat : e = g.brk /\ e % 8 = 0 /\ e + n <= MAX_HEAP
    BY <1>1, <1>3 DEF CanGrow, Growing, Heap
  <2>2. e \in Words /\ e + 4 \in Words
    <3>1. e % 4 = 0 /\ (e + 4) % 4 = 0
      BY <2>1
    <3>2. MAX_HEAP \in Nat
      BY HeapAssumption
    <3>3. e + 4 \in Nat /\ e + 4 < MAX_HEAP /\ e < MAX_HEAP
      BY <1>1, <2>1, <3>2
    <3> QED
      BY <2>1, <3>1, <3>3, InWords
  <2>3. PICK f : f = mem_sbrk(g, n)
    OBVIOUS
  <2>4. f \in Heap /\ f.brk = e + n /\ f.mem = g.mem
    BY <1>1, <2>1, <2>3 DEF mem_sbrk, Growing, Heap
  <2>5. PICK m : m = PUT(f, e, size)
    OBVIOUS
  <2>6. /\ m \in Heap /\ m.brk = e + n /\ m.mem[e] = size
        /\ \A w \in Words \ {e} : m.mem[w] = g.mem[w]
    BY <2>2, <2>4, <2>5 DEF PUT, Heap
  <2>7. PICK k : k = IF SIZE_T = 8 THEN PUT(m, e + 4, 0) ELSE m
    OBVIOUS
  <2>8. e + 4 # e
    BY <2>1
  <2>9. /\ k \in Heap /\ k.brk = e + n /\ k.mem[e] = size /\ (SIZE_T = 8 => k.mem[e + 4] = 0)
        /\ \A w \in Words \ {e, e + 4} : k.mem[w] = g.mem[w]
    <3>1. CASE SIZE_T = 8
      BY <2>2, <2>6, <2>7, <2>8, <3>1 DEF PUT, Heap
    <3>2. CASE SIZE_T # 8
      BY <2>6, <2>7, <3>2
    <3> QED
      BY <3>1, <3>2
  <2>10. r.h = k /\ r.p = e + 8
    BY <1>1, <1>3, <2>1, <2>3, <2>5, <2>7, NaiveMacros
    DEF Naive!mm_malloc, Naive!WSIZE, Naive!DSIZE
  <2>11. Growing(k)
    <3>1. (e + n) % 8 = 0
      BY <1>1, <2>1
    <3> QED
      BY <2>1, <2>9, <3>1 DEF Growing
  <2>12. ASSUME NEW w \in Words, w < g.brk PROVE k.mem[w] = g.mem[w]
    <3>1. w # e /\ w # e + 4
      BY <2>1, <2>12, WordIs
    <3> QED
      BY <2>9, <3>1
  <2>13. (e + 8) - 8 = e /\ (e + 8) - 4 = e + 4 /\ (e + 8) + size <= e + n /\ e + 8 # 0
    BY <1>1, <2>1
  <2>14. Appended(g, k, e + 8, size)
    BY <2>1, <2>9, <2>11, <2>12, <2>13 DEF Appended
  <2> QED
    BY <2>10, <2>13, <2>14 DEF NULL
<1> QED
  BY <1>1, <1>2, <1>3

\* A payload stays as it was when only words behind the old end of the heap change.
LEMMA StoredKept ==
    ASSUME NEW g, Growing(g), NEW k, g.brk <= k.brk, k.brk \in Nat,
           \A w \in Words : w < g.brk => k.mem[w] = g.mem[w],
           NEW p, NEW size, NEW i, Stored(g, p, size, i)
    PROVE  Stored(k, p, size, i)
<1>1. /\ p \in Nat /\ p % 8 = 0 /\ 8 <= p /\ p + size <= g.brk /\ g.brk \in Nat
      /\ size \in Nat /\ size % 4 = 0 /\ size # 0 /\ g.brk <= MAX_HEAP /\ MAX_HEAP \in Nat
  BY HeapAssumption DEF Stored, Growing, Heap
<1>2. p - 8 \in Words /\ p - 8 < g.brk /\ p - 4 \in Words /\ p - 4 < g.brk
  <2>1. p - 8 \in Nat /\ p - 4 \in Nat /\ p - 8 < MAX_HEAP /\ p - 4 < MAX_HEAP
    BY <1>1
  <2>2. (p - 8) % 4 = 0 /\ (p - 4) % 4 = 0
    BY <1>1
  <2> QED
    BY <1>1, <2>1, <2>2, InWords
<1>3. k.mem[p - 8] = size /\ (SIZE_T = 8 => k.mem[p - 4] = 0)
  BY <1>2 DEF Stored
<1>4. ASSUME NEW w \in Payload(p, size) PROVE k.mem[w] = Fill(i)
  <2>1. w \in Words /\ w \in Nat /\ w + 4 <= p + size
    BY <1>1, NaivePayload
  <2>2. w < g.brk
    BY <1>1, <2>1
  <2> QED
    BY <2>1, <2>2 DEF Stored
<1>5. p + size <= k.brk
  BY <1>1
<1> QED
  BY <1>1, <1>3, <1>4, <1>5 DEF Stored

\* A payload that was appended is accepted, filled, and then its id's.
LEMMA NaiveAcceptIs ==
    ASSUME NEW g, Growing(g), NEW k, NEW p, NEW i \in Index, NEW size \in Nat, size % 4 = 0,
           size # 0, Appended(g, k, p, size), NEW others \in SUBSET Index,
           \A j \in others : Stored(g, blocks[j], block_sizes[j], j),
           NEW m, m = memset(k, p, i, size)
    PROVE  /\ add_range(k, p, size, others) = "valid" /\ Growing(m)
           /\ Stored(m, p, size, i)
           /\ \A j \in others : /\ Stored(m, blocks[j], block_sizes[j], j)
                                /\ Clear(blocks[j], block_sizes[j], p, size)
<1>1. /\ g.brk \in Nat /\ g.brk % 8 = 0 /\ p = g.brk + 8 /\ k \in Heap /\ k.brk \in Nat
      /\ p + size <= k.brk /\ k.brk <= MAX_HEAP /\ k.brk % 8 = 0 /\ MAX_HEAP \in Nat
  BY HeapAssumption DEF Appended, Growing, Heap
<1>2. p \in Nat /\ p % 8 = 0 /\ 8 <= p
  BY <1>1
<1>3. ASSUME NEW w \in Payload(p, size)
      PROVE  w \in Words /\ w \in Nat /\ p <= w /\ w + 4 <= p + size
  BY <1>1, <1>2, NaivePayload
<1>4. ASSUME NEW j \in others
      PROVE  /\ blocks[j] \in Nat /\ block_sizes[j] \in Nat
             /\ blocks[j] + block_sizes[j] <= g.brk /\ 8 <= blocks[j]
  BY DEF Stored
<1>5. Fill(i) \in Int
  <2>1. i \in Nat
    BY DriverAssumption
  <2> QED
    BY <2>1 DEF Fill
<1>6. /\ m \in Heap /\ m.brk = k.brk
      /\ \A w \in Words : m.mem[w] = IF w \in Payload(p, size) THEN Fill(i) ELSE k.mem[w]
  BY <1>1, <1>5 DEF memset, Heap
<1>7. Growing(m)
  BY <1>1, <1>6 DEF Growing
<1>8. add_range(k, p, size, others) = "valid"
  <2>1. ~(p % 8 # 0) /\ ~(p > k.brk - 1) /\ ~(p + size - 1 > k.brk - 1)
    BY <1>1, <1>2
  <2>2. ASSUME NEW j \in others
        PROVE  /\ ~(blocks[j] <= p /\ p <= blocks[j] + block_sizes[j] - 1)
               /\ ~(blocks[j] <= p + size - 1 /\ p + size - 1 <= blocks[j] + block_sizes[j] - 1)
    BY <1>1, <1>2, <1>4
  <2> QED
    BY <2>1, <2>2 DEF add_range
<1>9. ASSUME NEW w \in Words, w < p PROVE m.mem[w] = k.mem[w]
  <2>1. w \notin Payload(p, size)
    <3>1. w \in Nat
      BY WordIs
    <3> QED
      BY <1>2, <1>3, <1>9, <3>1
  <2> QED
    BY <1>6, <2>1
<1>10. ASSUME NEW w \in Words, w < g.brk PROVE m.mem[w] = g.mem[w]
  <2>1. w < p
    BY <1>1, <1>10, WordIs
  <2> QED
    BY <1>9, <1>10, <2>1 DEF Appended
<1>11. Stored(m, p, size, i)
  <2>1. p - 8 \in Words /\ p - 4 \in Words
    <3>1. p - 8 \in Nat /\ p - 4 \in Nat /\ p - 8 < MAX_HEAP /\ p - 4 < MAX_HEAP
      BY <1>1, <1>2
    <3>2. (p - 8) % 4 = 0 /\ (p - 4) % 4 = 0
      BY <1>2
    <3> QED
      BY <3>1, <3>2, InWords
  <2>2. p - 8 < p /\ p - 4 < p
    BY <1>2
  <2>3. m.mem[p - 8] = size /\ (SIZE_T = 8 => m.mem[p - 4] = 0)
    BY <1>9, <2>1, <2>2 DEF Appended
  <2>4. \A w \in Payload(p, size) : m.mem[w] = Fill(i)
    BY <1>3, <1>6
  <2> QED
    BY <1>1, <1>2, <1>6, <2>3, <2>4 DEF Stored
<1>12. ASSUME NEW j \in others
       PROVE  /\ Stored(m, blocks[j], block_sizes[j], j)
              /\ Clear(blocks[j], block_sizes[j], p, size)
  <2>1. g.brk <= m.brk /\ m.brk \in Nat
    BY <1>1, <1>6
  <2>2. Stored(m, blocks[j], block_sizes[j], j)
    BY <1>10, <2>1, StoredKept
  <2>3. blocks[j] + block_sizes[j] <= p - 8
    BY <1>1, <1>4
  <2> QED
    BY <2>2, <2>3 DEF Clear
<1> QED
  BY <1>7, <1>8, <1>11, <1>12

\* mm_realloc of mm-naive.c: the first words of the new payload are those of the old one.
LEMMA NaiveReallocIs ==
    ASSUME NEW g, Growing(g), NEW i \in Index, Stored(g, blocks[i], block_sizes[i], i),
           NEW size \in Nat, size # 0, size % 4 = 0,
           NEW r, r = Naive!mm_realloc(g, blocks[i], size)
    PROVE  \/ r.p = NULL /\ r.h = g
           \/ r.p # NULL /\ Appended(g, r.h, r.p, size) /\ Preserved(r.h, r.p, i, size)
<1>1. PICK new : new = Naive!mm_malloc(g, size)
  OBVIOUS
<1>2. r = Naive!Move(new, blocks[i], size, Naive!mm_free)
  BY <1>1 DEF Naive!mm_realloc, Naive!realloc
<1>3. CASE new.p = NULL /\ new.h = g
  BY <1>2, <1>3 DEF Naive!Move, Naive!NULL, NULL
<1>4. CASE new.p # NULL /\ Appended(g, new.h, new.p, size)
  <2>1. PICK p, z : p = blocks[i] /\ z = block_sizes[i]
    OBVIOUS
  <2>2. /\ p \in Nat /\ p % 8 = 0 /\ 8 <= p /\ z \in Nat /\ z % 4 = 0 /\ z # 0
        /\ p + z <= g.brk /\ g.brk \in Nat /\ g.brk <= MAX_HEAP /\ MAX_HEAP \in Nat
    BY <2>1, HeapAssumption DEF Stored, Growing, Heap
  <2>3. PICK k, q : k = new.h /\ q = new.p
    OBVIOUS
  <2>4. /\ k \in Heap /\ k.brk \in Nat /\ k.brk % 8 = 0 /\ k.brk <= MAX_HEAP
        /\ q = g.brk + 8 /\ q + size <= k.brk
        /\ \A w \in Words : w < g.brk => k.mem[w] = g.mem[w]
    BY <1>4, <2>3 DEF Appended, Growing, Heap
  <2>5. Stored(k, p, z, i)
    <3>1. g.brk <= k.brk
      BY <2>2, <2>4
    <3> QED
      BY <2>1, <2>4, <3>1, StoredKept
  <2>6. PICK n : n = copySize(k, p, size)
    OBVIOUS
  <2>7. n = IF size < z THEN size ELSE z
    <3>1. GET(k, p - DSIZE) = z /\ (SIZE_T = 8 => GET(k, HDRP(p)) = 0)
      BY <2>5 DEF Stored, GET, DSIZE, HDRP, WSIZE
    <3> QED
      BY <2>6, <3>1 DEF copySize
  <2>8. n \in Nat /\ n <= z /\ n <= size /\ n % 4 = 0
    BY <2>2, <2>7
  <2>9. PICK m : m = memcpy(k, q, p, n)
    OBVIOUS
  <2>10. /\ m \in Heap /\ m.brk = k.brk
         /\ \A w \in Words : m.mem[w] = IF w >= q /\ w + 4 <= q + n
                                         THEN IF p + (w - q) \in Words THEN k.mem[p + (w - q)] ELSE 0
                                         ELSE k.mem[w]
    BY <2>4, <2>9 DEF memcpy, Heap, WSIZE
  <2>11. r.h = m /\ r.p = q
    <3>1. Naive!copySize(k, p, size) = n
      BY <2>6 DEF Naive!copySize, copySize, Naive!GET, GET, Naive!DSIZE, DSIZE, Naive!HDRP, HDRP,
                  Naive!WSIZE, WSIZE
    <3>2. Naive!memcpy(k, q, p, n) = m
      BY <2>9 DEF Naive!memcpy, memcpy, Naive!Words, Words, Naive!WSIZE, WSIZE
    <3> QED
      BY <1>2, <1>4, <2>1, <2>3, <3>1, <3>2 DEF Naive!Move, Naive!mm_free, Naive!NULL, NULL
  <2>12. ASSUME NEW w \in Words, w < q PROVE m.mem[w] = k.mem[w]
    <3>1. ~(w >= q)
      BY <2>2, <2>4, <2>12, WordIs
    <3> QED
      BY <2>10, <3>1
  <2>13. Appended(g, m, q, size)
    <3>1. q - 8 \in Words /\ q - 4 \in Words /\ q - 8 < q /\ q - 4 < q /\ g.brk < q
      <4>1. q - 8 \in Nat /\ q - 4 \in Nat /\ q - 8 < MAX_HEAP /\ q - 4 < MAX_HEAP
            /\ q - 8 < q /\ q - 4 < q /\ g.brk < q
        BY <2>2, <2>4
      <4>2. g.brk % 8 = 0
        BY DEF Growing
      <4>3. (q - 8) % 4 = 0 /\ (q - 4) % 4 = 0
        BY <2>2, <2>4, <4>2
      <4> QED
        BY <4>1, <4>3, InWords
    <3>2. m.mem[q - 8] = size /\ (SIZE_T = 8 => m.mem[q - 4] = 0)
      BY <1>4, <2>3, <2>12, <3>1 DEF Appended
    <3>3. ASSUME NEW w \in Words, w < g.brk PROVE m.mem[w] = g.mem[w]
      <4>1. w < q
        BY <2>2, <2>4, <3>3, WordIs
      <4> QED
        BY <2>4, <2>12, <3>3, <4>1
    <3>4. Growing(m)
      BY <2>4, <2>10 DEF Growing
    <3> QED
      BY <2>4, <2>10, <3>2, <3>3, <3>4 DEF Appended
  <2>14. ASSUME NEW w \in Payload(q, n) PROVE m.mem[w] = Fill(i)
    <3>1. PICK l \in 0 .. (n \div 4) - 1 : w = q + 4 * l
      BY DEF Payload, WSIZE
    <3>2. q \in Nat /\ q % 8 = 0 /\ q + n <= k.brk
      <4>1. g.brk % 8 = 0
        BY DEF Growing
      <4> QED
        BY <2>2, <2>4, <2>8, <4>1
    <3>3. w \in Words /\ w \in Nat /\ q <= w /\ w + 4 <= q + n
      BY <2>4, <2>8, <3>2, NaivePayload
    <3>4. p + (w - q) = p + 4 * l /\ l \in 0 .. (z \div 4) - 1
      BY <2>2, <2>8, <3>1, <3>2
    <3>5. p + (w - q) \in Payload(p, z)
      BY <3>4 DEF Payload, WSIZE
    <3>6. p + (w - q) \in Words
      BY <2>2, <3>5, NaivePayload
    <3>7. k.mem[p + (w - q)] = Fill(i)
      BY <2>5, <3>5 DEF Stored
    <3> QED
      BY <2>10, <3>3, <3>6, <3>7
  <2>15. Preserved(m, q, i, size)
    BY <2>1, <2>7, <2>14 DEF Preserved
  <2>16. Appended(g, r.h, r.p, size) /\ Preserved(r.h, r.p, i, size)
    BY <2>11, <2>13, <2>15
  <2>17. r.p # NULL
    BY <1>4, <2>3, <2>11
  <2> QED
    BY <2>16, <2>17
<1> QED
  BY <1>1, <1>3, <1>4, NaiveMallocIs

\* What the payloads are after the step that gave i one of size bytes.
LEMMA NaiveGivenInv ==
    ASSUME NaiveInv, NEW i \in Index, NEW size \in Sizes, NEW others, others = Live \ {i},
           NEW k, NEW p, Appended(h, k, p, size), p # NULL,
           NEW m, NEW b, NEW z, m = memset(k, p, i, size),
           b = [blocks EXCEPT ![i] = p], z = [block_sizes EXCEPT ![i] = size],
           verdict' = "valid", h' = m, blocks' = b, block_sizes' = z
    PROVE  NaiveInv'
<1>1. size \in Nat /\ size # 0 /\ size % 4 = 0
  BY SizesAre
<1>2. /\ blocks \in [Index -> Nat] /\ block_sizes \in [Index -> Nat] /\ Growing(h)
      /\ \A j \in Live : Stored(h, blocks[j], block_sizes[j], j)
      /\ \A j, l \in Live : j # l => Clear(blocks[j], block_sizes[j], blocks[l], block_sizes[l])
  BY DEF NaiveInv, Typed
<1>3. others \in SUBSET Index /\ others \subseteq Live /\ i \notin others
  BY DEF Live
<1>4. /\ Growing(m) /\ Stored(m, p, size, i)
      /\ \A j \in others : /\ Stored(m, blocks[j], block_sizes[j], j)
                           /\ Clear(blocks[j], block_sizes[j], p, size)
  <2>1. Appended(h, k, p, size) /\ Growing(h)
    BY <1>2
  <2>2. \A j \in others : Stored(h, blocks[j], block_sizes[j], j)
    BY <1>2, <1>3
  <2>3. m = memset(k, p, i, size) /\ others \in SUBSET Index
    BY <1>3
  <2>4. Growing(m) /\ Stored(m, p, size, i)
    <3>1. add_range(k, p, size, others) = "valid" /\ Growing(m) /\ Stored(m, p, size, i)
      BY <1>1, <2>1, <2>2, <2>3, NaiveAcceptIs
    <3> QED
      BY <3>1
  <2>5. ASSUME NEW j \in others
        PROVE  /\ Stored(m, blocks[j], block_sizes[j], j)
               /\ Clear(blocks[j], block_sizes[j], p, size)
    BY <1>1, <2>1, <2>2, <2>3, NaiveAcceptIs
  <2> QED
    BY <2>4, <2>5
<1>5. p \in Nat
  BY <1>4 DEF Stored
<1>6. b \in [Index -> Nat] /\ z \in [Index -> Nat]
  BY <1>1, <1>2, <1>5
<1>7. Live' = others \cup {i}
  BY <1>2 DEF Live
<1>8. b[i] = p /\ z[i] = size /\ \A j \in others : b[j] = blocks[j] /\ z[j] = block_sizes[j]
  BY <1>2, <1>3
<1>9. \A j \in others \cup {i} : Stored(m, b[j], z[j], j)
  BY <1>4, <1>8
<1>10. \A j \in others : Clear(b[j], z[j], b[i], z[i]) /\ Clear(b[i], z[i], b[j], z[j])
  BY <1>4, <1>8 DEF Clear
<1>11. \A j, l \in others : j # l => Clear(b[j], z[j], b[l], z[l])
  BY <1>2, <1>3, <1>8
<1>12. \A j, l \in others \cup {i} : j # l => Clear(b[j], z[j], b[l], z[l])
  BY <1>3, <1>10, <1>11
<1> QED
  BY <1>4, <1>6, <1>7, <1>9, <1>12 DEF NaiveInv, Typed

\* The driver's steps on mm-naive.c.
LEMMA NaiveInitInv ==
    ASSUME Init, mm = "naive"
    PROVE  NaiveInv
<1>1. h = [mem |-> [w \in Words |-> 0], brk |-> 0]
  BY DEF Init, mm_init, Naive!mm_init
<1>2. Growing(h)
  BY <1>1, HeapAssumption DEF Growing, Heap
<1>3. Live = {}
  BY DEF Init, NoBlocks, Live
<1> QED
  BY <1>2, <1>3 DEF NaiveInv, Typed, Init, NoBlocks, NULL

LEMMA NaiveNextTraceInv ==
    ASSUME NaiveInv, NextTrace, mm = "naive"
    PROVE  NaiveInv'
<1>1. h' = mem_reset_brk(h)
  BY DEF NextTrace, mm_init, Naive!mm_init
<1>2. Growing(h')
  <2>1. h'.brk = 0 /\ h' \in Heap
    BY <1>1 DEF NaiveInv, Growing, Heap, mem_reset_brk
  <2>2. MAX_HEAP \in Nat
    BY HeapAssumption
  <2> QED
    BY <2>1, <2>2 DEF Growing
<1>3. Live' = {}
  BY DEF NextTrace, NoBlocks, Live
<1>4. Typed' /\ verdict' = "valid"
  BY DEF NextTrace, NoBlocks, NULL, NaiveInv, Typed
<1> QED
  BY <1>2, <1>3, <1>4 DEF NaiveInv

LEMMA NaiveFreeInv ==
    ASSUME NaiveInv, NEW i \in Index, Free(i), mm = "naive"
    PROVE  NaiveInv'
<1>1. /\ h' = h /\ blocks' = [blocks EXCEPT ![i] = NULL]
      /\ block_sizes' = block_sizes /\ verdict' = verdict
  BY DEF Free, mm_free, Naive!mm_free
<1>2. Live' = Live \ {i} /\ \A j \in Live \ {i} : blocks'[j] = blocks[j]
  BY <1>1 DEF Live, NaiveInv, Typed
<1>3. Typed'
  BY <1>1 DEF NaiveInv, Typed, NULL
<1>4. \A j \in Live' : Stored(h', blocks'[j], block_sizes'[j], j)
  BY <1>1, <1>2 DEF NaiveInv
<1>5. \A j, l \in Live' :
          j # l => Clear(blocks'[j], block_sizes'[j], blocks'[l], block_sizes'[l])
  BY <1>1, <1>2 DEF NaiveInv
<1> QED
  BY <1>1, <1>3, <1>4, <1>5 DEF NaiveInv

\* A request that was turned down.
LEMMA NaiveRefusedInv ==
    ASSUME NaiveInv, h' = h, blocks' = blocks, block_sizes' = block_sizes,
           verdict' \in {"valid", "mm_malloc failed", "mm_realloc failed"}
    PROVE  NaiveInv'
BY DEF NaiveInv, Typed, Live

LEMMA NaiveAllocInv ==
    ASSUME NaiveInv, NEW i \in Index, NEW size \in Sizes, Alloc(i, size), mm = "naive"
    PROVE  NaiveInv'
<1>1. PICK r : r = Naive!mm_malloc(h, size)
  OBVIOUS
<1>2. Allocated(i, size, r) /\ i \in Index \ Live
  BY <1>1 DEF Alloc, mm_malloc, Live
<1>3. size \in Nat /\ size # 0 /\ size % 4 = 0
  BY SizesAre
<1>4. Growing(h)
  BY DEF NaiveInv
<1>5. (r.p = NULL /\ r.h = h) \/ (r.p # NULL /\ Appended(h, r.h, r.p, size))
  BY <1>1, <1>3, <1>4, NaiveMallocIs
<1>6. CASE r.p = NULL /\ r.h = h
  <2>1. /\ verdict' = "mm_malloc failed" /\ h' = h /\ blocks' = blocks
        /\ block_sizes' = block_sizes
    BY <1>2, <1>6 DEF Allocated, Accept
  <2> QED
    BY <2>1, NaiveRefusedInv
<1>7. CASE r.p # NULL /\ Appended(h, r.h, r.p, size)
  <2>1. PICK m, b, z : Noted(i, size, r, m, b, z)
    BY DEF Noted
  <2>2. PICK others : others = Live /\ others = Live \ {i} /\ others \in SUBSET Index
    BY <1>2 DEF Live
  <2>3. \A j \in others : Stored(h, blocks[j], block_sizes[j], j)
    BY <2>2 DEF NaiveInv
  <2>4. add_range(r.h, r.p, size, others) = "valid"
    BY <1>3, <1>4, <1>7, <2>2, <2>3, NaiveAcceptIs
  <2>5. verdict' = "valid" /\ h' = m /\ blocks' = b /\ block_sizes' = z
    BY <1>2, <1>7, <2>1, <2>2, <2>4 DEF Allocated, Accept, Noted
  <2> QED
    BY <1>7, <2>1, <2>2, <2>5, NaiveGivenInv DEF Noted
<1> QED
  BY <1>5, <1>6, <1>7

LEMMA NaiveReallocInv ==
    ASSUME NaiveInv, NEW i \in Index, NEW size \in Sizes, Realloc(i, size), mm = "naive"
    PROVE  NaiveInv'
<1>1. PICK r : r = Naive!mm_realloc(h, blocks[i], size)
  OBVIOUS
<1>2. Reallocated(i, size, r) /\ i \in Live
  BY <1>1 DEF Realloc, mm_realloc, Live
<1>3. size \in Nat /\ size # 0 /\ size % 4 = 0
  BY SizesAre
<1>4. Growing(h) /\ Stored(h, blocks[i], block_sizes[i], i)
  BY <1>2 DEF NaiveInv
<1>5. \/ r.p = NULL /\ r.h = h
      \/ r.p # NULL /\ Appended(h, r.h, r.p, size) /\ Preserved(r.h, r.p, i, size)
  BY <1>1, <1>3, <1>4, NaiveReallocIs
<1>6. CASE r.p = NULL /\ r.h = h
  <2>1. /\ verdict' = "mm_realloc failed" /\ h' = h /\ blocks' = blocks
        /\ block_sizes' = block_sizes
    BY <1>2, <1>6 DEF Reallocated, Accept
  <2> QED
    BY <2>1, NaiveRefusedInv
<1>7. CASE r.p # NULL /\ Appended(h, r.h, r.p, size) /\ Preserved(r.h, r.p, i, size)
  <2>1. PICK m, b, z : Noted(i, size, r, m, b, z)
    BY DEF Noted
  <2>2. PICK others : others = Live \ {i} /\ others \in SUBSET Index
    BY DEF Live
  <2>3. \A j \in others : Stored(h, blocks[j], block_sizes[j], j)
    BY <2>2 DEF NaiveInv
  <2>4. add_range(r.h, r.p, size, others) = "valid"
    BY <1>3, <1>4, <1>7, <2>2, <2>3, NaiveAcceptIs
  <2>5. verdict' = "valid" /\ h' = m /\ blocks' = b /\ block_sizes' = z
    BY <1>2, <1>7, <2>1, <2>2, <2>4 DEF Reallocated, Accept, Noted, remove_range
  <2> QED
    BY <1>7, <2>1, <2>2, <2>5, NaiveGivenInv DEF Noted
<1> QED
  BY <1>5, <1>6, <1>7

\* Of mm-naive.c, whatever the width of a size_t: payloads behind the sizes they were
\* asked for with, apart, and filled as the driver left them.
THEOREM NaiveCorrect == Spec => [](mm = "naive" => NaiveInv)
<1>1. Init => (mm = "naive" => NaiveInv)
  BY NaiveInitInv
<1>2. (mm = "naive" => NaiveInv) /\ [Next]_vars => (mm = "naive" => NaiveInv)'
  <2>1. SUFFICES ASSUME mm = "naive" => NaiveInv, [Next]_vars, mm' = "naive" PROVE NaiveInv'
    OBVIOUS
  <2>2. mm = "naive"
    BY <2>1 DEF Next, NextTrace, Free, Alloc, Realloc, Request, vars
  <2>3. NaiveInv
    BY <2>1, <2>2
  <2>4. CASE NextTrace
    BY <2>2, <2>3, <2>4, NaiveNextTraceInv
  <2>5. ASSUME NEW i \in Index, Free(i) PROVE NaiveInv'
    BY <2>2, <2>3, <2>5, NaiveFreeInv
  <2>6. ASSUME NEW i \in Index, NEW size \in Sizes, Alloc(i, size) PROVE NaiveInv'
    BY <2>2, <2>3, <2>6, NaiveAllocInv
  <2>7. ASSUME NEW i \in Index, NEW size \in Sizes, Realloc(i, size) PROVE NaiveInv'
    BY <2>2, <2>3, <2>7, NaiveReallocInv
  <2>8. CASE UNCHANGED vars
    BY <2>3, <2>8, NaiveRefusedInv DEF vars, NaiveInv
  <2> QED
    BY <2>1, <2>4, <2>5, <2>6, <2>7, <2>8 DEF Next
<1> QED
  BY <1>1, <1>2, PTL DEF Spec

LEMMA NaiveStays == Spec /\ mm = "naive" => [](mm = "naive")
<1>1. mm = "naive" /\ [Next]_vars => (mm = "naive")'
  BY DEF Next, NextTrace, Free, Alloc, Realloc, Request, vars
<1> QED
  BY <1>1, PTL DEF Spec

LEMMA NaiveSeenIs == NaiveInv => SeenFacts
<1> SUFFICES ASSUME NaiveInv PROVE SeenFacts
  OBVIOUS
<1>1. ASSUME NEW i \in Live
      PROVE  /\ i \in Index /\ Stored(h, blocks[i], block_sizes[i], i)
             /\ SeenRegion[i] = Payload(blocks[i], block_sizes[i]) /\ SeenData[i] = i
  BY DEF NaiveInv, Live, Stored, SeenRegion, SeenData
<1>2. h.brk \in Nat /\ h.brk <= MAX_HEAP /\ MAX_HEAP \in Nat
  BY HeapAssumption DEF NaiveInv, Growing, Heap
<1>3. SeenData = [i \in Index |-> IF i \in Live THEN i ELSE 0]
  BY <1>1 DEF SeenData, Stored
<1>4. ASSUME NEW i \in Live PROVE SeenRegion[i] # {}
  <2>1. PICK n \in Nat : n = block_sizes[i] /\ n % 4 = 0 /\ n # 0
    BY <1>1 DEF Stored
  <2>2. 0 \in 0 .. (n \div 4) - 1
    BY <2>1
  <2>3. blocks[i] + WSIZE * 0 \in Payload(blocks[i], n)
    BY <2>2 DEF Payload, WSIZE
  <2> QED
    BY <1>1, <2>1, <2>3
<1>5. ASSUME NEW i \in Live, NEW w \in SeenRegion[i]
      PROVE  w \in Nat /\ blocks[i] <= w /\ w < blocks[i] + block_sizes[i]
  <2>1. PICK p, z : p = blocks[i] /\ z = block_sizes[i]
    OBVIOUS
  <2>2. p \in Nat /\ p % 8 = 0 /\ z \in Nat /\ z % 4 = 0 /\ p + z <= h.brk
    BY <1>1, <2>1 DEF Stored
  <2>3. w \in Nat /\ p <= w /\ w + 4 <= p + z
    BY <1>1, <1>2, <1>5, <2>1, <2>2, NaivePayload
  <2> QED
    BY <2>1, <2>2, <2>3
<1>6. ASSUME NEW i \in Live, NEW j \in Live, i # j PROVE SeenRegion[i] \cap SeenRegion[j] = {}
  <2>1. /\ blocks[i] \in Nat /\ block_sizes[i] \in Nat /\ blocks[j] \in Nat
        /\ block_sizes[j] \in Nat
    BY <1>1 DEF Stored
  <2>2. \/ blocks[i] + block_sizes[i] <= blocks[j] - 8
        \/ blocks[j] + block_sizes[j] <= blocks[i] - 8
    BY <1>6 DEF NaiveInv, Clear
  <2>3. ASSUME NEW w, w \in SeenRegion[i], w \in SeenRegion[j] PROVE FALSE
    BY <1>5, <2>1, <2>2, <2>3
  <2> QED
    BY <2>3
<1>7. ASSUME NEW i \in Live
      PROVE  \E l \in 1 .. (MAX_HEAP - block_sizes[i]) \div 8 : blocks[i] = 8 * l
  <2>1. PICK p \in Nat, n \in Nat :
            p = blocks[i] /\ n = block_sizes[i] /\ p % 8 = 0 /\ 8 <= p /\ p + n <= h.brk
    BY <1>1 DEF Stored
  <2>2. PICK l \in Nat : l = p \div 8 /\ p = 8 * l
    BY <2>1
  <2>3. 8 * l <= MAX_HEAP - n /\ MAX_HEAP - n \in Nat
    BY <1>2, <2>1, <2>2
  <2>4. l <= (MAX_HEAP - n) \div 8 /\ 1 <= l
    BY <2>1, <2>2, <2>3
  <2> QED
    BY <2>1, <2>2, <2>4
<1> QED
  BY <1>1, <1>3, <1>4, <1>6, <1>7 DEF SeenFacts

\* mm-naive.c as well gives out stretches of the heap that nobody else has, and
\* mm_realloc takes what is in them along.
THEOREM NaivePayloadsAreApart == Spec /\ mm = "naive" => ImplementsAllocator
<1>1. NaiveInv => Typed /\ SeenFacts
  BY NaiveSeenIs DEF NaiveInv
<1> QED
  BY <1>1, NaiveCorrect, NaiveStays, SeenImplements, PTL

\* mm_malloc of mm-naive.c gives up only when the heap cannot grow: there is nothing to reuse.
THEOREM NaiveGivesUpOnlyWhenFull == Spec /\ mm = "naive" => FailsOnlyWhenFull
<1> DEFINE Full(size) == /\ \E n \in Growths(size) : ~CanGrow(h, n)
                         /\ HasBlocks => \A bp \in FreeBlocks : ~Suffices(bp, asize(size))
<1>1. ASSUME NaiveInv, mm = "naive", Next, verdict # "mm_malloc failed",
             verdict' = "mm_malloc failed"
      PROVE  \E i \in Index, size \in Sizes : Alloc(i, size) /\ Full(size)
  <2>1. PICK i \in Index, size \in Sizes : Alloc(i, size)
    <3>1. ~NextTrace
      BY <1>1 DEF NextTrace
    <3>2. \A i \in Index : ~Free(i)
      BY <1>1 DEF Free
    <3>3. ASSUME NEW i \in Index, NEW size \in Sizes PROVE ~Realloc(i, size)
      BY <1>1 DEF Realloc, Reallocated, Accept, add_range
    <3> QED
      BY <1>1, <3>1, <3>2, <3>3 DEF Next
  <2>2. PICK r : r = Naive!mm_malloc(h, size)
    OBVIOUS
  <2>3. Allocated(i, size, r)
    BY <1>1, <2>1, <2>2 DEF Alloc, mm_malloc
  <2>4. r.p = NULL
    BY <1>1, <2>3 DEF Allocated, Accept, add_range
  <2>5. ~CanGrow(h, Naive!newsize(size))
    <3>1. size \in Nat /\ size # 0 /\ size % 4 = 0 /\ Growing(h)
      BY <1>1, SizesAre DEF NaiveInv
    <3> QED
      BY <2>2, <2>4, <3>1, NaiveMallocIs
  <2>6. Growths(size) = {Naive!newsize(size)} /\ ~HasBlocks
    BY <1>1 DEF Growths, HasBlocks
  <2> QED
    BY <2>1, <2>5, <2>6
<1>2. (mm = "naive" => NaiveInv) /\ mm = "naive" /\ [Next]_vars
        => [verdict # "mm_malloc failed" /\ verdict' = "mm_malloc failed" =>
              \E i \in Index, size \in Sizes :
                 /\ Alloc(i, size)
                 /\ \E n \in Growths(size) : ~CanGrow(h, n)
                 /\ HasBlocks => \A bp \in FreeBlocks : ~Suffices(bp, asize(size))]_vars
  BY <1>1
<1> QED
  BY <1>2, NaiveCorrect, NaiveStays, PTL DEF Spec, FailsOnlyWhenFull
=============================================================================
