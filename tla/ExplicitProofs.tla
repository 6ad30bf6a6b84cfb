--------------------------- MODULE ExplicitProofs ---------------------------
(***************************************************************************)
(* Proofs about mm-explicit.c under its driver, for every size of the heap *)
(* and any requests: as for mm-implict.c in MallocProofs.tla the heap      *)
(* stays tiled and payloads stay apart, and the list leads through all     *)
(* free blocks and no others.                                              *)
(***************************************************************************)
EXTENDS MallocProofs, FiniteSetTheorems

-----------------------------------------------------------------------------
(* The list: the block after x, and the one before it, by the offsets in x's words. *)

Nx(g, x) == 8 + g.mem[x]
Pv(g, x) == 8 + g.mem[x + 4]

\* rk numbers the blocks of F in the order of the list, from the prologue, which is at 8, to
\* the epilogue at e: Nx leads to the next number and Pv back.
Numbered(g, F, e, rk) ==
    LET N == F \cup {8, e}
    IN  /\ rk \in [N -> Nat]
        /\ \A x, y \in N : rk[x] = rk[y] => x = y
        /\ \A x \in N : rk[8] <= rk[x] /\ rk[x] <= rk[e]
        /\ \A x \in N \ {e} :
              /\ Nx(g, x) \in N /\ Pv(g, Nx(g, x)) = x /\ rk[x] < rk[Nx(g, x)]
              /\ \A y \in N : rk[y] <= rk[x] \/ rk[Nx(g, x)] <= rk[y]
        /\ \A x \in N \ {8} : Pv(g, x) \in N \ {e} /\ Nx(g, Pv(g, x)) = x
Chain(g, F, e) == e # 8 /\ e \notin F /\ 8 \notin F /\ \E rk : Numbered(g, F, e, rk)

\* Addresses whose two words are in the heap, and no other one's.
Nodes(N) == \A x \in N : x \in Nat /\ x % 8 = 0 /\ x \in Words /\ x + 4 \in Words

LEMMA NodesApart ==
    ASSUME NEW N, Nodes(N)
    PROVE  \A x, y \in N : x + 4 # y /\ (x + 4 = y + 4 => x = y)
BY DEF Nodes

\* Only the words that make the list count.
LEMMA ChainKept ==
    ASSUME NEW g, NEW F, NEW e, Chain(g, F, e), NEW k,
           \A x \in F \cup {8} : k.mem[x] = g.mem[x],
           \A x \in F \cup {e} : k.mem[x + 4] = g.mem[x + 4]
    PROVE  Chain(k, F, e)
<1>1. PICK rk : Numbered(g, F, e, rk)
  BY DEF Chain
<1>2. /\ \A x \in (F \cup {8, e}) \ {e} : Nx(k, x) = Nx(g, x)
      /\ \A x \in (F \cup {8, e}) \ {8} : Pv(k, x) = Pv(g, x)
  BY DEF Nx, Pv
<1>3. \A x \in (F \cup {8, e}) \ {e} : Nx(g, x) # 8
  BY <1>1 DEF Numbered
<1>4. Numbered(k, F, e, rk)
  BY <1>1, <1>2, <1>3 DEF Numbered
<1> QED
  BY <1>4 DEF Chain

\* k is g with p and n made neighbours.
Joined(g, k, p, n) ==
    /\ k \in Heap /\ k.brk = g.brk /\ Nx(k, p) = n /\ Pv(k, n) = p
    /\ \A w \in Words : w # p /\ w # n + 4 => k.mem[w] = g.mem[w]

LEMMA JoinIs ==
    ASSUME NEW g \in Heap, NEW p \in Nat, NEW n \in Nat, p \in Words, n + 4 \in Words, p # n + 4,
           NEW k, k = PUT(PUT(g, p, n - 8), n + 4, p - 8)
    PROVE  Joined(g, k, p, n)
<1>1. PICK m : m = PUT(g, p, n - 8)
  OBVIOUS
<1>2. Puts(g, m, p, n - 8)
  BY <1>1, PutIs
<1>3. Puts(m, k, n + 4, p - 8)
  <2>1. m \in Heap /\ p - 8 \in Int
    BY <1>2 DEF Puts
  <2> QED
    BY <1>1, <2>1, PutIs
<1> QED
  BY <1>2, <1>3 DEF Puts, Joined, Nx, Pv

\* A block leaves the list.
LEMMA ChainLeaves ==
    ASSUME NEW g, NEW F, NEW e, Chain(g, F, e), Nodes(F \cup {8, e}), NEW bp \in F,
           NEW k, Joined(g, k, Pv(g, bp), Nx(g, bp))
    PROVE  Chain(k, F \ {bp}, e)
<1>1. PICK rk : Numbered(g, F, e, rk)
  BY DEF Chain
<1>2. PICK p, n : p = Pv(g, bp) /\ n = Nx(g, bp)
  OBVIOUS
<1> DEFINE N == F \cup {8, e}
           M == (F \ {bp}) \cup {8, e}
<1>3. bp # e /\ bp # 8 /\ bp \in N /\ M = N \ {bp}
  BY DEF Chain
<1>4. p \in N \ {e} /\ n \in N \ {8} /\ Nx(g, p) = bp /\ Pv(g, n) = bp /\ p # bp /\ n # bp
  BY <1>1, <1>2, <1>3 DEF Numbered
<1>5. /\ \A x \in M : x # p => k.mem[x] = g.mem[x]
      /\ \A x \in M : x # n => k.mem[x + 4] = g.mem[x + 4]
  BY <1>2, <1>4, NodesApart DEF Joined, Nodes
<1>6. /\ \A x \in M : x # p => Nx(k, x) = Nx(g, x)
      /\ \A x \in M : x # n => Pv(k, x) = Pv(g, x)
      /\ Nx(k, p) = n /\ Pv(k, n) = p
  BY <1>2, <1>5 DEF Joined, Nx, Pv
<1>7. PICK r : r = [x \in M |-> rk[x]]
  OBVIOUS
<1>8. ASSUME NEW x \in M \ {e}
      PROVE  /\ Nx(k, x) \in M /\ Pv(k, Nx(k, x)) = x /\ r[x] < r[Nx(k, x)]
             /\ \A y \in M : r[y] <= r[x] \/ r[Nx(k, x)] <= r[y]
  <2>1. CASE x = p
    BY <1>1, <1>2, <1>3, <1>4, <1>6, <1>7, <2>1 DEF Numbered
  <2>2. CASE x # p
    <3>1. Nx(k, x) = Nx(g, x) /\ Nx(g, x) \in N /\ Pv(g, Nx(g, x)) = x
      BY <1>1, <1>3, <1>6, <2>2 DEF Numbered
    <3>2. Nx(g, x) # bp /\ Nx(g, x) # n
      BY <1>2, <1>3, <1>4, <2>2, <3>1
    <3> QED
      BY <1>1, <1>3, <1>6, <1>7, <3>1, <3>2 DEF Numbered
  <2> QED
    BY <2>1, <2>2
<1>9. ASSUME NEW x \in M \ {8}
      PROVE  Pv(k, x) \in M \ {e} /\ Nx(k, Pv(k, x)) = x
  <2>1. CASE x = n
    BY <1>3, <1>4, <1>6, <2>1
  <2>2. CASE x # n
    <3>1. Pv(k, x) = Pv(g, x) /\ Pv(g, x) \in N \ {e} /\ Nx(g, Pv(g, x)) = x
      BY <1>1, <1>3, <1>6, <2>2 DEF Numbered
    <3>2. Pv(g, x) # bp /\ Pv(g, x) # p
      BY <1>2, <1>3, <1>4, <2>2, <3>1
    <3> QED
      BY <1>3, <1>6, <3>1, <3>2
  <2> QED
    BY <2>1, <2>2
<1>10. /\ r \in [M -> Nat] /\ \A x, y \in M : r[x] = r[y] => x = y
       /\ \A x \in M : r[8] <= r[x] /\ r[x] <= r[e]
  BY <1>1, <1>3, <1>7 DEF Numbered
<1> HIDE DEF N
<1>11. Numbered(k, F \ {bp}, e, r)
  BY <1>8, <1>9, <1>10 DEF Numbered
<1> QED
  BY <1>11 DEF Chain

\* k is g with x put between p and n.
Spliced(g, k, p, x, n) ==
    /\ k \in Heap /\ k.brk = g.brk
    /\ Nx(k, p) = x /\ Pv(k, x) = p /\ Nx(k, x) = n /\ Pv(k, n) = x
    /\ \A w \in Words : w # p /\ w # x /\ w # x + 4 /\ w # n + 4 => k.mem[w] = g.mem[w]

\* A block comes into the list.
LEMMA ChainEnters ==
    ASSUME NEW g, NEW F, NEW e, Chain(g, F, e), NEW x, x \notin F \cup {8, e},
           Nodes(F \cup {8, e, x}), NEW p \in F \cup {8}, NEW n, n = Nx(g, p),
           NEW k, Spliced(g, k, p, x, n)
    PROVE  Chain(k, F \cup {x}, e)
<1>1. PICK rk : Numbered(g, F, e, rk)
  BY DEF Chain
<1> DEFINE N == F \cup {8, e}
           M == (F \cup {x}) \cup {8, e}
<1>2. x \notin N /\ M = N \cup {x} /\ p \in N \ {e} /\ e \in N /\ 8 \in N
  BY DEF Chain
<1>3. n \in N \ {8} /\ Pv(g, n) = p /\ p # n
  BY <1>1, <1>2 DEF Numbered
<1>4. /\ \A y \in N : y # p => k.mem[y] = g.mem[y]
      /\ \A y \in N : y # n => k.mem[y + 4] = g.mem[y + 4]
  <2>1. Nodes(M)
    <3>1. M = F \cup {8, e, x}
      OBVIOUS
    <3> QED
      BY <3>1
  <2>2. \A y, z \in M : y \in Words /\ y + 4 \in Words /\ y + 4 # z /\ (y + 4 = z + 4 => y = z)
    BY <2>1, NodesApart DEF Nodes
  <2> QED
    BY <1>2, <1>3, <2>2 DEF Spliced
<1>5. /\ \A y \in N : y # p => Nx(k, y) = Nx(g, y)
      /\ \A y \in N : y # n => Pv(k, y) = Pv(g, y)
      /\ Nx(k, p) = x /\ Pv(k, x) = p /\ Nx(k, x) = n /\ Pv(k, n) = x
  BY <1>4 DEF Spliced, Nx, Pv
<1>6. PICK r : r = [y \in M |-> IF y = x THEN 2 * rk[p] + 1 ELSE 2 * rk[y]]
  OBVIOUS
<1>7. /\ r \in [M -> Nat] /\ \A y \in N : r[y] = 2 * rk[y] /\ rk[y] \in Nat
      /\ r[x] = 2 * rk[p] + 1 /\ rk[p] < rk[n]
      /\ \A y, z \in N : rk[y] = rk[z] => y = z
      /\ \A y \in N : rk[8] <= rk[y] /\ rk[y] <= rk[e]
      /\ \A y \in N : rk[y] <= rk[p] \/ rk[n] <= rk[y]
  <2>1. \A y \in N : rk[y] \in Nat
    BY <1>1 DEF Numbered
  <2> QED
    BY <1>1, <1>2, <1>6, <2>1 DEF Numbered
<1>8. ASSUME NEW y \in M \ {e}
      PROVE  /\ Nx(k, y) \in M /\ Pv(k, Nx(k, y)) = y /\ r[y] < r[Nx(k, y)]
             /\ \A z \in M : r[z] <= r[y] \/ r[Nx(k, y)] <= r[z]
  <2>1. CASE y = x
    BY <1>2, <1>3, <1>5, <1>7, <2>1
  <2>2. CASE y = p
    BY <1>2, <1>3, <1>5, <1>7, <2>2
  <2>3. CASE y # x /\ y # p
    <3>1. PICK l : l = Nx(g, y) /\ l \in N /\ Pv(g, l) = y /\ rk[y] < rk[l] /\ Nx(k, y) = l
      BY <1>1, <1>2, <1>5, <2>3 DEF Numbered
    <3>2. l # n /\ Pv(k, l) = y /\ y \in N
      BY <1>2, <1>3, <1>5, <2>3, <3>1
    <3>3. \A z \in N : rk[z] <= rk[y] \/ rk[l] <= rk[z]
      BY <1>1, <1>2, <2>3, <3>1, <3>2 DEF Numbered
    <3>4. r[x] <= r[y] \/ r[l] <= r[x]
      <4>1. rk[p] \in Nat /\ rk[y] \in Nat /\ rk[l] \in Nat /\ rk[p] # rk[y]
        BY <1>2, <1>7, <2>3, <3>1, <3>2
      <4>2. rk[p] < rk[y] \/ rk[l] <= rk[p]
        BY <1>2, <3>3, <4>1
      <4> QED
        BY <1>7, <3>1, <3>2, <4>1, <4>2
    <3> QED
      BY <1>2, <1>7, <3>1, <3>2, <3>3, <3>4
  <2> QED
    BY <2>1, <2>2, <2>3
<1>9. ASSUME NEW y \in M \ {8}
      PROVE  Pv(k, y) \in M \ {e} /\ Nx(k, Pv(k, y)) = y
  <2>1. CASE y = x \/ y = n
    BY <1>2, <1>5, <2>1
  <2>2. CASE y # x /\ y # n
    <3>1. Pv(k, y) = Pv(g, y) /\ Pv(g, y) \in N \ {e} /\ Nx(g, Pv(g, y)) = y
      BY <1>1, <1>2, <1>5, <2>2 DEF Numbered
    <3>2. Pv(g, y) # x /\ Pv(g, y) # p
      BY <1>2, <2>2, <3>1
    <3> QED
      BY <1>2, <1>5, <3>1, <3>2
  <2> QED
    BY <2>1, <2>2
<1>10. /\ r \in [M -> Nat] /\ \A y, z \in M : r[y] = r[z] => y = z
       /\ \A y \in M : r[8] <= r[y] /\ r[y] <= r[e]
  BY <1>2, <1>3, <1>7
<1> HIDE DEF N
<1>11. Numbered(k, F \cup {x}, e, r)
  BY <1>8, <1>9, <1>10 DEF Numbered
<1>12. x # 8 /\ x # e
  OBVIOUS
<1> QED
  BY <1>11, <1>12 DEF Chain

\* The list ends elsewhere.
LEMMA ChainEnds ==
    ASSUME NEW g, NEW F, NEW e, Chain(g, F, e), NEW end, end \notin F \cup {8},
           NEW p, p = Pv(g, e), NEW k, Nx(k, p) = end, Pv(k, end) = p,
           \A x \in F \cup {8} : x # p => k.mem[x] = g.mem[x],
           \A x \in F : k.mem[x + 4] = g.mem[x + 4]
    PROVE  Chain(k, F, end)
<1>1. PICK rk : Numbered(g, F, e, rk)
  BY DEF Chain
<1> DEFINE N == F \cup {8, e}
           M == F \cup {8, end}
<1>2. e # 8 /\ e \notin F /\ 8 \notin F /\ e \in N /\ end \in M
  BY DEF Chain
<1>3. p \in F \cup {8} /\ Nx(g, p) = e
  BY <1>1, <1>2 DEF Numbered
<1>4. /\ \A x \in F \cup {8} : x # p => Nx(k, x) = Nx(g, x)
      /\ \A x \in F : Pv(k, x) = Pv(g, x)
  BY DEF Nx, Pv
<1>5. PICK r : r = [x \in M |-> IF x = end THEN rk[e] ELSE rk[x]]
  OBVIOUS
<1>6. \A x \in F \cup {8} : x # p => Nx(g, x) \in F /\ Pv(g, Nx(g, x)) = x
  <2>1. SUFFICES ASSUME NEW x \in F \cup {8}, x # p
                 PROVE  Nx(g, x) \in F /\ Pv(g, Nx(g, x)) = x
    OBVIOUS
  <2>2. Nx(g, x) \in N /\ Nx(g, x) # 8 /\ Pv(g, Nx(g, x)) = x
    BY <1>1, <1>2 DEF Numbered
  <2> QED
    BY <2>1, <2>2
<1>7. ASSUME NEW x \in M \ {end}
      PROVE  /\ Nx(k, x) \in M /\ Pv(k, Nx(k, x)) = x /\ r[x] < r[Nx(k, x)]
             /\ \A y \in M : r[y] <= r[x] \/ r[Nx(k, x)] <= r[y]
  <2>1. CASE x = p
    BY <1>1, <1>2, <1>3, <1>5, <2>1 DEF Numbered
  <2>2. CASE x # p
    <3>1. Nx(k, x) = Nx(g, x) /\ Nx(g, x) \in F /\ Pv(k, Nx(k, x)) = x
      BY <1>4, <1>6, <2>2
    <3> QED
      BY <1>1, <1>2, <1>5, <3>1 DEF Numbered
  <2> QED
    BY <2>1, <2>2
<1>8. ASSUME NEW x \in M \ {8}
      PROVE  Pv(k, x) \in M \ {end} /\ Nx(k, Pv(k, x)) = x
  <2>1. CASE x = end
    BY <1>3, <2>1
  <2>2. CASE x # end
    <3>1. Pv(k, x) = Pv(g, x) /\ Pv(g, x) \in F \cup {8} /\ Nx(g, Pv(g, x)) = x /\ x # e
      BY <1>1, <1>2, <1>4, <2>2 DEF Numbered
    <3>2. Pv(g, x) # p
      BY <1>3, <3>1
    <3> QED
      BY <1>4, <3>1, <3>2
  <2> QED
    BY <2>1, <2>2
<1>9. /\ r \in [M -> Nat] /\ \A x, y \in M : r[x] = r[y] => x = y
      /\ \A x \in M : r[8] <= r[x] /\ r[x] <= r[end]
  BY <1>1, <1>2, <1>5 DEF Numbered
<1> HIDE DEF N
<1>10. Numbered(k, F, end, r)
  BY <1>7, <1>8, <1>9 DEF Numbered
<1> QED
  BY <1>2, <1>10 DEF Chain

-----------------------------------------------------------------------------
(* The heap of mm-explicit.c: two words follow the epilogue. *)

Short(g) == [mem |-> g.mem, brk |-> g.brk - 8]

LEMMA ShortIs ==
    ASSUME NEW g
    PROVE  /\ Short(g).mem = g.mem /\ Short(g).brk = g.brk - 8 /\ Lo(Short(g)) = Lo(g)
           /\ \A x : Sz(Short(g), x) = Sz(g, x) /\ Al(Short(g), x) = Al(g, x)
           /\ \A x : Succ(Short(g), x) = Succ(g, x) /\ Pred(Short(g), x) = Pred(g, x)
BY DEF Short, Lo, Sz, Al, Succ, Pred, GET_SIZE, GET_ALLOC, GET

\* Blocks begin at the addresses of S, behind a prologue of 16 bytes and up to the epilogue;
\* each has room for a header, a footer and two words of the list.
Shape(g, S) ==
    /\ g \in Heap /\ g.brk <= MAX_HEAP /\ Tiles(Short(g), S) /\ Lo(g) = 24
    /\ \A x \in S \ {g.brk - 8} : 16 <= Sz(g, x)

FreeIn(g, S) == {x \in S \ {g.brk - 8} : Al(g, x) = 0}

\* Where words of the list are.
Ends(g, S) == FreeIn(g, S) \cup {8, g.brk - 8}

\* What is known of the blocks.
LEMMA ShapeFacts ==
    ASSUME NEW g, NEW S, Shape(g, S), NEW e, e = g.brk - 8
    PROVE  /\ e \in S /\ e \in Nat /\ e % 8 = 0 /\ 24 <= e /\ e + 8 <= MAX_HEAP /\ g.brk = e + 8
           /\ Al(g, e) = 1 /\ Sz(g, e) = 0 /\ e = Short(g).brk
           /\ \A x \in S : x \in Nat /\ x % 8 = 0 /\ 24 <= x /\ x <= e
           /\ \A x \in S \ {e} : /\ Sz(g, x) \in Nat /\ Sz(g, x) % 8 = 0 /\ 16 <= Sz(g, x)
                                 /\ x + Sz(g, x) \in S /\ Al(g, x) \in {0, 1}
                                 /\ \A y \in S : y <= x \/ x + Sz(g, x) <= y
<1>1. Tiles(Short(g), S) /\ Short(g).brk = e /\ Lo(Short(g)) = 24
  BY ShortIs DEF Shape
<1>2. e \in S /\ e \in Nat /\ g.brk \in Nat /\ g.brk = e + 8 /\ e + 8 <= MAX_HEAP
  BY <1>1, TilesFacts DEF Tiles, Shape, Heap
<1>3. \A x \in S : x \in Nat /\ x % 8 = 0 /\ 24 <= x /\ x <= e
  BY <1>1, TilesFacts
<1>4. Al(g, e) = 1 /\ Sz(g, e) = 0
  BY <1>1, EpilogueUsed, ShortIs
<1>5. ASSUME NEW x \in S \ {e}
      PROVE  /\ Sz(g, x) \in Nat /\ Sz(g, x) % 8 = 0 /\ x + Sz(g, x) \in S /\ Al(g, x) \in {0, 1}
             /\ \A y \in S : y <= x \/ x + Sz(g, x) <= y
  BY <1>1, <1>5, BlockFacts, ShortIs
<1> QED
  BY <1>1, <1>2, <1>3, <1>4, <1>5 DEF Shape

\* Words of the list are no headers and no footers.
LEMMA EndsApart ==
    ASSUME NEW g, NEW S, Shape(g, S)
    PROVE  /\ Nodes(Ends(g, S))
           /\ \A x \in Ends(g, S) : /\ \A p \in S : x # p - 4 /\ x + 4 # p - 4
                                                    /\ x # p - 8 /\ x + 4 # p - 8
                                    /\ x # 4 /\ x + 4 # 4 /\ x # 16 /\ x + 4 # 16
<1>1. PICK e : e = g.brk - 8
  OBVIOUS
<1>2. ASSUME NEW x \in Ends(g, S)
      PROVE  /\ x \in Nat /\ x % 8 = 0 /\ 8 <= x /\ x + 8 <= MAX_HEAP /\ x # 16
             /\ \A p \in S : p # x + 8
  <2>1. CASE x = 8
    <3>1. 24 <= e /\ e \in Nat /\ e + 8 <= MAX_HEAP /\ \A p \in S : p \in Nat /\ 24 <= p
      BY <1>1, ShapeFacts
    <3> QED
      BY <2>1, <3>1, HeapAssumption
  <2>2. CASE x = e
    BY <1>1, <2>2, ShapeFacts
  <2>3. CASE x \in S \ {e}
    <3>1. /\ x \in Nat /\ x % 8 = 0 /\ 24 <= x /\ Sz(g, x) \in Nat /\ 16 <= Sz(g, x)
          /\ x + Sz(g, x) \in S /\ \A y \in S : y <= x \/ x + Sz(g, x) <= y
      BY <1>1, <2>3, ShapeFacts
    <3>2. x + Sz(g, x) <= e /\ e \in Nat /\ e + 8 <= MAX_HEAP /\ \A p \in S : p \in Nat
      BY <1>1, <3>1, ShapeFacts
    <3> QED
      BY <3>1, <3>2, HeapAssumption
  <2> QED
    BY <1>1, <2>1, <2>2, <2>3 DEF Ends, FreeIn
<1>3. ASSUME NEW x \in Ends(g, S) PROVE x \in Words /\ x + 4 \in Words
  <2>1. PICK n \in Nat : n = x /\ n % 8 = 0 /\ n + 8 <= MAX_HEAP
    BY <1>2, <1>3
  <2>2. n % 4 = 0 /\ n < MAX_HEAP /\ n + 4 \in Nat /\ (n + 4) % 4 = 0 /\ n + 4 < MAX_HEAP
    BY <2>1, HeapAssumption
  <2> QED
    BY <2>1, <2>2, InWords
<1>4. ASSUME NEW x \in Ends(g, S), NEW p \in S
      PROVE  x # p - 4 /\ x + 4 # p - 4 /\ x # p - 8 /\ x + 4 # p - 8
  <2>1. p \in Nat /\ p % 8 = 0 /\ x \in Nat /\ x % 8 = 0 /\ p # x + 8
    BY <1>1, <1>2, <1>4, ShapeFacts
  <2> QED
    BY <2>1
<1> QED
  BY <1>2, <1>3, <1>4 DEF Nodes

\* k is g with other words of the list.
Relinked(g, k, S) ==
    /\ k \in Heap /\ k.brk = g.brk
    /\ \A w \in Words : (\A x \in Ends(g, S) : w # x /\ w # x + 4) => k.mem[w] = g.mem[w]

\* No word of the list is in a payload.
LEMMA BodyApart ==
    ASSUME NEW g, NEW S, Shape(g, S), NEW x \in Used(Short(g), S), NEW w \in Body(Short(g), x)
    PROVE  24 <= w /\ \A y \in Ends(g, S) : w # y /\ w # y + 4
<1>1. PICK e : e = g.brk - 8
  OBVIOUS
<1>2. x \in S \ {e} /\ Al(g, x) = 1 /\ w \in Words /\ x <= w /\ w < x + Sz(g, x) - 8
  BY <1>1, ShortIs DEF Used, Body
<1>3. /\ x \in Nat /\ 24 <= x /\ Sz(g, x) \in Nat /\ x + Sz(g, x) <= e /\ w \in Nat /\ e \in Nat
      /\ \A y \in S : y \in Nat /\ (y <= x \/ x + Sz(g, x) <= y)
  BY <1>1, <1>2, ShapeFacts, WordIs
<1>4. ASSUME NEW y \in FreeIn(g, S) PROVE w # y /\ w # y + 4
  <2>1. y \in S \ {e} /\ y # x
    BY <1>1, <1>2 DEF FreeIn
  <2>2. Sz(g, y) \in Nat /\ 16 <= Sz(g, y) /\ (x <= y \/ y + Sz(g, y) <= x)
    BY <1>1, <1>2, <2>1, ShapeFacts
  <2> QED
    BY <1>2, <1>3, <2>1, <2>2
<1>5. w # 8 /\ w # 8 + 4 /\ w # e /\ w # e + 4
  BY <1>2, <1>3
<1> QED
  BY <1>1, <1>2, <1>3, <1>4, <1>5 DEF Ends

LEMMA RelinkedIs ==
    ASSUME NEW g, NEW S, Shape(g, S), NEW k, Relinked(g, k, S)
    PROVE  /\ Shape(k, S) /\ Same(Short(g), S, Short(k), S) /\ Ends(k, S) = Ends(g, S)
           /\ FreeIn(k, S) = FreeIn(g, S)
           /\ \A x \in S : Sz(k, x) = Sz(g, x) /\ Al(k, x) = Al(g, x)
<1>1. PICK e : e = g.brk - 8 /\ e = k.brk - 8
  BY DEF Relinked
<1>2. \A p \in S : p - 4 \in Words => k.mem[p - 4] = g.mem[p - 4]
  BY EndsApart DEF Relinked
<1>3. \A p \in S : p - 8 \in Words => k.mem[p - 8] = g.mem[p - 8]
  BY EndsApart DEF Relinked
<1>4. \A x \in S : x - 4 \in Words
  <2>1. \A x \in S : x \in Nat /\ x % 8 = 0 /\ 8 <= x /\ x <= MAX_HEAP
    BY <1>1, ShapeFacts, HeapAssumption
  <2> QED
    BY <2>1, HeaderWord
<1>5. \A x \in S : k.mem[x - 4] = g.mem[x - 4] /\ Sz(k, x) = Sz(g, x) /\ Al(k, x) = Al(g, x)
  BY <1>2, <1>4 DEF Sz, Al, GET_SIZE, GET_ALLOC, GET, HDRP, WSIZE
<1>6. ASSUME NEW x \in S \ {e} PROVE BlockIn(Short(k), S, x)
  <2>1. BlockIn(Short(g), S, x)
    BY <1>1, <1>6, ShortIs DEF Shape, Tiles
  <2>2. x + Sz(g, x) \in S /\ Sz(Short(g), x) = Sz(g, x)
    BY <1>1, <1>6, ShapeFacts, ShortIs
  <2>3. x + Sz(g, x) - 8 \in Words
    <3>1. PICK n \in Nat : n = Sz(g, x) /\ n % 8 = 0 /\ 16 <= n
      BY <1>1, <1>6, ShapeFacts
    <3>2. x \in Nat /\ x % 8 = 0 /\ 24 <= x /\ x + n \in S /\ x + n <= MAX_HEAP
      BY <1>1, <1>6, <2>2, <3>1, ShapeFacts, HeapAssumption
    <3>3. x + n - 8 \in Nat /\ (x + n - 8) % 4 = 0 /\ x + n - 8 < MAX_HEAP
      BY <3>1, <3>2, HeapAssumption
    <3> QED
      BY <3>1, <3>3, InWords
  <2>4. k.mem[x + Sz(g, x) - 8] = g.mem[x + Sz(g, x) - 8]
    <3>1. PICK p \in S : p = x + Sz(g, x)
      BY <2>2
    <3>2. p - 8 = x + Sz(g, x) - 8
      BY <1>1, <1>6, <3>1, ShapeFacts
    <3>3. p - 8 \in Words
      BY <2>3, <3>2
    <3>4. k.mem[p - 8] = g.mem[p - 8]
      BY <1>3, <3>3
    <3> QED
      BY <3>2, <3>4
  <2>5. \A y \in S : y <= x \/ x + Sz(Short(g), x) <= y
    BY <2>1 DEF BlockIn
  <2> QED
    <3>1. /\ Short(k).mem[x - 4] = Short(g).mem[x - 4]
          /\ Short(k).mem[x + Sz(Short(g), x) - 8] = Short(g).mem[x + Sz(Short(g), x) - 8]
          /\ x + Sz(Short(g), x) \in S
      BY <1>5, <1>6, <2>2, <2>4, ShortIs
    <3>2. Short(g) \in Heap
      BY DEF Shape, Tiles
    <3> QED
      BY <2>1, <2>5, <3>1, <3>2, SameBlock
<1>7. k.mem[4] = g.mem[4] /\ k.mem[16] = g.mem[16] /\ Lo(k) = 24
  <2>1. 4 \in Words /\ 16 \in Words
    <3>1. 24 < MAX_HEAP /\ 4 \in Nat /\ 16 \in Nat
      BY <1>1, ShapeFacts, HeapAssumption
    <3> QED
      BY <3>1, InWords, HeapAssumption
  <2>2. k.mem[4] = g.mem[4] /\ k.mem[16] = g.mem[16]
    BY <2>1, EndsApart DEF Relinked
  <2> QED
    BY <2>2 DEF Shape, Lo
<1>8. Tiles(Short(k), S)
  <2>1. Short(k) \in Heap
    BY <1>1, ShapeFacts DEF Short, Heap, Relinked
  <2>2. Prologue(Short(k))
    <3>1. g.mem[16] = g.mem[4]
      BY ShortIs DEF Shape, Tiles, Prologue
    <3> QED
      BY <1>7, <3>1, ShortIs DEF Prologue
  <2>3. k.mem[e - 4] = 1
    <3>1. g.mem[e - 4] = 1 /\ e \in S
      BY <1>1, ShortIs DEF Shape, Tiles
    <3> QED
      BY <1>5, <3>1
  <2>4. S \subseteq Ptrs /\ 24 \in S /\ e \in S /\ \A x \in S : 24 <= x /\ x <= e
    BY <1>1, ShortIs, ShapeFacts DEF Shape, Tiles
  <2>5. Short(k).brk = e /\ Short(k).mem = k.mem /\ Lo(Short(k)) = 24
    BY <1>1, <1>7, ShortIs
  <2> QED
    BY <1>6, <2>1, <2>2, <2>3, <2>4, <2>5 DEF Tiles
<1>9. Shape(k, S)
  BY <1>1, <1>5, <1>7, <1>8 DEF Shape, Relinked
<1>10. Used(Short(k), S) = Used(Short(g), S)
  BY <1>1, <1>5, ShortIs DEF Used
<1>11. ASSUME NEW x \in Used(Short(g), S), NEW w \in Body(Short(g), x)
       PROVE  k.mem[w] = g.mem[w]
  <2>1. w \in Words /\ \A y \in Ends(g, S) : w # y /\ w # y + 4
    BY <1>11, BodyApart DEF Body
  <2> QED
    BY <2>1 DEF Relinked
<1>12. Same(Short(g), S, Short(k), S)
  <2>1. ASSUME NEW x \in Used(Short(g), S) PROVE Sz(Short(k), x) = Sz(Short(g), x)
    BY <1>5, <2>1, ShortIs DEF Used
  <2> QED
    BY <1>10, <1>11, <2>1, ShortIs DEF Same, KeptBlock
<1> QED
  BY <1>1, <1>5, <1>9, <1>12 DEF Ends, FreeIn

-----------------------------------------------------------------------------
(* What blocks do to the list. *)

\* The macros that mm-explicit.c is written with.
LEMMA ExplicitMacros ==
    /\ \A g, p : /\ Explicit!GET(g, p) = GET(g, p) /\ Explicit!GET_SIZE(g, p) = GET_SIZE(g, p)
                 /\ Explicit!GET_ALLOC(g, p) = GET_ALLOC(g, p)
                 /\ Explicit!Succ(g, p) = Succ(g, p) /\ Explicit!Pred(g, p) = Pred(g, p)
                 /\ Explicit!NEXT_EXBP(g, p) = Nx(g, p) /\ Explicit!PREV_EXBP(g, p) = Pv(g, p)
    /\ \A p : Explicit!HDRP(p) = HDRP(p) /\ Explicit!OFFSET(p) = p - 8
    /\ \A g, p, v : /\ Explicit!PUT(g, p, v) = PUT(g, p, v)
                    /\ Explicit!PUT_NEXT(g, p, v) = PUT(g, p, v)
                    /\ Explicit!PUT_PREV(g, p, v) = PUT(g, p + 4, v)
    /\ Explicit!heap_listp = 8
BY DEF Explicit!GET_SIZE, Explicit!GET_ALLOC, Explicit!GET, Explicit!HDRP, Explicit!WSIZE,
       Explicit!Succ, Explicit!Pred, Explicit!DSIZE, Explicit!PUT, Explicit!NEXT_EXBP,
       Explicit!PREV_EXBP, Explicit!heap_listp, Explicit!OFFSET, Explicit!PUT_NEXT,
       Explicit!PUT_PREV, GET_SIZE, GET_ALLOC, GET, HDRP, WSIZE, Succ, Pred, DSIZE, PUT, Nx, Pv

LEMMA ExplicitMark ==
    /\ \A g, p, v, a : Explicit!Mark(g, p, v, a) = Mark(g, p, v, a)
    /\ \A v, a : Explicit!PACK(v, a) = v + a
BY DEF Explicit!Mark, Explicit!PUT, Explicit!HDRP, Explicit!FTRP, Explicit!PACK, Explicit!GET_SIZE,
       Explicit!GET, Explicit!WSIZE, Explicit!DSIZE, Mark, PUT, HDRP, FTRP, PACK, GET_SIZE, GET,
       WSIZE, DSIZE

\* The neighbours of a block in the list.
LEMMA ChainFacts ==
    ASSUME NEW g, NEW F, NEW e, Chain(g, F, e)
    PROVE  /\ \A x \in F : /\ Pv(g, x) \in (F \ {x}) \cup {8} /\ Nx(g, x) \in (F \ {x}) \cup {e}
                           /\ Nx(g, Pv(g, x)) = x /\ Pv(g, Nx(g, x)) = x
           /\ Nx(g, 8) \in F \cup {e} /\ Pv(g, Nx(g, 8)) = 8
           /\ Pv(g, e) \in F \cup {8} /\ Nx(g, Pv(g, e)) = e
<1>1. PICK rk : Numbered(g, F, e, rk)
  BY DEF Chain
<1>2. e # 8 /\ e \notin F /\ 8 \notin F
  BY DEF Chain
<1>3. ASSUME NEW x \in F \cup {8}
      PROVE  Nx(g, x) \in (F \ {x}) \cup {e} /\ Pv(g, Nx(g, x)) = x
  <2>1. Nx(g, x) \in F \cup {8, e} /\ Nx(g, x) # 8 /\ Nx(g, x) # x /\ Pv(g, Nx(g, x)) = x
    BY <1>1, <1>2, <1>3 DEF Numbered
  <2> QED
    BY <2>1
<1>4. ASSUME NEW x \in F \cup {e}
      PROVE  Pv(g, x) \in (F \ {x}) \cup {8} /\ Nx(g, Pv(g, x)) = x
  <2>1. Pv(g, x) \in (F \cup {8, e}) \ {e} /\ Nx(g, Pv(g, x)) = x
    BY <1>1, <1>2, <1>4 DEF Numbered
  <2>2. Pv(g, x) # x
    BY <1>1, <2>1 DEF Numbered
  <2> QED
    BY <2>1, <2>2
<1> QED
  BY <1>3, <1>4

\* A block leaves the list; its own words do not change.
LEMMA UnlinkIs ==
    ASSUME NEW g, NEW S, Shape(g, S), NEW e, e = g.brk - 8, NEW F, Chain(g, F, e),
           NEW bp \in F, F \ {bp} \subseteq FreeIn(g, S), Nodes(F \cup {8, e}),
           NEW k, k = Explicit!Unlink(g, bp)
    PROVE  Relinked(g, k, S) /\ Chain(k, F \ {bp}, e)
<1>1. PICK p, n : p = Pv(g, bp) /\ n = Nx(g, bp)
  OBVIOUS
<1>2. p \in (F \ {bp}) \cup {8} /\ n \in (F \ {bp}) \cup {e} /\ Nx(g, p) = bp /\ Pv(g, n) = bp
  BY <1>1, ChainFacts
<1>3. /\ p \in Nat /\ n \in Nat /\ bp \in Nat /\ p \in Words /\ n + 4 \in Words /\ bp \in Words
      /\ bp + 4 \in Words /\ bp + 4 # p /\ bp # p /\ p # n + 4
  BY <1>2, NodesApart DEF Nodes, Chain
<1>4. g \in Heap
  BY DEF Shape
<1>5. PICK m : m = PUT(g, p, n - 8)
  OBVIOUS
<1>6. Nx(m, bp) = n /\ Pv(m, bp) = p
  <2>1. Puts(g, m, p, n - 8)
    BY <1>3, <1>4, <1>5, PutIs
  <2> QED
    BY <1>1, <1>3, <2>1 DEF Puts, Nx, Pv
<1>7. k = PUT(m, n + 4, p - 8)
  BY <1>1, <1>5, <1>6, ExplicitMacros DEF Explicit!Unlink
<1>8. Joined(g, k, p, n)
  BY <1>3, <1>4, <1>5, <1>7, JoinIs
<1>9. Chain(k, F \ {bp}, e)
  BY <1>1, <1>8, ChainLeaves
<1>10. p \in Ends(g, S) /\ n \in Ends(g, S)
  BY <1>2 DEF Ends
<1>11. Relinked(g, k, S)
  BY <1>8, <1>10 DEF Relinked, Joined
<1> QED
  BY <1>9, <1>11

\* A block becomes the first one.
LEMMA PushFrontIs ==
    ASSUME NEW g, NEW S, Shape(g, S), NEW e, e = g.brk - 8, NEW F, Chain(g, F, e),
           NEW bp \in FreeIn(g, S) \ F, F \subseteq FreeIn(g, S),
           NEW k, k = Explicit!PushFront(g, bp)
    PROVE  Relinked(g, k, S) /\ Chain(k, F \cup {bp}, e)
<1>1. PICK n : n = Nx(g, 8)
  OBVIOUS
<1>2. n \in F \cup {e} /\ Pv(g, n) = 8 /\ n # 8
  <2>1. n \in F \cup {e} /\ Pv(g, n) = 8
    BY <1>1, ChainFacts
  <2> QED
    BY <2>1 DEF Chain
<1>3. bp \notin F \cup {8, e}
  <2>1. bp \in S /\ bp # e
    BY DEF FreeIn
  <2> QED
    BY <2>1, ShapeFacts
<1>4. Nodes(F \cup {8, e, bp}) /\ F \cup {8, e, bp} \subseteq Ends(g, S)
  <2>1. F \cup {8, e, bp} \subseteq Ends(g, S)
    BY DEF Ends
  <2> QED
    BY <2>1, EndsApart DEF Nodes
<1>5. /\ bp \in Nat /\ n \in Nat /\ 8 \in Words /\ bp \in Words /\ bp + 4 \in Words
      /\ n \in Words /\ n + 4 \in Words
      /\ 8 # bp + 4 /\ 8 # n + 4 /\ bp # n + 4 /\ bp + 4 # n + 4 /\ bp # n /\ 8 # bp
  <2>1. Nodes({8, bp, n})
    BY <1>2, <1>4 DEF Nodes
  <2> QED
    BY <1>2, <1>3, <2>1, NodesApart DEF Nodes
<1>6. g \in Heap /\ g.mem[8] = n - 8
  <2>1. g \in Heap
    BY DEF Shape
  <2> QED
    BY <1>1, <1>5, <2>1 DEF Nx, Heap
<1>7. PICK h1, h2, h3 : /\ h1 = PUT(g, bp, n - 8) /\ h2 = PUT(h1, bp + 4, 0)
                        /\ h3 = PUT(h2, n + 4, bp - 8)
  OBVIOUS
<1>8. Puts(g, h1, bp, n - 8)
  BY <1>5, <1>6, <1>7, PutIs
<1>9. Puts(h1, h2, bp + 4, 0)
  <2>1. h1 \in Heap
    BY <1>8 DEF Puts
  <2> QED
    BY <1>5, <1>7, <2>1, PutIs
<1>10. Puts(h2, h3, n + 4, bp - 8)
  <2>1. h2 \in Heap
    BY <1>9 DEF Puts
  <2> QED
    BY <1>5, <1>7, <2>1, PutIs
<1>11. k = PUT(h3, 8, bp - 8)
  <2>1. Nx(h2, 8) = n
    BY <1>1, <1>5, <1>6, <1>8, <1>9 DEF Puts, Nx
  <2>2. Explicit!GET(g, Explicit!heap_listp) = n - 8
    BY <1>6, ExplicitMacros DEF GET
  <2> QED
    BY <1>7, <2>1, <2>2, ExplicitMacros DEF Explicit!PushFront
<1>12. Puts(h3, k, 8, bp - 8)
  <2>1. h3 \in Heap
    BY <1>10 DEF Puts
  <2> QED
    BY <1>5, <1>11, <2>1, PutIs
<1>13. Spliced(g, k, 8, bp, n)
  BY <1>5, <1>8, <1>9, <1>10, <1>12 DEF Puts, Spliced, Nx, Pv
<1>14. Chain(k, F \cup {bp}, e)
  BY <1>1, <1>3, <1>4, <1>13, ChainEnters
<1>15. Relinked(g, k, S)
  BY <1>2, <1>4, <1>13 DEF Relinked, Spliced
<1> QED
  BY <1>14, <1>15

\* A block takes another's place.
LEMMA ReplaceIs ==
    ASSUME NEW g, NEW S, Shape(g, S), NEW e, e = g.brk - 8, NEW F, Chain(g, F, e),
           NEW bp \in F, F \ {bp} \subseteq FreeIn(g, S), NEW x \in FreeIn(g, S) \ F,
           Nodes(F \cup {8, e}), NEW k, k = Explicit!Replace(g, bp, x)
    PROVE  Relinked(g, k, S) /\ Chain(k, (F \ {bp}) \cup {x}, e)
<1>1. PICK p, n : p = Pv(g, bp) /\ n = Nx(g, bp)
  OBVIOUS
<1>2. p \in (F \ {bp}) \cup {8} /\ n \in (F \ {bp}) \cup {e} /\ Nx(g, p) = bp /\ Pv(g, n) = bp
  BY <1>1, ChainFacts
<1>3. x \notin F \cup {8, e} /\ x \in Ends(g, S)
  <2>1. x \in S /\ x # e
    BY DEF FreeIn
  <2> QED
    BY <2>1, ShapeFacts DEF Ends
<1>4. Nodes(F \cup {8, e, x})
  BY <1>3, EndsApart DEF Nodes
<1>5. /\ p \in Nat /\ n \in Nat /\ x \in Nat
      /\ p \in Words /\ n + 4 \in Words /\ x \in Words /\ x + 4 \in Words /\ bp \in Words
      /\ bp + 4 \in Words
      /\ bp # p /\ bp # x /\ bp # x + 4 /\ bp # n + 4 /\ bp + 4 # p /\ bp + 4 # x
      /\ bp + 4 # x + 4 /\ bp + 4 # n + 4
      /\ p # x /\ p # x + 4 /\ p # n + 4 /\ x # n + 4 /\ x + 4 # n + 4
  <2>1. bp # 8 /\ bp # e
    BY DEF Chain
  <2>2. \A y \in {p, n, x, bp} : y \in F \cup {8, e, x}
    BY <1>2
  <2>3. bp # p /\ bp # n /\ bp # x /\ x # p /\ x # n
    BY <1>2, <1>3, <2>1
  <2> QED
    BY <1>4, <2>2, <2>3, NodesApart DEF Nodes
<1>6. g \in Heap
  BY DEF Shape
<1>7. PICK h1, h2, h3 : /\ h1 = PUT(g, p, x - 8) /\ h2 = PUT(h1, x + 4, p - 8)
                        /\ h3 = PUT(h2, x, n - 8)
  OBVIOUS
<1>8. Puts(g, h1, p, x - 8)
  BY <1>5, <1>6, <1>7, PutIs
<1>9. Puts(h1, h2, x + 4, p - 8)
  <2>1. h1 \in Heap
    BY <1>8 DEF Puts
  <2> QED
    BY <1>5, <1>7, <2>1, PutIs
<1>10. Puts(h2, h3, x, n - 8)
  <2>1. h2 \in Heap
    BY <1>9 DEF Puts
  <2> QED
    BY <1>5, <1>7, <2>1, PutIs
<1>11. k = PUT(h3, n + 4, x - 8)
  <2>1. Pv(h1, bp) = p /\ Nx(h2, bp) = n /\ Nx(h3, bp) = n
    BY <1>1, <1>5, <1>8, <1>9, <1>10 DEF Puts, Nx, Pv
  <2> QED
    BY <1>1, <1>7, <2>1, ExplicitMacros DEF Explicit!Replace
<1>12. Puts(h3, k, n + 4, x - 8)
  <2>1. h3 \in Heap
    BY <1>10 DEF Puts
  <2> QED
    BY <1>5, <1>11, <2>1, PutIs
<1>13. PICK m : m = PUT(PUT(g, p, n - 8), n + 4, p - 8)
  OBVIOUS
<1>14. Joined(g, m, p, n)
  BY <1>5, <1>6, <1>13, JoinIs
<1>15. Chain(m, F \ {bp}, e)
  BY <1>1, <1>14, ChainLeaves
<1>16. Spliced(m, k, p, x, n)
  BY <1>5, <1>8, <1>9, <1>10, <1>12, <1>14 DEF Puts, Joined, Spliced, Nx, Pv
<1>17. Chain(k, (F \ {bp}) \cup {x}, e)
  <2>1. PICK G : G = F \ {bp}
    OBVIOUS
  <2>2. x \notin G \cup {8, e} /\ Nodes(G \cup {8, e, x}) /\ p \in G \cup {8} /\ n = Nx(m, p)
    BY <1>2, <1>3, <1>4, <1>14, <2>1 DEF Nodes, Joined
  <2>3. Chain(k, G \cup {x}, e)
    BY <1>15, <1>16, <2>1, <2>2, ChainEnters
  <2> QED
    BY <2>1, <2>3
<1>18. p \in Ends(g, S) /\ n \in Ends(g, S)
  BY <1>2 DEF Ends
<1>19. Relinked(g, k, S)
  BY <1>3, <1>8, <1>9, <1>10, <1>12, <1>18 DEF Relinked, Puts
<1> QED
  BY <1>17, <1>19

\* The epilogue moves to end: k is g with its header there, and the list ends there.
EndMoved(g, k, p, end) ==
    /\ k \in Heap /\ k.brk = g.brk /\ k.mem[end - 4] = 1
    /\ \A w \in Words :
          w # p /\ w # end /\ w # end + 4 /\ w # end - 4 => k.mem[w] = g.mem[w]

LEMMA MoveEpilogueIs ==
    ASSUME NEW g \in Heap, NEW F, NEW e, Chain(g, F, e), Nodes(F \cup {8, e}),
           NEW end \in Nat, end % 8 = 0, \A x \in F \cup {8, e} : x + 8 <= end,
           \A x \in F \cup {8, e} : x # end - 8 \/ x = e,
           end - 4 \in Words, end \in Words, end + 4 \in Words,
           NEW k, k = Explicit!MoveEpilogue(g, e, end)
    PROVE  /\ Pv(g, e) \in F \cup {8} /\ EndMoved(g, k, Pv(g, e), end) /\ Chain(k, F, end)
<1>1. PICK p : p = Pv(g, e)
  OBVIOUS
<1>2. p \in F \cup {8} /\ Nx(g, p) = e /\ p # e
  <2>1. p \in F \cup {8} /\ Nx(g, p) = e
    BY <1>1, ChainFacts
  <2> QED
    BY <2>1 DEF Chain
<1>3. /\ p \in Nat /\ p % 8 = 0 /\ p \in Words /\ p + 8 <= end /\ p # end - 8
      /\ e \in Nat /\ e % 8 = 0 /\ e + 8 <= end /\ e \in Words /\ e + 4 \in Words
  BY <1>2 DEF Nodes
<1>4. /\ p # end /\ p # end + 4 /\ p # end - 4 /\ e + 4 # p /\ e + 4 # end + 4
  BY <1>3
<1>5. PICK h1, h2, h3 : /\ h1 = PUT(g, p, end - 8) /\ h2 = PUT(h1, end + 4, p - 8)
                        /\ h3 = PUT(h2, end - 4, 1)
  OBVIOUS
<1>6. Puts(g, h1, p, end - 8)
  BY <1>3, <1>5, PutIs
<1>7. Puts(h1, h2, end + 4, p - 8)
  <2>1. h1 \in Heap
    BY <1>6 DEF Puts
  <2> QED
    BY <1>3, <1>5, <2>1, PutIs
<1>8. Puts(h2, h3, end - 4, 1)
  <2>1. h2 \in Heap
    BY <1>7 DEF Puts
  <2> QED
    BY <1>3, <1>5, <2>1, PutIs
<1>9. k = PUT(h3, end, -1)
  <2>1. Pv(h1, e) = p
    BY <1>1, <1>3, <1>4, <1>6 DEF Puts, Pv
  <2>2. Explicit!HDRP(end) = end - 4 /\ Explicit!PACK(0, 1) = 1
    BY ExplicitMacros, ExplicitMark DEF HDRP, WSIZE
  <2> QED
    BY <1>1, <1>5, <2>1, <2>2, ExplicitMacros DEF Explicit!MoveEpilogue
<1>10. Puts(h3, k, end, -1)
  <2>1. h3 \in Heap /\ -1 \in Int
    BY <1>8 DEF Puts
  <2> QED
    BY <1>3, <1>9, <2>1, PutIs
<1>11. EndMoved(g, k, p, end)
  BY <1>4, <1>6, <1>7, <1>8, <1>10 DEF EndMoved, Puts
<1>12. Chain(k, F, end)
  <2>1. end \notin F \cup {8}
    BY <1>3 DEF Nodes
  <2>2. Nx(k, p) = end /\ Pv(k, end) = p
    BY <1>3, <1>4, <1>6, <1>7, <1>8, <1>10 DEF Puts, Nx, Pv
  <2>3. ASSUME NEW x \in F \cup {8}, x # p PROVE k.mem[x] = g.mem[x]
    <3>1. x \in Nat /\ x % 8 = 0 /\ x \in Words /\ x + 8 <= end
      BY <2>3 DEF Nodes
    <3> QED
      BY <1>11, <2>3, <3>1 DEF EndMoved
  <2>4. ASSUME NEW x \in F PROVE k.mem[x + 4] = g.mem[x + 4]
    <3>1. /\ x \in Nat /\ x % 8 = 0 /\ x + 4 \in Words /\ x + 8 <= end /\ x # e /\ x + 8 # end
      <4>1. x # e
        BY DEF Chain
      <4>2. x \in Nat /\ x % 8 = 0 /\ x + 4 \in Words /\ x + 8 <= end /\ x # end - 8
        BY <4>1 DEF Nodes
      <4> QED
        BY <4>1, <4>2
    <3>2. x + 4 # p
      BY <1>3, <3>1
    <3> QED
      BY <1>11, <3>1, <3>2 DEF EndMoved
  <2> QED
    BY <1>1, <2>1, <2>2, <2>3, <2>4, ChainEnds
<1> QED
  BY <1>1, <1>2, <1>11, <1>12

-----------------------------------------------------------------------------
(* coalesce. *)

LEMMA RelinkedTwice ==
    ASSUME NEW g, NEW S, Shape(g, S), NEW k, Relinked(g, k, S), NEW l, Relinked(k, l, S)
    PROVE  Relinked(g, l, S)
<1>1. Ends(k, S) = Ends(g, S)
  BY RelinkedIs
<1> QED
  BY <1>1 DEF Relinked

\* Writes of headers and footers do not show in the heap's end, or the end in them.
LEMMA ShortPut ==
    ASSUME NEW g, g = [mem |-> g.mem, brk |-> g.brk], NEW w, NEW v
    PROVE  /\ Short(PUT(g, w, v)) = PUT(Short(g), w, v)
           /\ PUT(g, w, v) = [mem |-> PUT(g, w, v).mem, brk |-> PUT(g, w, v).brk]
BY DEF Short, PUT

LEMMA ShortMark ==
    ASSUME NEW g, g = [mem |-> g.mem, brk |-> g.brk], NEW bp, NEW size, NEW a
    PROVE  Short(Mark(g, bp, size, a)) = Mark(Short(g), bp, size, a)
<1>1. PICK m : m = PUT(g, HDRP(bp), PACK(size, a))
  OBVIOUS
<1>2. m = [mem |-> m.mem, brk |-> m.brk] /\ Short(m) = PUT(Short(g), HDRP(bp), PACK(size, a))
  BY <1>1, ShortPut
<1>3. FTRP(Short(m), bp) = FTRP(m, bp)
  BY DEF FTRP, GET_SIZE, GET, Short
<1>4. Mark(g, bp, size, a) = PUT(m, FTRP(m, bp), PACK(size, a))
  BY <1>1 DEF Mark
<1>5. Mark(Short(g), bp, size, a) = PUT(Short(m), FTRP(Short(m), bp), PACK(size, a))
  BY <1>2 DEF Mark
<1>6. Short(PUT(m, FTRP(m, bp), PACK(size, a))) = PUT(Short(m), FTRP(m, bp), PACK(size, a))
  BY <1>2, ShortPut
<1> QED
  BY <1>3, <1>4, <1>5, <1>6

LEMMA HeapRecord == \A g \in Heap : g = [mem |-> g.mem, brk |-> g.brk]
BY DEF Heap

\* The free blocks at p and q beside bp, if there are any, leave the list, and f enters it.
Detach(g, bp, p, a, q, c, f, k) ==
    LET h1 == IF a = 1 THEN g ELSE Explicit!Unlink(g, p)
        h2 == IF c = 1 THEN h1 ELSE Explicit!Unlink(h1, q)
    IN  k = Explicit!PushFront(h2, f)

\* What is in the list then, f apart.
Left(A, bp, p, a, q, c) == {x \in A : x # bp /\ (a = 1 \/ x # p) /\ (c = 1 \/ x # q)}

LEMMA DetachIs ==
    ASSUME NEW g, NEW S, Shape(g, S), NEW e, e = g.brk - 8, NEW bp \in FreeIn(g, S),
           Chain(g, FreeIn(g, S) \ {bp}, e), NEW p, NEW a, NEW q, NEW c,
           a = 1 \/ p \in FreeIn(g, S) \ {bp}, c = 1 \/ q \in FreeIn(g, S) \ {bp, p},
           NEW f, f = IF a # 1 THEN p ELSE bp, NEW k, Detach(g, bp, p, a, q, c, f, k)
    PROVE  /\ Relinked(g, k, S)
           /\ Chain(k, Left(FreeIn(g, S), bp, p, a, q, c) \cup {f}, e)
<1>1. PICK h1, h2 : /\ h1 = IF a = 1 THEN g ELSE Explicit!Unlink(g, p)
                    /\ h2 = IF c = 1 THEN h1 ELSE Explicit!Unlink(h1, q)
                    /\ k = Explicit!PushFront(h2, f)
  BY DEF Detach
<1>2. PICK A, F1, F : /\ A = FreeIn(g, S) /\ F1 = {x \in A : x # bp /\ (a = 1 \/ x # p)}
                      /\ F = {x \in A : x # bp /\ (a = 1 \/ x # p) /\ (c = 1 \/ x # q)}
                      /\ F = Left(A, bp, p, a, q, c)
  BY DEF Left
<1>3. g \in Heap /\ Nodes(A \cup {8, e})
  BY <1>2, EndsApart DEF Shape, Ends
<1>4. Relinked(g, h1, S) /\ Chain(h1, F1, e)
  <2>1. CASE a = 1
    <3>1. F1 = A \ {bp} /\ h1 = g
      BY <1>1, <1>2, <2>1
    <3> QED
      BY <1>2, <1>3, <3>1 DEF Relinked
  <2>2. CASE a # 1
    <3>1. F1 = (A \ {bp}) \ {p} /\ p \in A \ {bp} /\ h1 = Explicit!Unlink(g, p)
      BY <1>1, <1>2, <2>2
    <3>2. Nodes((A \ {bp}) \cup {8, e})
      BY <1>3 DEF Nodes
    <3>3. PICK B : B = A \ {bp} /\ Chain(g, B, e) /\ B \ {p} \subseteq FreeIn(g, S)
      BY <1>2
    <3> QED
      BY <3>1, <3>2, <3>3, UnlinkIs
  <2> QED
    BY <2>1, <2>2
<1>5. Shape(h1, S) /\ FreeIn(h1, S) = A /\ e = h1.brk - 8
  BY <1>2, <1>4, RelinkedIs DEF Relinked
<1>6. Relinked(h1, h2, S) /\ Chain(h2, F, e)
  <2>1. CASE c = 1
    <3>1. F = F1 /\ h2 = h1
      BY <1>1, <1>2, <2>1
    <3> QED
      BY <1>4, <1>5, <3>1 DEF Relinked, Shape
  <2>2. CASE c # 1
    <3>1. F = F1 \ {q} /\ q \in F1 /\ h2 = Explicit!Unlink(h1, q)
      BY <1>1, <1>2, <2>2
    <3>2. Nodes(F1 \cup {8, e}) /\ F1 \ {q} \subseteq FreeIn(h1, S)
      BY <1>2, <1>3, <1>5 DEF Nodes
    <3> QED
      BY <1>4, <1>5, <3>1, <3>2, UnlinkIs
  <2> QED
    BY <2>1, <2>2
<1>7. Shape(h2, S) /\ FreeIn(h2, S) = A /\ e = h2.brk - 8
  BY <1>5, <1>6, RelinkedIs DEF Relinked
<1>8. Relinked(h2, k, S) /\ Chain(k, F \cup {f}, e)
  <2>1. f \in A \ F /\ F \subseteq A
    BY <1>2
  <2> QED
    BY <1>1, <1>6, <1>7, <2>1, PushFrontIs
<1>9. Relinked(g, k, S)
  <2>1. Relinked(g, h2, S)
    BY <1>4, <1>6, RelinkedTwice
  <2> QED
    BY <1>8, <2>1, RelinkedTwice
<1> QED
  BY <1>2, <1>8, <1>9

\* What coalesce finds before a block.
LEMMA LeftIs ==
    ASSUME NEW g, NEW S, Shape(g, S), NEW bp \in S \ {g.brk - 8}, NEW p, p = Pred(g, bp),
           NEW a, a = Al(g, p)
    PROVE  LeftOf(Short(g), S, bp, p, a) /\ (a # 1 => p \in FreeIn(g, S) \ {bp})
<1>1. PICK e, s : e = g.brk - 8 /\ s = Short(g) /\ Tiles(s, S) /\ s.brk = e
  BY ShortIs DEF Shape
<1>2. /\ \A x : Sz(s, x) = Sz(g, x) /\ Al(s, x) = Al(g, x)
      /\ \A x : Pred(s, x) = Pred(g, x)
      /\ Lo(s) = 24
  BY <1>1, ShortIs DEF Shape
<1>3. CASE bp = 24
  <2>1. p = 8 /\ a = 1
    BY <1>1, <1>2, <1>3, PrologueIs DEF Al
  <2>2. ASSUME NEW x \in S \ {e} PROVE x + Sz(s, x) # bp
    BY <1>1, <1>2, <1>3, <2>2, ShapeFacts
  <2> QED
    BY <1>1, <2>1, <2>2 DEF LeftOf
<1>4. CASE bp # 24
  <2>1. PICK y \in S \ {e} : y + Sz(s, y) = bp
    BY <1>1, <1>2, <1>4, Before
  <2>2. p = y
    BY <1>1, <1>2, <2>1, PredIs
  <2>3. \A x \in S \ {e} : x + Sz(s, x) = bp => x = p
    BY <1>1, <1>2, PredIs
  <2>4. a \in {0, 1} /\ y # bp
    BY <1>1, <1>2, <2>1, <2>2, ShapeFacts
  <2> QED
    BY <1>1, <1>2, <2>1, <2>2, <2>3, <2>4 DEF LeftOf, FreeIn
<1> QED
  BY <1>3, <1>4

\* The heap is tiled, free blocks are merged, and the list leads through all of them.
Listed(g, S) == Shape(g, S) /\ Merged(Short(g), S) /\ Chain(g, FreeIn(g, S), g.brk - 8)

\* So it is, and the blocks in use are what they were in g.
Kept(g, S, k, T) == Listed(k, T) /\ Same(Short(g), S, Short(k), T)

\* The sizes of the free blocks that a block of that size is merged with add up to none, or
\* to those of blocks.
Wider(size, more) == more = size \/ size + 16 <= more

\* The stretch from f on is marked as one free block, after f has entered the list.
LEMMA MergeListed ==
    ASSUME NEW g, NEW S, Shape(g, S), NEW f, NEW n, Stretch(Short(g), S, f, n), 16 <= n,
           NEW F, Chain(g, F \cup {f}, g.brk - 8),
           F = {x \in FreeIn(g, S) : x < f \/ f + n <= x},
           NEW k, k = Mark(g, f, n, 0)
    PROVE  \E T : Kept(g, S, k, T) /\ k.brk = g.brk /\ f \in FreeIn(k, T) /\ Sz(k, f) = n
<1>1. PICK e, s, m, T : /\ e = g.brk - 8 /\ s = Short(g) /\ m = Short(k)
                        /\ T = {x \in S : x <= f \/ f + n <= x}
  OBVIOUS
<1>2. Tiles(s, S) /\ s.brk = e /\ s.mem = g.mem /\ Lo(s) = 24 /\ g \in Heap
  BY <1>1, ShortIs DEF Shape
<1>3. m = Mark(s, f, n, 0)
  BY <1>1, <1>2, ShortMark, HeapRecord
<1>4. /\ Tidy(s, S, m, T) /\ m.brk = e /\ f \in T \ {e} /\ Sz(m, f) = n /\ Al(m, f) = 0
      /\ \A x \in T \ {f, e} : Sz(m, x) = Sz(s, x) /\ Al(m, x) = Al(s, x)
      /\ Outside(s, m, f, f + n)
  BY <1>1, <1>2, <1>3, MergeFree
<1>5. /\ f \in S /\ n \in Nat /\ f + n \in S /\ f \in Nat /\ f % 8 = 0 /\ 24 <= f
      /\ f + n <= e /\ n % 8 = 0 /\ e \in Nat /\ e + 8 <= MAX_HEAP
  <2>1. f \in S /\ n \in Nat /\ f + n \in S
    BY DEF Stretch
  <2>2. f \in Nat /\ f % 8 = 0 /\ 24 <= f /\ (f + n) % 8 = 0 /\ f + n <= e /\ e + 8 <= MAX_HEAP /\ e \in Nat
    BY <1>1, <2>1, ShapeFacts
  <2> QED
    BY <2>1, <2>2
<1>6. Marks(g, k, f, n, 0)
  <2>1. Room(f, n)
    <3>1. f \in Ptrs /\ f + n <= MAX_HEAP
      BY <1>2, <1>5, HeapAssumption DEF Tiles
    <3> QED
      BY <1>5, <3>1 DEF Room
  <2> QED
    BY <1>2, <2>1, MarkIs
<1>7. k \in Heap /\ k.brk = g.brk /\ m.mem = k.mem
  BY <1>1, <1>6, ShortIs DEF Marks
<1>8. Shape(k, T)
  <2>1. Lo(k) = 24
    <3>1. 4 \in Words
      BY <1>5, InWords, HeapAssumption
    <3>2. k.mem[4] = g.mem[4]
      BY <1>5, <1>6, <3>1 DEF Marks
    <3> QED
      BY <3>2 DEF Shape, Lo
  <2>2. Tiles(Short(k), T) /\ k.brk - 8 = e
    BY <1>1, <1>4, <1>7 DEF Tidy
  <2>3. ASSUME NEW x \in T \ {e} PROVE 16 <= Sz(k, x)
    <3>1. Sz(k, x) = Sz(m, x)
      BY <1>1, ShortIs
    <3>2. CASE x = f
      BY <1>4, <3>1, <3>2
    <3>3. CASE x # f
      BY <1>1, <1>4, <2>3, <3>1, <3>3, ShortIs DEF Shape
    <3> QED
      BY <3>2, <3>3
  <2> QED
    BY <1>7, <2>1, <2>2, <2>3 DEF Shape
<1>9. FreeIn(k, T) = F \cup {f}
  <2>1. \A x : Al(m, x) = Al(k, x) /\ Al(s, x) = Al(g, x)
    BY <1>1, ShortIs
  <2>2. FreeIn(k, T) = {x \in T \ {e} : Al(m, x) = 0}
    BY <1>1, <1>7, <2>1 DEF FreeIn
  <2>3. \A x \in S : x < f \/ f + n <= x <=> x \in T \ {f}
    <3>1. \A x \in S : x \in Nat
      BY <1>1, ShapeFacts
    <3> QED
      BY <1>1, <1>5, <3>1
  <2>4. F = {x \in T \ {f, e} : Al(s, x) = 0}
    BY <1>1, <2>1, <2>3 DEF FreeIn
  <2> QED
    BY <1>4, <2>2, <2>4
<1>10. Chain(k, F \cup {f}, e)
  <2>1. F \cup {f} \subseteq FreeIn(g, S)
    BY <1>1, <1>5, ShortIs DEF Stretch, FreeIn
  <2>2. ASSUME NEW x \in Ends(g, S)
        PROVE  k.mem[x] = g.mem[x] /\ k.mem[x + 4] = g.mem[x + 4]
    <3>1. /\ x \in Words /\ x + 4 \in Words
          /\ \A p \in S : x # p - 4 /\ x + 4 # p - 4 /\ x # p - 8 /\ x + 4 # p - 8
      BY EndsApart DEF Nodes
    <3>2. PICK p \in S : p = f + n /\ p - 8 = f + n - 8
      BY <1>5
    <3> QED
      BY <1>5, <1>6, <3>1, <3>2 DEF Marks
  <2>3. F \cup {f} \cup {8, e} \subseteq Ends(g, S)
    BY <1>1, <2>1 DEF Ends
  <2> QED
    BY <1>1, <2>2, <2>3, ChainKept
<1>11. Kept(g, S, k, T)
  BY <1>1, <1>4, <1>7, <1>8, <1>9, <1>10 DEF Kept, Listed, Tidy
<1>12. f \in FreeIn(k, T) /\ Sz(k, f) = n
  BY <1>1, <1>4, <1>9, ShortIs
<1> QED
  BY <1>7, <1>11, <1>12

\* The free block at bp, which is not in the list, is merged with its free neighbours, and
\* the block they make enters the list.
LEMMA CoalesceListed ==
    ASSUME NEW g, NEW S, Shape(g, S), NEW bp \in FreeIn(g, S), MergedBut(Short(g), S, bp),
           Chain(g, FreeIn(g, S) \ {bp}, g.brk - 8), NEW r, r = Explicit!coalesce(g, bp)
    PROVE  \E T : /\ Kept(g, S, r.h, T) /\ r.h.brk = g.brk
                  /\ r.bp \in FreeIn(r.h, T) /\ Wider(Sz(g, bp), Sz(r.h, r.bp))
<1>1. PICK e, s : e = g.brk - 8 /\ s = Short(g) /\ Tiles(s, S) /\ s.brk = e
  BY ShortIs DEF Shape
<1>2. PICK p, a, q, c, f, n :
          /\ p = Pred(g, bp) /\ a = Al(g, p) /\ q = Succ(g, bp) /\ c = Al(g, q)
          /\ f = Begins(bp, p, a) /\ n = Spans(s, bp, p, a)
  OBVIOUS
<1>3. bp \in S \ {e} /\ Al(g, bp) = 0
  BY <1>1 DEF FreeIn
<1>4. LeftOf(s, S, bp, p, a) /\ (a # 1 => p \in FreeIn(g, S) \ {bp})
  BY <1>1, <1>2, <1>3, LeftIs
<1>5. q = bp + Sz(g, bp) /\ q = bp + Sz(s, bp) /\ q \in S /\ q # bp
  <2>1. q = bp + Sz(g, bp)
    BY <1>2 DEF Succ, Sz
  <2>2. bp + Sz(g, bp) \in S /\ bp \in Nat /\ Sz(g, bp) \in Nat /\ 16 <= Sz(g, bp)
    BY <1>1, <1>3, ShapeFacts
  <2> QED
    BY <1>1, <2>1, <2>2, ShortIs
<1>6. c = 1 \/ q \in FreeIn(g, S) \ {bp, p}
  <2>1. SUFFICES ASSUME c # 1 PROVE q \in FreeIn(g, S) \ {bp, p}
    OBVIOUS
  <2>2. q # e /\ q \in S
    BY <1>1, <1>2, <1>5, <2>1, ShapeFacts
  <2>3. Al(g, q) = 0
    BY <1>1, <1>2, <2>1, <2>2, ShapeFacts
  <2>4. q # p
    <3>1. CASE a = 1
      BY <1>2, <2>1, <3>1
    <3>2. CASE a # 1
      <4>1. p \in S \ {e} /\ p + Sz(g, p) = bp
        BY <1>1, <1>4, <3>2, ShortIs DEF LeftOf
      <4>2. p \in Nat /\ Sz(g, p) \in Nat /\ bp \in Nat /\ Sz(g, bp) \in Nat /\ 16 <= Sz(g, bp)
        BY <1>1, <1>3, <4>1, ShapeFacts
      <4> QED
        BY <1>5, <4>1, <4>2
    <3> QED
      BY <3>1, <3>2
  <2> QED
    BY <1>1, <1>5, <2>2, <2>3, <2>4 DEF FreeIn
<1>7. PICK h3 : Detach(g, bp, p, a, q, c, f, h3) /\ r.h = Mark(h3, f, n, 0) /\ r.bp = f
  <2>1. PICK h1, h2, h3 : /\ h1 = IF a = 1 THEN g ELSE Explicit!Unlink(g, p)
                          /\ h2 = IF c = 1 THEN h1 ELSE Explicit!Unlink(h1, q)
                          /\ h3 = Explicit!PushFront(h2, f)
    OBVIOUS
  <2>2. Detach(g, bp, p, a, q, c, f, h3)
    BY <2>1 DEF Detach
  <2>3. n = Sz(g, bp) + (IF c = 1 THEN 0 ELSE Sz(g, q)) + (IF a = 1 THEN 0 ELSE Sz(g, p))
    BY <1>1, <1>2, <1>5, ShortIs DEF Spans
  <2>4. f = IF a = 1 THEN bp ELSE p
    BY <1>2 DEF Begins
  <2>5. r = [h |-> Mark(h3, f, n, 0), bp |-> f]
    BY <1>2, <2>1, <2>3, <2>4, ExplicitMacros, ExplicitMark DEF Explicit!coalesce, Al, Sz
  <2> QED
    BY <2>2, <2>5
<1>8. PICK F : /\ Relinked(g, h3, S) /\ Chain(h3, F \cup {f}, e)
               /\ F = {x \in FreeIn(g, S) : x # bp /\ (a = 1 \/ x # p) /\ (c = 1 \/ x # q)}
  <2>1. f = IF a # 1 THEN p ELSE bp
    BY <1>2 DEF Begins
  <2>2. a = 1 \/ p \in FreeIn(g, S) \ {bp}
    BY <1>4
  <2>3. Detach(g, bp, p, a, q, c, f, h3)
    BY <1>7
  <2>4. e = g.brk - 8 /\ Chain(g, FreeIn(g, S) \ {bp}, e)
    BY <1>1
  <2>5. Relinked(g, h3, S) /\ Chain(h3, Left(FreeIn(g, S), bp, p, a, q, c) \cup {f}, e)
    BY <1>6, <2>1, <2>2, <2>3, <2>4, DetachIs
  <2> QED
    BY <2>5 DEF Left
<1>9. /\ Shape(h3, S) /\ Same(s, S, Short(h3), S) /\ FreeIn(h3, S) = FreeIn(g, S)
      /\ \A x \in S : Sz(h3, x) = Sz(g, x) /\ Al(h3, x) = Al(g, x)
      /\ h3.brk = g.brk
  BY <1>1, <1>8, RelinkedIs DEF Relinked
<1>10. /\ Stretch(s, S, f, n) /\ Sz(g, bp) <= n
       /\ \A x \in S : f <= x /\ x < f + n <=> x = f \/ x = bp \/ (c # 1 /\ x = q)
  <2>1. Al(s, bp) = 0 /\ Al(s, q) = c /\ Sz(s, bp) = Sz(g, bp)
    BY <1>1, <1>2, <1>3, ShortIs
  <2> QED
    BY <1>1, <1>2, <1>3, <1>4, <1>5, <2>1, StretchIs
<1>11. Stretch(Short(h3), S, f, n)
  <2>1. \A x \in S : Al(Short(h3), x) = Al(s, x) /\ Sz(Short(h3), x) = Sz(s, x)
    BY <1>1, <1>9, ShortIs
  <2>2. \A x \in S \ {e} : x + Sz(s, x) \in S
    BY <1>1, BlockFacts
  <2>3. Short(h3).brk = e
    BY <1>1, <1>9, ShortIs
  <2> QED
    BY <1>1, <1>10, <2>1, <2>2, <2>3 DEF Stretch
<1>12. F = {x \in FreeIn(h3, S) : x < f \/ f + n <= x}
  <2>1. ASSUME NEW x \in FreeIn(g, S)
        PROVE  (x < f \/ f + n <= x) <=> ~(x = f \/ x = bp \/ (c # 1 /\ x = q))
    <3>1. x \in S /\ x \in Nat /\ f \in Nat /\ n \in Nat
      BY <1>1, <1>10, <2>1, ShapeFacts DEF FreeIn, Stretch
    <3> QED
      BY <1>10, <3>1
  <2>2. f = IF a = 1 THEN bp ELSE p
    BY <1>2 DEF Begins
  <2> QED
    BY <1>8, <1>9, <2>1, <2>2
<1>13. Wider(Sz(g, bp), n) /\ 16 <= n
  <2>1. /\ Sz(g, bp) \in Nat /\ 16 <= Sz(g, bp)
        /\ a # 1 => Sz(g, p) \in Nat /\ 16 <= Sz(g, p)
        /\ c # 1 => Sz(g, q) \in Nat /\ 16 <= Sz(g, q)
    BY <1>1, <1>3, <1>4, <1>6, ShapeFacts DEF FreeIn
  <2>2. n = Sz(g, bp) + (IF c = 1 THEN 0 ELSE Sz(g, q)) + (IF a # 1 THEN Sz(g, p) ELSE 0)
    BY <1>1, <1>2, <1>5, ShortIs DEF Spans
  <2> QED
    BY <2>1, <2>2 DEF Wider
<1>14. PICK T : /\ Kept(h3, S, r.h, T) /\ r.h.brk = h3.brk /\ f \in FreeIn(r.h, T)
                /\ Sz(r.h, f) = n
  BY <1>1, <1>7, <1>8, <1>9, <1>11, <1>12, <1>13, MergeListed
<1>15. Kept(g, S, r.h, T)
  BY <1>1, <1>9, <1>14, SameTransitive DEF Kept
<1> QED
  BY <1>7, <1>9, <1>13, <1>14, <1>15

-----------------------------------------------------------------------------
(* extend_heap. *)

\* k is g with a free block of that size in the place of the epilogue, which moved behind it.
Longer(g, S, size, k, T) ==
    /\ Shape(k, T) /\ k.brk = g.brk + size /\ Same(Short(g), S, Short(k), T)
    /\ MergedBut(Short(k), T, g.brk - 8) /\ g.brk - 8 \in FreeIn(k, T)
    /\ Sz(k, g.brk - 8) = size /\ Chain(k, FreeIn(k, T) \ {g.brk - 8}, k.brk - 8)

\* The block and the epilogue's header are written.
Headed(g, S, size, e, m, k, T) ==
    /\ Shape(k, T) /\ k.brk = g.brk + size /\ Same(Short(g), S, Short(k), T)
    /\ MergedBut(Short(k), T, e) /\ FreeIn(k, T) = FreeIn(g, S) \cup {e} /\ Sz(k, e) = size
    /\ Marks(mem_sbrk(g, size), m, e, size, 0) /\ Puts(m, k, e + size - 4, 1)

LEMMA HeaderMoves ==
    ASSUME NEW g, NEW S, Listed(g, S), NEW size \in Nat, size % 8 = 0, 16 <= size,
           CanGrow(g, size), NEW e, e = g.brk - 8,
           NEW m, m = Mark(mem_sbrk(g, size), e, size, 0), NEW k, k = PUT(m, e + size - 4, 1),
           NEW T, T = S \cup {e + size}
    PROVE  Headed(g, S, size, e, m, k, T)
<1>1. PICK s, sm, sk : s = Short(g) /\ sm = Short(m) /\ sk = Short(k)
  OBVIOUS
<1>2. Shape(g, S) /\ Merged(s, S) /\ Tiles(s, S) /\ s.brk = e /\ s.mem = g.mem /\ g \in Heap
  BY <1>1, ShortIs DEF Listed, Shape
<1>3. /\ e \in S /\ e \in Nat /\ e % 8 = 0 /\ 24 <= e /\ g.brk = e + 8 /\ g.brk \in Nat
      /\ g.brk + size <= MAX_HEAP /\ \A x \in S : x \in Nat /\ 24 <= x /\ x <= e
  BY <1>2, ShapeFacts DEF CanGrow
<1>4. PICK x0 : x0 = mem_sbrk(g, size)
  OBVIOUS
<1>5. x0 \in Heap /\ x0.mem = g.mem /\ x0.brk = g.brk + size
  BY <1>2, <1>3, <1>4 DEF mem_sbrk, Heap
<1>6. Short(x0) = mem_sbrk(s, size)
  <2>1. s = [mem |-> g.mem, brk |-> e]
    BY <1>1, <1>3 DEF Short
  <2>2. Short(x0) = [mem |-> g.mem, brk |-> e + size]
    BY <1>3, <1>5 DEF Short
  <2> QED
    BY <2>1, <2>2 DEF mem_sbrk
<1>7. sm = Mark(mem_sbrk(s, size), e, size, 0)
  BY <1>1, <1>4, <1>5, <1>6, HeapRecord, ShortMark
<1>8. Room(e, size)
  BY <1>2, <1>3, HeapAssumption DEF Room, Tiles
<1>9. Marks(x0, m, e, size, 0)
  BY <1>4, <1>5, <1>8, MarkIs
<1>10. e + size - 4 \in Words
  <2>1. e + size - 4 \in Nat /\ (e + size - 4) % 4 = 0 /\ e + size - 4 < MAX_HEAP
    BY <1>3, HeapAssumption
  <2> QED
    BY <2>1, InWords
<1>11. Puts(m, k, e + size - 4, 1)
  <2>1. m \in Heap
    BY <1>9 DEF Marks
  <2> QED
    BY <1>10, <2>1, PutIs
<1>12. sk = PUT(sm, HDRP(Succ(sm, e)), PACK(0, 1))
  <2>1. m \in Heap
    BY <1>9 DEF Marks
  <2>2. sk = PUT(sm, e + size - 4, 1)
    BY <1>1, <2>1, HeapRecord, ShortPut
  <2>3. Sz(sm, e) = size
    <3>1. m.mem[e - 4] = size + 0
      BY <1>9 DEF Marks, Marked
    <3> QED
      BY <1>1, <3>1, Packed, ShortIs DEF Sz, GET_SIZE, GET, HDRP, WSIZE
  <2>4. HDRP(Succ(sm, e)) = e + size - 4
    BY <1>3, <2>3 DEF Succ, Sz, HDRP, WSIZE
  <2> QED
    BY <2>2, <2>4 DEF PACK
<1>13. CanGrow(s, size)
  <2>1. s.brk + size <= MAX_HEAP
    BY <1>2, <1>3, HeapAssumption
  <2> QED
    BY <2>1 DEF CanGrow
<1>15. Grown(s, S, size, sk, T)
  <2>1. 8 <= size
    OBVIOUS
  <2>2. sm = Mark(mem_sbrk(s, size), s.brk, size, 0)
    BY <1>2, <1>7
  <2>3. sk = PUT(sm, HDRP(Succ(sm, s.brk)), PACK(0, 1)) /\ T = S \cup {s.brk + size}
    BY <1>2, <1>12
  <2>4. Tiles(s, S) /\ CanGrow(s, size)
    BY <1>2, <1>13
  <2> QED
    BY <2>1, <2>2, <2>3, <2>4, GrowIs
<1>14. /\ Tiles(sk, T) /\ sk.brk = e + size
       /\ Sz(sk, e) = size /\ Al(sk, e) = 0 /\ Al(sk, sk.brk) = 1
       /\ \A x \in S \ {e} : Sz(sk, x) = Sz(s, x) /\ Al(sk, x) = Al(s, x)
       /\ Outside(s, sk, e, e + size + 4)
  BY <1>2, <1>15 DEF Grown
<1>16. MergedBut(sk, T, e) /\ Same(s, S, sk, T) /\ T \ {sk.brk} = S /\ e \in T \ {sk.brk}
  <2>1. 0 < size
    OBVIOUS
  <2>2. MergedBut(sk, T, s.brk) /\ Same(s, S, sk, T) /\ T \ {sk.brk} = S /\ s.brk \in T \ {sk.brk}
    BY <1>2, <1>15, <2>1, GrownIs
  <2> QED
    BY <1>2, <2>2
<1>17. k \in Heap /\ k.brk = g.brk + size /\ k.brk - 8 = e + size
  BY <1>3, <1>5, <1>9, <1>11 DEF Marks, Puts
<1>18. \A x : Sz(sk, x) = Sz(k, x) /\ Al(sk, x) = Al(k, x) /\ Sz(s, x) = Sz(g, x) /\ Al(s, x) = Al(g, x)
  BY <1>1, ShortIs
<1>19. Lo(k) = 24
  <2>1. Lo(s) = 24 /\ Lo(sk) = Lo(k)
    BY <1>1, <1>2, ShortIs DEF Shape
  <2>2. \A w \in Words : w < e - 4 => sk.mem[w] = s.mem[w]
    BY <1>14 DEF Outside
  <2>3. Lo(sk) = Lo(s)
    BY <1>2, <1>3, <2>2, PrologueKept
  <2> QED
    BY <2>1, <2>3
<1>20. Shape(k, T)
  <2>1. \A x \in T \ {e + size} : 16 <= Sz(k, x)
    BY <1>2, <1>3, <1>14, <1>16, <1>18 DEF Shape
  <2>2. Tiles(Short(k), T) /\ k.brk <= MAX_HEAP
    BY <1>1, <1>3, <1>14, <1>17
  <2> QED
    BY <1>17, <1>19, <2>1, <2>2 DEF Shape
<1>21. FreeIn(k, T) = FreeIn(g, S) \cup {e}
  <2>1. FreeIn(k, T) = {x \in S : Al(k, x) = 0}
    BY <1>14, <1>16, <1>17 DEF FreeIn
  <2>2. FreeIn(g, S) = {x \in S \ {e} : Al(g, x) = 0}
    BY DEF FreeIn
  <2>3. \A x \in S \ {e} : Al(k, x) = Al(g, x)
    BY <1>14, <1>18
  <2>4. e \in S /\ Al(k, e) = 0
    BY <1>3, <1>14, <1>18
  <2> QED
    BY <2>1, <2>2, <2>3, <2>4
<1> QED
  BY <1>1, <1>4, <1>9, <1>11, <1>14, <1>16, <1>17, <1>18, <1>20, <1>21 DEF Headed

LEMMA LongerIs ==
    ASSUME NEW g, NEW S, Listed(g, S), NEW size \in Nat, size % 8 = 0, 16 <= size,
           CanGrow(g, size), NEW e, e = g.brk - 8,
           NEW m, m = Mark(mem_sbrk(g, size), e, size, 0),
           NEW k, k = Explicit!MoveEpilogue(m, e, e + size)
    PROVE  Longer(g, S, size, k, S \cup {e + size})
<1>1. PICK l, T, end, F : /\ l = PUT(m, e + size - 4, 1) /\ T = S \cup {e + size}
                          /\ end = e + size /\ F = FreeIn(g, S)
  OBVIOUS
<1>2. /\ Shape(l, T) /\ l.brk = g.brk + size /\ Same(Short(g), S, Short(l), T)
      /\ MergedBut(Short(l), T, e) /\ FreeIn(l, T) = F \cup {e} /\ Sz(l, e) = size
      /\ Marks(mem_sbrk(g, size), m, e, size, 0) /\ Puts(m, l, e + size - 4, 1)
  <2>1. Headed(g, S, size, e, m, l, T)
    <3>1. l = PUT(m, e + size - 4, 1) /\ T = S \cup {e + size}
      BY <1>1
    <3> QED
      BY <3>1, HeaderMoves
  <2> QED
    BY <1>1, <2>1 DEF Headed
<1>3. Shape(g, S) /\ Chain(g, F, e) /\ g \in Heap
  BY <1>1 DEF Listed, Shape
<1>4. /\ e \in S /\ e \in Nat /\ e % 8 = 0 /\ 24 <= e /\ g.brk = e + 8 /\ g.brk \in Nat
      /\ g.brk + size <= MAX_HEAP /\ \A x \in S : x \in Nat /\ x <= e
  BY <1>3, ShapeFacts DEF CanGrow
<1>5. /\ m \in Heap /\ m.brk = g.brk + size
      /\ \A w \in Words : w # e - 4 /\ w # e + size - 8 => m.mem[w] = g.mem[w]
  BY <1>2, <1>4 DEF Marks, mem_sbrk, Heap
<1>6. Nodes(F \cup {8, e}) /\ \A x \in F \cup {8, e} : x \in Nat /\ x <= e
  <2>1. Nodes(Ends(g, S)) /\ F \cup {8, e} = Ends(g, S)
    BY <1>1, <1>3, EndsApart DEF Ends
  <2>2. F \subseteq S
    BY <1>1 DEF FreeIn
  <2>3. \A x \in F \cup {8, e} : x \in Nat /\ x <= e
    BY <1>4, <2>2
  <2> QED
    BY <2>1, <2>3
<1>7. Chain(m, F, e)
  <2>1. ASSUME NEW x \in F \cup {8, e}
        PROVE  m.mem[x] = g.mem[x] /\ m.mem[x + 4] = g.mem[x + 4]
    <3>1. x \in Nat /\ x <= e /\ x % 8 = 0 /\ x \in Words /\ x + 4 \in Words
      BY <1>6, <2>1 DEF Nodes
    <3>2. x # e - 4 /\ x + 4 # e - 4
      <4>1. x \in Ends(g, S)
        BY <1>1, <2>1 DEF Ends
      <4> QED
        BY <1>3, <1>4, <4>1, EndsApart
    <3>3. x # e + size - 8 /\ x + 4 # e + size - 8
      BY <1>4, <3>1
    <3> QED
      BY <1>5, <3>1, <3>2, <3>3
  <2> QED
    BY <1>3, <2>1, ChainKept
<1>8. PICK p : p = Pv(m, e)
  OBVIOUS
<1>9. p \in F \cup {8} /\ EndMoved(m, k, p, end) /\ Chain(k, F, end)
  <2>1. end \in Nat /\ end % 8 = 0
    BY <1>1, <1>4
  <2>2. \A x \in F \cup {8, e} : x + 8 <= end /\ (x # end - 8 \/ x = e)
    BY <1>1, <1>4, <1>6
  <2>3. end - 4 \in Words /\ end \in Words /\ end + 4 \in Words
    <3>1. /\ end - 4 \in Nat /\ (end - 4) % 4 = 0 /\ end - 4 < MAX_HEAP /\ end % 4 = 0
          /\ end < MAX_HEAP /\ end + 4 \in Nat /\ (end + 4) % 4 = 0 /\ end + 4 < MAX_HEAP
      BY <1>1, <1>4, <2>1, HeapAssumption
    <3> QED
      BY <2>1, <3>1, InWords
  <2>4. k = Explicit!MoveEpilogue(m, e, end)
    BY <1>1
  <2> QED
    BY <1>5, <1>6, <1>7, <1>8, <2>1, <2>2, <2>3, <2>4, MoveEpilogueIs
<1>10. Relinked(l, k, T)
  <2>1. p \in Ends(l, T) /\ end \in Ends(l, T)
    <3>1. end = l.brk - 8
      BY <1>1, <1>2, <1>4
    <3>2. p \in FreeIn(l, T) \cup {8}
      BY <1>2, <1>9
    <3> QED
      BY <3>1, <3>2 DEF Ends
  <2>2. end - 4 = e + size - 4
    BY <1>1
  <2> QED
    BY <1>2, <1>5, <1>9, <2>1, <2>2 DEF Relinked, EndMoved, Puts
<1>11. /\ Shape(k, T) /\ Same(Short(l), T, Short(k), T) /\ FreeIn(k, T) = FreeIn(l, T)
       /\ \A x \in T : Sz(k, x) = Sz(l, x) /\ Al(k, x) = Al(l, x)
  BY <1>2, <1>10, RelinkedIs
<1>12. k.brk = g.brk + size /\ k.brk - 8 = end /\ Same(Short(g), S, Short(k), T)
  <2>1. k.brk = l.brk
    BY <1>10 DEF Relinked
  <2>2. Same(Short(g), S, Short(k), T)
    BY <1>2, <1>11, SameTransitive
  <2> QED
    BY <1>1, <1>2, <1>4, <2>1, <2>2
<1>13. MergedBut(Short(k), T, e)
  <2>1. Short(k).brk = Short(l).brk /\ Short(l).brk = end
    BY <1>2, <1>12, ShortIs
  <2>2. \A x \in T : /\ Sz(Short(k), x) = Sz(Short(l), x) /\ Al(Short(k), x) = Al(Short(l), x)
                     /\ x # end => x + Sz(Short(l), x) \in T
    BY <1>2, <1>11, <2>1, ShapeFacts, ShortIs
  <2> QED
    BY <1>2, <2>1, <2>2 DEF MergedBut
<1>14. FreeIn(k, T) \ {e} = F /\ e \in FreeIn(k, T) /\ Sz(k, e) = size
  <2>1. e \notin F /\ e \in T
    BY <1>1, <1>4 DEF FreeIn
  <2> QED
    BY <1>2, <1>11, <2>1
<1> QED
  BY <1>1, <1>9, <1>11, <1>12, <1>13, <1>14 DEF Longer

\* The heap grows by a block, which is merged with a free one that ended the heap.
LEMMA ExtendListed ==
    ASSUME NEW g, NEW S, Listed(g, S), NEW size \in Nat, size % 8 = 0, 16 <= size,
           CanGrow(g, size), NEW r, r = Explicit!extend_heap(g, size)
    PROVE  \E T : /\ Kept(g, S, r.h, T) /\ r.h.brk = g.brk + size
                  /\ r.bp \in FreeIn(r.h, T) /\ Wider(size, Sz(r.h, r.bp))
<1>1. PICK e, m, k, U : /\ e = g.brk - 8 /\ m = Mark(mem_sbrk(g, size), e, size, 0)
                        /\ k = Explicit!MoveEpilogue(m, e, e + size) /\ U = S \cup {e + size}
  OBVIOUS
<1>2. r = Explicit!coalesce(k, e)
  BY <1>1, ExplicitMark DEF Explicit!extend_heap, Explicit!mem_sbrk, mem_sbrk
<1>3. Longer(g, S, size, k, U)
  BY <1>1, LongerIs
<1>4. /\ Shape(k, U) /\ k.brk = g.brk + size /\ Same(Short(g), S, Short(k), U)
      /\ MergedBut(Short(k), U, e) /\ e \in FreeIn(k, U)
      /\ Sz(k, e) = size /\ Chain(k, FreeIn(k, U) \ {e}, k.brk - 8)
  BY <1>1, <1>3 DEF Longer
<1>5. PICK T : /\ Kept(k, U, r.h, T) /\ r.h.brk = k.brk
               /\ r.bp \in FreeIn(r.h, T) /\ Wider(Sz(k, e), Sz(r.h, r.bp))
  BY <1>2, <1>4, CoalesceListed
<1>6. Kept(g, S, r.h, T)
  BY <1>4, <1>5, SameTransitive DEF Kept
<1> QED
  BY <1>4, <1>5, <1>6

-----------------------------------------------------------------------------
(* place and mm_free. *)

\* Only the list changes from m to k, and it leads through all free blocks then.
LEMMA RelinkedListed ==
    ASSUME NEW m, NEW T, Shape(m, T), Merged(Short(m), T), NEW k, Relinked(m, k, T),
           Chain(k, FreeIn(m, T), m.brk - 8)
    PROVE  /\ Listed(k, T) /\ Same(Short(m), T, Short(k), T) /\ k.brk = m.brk
           /\ \A x \in T : Sz(k, x) = Sz(m, x) /\ Al(k, x) = Al(m, x)
<1>1. PICK e : e = m.brk - 8
  OBVIOUS
<1>2. /\ Shape(k, T) /\ Same(Short(m), T, Short(k), T) /\ FreeIn(k, T) = FreeIn(m, T)
      /\ \A x \in T : Sz(k, x) = Sz(m, x) /\ Al(k, x) = Al(m, x)
      /\ k.brk = m.brk
  BY RelinkedIs DEF Relinked
<1>3. Merged(Short(k), T)
  <2>1. Short(k).brk = e /\ Short(m).brk = e
    BY <1>1, <1>2, ShortIs
  <2>2. \A x \in T : /\ Sz(Short(k), x) = Sz(Short(m), x) /\ Al(Short(k), x) = Al(Short(m), x)
                     /\ x # e => x + Sz(Short(m), x) \in T
    BY <1>1, <1>2, ShapeFacts, ShortIs
  <2> QED
    BY <2>1, <2>2 DEF Merged
<1> QED
  BY <1>2, <1>3 DEF Listed

\* What is written to the block at bp alone is no word of the list, but for its own two.
LEMMA Untouched ==
    ASSUME NEW g, NEW S, Shape(g, S), NEW bp \in S \ {g.brk - 8},
           NEW k, Outside(g, k, bp, bp + Sz(g, bp))
    PROVE  /\ Lo(k) = 24
           /\ \A x \in Ends(g, S) :
                 x # bp => k.mem[x] = g.mem[x] /\ k.mem[x + 4] = g.mem[x + 4]
<1>1. PICK e, size : e = g.brk - 8 /\ size = Sz(g, bp)
  OBVIOUS
<1>2. /\ e \in Nat /\ e + 8 <= MAX_HEAP /\ bp \in S \ {e} /\ bp \in Nat /\ bp % 8 = 0
      /\ size \in Nat /\ size % 8 = 0
      /\ 24 <= bp /\ 16 <= size /\ bp + size \in S /\ bp + size <= e
      /\ \A y \in S : y \in Nat /\ (y <= bp \/ bp + size <= y)
  BY <1>1, ShapeFacts
<1>3. \A w \in Words : w < bp - 4 \/ w > bp + size - 8 => k.mem[w] = g.mem[w]
  BY <1>1, <1>2, WordIs DEF Outside
<1>4. Lo(k) = 24
  <2>1. 4 \in Words
    BY <1>2, InWords, HeapAssumption
  <2>2. k.mem[4] = g.mem[4]
    BY <1>2, <1>3, <2>1
  <2> QED
    BY <2>2 DEF Shape, Lo
<1>5. ASSUME NEW x \in Ends(g, S), x # bp
      PROVE  k.mem[x] = g.mem[x] /\ k.mem[x + 4] = g.mem[x + 4]
  <2>1. x \in Words /\ x + 4 \in Words /\ x \in Nat
    BY <1>5, EndsApart DEF Nodes
  <2>2. CASE x = 8
    BY <1>2, <1>3, <2>1, <2>2
  <2>3. CASE x = e
    BY <1>2, <1>3, <2>1, <2>3
  <2>4. CASE x \in S \ {e}
    <3>1. Sz(g, x) \in Nat /\ 16 <= Sz(g, x) /\ (bp <= x \/ x + Sz(g, x) <= bp)
      BY <1>1, <1>2, <2>4, ShapeFacts
    <3>2. x + 4 < bp - 4 \/ x > bp + size - 8
      BY <1>2, <1>5, <2>1, <2>4, <3>1
    <3> QED
      BY <1>2, <1>3, <2>1, <3>2
  <2> QED
    BY <1>1, <1>5, <2>2, <2>3, <2>4 DEF Ends, FreeIn
<1> QED
  BY <1>4, <1>5

\* The free block at bp is marked as in use, as far as it is needed; it is in the list still.
Parted(g, S, bp, need, m, T) ==
    /\ Divided(Short(g), S, bp, need, Short(m), T) /\ Shape(m, T) /\ m.brk = g.brk
    /\ FreeIn(m, T) = (FreeIn(g, S) \ {bp})
                         \cup (IF Sz(g, bp) = need THEN {} ELSE {bp + need})
    /\ Chain(m, FreeIn(g, S), g.brk - 8)

LEMMA PartedIs ==
    ASSUME NEW g, NEW S, Listed(g, S), NEW bp \in FreeIn(g, S),
           NEW need \in Nat, need % 8 = 0, 16 <= need, Wider(need, Sz(g, bp)),
           NEW m, Divides(g, bp, need, m)
    PROVE  \E T : Parted(g, S, bp, need, m, T)
<1>1. PICK e, s, sm, size : e = g.brk - 8 /\ s = Short(g) /\ sm = Short(m) /\ size = Sz(g, bp)
  OBVIOUS
<1>2. Shape(g, S) /\ Merged(s, S) /\ Tiles(s, S) /\ s.brk = e /\ g \in Heap /\ Chain(g, FreeIn(g, S), e)
  BY <1>1, ShortIs DEF Listed, Shape
<1>3. bp \in S \ {e} /\ Al(g, bp) = 0
  BY <1>1 DEF FreeIn
<1>4. /\ bp \in Nat /\ bp % 8 = 0 /\ 24 <= bp /\ size \in Nat /\ size % 8 = 0 /\ bp + size \in S
      /\ bp + size <= e /\ e \in Nat /\ e + 8 <= MAX_HEAP
      /\ \A y \in S : y <= bp \/ bp + size <= y
  BY <1>1, <1>2, <1>3, ShapeFacts
<1>5. PICK rest \in Nat : /\ rest = size - need /\ size = need + rest /\ rest % 8 = 0
                          /\ rest = 0 \/ 16 <= rest
  BY <1>1, <1>4 DEF Wider
<1>6. PICK m1 : m1 = Mark(g, bp, need, 1) /\ m = IF rest > 0 THEN Mark(m1, bp + need, rest, 0) ELSE m1
  BY <1>1, <1>5 DEF Divides
<1>7. Marks(g, m1, bp, need, 1)
  <2>1. Room(bp, need)
    BY <1>2, <1>3, <1>4, <1>5, HeapAssumption DEF Room, Tiles
  <2> QED
    BY <1>2, <1>6, <2>1, MarkIs
<1>8. rest > 0 => Marks(m1, m, bp + need, rest, 0)
  <2>1. SUFFICES ASSUME rest > 0 PROVE Marks(m1, m, bp + need, rest, 0)
    OBVIOUS
  <2>2. PICK b : b = bp + need
    OBVIOUS
  <2>3. b \in Nat /\ b % 8 = 0 /\ 8 <= b /\ b + rest <= MAX_HEAP
    BY <1>4, <1>5, <2>2, HeapAssumption
  <2>4. Room(b, rest)
    BY <1>5, <2>1, <2>3, PtrIs, HeapAssumption DEF Room
  <2>5. m1 \in Heap
    BY <1>7 DEF Marks
  <2> QED
    BY <1>6, <2>1, <2>2, <2>4, <2>5, MarkIs
<1>9. m \in Heap /\ m.brk = g.brk
  BY <1>6, <1>7, <1>8 DEF Marks
<1>10. m.mem[bp] = g.mem[bp] /\ m.mem[bp + 4] = g.mem[bp + 4]
  <2>1. bp \in Words /\ bp + 4 \in Words
    <3>1. bp \in Ends(g, S)
      BY DEF Ends
    <3> QED
      BY <1>2, <3>1, EndsApart DEF Nodes
  <2>2. m1.mem[bp] = g.mem[bp] /\ m1.mem[bp + 4] = g.mem[bp + 4]
    BY <1>4, <1>7, <2>1 DEF Marks
  <2>3. rest > 0 => m.mem[bp] = m1.mem[bp] /\ m.mem[bp + 4] = m1.mem[bp + 4]
    <3>1. \A w \in Words : rest > 0 /\ w # bp + need - 4 /\ w # bp + need + rest - 8
                              => m.mem[w] = m1.mem[w]
      <4>1. \A w \in Words : rest > 0 /\ w # (bp + need) - 4 /\ w # (bp + need) + rest - 8
                                => m.mem[w] = m1.mem[w]
        BY <1>8 DEF Marks
      <4> QED
        BY <1>4, <1>5, <4>1
    <3>2. /\ bp # bp + need - 4 /\ bp # bp + need + rest - 8
          /\ bp + 4 # bp + need - 4 /\ bp + 4 # bp + need + rest - 8
      BY <1>4, <1>5
    <3> QED
      BY <2>1, <3>1, <3>2
  <2> QED
    BY <1>6, <2>2, <2>3
<1>11. Divides(s, bp, need, sm)
  <2>1. Sz(s, bp) - need = rest
    BY <1>1, <1>5, ShortIs
  <2>2. Short(m1) = Mark(s, bp, need, 1)
    BY <1>1, <1>2, <1>6, HeapRecord, ShortMark
  <2>3. rest > 0 => sm = Mark(Short(m1), bp + need, rest, 0)
    <3>1. m1 \in Heap
      BY <1>7 DEF Marks
    <3> QED
      BY <1>1, <1>6, <3>1, HeapRecord, ShortMark
  <2>4. sm = IF rest > 0 THEN Mark(Mark(s, bp, need, 1), bp + need, rest, 0)
             ELSE Mark(s, bp, need, 1)
    BY <1>1, <1>6, <2>2, <2>3
  <2> QED
    BY <2>1, <2>4 DEF Divides
<1>12. PICK T : Divided(s, S, bp, need, sm, T)
  <2>1. bp \in S \ {s.brk} /\ Al(s, bp) = 0 /\ 8 <= need /\ need <= Sz(s, bp)
    <3>1. Sz(s, bp) = size /\ Al(s, bp) = Al(g, bp)
      BY <1>1, ShortIs
    <3>2. 8 <= need /\ need <= size
      BY <1>5
    <3> QED
      BY <1>2, <1>3, <3>1, <3>2
  <2> QED
    BY <1>2, <1>11, <2>1, DividedIs
<1>13. /\ Tiles(sm, T) /\ Merged(sm, T) /\ sm.brk = e /\ Sz(m, bp) = need /\ Al(m, bp) = 1
       /\ IF size = need THEN T = S
          ELSE /\ T = S \cup {bp + need} /\ bp + need \notin S
               /\ Sz(m, bp + need) = rest /\ Al(m, bp + need) = 0
       /\ \A x \in S \ {bp, e} : Sz(m, x) = Sz(g, x) /\ Al(m, x) = Al(g, x)
       /\ Outside(s, sm, bp, bp + size)
  <2>1. \A x : /\ Sz(sm, x) = Sz(m, x) /\ Al(sm, x) = Al(m, x)
               /\ Sz(s, x) = Sz(g, x) /\ Al(s, x) = Al(g, x)
    BY <1>1, ShortIs
  <2>2. Al(sm, bp) = 1
    <3>1. Added(s, S, sm, T, bp)
      BY <1>12 DEF Divided
    <3> QED
      BY <3>1 DEF Added, Used
  <2>3. /\ Tiles(sm, T) /\ Merged(sm, T) /\ sm.brk = s.brk /\ Sz(sm, bp) = need
        /\ IF Sz(s, bp) = need THEN T = S
           ELSE /\ T = S \cup {bp + need} /\ bp + need \notin S
                /\ Sz(sm, bp + need) = Sz(s, bp) - need /\ Al(sm, bp + need) = 0
        /\ \A x \in S \ {bp, s.brk} : Sz(sm, x) = Sz(s, x) /\ Al(sm, x) = Al(s, x)
        /\ Outside(s, sm, bp, bp + Sz(s, bp))
    BY <1>12 DEF Divided
  <2> QED
    BY <1>1, <1>2, <1>5, <2>1, <2>2, <2>3
<1>14. Outside(g, m, bp, bp + size)
  BY <1>1, <1>13, ShortIs DEF Outside
<1>15. /\ Lo(m) = 24
       /\ \A x \in Ends(g, S) : m.mem[x] = g.mem[x] /\ m.mem[x + 4] = g.mem[x + 4]
  BY <1>1, <1>2, <1>3, <1>10, <1>14, Untouched
<1>16. Chain(m, FreeIn(g, S), e)
  <2>1. FreeIn(g, S) \cup {8, e} \subseteq Ends(g, S)
    BY <1>1 DEF Ends
  <2>2. /\ \A x \in FreeIn(g, S) \cup {8} : m.mem[x] = g.mem[x]
        /\ \A x \in FreeIn(g, S) \cup {e} : m.mem[x + 4] = g.mem[x + 4]
    BY <1>15, <2>1
  <2> QED
    BY <1>2, <2>2, ChainKept
<1>17. m.brk - 8 = e /\ m.brk <= MAX_HEAP
  BY <1>1, <1>2, <1>9 DEF Shape
<1>18. \A x \in T \ {e} : 16 <= Sz(m, x)
  <2>1. \A x \in S \ {e} : 16 <= Sz(g, x)
    BY <1>1, <1>2 DEF Shape
  <2>2. size # need => 16 <= rest
    BY <1>5
  <2>3. \A x \in S \ {e} : 16 <= Sz(m, x)
    BY <1>13, <2>1
  <2> QED
    BY <1>13, <2>2, <2>3
<1>19. Shape(m, T)
  BY <1>1, <1>9, <1>13, <1>15, <1>17, <1>18 DEF Shape
<1>20. FreeIn(m, T) = (FreeIn(g, S) \ {bp}) \cup (IF size = need THEN {} ELSE {bp + need})
  <2>1. FreeIn(m, T) = {x \in T \ {e} : Al(m, x) = 0}
    BY <1>17 DEF FreeIn
  <2>2. FreeIn(g, S) = {x \in S \ {e} : Al(g, x) = 0}
    BY <1>1 DEF FreeIn
  <2>3. bp + need # e \/ size = need
    BY <1>2, <1>13 DEF Tiles
  <2> QED
    BY <1>13, <2>1, <2>2, <2>3
<1> QED
  BY <1>1, <1>9, <1>12, <1>16, <1>19, <1>20 DEF Parted

LEMMA AddedSame ==
    ASSUME NEW g, NEW S, NEW k, NEW T, NEW l, NEW U, NEW bp, Added(g, S, k, T, bp), Same(k, T, l, U)
    PROVE  Added(g, S, l, U, bp)
<1>1. ASSUME NEW x \in Used(g, S) PROVE KeptBlock(g, l, U, x)
  <2>1. KeptBlock(g, k, T, x) /\ KeptBlock(k, l, U, x)
    BY DEF Same, Added
  <2>2. Sz(k, x) = Sz(g, x)
    BY <2>1 DEF KeptBlock
  <2>3. Body(k, x) = Body(g, x)
    BY <2>2 DEF Body
  <2> QED
    BY <2>1, <2>2, <2>3 DEF KeptBlock
<1> QED
  BY <1>1 DEF Same, Added

\* k is g with a block in use at bp; the list is what it should be.
Placed(g, S, k, T, bp, need) ==
    Listed(k, T) /\ Added(Short(g), S, Short(k), T, bp) /\ k.brk = g.brk /\ Sz(k, bp) = need

\* A free block that is large enough is taken, and leaves the list to what is left of it.
LEMMA PlaceListed ==
    ASSUME NEW g, NEW S, Listed(g, S), NEW bp \in FreeIn(g, S),
           NEW need \in Nat, need % 8 = 0, 16 <= need, Wider(need, Sz(g, bp)),
           NEW k, k = Explicit!place(g, bp, need)
    PROVE  \E T : Placed(g, S, k, T, bp, need)
<1>1. PICK e, F, m, size : /\ e = g.brk - 8 /\ F = FreeIn(g, S) /\ Divides(g, bp, need, m)
                           /\ size = Sz(g, bp)
  BY DEF Divides
<1>2. PICK T : Parted(g, S, bp, need, m, T)
  BY <1>1, PartedIs
<1>3. /\ Divided(Short(g), S, bp, need, Short(m), T) /\ Shape(m, T) /\ m.brk = g.brk
      /\ FreeIn(m, T) = (F \ {bp}) \cup (IF size = need THEN {} ELSE {bp + need})
      /\ Chain(m, F, e)
  BY <1>1, <1>2 DEF Parted
<1>4. /\ Merged(Short(m), T) /\ Added(Short(g), S, Short(m), T, bp) /\ Sz(m, bp) = need /\ bp \in T
  <2>1. Added(Short(g), S, Short(m), T, bp)
    BY <1>3 DEF Divided
  <2>2. bp \in T
    BY <2>1 DEF Added, Used
  <2> QED
    BY <1>3, <2>1, <2>2, ShortIs DEF Divided
<1>5. Nodes(F \cup {8, e}) /\ F \ {bp} \subseteq FreeIn(m, T) /\ e = m.brk - 8 /\ bp \in F
  <2>1. Shape(g, S)
    BY DEF Listed
  <2> QED
    BY <1>1, <1>3, <2>1, EndsApart DEF Ends
<1>6. size \in Nat /\ (size = need \/ size - need > 0)
  <2>1. bp \in S \ {e} /\ Shape(g, S)
    BY <1>1 DEF FreeIn, Listed
  <2> QED
    BY <1>1, <2>1, ShapeFacts DEF Wider
<1>7. k = IF size = need THEN Explicit!Unlink(m, bp) ELSE Explicit!Replace(m, bp, bp + need)
  <2>1. k = IF size - need > 0
            THEN Explicit!Replace(Mark(Mark(g, bp, need, 1), bp + need, size - need, 0), bp, bp + need)
            ELSE Explicit!Unlink(Mark(g, bp, need, 1), bp)
    BY <1>1, ExplicitMacros, ExplicitMark DEF Explicit!place, Sz
  <2>2. m = IF size - need > 0 THEN Mark(Mark(g, bp, need, 1), bp + need, size - need, 0)
            ELSE Mark(g, bp, need, 1)
    BY <1>1 DEF Divides
  <2>3. size = need => ~(size - need > 0)
    BY <1>6
  <2> QED
    BY <1>6, <2>1, <2>2, <2>3
<1>8. Relinked(m, k, T) /\ Chain(k, FreeIn(m, T), e)
  <2>0. Shape(m, T) /\ e = m.brk - 8 /\ Chain(m, F, e)
    BY <1>3, <1>5
  <2>1. CASE size = need
    <3>1. k = Explicit!Unlink(m, bp) /\ FreeIn(m, T) = F \ {bp}
      BY <1>3, <1>7, <2>1
    <3>2. Relinked(m, k, T) /\ Chain(k, F \ {bp}, e)
      BY <1>5, <2>0, <3>1, UnlinkIs
    <3> QED
      BY <3>1, <3>2
  <2>2. CASE size # need
    <3>1. PICK x : x = bp + need
      OBVIOUS
    <3>2. k = Explicit!Replace(m, bp, x) /\ FreeIn(m, T) = (F \ {bp}) \cup {x}
      BY <1>3, <1>7, <2>2, <3>1
    <3>3. x \in FreeIn(m, T) \ F
      <4>1. bp + need \notin S
        BY <1>1, <1>3, <2>2, ShortIs DEF Divided
      <4> QED
        BY <1>1, <3>1, <3>2, <4>1 DEF FreeIn
    <3>4. Relinked(m, k, T) /\ Chain(k, (F \ {bp}) \cup {x}, e)
      BY <1>5, <2>0, <3>2, <3>3, ReplaceIs
    <3> QED
      BY <3>2, <3>4
  <2> QED
    BY <2>1, <2>2
<1>9. /\ Listed(k, T) /\ Same(Short(m), T, Short(k), T) /\ k.brk = m.brk
      /\ \A x \in T : Sz(k, x) = Sz(m, x) /\ Al(k, x) = Al(m, x)
  <2>1. Shape(m, T) /\ Merged(Short(m), T) /\ Chain(k, FreeIn(m, T), m.brk - 8)
    BY <1>3, <1>4, <1>5, <1>8
  <2> QED
    BY <1>8, <2>1, RelinkedListed
<1>10. Added(Short(g), S, Short(k), T, bp)
  BY <1>4, <1>9, AddedSame
<1> QED
  BY <1>3, <1>4, <1>9, <1>10 DEF Placed

\* A block in use is marked free, merged with its neighbours, and enters the list.
LEMMA FreeListed ==
    ASSUME NEW g, NEW S, Listed(g, S), NEW bp \in Used(Short(g), S),
           NEW k, k = Explicit!mm_free(g, bp)
    PROVE  \E T : Listed(k, T) /\ Removed(Short(g), S, Short(k), T, bp) /\ k.brk = g.brk
<1>1. PICK e, F, m, r, size : /\ e = g.brk - 8 /\ F = FreeIn(g, S) /\ size = Sz(g, bp)
                              /\ m = Mark(g, bp, size, 0) /\ r = Explicit!coalesce(m, bp)
  OBVIOUS
<1>2. /\ Shape(g, S) /\ Merged(Short(g), S) /\ Tiles(Short(g), S) /\ Short(g).brk = e
      /\ g \in Heap /\ Chain(g, F, e)
  BY <1>1, ShortIs DEF Listed, Shape
<1>3. bp \in S \ {e} /\ Al(g, bp) = 1
  BY <1>2, ShortIs DEF Used
<1>4. k = r.h
  BY <1>1, ExplicitMacros, ExplicitMark DEF Explicit!mm_free, Explicit!free, Sz
<1>5. Unmarked(Short(g), S, bp, Short(m))
  <2>1. Short(m) = Mark(Short(g), bp, Sz(Short(g), bp), 0)
    BY <1>1, <1>2, HeapRecord, ShortMark, ShortIs
  <2> QED
    BY <1>2, <2>1, UnmarkedIs
<1>6. m \in Heap /\ m.brk = g.brk
  <2>1. Room(bp, size)
    <3>1. /\ bp \in Ptrs /\ size \in Nat /\ size % 8 = 0 /\ 16 <= size /\ bp + size <= MAX_HEAP
          /\ 8 <= size
      <4>1. bp + size \in S /\ size \in Nat /\ size % 8 = 0 /\ 16 <= size
        BY <1>1, <1>2, <1>3, ShapeFacts
      <4>2. \A x \in S : x \in Ptrs /\ x <= MAX_HEAP
        BY <1>2, TilesFacts DEF Tiles
      <4> QED
        BY <1>3, <4>1, <4>2
    <3> QED
      BY <3>1 DEF Room
  <2>2. Marks(g, m, bp, size, 0)
    BY <1>1, <1>2, <2>1, MarkIs
  <2> QED
    BY <2>2 DEF Marks
<1>7. /\ Tiles(Short(m), S) /\ MergedBut(Short(m), S, bp) /\ Al(m, bp) = 0 /\ Sz(m, bp) = size
      /\ \A x \in S \ {bp, e} : Sz(m, x) = Sz(g, x) /\ Al(m, x) = Al(g, x)
      /\ Outside(g, m, bp, bp + size)
  <2>1. \A x : /\ Sz(Short(m), x) = Sz(m, x) /\ Al(Short(m), x) = Al(m, x)
               /\ Sz(Short(g), x) = Sz(g, x) /\ Al(Short(g), x) = Al(g, x)
    BY ShortIs
  <2>2. Outside(Short(g), Short(m), bp, bp + size)
    BY <1>1, <1>5, <2>1 DEF Unmarked
  <2>3. Outside(g, m, bp, bp + size)
    BY <2>2, ShortIs DEF Outside
  <2> QED
    BY <1>1, <1>2, <1>5, <2>1, <2>3 DEF Unmarked
<1>8. /\ Lo(m) = 24
      /\ \A x \in Ends(g, S) :
            x # bp => m.mem[x] = g.mem[x] /\ m.mem[x + 4] = g.mem[x + 4]
  BY <1>1, <1>2, <1>3, <1>7, Untouched
<1>9. Chain(m, F, e)
  <2>1. \A x \in F \cup {8, e} : x \in Ends(g, S) /\ x # bp
    <3>1. bp # 8
      BY <1>2, <1>3, ShapeFacts
    <3> QED
      BY <1>1, <1>3, <3>1 DEF Ends, FreeIn
  <2>2. /\ \A x \in F \cup {8} : m.mem[x] = g.mem[x]
        /\ \A x \in F \cup {e} : m.mem[x + 4] = g.mem[x + 4]
    BY <1>8, <2>1
  <2> QED
    BY <1>2, <2>2, ChainKept
<1>10. Shape(m, S)
  <2>1. \A x \in S \ {e} : 16 <= Sz(m, x)
    <3>1. \A x \in S \ {e} : 16 <= Sz(g, x)
      BY <1>1, <1>2 DEF Shape
    <3> QED
      BY <1>1, <1>3, <1>7, <3>1
  <2> QED
    BY <1>1, <1>2, <1>6, <1>7, <1>8, <2>1 DEF Shape
<1>11. bp \in FreeIn(m, S) /\ FreeIn(m, S) \ {bp} = F /\ m.brk - 8 = e
  <2>1. m.brk - 8 = e
    BY <1>1, <1>6
  <2>2. FreeIn(m, S) = {x \in S \ {e} : Al(m, x) = 0} /\ F = {x \in S \ {e} : Al(g, x) = 0}
    BY <1>1, <2>1 DEF FreeIn
  <2> QED
    BY <1>3, <1>7, <2>1, <2>2
<1>12. PICK T : Kept(m, S, r.h, T) /\ r.h.brk = m.brk
  BY <1>1, <1>7, <1>9, <1>10, <1>11, CoalesceListed
<1>13. Removed(Short(g), S, Short(k), T, bp)
  BY <1>2, <1>4, <1>5, <1>12, RemovedIs DEF Kept
<1> QED
  BY <1>4, <1>6, <1>12, <1>13 DEF Kept

-----------------------------------------------------------------------------
(* The search for a free block. *)

\* find_fit is the end of a walk along the list.
LEMMA ListWalk ==
    ASSUME NEW g, NEW need
    PROVE  \E f : /\ \A bp \in Ptrs :
                        f[bp] = IF Explicit!Fits(Sz(g, bp), need) THEN bp
                                ELSE IF Sz(g, bp) = 0 \/ Nx(g, bp) \notin Ptrs THEN NULL
                                ELSE f[Nx(g, bp)]
                  /\ Explicit!find_fit(g, need) = f[Nx(g, 8)]
<1> DEFINE Stop(bp) == Explicit!Fits(Sz(g, bp), need)
           End(bp) == Sz(g, bp) = 0 \/ Nx(g, bp) \notin Ptrs
           V == Ptrs \cup {NULL}
           stop == {bp \in Ptrs : Stop(bp) \/ End(bp)}
           val == [bp \in Ptrs |-> IF Stop(bp) THEN bp ELSE NULL]
           nx == [bp \in Ptrs |-> IF End(bp) THEN bp ELSE Nx(g, bp)]
<1>1. PICK f \in [Ptrs -> V] : \A x \in Ptrs : f[x] = IF x \in stop THEN val[x] ELSE f[nx[x]]
  <2>1. TailOver(Ptrs, V, stop, val, nx)
    BY DEF TailOver
  <2> HIDE DEF nx, V, val, stop
  <2> QED
    BY <2>1, TailDefined
<1>2. \A x \in Ptrs : f[x] = IF Stop(x) THEN x ELSE IF End(x) THEN NULL ELSE f[Nx(g, x)]
  <2>1. ASSUME NEW x \in Ptrs
        PROVE  f[x] = IF Stop(x) THEN x ELSE IF End(x) THEN NULL ELSE f[Nx(g, x)]
    <3> HIDE DEF Stop, End
    <3> QED
      BY <1>1
  <2> QED
    BY <2>1
<1> HIDE DEF nx, V, val, stop
<1> DEFINE G(from) ==
        [bp \in Explicit!Ptrs |->
           LET size == Explicit!GET_SIZE(g, Explicit!HDRP(bp))
           IN  IF Explicit!Fits(size, need) THEN bp
               ELSE IF size = 0 \/ Explicit!NEXT_EXBP(g, bp) \notin Explicit!Ptrs
               THEN Explicit!NULL ELSE from[Explicit!NEXT_EXBP(g, bp)]]
           F == CHOOSE from : from = G(from)
<1>3. F = [bp \in Ptrs |-> IF Stop(bp) THEN bp ELSE IF End(bp) THEN NULL ELSE F[Nx(g, bp)]]
  <2>1. f = [bp \in Ptrs |-> IF Stop(bp) THEN bp ELSE IF End(bp) THEN NULL ELSE f[Nx(g, bp)]]
    BY <1>2
  <2>2. Explicit!Ptrs = Ptrs /\ Explicit!NULL = NULL
    BY DEF Explicit!Ptrs, Ptrs, Explicit!NULL, NULL, Explicit!DSIZE, DSIZE
  <2>3. \A from : G(from) = [bp \in Ptrs |-> IF Stop(bp) THEN bp ELSE IF End(bp) THEN NULL
                                            ELSE from[Nx(g, bp)]]
    BY <2>2, ExplicitMacros DEF Sz
  <2> HIDE DEF Stop, End
  <2>4. f = G(f)
    BY <2>1, <2>3
  <2>5. F = G(F)
    <3> HIDE DEF G
    <3> QED
      BY <2>4
  <2> QED
    BY <2>3, <2>5
<1>4. Explicit!find_fit(g, need) = F[Nx(g, 8)]
  BY ExplicitMacros DEF Explicit!find_fit
<1>5. \A bp \in Ptrs : F[bp] = IF Stop(bp) THEN bp ELSE IF End(bp) THEN NULL ELSE F[Nx(g, bp)]
  <2> HIDE DEF Stop, End, F
  <2> QED
    BY <1>3
<1> HIDE DEF F
<1> QED
  BY <1>4, <1>5

\* The first free block that fits is found, and none only if there is none.
LEMMA ListFitIs ==
    ASSUME NEW g, NEW S, Listed(g, S), NEW need \in Nat, need # 0,
           NEW p, p = Explicit!find_fit(g, need)
    PROVE  \/ p = NULL /\ \A x \in FreeIn(g, S) : ~Explicit!Fits(Sz(g, x), need)
           \/ p # NULL /\ p \in FreeIn(g, S) /\ Wider(need, Sz(g, p))
<1>1. PICK f : /\ \A bp \in Ptrs :
                     f[bp] = IF Explicit!Fits(Sz(g, bp), need) THEN bp
                             ELSE IF Sz(g, bp) = 0 \/ Nx(g, bp) \notin Ptrs THEN NULL
                             ELSE f[Nx(g, bp)]
               /\ p = f[Nx(g, 8)]
  BY ListWalk
<1>2. PICK e, F, N : e = g.brk - 8 /\ F = FreeIn(g, S) /\ N = F \cup {8, e}
  OBVIOUS
<1>3. PICK rk : Numbered(g, F, e, rk)
  BY <1>2 DEF Listed, Chain
<1>4. e # 8 /\ e \notin F /\ 8 \notin F /\ Nx(g, 8) \in F \cup {e}
  <2>1. Chain(g, F, e)
    BY <1>2 DEF Listed
  <2>2. Nx(g, 8) \in F \cup {e}
    BY <2>1, ChainFacts
  <2> QED
    BY <2>1, <2>2 DEF Chain
<1>5. /\ \A x \in F : /\ x \in Ptrs /\ x # NULL /\ Sz(g, x) \in Nat /\ Sz(g, x) # 0
      /\ e \in Ptrs /\ Sz(g, e) = 0
  <2>1. Shape(g, S) /\ S \subseteq Ptrs /\ F \subseteq S \ {e}
    BY <1>2 DEF Listed, Shape, Tiles, FreeIn
  <2> QED
    BY <1>2, <2>1, ShapeFacts DEF NULL
<1>6. /\ rk[8] \in Nat /\ \A x \in F \cup {e} : rk[x] \in Nat /\ rk[x] <= rk[e] /\ rk[8] <= rk[x]
      /\ \A x \in F : Nx(g, x) \in F \cup {e} /\ rk[x] < rk[Nx(g, x)]
      /\ \A x \in F : \A y \in F : rk[y] <= rk[x] \/ rk[Nx(g, x)] <= rk[y]
      /\ \A x, y \in F : rk[x] = rk[y] => x = y
      /\ \A y \in F : rk[y] <= rk[8] \/ rk[Nx(g, 8)] <= rk[y]
      /\ \A y \in F : rk[y] # rk[8]
  <2>1. \A x \in F : Nx(g, x) # 8
    BY <1>3, <1>4 DEF Numbered
  <2> QED
    BY <1>3, <1>4, <2>1 DEF Numbered
<1> DEFINE Stop(bp) == Explicit!Fits(Sz(g, bp), need)
           Found(x, v) == \/ v = NULL /\ \A y \in F : rk[x] <= rk[y] => ~Stop(y)
                          \/ v # NULL /\ v \in F /\ Stop(v)
           Bad == {x \in F \cup {e} : ~Found(x, f[x])}
           Ranks == {rk[x] : x \in Bad}
<1>7. Bad = {}
  <2>1. SUFFICES ASSUME Bad # {} PROVE FALSE
    OBVIOUS
  <2>2. PICK x \in Bad : \A y \in Bad : rk[y] <= rk[x]
    <3>1. Ranks \in SUBSET Nat /\ (\A n \in Ranks : n <= rk[e]) /\ rk[e] \in Nat
      BY <1>6
    <3>2. Ranks # {}
      BY <2>1
    <3>3. PICK n \in Ranks : \A l \in Ranks : l <= n
      <4> HIDE DEF Ranks
      <4> QED
        BY <3>1, <3>2, GreatestNatural
    <3> QED
      BY <3>3
  <2>3. x \in F \cup {e} /\ ~Found(x, f[x])
    OBVIOUS
  <2>4. x # e
    <3>1. SUFFICES ASSUME x = e PROVE FALSE
      OBVIOUS
    <3>2. ~Stop(e)
      <4>1. ~(0 >= need + 16) /\ 0 # need
        OBVIOUS
      <4> QED
        BY <1>5, <4>1 DEF Explicit!Fits
    <3>3. f[e] = NULL
      BY <1>1, <1>5, <3>2
    <3>4. \A y \in F : ~(rk[e] <= rk[y])
      <4>1. \A y \in F : rk[y] # rk[e]
        BY <1>2, <1>3, <1>4 DEF Numbered
      <4> QED
        BY <1>6, <4>1
    <3> QED
      BY <2>3, <3>1, <3>3, <3>4
  <2>5. PICK n : n = Nx(g, x) /\ n \in F \cup {e} /\ rk[x] < rk[n] /\ n \in Ptrs
    BY <1>5, <1>6, <2>3, <2>4
  <2>6. Found(n, f[n])
    <3>1. rk[x] \in Nat /\ rk[n] \in Nat /\ ~(rk[n] <= rk[x])
      BY <1>6, <2>3, <2>5
    <3>2. n \notin Bad
      <4> HIDE DEF Bad
      <4> QED
        BY <2>2, <3>1
    <3> QED
      BY <2>5, <3>2
  <2>7. CASE Stop(x)
    <3>1. f[x] = x
      BY <1>1, <1>5, <2>3, <2>7
    <3> QED
      BY <1>5, <2>3, <2>4, <2>7, <3>1
  <2>8. CASE ~Stop(x)
    <3>1. f[x] = f[n]
      BY <1>1, <1>5, <2>3, <2>4, <2>5, <2>8
    <3>2. \A y \in F : rk[x] <= rk[y] => y = x \/ rk[n] <= rk[y]
      <4>1. SUFFICES ASSUME NEW y \in F, rk[x] <= rk[y], ~(rk[n] <= rk[y]) PROVE y = x
        OBVIOUS
      <4>2. rk[y] <= rk[x] /\ rk[x] \in Nat /\ rk[y] \in Nat
        BY <1>6, <2>3, <2>4, <2>5, <4>1
      <4> QED
        BY <1>6, <2>3, <2>4, <4>1, <4>2
    <3> HIDE DEF Stop
    <3> QED
      BY <2>3, <2>6, <2>8, <3>1, <3>2
  <2> QED
    BY <2>7, <2>8
<1>8. Found(Nx(g, 8), p)
  BY <1>1, <1>4, <1>7
<1>9. \A y \in F : rk[Nx(g, 8)] <= rk[y]
  <2>1. SUFFICES ASSUME NEW y \in F PROVE rk[Nx(g, 8)] <= rk[y]
    OBVIOUS
  <2>2. ~(rk[y] <= rk[8])
    BY <1>6
  <2> QED
    BY <1>6, <2>2
<1>10. ASSUME p \in F, Stop(p) PROVE Wider(need, Sz(g, p))
  <2>1. Sz(g, p) \in Nat
    BY <1>5, <1>10
  <2> QED
    BY <1>10, <2>1 DEF Explicit!Fits, Wider
<1> HIDE DEF Stop
<1> QED
  BY <1>2, <1>8, <1>9, <1>10 DEF Stop

-----------------------------------------------------------------------------
(* mm_init. *)

\* A list without free blocks: the prologue and the epilogue are neighbours.
LEMMA ChainOfNone ==
    ASSUME NEW g, NEW e \in Nat, e # 8, Nx(g, 8) = e, Pv(g, e) = 8
    PROVE  Chain(g, {}, e)
<1>1. PICK rk : rk = [x \in {8, e} |-> IF x = 8 THEN 0 ELSE 1]
  OBVIOUS
<1>2. /\ rk \in [{8, e} -> Nat] /\ rk[8] = 0 /\ rk[e] = 1
      /\ \A x \in {8, e} \ {e} : x = 8
      /\ \A x \in {8, e} \ {8} : x = e
  BY <1>1
<1>3. Numbered(g, {}, e, rk)
  BY <1>2 DEF Numbered
<1> QED
  BY <1>3 DEF Chain

\* What was written while the heap was used before is of no account to mm_init.
LEMMA InitListed ==
    ASSUME NEW g \in Heap, g.brk = 0, CHUNKSIZE + 32 <= MAX_HEAP, NEW k, k = Explicit!mm_init(g)
    PROVE  \E T : Listed(k, T) /\ Used(Short(k), T) = {}
<1>1. PICK h0, h1, h2, h3, h4, h5, h6, h7 :
         /\ h0 = mem_sbrk(g, 32) /\ h1 = PUT(h0, 0, 0) /\ h2 = Mark(h1, 8, 16, 1)
         /\ h3 = PUT(h2, 8, 16) /\ h4 = PUT(h3, 12, -1) /\ h5 = PUT(h4, 20, 1)
         /\ h6 = PUT(h5, 24, -1) /\ h7 = PUT(h6, 28, 0)
  OBVIOUS
<1>2. k = Explicit!extend_heap(h7, CHUNKSIZE).h
  BY <1>1, ExplicitMark, ExplicitMacros
  DEF Explicit!mm_init, Explicit!mem_sbrk, mem_sbrk, Explicit!WSIZE, Explicit!DSIZE, HDRP, WSIZE
<1>3. h0 \in Heap /\ h0.brk = 32
  BY <1>1 DEF mem_sbrk, Heap
<1>4. /\ 0 \in Words /\ 4 \in Words /\ 8 \in Words /\ 12 \in Words /\ 16 \in Words /\ 20 \in Words
      /\ 24 \in Words /\ 28 \in Words /\ 8 \in Ptrs /\ 24 \in Ptrs /\ 32 <= MAX_HEAP
  <2>1. 32 <= MAX_HEAP
    BY HeapAssumption
  <2>2. 0 \in Words /\ 4 \in Words /\ 8 \in Words /\ 12 \in Words
    BY <2>1, InWords, HeapAssumption
  <2>3. 16 \in Words /\ 20 \in Words /\ 24 \in Words /\ 28 \in Words
    BY <2>1, InWords, HeapAssumption
  <2>4. 8 \in Ptrs /\ 24 \in Ptrs
    BY <2>1, PtrIs, HeapAssumption
  <2> QED
    BY <2>1, <2>2, <2>3, <2>4
<1>5. h1 \in Heap /\ h1.brk = 32
  <2>1. Puts(h0, h1, 0, 0)
    BY <1>1, <1>3, <1>4, PutIs
  <2> QED
    BY <1>3, <2>1 DEF Puts
<1>6. h2 \in Heap /\ h2.brk = 32 /\ h2.mem[4] = 17 /\ h2.mem[16] = 17
  <2>1. Room(8, 16)
    BY <1>4, HeapAssumption DEF Room
  <2>2. Marks(h1, h2, 8, 16, 1)
    BY <1>1, <1>5, <2>1, MarkIs
  <2> QED
    BY <1>5, <2>2 DEF Marks, Marked
<1>7. Puts(h2, h3, 8, 16) /\ h3 \in Heap
  <2>1. Puts(h2, h3, 8, 16)
    BY <1>1, <1>4, <1>6, PutIs
  <2> QED
    BY <2>1 DEF Puts
<1>8. Puts(h3, h4, 12, -1) /\ h4 \in Heap
  <2>1. Puts(h3, h4, 12, -1)
    BY <1>1, <1>4, <1>7, PutIs
  <2> QED
    BY <2>1 DEF Puts
<1>9. Puts(h4, h5, 20, 1) /\ h5 \in Heap
  <2>1. Puts(h4, h5, 20, 1)
    BY <1>1, <1>4, <1>8, PutIs
  <2> QED
    BY <2>1 DEF Puts
<1>10. Puts(h5, h6, 24, -1) /\ h6 \in Heap
  <2>1. Puts(h5, h6, 24, -1)
    BY <1>1, <1>4, <1>9, PutIs
  <2> QED
    BY <2>1 DEF Puts
<1>11. Puts(h6, h7, 28, 0)
  BY <1>1, <1>4, <1>10, PutIs
<1>12. /\ h7 \in Heap /\ h7.brk = 32 /\ h7.mem[4] = 17 /\ h7.mem[16] = 17
       /\ h7.mem[8] = 16 /\ h7.mem[20] = 1 /\ h7.mem[28] = 0
  BY <1>4, <1>6, <1>7, <1>8, <1>9, <1>10, <1>11 DEF Puts
<1>13. Lo(h7) = 24 /\ h7.brk - 8 = 24 /\ Short(h7).brk = 24 /\ Short(h7).mem = h7.mem
  BY <1>12, ShortIs DEF Lo
<1>14. Tiles(Short(h7), {24}) /\ Merged(Short(h7), {24})
  <2>1. Short(h7) \in Heap
    BY <1>12, <1>13 DEF Short, Heap
  <2>2. Prologue(Short(h7)) /\ Lo(Short(h7)) = 24
    BY <1>12, <1>13 DEF Prologue, Lo
  <2>3. Short(h7).mem[Short(h7).brk - 4] = 1
    BY <1>12, <1>13
  <2> QED
    BY <1>4, <1>13, <2>1, <2>2, <2>3 DEF Tiles, Merged
<1>15. Listed(h7, {24})
  <2>1. Shape(h7, {24})
    BY <1>4, <1>12, <1>13, <1>14 DEF Shape
  <2>2. FreeIn(h7, {24}) = {}
    BY <1>13 DEF FreeIn
  <2>3. Nx(h7, 8) = 24 /\ Pv(h7, 24) = 8
    BY <1>12 DEF Nx, Pv
  <2>4. Chain(h7, {}, 24)
    BY <2>3, ChainOfNone
  <2> QED
    BY <1>13, <1>14, <2>1, <2>2, <2>4 DEF Listed
<1>16. CanGrow(h7, CHUNKSIZE)
  BY <1>12, HeapAssumption DEF CanGrow
<1>17. PICK r, T : r = Explicit!extend_heap(h7, CHUNKSIZE) /\ Kept(h7, {24}, r.h, T)
  <2>1. CHUNKSIZE \in Nat /\ CHUNKSIZE % 8 = 0 /\ 16 <= CHUNKSIZE
    BY HeapAssumption
  <2> QED
    BY <1>15, <1>16, <2>1, ExtendListed
<1>18. Used(Short(h7), {24}) = {}
  BY <1>13 DEF Used
<1> QED
  BY <1>2, <1>17, <1>18 DEF Kept, Same

-----------------------------------------------------------------------------
(* mm_malloc. *)

\* What mm_malloc answers: NULL, if no free block fits and the heap cannot grow, or a new
\* block.  As Granted speaks of heaps that end with the epilogue, Cut takes the two words
\* behind it from an answer's heap.
Cut(r) == [h |-> Short(r.h), p |-> r.p]
Denied(g, S, size, r) ==
    /\ r.p = NULL /\ r.h = g
    /\ \E n \in {asize(size), CHUNKSIZE} : ~CanGrow(g, n)
    /\ \A x \in FreeIn(g, S) : ~Explicit!Fits(Sz(g, x), asize(size))
Given(g, S, size, r, T) == Listed(r.h, T) /\ Granted(Short(g), S, size, Cut(r), T)

\* A request for CHUNKSIZE - 8 bytes would leave 8 bytes of a block that was just obtained
\* (mm-explicit.c:353), which are not enough for a free block.
NoneTooNarrow == \A size \in Sizes : asize(size) # CHUNKSIZE - 8

LEMMA GivenIs ==
    ASSUME NEW g, NEW S, NEW size, NEW r, NEW T, Listed(r.h, T), r.p # NULL,
           Added(Short(g), S, Short(r.h), T, r.p), Sz(r.h, r.p) = asize(size)
    PROVE  Given(g, S, size, r, T)
<1>1. Tiles(Short(r.h), T) /\ Merged(Short(r.h), T)
  BY DEF Listed, Shape
<1>2. Sz(Short(r.h), r.p) = asize(size)
  BY ShortIs
<1>3. Cut(r).h = Short(r.h) /\ Cut(r).p = r.p
  BY DEF Cut
<1>4. Granted(Short(g), S, size, Cut(r), T)
  BY <1>1, <1>2, <1>3 DEF Granted
<1> QED
  BY <1>4 DEF Given

LEMMA MallocListed ==
    ASSUME NEW g, NEW S, Listed(g, S), NEW size \in Nat, size # 0,
           asize(size) # CHUNKSIZE - 8, NEW r, r = Explicit!mm_malloc(g, size)
    PROVE  Denied(g, S, size, r) \/ \E T : Given(g, S, size, r, T)
<1>1. PICK need \in Nat : /\ need = asize(size) /\ need % 8 = 0 /\ 16 <= need
                          /\ need # CHUNKSIZE - 8
  <2>1. asize(size) \in Nat /\ asize(size) % 8 = 0 /\ size + 8 <= asize(size)
    BY AsizeIs
  <2>2. 16 <= asize(size)
    BY <2>1 DEF asize, DSIZE
  <2> QED
    BY <2>1, <2>2
<1>2. PICK bp : bp = Explicit!find_fit(g, need)
  OBVIOUS
<1>3. \/ bp = NULL /\ \A x \in FreeIn(g, S) : ~Explicit!Fits(Sz(g, x), need)
      \/ bp # NULL /\ bp \in FreeIn(g, S) /\ Wider(need, Sz(g, bp))
  <2>1. need # 0
    BY <1>1
  <2> QED
    BY <1>2, <2>1, ListFitIs
<1>4. PICK more \in Nat : /\ more = IF need > CHUNKSIZE THEN need ELSE CHUNKSIZE
                          /\ more % 8 = 0 /\ 16 <= more
  BY <1>1, HeapAssumption
<1>5. r = IF bp # NULL THEN [h |-> Explicit!place(g, bp, need), p |-> bp]
          ELSE IF ~CanGrow(g, more) THEN [h |-> g, p |-> NULL]
          ELSE [h |-> Explicit!place(Explicit!extend_heap(g, more).h,
                                     Explicit!extend_heap(g, more).bp, need),
                p |-> Explicit!extend_heap(g, more).bp]
  <2>1. Explicit!asize(size) = need
    BY <1>1 DEF Explicit!asize, asize, Explicit!DSIZE, DSIZE
  <2>2. Explicit!NULL = NULL
    BY DEF Explicit!NULL, NULL
  <2>3. Explicit!CanGrow(g, more) <=> CanGrow(g, more)
    BY DEF Explicit!CanGrow, CanGrow
  <2> QED
    BY <1>2, <1>4, <2>1, <2>2, <2>3 DEF Explicit!mm_malloc, Explicit!malloc, Explicit!PlaceAt
<1>6. CASE bp # NULL
  <2>1. PICK k : k = Explicit!place(g, bp, need)
    OBVIOUS
  <2>2. bp \in FreeIn(g, S) /\ Wider(need, Sz(g, bp))
    BY <1>3, <1>6
  <2>3. PICK T : Placed(g, S, k, T, bp, need)
    BY <1>1, <2>1, <2>2, PlaceListed
  <2>4. r.h = k /\ r.p = bp
    BY <1>5, <1>6, <2>1
  <2>5. /\ Listed(r.h, T) /\ r.p # NULL /\ Added(Short(g), S, Short(r.h), T, r.p)
        /\ Sz(r.h, r.p) = asize(size)
    BY <1>1, <1>6, <2>3, <2>4 DEF Placed
  <2>6. Given(g, S, size, r, T)
    BY <2>5, GivenIs
  <2> QED
    BY <2>6
<1>7. CASE bp = NULL /\ ~CanGrow(g, more)
  <2>1. r.h = g /\ r.p = NULL
    BY <1>5, <1>7
  <2>2. more \in {asize(size), CHUNKSIZE}
    BY <1>1, <1>4
  <2> QED
    BY <1>1, <1>3, <1>7, <2>1, <2>2 DEF Denied
<1>8. CASE bp = NULL /\ CanGrow(g, more)
  <2>1. PICK e : e = Explicit!extend_heap(g, more)
    OBVIOUS
  <2>2. PICK T : /\ Kept(g, S, e.h, T) /\ e.bp \in FreeIn(e.h, T)
                 /\ Wider(more, Sz(e.h, e.bp))
    BY <1>4, <1>8, <2>1, ExtendListed
  <2>3. PICK k : k = Explicit!place(e.h, e.bp, need)
    OBVIOUS
  <2>4. Listed(e.h, T) /\ Same(Short(g), S, Short(e.h), T)
    BY <2>2 DEF Kept
  <2>5. Sz(e.h, e.bp) \in Nat /\ e.bp # NULL
    <3>1. Shape(e.h, T) /\ e.bp \in T \ {e.h.brk - 8}
      BY <2>2, <2>4 DEF Listed, FreeIn
    <3> QED
      BY <3>1, ShapeFacts DEF NULL
  <2>6. Wider(need, Sz(e.h, e.bp))
    <3>1. CHUNKSIZE \in Nat /\ CHUNKSIZE % 8 = 0
      BY HeapAssumption
    <3>2. more = need \/ need + 16 <= more
      BY <1>1, <1>4, <3>1
    <3> QED
      BY <1>1, <1>4, <2>2, <2>5, <3>2 DEF Wider
  <2>7. PICK U : Placed(e.h, T, k, U, e.bp, need)
    BY <1>1, <2>2, <2>3, <2>4, <2>6, PlaceListed
  <2>8. r.h = k /\ r.p = e.bp
    BY <1>5, <1>8, <2>1, <2>3
  <2>9. Added(Short(g), S, Short(k), U, e.bp)
    BY <2>4, <2>7, SameAdded DEF Placed
  <2>10. /\ Listed(r.h, U) /\ r.p # NULL /\ Added(Short(g), S, Short(r.h), U, r.p)
         /\ Sz(r.h, r.p) = asize(size)
    BY <1>1, <2>5, <2>7, <2>8, <2>9 DEF Placed
  <2>11. Given(g, S, size, r, U)
    BY <2>10, GivenIs
  <2> QED
    BY <2>11
<1> QED
  BY <1>6, <1>7, <1>8

-----------------------------------------------------------------------------
(* mm_realloc. *)

\* What is written into a payload leaves the list alone.
LEMMA WriteListed ==
    ASSUME NEW g, NEW S, Listed(g, S), NEW p \in Used(Short(g), S),
           NEW m \in Heap, m.brk = g.brk, Rewritten(Short(g), Short(m), p)
    PROVE  Listed(m, S)
<1>1. PICK e, F : e = g.brk - 8 /\ F = FreeIn(g, S)
  OBVIOUS
<1>2. Shape(g, S) /\ Merged(Short(g), S) /\ Tiles(Short(g), S) /\ Chain(g, F, e)
  BY <1>1 DEF Listed, Shape
<1>3. /\ Tiles(Short(m), S) /\ Merged(Short(m), S)
      /\ \A x \in S : Sz(Short(m), x) = Sz(Short(g), x) /\ Al(Short(m), x) = Al(Short(g), x)
  BY <1>2, WriteIs
<1>4. \A x \in S : Sz(m, x) = Sz(g, x) /\ Al(m, x) = Al(g, x)
  BY <1>3, ShortIs
<1>5. FreeIn(m, S) = F
  BY <1>1, <1>4 DEF FreeIn
<1>6. \A w \in Words : (w < 24 \/ \E y \in Ends(g, S) : w = y \/ w = y + 4)
                         => m.mem[w] = g.mem[w]
  <2>1. ASSUME NEW w \in Words, w < 24 \/ \E y \in Ends(g, S) : w = y \/ w = y + 4
        PROVE  m.mem[w] = g.mem[w]
    <3>1. w \notin Body(Short(g), p)
      BY <1>2, <2>1, BodyApart, WordIs
    <3>2. Short(m).mem[w] = Short(g).mem[w]
      BY <3>1 DEF Rewritten
    <3> QED
      BY <3>2, ShortIs
  <2> QED
    BY <2>1
<1>7. Lo(m) = 24
  <2>1. 4 \in Words
    <3>1. 24 <= MAX_HEAP
      BY <1>2, ShapeFacts, HeapAssumption
    <3> QED
      BY <3>1, InWords, HeapAssumption
  <2>2. m.mem[4] = g.mem[4]
    BY <1>6, <2>1
  <2> QED
    BY <1>2, <2>2 DEF Shape, Lo
<1>8. Chain(m, F, e)
  <2>1. \A x \in F \cup {8, e} : x \in Ends(g, S) /\ x \in Words /\ x + 4 \in Words
    BY <1>1, <1>2, EndsApart DEF Ends, Nodes
  <2>2. /\ \A x \in F \cup {8} : m.mem[x] = g.mem[x]
        /\ \A x \in F \cup {e} : m.mem[x + 4] = g.mem[x + 4]
    BY <1>6, <2>1
  <2> QED
    BY <1>2, <2>2, ChainKept
<1>9. Shape(m, S)
  BY <1>2, <1>3, <1>4, <1>7 DEF Shape
<1> QED
  BY <1>1, <1>3, <1>5, <1>8, <1>9 DEF Listed

\* memcpy and copySize do not look at the heap's end.
LEMMA ShortCopy ==
    ASSUME NEW g \in Heap, NEW dst, NEW src, NEW n, NEW m, m = memcpy(g, dst, src, n)
    PROVE  /\ Short(m) = memcpy(Short(g), dst, src, n)
           /\ copySize(Short(g), src, n) = copySize(g, src, n)
           /\ m.brk = g.brk
<1>1. g = [mem |-> g.mem, brk |-> g.brk]
  BY HeapRecord
<1>2. copySize(Short(g), src, n) = copySize(g, src, n)
  BY DEF copySize, GET, Short
<1>3. Short(m) = memcpy(Short(g), dst, src, n) /\ m.brk = g.brk
  BY <1>1 DEF memcpy, Short
<1> QED
  BY <1>2, <1>3

\* The payload at ptr was moved, and the list is what it should be.
Shifted(g, S, ptr, size, r, T) ==
    Listed(r.h, T) /\ Moved(Short(g), S, ptr, size, Cut(r), T)

LEMMA ReallocListed ==
    ASSUME NEW g, NEW S, Listed(g, S), NEW ptr \in Used(Short(g), S), SIZE_T = 8,
           NEW size \in Nat, size # 0, asize(size) # CHUNKSIZE - 8,
           NEW r, r = Explicit!mm_realloc(g, ptr, size)
    PROVE  (r.p = NULL /\ r.h = g) \/ \E T : Shifted(g, S, ptr, size, r, T)
<1>1. PICK new : new = Explicit!mm_malloc(g, size)
  OBVIOUS
<1>2. Denied(g, S, size, new) \/ \E T : Given(g, S, size, new, T)
  BY <1>1, MallocListed
<1>3. r = Explicit!Move(new, ptr, size, Explicit!mm_free)
  BY <1>1 DEF Explicit!mm_realloc, Explicit!realloc
<1>4. CASE Denied(g, S, size, new)
  BY <1>3, <1>4 DEF Explicit!Move, Explicit!NULL, Denied, NULL
<1>5. CASE \E T : Given(g, S, size, new, T)
  <2>1. PICK T, m, cut : /\ Given(g, S, size, new, T) /\ m = memcpy(new.h, new.p, ptr, size)
                         /\ cut = Cut(new)
    BY <1>5
  <2>2. /\ Listed(new.h, T) /\ Granted(Short(g), S, size, cut, T)
        /\ cut.h = Short(new.h) /\ cut.p = new.p
    BY <2>1 DEF Given, Cut
  <2>3. new.h \in Heap /\ Tiles(Short(g), S)
    BY <2>2 DEF Listed, Shape
  <2>4. Short(m) = memcpy(cut.h, cut.p, ptr, size) /\ m.brk = new.h.brk
    BY <2>1, <2>2, <2>3, ShortCopy
  <2>5. Copied(Short(g), S, ptr, size, cut, T, Short(m))
    BY <2>2, <2>3, <2>4, CopiedIs
  <2>6. copySize(new.h, ptr, size) = size
    <3>1. ptr \in Used(Short(new.h), T) /\ Tiles(Short(new.h), T)
      BY <2>2 DEF Granted, Added
    <3>2. copySize(Short(new.h), ptr, size) = size
      BY <3>1, CopySizeIs
    <3> QED
      BY <2>3, <3>2, ShortCopy
  <2>7. Listed(m, T)
    <3>1. m \in Heap
      BY <2>1, <2>3 DEF memcpy, Heap
    <3>2. cut.p \in Used(cut.h, T) /\ Rewritten(cut.h, Short(m), cut.p)
      BY <2>2, <2>5 DEF Granted, Added, Copied
    <3> QED
      BY <2>2, <2>4, <3>1, <3>2, WriteListed
  <2>8. r = [h |-> Explicit!mm_free(m, ptr), p |-> new.p]
    <3>1. Explicit!copySize(new.h, ptr, size) = copySize(new.h, ptr, size)
      BY ExplicitMacros
      DEF Explicit!copySize, copySize, Explicit!GET, GET, Explicit!DSIZE, DSIZE
    <3>2. Explicit!memcpy(new.h, new.p, ptr, size) = m
      BY <2>1 DEF Explicit!memcpy, memcpy, Explicit!Words, Words, Explicit!WSIZE, WSIZE
    <3>3. new.p # NULL
      BY <2>2 DEF Granted
    <3> QED
      BY <1>3, <2>6, <3>1, <3>2, <3>3 DEF Explicit!Move, Explicit!NULL, NULL
  <2>9. PICK U : Listed(r.h, U) /\ Removed(Short(m), T, Short(r.h), U, ptr)
    <3>1. ptr \in Used(Short(m), T)
      BY <2>5 DEF Copied
    <3> QED
      BY <2>7, <2>8, <3>1, FreeListed
  <2>10. /\ Cut(r).p = cut.p /\ Cut(r).h = Short(r.h)
         /\ Tiles(Cut(r).h, U) /\ Merged(Cut(r).h, U) /\ Removed(Short(m), T, Cut(r).h, U, ptr)
    BY <2>2, <2>8, <2>9 DEF Cut, Listed, Shape
  <2>11. Moved(Short(g), S, ptr, size, Cut(r), U)
    BY <2>5, <2>10, MovedIs
  <2> QED
    BY <2>9, <2>11 DEF Shifted
<1> QED
  BY <1>2, <1>4, <1>5

-----------------------------------------------------------------------------
(* The driver on mm-explicit.c. *)

\* Blocks tile the heap, the list leads through the free ones, those in use are those of the
\* ids that have a payload; the driver found no fault.
ListInv ==
    /\ Typed /\ verdict \in {"valid", "mm_malloc failed", "mm_realloc failed"}
    /\ \E S : Listed(h, S) /\ Held(Short(h), S)

LEMMA ListedHeld ==
    ASSUME NEW g, NEW S, Listed(g, S)
    PROVE  g \in Heap /\ Tiles(Short(g), S) /\ Merged(Short(g), S)
BY DEF Listed, Shape

\* What the driver accepts and fills is part of a heap that is as it should be.
LEMMA TakenListed ==
    ASSUME NEW g, NEW T, Listed(g, T), NEW p \in Used(Short(g), T), NEW size \in Nat,
           NEW i, NEW m, m = memset(g, p, i, size), NEW s, s = memset(Short(g), p, i, size),
           NEW others, NEW b, NEW z, Taken(Short(g), s, T, p, size, i, others, b, z)
    PROVE  /\ add_range(g, p, size, others) = "valid" /\ s = Short(m) /\ Listed(m, T)
           /\ Owns(Short(m), T, others \cup {i}, b, z)
<1>1. g \in Heap /\ g = [mem |-> g.mem, brk |-> g.brk] /\ Tiles(Short(g), T)
  BY ListedHeld, HeapRecord
<1>2. s = Short(m) /\ m.brk = g.brk /\ m = [mem |-> m.mem, brk |-> m.brk]
  BY <1>1 DEF memset, Short
<1>3. Rewritten(Short(g), Short(m), p)
  BY <1>2 DEF Taken
<1>4. m \in Heap
  <2>1. Short(m) \in Heap
    BY <1>3 DEF Rewritten
  <2>2. m.mem \in [Words -> Int] /\ g.brk \in Nat
    BY <1>1, <2>1, ShortIs DEF Heap
  <2> QED
    BY <1>2, <2>2 DEF Heap
<1>5. Listed(m, T)
  BY <1>2, <1>3, <1>4, WriteListed
<1>6. add_range(g, p, size, others) = "valid"
  <2>1. PICK hi : hi = p + size - 1
    OBVIOUS
  <2>2. p \in Nat /\ hi \in Int /\ g.brk \in Nat
    BY <1>1, <2>1, TilesFacts DEF Used, Heap
  <2>3. add_range(Short(g), p, size, others) = "valid" /\ Short(g).brk = g.brk - 8
    BY ShortIs DEF Taken
  <2>4. ~(p > g.brk - 8 - 1 \/ hi > g.brk - 8 - 1)
    BY <2>1, <2>3 DEF add_range
  <2>5. ~(p > g.brk - 1 \/ hi > g.brk - 1)
    BY <2>2, <2>4
  <2> QED
    BY <2>1, <2>3, <2>5 DEF add_range
<1> QED
  BY <1>2, <1>5, <1>6 DEF Taken

LEMMA InitListInv ==
    ASSUME CHUNKSIZE + 32 <= MAX_HEAP, Init, mm = "explicit"
    PROVE  ListInv
<1>1. PICK g : g = [mem |-> [w \in Words |-> 0], brk |-> 0]
  OBVIOUS
<1>2. g \in Heap /\ g.brk = 0
  BY <1>1 DEF Heap
<1>3. h = Explicit!mm_init(g)
  BY <1>1 DEF Init, mm_init
<1>4. PICK S : Listed(h, S) /\ Used(Short(h), S) = {}
  BY <1>2, <1>3, InitListed
<1>5. Live = {}
  BY DEF Init, NoBlocks, Live
<1>6. Held(Short(h), S)
  BY <1>4, <1>5, ListedHeld DEF Owns, Held
<1>7. Typed /\ verdict = "valid"
  BY DEF Init, NoBlocks, NULL, Typed
<1> QED
  BY <1>4, <1>6, <1>7 DEF ListInv

\* What the steps below show of the next state.
LEMMA NextListInv ==
    ASSUME Typed', verdict' \in {"valid", "mm_malloc failed", "mm_realloc failed"},
           NEW S, Listed(h', S), Owns(Short(h'), S, Live', blocks', block_sizes')
    PROVE  ListInv'
<1>1. Tiles(Short(h'), S) /\ Merged(Short(h'), S)
  BY ListedHeld
<1> QED
  BY <1>1 DEF ListInv, Held

LEMMA NextTraceListInv ==
    ASSUME CHUNKSIZE + 32 <= MAX_HEAP, ListInv, NextTrace, mm = "explicit"
    PROVE  ListInv'
<1>1. PICK g : g = mem_reset_brk(h)
  OBVIOUS
<1>2. g \in Heap /\ g.brk = 0
  <2>1. h \in Heap
    BY ListedHeld DEF ListInv
  <2> QED
    BY <1>1, <2>1 DEF Heap, mem_reset_brk
<1>3. h' = Explicit!mm_init(g)
  BY <1>1 DEF NextTrace, mm_init
<1>4. PICK S : Listed(h', S) /\ Used(Short(h'), S) = {}
  BY <1>2, <1>3, InitListed
<1>5. Live' = {}
  BY DEF NextTrace, NoBlocks, Live
<1>6. Owns(Short(h'), S, Live', blocks', block_sizes')
  BY <1>4, <1>5 DEF Owns
<1>7. Typed' /\ verdict' = "valid"
  BY DEF NextTrace, NoBlocks, NULL, ListInv, Typed
<1> QED
  BY <1>4, <1>6, <1>7, NextListInv

LEMMA FreeListInv ==
    ASSUME ListInv, NEW i \in Index, Free(i), mm = "explicit"
    PROVE  ListInv'
<1>1. PICK S : Listed(h, S) /\ Held(Short(h), S)
  BY DEF ListInv
<1>2. i \in Live /\ blocks[i] \in Used(Short(h), S)
  BY <1>1 DEF Free, Live, Owns, Held
<1>3. h' = Explicit!mm_free(h, blocks[i])
  BY DEF Free, mm_free
<1>4. PICK T : Listed(h', T) /\ Removed(Short(h), S, Short(h'), T, blocks[i])
  BY <1>1, <1>2, <1>3, FreeListed
<1>5. blocks' = [blocks EXCEPT ![i] = NULL] /\ block_sizes' = block_sizes /\ verdict' = verdict
  BY DEF Free
<1>6. blocks' \in [Index -> Nat] /\ Owns(Short(h'), T, Live \ {i}, blocks', block_sizes')
  BY <1>1, <1>2, <1>4, <1>5, FreedIs DEF ListInv
<1>7. Live' = Live \ {i}
  BY <1>5 DEF Live, ListInv, Typed
<1>8. Typed'
  BY <1>5, <1>6 DEF ListInv, Typed
<1> QED
  BY <1>4, <1>5, <1>6, <1>7, <1>8, NextListInv DEF ListInv

LEMMA AllocListInv ==
    ASSUME ListInv, NEW i \in Index, NEW size \in Sizes, Alloc(i, size), mm = "explicit",
           NoneTooNarrow
    PROVE  ListInv'
<1>1. PICK S : Listed(h, S) /\ Held(Short(h), S)
  BY DEF ListInv
<1>2. PICK r : r = Explicit!mm_malloc(h, size)
  OBVIOUS
<1>3. Allocated(i, size, r) /\ i \in Index \ Live
  BY <1>2 DEF Alloc, mm_malloc, Live
<1>4. size \in Nat /\ size # 0 /\ asize(size) # CHUNKSIZE - 8
  BY SizesAre DEF NoneTooNarrow
<1>5. Denied(h, S, size, r) \/ \E T : Given(h, S, size, r, T)
  BY <1>1, <1>2, <1>4, MallocListed
<1>6. CASE Denied(h, S, size, r)
  <2>1. /\ verdict' = "mm_malloc failed" /\ h' = h /\ blocks' = blocks
        /\ block_sizes' = block_sizes
    BY <1>3, <1>6 DEF Allocated, Accept, Denied
  <2> QED
    BY <1>1, <2>1, NextListInv DEF ListInv, Live, Typed, Held
<1>7. CASE \E T : Given(h, S, size, r, T)
  <2>1. PICK T, c : Given(h, S, size, r, T) /\ c = Cut(r)
    BY <1>7
  <2>2. PICK m, s, b, z : m = memset(r.h, r.p, i, size) /\ Noted(i, size, c, s, b, z)
    BY DEF Noted
  <2>3. Granted(Short(h), S, size, c, T) /\ c.h = Short(r.h) /\ c.p = r.p /\ Listed(r.h, T)
    BY <2>1 DEF Given, Cut
  <2>4. /\ Taken(c.h, s, T, c.p, size, i, Live, b, z)
        /\ b \in [Index -> Nat] /\ z \in [Index -> Nat]
        /\ Live \cup {i} = {j \in Index : b[j] # NULL}
    <3>1. Typed /\ i \in Index \ Live /\ size \in Sizes
      BY <1>3 DEF ListInv
    <3> QED
      BY <1>1, <2>2, <2>3, <3>1, AllocatedIs
  <2>5. /\ add_range(r.h, r.p, size, Live) = "valid" /\ Listed(m, T)
        /\ Owns(Short(m), T, Live \cup {i}, b, z)
    <3>1. s = memset(Short(r.h), r.p, i, size) /\ r.p \in Used(Short(r.h), T)
      BY <2>2, <2>3 DEF Noted, Granted, Added
    <3>2. Taken(Short(r.h), s, T, r.p, size, i, Live, b, z)
      BY <2>3, <2>4
    <3> QED
      BY <1>4, <2>2, <2>3, <3>1, <3>2, TakenListed
  <2>6. verdict' = "valid" /\ h' = m /\ blocks' = b /\ block_sizes' = z
    BY <1>3, <2>2, <2>3, <2>5 DEF Allocated, Accept, Granted, Noted
  <2>7. Typed' /\ Live' = Live \cup {i}
    BY <2>4, <2>6 DEF Typed, Live
  <2> QED
    BY <2>5, <2>6, <2>7, NextListInv
<1> QED
  BY <1>5, <1>6, <1>7

LEMMA ReallocListInv ==
    ASSUME ListInv, NEW i \in Index, NEW size \in Sizes, Realloc(i, size), mm = "explicit",
           SIZE_T = 8, NoneTooNarrow
    PROVE  ListInv'
<1>1. PICK S : Listed(h, S) /\ Held(Short(h), S)
  BY DEF ListInv
<1>2. PICK r, ptr, others : /\ r = Explicit!mm_realloc(h, ptr, size) /\ ptr = blocks[i]
                            /\ others = Live \ {i}
  OBVIOUS
<1>3. Reallocated(i, size, r) /\ i \in Live
  BY <1>2 DEF Realloc, mm_realloc, Live
<1>4. size \in Nat /\ size # 0 /\ asize(size) # CHUNKSIZE - 8
  BY SizesAre DEF NoneTooNarrow
<1>5. ptr \in Used(Short(h), S)
  BY <1>1, <1>2, <1>3 DEF Owns, Held
<1>6. (r.p = NULL /\ r.h = h) \/ \E T : Shifted(h, S, ptr, size, r, T)
  BY <1>1, <1>2, <1>4, <1>5, ReallocListed
<1>7. CASE r.p = NULL /\ r.h = h
  <2>1. /\ verdict' = "mm_realloc failed" /\ h' = h /\ blocks' = blocks
        /\ block_sizes' = block_sizes
    BY <1>3, <1>7 DEF Reallocated, Accept
  <2> QED
    BY <1>1, <2>1, NextListInv DEF ListInv, Live, Typed, Held
<1>8. CASE \E T : Shifted(h, S, ptr, size, r, T)
  <2>1. PICK T, c : Shifted(h, S, ptr, size, r, T) /\ c = Cut(r)
    BY <1>8
  <2>2. PICK m, s, b, z : m = memset(r.h, r.p, i, size) /\ Noted(i, size, c, s, b, z)
    BY DEF Noted
  <2>3. Moved(Short(h), S, ptr, size, c, T) /\ c.h = Short(r.h) /\ c.p = r.p /\ Listed(r.h, T)
    BY <2>1 DEF Shifted, Cut
  <2>4. /\ Taken(c.h, s, T, c.p, size, i, others, b, z) /\ Preserved(c.h, c.p, i, size)
    <3>1. Typed /\ i \in Live /\ size \in Sizes
      BY <1>3 DEF ListInv
    <3> QED
      BY <1>1, <1>2, <2>2, <2>3, <3>1, ReallocatedIs
  <2>5. Preserved(r.h, r.p, i, size)
    BY <2>3, <2>4, ShortIs DEF Preserved
  <2>6. /\ add_range(r.h, r.p, size, others) = "valid" /\ Listed(m, T)
        /\ Owns(Short(m), T, others \cup {i}, b, z)
    <3>1. s = memset(Short(r.h), r.p, i, size) /\ r.p \in Used(Short(r.h), T)
      BY <2>2, <2>3 DEF Noted, Moved
    <3>2. Taken(Short(r.h), s, T, r.p, size, i, others, b, z)
      BY <2>3, <2>4
    <3> QED
      BY <1>4, <2>2, <2>3, <3>1, <3>2, TakenListed
  <2>7. verdict' = "valid" /\ h' = m /\ blocks' = b /\ block_sizes' = z
    <3>1. r.p # NULL /\ remove_range(i) = others
      BY <1>2, <2>3 DEF Moved, remove_range
    <3> QED
      BY <1>3, <2>2, <2>3, <2>5, <2>6, <3>1 DEF Reallocated, Accept, Noted
  <2>8. Typed' /\ Live' = Live /\ Live = others \cup {i}
    <3>1. c.p \in Nat /\ c.p # NULL /\ Typed /\ i \in Index
      BY <1>3, <2>3, TilesFacts DEF Moved, Used, ListInv, Live
    <3>2. b \in [Index -> Nat] /\ z \in [Index -> Nat] /\ Live \cup {i} = {j \in Index : b[j] # NULL}
      BY <2>2, <3>1, NotedIs
    <3> QED
      BY <1>2, <1>3, <2>7, <3>2 DEF Typed, Live
  <2> QED
    BY <2>6, <2>7, <2>8, NextListInv
<1> QED
  BY <1>6, <1>7, <1>8

\* Of mm-explicit.c, with a size_t of 8 bytes, a heap that mm_init finds room in and no
\* request that leaves too little of a new block.
THEOREM ListCorrect ==
    ASSUME CHUNKSIZE + 32 <= MAX_HEAP, SIZE_T = 8, NoneTooNarrow
    PROVE  Spec => [](mm = "explicit" => ListInv)
<1>1. Init => (mm = "explicit" => ListInv)
  BY InitListInv
<1>2. (mm = "explicit" => ListInv) /\ [Next]_vars => (mm = "explicit" => ListInv)'
  <2>1. SUFFICES ASSUME mm = "explicit" => ListInv, [Next]_vars, mm' = "explicit" PROVE ListInv'
    OBVIOUS
  <2>2. mm = "explicit"
    BY <2>1 DEF Next, NextTrace, Free, Alloc, Realloc, Request, vars
  <2>3. ListInv
    BY <2>1, <2>2
  <2>4. CASE NextTrace
    BY <2>2, <2>3, <2>4, NextTraceListInv
  <2>5. ASSUME NEW i \in Index, Free(i) PROVE ListInv'
    BY <2>2, <2>3, <2>5, FreeListInv
  <2>6. ASSUME NEW i \in Index, NEW size \in Sizes, Alloc(i, size) PROVE ListInv'
    BY <2>2, <2>3, <2>6, AllocListInv
  <2>7. ASSUME NEW i \in Index, NEW size \in Sizes, Realloc(i, size) PROVE ListInv'
    BY <2>2, <2>3, <2>7, ReallocListInv
  <2>8. CASE UNCHANGED vars
    BY <2>3, <2>8 DEF vars, ListInv, Live, Typed, Held
  <2> QED
    BY <2>1, <2>4, <2>5, <2>6, <2>7, <2>8 DEF Next
<1> QED
  BY <1>1, <1>2, PTL DEF Spec

-----------------------------------------------------------------------------
(* The properties that the driver's runs check. *)

LEMMA ListInvIs == mm = "explicit" /\ ListInv => HeapInv
<1> SUFFICES ASSUME mm = "explicit", ListInv PROVE HeapInv
  OBVIOUS
<1>1. PICK S : Listed(h, S) /\ Held(Short(h), S)
  BY DEF ListInv
<1>2. View = Short(h)
  BY DEF View, Epilogue, Short
<1>3. h \in Heap
  BY <1>1, ListedHeld
<1> QED
  BY <1>1, <1>2, <1>3 DEF HeapInv, ListInv

\* In the heap of mm-explicit.c headers lead from the prologue to the epilogue, footers agree
\* with them, and the blocks in use are those that a payload was given in.
THEOREM ListedBlocksTileTheHeap ==
    ASSUME CHUNKSIZE + 32 <= MAX_HEAP, SIZE_T = 8, NoneTooNarrow
    PROVE  Spec => [](mm = "explicit" => HeapTiled)
<1>1. (mm = "explicit" => ListInv) => (mm = "explicit" => HeapTiled)
  BY ListInvIs, TiledIs
<1> QED
  BY <1>1, ListCorrect, PTL

\* coalesce leaves no free block of mm-explicit.c beside another.
THEOREM ListedFreeBlocksAreMerged ==
    ASSUME CHUNKSIZE + 32 <= MAX_HEAP, SIZE_T = 8, NoneTooNarrow
    PROVE  Spec => [](mm = "explicit" => NoFreeNeighbours)
<1>1. (mm = "explicit" => ListInv) => (mm = "explicit" => NoFreeNeighbours)
  BY ListInvIs, TiledIs
<1> QED
  BY <1>1, ListCorrect, PTL

\* The allocator is not changed while the driver runs.
LEMMA ExplicitStays == Spec /\ mm = "explicit" => [](mm = "explicit")
<1>1. mm = "explicit" /\ [Next]_vars => (mm = "explicit")'
  BY DEF Next, NextTrace, Free, Alloc, Realloc, Request, vars
<1> QED
  BY <1>1, PTL DEF Spec

\* To those that call it, mm-explicit.c gives and takes back stretches of the heap that
\* nobody else has, and leaves alone what is in them.
THEOREM ListedPayloadsAreApart ==
    ASSUME CHUNKSIZE + 32 <= MAX_HEAP, SIZE_T = 8, NoneTooNarrow
    PROVE  Spec /\ mm = "explicit" => ImplementsAllocator
<1>1. mm = "explicit" /\ ListInv => Typed /\ SeenFacts
  BY ListInvIs, SeenIs DEF HeapInv
<1> QED
  BY <1>1, ListCorrect, ExplicitStays, SeenImplements, PTL

\* The free blocks of the model's property are those of the list.
LEMMA FreeBlocksAre ==
    ASSUME NEW S, Listed(h, S)
    PROVE  Blocks = S /\ FreeBlocks = FreeIn(h, S)
<1>1. Tiles(Short(h), S) /\ Short(h).mem = h.mem /\ Shape(h, S)
  BY ListedHeld, ShortIs DEF Listed
<1>2. Blocks = S
  BY <1>1, BlocksAre
<1>3. Al(h, h.brk - 8) = 1
  BY <1>1, ShapeFacts
<1> QED
  BY <1>2, <1>3 DEF FreeBlocks, FreeIn, Al

\* mm_malloc of mm-explicit.c gives up only when no free block fits and the heap cannot grow.
THEOREM ListGivesUpOnlyWhenFull ==
    ASSUME CHUNKSIZE + 32 <= MAX_HEAP, SIZE_T = 8, NoneTooNarrow
    PROVE  Spec /\ mm = "explicit" => FailsOnlyWhenFull
<1> DEFINE Full(size) == /\ \E n \in Growths(size) : ~CanGrow(h, n)
                         /\ HasBlocks => \A bp \in FreeBlocks : ~Suffices(bp, asize(size))
<1>1. ASSUME ListInv, mm = "explicit", Next, verdict # "mm_malloc failed",
             verdict' = "mm_malloc failed"
      PROVE  \E i \in Index, size \in Sizes : Alloc(i, size) /\ Full(size)
  <2>1. PICK S : Listed(h, S)
    BY <1>1 DEF ListInv
  <2>2. PICK i \in Index, size \in Sizes : Alloc(i, size)
    <3>1. ~NextTrace
      BY <1>1 DEF NextTrace
    <3>2. \A i \in Index : ~Free(i)
      BY <1>1 DEF Free
    <3>3. ASSUME NEW i \in Index, NEW size \in Sizes PROVE ~Realloc(i, size)
      BY <1>1 DEF Realloc, Reallocated, Accept, add_range
    <3> QED
      BY <1>1, <3>1, <3>2, <3>3 DEF Next
  <2>3. PICK r : r = Explicit!mm_malloc(h, size)
    OBVIOUS
  <2>4. Allocated(i, size, r)
    BY <1>1, <2>2, <2>3 DEF Alloc, mm_malloc
  <2>5. r.p = NULL
    BY <1>1, <2>4 DEF Allocated, Accept, add_range
  <2>6. Denied(h, S, size, r)
    <3>1. size \in Nat /\ size # 0 /\ asize(size) # CHUNKSIZE - 8
      BY SizesAre DEF NoneTooNarrow
    <3> QED
      BY <2>1, <2>3, <2>5, <3>1, MallocListed DEF Given, Granted, Cut
  <2>7. \E n \in Growths(size) : ~CanGrow(h, n)
    <3>1. Growths(size) = {asize(size), CHUNKSIZE}
      BY <1>1 DEF Growths
    <3> QED
      BY <2>6, <3>1 DEF Denied
  <2>8. ASSUME NEW bp \in FreeBlocks PROVE ~Suffices(bp, asize(size))
    <3>1. bp \in FreeIn(h, S)
      BY <2>1, FreeBlocksAre
    <3>2. ~Explicit!Fits(Sz(h, bp), asize(size))
      BY <2>6, <3>1 DEF Denied
    <3>3. Suffices(bp, asize(size)) <=> Explicit!Fits(Size(bp), asize(size))
      BY <1>1 DEF Suffices
    <3> QED
      BY <3>2, <3>3 DEF Size, Sz
  <2> QED
    BY <2>2, <2>7, <2>8
<1>2. (mm = "explicit" => ListInv) /\ mm = "explicit" /\ [Next]_vars
        => [verdict # "mm_malloc failed" /\ verdict' = "mm_malloc failed" =>
              \E i \in Index, size \in Sizes :
                 /\ Alloc(i, size)
                 /\ \E n \in Growths(size) : ~CanGrow(h, n)
                 /\ HasBlocks => \A bp \in FreeBlocks : ~Suffices(bp, asize(size))]_vars
  BY <1>1
<1> QED
  BY <1>2, ListCorrect, ExplicitStays, PTL DEF Spec, FailsOnlyWhenFull

\* s leads from x to e, each of its blocks knows the one before it, and s meets all of A.
Leads(g, x, e, A, s) ==
    /\ s \in Seq(Int) /\ Len(s) # 0 /\ s[1] = x /\ s[Len(s)] = e
    /\ \A n \in 2 .. Len(s) : Pv(g, s[n]) = s[n - 1]
    /\ \A y \in A : \E n \in 1 .. Len(s) : s[n] = y

LEMMA LeadsOn ==
    ASSUME NEW g, NEW y, NEW e, NEW A, NEW s, Leads(g, y, e, A, s), NEW x \in Int, Pv(g, y) = x,
           NEW t, t = <<x>> \o s
    PROVE  Leads(g, x, e, A \cup {x}, t)
<1>1. /\ t \in Seq(Int) /\ Len(t) = Len(s) + 1 /\ t[1] = x /\ Len(s) \in Nat /\ Len(s) # 0
      /\ \A n \in 1 .. Len(s) : t[n + 1] = s[n]
  BY DEF Leads
<1>2. t[Len(t)] = e
  BY <1>1 DEF Leads
<1>3. ASSUME NEW n \in 2 .. Len(t) PROVE Pv(g, t[n]) = t[n - 1]
  <2>1. t[n] = s[n - 1]
    BY <1>1
  <2>2. CASE n = 2
    BY <1>1, <2>1, <2>2 DEF Leads
  <2>3. CASE n # 2
    <3>1. n - 1 \in 2 .. Len(s) /\ n - 1 - 1 \in 1 .. Len(s)
      BY <1>1, <2>3
    <3>2. t[n - 1] = s[n - 1 - 1]
      BY <1>1, <3>1
    <3> QED
      BY <2>1, <3>1, <3>2 DEF Leads
  <2> QED
    BY <2>2, <2>3
<1>4. ASSUME NEW z \in A \cup {x} PROVE \E n \in 1 .. Len(t) : t[n] = z
  <2>1. CASE z = x
    BY <1>1, <2>1
  <2>2. CASE z \in A
    <3>1. PICK n \in 1 .. Len(s) : s[n] = z
      BY <2>2 DEF Leads
    <3>2. n + 1 \in 1 .. Len(t) /\ t[n + 1] = z
      BY <1>1, <3>1
    <3> QED
      BY <3>2
  <2> QED
    BY <2>1, <2>2
<1> QED
  BY <1>1, <1>2, <1>3, <1>4 DEF Leads

\* Walk, as the list of this allocator is walked.
LEMMA WalkIs ==
    ASSUME NEW F, \A x \in F : h.mem[x] \in Int
    PROVE  \E f :
               /\ \A x \in Int, n \in Nat :
                     f[<<x, n>>] = IF n = 0 \/ x \notin F THEN <<x>> ELSE <<x>> \o f[<<Nx(h, x), n - 1>>]
               /\ Walk(0, F) = <<8>> \o f[<<Nx(h, 8), Cardinality(F)>>]
<1> DEFINE D == Int \X Nat
           V == Seq(Int)
           stop == {q \in D : q[2] = 0 \/ q[1] \notin F}
           val == [q \in D |-> <<q[1]>>]
           comb == [q \in D |-> [v \in V |-> <<q[1]>> \o v]]
           nx == [q \in D |-> IF q \in stop THEN q ELSE <<Nx(h, q[1]), q[2] - 1>>]
           rank == [q \in D |-> q[2]]
           G(from) == [at \in D |->
                          IF at[2] = 0 \/ at[1] \notin F THEN <<at[1]>>
                          ELSE <<at[1]>> \o from[<<First + GET(h, at[1]), at[2] - 1>>]]
           W == CHOOSE from : from = G(from)
<1>1. /\ val \in [D -> V] /\ comb \in [D -> [V -> V]] /\ rank \in [D -> Nat]
  <2>1. \A q \in D : <<q[1]>> \in V
    OBVIOUS
  <2>2. \A q \in D, v \in V : <<q[1]>> \o v \in V
    OBVIOUS
  <2> HIDE DEF V
  <2> QED
    BY <2>1, <2>2
<1>2. nx \in [D -> D] /\ \A q \in D \ stop : rank[nx[q]] < rank[q]
  <2>1. ASSUME NEW q \in D \ stop
        PROVE  <<Nx(h, q[1]), q[2] - 1>> \in D /\ q[2] - 1 < q[2]
    <3>1. q[1] \in F /\ q[2] \in Nat /\ q[2] # 0
      OBVIOUS
    <3>2. Nx(h, q[1]) \in Int /\ q[2] - 1 \in Nat
      BY <3>1 DEF Nx
    <3> QED
      BY <3>1, <3>2
  <2> QED
    BY <2>1
<1>3. PICK f \in [D -> V] :
          \A q \in D : f[q] = IF q \in stop THEN val[q] ELSE comb[q][f[nx[q]]]
  <2> HIDE DEF D, V, stop, val, comb, nx, rank
  <2>1. DescentOver(D, V, stop, val, comb, nx, rank)
    BY <1>1, <1>2 DEF DescentOver
  <2> QED
    BY <2>1, DescentDefined
<1>4. \A q \in D : f[q] = IF q[2] = 0 \/ q[1] \notin F THEN <<q[1]>>
                        ELSE <<q[1]>> \o f[<<Nx(h, q[1]), q[2] - 1>>]
  <2>1. SUFFICES ASSUME NEW q \in D
                 PROVE  f[q] = IF q[2] = 0 \/ q[1] \notin F THEN <<q[1]>>
                               ELSE <<q[1]>> \o f[<<Nx(h, q[1]), q[2] - 1>>]
    OBVIOUS
  <2>2. CASE q \in stop
    BY <1>3, <2>2
  <2>3. CASE q \notin stop
    <3>1. nx[q] = <<Nx(h, q[1]), q[2] - 1>> /\ nx[q] \in D
      BY <1>2, <2>3
    <3>2. f[nx[q]] \in V
      BY <3>1
    <3>3. comb[q][f[nx[q]]] = <<q[1]>> \o f[nx[q]]
      BY <3>2
    <3>4. ~(q[2] = 0 \/ q[1] \notin F)
      BY <2>3
    <3>5. f[q] = <<q[1]>> \o f[nx[q]]
      BY <1>3, <2>3, <3>3
    <3> HIDE DEF V, D, stop, val, comb, nx, rank
    <3> QED
      BY <3>1, <3>4, <3>5
  <2> QED
    BY <2>2, <2>3
<1> HIDE DEF V, stop, val, comb, nx, rank
<1>5. \A x : First + GET(h, x) = Nx(h, x)
  BY DEF First, WSIZE, GET, Nx
<1>6. f = G(f)
  <2> HIDE DEF D
  <2>1. f = [q \in D |-> f[q]]
    OBVIOUS
  <2> QED
    BY <1>4, <1>5, <2>1
<1>7. W = G(W)
  <2> HIDE DEF G
  <2> QED
    BY <1>6
<1>8. Walk(0, F) = <<8>> \o W[<<Nx(h, 8), Cardinality(F)>>]
  <2>1. Walk(0, F) = <<First>> \o W[<<First + GET(h, First + 0), Cardinality(F)>>]
    BY DEF Walk
  <2>2. First = 8 /\ First + 0 = First
    BY DEF First, WSIZE
  <2> HIDE DEF W
  <2> QED
    BY <1>5, <2>1, <2>2
<1>9. ASSUME NEW x \in Int, NEW n \in Nat
      PROVE  W[<<x, n>>] = IF n = 0 \/ x \notin F THEN <<x>>
                           ELSE <<x>> \o W[<<Nx(h, x), n - 1>>]
  <2>1. W = [at \in D |-> IF at[2] = 0 \/ at[1] \notin F THEN <<at[1]>>
                          ELSE <<at[1]>> \o W[<<Nx(h, at[1]), at[2] - 1>>]]
    <3> HIDE DEF W, D
    <3> QED
      BY <1>5, <1>7
  <2> HIDE DEF W
  <2>2. <<x, n>> \in D
    OBVIOUS
  <2> QED
    BY <2>1, <2>2
<1> QED
  <2> HIDE DEF W
  <2> QED
    BY <1>8, <1>9

\* The list is walked from the prologue to the epilogue, through all free blocks.
LEMMA ListWalked ==
    ASSUME NEW S, Listed(h, S), NEW F, F = FreeIn(h, S), NEW e, e = h.brk - 8
    PROVE  Leads(h, 8, e, F \cup {8}, Walk(0, F))
<1>1. Shape(h, S) /\ Chain(h, F, e) /\ h \in Heap
  BY DEF Listed, Shape
<1>2. PICK rk : Numbered(h, F, e, rk)
  BY <1>1 DEF Chain
<1>3. /\ e # 8 /\ e \notin F /\ 8 \notin F /\ Nx(h, 8) \in F \cup {e} /\ Pv(h, Nx(h, 8)) = 8
      /\ \A x \in F : Pv(h, Nx(h, x)) = x
  <2>1. Nx(h, 8) \in F \cup {e} /\ Pv(h, Nx(h, 8)) = 8 /\ \A x \in F : Pv(h, Nx(h, x)) = x
    BY <1>1, ChainFacts
  <2> QED
    BY <1>1, <2>1 DEF Chain
<1>4. e \in Int /\ \A x \in F : x \in 0 .. MAX_HEAP /\ x \in Int /\ h.mem[x] \in Int
  <2>1. Nodes(Ends(h, S)) /\ F \subseteq Ends(h, S) /\ e \in Ends(h, S)
    BY <1>1, EndsApart DEF Ends
  <2>2. \A x \in Ends(h, S) : x \in Nat /\ x \in Words /\ x < MAX_HEAP
    BY <2>1, WordIs DEF Nodes
  <2>3. MAX_HEAP \in Nat
    BY HeapAssumption
  <2>4. \A w \in Words : h.mem[w] \in Int
    BY <1>1 DEF Heap
  <2>5. ASSUME NEW x \in F PROVE x \in 0 .. MAX_HEAP /\ x \in Int /\ h.mem[x] \in Int
    <3>1. x \in Nat /\ x \in Words /\ x < MAX_HEAP
      BY <2>1, <2>2
    <3> QED
      BY <2>3, <2>4, <3>1
  <2>6. e \in Int
    BY <2>1, <2>2
  <2> QED
    BY <2>5, <2>6
<1>5. IsFiniteSet(F)
  <2>1. IsFiniteSet(0 .. MAX_HEAP)
    BY FS_Interval, HeapAssumption
  <2>2. F \in SUBSET (0 .. MAX_HEAP)
    BY <1>4
  <2> QED
    BY <2>1, <2>2, FS_Subset
<1>6. /\ \A x \in F \cup {e} : rk[x] \in Nat /\ rk[x] <= rk[e]
      /\ \A x \in F : Nx(h, x) \in F \cup {e} /\ rk[x] < rk[Nx(h, x)]
      /\ \A x \in F : \A y \in F : rk[y] <= rk[x] \/ rk[Nx(h, x)] <= rk[y]
      /\ \A x, y \in F \cup {e} : rk[x] = rk[y] => x = y
      /\ \A y \in F : rk[Nx(h, 8)] <= rk[y]
  <2>1. \A x \in F : Nx(h, x) # 8
    BY <1>2, <1>3 DEF Numbered
  <2>2. \A y \in F : rk[8] <= rk[y] /\ rk[8] # rk[y] /\ rk[8] \in Nat /\ rk[y] \in Nat
    BY <1>2, <1>3 DEF Numbered
  <2>3. \A y \in F : rk[y] <= rk[8] \/ rk[Nx(h, 8)] <= rk[y]
    BY <1>2, <1>3 DEF Numbered
  <2>4. \A y \in F : rk[Nx(h, 8)] <= rk[y]
    BY <2>2, <2>3
  <2> QED
    BY <1>2, <1>3, <2>1, <2>4 DEF Numbered
<1> DEFINE After(x) == {y \in F : rk[x] <= rk[y]}
<1>7. ASSUME NEW x \in F
      PROVE  /\ After(x) = After(Nx(h, x)) \cup {x}
             /\ Cardinality(After(Nx(h, x))) = Cardinality(After(x)) - 1
             /\ Cardinality(After(x)) \in Nat /\ Cardinality(After(Nx(h, x))) \in Nat
  <2>1. PICK n : n = Nx(h, x) /\ n \in F \cup {e} /\ rk[x] < rk[n] /\ rk[n] \in Nat /\ rk[x] \in Nat
    BY <1>6
  <2>2. ASSUME NEW y \in F PROVE rk[n] <= rk[y] <=> rk[x] <= rk[y] /\ y # x
    <3>1. rk[y] \in Nat /\ (rk[y] <= rk[x] \/ rk[n] <= rk[y]) /\ (rk[x] = rk[y] => x = y)
      BY <1>6, <2>1
    <3> QED
      BY <2>1, <3>1
  <2>3. After(n) = After(x) \ {x} /\ x \in After(x)
    BY <2>1, <2>2
  <2>4. IsFiniteSet(After(x)) /\ IsFiniteSet(After(n))
    <3>1. After(x) \in SUBSET F /\ After(n) \in SUBSET F
      OBVIOUS
    <3> HIDE DEF After
    <3> QED
      BY <1>5, <3>1, FS_Subset
  <2> HIDE DEF After
  <2>5. Cardinality(After(n)) = Cardinality(After(x)) - 1
    BY <2>3, <2>4, FS_RemoveElement
  <2> QED
    BY <2>1, <2>3, <2>4, <2>5, FS_CardinalityType
<1>8. PICK f : /\ \A x \in Int, n \in Nat :
                     f[<<x, n>>] = IF n = 0 \/ x \notin F THEN <<x>>
                                   ELSE <<x>> \o f[<<Nx(h, x), n - 1>>]
               /\ Walk(0, F) = <<8>> \o f[<<Nx(h, 8), Cardinality(F)>>]
  BY <1>4, WalkIs
<1> DEFINE Good(x) == \A n \in Nat : Cardinality(After(x)) <= n
                                       => Leads(h, x, e, After(x), f[<<x, n>>])
           Bad == {x \in F \cup {e} : ~Good(x)}
           Ranks == {rk[x] : x \in Bad}
<1>9. Bad = {}
  <2>1. SUFFICES ASSUME Bad # {} PROVE FALSE
    OBVIOUS
  <2>2. PICK x \in Bad : \A y \in Bad : rk[y] <= rk[x]
    <3>1. Ranks \in SUBSET Nat /\ (\A n \in Ranks : n <= rk[e]) /\ rk[e] \in Nat
      BY <1>6
    <3>2. Ranks # {}
      BY <2>1
    <3>3. PICK n \in Ranks : \A l \in Ranks : l <= n
      <4> HIDE DEF Ranks
      <4> QED
        BY <3>1, <3>2, GreatestNatural
    <3> QED
      BY <3>3
  <2>3. PICK n \in Nat : Cardinality(After(x)) <= n /\ ~Leads(h, x, e, After(x), f[<<x, n>>])
    OBVIOUS
  <2>4. CASE x = e
    <3>1. After(e) = {}
      BY <1>3, <1>6
    <3>2. f[<<e, n>>] = <<e>>
      BY ZenonT(40), <1>3, <1>4, <1>8
    <3>3. Leads(h, e, e, {}, <<e>>)
      BY <1>4 DEF Leads
    <3> HIDE DEF After
    <3> QED
      BY <2>3, <2>4, <3>1, <3>2, <3>3
  <2>5. CASE x \in F
    <3>1. PICK y : y = Nx(h, x) /\ y \in F \cup {e} /\ y \notin Bad /\ Pv(h, y) = x
      <4>1. Nx(h, x) \in F \cup {e} /\ rk[x] < rk[Nx(h, x)] /\ rk[x] \in Nat /\ rk[Nx(h, x)] \in Nat
        BY <1>6, <2>5
      <4>2. ~(rk[Nx(h, x)] <= rk[x])
        BY <4>1
      <4> HIDE DEF Bad
      <4> QED
        BY <1>3, <2>2, <2>5, <4>1, <4>2
    <3>2. Good(y)
      BY <3>1
    <3>3. /\ After(x) = After(y) \cup {x} /\ Cardinality(After(y)) <= n - 1
          /\ n - 1 \in Nat /\ n # 0
      <4> HIDE DEF After
      <4>1. /\ After(x) = After(y) \cup {x} /\ Cardinality(After(y)) = Cardinality(After(x)) - 1
            /\ Cardinality(After(x)) \in Nat /\ Cardinality(After(y)) \in Nat
        BY <1>7, <2>5, <3>1
      <4> QED
        BY <2>3, <4>1
    <3>4. Leads(h, y, e, After(y), f[<<y, n - 1>>])
      <4> HIDE DEF After
      <4> QED
        BY <3>2, <3>3
    <3>5. f[<<x, n>>] = <<x>> \o f[<<y, n - 1>>] /\ x \in Int
      BY <1>4, <1>8, <2>5, <3>1, <3>3
    <3>6. Leads(h, x, e, After(y) \cup {x}, f[<<x, n>>])
      <4> HIDE DEF After
      <4> QED
        BY <3>1, <3>4, <3>5, LeadsOn
    <3> HIDE DEF After
    <3> QED
      BY <2>3, <3>3, <3>6
  <2> QED
    BY <2>4, <2>5
<1>10. PICK y : y = Nx(h, 8) /\ y \in F \cup {e} /\ Pv(h, y) = 8
  BY <1>3
<1>11. After(y) = F
  BY <1>6, <1>10
<1>12. Leads(h, y, e, F, f[<<y, Cardinality(F)>>])
  <2>1. Good(y)
    BY <1>9, <1>10
  <2>2. Cardinality(F) \in Nat /\ Cardinality(F) <= Cardinality(F)
    BY <1>5, FS_CardinalityType
  <2> HIDE DEF After
  <2> QED
    BY <1>11, <2>1, <2>2
<1>13. PICK s, t : s = f[<<y, Cardinality(F)>>] /\ t = Walk(0, F) /\ t = <<8>> \o s
  BY <1>8, <1>10
<1>14. Leads(h, 8, e, F \cup {8}, t)
  <2>1. Leads(h, y, e, F, s) /\ Pv(h, y) = 8 /\ 8 \in Int
    BY <1>10, <1>12, <1>13
  <2> QED
    BY <1>13, <2>1, LeadsOn
<1> QED
  BY <1>13, <1>14

\* The list of mm-explicit.c leads from the prologue to the epilogue and back, and every free
\* block is in it.
THEOREM ListHoldsTheFreeBlocks ==
    ASSUME CHUNKSIZE + 32 <= MAX_HEAP, SIZE_T = 8, NoneTooNarrow
    PROVE  Spec => [](mm = "explicit" => FreeListExact)
<1>1. ASSUME mm = "explicit", ListInv PROVE FreeListExact
  <2>1. PICK S, e, F : Listed(h, S) /\ e = h.brk - 8 /\ F = FreeIn(h, S)
    BY <1>1 DEF ListInv
  <2>2. FreeBlocks = F /\ Epilogue = e /\ First = 8 /\ Lists = {0} /\ \A n : ListsOf(n) = {0}
    BY <1>1, <2>1, FreeBlocksAre DEF Epilogue, First, WSIZE, Lists, ListsOf
  <2>3. PICK s : s = Walk(0, F) /\ Leads(h, 8, e, F \cup {8}, s)
    BY <2>1, ListWalked
  <2> DEFINE walk == [off \in Lists |-> Walk(off, FreeBlocks)]
  <2>4. \A off \in Lists : off = 0 /\ walk[off] = s
    BY <2>2, <2>3
  <2> DEFINE Prev(bp, off) == First + GET(h, bp + WSIZE + (IF bp = Epilogue THEN off ELSE 0))
             Home(bp, off) == /\ off \in ListsOf(Size(bp))
                              /\ \E n \in DOMAIN walk[off] : walk[off][n] = bp
  <2>5. \A n \in 2 .. Len(s) : Prev(s[n], 0) = s[n - 1]
    <3>1. ASSUME NEW n \in 2 .. Len(s) PROVE Prev(s[n], 0) = s[n - 1]
      <4>1. s[n] \in Int
        BY <2>3 DEF Leads
      <4>2. Prev(s[n], 0) = Pv(h, s[n])
        BY <2>2, <4>1 DEF Pv, GET, WSIZE
      <4> QED
        BY <2>3, <4>2 DEF Leads
    <3> QED
      BY <3>1
  <2>6. ASSUME NEW bp \in F PROVE Cardinality({off \in Lists : Home(bp, off)}) = 1
    <3>1. \E n \in DOMAIN s : s[n] = bp
      BY <2>3 DEF Leads
    <3>2. {off \in Lists : Home(bp, off)} = {0}
      <4> HIDE DEF walk
      <4> QED
        BY <2>2, <2>4, <3>1
    <3>3. Cardinality({0}) = 1
      BY FS_Singleton
    <3> QED
      BY <3>2, <3>3
  <2>7. s[Len(s)] = Epilogue
    BY <2>2, <2>3 DEF Leads
  <2>8. /\ \A off \in Lists :
              /\ walk[off][Len(walk[off])] = Epilogue
              /\ \A n \in 2 .. Len(walk[off]) : Prev(walk[off][n], off) = walk[off][n - 1]
        /\ \A bp \in FreeBlocks : Cardinality({off \in Lists : Home(bp, off)}) = 1
    <3>1. \A bp \in FreeBlocks : Cardinality({off \in Lists : Home(bp, off)}) = 1
      BY <2>2, <2>6
    <3>2. ASSUME NEW off \in Lists
          PROVE  /\ walk[off][Len(walk[off])] = Epilogue
                 /\ \A n \in 2 .. Len(walk[off]) : Prev(walk[off][n], off) = walk[off][n - 1]
      <4> HIDE DEF walk, Prev
      <4> QED
        BY <2>4, <2>5, <2>7
    <3> QED
      BY <3>1, <3>2
  <2> QED
    BY <2>8 DEF FreeListExact
<1>2. (mm = "explicit" => ListInv) => (mm = "explicit" => FreeListExact)
  BY <1>1
<1> QED
  BY <1>2, ListCorrect, PTL

-----------------------------------------------------------------------------
(* The three allocators without segregated lists together. *)

\* The driver never finds fault with a payload that mm-naive.c, mm-implict.c or mm-explicit.c
\* gave, the blocks of the two that have blocks fill the heap, free ones are merged, and the
\* list is that of the free blocks.
THEOREM DriverIsSatisfied ==
    ASSUME Allocators \subseteq {"naive", "implicit", "explicit"},
           CHUNKSIZE + 32 <= MAX_HEAP, SIZE_T = 8, NoneTooNarrow
    PROVE  Spec => [](DriverIsContent /\ HeapTiled /\ NoFreeNeighbours /\ FreeListExact)
<1>1. Spec => [](mm \in Allocators)
  <2>1. Init => mm \in Allocators
    BY DEF Init
  <2>2. mm \in Allocators /\ [Next]_vars => (mm \in Allocators)'
    BY DEF Next, NextTrace, Free, Alloc, Realloc, Request, vars
  <2> QED
    BY <2>1, <2>2, PTL DEF Spec
<1>2. CHUNKSIZE + 16 <= MAX_HEAP
  BY HeapAssumption
<1>3. Spec => [](mm = "implicit" => HeapInv)
  BY <1>2, HeapCorrect
<1>4. /\ Spec => [](mm = "implicit" => HeapTiled)
      /\ Spec => [](mm = "implicit" => NoFreeNeighbours)
  BY <1>2, BlocksTileTheHeap, FreeBlocksAreMerged
<1>5. ASSUME mm \in Allocators, mm = "naive" => NaiveInv, mm = "implicit" => HeapInv,
             mm = "explicit" => ListInv
      PROVE  DriverIsContent
  BY <1>5 DEF DriverIsContent, NaiveInv, HeapInv, ListInv
<1>6. mm = "naive" => HeapTiled /\ NoFreeNeighbours /\ FreeListExact
  BY DEF HeapTiled, NoFreeNeighbours, FreeListExact, HasBlocks
<1>7. mm = "implicit" => FreeListExact
  BY DEF FreeListExact
<1>8. mm \in Allocators => mm = "naive" \/ mm = "implicit" \/ mm = "explicit"
  OBVIOUS
<1> QED
  BY <1>1, <1>3, <1>4, <1>5, <1>6, <1>7, <1>8, NaiveCorrect, ListCorrect,
     ListedBlocksTileTheHeap, ListedFreeBlocksAreMerged, ListHoldsTheFreeBlocks, PTL

\* Whichever of the three is linked in, the driver sees what Allocator.tla promises, and a
\* request that fails when it must.
THEOREM DriverSeesAnAllocator ==
    ASSUME Allocators \subseteq {"naive", "implicit", "explicit"},
           CHUNKSIZE + 32 <= MAX_HEAP, SIZE_T = 8, NoneTooNarrow
    PROVE  Spec => ImplementsAllocator /\ FailsOnlyWhenFull
<1>1. Init => mm = "naive" \/ mm = "implicit" \/ mm = "explicit"
  BY DEF Init
<1>2. CHUNKSIZE + 16 <= MAX_HEAP
  BY HeapAssumption
<1>3. Spec /\ mm = "implicit" => ImplementsAllocator
  BY <1>2, PayloadsAreApart
<1>4. Spec /\ mm = "implicit" => FailsOnlyWhenFull
  BY <1>2, GivesUpOnlyWhenFull
<1>5. Spec => mm = "naive" \/ mm = "implicit" \/ mm = "explicit"
  BY <1>1 DEF Spec
<1> QED
  BY <1>3, <1>4, <1>5, NaivePayloadsAreApart, NaiveGivesUpOnlyWhenFull,
     ListedPayloadsAreApart, ListGivesUpOnlyWhenFull, PTL
=============================================================================
