-------------------------------- MODULE Least -------------------------------
(***************************************************************************)
(* A set of natural numbers that is not empty has a least element, and one *)
(* that is bounded a greatest: what the loops of the programs that look    *)
(* for a minimum or a maximum find.  The end of the module is about        *)
(* division, of which the provers know little.                             *)
(***************************************************************************)
EXTENDS Integers, WellFoundedInduction, TLAPS

LessThan == {p \in Nat \X Nat : p[1] < p[2]}

\* < on the natural numbers has no infinite descent.
LEMMA LessThanWF == IsWellFoundedOn(LessThan, Nat)
BY NatLessThanWellFounded DEF OpToRel, LessThan, IsWellFoundedOn

\* A loop that keeps the smallest value it has met ends with the smallest value.
LEMMA LeastNatural ==
    ASSUME NEW T \in SUBSET Nat, T # {}
    PROVE  \E x \in T : \A y \in T : x <= y
<1>1. PICK x \in T : \A y \in T : <<y, x>> \notin LessThan
  BY LessThanWF, WFMin
<1>2. ASSUME NEW y \in T PROVE x <= y
  <2>1. ~(y < x)
    BY <1>1 DEF LessThan
  <2> QED BY <2>1
<1> QED BY <1>2

\* The values of an array have an upper bound.
LEMMA ArrayBounded ==
    ASSUME NEW n \in Nat, NEW f \in [0 .. n - 1 -> Nat]
    PROVE  \E m \in Nat : \A k \in 0 .. n - 1 : f[k] <= m
<1> DEFINE Bounded(l) == \E m \in Nat : \A k \in 0 .. l - 1 : f[k] <= m
           Bad == {l \in 0 .. n : ~Bounded(l)}
<1>1. SUFFICES ASSUME Bad # {} PROVE FALSE
  <2>1. n \in 0 .. n
    OBVIOUS
  <2> QED BY <1>1, <2>1
<1>2. PICK l \in Bad : \A k \in Bad : l <= k
  <2>1. Bad \in SUBSET Nat
    OBVIOUS
  <2> QED BY <1>1, <2>1, LeastNatural
<1>3. l \in 0 .. n /\ ~Bounded(l)
  OBVIOUS
<1>4. l # 0
  <2>1. Bounded(0)
    <3>1. \A k \in 0 .. 0 - 1 : f[k] <= 0
      OBVIOUS
    <3> QED BY <3>1
  <2> QED BY <1>3, <2>1
<1>5. l - 1 \in 0 .. n /\ Bounded(l - 1)
  <2>1. l - 1 \in 0 .. n /\ ~(l <= l - 1)
    BY <1>3, <1>4
  <2>2. l - 1 \notin Bad
    <3> HIDE DEF Bad
    <3> QED BY <1>2, <2>1
  <2> QED BY <2>1, <2>2
<1>6. PICK m \in Nat : \A k \in 0 .. l - 1 - 1 : f[k] <= m
  BY <1>5
<1>7. f[l - 1] \in Nat
  BY <1>3, <1>4
<1>8. PICK m2 \in Nat : m <= m2 /\ f[l - 1] <= m2
  <2>1. CASE m <= f[l - 1]
    BY <1>7, <2>1
  <2>2. CASE f[l - 1] <= m
    BY <1>7, <2>2
  <2> QED BY <1>7, <2>1, <2>2
<1>9. ASSUME NEW k \in 0 .. l - 1 PROVE f[k] <= m2
  <2>1. k = l - 1 \/ k \in 0 .. l - 1 - 1
    BY <1>3
  <2>2. CASE k = l - 1
    BY <1>8, <2>2
  <2>3. CASE k \in 0 .. l - 1 - 1
    <3>1. f[k] <= m /\ f[k] \in Nat
      BY <1>3, <1>6, <2>3
    <3> QED BY <1>8, <3>1
  <2> QED BY <2>1, <2>2, <2>3
<1> QED BY <1>3, <1>9

\* A loop that keeps the largest value it has met ends with the largest value.
LEMMA GreatestNatural ==
    ASSUME NEW T \in SUBSET Nat, T # {}, NEW m \in Nat, \A y \in T : y <= m
    PROVE  \E x \in T : \A y \in T : y <= x
<1> DEFINE Above == {n \in Nat : \A y \in T : y <= n}
<1>1. PICK x \in Above : \A y \in Above : x <= y
  <2>1. m \in Above /\ Above \in SUBSET Nat
    OBVIOUS
  <2> QED BY <2>1, LeastNatural
<1>2. x \in T
  <2>1. SUFFICES ASSUME x \notin T PROVE FALSE
    OBVIOUS
  <2>2. \A y \in T : y \in Nat /\ y <= x - 1
    BY <2>1
  <2>3. x - 1 \in Nat
    <3>1. PICK y \in T : TRUE
      OBVIOUS
    <3>2. y \in Nat /\ y <= x - 1 /\ x \in Nat
      BY <2>2, <3>1
    <3> QED BY <3>2
  <2>4. x - 1 \in Above
    BY <2>2, <2>3
  <2> QED BY <1>1, <2>4
<1> QED BY <1>1, <1>2

\* A loop that ends because some measure of it falls defines a function by recursion: at x it
\* answers val[x], if x is in stop, or makes comb[x] of what it answers at nx[x].
DescentOver(D, V, stop, val, comb, nx, rank) ==
    /\ val \in [D -> V] /\ comb \in [D -> [V -> V]] /\ nx \in [D -> D] /\ rank \in [D -> Nat]
    /\ \A x \in D \ stop : rank[nx[x]] < rank[x]

LEMMA DescentDefined ==
    ASSUME NEW D, NEW V, NEW stop, NEW val, NEW comb, NEW nx, NEW rank,
           DescentOver(D, V, stop, val, comb, nx, rank)
    PROVE  \E f \in [D -> V] :
               \A x \in D : f[x] = IF x \in stop THEN val[x] ELSE comb[x][f[nx[x]]]
<1> USE DEF DescentOver
<1> DEFINE Closed(R) ==
               \A x \in D :
                  /\ x \in stop => <<x, val[x]>> \in R
                  /\ x \notin stop => \A v \in V : <<nx[x], v>> \in R => <<x, comb[x][v]>> \in R
           G == {q \in D \X V : \A R \in SUBSET (D \X V) : Closed(R) => q \in R}
<1>1. G \in SUBSET (D \X V) /\ Closed(G)
  <2>1. ASSUME NEW x \in D, x \in stop PROVE <<x, val[x]>> \in G
    BY <2>1
  <2>2. ASSUME NEW x \in D, x \notin stop, NEW v \in V, <<nx[x], v>> \in G
        PROVE  <<x, comb[x][v]>> \in G
    <3>1. comb[x][v] \in V
      OBVIOUS
    <3> QED
      BY <2>2, <3>1
  <2> QED
    BY <2>1, <2>2
<1>2. ASSUME NEW R \in SUBSET (D \X V), Closed(R) PROVE G \subseteq R
  BY <1>2
<1> HIDE DEF G
\* Less is not closed, so every pair is there for a reason.
<1>3. ASSUME NEW x \in D, NEW v \in V, <<x, v>> \in G
      PROVE  IF x \in stop THEN v = val[x]
             ELSE \E w \in V : <<nx[x], w>> \in G /\ v = comb[x][w]
  <2> DEFINE R == G \ {<<x, v>>}
  <2>1. SUFFICES ASSUME ~(IF x \in stop THEN v = val[x]
                          ELSE \E w \in V : <<nx[x], w>> \in G /\ v = comb[x][w])
                 PROVE  Closed(R)
    <3>1. R \in SUBSET (D \X V) /\ <<x, v>> \notin R
      BY <1>1
    <3> QED
      BY <1>2, <1>3, <3>1
  <2>2. ASSUME NEW y \in D, y \in stop PROVE <<y, val[y]>> \in R
    <3>1. <<y, val[y]>> \in G
      BY <1>1, <2>2
    <3> QED
      BY <2>1, <2>2, <3>1
  <2>3. ASSUME NEW y \in D, y \notin stop, NEW w \in V, <<nx[y], w>> \in R
        PROVE  <<y, comb[y][w]>> \in R
    <3>1. <<nx[y], w>> \in G /\ <<y, comb[y][w]>> \in G
      BY <1>1, <2>3
    <3> QED
      BY <2>1, <2>3, <3>1
  <2> HIDE DEF R
  <2> QED
    BY <2>2, <2>3
<1>4. ASSUME NEW x \in D PROVE \E v \in V : \A w \in V : <<x, w>> \in G <=> w = v
  <2> DEFINE Bad == {y \in D : ~\E v \in V : \A w \in V : <<y, w>> \in G <=> w = v}
             Ranks == {rank[y] : y \in Bad}
  <2>1. SUFFICES ASSUME Bad # {} PROVE FALSE
    OBVIOUS
  <2>2. PICK y \in Bad : \A z \in Bad : rank[y] <= rank[z]
    <3>1. Ranks \in SUBSET Nat /\ Ranks # {}
      BY <2>1
    <3>2. PICK n \in Ranks : \A k \in Ranks : n <= k
      <4> HIDE DEF Ranks
      <4> QED
        BY <3>1, LeastNatural
    <3>3. PICK y \in Bad : n = rank[y]
      BY ONLY <3>2
    <3>4. \A z \in Bad : rank[z] \in Ranks
      OBVIOUS
    <3> HIDE DEF Bad, Ranks
    <3> QED
      BY ONLY <3>2, <3>3, <3>4
  <2>3. y \in D /\ ~\E v \in V : \A w \in V : <<y, w>> \in G <=> w = v
    OBVIOUS
  <2>4. CASE y \in stop
    <3>1. val[y] \in V /\ \A w \in V : <<y, w>> \in G <=> w = val[y]
      BY <1>1, <1>3, <2>3, <2>4
    <3> QED
      BY <2>3, <3>1
  <2>5. CASE y \notin stop
    <3>1. nx[y] \in D /\ nx[y] \notin Bad
      <4>1. rank[nx[y]] < rank[y] /\ rank[nx[y]] \in Nat /\ rank[y] \in Nat /\ nx[y] \in D
        BY <2>3, <2>5
      <4>2. ~(rank[y] <= rank[nx[y]])
        BY <4>1
      <4> HIDE DEF Bad
      <4> QED
        BY <2>2, <4>1, <4>2
    <3>2. PICK v \in V : \A w \in V : <<nx[y], w>> \in G <=> w = v
      BY <3>1
    <3>3. comb[y][v] \in V
      BY <2>3
    <3>4. <<y, comb[y][v]>> \in G
      BY <1>1, <2>3, <2>5, <3>2
    <3>5. ASSUME NEW w \in V, <<y, w>> \in G PROVE w = comb[y][v]
      <4>1. PICK u \in V : <<nx[y], u>> \in G /\ w = comb[y][u]
        BY <1>3, <2>3, <2>5, <3>5
      <4> QED
        BY <3>2, <4>1
    <3> QED
      BY <2>3, <3>3, <3>4, <3>5
  <2> QED
    BY <2>4, <2>5
<1> DEFINE f == [x \in D |-> CHOOSE v \in V : <<x, v>> \in G]
<1>5. ASSUME NEW x \in D PROVE f[x] \in V /\ <<x, f[x]>> \in G /\ \A w \in V : <<x, w>> \in G => w = f[x]
  BY <1>4
<1>6. f \in [D -> V]
  BY <1>5
<1>7. ASSUME NEW x \in D PROVE f[x] = IF x \in stop THEN val[x] ELSE comb[x][f[nx[x]]]
  <2>1. nx[x] \in D
    OBVIOUS
  <2> HIDE DEF f
  <2>2. CASE x \in stop
    BY <1>3, <1>5, <2>2
  <2>3. CASE x \notin stop
    <3>1. PICK v \in V : v = f[x] /\ <<x, v>> \in G
      BY <1>5
    <3>2. PICK u \in V : <<nx[x], u>> \in G /\ f[x] = comb[x][u]
      BY <1>3, <2>3, <3>1
    <3>3. u = f[nx[x]]
      BY <1>5, <2>1, <3>2
    <3> QED
      BY <2>3, <3>2, <3>3
  <2> QED
    BY <2>2, <2>3
<1> HIDE DEF f
<1> QED
  BY <1>6, <1>7

\* For instance one that only goes forward through a set of addresses that has an end.
LoopOver(D, m, V, base, comb, nx) ==
    /\ D \in SUBSET Nat /\ m \in Nat /\ \A x \in D : x <= m
    /\ base \in [D -> V] /\ comb \in [D -> [V -> V]] /\ nx \in [D -> D]
    /\ \A x \in D : x <= nx[x]

LEMMA LoopDefined ==
    ASSUME NEW D, NEW m, NEW V, NEW base, NEW comb, NEW nx, LoopOver(D, m, V, base, comb, nx)
    PROVE  \E f \in [D -> V] :
               \A x \in D : f[x] = IF nx[x] = x THEN base[x] ELSE comb[x][f[nx[x]]]
<1> DEFINE stop == {x \in D : nx[x] = x}
           rank == [x \in D |-> m - x]
<1>1. rank \in [D -> Nat] /\ \A x \in D \ stop : rank[nx[x]] < rank[x]
  <2>1. ASSUME NEW x \in D PROVE m - x \in Nat
    BY DEF LoopOver
  <2>2. ASSUME NEW x \in D \ stop PROVE m - nx[x] < m - x
    <3>1. x \in Nat /\ nx[x] \in Nat /\ x <= nx[x] /\ nx[x] # x /\ m \in Nat
      BY DEF LoopOver
    <3> QED
      BY <3>1
  <2>3. \A x \in D : nx[x] \in D
    BY DEF LoopOver
  <2> QED
    BY <2>1, <2>2, <2>3
<1>2. DescentOver(D, V, stop, base, comb, nx, rank)
  <2> HIDE DEF rank, stop
  <2> QED
    BY <1>1 DEF DescentOver, LoopOver
<1>3. PICK f \in [D -> V] : \A x \in D : f[x] = IF x \in stop THEN base[x] ELSE comb[x][f[nx[x]]]
  <2> HIDE DEF rank, stop
  <2> QED
    BY <1>2, DescentDefined
<1> QED
  BY <1>3

\* A loop that ends where it meets one of the addresses in stop, wherever it goes before,
\* defines a function by recursion: at x it answers val[x], or what it answers at nx[x].
TailOver(D, V, stop, val, nx) == val \in [D -> V] /\ nx \in [D -> D]

LEMMA TailDefined ==
    ASSUME NEW D, NEW V, NEW stop, NEW val, NEW nx, TailOver(D, V, stop, val, nx)
    PROVE  \E f \in [D -> V] :
               \A x \in D : f[x] = IF x \in stop THEN val[x] ELSE f[nx[x]]
<1> USE DEF TailOver
<1> DEFINE Closed(R) ==
               \A x \in D : /\ x \in stop => <<x, val[x]>> \in R
                            /\ x \notin stop => \A v \in V : <<nx[x], v>> \in R => <<x, v>> \in R
           G == {q \in D \X V : \A R \in SUBSET (D \X V) : Closed(R) => q \in R}
<1>1. G \in SUBSET (D \X V) /\ Closed(G)
  <2>1. ASSUME NEW x \in D, x \in stop PROVE <<x, val[x]>> \in G
    BY <2>1
  <2>2. ASSUME NEW x \in D, x \notin stop, NEW v \in V, <<nx[x], v>> \in G PROVE <<x, v>> \in G
    BY <2>2
  <2> QED
    BY <2>1, <2>2
<1>2. ASSUME NEW R \in SUBSET (D \X V), Closed(R) PROVE G \subseteq R
  BY <1>2
<1> HIDE DEF G
\* Less is not closed, so every pair is there for a reason.
<1>3. ASSUME NEW x \in D, NEW v \in V, <<x, v>> \in G
      PROVE  IF x \in stop THEN v = val[x] ELSE <<nx[x], v>> \in G
  <2> DEFINE R == G \ {<<x, v>>}
  <2>1. SUFFICES ASSUME ~(IF x \in stop THEN v = val[x] ELSE <<nx[x], v>> \in G) PROVE Closed(R)
    <3>1. R \in SUBSET (D \X V) /\ <<x, v>> \notin R
      BY <1>1
    <3> QED
      BY ZenonT(40), <1>2, <1>3, <3>1
  <2>2. ASSUME NEW y \in D, y \in stop PROVE <<y, val[y]>> \in R
    <3>1. <<y, val[y]>> \in G
      BY <1>1, <2>2
    <3> QED
      BY <2>1, <2>2, <3>1
  <2>3. ASSUME NEW y \in D, y \notin stop, NEW w \in V, <<nx[y], w>> \in R PROVE <<y, w>> \in R
    <3>1. <<nx[y], w>> \in G /\ <<y, w>> \in G
      BY <1>1, <2>3
    <3> QED
      BY <2>1, <2>3, <3>1
  <2> HIDE DEF R
  <2> QED
    BY <2>2, <2>3
<1>4. ASSUME NEW x \in D, NEW v \in V, NEW w \in V, <<x, v>> \in G, <<x, w>> \in G PROVE v = w
  <2> DEFINE R == {q \in G : \A u \in V : <<q[1], u>> \in G => u = q[2]}
  <2>1. ASSUME NEW y \in D, y \in stop PROVE <<y, val[y]>> \in R
    BY <1>1, <1>3, <2>1
  <2>2. ASSUME NEW y \in D, y \notin stop, NEW u \in V, <<nx[y], u>> \in R PROVE <<y, u>> \in R
    <3>1. <<nx[y], u>> \in G /\ <<y, u>> \in G
      BY <1>1, <2>2
    <3>2. ASSUME NEW z \in V, <<y, z>> \in G PROVE z = u
      BY <1>3, <2>2, <3>2
    <3> QED
      BY <3>1, <3>2
  <2>3. R \in SUBSET (D \X V)
    BY <1>1
  <2>4. <<x, v>> \in R
    <3> HIDE DEF R
    <3> QED
      BY <1>2, <1>4, <2>1, <2>2, <2>3
  <2> QED
    BY <1>4, <2>4
<1> DEFINE Answers(x) == {v \in V : <<x, v>> \in G}
           OneOf(A) == IF A = {} THEN CHOOSE v \in V : TRUE ELSE CHOOSE v \in V : v \in A
           f == [x \in D |-> OneOf(Answers(x))]
<1>5. f \in [D -> V]
  <2>1. ASSUME NEW x \in D PROVE f[x] \in V
    <3>1. val[x] \in V
      OBVIOUS
    <3>2. CASE Answers(x) = {}
      BY <3>1, <3>2
    <3>3. CASE Answers(x) # {}
      BY <3>3
    <3> QED
      BY <3>2, <3>3
  <2> QED
    BY <2>1
<1>6. ASSUME NEW x \in D PROVE f[x] = IF x \in stop THEN val[x] ELSE f[nx[x]]
  <2>1. CASE x \in stop
    <3>1. \A v \in V : v \in Answers(x) <=> v = val[x]
      BY <1>1, <1>3, <2>1
    <3>2. val[x] \in V
      OBVIOUS
    <3>3. Answers(x) # {} /\ (CHOOSE v \in V : v \in Answers(x)) \in Answers(x)
      BY <3>1, <3>2
    <3> QED
      BY <2>1, <3>1, <3>3
  <2>2. CASE x \notin stop
    <3>1. nx[x] \in D
      OBVIOUS
    <3>2. Answers(x) = Answers(nx[x])
      BY <1>1, <1>3, <2>2, <3>1
    <3> HIDE DEF OneOf, Answers
    <3> QED
      BY <2>2, <3>1, <3>2
  <2> QED
    BY <2>1, <2>2
<1> QED
  BY <1>5, <1>6
-----------------------------------------------------------------------------
(* Quotients and remainders. *)

\* A number is what its quotient and remainder make.
LEMMA DivisionIs ==
    ASSUME NEW n \in Nat, NEW d \in Nat \ {0}
    PROVE  \E q \in Nat, r \in Nat : q = n \div d /\ r = n % d /\ r < d /\ n = d * q + r
<1>1. n \div d \in Int /\ n \div d >= 0
  OBVIOUS
<1>2. n % d \in Int /\ n % d >= 0 /\ n % d < d
  OBVIOUS
<1>3. n % d = n - d * (n \div d)
  OBVIOUS
<1>4. PICK q, r : q = n \div d /\ r = n % d
  OBVIOUS
<1>5. q \in Nat /\ r \in Nat /\ r < d
  BY <1>1, <1>2, <1>4
<1>6. r = n - d * q
  BY <1>3, <1>4
<1>7. n = d * q + r
  BY <1>5, <1>6
<1> QED
  BY <1>4, <1>5, <1>7

\* Quotient and remainder are the only ones.
LEMMA QuotientIs ==
    ASSUME NEW n, NEW d \in Nat \ {0}, NEW q \in Nat, NEW r \in Nat, r < d, n = d * q + r
    PROVE  n \div d = q /\ n % d = r
<1>1. PICK m \in Nat : m = n /\ m = q * d + r
  OBVIOUS
<1>2. m \div d = q
  BY <1>1
<1>3. m % d = r
  BY <1>1
<1> QED
  BY <1>1, <1>2, <1>3

LEMMA SmallRemainder ==
    ASSUME NEW n \in Nat, NEW d \in Nat \ {0}, n < d
    PROVE  n % d = n
OBVIOUS

LEMMA MultipleRemainder ==
    ASSUME NEW n \in Nat, NEW d \in Nat \ {0}
    PROVE  (d * n) % d = 0
<1>1. PICK m, r \in Nat : m = d * n /\ m = d * n + r /\ r = 0 /\ r < d
  OBVIOUS
<1>2. m % d = r
  BY <1>1, QuotientIs
<1> QED
  BY <1>1, <1>2
=============================================================================
