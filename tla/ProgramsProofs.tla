---------------------------- MODULE ProgramsProofs ---------------------------
(***************************************************************************)
(* Proofs about the sequential programs: the integer puzzles of bits.c     *)
(* return what tests.c asks for, on words of any width, where the runs of  *)
(* btest try a few values of 32 bits; and fcyc reports the fastest run,    *)
(* for any width of the cycle counter, any durations and any kbest.        *)
(***************************************************************************)
EXTENDS Programs, Least, SequenceTheorems

-----------------------------------------------------------------------------
(* The operators on words. *)

LEMMA Positions == Sign \in Bit /\ 0 \in Bit /\ 0 # Sign
  BY WAssumption DEF Sign, Bit

LEMMA AddIsWord == \A x, y : Add(x, y) \in Word
  BY DEF Add, Word

\* Adding 0 changes nothing.
LEMMA AddZero == ASSUME NEW x \in Word PROVE Add({}, x) = x /\ Add(x, {}) = x
<1>1. \A i : ~CarryInto(i, {}, x) /\ ~CarryInto(i, x, {})
  BY DEF CarryInto
<1>2. Xor({}, x) = x /\ Xor(x, {}) = x /\ x \subseteq Bit
  BY DEF Xor, Word
<1> QED BY <1>1, <1>2 DEF Add

\* -1 + 1 = 0: the carry runs through all positions.
LEMMA OnesPlusOne == Add({0}, Bit) = {} /\ Add(Bit, {0}) = {}
<1>1. ASSUME NEW i \in Bit PROVE (i # 0 <=> CarryInto(i, {0}, Bit)) /\ (i # 0 <=> CarryInto(i, Bit, {0}))
  <2>1. i \in 0 .. W - 1
    BY DEF Bit
  <2>2. CASE i = 0
    BY <2>2 DEF CarryInto
  <2>3. CASE i # 0
    <3>1. 0 \in 0 .. i - 1 /\ 0 \in {0} \cap Bit
      BY <2>1, <2>3, WAssumption DEF Bit
    <3>2. \A k \in 0 + 1 .. i - 1 : k \in Bit
      BY <2>1, WAssumption DEF Bit
    <3> QED BY <2>3, <3>1, <3>2 DEF CarryInto
  <2> QED BY <2>2, <2>3
<1>2. Xor({0}, Bit) = Bit \ {0} /\ Xor(Bit, {0}) = Bit \ {0}
  BY Positions DEF Xor
<1> QED BY <1>1, <1>2 DEF Add

\* x >> 31 is -1 for a negative number and 0 for the others.
LEMMA SignSpread ==
    ASSUME NEW x \in Word PROVE Sar(x, Sign) = IF Sign \in x THEN Bit ELSE {}
<1>1. ASSUME NEW i \in Bit PROVE (IF i + Sign < W THEN i + Sign ELSE Sign) = Sign
  BY WAssumption DEF Bit, Sign
<1> QED BY <1>1 DEF Sar

-----------------------------------------------------------------------------
(* The puzzles. *)

\* bitXor: x ^ y with ~ and & alone.
THEOREM XorRight == \A x, y \in Word : bitXor(x, y) = Xor(x, y)
  BY DEF bitXor, Xor, And, Not, Word

\* allOddBits: 1 exactly if no odd position holds 0.
THEOREM AllOddBitsRight == \A x \in Word : allOddBits(x) = test_allOddBits(x)
<1> SUFFICES ASSUME NEW x \in Word PROVE allOddBits(x) = test_allOddBits(x)
  OBVIOUS
<1> DEFINE a == {i \in Bit : i % 2 = 0}
<1>1. \A i \in Bit : i % 2 = 0 \/ i % 2 = 1
  BY WAssumption DEF Bit
<1>2. Not(Or(a, x)) = {} <=> \A i \in Bit : i % 2 = 1 => i \in x
  BY <1>1 DEF Not, Or
<1> QED BY <1>2 DEF allOddBits, test_allOddBits, LNot, Bool

\* conditional: x ? y : z without a branch.
THEOREM ConditionalRight ==
    \A x, y, z \in Word : conditional(x, y, z) = test_conditional(x, y, z)
<1> SUFFICES ASSUME NEW x \in Word, NEW y \in Word, NEW z \in Word
             PROVE  conditional(x, y, z) = test_conditional(x, y, z)
  OBVIOUS
<1>1. Not({}) = Bit /\ And(x, Bit) = x /\ Bit \in Word
  BY DEF Not, And, Word
<1>2. Add(LNot(x), Bit) = IF x = {} THEN {} ELSE Bit
  BY <1>1, AddZero, OnesPlusOne DEF LNot
<1>3. And({}, y) = {} /\ And(Bit, y) = y /\ Not(Bit) = {}
  BY DEF And, Not, Word
<1>4. Or(And({}, y), And(Not({}), z)) = z /\ Or(And(Bit, y), And(Not(Bit), z)) = y
  BY <1>1, <1>3 DEF And, Or, Word
<1> QED BY <1>1, <1>2, <1>4 DEF conditional, test_conditional

\* logicalNeg: !x without !.
THEOREM LogicalNegRight == \A x \in Word : logicalNeg(x) = test_logicalNeg(x)
<1> SUFFICES ASSUME NEW x \in Word PROVE logicalNeg(x) = test_logicalNeg(x)
  OBVIOUS
<1> DEFINE k == Not(Shl({0}, Sign))
<1>1. k = Bit \ {Sign}
  BY Positions, WAssumption DEF Not, Shl, Bit, Sign
<1>2. Sign \notin x => (Sign \in Add(x, k) <=> x # {})
  <2> SUFFICES ASSUME Sign \notin x PROVE Sign \in Add(x, k) <=> x # {}
    OBVIOUS
  <2>1. Sign \notin Xor(x, k)
    BY <1>1 DEF Xor
  <2>2. CASE x = {}
    BY <2>1, <2>2 DEF Add, CarryInto
  <2>3. CASE x # {}
    <3>1. PICK j \in x : TRUE
      BY <2>3
    <3>2. j \in 0 .. Sign - 1 /\ j \in x \cap k
      BY <3>1, <1>1, WAssumption DEF Word, Bit, Sign
    <3>3. \A p \in j + 1 .. Sign - 1 : p \in k
      BY <3>2, <1>1, WAssumption DEF Bit, Sign
    <3>4. CarryInto(Sign, x, k)
      BY <3>2, <3>3 DEF CarryInto
    <3> QED BY <2>1, <2>3, <3>4, Positions DEF Add
  <2> QED BY <2>2, <2>3
<1>3. Add(x, k) \in Word
  BY AddIsWord
<1> DEFINE m == Or(Sar(x, Sign), Sar(Add(x, k), Sign))
<1>4. m = IF x = {} THEN {} ELSE Bit
  BY ZenonT(40), <1>2, <1>3, SignSpread, WAssumption DEF Or, Word, Bit
<1>5. Add(m, {0}) = IF x = {} THEN {0} ELSE {}
  <2>1. {0} \in Word
    BY Positions DEF Word
  <2> QED BY <1>4, <2>1, AddZero, OnesPlusOne
<1>6. logicalNeg(x) = Add(m, {0})
  BY DEF logicalNeg
<1> QED BY <1>5, <1>6 DEF test_logicalNeg, Bool

\* howManyBits: the positions below the sign that the made-negative word has at 0 are
\* those the positive one has at 1, so both sides look for the same highest bit.
THEOREM HowManyBitsRight == \A x \in Word : howManyBits(x) = test_howManyBits(x)
<1> SUFFICES ASSUME NEW x \in Word PROVE howManyBits(x) = test_howManyBits(x)
  OBVIOUS
<1> DEFINE y == Not(Xor(x, Sar(x, Sign)))
           clear == {k \in 0 .. Sign - 1 : k \notin y}
           a == IF Sign \in x THEN Not(x) ELSE x
<1>1. Bit = (0 .. Sign - 1) \cup {Sign} /\ Sign \notin 0 .. Sign - 1
  BY WAssumption DEF Bit, Sign
<1>2. clear = a
  <2>1. CASE Sign \in x
    <3>1. y = x
      BY <2>1, SignSpread DEF Not, Xor, Word
    <3> QED BY <1>1, <2>1, <3>1 DEF Not
  <2>2. CASE Sign \notin x
    <3>1. y = Bit \ x
      BY <2>2, SignSpread DEF Not, Xor, Word
    <3> QED BY <1>1, <2>2, <3>1 DEF Word
  <2> QED BY <2>1, <2>2
<1> QED BY <1>2 DEF howManyBits, test_howManyBits

-----------------------------------------------------------------------------
(* The puzzles that compute with carries. *)

\* x + x is x shifted by one position.
LEMMA AddTwice ==
    ASSUME NEW x \in Word
    PROVE  Add(x, x) = {i \in Bit : i > 0 /\ i - 1 \in x}
<1>1. ASSUME NEW i \in Bit PROVE CarryInto(i, x, x) <=> i > 0 /\ i - 1 \in x
  <2>1. i \in Nat
    BY WAssumption DEF Bit
  <2>2. ASSUME CarryInto(i, x, x) PROVE i > 0 /\ i - 1 \in x
    <3>1. PICK j \in 0 .. i - 1 : j \in x /\ \A k \in j + 1 .. i - 1 : k \in x
      BY <2>2 DEF CarryInto
    <3>2. j = i - 1 \/ i - 1 \in j + 1 .. i - 1
      BY <2>1
    <3> QED
      BY <2>1, <3>1, <3>2
  <2>3. ASSUME i > 0, i - 1 \in x PROVE CarryInto(i, x, x)
    <3>1. i - 1 \in 0 .. i - 1 /\ \A k \in (i - 1) + 1 .. i - 1 : k \in x
      BY <2>1, <2>3
    <3> QED
      BY <2>3, <3>1 DEF CarryInto
  <2> QED
    BY <2>2, <2>3
<1>2. Xor(x, x) = {}
  BY DEF Xor
<1> QED
  BY <1>1, <1>2 DEF Add

\* Of the words that hold 0 at position 0, adding 2 makes exactly the one with all other
\* positions 1 zero.
LEMMA AddTwoIsZero ==
    ASSUME NEW s \in Word, 0 \notin s
    PROVE  Add(s, {1}) = {} <=> s = Bit \ {0}
<1>1. 0 \in Bit /\ 1 \in Bit /\ W \in Nat
  BY WAssumption DEF Bit
<1>2. ASSUME NEW i \in Bit, \A k \in 1 .. i - 1 : k \in s
      PROVE  CarryInto(i, s, {1}) <=> i > 1
  <2>1. i \in Nat
    BY <1>1 DEF Bit
  <2>2. ASSUME CarryInto(i, s, {1}) PROVE i > 1
    <3>1. 1 \in 0 .. i - 1
      BY <2>2 DEF CarryInto
    <3> QED
      BY <2>1, <3>1
  <2>3. ASSUME i > 1 PROVE CarryInto(i, s, {1})
    <3>1. 1 \in 0 .. i - 1 /\ 1 \in s /\ \A k \in 1 + 1 .. i - 1 : k \in s
      BY <1>2, <2>1, <2>3
    <3> QED
      BY <3>1 DEF CarryInto
  <2> QED
    BY <2>2, <2>3
<1>3. ASSUME s = Bit \ {0} PROVE Add(s, {1}) = {}
  <2>1. ASSUME NEW i \in Bit PROVE i \in Xor(s, {1}) <=> CarryInto(i, s, {1})
    <3>1. \A k \in 1 .. i - 1 : k \in s
      BY <1>1, <1>3 DEF Bit
    <3>2. i \in Xor(s, {1}) <=> i > 1
      BY <1>1, <1>3 DEF Xor, Bit
    <3> QED
      BY <1>2, <3>1, <3>2
  <2> QED
    BY <2>1 DEF Add
<1>4. ASSUME Add(s, {1}) = {}, s # Bit \ {0} PROVE FALSE
  <2> DEFINE M == {i \in Bit : i > 0 /\ i \notin s}
  <2>1. M # {} /\ M \in SUBSET Nat
    <3>1. s \subseteq Bit \ {0}
      BY DEF Word
    <3>2. PICK i \in Bit \ {0} : i \notin s
      BY <1>4, <3>1
    <3>3. i > 0 /\ Bit \subseteq Nat
      BY <1>1 DEF Bit
    <3> QED
      BY <3>2, <3>3
  <2>2. PICK i \in M : \A k \in M : i <= k
    <3> HIDE DEF M
    <3> QED
      BY <2>1, LeastNatural
  <2>3. \A k \in 1 .. i - 1 : k \in s
    BY <1>1, <2>2 DEF Bit
  <2>4. CarryInto(i, s, {1}) <=> i > 1
    BY <1>2, <2>3
  <2>5. i \in Xor(s, {1}) <=> i = 1
    BY <2>2 DEF Xor
  <2>6. i \in Nat /\ i > 0
    BY <1>1 DEF Bit
  <2> QED
    BY <1>4, <2>4, <2>5, <2>6 DEF Add
<1> QED
  BY <1>3, <1>4

\* isTmax: x + x + 2 is 0 for the greatest int and for -1 alone.
THEOREM IsTmaxRight == \A x \in Word : isTmax(x) = test_isTmax(x)
<1> SUFFICES ASSUME NEW x \in Word PROVE isTmax(x) = test_isTmax(x)
  OBVIOUS
<1>1. PICK s \in Word : s = Add(x, x) /\ s = {i \in Bit : i > 0 /\ i - 1 \in x}
  BY AddTwice, AddIsWord
<1>2. 0 \notin s
  BY <1>1
<1>3. Add(s, {1}) = {} <=> s = Bit \ {0}
  BY <1>2, AddTwoIsZero
<1>4. Bit = 0 .. Sign /\ Sign \in Nat \ {0}
  BY WAssumption DEF Bit, Sign
<1>5. s = Bit \ {0} <=> \A k \in 0 .. Sign - 1 : k \in x
  <2>1. ASSUME s = Bit \ {0}, NEW k \in 0 .. Sign - 1 PROVE k \in x
    <3>1. k + 1 \in Bit \ {0} /\ (k + 1) - 1 = k
      BY <1>4
    <3> QED
      BY <1>1, <2>1, <3>1
  <2>2. ASSUME \A k \in 0 .. Sign - 1 : k \in x, NEW i \in Bit, i # 0 PROVE i \in s
    <3>1. i > 0 /\ i - 1 \in 0 .. Sign - 1
      BY <1>4, <2>2
    <3> QED
      BY <1>1, <2>2, <3>1
  <2> QED
    BY <1>1, <1>2, <2>1, <2>2
<1>6. (\A k \in 0 .. Sign - 1 : k \in x) /\ Not(x) # {} <=> x = Bit \ {Sign}
  <2>1. x \subseteq Bit /\ \A k : k \in Bit <=> k \in 0 .. Sign - 1 \/ k = Sign
    BY <1>4 DEF Word
  <2>2. Sign \notin 0 .. Sign - 1
    BY <1>4
  <2> QED
    BY <2>1, <2>2 DEF Not
<1> QED
  BY <1>1, <1>3, <1>5, <1>6 DEF isTmax, test_isTmax, LNot, Or, Bool

-----------------------------------------------------------------------------
(* Subtraction borrows where addition carries. *)

\* The borrow of x - y into position i.
BorrowInto(i, x, y) ==
    \E j \in 0 .. i - 1 : /\ j \in y \ x
                          /\ \A k \in j + 1 .. i - 1 : k \notin x \ y

\* A negative word keeps its lowest 1; above it all positions change.
LEMMA MinusIs ==
    ASSUME NEW y \in Word, NEW i \in Bit
    PROVE  i \in Minus(y) <=> (i \in y <=> \A k \in 0 .. i - 1 : k \notin y)
<1>1. i \in Nat /\ i < W /\ W \in Nat
  BY WAssumption DEF Bit
<1>2. CarryInto(i, Not(y), {0}) <=> i > 0 /\ \A k \in 0 .. i - 1 : k \notin y
  <2>1. ASSUME CarryInto(i, Not(y), {0}) PROVE i > 0 /\ \A k \in 0 .. i - 1 : k \notin y
    <3>1. 0 \in 0 .. i - 1 /\ 0 \notin y /\ \A k \in 0 + 1 .. i - 1 : k \notin y
      BY <1>1, <2>1 DEF CarryInto, Not
    <3>2. \A k \in 0 .. i - 1 : k = 0 \/ k \in 0 + 1 .. i - 1
      BY <1>1
    <3> QED
      BY <1>1, <3>1, <3>2
  <2>2. ASSUME i > 0, \A k \in 0 .. i - 1 : k \notin y PROVE CarryInto(i, Not(y), {0})
    <3>1. 0 \in 0 .. i - 1 /\ 0 \in Bit /\ \A k \in 0 + 1 .. i - 1 : k \in 0 .. i - 1 /\ k \in Bit
      BY <1>1, <2>2 DEF Bit
    <3> QED
      BY <2>2, <3>1 DEF CarryInto, Not
  <2> QED
    BY <2>1, <2>2
<1>3. CASE i = 0
  <2>1. i \in Xor(Not(y), {0}) <=> i \in y
    BY <1>3 DEF Xor, Not
  <2>2. \A k \in 0 .. i - 1 : k \notin y
    BY <1>3
  <2> QED
    BY <1>2, <1>3, <2>1, <2>2 DEF Minus, Add
<1>4. CASE i # 0
  <2>1. i \in Xor(Not(y), {0}) <=> i \notin y
    BY <1>4 DEF Xor, Not
  <2> QED
    BY <1>1, <1>2, <1>4, <2>1 DEF Minus, Add
<1> QED
  BY <1>3, <1>4

\* Above the lowest 1 of y, x - y borrows exactly where x + ~y + 1 does not carry.
LEMMA CarryIsNoBorrow ==
    ASSUME NEW x \in Word, NEW y \in Word, NEW i \in Bit, NEW l \in 0 .. i - 1,
           l \in y, \A k \in 0 .. l - 1 : k \notin y
    PROVE  CarryInto(i, x, Minus(y)) <=> ~BorrowInto(i, x, y)
<1> DEFINE n == Minus(y)
           D == {k \in l + 1 .. i - 1 : k \in Xor(x, y)}
<1>1. i \in Nat /\ l \in Nat /\ l < i /\ \A k \in 0 .. i - 1 : k \in Bit
  BY WAssumption DEF Bit
<1>2. /\ l \in n /\ (\A k \in 0 .. l - 1 : k \notin n)
      /\ \A k \in l + 1 .. i - 1 : k \in n <=> k \notin y
  <2>1. l \in n
    BY <1>1, MinusIs
  <2>2. ASSUME NEW k \in 0 .. l - 1 PROVE k \notin n
    <3>1. k \in Bit /\ k \notin y /\ \A m \in 0 .. k - 1 : m \notin y
      BY <1>1
    <3> QED
      BY <3>1, MinusIs
  <2>3. ASSUME NEW k \in l + 1 .. i - 1 PROVE k \in n <=> k \notin y
    <3>1. k \in Bit /\ l \in 0 .. k - 1
      BY <1>1
    <3> QED
      BY <3>1, MinusIs
  <2> QED
    BY <2>1, <2>2, <2>3
<1> HIDE DEF n
<1>3. CASE D = {}
  <2>1. \A k \in l + 1 .. i - 1 : k \notin x \cap n /\ k \in x \cup n /\ k \notin x \ y /\ k \notin y \ x
    BY <1>2, <1>3 DEF Xor
  <2>2. \A j \in 0 .. i - 1 : j \in 0 .. l - 1 \/ j = l \/ j \in l + 1 .. i - 1
    BY <1>1
  <2>3. CarryInto(i, x, n) <=> l \in x
    BY <1>2, <2>1, <2>2 DEF CarryInto
  <2>4. BorrowInto(i, x, y) <=> l \notin x
    BY <2>1, <2>2 DEF BorrowInto
  <2> QED
    BY <2>3, <2>4 DEF n
<1>4. CASE D # {}
  <2>1. PICK d \in D : \A k \in D : k <= d
    <3>1. D \in SUBSET Nat /\ i \in Nat /\ \A k \in D : k <= i
      BY <1>1
    <3> HIDE DEF D
    <3> QED
      BY <1>4, <3>1, GreatestNatural
  <2>2. d \in Nat /\ l < d /\ d < i
    BY <1>1
  <2>3. ASSUME NEW k \in d + 1 .. i - 1
        PROVE  k \notin x \cap n /\ k \in x \cup n /\ k \notin x \ y /\ k \notin y \ x
    <3>1. k \in l + 1 .. i - 1 /\ ~(k <= d)
      BY <1>1, <2>2
    <3>2. k \notin Xor(x, y)
      BY <2>1, <3>1
    <3> QED
      BY <1>2, <3>1, <3>2 DEF Xor
  <2>4. d \in 0 .. i - 1 /\ \A j \in 0 .. i - 1 : d \in j + 1 .. i - 1 \/ j = d \/ j \in d + 1 .. i - 1
    BY <1>1, <2>2
  <2>5. CASE d \in x
    <3>1. d \in x \cap n /\ d \in x \ y
      BY <1>2, <2>5 DEF Xor
    <3>2. CarryInto(i, x, n)
      BY <2>3, <2>4, <3>1 DEF CarryInto
    <3>3. ~BorrowInto(i, x, y)
      BY <2>3, <2>4, <3>1 DEF BorrowInto
    <3> QED
      BY <3>2, <3>3 DEF n
  <2>6. CASE d \notin x
    <3>1. d \notin x \cup n /\ d \in y \ x
      BY <1>2, <2>6 DEF Xor
    <3>2. ~CarryInto(i, x, n)
      BY <2>3, <2>4, <3>1 DEF CarryInto
    <3>3. BorrowInto(i, x, y)
      BY <2>3, <2>4, <3>1 DEF BorrowInto
    <3> QED
      BY <3>2, <3>3 DEF n
  <2> QED
    BY <2>5, <2>6
<1> QED
  BY <1>3, <1>4

LEMMA SubtractionIs ==
    ASSUME NEW x \in Word, NEW y \in Word, NEW i \in Bit
    PROVE  i \in Add(x, Minus(y)) <=> ~(i \in Xor(x, y) <=> BorrowInto(i, x, y))
<1>1. i \in Nat
  BY WAssumption DEF Bit
<1>2. CASE \A k \in 0 .. i - 1 : k \notin y
  <2>1. \A k \in 0 .. i - 1 : k \notin Minus(y)
    <3> SUFFICES ASSUME NEW k \in 0 .. i - 1 PROVE k \notin Minus(y)
      OBVIOUS
    <3>1. k \in Bit /\ \A m \in 0 .. k - 1 : m \in 0 .. i - 1
      BY <1>1, WAssumption DEF Bit
    <3>2. k \notin y /\ \A m \in 0 .. k - 1 : m \notin y
      BY <1>2, <3>1
    <3> QED
      BY <3>1, <3>2, MinusIs
  <2>2. ~CarryInto(i, x, Minus(y)) /\ ~BorrowInto(i, x, y)
    BY <1>2, <2>1 DEF CarryInto, BorrowInto
  <2>3. i \in Minus(y) <=> i \in y
    BY <1>2, MinusIs
  <2> QED
    BY <2>2, <2>3 DEF Add, Xor
<1>3. CASE \E k \in 0 .. i - 1 : k \in y
  <2> DEFINE Y == {k \in 0 .. i - 1 : k \in y}
  <2>1. PICK l \in Y : \A k \in Y : l <= k
    <3>1. Y \in SUBSET Nat /\ Y # {}
      BY <1>1, <1>3
    <3> HIDE DEF Y
    <3> QED
      BY <3>1, LeastNatural
  <2>2. l \in 0 .. i - 1 /\ l \in y
    OBVIOUS
  <2>3. \A k \in 0 .. l - 1 : k \notin y
    BY <1>1, <2>1
  <2>4. CarryInto(i, x, Minus(y)) <=> ~BorrowInto(i, x, y)
    BY <2>2, <2>3, CarryIsNoBorrow
  <2>5. i \in Minus(y) <=> i \notin y
    BY <1>3, MinusIs
  <2> QED
    BY <2>4, <2>5 DEF Add, Xor
<1> QED
  BY <1>2, <1>3

\* What the difference tells: it is 0 for equal words, and for words of the same sign it is
\* negative exactly if the first is the smaller one.
LEMMA DifferenceTells ==
    ASSUME NEW x \in Word, NEW y \in Word
    PROVE  /\ Add(x, Minus(y)) = {} <=> x = y
           /\ (Sign \in x <=> Sign \in y) => (Sign \in Add(x, Minus(y)) <=> x # y /\ Leq(x, y))
<1> DEFINE D == Xor(x, y)
<1>1. D \in SUBSET Nat /\ D \subseteq Bit /\ (D = {} <=> x = y)
  <2>1. D \subseteq Bit /\ Bit \subseteq Nat
    BY WAssumption DEF Word, Bit, Xor
  <2>2. D = {} <=> x = y
    BY DEF Xor
  <2> QED
    BY <2>1, <2>2
<1>2. ASSUME x = y PROVE Add(x, Minus(y)) = {}
  <2>1. ASSUME NEW i \in Bit PROVE ~BorrowInto(i, x, y) /\ i \notin Xor(x, y)
    BY <1>2 DEF BorrowInto, Xor
  <2>2. \A i \in Bit : i \notin Add(x, Minus(y))
    BY <2>1, SubtractionIs
  <2> QED
    BY <2>2 DEF Add
<1>3. ASSUME x # y PROVE Add(x, Minus(y)) # {}
  <2>1. PICK d \in D : \A k \in D : d <= k
    <3> HIDE DEF D
    <3> QED
      BY <1>1, <1>3, LeastNatural
  <2>2. ~BorrowInto(d, x, y)
    <3>1. \A j \in 0 .. d - 1 : j \notin D
      BY <1>1, <2>1
    <3> QED
      BY <3>1 DEF BorrowInto, Xor
  <2>3. d \in Bit
    BY <1>1
  <2> QED
    BY <2>2, <2>3, SubtractionIs
<1>4. ASSUME Sign \in x <=> Sign \in y, x # y
      PROVE  Sign \in Add(x, Minus(y)) <=> Leq(x, y)
  <2>1. Sign \notin D /\ Sign \in Bit /\ Bit = 0 .. Sign /\ Sign \in Nat
    BY <1>4, WAssumption DEF Xor, Bit, Sign
  <2>2. PICK d \in D : \A k \in D : k <= d
    <3>1. \A k \in D : k <= Sign
      BY <1>1, <2>1
    <3> HIDE DEF D
    <3> QED
      BY <1>1, <1>4, <2>1, <3>1, GreatestNatural
  <2>3. d \in 0 .. Sign - 1 /\ d # Sign
    BY <1>1, <2>1
  <2>4. Leq(x, y) <=> d \in y
    <3>1. \A e \in D : (\A k \in D : k <= e) => e = d
      BY <1>1, <2>2
    <3> QED
      BY <1>4, <2>2, <2>3, <3>1 DEF Leq
  <2>5. BorrowInto(Sign, x, y) <=> d \in y
    <3>1. \A k \in d + 1 .. Sign - 1 : k \notin D
      BY <1>1, <2>2
    <3>2. \A j \in 0 .. Sign - 1 : d \in j + 1 .. Sign - 1 \/ j = d \/ j \in d + 1 .. Sign - 1
      BY <2>1, <2>3
    <3>3. ASSUME d \in y PROVE BorrowInto(Sign, x, y)
      <4>1. d \in y \ x /\ \A k \in d + 1 .. Sign - 1 : k \notin x \ y
        BY <3>1, <3>3 DEF Xor
      <4> QED
        BY <2>3, <4>1 DEF BorrowInto
    <3>4. ASSUME d \notin y PROVE ~BorrowInto(Sign, x, y)
      <4>1. d \in x \ y /\ \A k \in d + 1 .. Sign - 1 : k \notin y \ x
        BY <3>1, <3>4 DEF Xor
      <4> QED
        BY <3>2, <4>1 DEF BorrowInto
    <3> QED
      BY <3>3, <3>4
  <2> QED
    BY <2>1, <2>4, <2>5, SubtractionIs
<1> QED
  BY <1>2, <1>3, <1>4

\* Which sums with 2 are 0 that isLessOrEqual makes of a sign.
LEMMA TwoPlus ==
    /\ Add({1}, {}) = {1} /\ Add({1}, Bit) # {} /\ Add({1}, Bit \ {0}) = {}
<1>1. 0 \in Bit /\ 1 \in Bit /\ {1} \in Word /\ Bit \subseteq Nat
  BY WAssumption DEF Bit, Word
<1>2. Add({1}, {}) = {1}
  BY <1>1, AddZero
<1>3. Add({1}, Bit) # {}
  <2>1. ~CarryInto(0, {1}, Bit)
    BY DEF CarryInto
  <2>2. 0 \in Xor({1}, Bit)
    BY <1>1 DEF Xor
  <2> QED
    BY <1>1, <2>1, <2>2 DEF Add
<1>4. ASSUME NEW i \in Bit
      PROVE  i \in Xor({1}, Bit \ {0}) <=> CarryInto(i, {1}, Bit \ {0})
  <2>1. i \in Nat
    BY <1>1
  <2>2. CASE i > 1
    <3>1. 1 \in 0 .. i - 1 /\ \A k \in 1 + 1 .. i - 1 : k \in Bit \ {0}
      BY <2>2, WAssumption DEF Bit
    <3>2. CarryInto(i, {1}, Bit \ {0})
      BY <1>1, <3>1 DEF CarryInto
    <3> QED
      BY <2>2, <3>2 DEF Xor
  <2>3. CASE ~(i > 1)
    <3>1. 1 \notin 0 .. i - 1
      BY <2>1, <2>3
    <3>2. ~CarryInto(i, {1}, Bit \ {0})
      BY <3>1 DEF CarryInto
    <3>3. i = 0 \/ i = 1
      BY <2>1, <2>3
    <3> QED
      BY <1>1, <3>2, <3>3 DEF Xor
  <2> QED
    BY <2>2, <2>3
<1>5. Add({1}, Bit \ {0}) = {}
  BY <1>4 DEF Add
<1> QED
  BY <1>2, <1>3, <1>5

\* isLessOrEqual: x - y is looked at only if it cannot overflow.
THEOREM IsLessOrEqualRight ==
    \A x, y \in Word : isLessOrEqual(x, y) = test_isLessOrEqual(x, y)
<1> SUFFICES ASSUME NEW x \in Word, NEW y \in Word
             PROVE  isLessOrEqual(x, y) = test_isLessOrEqual(x, y)
  OBVIOUS
<1>1. PICK a \in Word : a = Add(x, Minus(y))
  BY AddIsWord
<1>2. PICK c, sx, sy : /\ c = Sar(a, Sign) /\ c = (IF Sign \in a THEN Bit ELSE {})
                       /\ sx = Sar(x, Sign) /\ sx = (IF Sign \in x THEN Bit ELSE {})
                       /\ sy = Sar(y, Sign) /\ sy = (IF Sign \in y THEN Bit ELSE {})
  BY SignSpread
<1>3. PICK e, d : e = Or(Add(sy, {0}), sx) /\ d = Or(Add(sx, {0}), sy)
  OBVIOUS
<1>4. Add({}, {0}) = {0} /\ Add(Bit, {0}) = {} /\ Bit # {} /\ 0 \in Bit
  <2>1. {0} \in Word
    BY Positions DEF Word
  <2> QED
    BY <2>1, AddZero, OnesPlusOne, Positions
<1>5. (e = {} <=> Sign \in y /\ Sign \notin x) /\ (d = {} <=> Sign \in x /\ Sign \notin y)
  BY <1>2, <1>3, <1>4 DEF Or
<1>6. PICK f : f = Add({1}, And(c, Not(LNot(LNot(e)))))
  OBVIOUS
<1>7. f = {} <=> Sign \in a /\ e # {}
  <2>1. LNot(LNot(e)) = IF e = {} THEN {} ELSE {0}
    BY DEF LNot
  <2>2. And(c, Not(LNot(LNot(e)))) = IF Sign \in a THEN (IF e = {} THEN Bit ELSE Bit \ {0}) ELSE {}
    BY <1>2, <2>1 DEF And, Not
  <2> QED
    BY <1>6, <2>2, TwoPlus
<1>8. isLessOrEqual(x, y) = Bool(a = {} \/ f = {} \/ d = {})
  <2>1. isLessOrEqual(x, y) = Or(Or(LNot(a), LNot(f)), LNot(d))
    BY <1>1, <1>2, <1>3, <1>6 DEF isLessOrEqual, Minus
  <2> QED
    BY <2>1 DEF Or, LNot, Bool
<1>9. a = {} \/ f = {} \/ d = {} <=> Leq(x, y)
  <2>1. CASE Sign \in x <=> Sign \in y
    <3>1. a = {} <=> x = y
      BY <1>1, DifferenceTells
    <3>2. Sign \in a <=> x # y /\ Leq(x, y)
      BY <1>1, <2>1, DifferenceTells
    <3>3. x = y => Leq(x, y)
      BY DEF Leq
    <3> QED
      BY <1>5, <1>7, <2>1, <3>1, <3>2, <3>3
  <2>2. CASE ~(Sign \in x <=> Sign \in y)
    <3>1. Sign \in Xor(x, y) /\ x # y
      BY <2>2 DEF Xor
    <3>2. \A k \in Xor(x, y) : k <= Sign /\ (Sign <= k => k = Sign)
      BY WAssumption DEF Xor, Word, Bit, Sign
    <3>3. Leq(x, y) <=> Sign \in x
      BY <3>1, <3>2 DEF Leq
    <3>4. a # {}
      BY <1>1, <3>1, DifferenceTells
    <3> QED
      BY <1>5, <1>7, <2>2, <3>3, <3>4
  <2> QED
    BY <2>1, <2>2
<1> QED
  BY <1>8, <1>9 DEF test_isLessOrEqual, Bool

-----------------------------------------------------------------------------
(* isAsciiDigit *)

\* The numbers isAsciiDigit is written with, in words that can hold them.
Digits ==
    W > 6 /\ Num(6) = {1, 2} /\ Num(48) = {4, 5} /\ Num(56) = {3, 4, 5} /\ Num(57) = {0, 3, 4, 5}

\* A word between two others with no position above 5 has none.
LEMMA DigitIsShort ==
    ASSUME Digits, NEW x \in Word, Leq(Num(48), x), Leq(x, Num(57))
    PROVE  x \subseteq 0 .. 5
<1>1. Bit = 0 .. Sign /\ Sign \in Nat /\ Sign >= 6
  BY WAssumption DEF Digits, Bit, Sign
<1> DEFINE H == {k \in x : k > 5}
<1>2. SUFFICES ASSUME H # {} PROVE FALSE
  BY <1>1 DEF Word
<1>3. PICK m \in H : \A k \in H : k <= m
  <2>1. H \in SUBSET Nat /\ \A k \in H : k <= Sign
    <3>1. H \subseteq 0 .. Sign
      BY <1>1 DEF Word
    <3> HIDE DEF H
    <3> QED
      BY <1>1, <3>1
  <2> HIDE DEF H
  <2> QED
    BY <1>1, <1>2, <2>1, GreatestNatural
<1>4. m \in Nat /\ m > 5 /\ m \in x /\ x \subseteq Nat
  BY <1>1 DEF Word
<1>5. ASSUME NEW y, y \in SUBSET (0 .. 5), NEW d, \A k \in Xor(x, y) \cup Xor(y, x) : k <= d,
             d \in Xor(x, y) \cup Xor(y, x)
      PROVE  d = m
  <2>1. m \in Xor(x, y) /\ d \in Nat
    BY <1>4, <1>5 DEF Xor
  <2>2. m <= d
    BY <1>5, <2>1
  <2>3. d \in H
    BY <1>4, <1>5, <2>1, <2>2 DEF Xor
  <2>4. d <= m
    BY <1>3, <2>3
  <2> QED
    BY <1>4, <2>1, <2>2, <2>4
<1>6. {4, 5} \in SUBSET (0 .. 5) /\ {0, 3, 4, 5} \in SUBSET (0 .. 5)
  OBVIOUS
<1>7. m # Sign
  <2>1. {4, 5} # x
    BY <1>4
  <2>2. PICK d \in Xor({4, 5}, x) : /\ \A k \in Xor({4, 5}, x) : k <= d
                                    /\ d \in (IF d = Sign THEN {4, 5} ELSE x)
    BY <2>1 DEF Leq, Digits
  <2>3. Xor({4, 5}, x) = Xor({4, 5}, x) \cup Xor(x, {4, 5})
    BY DEF Xor
  <2>4. d = m
    BY <1>5, <1>6, <2>2, <2>3
  <2> QED
    BY <1>1, <2>2, <2>4
<1>8. m = Sign
  <2>1. {0, 3, 4, 5} # x
    BY <1>4
  <2>2. PICK d \in Xor(x, {0, 3, 4, 5}) :
               /\ \A k \in Xor(x, {0, 3, 4, 5}) : k <= d
               /\ d \in (IF d = Sign THEN x ELSE {0, 3, 4, 5})
    BY <2>1 DEF Leq, Digits
  <2>3. Xor(x, {0, 3, 4, 5}) = Xor(x, {0, 3, 4, 5}) \cup Xor({0, 3, 4, 5}, x)
    BY DEF Xor
  <2>4. d = m
    BY <1>5, <1>6, <2>2, <2>3
  <2> QED
    BY <1>4, <2>2, <2>4
<1> QED
  BY <1>7, <1>8

\* What it is to lie between 48 and 57.
IsDigit(x) == x \subseteq 0 .. 5 /\ 4 \in x /\ 5 \in x /\ (3 \in x => 1 \notin x /\ 2 \notin x)

LEMMA DigitsAre ==
    ASSUME Digits, NEW x \in Word
    PROVE  Leq(Num(48), x) /\ Leq(x, Num(57)) <=> IsDigit(x)
<1>1. Sign \in Nat /\ Sign >= 6
  BY WAssumption DEF Digits, Sign
<1>2. ASSUME Leq(Num(48), x), Leq(x, Num(57)) PROVE IsDigit(x)
  <2>1. x \subseteq 0 .. 5
    BY <1>2, DigitIsShort
  <2>2. 5 \in x /\ 4 \in x
    <3>1. CASE x = {4, 5}
      BY <3>1
    <3>2. CASE x # {4, 5}
      <4>1. PICK d \in Xor({4, 5}, x) : /\ \A k \in Xor({4, 5}, x) : k <= d
                                        /\ d \in (IF d = Sign THEN {4, 5} ELSE x)
        BY <1>2, <3>2 DEF Leq, Digits
      <4>2. d \in 0 .. 5 /\ d \in x /\ d \notin {4, 5}
        BY <1>1, <2>1, <4>1 DEF Xor
      <4>3. 4 \notin Xor({4, 5}, x) /\ 5 \notin Xor({4, 5}, x)
        BY <4>1, <4>2
      <4> QED
        BY <4>3 DEF Xor
    <3> QED
      BY <3>1, <3>2
  <2>3. ASSUME 3 \in x PROVE 1 \notin x /\ 2 \notin x
    <3>1. CASE x = {0, 3, 4, 5}
      BY <3>1
    <3>2. CASE x # {0, 3, 4, 5}
      <4>1. PICK d \in Xor(x, {0, 3, 4, 5}) :
                 /\ \A k \in Xor(x, {0, 3, 4, 5}) : k <= d
                 /\ d \in (IF d = Sign THEN x ELSE {0, 3, 4, 5})
        BY <1>2, <3>2 DEF Leq, Digits
      <4>2. d \in 0 .. 5 /\ d \in {0, 3, 4, 5} /\ d \notin x
        BY <1>1, <2>1, <4>1 DEF Xor
      <4>3. d = 0
        BY <2>2, <2>3, <4>2
      <4> QED
        BY <4>1, <4>3 DEF Xor
    <3> QED
      BY <3>1, <3>2
  <2> QED
    BY <2>1, <2>2, <2>3 DEF IsDigit
<1>3. ASSUME IsDigit(x) PROVE Leq(Num(48), x)
  <2>1. CASE x = {4, 5}
    BY <2>1 DEF Leq, Digits
  <2>2. CASE x # {4, 5}
    <3>1. Xor({4, 5}, x) \in SUBSET Nat /\ Xor({4, 5}, x) # {} /\ Xor({4, 5}, x) \subseteq x
          /\ Xor({4, 5}, x) \subseteq 0 .. 5
      BY <1>3, <2>2 DEF IsDigit, Xor
    <3>2. \A k \in Xor({4, 5}, x) : k <= 5
      BY <3>1
    <3>3. PICK d \in Xor({4, 5}, x) : \A k \in Xor({4, 5}, x) : k <= d
      BY <3>1, <3>2, GreatestNatural
    <3>4. d # Sign /\ d \in x
      BY <1>1, <3>1
    <3>5. Leq({4, 5}, x)
      BY <3>3, <3>4 DEF Leq
    <3> QED
      BY <3>5 DEF Digits
  <2> QED
    BY <2>1, <2>2
<1>4. ASSUME IsDigit(x) PROVE Leq(x, Num(57))
  <2> DEFINE D == Xor(x, {0, 3, 4, 5})
  <2>1. CASE x = {0, 3, 4, 5}
    BY <2>1 DEF Leq, Digits
  <2>2. CASE x # {0, 3, 4, 5}
    <3>1. D \subseteq 0 .. 3 /\ 4 \notin D /\ 5 \notin D
      <4> SUFFICES ASSUME NEW k \in D PROVE k \in 0 .. 3
        BY <1>3
      <4>1. k \in 0 .. 5 /\ k # 4 /\ k # 5
        BY <1>4 DEF IsDigit, Xor
      <4> QED
        BY <4>1
    <3>2. PICK d \in D : (\A k \in D : k <= d) /\ d \in {0, 3}
      <4>1. CASE 3 \notin x
        <5>1. 3 \in D /\ \A k \in D : k <= 3
          BY <3>1, <4>1 DEF Xor
        <5> QED
          BY <5>1
      <4>2. CASE 3 \in x
        <5>1. 1 \notin D /\ 2 \notin D /\ 3 \notin D
          BY <1>4, <4>2 DEF IsDigit, Xor
        <5>2. \A k \in D : k = 0
          BY <3>1, <5>1
        <5>3. D # {}
          BY <2>2 DEF Xor
        <5> QED
          BY <5>2, <5>3
      <4> QED
        BY <4>1, <4>2
    <3>3. d # Sign
      BY <1>1, <3>2
    <3>4. Leq(x, {0, 3, 4, 5})
      BY <3>2, <3>3 DEF Leq
    <3> QED
      BY <3>4 DEF Digits
  <2> QED
    BY <2>1, <2>2
<1> QED
  BY <1>2, <1>3, <1>4

\* isAsciiDigit: 48 to 55 agree but for their last three bits, 56 and 57 are looked at apart.
THEOREM IsAsciiDigitRight ==
    ASSUME Digits
    PROVE  \A x \in Word : isAsciiDigit(x) = test_isAsciiDigit(x)
<1> SUFFICES ASSUME NEW x \in Word PROVE isAsciiDigit(x) = test_isAsciiDigit(x)
  OBVIOUS
<1>1. Sign \in Nat /\ Sign >= 6 /\ W = Sign + 1 /\ Bit = 0 .. Sign
  BY WAssumption DEF Digits, Sign, Bit
<1>2. isAsciiDigit(x) = Bool(Sar(x, 3) = {1, 2} \/ x = {3, 4, 5} \/ x = {0, 3, 4, 5})
  <2>1. \A u, v : Xor(u, v) = {} <=> u = v
    BY DEF Xor
  <2> QED
    BY <2>1 DEF isAsciiDigit, Digits, Or, LNot, Bool
<1>3. Sar(x, 3) = {1, 2} <=> x \subseteq 0 .. 5 /\ 3 \notin x /\ 4 \in x /\ 5 \in x
  <2>1. ASSUME Sar(x, 3) = {1, 2} PROVE x \subseteq 0 .. 5 /\ 3 \notin x /\ 4 \in x /\ 5 \in x
    <3>1. \A i \in Bit : (IF i + 3 < W THEN i + 3 ELSE Sign) \in x <=> i = 1 \/ i = 2
      BY <2>1 DEF Sar
    <3>2. 0 \in Bit /\ 1 \in Bit /\ 2 \in Bit /\ 0 + 3 < W /\ 1 + 3 < W /\ 2 + 3 < W
      BY <1>1
    <3>3. 3 \notin x /\ 4 \in x /\ 5 \in x
      BY <3>1, <3>2
    <3>4. ASSUME NEW k \in Bit, k >= 6 PROVE k \notin x
      <4>1. k - 3 \in Bit /\ (k - 3) + 3 < W /\ (k - 3) + 3 = k /\ k - 3 # 1 /\ k - 3 # 2
        BY <1>1, <3>4
      <4> QED
        BY <3>1, <4>1
    <3>5. x \subseteq Bit
      BY DEF Word
    <3> QED
      BY <1>1, <3>3, <3>4, <3>5
  <2>2. ASSUME x \subseteq 0 .. 5, 3 \notin x, 4 \in x, 5 \in x PROVE Sar(x, 3) = {1, 2}
    <3>1. ASSUME NEW i \in Bit
          PROVE  (IF i + 3 < W THEN i + 3 ELSE Sign) \in x <=> i = 1 \/ i = 2
      <4>1. CASE i + 3 < W
        <5>1. i \in Nat /\ (i + 3 \in x <=> i + 3 = 4 \/ i + 3 = 5)
          <6>1. i \in Nat
            BY <1>1
          <6>2. i + 3 \in 0 .. 5 => i + 3 = 3 \/ i + 3 = 4 \/ i + 3 = 5
            BY <6>1
          <6> QED
            BY <2>2, <6>1, <6>2
        <5> QED
          BY <4>1, <5>1
      <4>2. CASE ~(i + 3 < W)
        <5>1. Sign \notin x /\ i # 1 /\ i # 2
          BY <1>1, <2>2, <4>2
        <5> QED
          BY <4>2, <5>1
      <4> QED
        BY <4>1, <4>2
    <3>2. 1 \in Bit /\ 2 \in Bit
      BY <1>1
    <3> QED
      BY <3>1, <3>2 DEF Sar
  <2> QED
    BY <2>1, <2>2
<1>4. Sar(x, 3) = {1, 2} \/ x = {3, 4, 5} \/ x = {0, 3, 4, 5} <=> IsDigit(x)
  <2>1. ASSUME IsDigit(x), 3 \in x PROVE x = {3, 4, 5} \/ x = {0, 3, 4, 5}
    <3>1. \A k \in 0 .. 5 : k \in {0, 1, 2, 3, 4, 5}
      OBVIOUS
    <3>2. x \subseteq {0, 3, 4, 5} /\ {3, 4, 5} \subseteq x
      BY <2>1, <3>1 DEF IsDigit
    <3> QED
      BY <3>2
  <2>2. x = {3, 4, 5} \/ x = {0, 3, 4, 5} => IsDigit(x)
    BY DEF IsDigit
  <2> QED
    BY <1>3, <2>1, <2>2 DEF IsDigit
<1>5. test_isAsciiDigit(x) = Bool(IsDigit(x))
  BY DigitsAre DEF test_isAsciiDigit, Bool
<1> QED
  BY <1>2, <1>4, <1>5 DEF Bool

-----------------------------------------------------------------------------
(* The cycle counter. *)

Counters == (0 .. HalfWord - 1) \X (0 .. HalfWord - 1)

\* The counter counts, however its halves wrap.
LEMMA LaterCounts ==
    ASSUME NEW c \in Counters, NEW n \in Nat
    PROVE  Later(c, n) \in Counters
<1>1. PICK H \in Nat \ {0} : H = HalfWord
  BY TimingAssumption
<1>2. PICK x \in Nat : x = c[2] + n
  BY <1>1 DEF Counters
<1>3. PICK q \in Nat, r \in Nat : r < H /\ q = x \div H /\ r = x % H
  BY ONLY <1>1, <1>2, DivisionIs
<1>4. PICK y \in Nat : y = c[1] + q
  BY <1>1, <1>3 DEF Counters
<1>5. PICK p \in Nat, u \in Nat : u < H /\ u = y % H
  BY ONLY <1>1, <1>4, DivisionIs
<1>6. Later(c, n) = <<u, r>>
  BY <1>1, <1>2, <1>3, <1>4, <1>5 DEF Later
<1> QED
  BY <1>1, <1>3, <1>5, <1>6 DEF Counters

\* What a remainder is that is off by at most one modulus.
LEMMA OffByOne ==
    ASSUME NEW d \in Nat \ {0}, NEW q \in Nat, q < d, NEW x \in Int, x = q \/ x = q + d \/ x = q - d
    PROVE  x % d = q
<1>1. CASE x = q
  BY <1>1
<1>2. CASE x = q + d
  BY <1>2
<1>3. CASE x = q - d
  BY <1>3
<1> QED
  BY <1>1, <1>2, <1>3

LEMMA CounterIs ==
    ASSUME cyc \in Counters, NEW n \in Nat, n < HalfWord * HalfWord
    PROVE  get_counter(Later(cyc, n)) = n
<1>1. PICK H \in Nat \ {0} : H = HalfWord
  BY TimingAssumption
<1>2. PICK a \in Nat, r \in Nat : a < H /\ r < H /\ a = cyc[1] /\ r = cyc[2]
  BY <1>1 DEF Counters
<1>3. PICK q \in Nat, m \in Nat : m < H /\ n = H * q + m
  <2>1. PICK z \in Nat : z = n
    OBVIOUS
  <2>2. PICK q \in Nat, m \in Nat : q = z \div H /\ m = z % H /\ m < H /\ z = H * q + m
    BY ONLY <1>1, <2>1, DivisionIs
  <2> QED
    BY <2>1, <2>2
<1>4. q < H
  <2>1. SUFFICES ASSUME q >= H PROVE FALSE
    BY <1>1, <1>3
  <2>2. PICK e \in Nat : q = H + e
    <3>1. q - H \in Nat /\ q = H + (q - H)
      BY <1>1, <2>1
    <3> QED
      BY <3>1
  <2>3. H * q = H * H + H * e /\ H * e \in Nat /\ H * H \in Nat
    BY <1>1, <2>2
  <2> QED
    BY <1>1, <1>3, <2>3
<1>5. PICK x \in Nat : x = r + n
  BY <1>2
<1>6. PICK k \in Nat, l \in Nat : k = x \div H /\ l = x % H /\ l < H /\ x = H * k + l
  BY ONLY <1>1, <1>5, DivisionIs
<1>7. \/ k = q /\ l = r + m
      \/ k = q + 1 /\ l = r + m - H
  <2>1. PICK b \in {0, 1}, c \in Nat : c < H /\ r + m = H * b + c
    <3>1. CASE r + m < H
      <4>1. r + m = H * 0 + (r + m)
        BY <1>1, <1>2, <1>3
      <4> QED
        BY <1>2, <1>3, <3>1, <4>1
    <3>2. CASE r + m >= H
      <4>1. r + m = H * 1 + (r + m - H) /\ r + m - H \in Nat /\ r + m - H < H
        BY <1>1, <1>2, <1>3, <3>2
      <4> QED
        BY <4>1
    <3> QED
      BY <1>1, <1>2, <1>3, <3>1, <3>2
  <2>2. PICK p \in Nat : p = q + b
    BY <2>1
  <2>3. x = H * p + c
    <3>1. H * p = H * q + H * b
      BY <1>1, <2>1, <2>2
    <3>2. H * q \in Nat /\ H * b \in Nat /\ H * p \in Nat
      BY <1>1, <2>1, <2>2
    <3> QED
      BY <1>1, <1>2, <1>3, <1>5, <2>1, <3>1, <3>2
  <2>4. k = p /\ l = c
    BY ONLY <1>1, <1>5, <1>6, <2>1, <2>2, <2>3, QuotientIs
  <2> QED
    BY <1>1, <1>2, <1>3, <2>1, <2>2, <2>4
<1>8. PICK y \in Nat, hi \in Nat : y = a + k /\ hi = y % H /\ (hi = y \/ hi = y - H)
  <2>1. PICK y \in Nat : y = a + k
    BY <1>2, <1>6
  <2>2. PICK z \in Nat : z < H /\ (z = y \/ z = y - H)
    <3>1. CASE y < H
      BY <3>1
    <3>2. CASE y >= H
      <4>1. y - H \in Nat /\ y - H < H
        BY <1>1, <1>2, <1>4, <1>7, <2>1, <3>2
      <4> QED
        BY <4>1
    <3> QED
      BY <1>1, <2>1, <3>1, <3>2
  <2>3. y = z \/ y = z + H
    BY <1>1, <2>1, <2>2
  <2>4. y % H = z
    BY ONLY <1>1, <2>1, <2>2, <2>3, OffByOne
  <2> QED
    BY <2>1, <2>2, <2>4
<1>9. Later(cyc, n) = <<hi, l>>
  BY <1>1, <1>2, <1>5, <1>6, <1>8 DEF Later
<1>10. PICK v \in Int, borrow \in {0, 1} : v = l - r /\ borrow = (IF m > l THEN 1 ELSE 0)
  BY <1>2, <1>3, <1>6
<1>11. v % H = m
  <2>1. v = m \/ v = m - H
    BY <1>1, <1>2, <1>3, <1>7, <1>10
  <2> QED
    BY ONLY <1>1, <1>3, <1>10, <2>1, OffByOne
<1>12. k = q + borrow
  BY <1>1, <1>2, <1>3, <1>7, <1>10
<1>13. PICK w \in Int : w = hi - a - borrow
  BY <1>2, <1>8, <1>10
<1>14. w % H = q
  <2>1. w = q \/ w = q - H
    <3>1. w = hi - a - borrow /\ (hi = a + k \/ hi = a + k - H) /\ k = q + borrow
      BY <1>8, <1>12, <1>13
    <3> QED
      BY <3>1
  <2> QED
    BY ONLY <1>1, <1>3, <1>4, <1>13, <2>1, OffByOne
<1>15. get_counter(<<hi, l>>) = q * H + m
  BY <1>1, <1>2, <1>10, <1>11, <1>13, <1>14 DEF get_counter
<1> QED
  BY <1>1, <1>3, <1>9, <1>15

LEMMA LaterLater ==
    ASSUME NEW c \in Counters, NEW n \in Nat, NEW k \in Nat
    PROVE  Later(Later(c, n), k) = Later(c, n + k)
<1>1. PICK H \in Nat \ {0} : H = HalfWord
  BY TimingAssumption
<1>0. PICK c1 \in Nat, c2 \in Nat : c1 = c[1] /\ c2 = c[2]
  BY <1>1 DEF Counters
<1>2. PICK x \in Nat, y \in Nat : x = c2 + n /\ y = x + k
  OBVIOUS
<1>3. PICK q \in Nat, r \in Nat : q = x \div H /\ r = x % H /\ r < H /\ x = H * q + r
  BY ONLY <1>1, <1>2, DivisionIs
<1>4. PICK z \in Nat : z = r + k
  BY <1>3
<1>5. PICK p \in Nat, s \in Nat : p = z \div H /\ s = z % H /\ s < H /\ z = H * p + s
  BY ONLY <1>1, <1>4, DivisionIs
<1>6. PICK t \in Nat : t = q + p
  BY <1>3, <1>5
<1>7. y \div H = t /\ y % H = s
  <2>1. y = H * t + s
    <3>1. PICK hq \in Nat, hp \in Nat : hq = H * q /\ hp = H * p
      BY <1>1, <1>3, <1>5
    <3>2. H * t = hq + hp
      BY <1>1, <1>3, <1>5, <1>6, <3>1
    <3>3. y = (hq + hp) + s
      BY ONLY <1>2, <1>3, <1>4, <1>5, <3>1, n \in Nat, k \in Nat
    <3> QED
      BY ONLY <3>2, <3>3
  <2>2. y \in Nat /\ t \in Nat /\ s \in Nat /\ s < H
    BY <1>2, <1>5, <1>6
  <2> QED
    BY ONLY <1>1, <2>1, <2>2, QuotientIs
<1>8. PICK a \in Nat, b \in Nat : a = c1 + q /\ b = a + p
  <2>1. PICK a \in Nat : a = c1 + q
    <3>1. c1 + q \in Nat
      OBVIOUS
    <3> QED
      BY <3>1
  <2>2. PICK b \in Nat : b = a + p
    BY <1>5
  <2> QED
    BY <2>1, <2>2
<1>9. PICK i \in Nat, u \in Nat : i = a \div H /\ u = a % H /\ u < H /\ a = H * i + u
  BY ONLY <1>1, <1>8, DivisionIs
<1>10. PICK d \in Nat : d = u + p
  BY <1>5, <1>9
<1>11. PICK j \in Nat, v \in Nat : j = d \div H /\ v = d % H /\ v < H /\ d = H * j + v
  BY ONLY <1>1, <1>10, DivisionIs
<1>12. b % H = v
  <2>1. PICK e \in Nat : e = i + j
    BY <1>9, <1>11
  <2>2. b = H * e + v
    <3>1. PICK hi \in Nat, hj \in Nat : hi = H * i /\ hj = H * j
      BY <1>1, <1>9, <1>11
    <3>2. H * e = hi + hj
      BY <1>1, <1>9, <1>11, <2>1, <3>1
    <3>3. b = (hi + hj) + v
      BY ONLY <1>5, <1>8, <1>9, <1>10, <1>11, <3>1
    <3> QED
      BY ONLY <3>2, <3>3
  <2>3. b \in Nat /\ e \in Nat /\ v \in Nat /\ v < H
    BY <1>8, <1>11, <2>1
  <2> QED
    BY ONLY <1>1, <2>2, <2>3, QuotientIs
<1>13. Later(c, n) = <<u, r>>
  BY <1>0, <1>1, <1>2, <1>3, <1>8, <1>9 DEF Later
<1>14. Later(<<u, r>>, k) = <<v, s>>
  BY <1>1, <1>4, <1>5, <1>10, <1>11 DEF Later
<1>15. Later(c, n + k) = <<v, s>>
  <2>1. c2 + (n + k) = y
    BY <1>2
  <2>2. c1 + t = b
    BY <1>3, <1>5, <1>6, <1>8
  <2> QED
    BY <1>0, <1>1, <1>7, <1>12, <2>1, <2>2 DEF Later
<1> QED
  BY <1>13, <1>14, <1>15

-----------------------------------------------------------------------------
(* The samples that are kept. *)

\* The first value is the least.
FirstIsLeast(v) == v \in Seq(Int) /\ \A j \in 1 .. Len(v) : v[1] <= v[j]

LEMMA PlaceIs ==
    ASSUME NEW v \in Seq(Int), NEW val \in Int
    PROVE  /\ Place(v, val) \in 1 .. Len(v) + 1
           /\ Place(v, val) > 1 => v[Place(v, val) - 1] <= val
           /\ \A j \in Place(v, val) .. Len(v) : v[j] > val
<1> DEFINE Low == {j \in 1 .. Len(v) : v[j] <= val}
           Right(pos) == /\ pos > 1 => v[pos - 1] <= val
                         /\ \A j \in pos .. Len(v) : v[j] > val
<1>1. \E pos \in 1 .. Len(v) + 1 : Right(pos)
  <2>1. CASE Low = {}
    <3>1. \A j \in 1 .. Len(v) : v[j] > val
      BY <2>1
    <3>2. 1 \in 1 .. Len(v) + 1 /\ Right(1)
      BY <3>1
    <3> QED
      BY <3>2
  <2>2. CASE Low # {}
    <3>1. PICK i \in Low : \A j \in Low : j <= i
      <4>1. Low \in SUBSET Nat /\ Len(v) \in Nat /\ \A j \in Low : j <= Len(v)
        OBVIOUS
      <4> HIDE DEF Low
      <4> QED
        BY <2>2, <4>1, GreatestNatural
    <3>2. \A j \in i + 1 .. Len(v) : v[j] > val
      <4> SUFFICES ASSUME NEW j \in i + 1 .. Len(v) PROVE v[j] > val
        OBVIOUS
      <4>1. j \in 1 .. Len(v) /\ j \notin Low
        BY <3>1
      <4> QED
        BY <4>1
    <3>3. i + 1 \in 1 .. Len(v) + 1 /\ Right(i + 1)
      BY <3>1, <3>2
    <3> QED
      BY <3>3
  <2> QED
    BY <2>1, <2>2
<1>2. Place(v, val) = CHOOSE pos \in 1 .. Len(v) + 1 : Right(pos)
  BY DEF Place
<1> HIDE DEF Right
<1>3. Place(v, val) \in 1 .. Len(v) + 1 /\ Right(Place(v, val))
  BY <1>1, <1>2
<1> QED
  BY <1>3 DEF Right

\* After an insertion the first value is still the least.
LEMMA Inserted ==
    ASSUME NEW v, FirstIsLeast(v), NEW val \in Int
    PROVE  \E w : /\ w = InsertAt(v, Place(v, val), val) /\ FirstIsLeast(w) /\ Len(w) = Len(v) + 1
                  /\ w[1] = IF v # <<>> /\ v[1] <= val THEN v[1] ELSE val
<1>1. v \in Seq(Int) /\ \A j \in 1 .. Len(v) : v[1] <= v[j]
  BY DEF FirstIsLeast
<1>2. PICK p \in Nat : /\ p = Place(v, val) /\ p \in 1 .. Len(v) + 1
                       /\ p > 1 => v[p - 1] <= val
                       /\ \A j \in p .. Len(v) : v[j] > val
  <2>1. /\ Place(v, val) \in 1 .. Len(v) + 1
        /\ Place(v, val) > 1 => v[Place(v, val) - 1] <= val
        /\ \A j \in Place(v, val) .. Len(v) : v[j] > val
    BY <1>1, PlaceIs
  <2>2. Place(v, val) \in Nat
    BY <1>1, <2>1
  <2> QED
    BY <2>1, <2>2
<1>3. PICK a, b : a = SubSeq(v, 1, p - 1) /\ b = SubSeq(v, p, Len(v))
  OBVIOUS
<1>4. /\ a \in Seq(Int) /\ Len(a) = p - 1 /\ \A i \in 1 .. p - 1 : a[i] = v[i]
      /\ b \in Seq(Int) /\ Len(b) = Len(v) + 1 - p /\ \A i \in 1 .. Len(v) + 1 - p : b[i] = v[p + i - 1]
  <2>1. Len(v) \in Nat /\ (\A i \in 1 .. p - 1 : v[i] \in Int) /\ (\A i \in p .. Len(v) : v[i] \in Int)
    BY <1>1, <1>2
  <2>2. a \in Seq(Int) /\ Len(a) = p - 1 /\ \A i \in 1 .. (p - 1) - 1 + 1 : a[i] = v[1 + i - 1]
    BY <1>2, <1>3, <2>1, SubSeqProperties
  <2>3. b \in Seq(Int) /\ Len(b) = Len(v) + 1 - p /\ \A i \in 1 .. Len(v) - p + 1 : b[i] = v[p + i - 1]
    BY <1>2, <1>3, <2>1, SubSeqProperties
  <2>4. (p - 1) - 1 + 1 = p - 1 /\ Len(v) - p + 1 = Len(v) + 1 - p /\ \A i \in 1 .. p - 1 : 1 + i - 1 = i
    BY <1>2, <2>1
  <2> QED
    BY <2>2, <2>3, <2>4
<1>5. PICK c : c = a \o <<val>>
  OBVIOUS
<1>6. /\ c \in Seq(Int) /\ Len(c) = p
      /\ \A i \in 1 .. p : c[i] = IF i <= p - 1 THEN a[i] ELSE <<val>>[i - (p - 1)]
  <2>1. <<val>> \in Seq(Int) /\ Len(<<val>>) = 1
    OBVIOUS
  <2>2. (p - 1) + 1 = p
    BY <1>2
  <2> QED
    BY <1>4, <1>5, <2>1, <2>2, ConcatProperties
<1>7. PICK w : w = c \o b
  OBVIOUS
<1>8. /\ w \in Seq(Int) /\ Len(w) = Len(v) + 1 /\ w[p] = val
      /\ \A i \in 1 .. p - 1 : w[i] = v[i]
      /\ \A i \in p + 1 .. Len(v) + 1 : w[i] = v[i - 1]
  <2>1. p + (Len(v) + 1 - p) = Len(v) + 1
    BY <1>1, <1>2
  <2>2. /\ w \in Seq(Int) /\ Len(w) = Len(v) + 1
        /\ \A i \in 1 .. Len(v) + 1 : w[i] = IF i <= p THEN c[i] ELSE b[i - p]
    <3>1. /\ c \in Seq(Int) /\ Len(c) = p /\ b \in Seq(Int) /\ Len(b) = Len(v) + 1 - p
          /\ Len(c) + Len(b) = Len(v) + 1
      BY <1>4, <1>6, <2>1
    <3>2. /\ c \o b \in Seq(Int) /\ Len(c \o b) = Len(c) + Len(b)
          /\ \A i \in 1 .. Len(c) + Len(b) : (c \o b)[i] = IF i <= Len(c) THEN c[i] ELSE b[i - Len(c)]
      BY <3>1, ConcatProperties
    <3> QED
      BY <1>7, <3>1, <3>2
  <2>3. w[p] = val
    <3>1. p \in 1 .. Len(v) + 1 /\ p \in 1 .. p /\ ~(p <= p - 1) /\ p - (p - 1) = 1
      BY <1>2
    <3>2. w[p] = c[p] /\ c[p] = <<val>>[1]
      BY <1>6, <2>2, <3>1
    <3> QED
      BY <3>2
  <2>4. ASSUME NEW i \in 1 .. p - 1 PROVE w[i] = v[i]
    <3>1. i \in 1 .. Len(v) + 1 /\ i \in 1 .. p /\ i <= p /\ i <= p - 1
      BY <1>1, <1>2
    <3> QED
      BY <1>4, <1>6, <2>2, <3>1
  <2>5. ASSUME NEW i \in p + 1 .. Len(v) + 1 PROVE w[i] = v[i - 1]
    <3>1. i \in 1 .. Len(v) + 1 /\ ~(i <= p) /\ i - p \in 1 .. Len(v) + 1 - p /\ p + (i - p) - 1 = i - 1
      <4>1. PICK l \in Nat : l = Len(v)
        BY <1>1
      <4>2. i \in 1 .. l + 1 /\ ~(i <= p) /\ i - p \in 1 .. l + 1 - p /\ p + (i - p) - 1 = i - 1
        BY <4>1
      <4> QED
        BY <4>1, <4>2
    <3>2. b[i - p] = v[i - 1]
      BY <1>4, <3>1
    <3> QED
      BY <2>2, <3>1, <3>2
  <2> QED
    BY <2>2, <2>3, <2>4, <2>5
<1>9. w = InsertAt(v, p, val)
  BY <1>3, <1>5, <1>7 DEF InsertAt
<1>10. w[1] = IF v # <<>> /\ v[1] <= val THEN v[1] ELSE val
  <2>1. CASE p = 1
    <3>1. w[1] = val
      BY <1>8, <2>1
    <3>2. v # <<>> => v[1] > val /\ v[1] \in Int
      BY <1>1, <1>2, <2>1
    <3> QED
      BY <3>1, <3>2
  <2>2. CASE p > 1
    <3>1. Len(v) \in Nat /\ 1 \in 1 .. Len(v) /\ p - 1 \in 1 .. Len(v) /\ 1 \in 1 .. p - 1
      BY <1>1, <1>2, <2>2
    <3>2. v # <<>> /\ v[1] <= v[p - 1] /\ v[p - 1] <= val /\ v[1] \in Int /\ v[p - 1] \in Int
      BY <1>1, <1>2, <2>2, <3>1
    <3>3. v[1] <= val
      BY <3>2
    <3> QED
      BY <1>8, <3>1, <3>2, <3>3
  <2> QED
    BY <1>2, <2>1, <2>2
<1>11. ASSUME NEW j \in 1 .. Len(w) PROVE w[1] <= w[j]
  <2>1. w[1] <= val /\ (v # <<>> => w[1] <= v[1] /\ v[1] \in Int)
    BY <1>1, <1>10
  <2>2. CASE j = p
    BY <1>8, <2>1, <2>2
  <2>3. CASE j # p
    <3>1. PICK i \in 1 .. Len(v) : w[j] = v[i]
      <4>1. ASSUME j \in 1 .. p - 1 PROVE j \in 1 .. Len(v) /\ w[j] = v[j]
        <5>1. PICK l \in Nat : l = Len(v)
          BY <1>1
        <5>2. p <= l + 1
          BY <1>2, <5>1
        <5>3. j \in 1 .. l
          BY <4>1, <5>2
        <5> QED
          BY <1>8, <4>1, <5>1, <5>3
      <4>2. ASSUME j \in p + 1 .. Len(v) + 1
            PROVE  j - 1 \in 1 .. Len(v) /\ w[j] = v[j - 1]
        <5>1. PICK l \in Nat : l = Len(v)
          BY <1>1
        <5>2. j \in p + 1 .. l + 1 /\ p \in Nat /\ p >= 1
          BY <1>2, <4>2, <5>1
        <5>3. j - 1 \in 1 .. l
          BY <5>2
        <5> QED
          BY <1>8, <4>2, <5>1, <5>3
      <4>3. j \in 1 .. p - 1 \/ j \in p + 1 .. Len(v) + 1
        BY <1>1, <1>2, <1>8, <2>3
      <4> QED
        BY <4>1, <4>2, <4>3
    <3>2. v # <<>> /\ v[1] <= v[i] /\ v[i] \in Int /\ w[1] \in Int
      BY <1>1, <1>8
    <3> QED
      BY <2>1, <3>1, <3>2
  <2> QED
    BY <2>2, <2>3
<1> QED
  BY <1>2, <1>8, <1>9, <1>10, <1>11 DEF FirstIsLeast

-----------------------------------------------------------------------------
(* The invariant. *)

\* No measurement is so long that the counter comes around, and a read of the counter is
\* short compared to what callibrate records.
NothingComesAround ==
    /\ \A d \in Durations : d + MaxTicks * TickCycles < HalfWord * HalfWord
    /\ \A o \in Overheads : /\ MaxWait + 2 * TickCycles + o < HalfWord * HalfWord
                            /\ THRESHOLD + o <= RECORDTHRESH + 1

\* What callibrate may record for a tick.
PerTick(c) == TickCycles <= c /\ \E o \in Overheads : c - TickCycles < THRESHOLD + o

\* What fcyc may take a run of f cycles for.
Within(v, f) ==
    IF param.compensate
    THEN f - MaxTicks * (cyc_per_tick - TickCycles) - 2 * cyc_per_tick <= v /\ v <= f
    ELSE f <= v /\ v <= f + MaxTicks * TickCycles

\* v are the best of count samples, of which the fastest run took f cycles.
Best(v, count, f) ==
    /\ FirstIsLeast(v) /\ Len(v) = (IF count < K THEN count ELSE K)
    /\ IF count = 0 THEN f = -1 ELSE f \in Nat /\ Within(v[1], f)

\* Since callibrate looked last, less than THRESHOLD has passed, or one late tick.
Callibrating ==
    /\ param.compensate /\ samplecount = 0 /\ utime = cal.oldc /\ cal.e < NEVENT
    /\ \E x \in Nat :
          /\ tsc = Later(cyc, x) /\ x <= MaxWait + TickCycles /\ cal.oldt <= x
          /\ x - cal.oldt < THRESHOLD \/ x - cal.oldt = TickCycles

\* The run that has just ended took d cycles and n ticks; f is the fastest before it.
Measured(d, n, late, f) ==
    /\ tsc = Later(cyc, d + n * TickCycles) /\ utime = start_tick + late + n
    /\ Best(values, samplecount, f) /\ fastest = (IF f = -1 \/ d < f THEN d ELSE f)

TimingTyped ==
    /\ tsc \in Counters /\ cyc \in Counters /\ utime \in Nat /\ start_tick \in Nat
    /\ cyc_per_tick \in Nat /\ cal \in [oldt : Nat, oldc : Nat, e : Nat]
    /\ timing \in {"idle", "start", "callibrate", "ready", "run", "stop", "done"}
    /\ param \in {Defaults, [Defaults EXCEPT !.compensate = TRUE]}
    /\ samplecount \in Nat /\ fastest \in Nat \cup {-1}

TimingInv ==
    /\ TimingTyped
    /\ cyc_per_tick = 0 \/ PerTick(cyc_per_tick)
    /\ param.compensate /\ (timing \in {"ready", "run", "stop"} \/ samplecount > 0) => cyc_per_tick # 0
    /\ timing = "idle" => samplecount = 0
    /\ timing = "done" => samplecount > 0
    /\ timing = "callibrate" => Callibrating
    /\ timing = "run" => tsc = cyc /\ utime - start_tick \in {0, 1}
    /\ timing # "stop" => Best(values, samplecount, fastest)
    /\ timing = "stop" =>
          \E d \in Durations, n \in 0 .. MaxTicks, late \in 0 .. 1, f \in Nat \cup {-1} :
             Measured(d, n, late, f)

-----------------------------------------------------------------------------
(* A sample. *)

LEMMA ProductGrows ==
    ASSUME NEW m \in Nat, NEW n \in Nat, m <= n, NEW c \in Nat
    PROVE  m * c <= n * c /\ m * c \in Nat /\ n * c \in Nat
<1>1. PICK e \in Nat : n = m + e
  <2>1. n - m \in Nat /\ n = m + (n - m)
    OBVIOUS
  <2> QED
    BY <2>1
<1>2. n * c = m * c + e * c /\ m * c \in Nat /\ e * c \in Nat
  BY <1>1
<1> QED
  BY <1>2

LEMMA SampleIs ==
    ASSUME NothingComesAround, TimingInv, timing = "stop",
           NEW d \in Durations, NEW n \in 0 .. MaxTicks, NEW late \in 0 .. 1, NEW f,
           Measured(d, n, late, f), NEW more \in 0 .. 1
    PROVE  \E val \in Int :
              /\ val = IF param.compensate THEN get_comp_counter(more) ELSE get_counter(tsc)
              /\ Within(val, d)
<1>1. /\ d \in Nat /\ n \in Nat /\ n <= MaxTicks /\ MaxTicks \in Nat /\ TickCycles \in Nat
      /\ cyc_per_tick \in Nat /\ utime \in Nat /\ start_tick \in Nat /\ cyc \in Counters
  BY TimingAssumption DEF TimingInv, TimingTyped
<1>2. n * TickCycles <= MaxTicks * TickCycles /\ n * TickCycles \in Nat /\ MaxTicks * TickCycles \in Nat
  BY <1>1, ProductGrows
<1>3. PICK x \in Nat : x = d + n * TickCycles /\ x < HalfWord * HalfWord /\ x <= d + MaxTicks * TickCycles
  <2>1. d + MaxTicks * TickCycles < HalfWord * HalfWord /\ HalfWord * HalfWord \in Nat
    BY TimingAssumption DEF NothingComesAround
  <2> QED
    BY <1>1, <1>2, <2>1
<1>4. get_counter(tsc) = x
  <2>1. get_counter(Later(cyc, x)) = x
    BY <1>1, <1>3, CounterIs
  <2> QED
    BY <1>3, <2>1 DEF Measured
<1>5. CASE ~param.compensate
  <2>1. Within(x, d)
    BY <1>1, <1>2, <1>3, <1>5 DEF Within
  <2> QED
    BY <1>4, <1>5, <2>1
<1>6. CASE param.compensate
  <2>1. PICK per \in Nat : per = cyc_per_tick - TickCycles
    <3>1. TickCycles <= cyc_per_tick
      BY <1>6 DEF TimingInv, PerTick
    <3> QED
      BY <1>1, <3>1
  <2>2. n * per <= MaxTicks * per /\ n * per \in Nat /\ MaxTicks * per \in Nat
    BY <1>1, <2>1, ProductGrows
  <2>3. PICK l \in 0 .. 2 : l = late + more
    OBVIOUS
  <2>4. utime + more - start_tick = n + l
    BY <1>1, <2>3 DEF Measured
  <2>5. (n + l) * cyc_per_tick = n * TickCycles + n * per + l * cyc_per_tick
    BY <1>1, <2>1, <2>3
  <2>6. 0 <= l * cyc_per_tick /\ l * cyc_per_tick <= 2 * cyc_per_tick /\ l * cyc_per_tick \in Nat
    <3>1. l = 0 \/ l = 1 \/ l = 2
      BY <2>3
    <3> QED
      BY <1>1, <3>1
  <2>7. PICK val \in Int : val = x - (n + l) * cyc_per_tick
    BY <1>1, <2>3
  <2>8. val = d - n * per - l * cyc_per_tick
    BY <1>1, <1>2, <1>3, <2>2, <2>5, <2>6, <2>7
  <2>9. Within(val, d)
    <3>1. d - MaxTicks * per - 2 * cyc_per_tick <= val /\ val <= d
      BY <1>1, <2>2, <2>6, <2>7, <2>8
    <3> QED
      BY <1>6, <2>1, <3>1 DEF Within
  <2> QED
    BY <1>4, <1>6, <2>4, <2>7, <2>9 DEF get_comp_counter
<1> QED
  BY <1>5, <1>6

\* fcyc keeps the least sample.
LEMMA KeptIs ==
    ASSUME TimingTyped, NEW f, Best(values, samplecount, f), NEW val \in Int,
           add_sample(val)
    PROVE  /\ samplecount' = samplecount + 1 /\ FirstIsLeast(values')
           /\ Len(values') = (IF samplecount + 1 < K THEN samplecount + 1 ELSE K)
           /\ values'[1] = IF samplecount # 0 /\ values[1] <= val THEN values[1] ELSE val
<1>1. K \in Nat \ {0} /\ samplecount \in Nat /\ param.kbest = K
  BY TimingAssumption DEF TimingTyped, Defaults
<1>2. /\ values \in Seq(Int) /\ \A j \in 1 .. Len(values) : values[1] <= values[j]
      /\ Len(values) = (IF samplecount < K THEN samplecount ELSE K)
  BY DEF Best, FirstIsLeast
<1>3. CASE samplecount < K
  <2>1. values' = InsertAt(values, Place(values, val), val) /\ samplecount' = samplecount + 1
    BY <1>1, <1>3 DEF add_sample
  <2>2. /\ FirstIsLeast(values') /\ Len(values') = Len(values) + 1
        /\ values'[1] = IF values # <<>> /\ values[1] <= val THEN values[1] ELSE val
    <3>1. FirstIsLeast(values)
      BY DEF Best
    <3> QED
      BY <2>1, <3>1, Inserted
  <2>3. values # <<>> <=> samplecount # 0
    BY <1>1, <1>2, <1>3
  <2> QED
    BY <1>1, <1>2, <1>3, <2>1, <2>2, <2>3
<1>4. CASE samplecount >= K /\ val < Last(values)
  <2>1. PICK v : v = Front(values)
    OBVIOUS
  <2>2. v \in Seq(Int) /\ Len(v) = K - 1 /\ \A j \in 1 .. K - 1 : v[j] = values[j]
    <3>1. Len(values) = K /\ \A j \in 1 .. K - 1 : values[j] \in Int
      BY <1>1, <1>2, <1>4
    <3>2. v = SubSeq(values, 1, K - 1)
      BY <2>1, <3>1 DEF Front
    <3>3. 1 \in Int /\ K - 1 \in Int /\ (K - 1) - 1 + 1 = K - 1 /\ \A j \in 1 .. K - 1 : 1 + j - 1 = j
      BY <1>1
    <3> QED
      BY <1>1, <3>1, <3>2, <3>3, SubSeqProperties
  <2>3. FirstIsLeast(v)
    BY <1>1, <1>2, <1>4, <2>2 DEF FirstIsLeast
  <2>4. values' = InsertAt(v, Place(v, val), val) /\ samplecount' = samplecount + 1
    BY <1>1, <1>4, <2>1 DEF add_sample
  <2>5. /\ FirstIsLeast(values') /\ Len(values') = Len(v) + 1
        /\ values'[1] = IF v # <<>> /\ v[1] <= val THEN v[1] ELSE val
    BY <2>3, <2>4, Inserted
  <2>6. CASE K = 1
    <3>1. v = <<>> /\ Last(values) = values[1] /\ values[1] \in Int
      BY <1>2, <1>4, <2>2, <2>6 DEF Last
    <3> QED
      BY <1>1, <1>4, <2>2, <2>4, <2>5, <2>6, <3>1
  <2>7. CASE K > 1
    <3>1. v # <<>> /\ v[1] = values[1]
      BY <1>1, <2>2, <2>7
    <3> QED
      BY <1>1, <1>4, <2>2, <2>4, <2>5, <3>1
  <2> QED
    BY <1>1, <2>6, <2>7
<1>5. CASE samplecount >= K /\ ~(val < Last(values))
  <2>1. values' = values /\ samplecount' = samplecount + 1
    BY <1>1, <1>5 DEF add_sample
  <2>2. values[1] <= val
    <3>1. Len(values) = K /\ K \in 1 .. Len(values) /\ 1 \in 1 .. Len(values) /\ Last(values) = values[K]
      BY <1>1, <1>2, <1>5 DEF Last
    <3>2. values[1] \in Int /\ values[K] \in Int /\ values[1] <= values[K]
      BY <1>2, <3>1
    <3> QED
      BY <1>5, <3>1, <3>2
  <2>3. FirstIsLeast(values)
    BY DEF Best
  <2> QED
    BY <1>1, <1>2, <1>5, <2>1, <2>2, <2>3
<1> QED
  BY <1>1, <1>3, <1>4, <1>5

-----------------------------------------------------------------------------
(* The steps. *)

\* What a sample of a run of d cycles leaves of the bounds.
LEMMA StopInv ==
    ASSUME NothingComesAround, TimingInv, NEW more \in 0 .. 1, Stop(more)
    PROVE  TimingInv'
<1>1. timing = "stop"
  BY DEF Stop
<1>2. PICK d \in Durations, n \in 0 .. MaxTicks, late \in 0 .. 1, f \in Nat \cup {-1} :
               Measured(d, n, late, f)
  BY <1>1 DEF TimingInv
<1>3. PICK val \in Int : /\ val = IF param.compensate THEN get_comp_counter(more) ELSE get_counter(tsc)
                         /\ Within(val, d)
  BY <1>1, <1>2, SampleIs
<1>4. add_sample(val)
  BY <1>3 DEF Stop
<1>5. TimingTyped /\ Best(values, samplecount, f) /\ fastest = (IF f = -1 \/ d < f THEN d ELSE f)
  BY <1>2 DEF Measured, TimingInv
<1>6. /\ samplecount' = samplecount + 1 /\ FirstIsLeast(values')
      /\ Len(values') = (IF samplecount + 1 < K THEN samplecount + 1 ELSE K)
      /\ values'[1] = IF samplecount # 0 /\ values[1] <= val THEN values[1] ELSE val
  BY <1>4, <1>5, KeptIs
<1>7. d \in Nat /\ samplecount \in Nat
  BY <1>5, TimingAssumption DEF TimingTyped
<1>8. UNCHANGED <<cyc, start_tick, cyc_per_tick, cal, param, fastest>>
  BY DEF Stop
<1>9. fastest \in Nat /\ Within(values'[1], fastest)
  <2>1. CASE samplecount = 0
    BY <1>3, <1>5, <1>6, <1>7, <2>1 DEF Best
  <2>2. CASE samplecount # 0
    <3>1. f \in Nat /\ Within(values[1], f) /\ values[1] \in Int
      <4>1. 1 \in 1 .. Len(values) /\ values \in Seq(Int)
        BY <1>5, <1>7, <2>2, TimingAssumption DEF Best, FirstIsLeast
      <4> QED
        BY <1>5, <2>2, <4>1 DEF Best
    <3>2. PICK a \in Int, b \in Int :
             /\ a = MaxTicks * (cyc_per_tick - TickCycles) + 2 * cyc_per_tick /\ b = MaxTicks * TickCycles
      BY <1>5, TimingAssumption DEF TimingTyped
    <3>3. PICK m \in Int : m = values'[1] /\ m = IF values[1] <= val THEN values[1] ELSE val
      BY <1>6, <2>2, <3>1
    <3>4. CASE param.compensate
      <4>1. f - a <= values[1] /\ values[1] <= f /\ d - a <= val /\ val <= d
        <5>1. MaxTicks * (cyc_per_tick - TickCycles) \in Int /\ 2 * cyc_per_tick \in Int
          BY <1>5, TimingAssumption DEF TimingTyped
        <5> QED
          BY <1>3, <1>7, <3>1, <3>2, <3>4, <5>1 DEF Within
      <4>2. fastest \in Nat /\ fastest - a <= m /\ m <= fastest
        BY <1>5, <1>7, <3>1, <3>2, <3>3, <4>1
      <4> QED
        <5>1. MaxTicks * (cyc_per_tick - TickCycles) \in Int /\ 2 * cyc_per_tick \in Int
          BY <1>5, TimingAssumption DEF TimingTyped
        <5> QED
          BY <3>2, <3>3, <3>4, <4>2, <5>1 DEF Within
    <3>5. CASE ~param.compensate
      <4>1. f <= values[1] /\ values[1] <= f + b /\ d <= val /\ val <= d + b
        BY <1>3, <3>1, <3>2, <3>5 DEF Within
      <4>2. fastest \in Nat /\ fastest <= m /\ m <= fastest + b
        BY <1>5, <1>7, <3>1, <3>2, <3>3, <4>1
      <4> QED
        BY <3>2, <3>3, <3>5, <4>2 DEF Within
    <3> QED
      BY <3>4, <3>5
  <2> QED
    BY <2>1, <2>2
<1>10. Best(values, samplecount, fastest)'
  <2>1. samplecount' # 0
    BY <1>6, <1>7
  <2>2. Within(values[1], fastest)'
    BY <1>8, <1>9 DEF Within
  <2> QED
    BY <1>6, <1>8, <1>9, <2>1, <2>2 DEF Best
<1>11. timing' \in {"start", "done"}
  BY DEF Stop
<1>12. TimingTyped'
  <2>1. tsc' \in Counters /\ utime' \in Nat
    <3>1. PICK x \in Nat : x = more * TickCycles
      BY TimingAssumption
    <3>2. tsc' = Later(tsc, x) /\ utime' = utime + more
      BY <3>1 DEF Stop
    <3>3. tsc \in Counters /\ utime \in Nat
      BY <1>5 DEF TimingTyped
    <3>4. Later(tsc, x) \in Counters
      BY <3>1, <3>3, LaterCounts
    <3> QED
      BY <3>2, <3>3, <3>4
  <2>2. /\ cyc' \in Counters /\ start_tick' \in Nat /\ cyc_per_tick' \in Nat
        /\ cal' \in [oldt : Nat, oldc : Nat, e : Nat] /\ fastest' \in Nat \cup {-1}
        /\ param' \in {Defaults, [Defaults EXCEPT !.compensate = TRUE]}
    BY <1>5, <1>8 DEF TimingTyped
  <2>3. samplecount' \in Nat
    BY <1>6, <1>7
  <2> QED
    BY <1>11, <2>1, <2>2, <2>3 DEF TimingTyped
<1>13. samplecount' > 0
  BY <1>6, <1>7
<1>14. param.compensate => cyc_per_tick # 0
  BY <1>1 DEF TimingInv
<1> QED
  BY <1>8, <1>10, <1>11, <1>12, <1>13, <1>14 DEF TimingInv, PerTick

LEMMA RunInv ==
    ASSUME TimingInv, NEW d \in Durations, NEW n \in 0 .. MaxTicks, Run(d, n)
    PROVE  TimingInv'
<1>1. /\ timing = "run" /\ timing' = "stop" /\ tsc = cyc /\ utime - start_tick \in {0, 1}
      /\ tsc' = Later(tsc, d + n * TickCycles) /\ utime' = utime + n
      /\ UNCHANGED <<cyc, start_tick, cyc_per_tick, cal, param, values, samplecount>>
      /\ fastest' = IF fastest = -1 \/ d < fastest THEN d ELSE fastest
      /\ TimingTyped /\ Best(values, samplecount, fastest)
  BY DEF Run, TimingInv
<1>2. d \in Nat /\ n \in Nat /\ n * TickCycles \in Nat
  BY TimingAssumption
<1>3. PICK late \in 0 .. 1 : late = utime - start_tick
  BY <1>1
<1>4. utime' = start_tick + late + n
  BY <1>1, <1>2, <1>3 DEF TimingTyped
<1>5. PICK f \in Nat \cup {-1} : f = fastest
  BY <1>1 DEF TimingTyped
<1>6. Measured(d, n, late, f)'
  <2>1. Best(values, samplecount, f)'
    BY <1>1, <1>5 DEF Best, Within
  <2>2. tsc' = Later(cyc', d + n * TickCycles) /\ utime' = start_tick' + late + n
    BY <1>1, <1>4
  <2> QED
    BY <1>1, <1>5, <2>1, <2>2 DEF Measured
<1>7. TimingTyped'
  <2>1. PICK x \in Nat : x = d + n * TickCycles
    BY <1>2
  <2>2. tsc \in Counters /\ utime \in Nat
    BY <1>1 DEF TimingTyped
  <2>3. tsc' \in Counters
    BY <1>1, <2>1, <2>2, LaterCounts
  <2>4. utime' \in Nat /\ fastest' \in Nat \cup {-1}
    BY <1>1, <1>2, <2>2 DEF TimingTyped
  <2> QED
    BY <1>1, <2>3, <2>4 DEF TimingTyped
<1>8. param.compensate => cyc_per_tick # 0
  BY <1>1 DEF TimingInv
<1>9. cyc_per_tick = 0 \/ PerTick(cyc_per_tick)
  BY DEF TimingInv
<1> QED
  BY <1>1, <1>6, <1>7, <1>8, <1>9 DEF TimingInv, PerTick

LEMMA StartInv ==
    ASSUME TimingInv, NEW late \in 0 .. 1, Start(late)
    PROVE  TimingInv'
<1>1. /\ timing \in {"start", "ready"} /\ cyc' = tsc'
      /\ tsc' = Later(tsc, late * TickCycles) /\ utime' = utime + late
      /\ UNCHANGED <<cyc_per_tick, param, values, samplecount, fastest>>
  BY DEF Start
<1>2. TimingTyped /\ Best(values, samplecount, fastest)
  BY <1>1 DEF TimingInv
<1>3. tsc' \in Counters /\ utime' \in Nat
  <2>1. PICK x \in Nat : x = late * TickCycles
    BY TimingAssumption
  <2>2. tsc \in Counters /\ utime \in Nat
    BY <1>2 DEF TimingTyped
  <2>3. tsc' \in Counters
    BY <1>1, <2>1, <2>2, LaterCounts
  <2> QED
    BY <1>1, <2>2, <2>3
<1>4. Best(values, samplecount, fastest)'
  BY <1>1, <1>2 DEF Best, Within
<1>5. (cyc_per_tick = 0 \/ PerTick(cyc_per_tick))'
  BY <1>1 DEF TimingInv, PerTick
<1>6. CASE timing = "start" /\ param.compensate /\ cyc_per_tick = 0
  <2>1. /\ late = 0 /\ timing' = "callibrate" /\ cal' = [oldt |-> 0, oldc |-> utime, e |-> 0]
        /\ start_tick' = start_tick
    BY <1>6 DEF Start
  <2>2. samplecount = 0
    BY <1>2, <1>6 DEF TimingInv, TimingTyped
  <2>3. tsc' = Later(cyc', 0)
    <3>1. tsc' = Later(tsc, 0)
      BY <1>1, <2>1, TimingAssumption
    <3>2. tsc \in Counters
      BY <1>2 DEF TimingTyped
    <3>3. Later(Later(tsc, 0), 0) = Later(tsc, 0 + 0)
      BY <3>2, LaterLater
    <3> QED
      BY <1>1, <3>1, <3>3
  <2>4. Callibrating'
    <3>1. 0 < THRESHOLD /\ 0 < NEVENT /\ 0 <= MaxWait + TickCycles
      BY TimingAssumption
    <3>2. utime' = cal'.oldc /\ cal'.e = 0 /\ cal'.oldt = 0
      BY <1>1, <1>2, <2>1 DEF TimingTyped
    <3>3. /\ tsc' = Later(cyc', 0) /\ 0 <= MaxWait + TickCycles /\ cal'.oldt <= 0
          /\ 0 - cal'.oldt < THRESHOLD
      BY <2>3, <3>1, <3>2
    <3>4. \E x \in Nat :
             /\ tsc' = Later(cyc', x) /\ x <= MaxWait + TickCycles /\ cal'.oldt <= x
             /\ x - cal'.oldt < THRESHOLD \/ x - cal'.oldt = TickCycles
      BY <3>3
    <3> QED
      BY <1>1, <1>6, <2>2, <3>1, <3>2, <3>4 DEF Callibrating
  <2>5. TimingTyped'
    BY <1>1, <1>2, <1>3, <2>1 DEF TimingTyped
  <2> QED
    BY <1>1, <1>4, <1>5, <1>6, <2>1, <2>2, <2>4, <2>5 DEF TimingInv
<1>7. CASE ~(timing = "start" /\ param.compensate /\ cyc_per_tick = 0)
  <2>1. timing' = "run" /\ start_tick' = utime /\ cal' = cal
    BY <1>7 DEF Start
  <2>2. tsc' = cyc' /\ utime' - start_tick' \in {0, 1}
    BY <1>1, <1>2, <2>1 DEF TimingTyped
  <2>3. param'.compensate => cyc_per_tick' # 0
    BY <1>1, <1>7 DEF TimingInv
  <2>4. TimingTyped'
    BY <1>1, <1>2, <1>3, <2>1 DEF TimingTyped
  <2> QED
    BY <1>4, <1>5, <2>1, <2>2, <2>3, <2>4 DEF TimingInv
<1> QED
  BY <1>6, <1>7

LEMMA CallibrateInv ==
    ASSUME NothingComesAround, TimingInv,
           NEW o \in Overheads, NEW n \in 0 .. 1, NEW late \in 0 .. 1, callibrate(o, n, late)
    PROVE  TimingInv'
<1>1. /\ timing = "callibrate" /\ TimingTyped /\ Callibrating /\ Best(values, samplecount, fastest)
      /\ cyc_per_tick = 0 \/ PerTick(cyc_per_tick)
      /\ UNCHANGED <<cyc, start_tick, param, values, samplecount, fastest>>
  BY DEF callibrate, TimingInv
<1>2. /\ o \in Nat /\ TickCycles \in Nat /\ MaxWait \in Nat /\ THRESHOLD \in Nat /\ 0 < THRESHOLD
      /\ THRESHOLD <= TickCycles /\ RECORDTHRESH \in Nat /\ RECORDTHRESH < TickCycles
      /\ NEVENT \in Nat /\ HalfWord * HalfWord \in Nat
  BY TimingAssumption
<1>3. /\ tsc \in Counters /\ cyc \in Counters /\ utime \in Nat /\ cyc_per_tick \in Nat /\ cal.oldt \in Nat
      /\ cal.e \in Nat /\ cal = [oldt |-> cal.oldt, oldc |-> cal.oldc, e |-> cal.e]
  BY <1>1 DEF TimingTyped
<1>4. PICK x \in Nat : /\ tsc = Later(cyc, x) /\ x <= MaxWait + TickCycles /\ cal.oldt <= x
                       /\ x - cal.oldt < THRESHOLD \/ x - cal.oldt = TickCycles
  BY <1>1 DEF Callibrating
<1>5. PICK cost \in Nat : cost = o + n * TickCycles /\ cost <= o + TickCycles
  <2>1. n = 0 \/ n = 1
    OBVIOUS
  <2> QED
    BY <1>2, <2>1
<1>6. PICK y \in Nat : y = x + cost /\ y < HalfWord * HalfWord
  <2>1. MaxWait + 2 * TickCycles + o < HalfWord * HalfWord
    BY DEF NothingComesAround
  <2> QED
    BY <1>2, <1>4, <1>5, <2>1
<1>7. Later(tsc, cost) = Later(cyc, y)
  BY <1>3, <1>4, <1>6, LaterLater
<1>8. get_counter(Later(tsc, cost)) = y /\ get_counter(tsc) = x
  <2>1. x < HalfWord * HalfWord
    BY <1>2, <1>5, <1>6
  <2> QED
    BY <1>3, <1>4, <1>6, <1>7, <2>1, CounterIs
<1> DEFINE newc == utime + n + late
           cpt  == (y - cal.oldt) \div (newc - cal.oldc)
           long == y - cal.oldt >= THRESHOLD
           seen == long /\ newc > cal.oldc
           owed == x - cal.oldt >= TickCycles
<1>9. /\ y <= MaxWait /\ (n = 1 => late = 0 /\ ~owed)
      /\ late = 1 => long /\ ~owed /\ cal.e + 1 < NEVENT
      /\ tsc' = Later(Later(tsc, cost), late * TickCycles) /\ utime' = newc
      /\ cyc_per_tick' = IF seen /\ (cyc_per_tick = 0 \/ cyc_per_tick > cpt) /\ cpt > RECORDTHRESH
                         THEN cpt ELSE cyc_per_tick
      /\ cal' = CASE seen  -> [oldt |-> y, oldc |-> newc, e |-> cal.e + 1]
                  [] ~seen -> [cal EXCEPT !.oldt = IF long THEN y ELSE @]
      /\ timing' = IF seen /\ cal.e + 1 = NEVENT THEN "ready" ELSE timing
  BY <1>5, <1>8 DEF callibrate
<1>10. utime = cal.oldc /\ param.compensate /\ samplecount = 0 /\ cal.e < NEVENT
  BY <1>1 DEF Callibrating
<1>11. Best(values, samplecount, fastest)'
  BY <1>1, <1>10 DEF Best
<1>12. PICK z \in Nat : z = y + late * TickCycles /\ tsc' = Later(cyc, z)
  <2>1. PICK w \in Nat : w = late * TickCycles
    BY <1>2
  <2>2. Later(Later(cyc, y), w) = Later(cyc, y + w)
    BY <1>3, <1>6, <2>1, LaterLater
  <2> QED
    BY <1>6, <1>7, <1>9, <2>1, <2>2
<1>13. tsc' \in Counters /\ utime' \in Nat
  <2>1. Later(cyc, z) \in Counters
    BY <1>3, <1>12, LaterCounts
  <2> QED
    BY <1>3, <1>9, <1>12, <2>1
<1>14. CASE n = 0 /\ late = 0
  <2>1. ~seen /\ newc = utime
    BY <1>3, <1>10, <1>14
  <2>2. /\ cyc_per_tick' = cyc_per_tick /\ timing' = "callibrate" /\ utime' = cal.oldc
        /\ cal' = [oldt |-> IF long THEN y ELSE cal.oldt, oldc |-> cal.oldc, e |-> cal.e]
    BY <1>1, <1>3, <1>9, <1>10, <2>1
  <2>3. z = y
    BY <1>2, <1>6, <1>12, <1>14
  <2>4. /\ z <= MaxWait + TickCycles /\ cal'.oldt <= z /\ z - cal'.oldt < THRESHOLD
    <3>1. cal.oldt <= y
      BY <1>3, <1>4, <1>5, <1>6
    <3>2. CASE long
      BY <1>2, <1>6, <1>9, <2>2, <2>3, <3>2
    <3>3. CASE ~long
      BY <1>2, <1>3, <1>6, <1>9, <2>2, <2>3, <3>1, <3>3
    <3> QED
      BY <3>2, <3>3
  <2>5. Callibrating'
    BY <1>1, <1>10, <1>12, <2>2, <2>4 DEF Callibrating
  <2>6. TimingTyped'
    BY <1>1, <1>3, <1>6, <1>13, <2>2 DEF TimingTyped
  <2> QED
    BY <1>1, <1>10, <1>11, <2>2, <2>5, <2>6 DEF TimingInv, PerTick
<1>15. CASE n = 1
  <2>1. late = 0 /\ x - cal.oldt < THRESHOLD
    BY <1>2, <1>3, <1>4, <1>9, <1>15
  <2>2. y - cal.oldt = (x - cal.oldt) + o + TickCycles
    BY <1>2, <1>3, <1>4, <1>5, <1>6, <1>15
  <2>3. seen /\ newc - cal.oldc = 1
    BY <1>2, <1>3, <1>4, <1>10, <1>15, <2>1, <2>2
  <2>4. cpt = y - cal.oldt
    <3>1. PICK k \in Nat : k = y - cal.oldt
      BY <1>2, <1>3, <1>4, <2>2
    <3> QED
      BY <2>3, <3>1
  <2>5. cpt \in Nat /\ cpt > RECORDTHRESH /\ PerTick(cpt)
    <3>1. cpt - TickCycles < THRESHOLD + o /\ TickCycles <= cpt
      BY <1>2, <1>3, <1>4, <2>1, <2>2, <2>4
    <3> QED
      BY <1>2, <1>3, <1>4, <2>2, <2>4, <3>1 DEF PerTick
  <2>6. cyc_per_tick' \in Nat /\ PerTick(cyc_per_tick') /\ cyc_per_tick' # 0
    <3>1. cyc_per_tick' = cpt \/ (cyc_per_tick' = cyc_per_tick /\ cyc_per_tick # 0)
      BY <1>9, <2>3, <2>5
    <3>2. cyc_per_tick' \in Nat /\ PerTick(cyc_per_tick')
      BY <1>1, <1>3, <2>5, <3>1
    <3>3. TickCycles <= cyc_per_tick'
      BY <3>2 DEF PerTick
    <3> QED
      BY <1>2, <3>2, <3>3
  <2>7. cal' = [oldt |-> y, oldc |-> utime', e |-> cal.e + 1]
    BY <1>9, <2>3
  <2>8. timing' = IF cal.e + 1 = NEVENT THEN "ready" ELSE "callibrate"
    BY <1>1, <1>9, <2>3
  <2>9. z = y
    BY <1>2, <1>6, <1>12, <2>1
  <2>10. timing' = "callibrate" => Callibrating'
    <3>1. cal.e + 1 < NEVENT \/ cal.e + 1 = NEVENT
      BY <1>2, <1>3, <1>10
    <3>2. /\ z <= MaxWait + TickCycles /\ cal'.oldt <= z /\ z - cal'.oldt < THRESHOLD
      BY <1>2, <1>6, <1>9, <2>7, <2>9
    <3> QED
      BY <1>1, <1>10, <1>12, <2>7, <2>8, <3>1, <3>2 DEF Callibrating
  <2>11. TimingTyped'
    BY <1>1, <1>3, <1>6, <1>13, <2>6, <2>7, <2>8 DEF TimingTyped
  <2> QED
    BY <1>1, <1>10, <1>11, <2>6, <2>8, <2>10, <2>11 DEF TimingInv, PerTick
<1>16. CASE late = 1
  <2>1. n = 0 /\ x - cal.oldt < THRESHOLD /\ cal.e + 1 < NEVENT /\ long
    BY <1>2, <1>3, <1>4, <1>9, <1>16
  <2>2. y - cal.oldt = (x - cal.oldt) + o
    BY <1>2, <1>3, <1>4, <1>5, <1>6, <2>1
  <2>3. seen /\ newc - cal.oldc = 1
    BY <1>3, <1>10, <1>16, <2>1
  <2>4. cpt = y - cal.oldt
    <3>1. PICK k \in Nat : k = y - cal.oldt
      BY <1>2, <1>3, <1>4, <2>2
    <3> QED
      BY <2>3, <3>1
  <2>5. ~(cpt > RECORDTHRESH)
    <3>1. THRESHOLD + o <= RECORDTHRESH + 1
      BY DEF NothingComesAround
    <3> QED
      BY <1>2, <1>3, <1>4, <2>1, <2>2, <2>4, <3>1
  <2>6. /\ cyc_per_tick' = cyc_per_tick /\ timing' = "callibrate"
        /\ cal' = [oldt |-> y, oldc |-> utime', e |-> cal.e + 1]
    <3>1. cal.e + 1 # NEVENT
      BY <1>2, <1>3, <2>1
    <3> QED
      BY <1>1, <1>9, <2>3, <2>5, <3>1
  <2>7. /\ z <= MaxWait + TickCycles /\ cal'.oldt <= z /\ z - cal'.oldt = TickCycles
    BY <1>2, <1>6, <1>9, <1>12, <1>16, <2>6
  <2>8. Callibrating'
    BY <1>1, <1>10, <1>12, <2>1, <2>6, <2>7 DEF Callibrating
  <2>9. TimingTyped'
    BY <1>1, <1>3, <1>6, <1>13, <2>6 DEF TimingTyped
  <2> QED
    BY <1>1, <1>10, <1>11, <2>6, <2>8, <2>9 DEF TimingInv, PerTick
<1> QED
  BY <1>14, <1>15, <1>16

LEMMA SetupInv ==
    ASSUME TimingInv, init_fsecs \/ init_sampler
    PROVE  TimingInv'
<1>1. CASE init_fsecs
  <2>1. /\ timing = "idle" /\ param' = [Defaults EXCEPT !.compensate = TRUE]
        /\ UNCHANGED <<tsc, utime, cyc, start_tick, cyc_per_tick, cal, timing, values,
                       samplecount, fastest>>
    BY <1>1 DEF init_fsecs
  <2>2. TimingTyped /\ samplecount = 0 /\ Best(values, samplecount, fastest)
    BY <2>1 DEF TimingInv
  <2>3. Best(values, samplecount, fastest)'
    BY <2>1, <2>2 DEF Best
  <2>4. TimingTyped'
    BY <2>1, <2>2 DEF TimingTyped
  <2> QED
    BY <2>1, <2>2, <2>3, <2>4 DEF TimingInv, PerTick
<1>2. CASE init_sampler
  <2>1. /\ timing' = "start" /\ values' = <<>> /\ samplecount' = 0 /\ fastest' = -1
        /\ UNCHANGED <<tsc, utime, cyc, start_tick, cyc_per_tick, cal, param>>
    BY <1>2 DEF init_sampler
  <2>2. Best(values, samplecount, fastest)'
    <3>1. <<>> \in Seq(Int) /\ Len(<<>>) = 0 /\ 0 < K
      BY TimingAssumption
    <3> QED
      BY <2>1, <3>1 DEF Best, FirstIsLeast
  <2>3. TimingTyped'
    BY <2>1 DEF TimingTyped, TimingInv
  <2> QED
    BY <2>1, <2>2, <2>3 DEF TimingInv, PerTick
<1> QED
  BY <1>1, <1>2

LEMMA TimingBegins ==
    ASSUME TimingInit
    PROVE  TimingInv
<1>1. tsc \in Counters /\ cyc \in Counters
  BY TimingAssumption DEF TimingInit, Counters
<1>2. Best(values, samplecount, fastest)
  <2>1. <<>> \in Seq(Int) /\ Len(<<>>) = 0 /\ 0 < K
    BY TimingAssumption
  <2> QED
    BY <2>1 DEF Best, FirstIsLeast, TimingInit
<1>3. TimingTyped
  BY <1>1 DEF TimingInit, TimingTyped
<1> QED
  BY <1>2, <1>3 DEF TimingInit, TimingInv

LEMMA TimingSteps ==
    ASSUME NothingComesAround, TimingInv, TimingNext \/ UNCHANGED tvars
    PROVE  TimingInv'
<1>1. CASE UNCHANGED tvars
  <2>1. Best(values, samplecount, fastest)' <=> Best(values, samplecount, fastest)
    BY <1>1 DEF tvars, Best, Within
  <2>2. \A d, n, late, f : Measured(d, n, late, f) => Measured(d, n, late, f)'
    BY <1>1 DEF tvars, Measured, Best, Within
  <2>3. TimingTyped' /\ (Callibrating => Callibrating')
    BY <1>1 DEF tvars, TimingTyped, Callibrating, TimingInv
  <2> QED
    BY <1>1, <2>1, <2>2, <2>3 DEF tvars, TimingInv, PerTick
<1>2. CASE TimingNext
  BY <1>2, SetupInv, StartInv, StopInv, RunInv, CallibrateInv DEF TimingNext
<1> QED
  BY <1>1, <1>2

LEMMA TimingInvReports ==
    ASSUME TimingInv
    PROVE  ReportsTheFastest
<1> SUFFICES ASSUME timing = "done" PROVE ReportsTheFastest
  BY DEF ReportsTheFastest
<1>1. /\ samplecount > 0 /\ samplecount \in Nat /\ Best(values, samplecount, fastest)
      /\ (param.compensate => cyc_per_tick # 0) /\ (cyc_per_tick = 0 \/ PerTick(cyc_per_tick))
      /\ cyc_per_tick \in Nat /\ TickCycles \in Nat
  BY TimingAssumption DEF TimingInv, TimingTyped
<1>2. Within(values[1], fastest)
  BY <1>1 DEF Best
<1>3. param.compensate =>
         /\ 0 <= cyc_per_tick - TickCycles
         /\ \E o \in Overheads : cyc_per_tick - TickCycles < THRESHOLD + o
  BY <1>1 DEF PerTick
<1> QED
  BY <1>2, <1>3 DEF Within, ReportsTheFastest

-----------------------------------------------------------------------------
(* The theorems. *)

\* The counter, the callibration and the samples are at every step what the measurement that
\* is under way can have left of them (clock.c, fcyc.c).
THEOREM TimingCorrect ==
    ASSUME NothingComesAround
    PROVE  Spec => []TimingInv
<1>1. Init => TimingInv
  BY TimingBegins DEF Init
<1>2. TimingInv /\ [Next]_vars => TimingInv'
  <2> SUFFICES ASSUME TimingInv, [Next]_vars PROVE TimingInv'
    OBVIOUS
  <2>1. TimingNext \/ UNCHANGED tvars
    BY DEF Next, vars
  <2> QED
    BY <2>1, TimingSteps
<1> QED
  BY <1>1, <1>2, PTL DEF Spec

\* fcyc returns the time of the fastest of its runs of f, up to the ticks of that run or, with
\* compensation, to what callibrate overestimated for every tick.
THEOREM FastestIsReported ==
    ASSUME NothingComesAround
    PROVE  Spec => []ReportsTheFastest
<1>1. TimingInv => ReportsTheFastest
  BY TimingInvReports
<1> QED
  BY <1>1, TimingCorrect, PTL
=============================================================================
