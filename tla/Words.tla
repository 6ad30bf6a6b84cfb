-------------------------------- MODULE Words -------------------------------
(***************************************************************************)
(* Machine words of W bits as the sets of their positions that hold 1, and *)
(* the operators of C on them.  int and unsigned share this form, as they  *)
(* share the registers.                                                    *)
(***************************************************************************)
EXTENDS Integers

CONSTANT W

ASSUME WAssumption == W \in Nat \ {0, 1}

Bit  == 0 .. W - 1
Word == SUBSET Bit
Sign == W - 1           \* the position of the sign

\* The word of a number below 2^31.
Num(n) == {i \in 0 .. 30 : (n \div 2^i) % 2 = 1}

Not(x)    == Bit \ x                                        \* ~x
And(x, y) == x \cap y                                       \* x & y
Or(x, y)  == x \cup y                                       \* x | y
Xor(x, y) == (x \ y) \cup (y \ x)                           \* x ^ y
LNot(x)   == IF x = {} THEN {0} ELSE {}                     \* !x
Bool(b)   == IF b THEN {0} ELSE {}
Shl(x, k) == {i \in Bit : i - k \in x}                      \* x << k
Shr(x, k) == {i \in Bit : i + k \in x}                      \* x >> k, unsigned
Sar(x, k) == {i \in Bit : (IF i + k < W THEN i + k ELSE Sign) \in x}   \* x >> k, int

\* The carry of x + y into position i: made at some j below, passed on in between.
CarryInto(i, x, y) ==
    \E j \in 0 .. i - 1 : /\ j \in x \cap y
                          /\ \A k \in j + 1 .. i - 1 : k \in x \cup y

\* x + y, which wraps: the builds of this code keep no check on a signed overflow.
Add(x, y) == {i \in Bit : ~(i \in Xor(x, y) <=> CarryInto(i, x, y))}
Minus(x)  == Add(Not(x), {0})

\* x <= y for words of type int: the highest position where they differ decides.
Leq(x, y) ==
    \/ x = y
    \/ \E d \in Xor(x, y) : /\ \A k \in Xor(x, y) : k <= d
                            /\ d \in (IF d = Sign THEN x ELSE y)
=============================================================================
