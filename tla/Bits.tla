-------------------------------- MODULE Bits --------------------------------
(***************************************************************************)
(* The puzzles of src/lab1_datalab/bits.c, and what tests.c says they      *)
(* should return.  The code has W = 32; the integer puzzles are written    *)
(* for any W, the ones on float need 1 sign, 8 exponent and 23 fraction    *)
(* bits.                                                                   *)
(***************************************************************************)
EXTENDS Words, FiniteSetsExt

-----------------------------------------------------------------------------
(* Integer puzzles. *)

bitXor(x, y) ==
    LET t1 == And(Not(x), y)
        t2 == And(x, Not(y))
        t3 == And(Not(t1), Not(t2))
    IN  Not(t3)

tmin == Shl({0}, Sign)

isTmax(x) == LNot(Or(Add(Add(x, x), {1}), LNot(Not(x))))

\* a is 0x55 four times: the even positions.
allOddBits(x) ==
    LET a == {i \in Bit : i % 2 = 0}
    IN  LNot(Not(Or(a, x)))

negate(x) == Add(Not(x), {0})

isAsciiDigit(x) ==
    LET c == Xor(Num(6), Sar(x, 3))
        d == Xor(x, Num(56))
        e == Xor(x, Num(57))
    IN  Or(Or(LNot(c), LNot(d)), LNot(e))

conditional(x, y, z) ==
    LET a == Not({})
        k == Add(LNot(And(x, a)), a)
    IN  Or(And(k, y), And(Not(k), z))

\* VARIANT of isLessOrEqual: the difference decides whatever the signs are.
isLessOrEqualNoSigns(x, y) == LET a == Add(x, Add(Not(y), {0}))
                              IN  Or(LNot(a), LNot(Add({1}, Sar(a, Sign))))

isLessOrEqual(x, y) ==
    LET a == Add(x, Add(Not(y), {0}))
        c == Sar(a, Sign)
        e == Or(Add(Sar(y, Sign), {0}), Sar(x, Sign))
        f == Add({1}, And(c, Not(LNot(LNot(e)))))
        d == Or(Add(Sar(x, Sign), {0}), Sar(y, Sign))
    IN  Or(Or(LNot(a), LNot(f)), LNot(d))

logicalNeg(x) ==
    LET a == Sar(x, Sign)
        k == Not(Shl({0}, Sign))
        b == Sar(Add(x, k), Sign)
    IN  Add(Or(a, b), {0})

\* From position W-2 down to 0 the first 0 of the word made negative is at k: then
\* sum gets k+2, and no later term adds anything.  Without one it ends as 1.
howManyBits(x) ==
    LET y     == Not(Xor(x, Sar(x, Sign)))
        clear == {k \in 0 .. Sign - 1 : k \notin y}
    IN  Num(IF clear = {} THEN 1 ELSE Max(clear) + 2)

-----------------------------------------------------------------------------
(* Puzzles on the bits of a float. *)

FracBits == 0 .. 22
ExpBits  == 23 .. 30

\* The number in the exponent field of uf, and the one it stands for.
Exp(uf) == MapThenSumSet(LAMBDA i : 2^(i - 23), uf \cap ExpBits)
E(uf)   == Exp(uf) - 127

floatScale2(uf) ==
    CASE uf \cap ExpBits = {} -> Or(uf \cap {31}, Shl(uf, 1))
      [] ExpBits \subseteq uf -> uf
      [] OTHER -> Add(uf, {23})

\* s*2, n times, unless bit 30 of s is set before one of them.
Doubled[n \in Nat, s \in SUBSET (0 .. 31)] ==
    IF n = 0 THEN s
    ELSE IF 30 \in s THEN {31} ELSE Doubled[n - 1, Shl(s, 1)]

\* Above E = 22 the whole significand is doubled; below, only its leading 1 is kept,
\* already at position E, and is doubled E times.
floatFloat2Int(uf) ==
    LET signed(f) == IF 31 \in uf THEN Minus(f) ELSE f
    IN  CASE ExpBits \subseteq uf -> {31}
          [] Exp(uf) = 0 \/ E(uf) < 0 -> {}
          [] E(uf) \in 0 .. 22 -> Shl(signed({E(uf)}), E(uf))
          [] ~(ExpBits \subseteq uf) /\ E(uf) > 22 ->
                Doubled[E(uf) - 23, signed(Or(uf \cap FracBits, {23}))]

floatPower2(x) ==
    LET exp == Add(x, Num(127))
    IN  CASE 31 \in exp -> {}
          [] 31 \notin exp /\ ~Leq(exp, Num(254)) -> ExpBits
          [] OTHER -> Shl(exp, 23)

-----------------------------------------------------------------------------
(* The answers btest compares with.  float is IEEE single precision, and a cast of *)
(* a float that no int can hold gives 0x80000000.                                  *)

test_isTmax(x) == Bool(x = Bit \ {Sign})
test_allOddBits(x) == Bool(\A i \in Bit : i % 2 = 1 => i \in x)
test_isAsciiDigit(x) == Bool(Leq(Num(48), x) /\ Leq(x, Num(57)))
test_conditional(x, y, z) == IF x # {} THEN y ELSE z
test_isLessOrEqual(x, y) == Bool(Leq(x, y))
test_logicalNeg(x) == Bool(x = {})

test_howManyBits(x) ==
    LET a == IF Sign \in x THEN Not(x) ELSE x
    IN  Num(IF a = {} THEN 1 ELSE Max(a) + 2)

test_floatScale2(uf) ==
    CASE ExpBits \subseteq uf -> uf
      [] uf \cap ExpBits = {} -> Or(uf \cap {31}, Shl(uf, 1))
      [] uf \cap ExpBits = ExpBits \ {23} -> Or(uf \cap {31}, ExpBits)
      [] OTHER -> Add(uf, {23})

test_floatFloat2Int(uf) ==
    LET f == Or(uf \cap FracBits, {23})
        m == IF E(uf) >= 23 THEN Shl(f, E(uf) - 23) ELSE Shr(f, 23 - E(uf))
    IN  CASE E(uf) < 0 -> {}
          [] E(uf) > 30 -> {31}
          [] OTHER -> IF 31 \in uf THEN Minus(m) ELSE m

test_floatPower2(x) ==
    CASE Leq(Num(128), x) -> ExpBits
      [] Leq(Minus(Num(126)), x) /\ Leq(x, Num(127)) -> Shl(Add(x, Num(127)), 23)
      [] Leq(Minus(Num(149)), x) /\ Leq(x, Minus(Num(127))) ->
            {i \in FracBits : Add(x, Num(149)) = Num(i)}
      [] OTHER -> {}
=============================================================================
