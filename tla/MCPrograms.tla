----------------------------- MODULE MCPrograms -----------------------------
(* TEST_RANGE is 4, and the roots of it 2 and 1. *)
EXTENDS Programs

TestRanges == <<4, 2, 1>>

\* "0" to "9" and a word with the odd positions set.
RandomWords == {Num(53), {i \in Bit : i % 2 = 1}}

\* What a user may give: integers, and the bits of floats that btest does not generate.
Floats == { {0, 30} \cup (24 .. 29),            \* between the two largest powers of 2
            23 .. 30, 22 .. 30,                 \* infinity, a NaN
            {22, 30}, {31, 22, 30},             \* 3, -3
            {0, 23, 30, 25, 26, 27},            \* 2^29 and a fraction
            {31} \cup {23, 30, 25, 26, 27},     \* -2^29
            23 .. 28 }                          \* 1/4
Integers32 == {{}, Bit, {31}, 0 .. 30, Num(57), Num(58),
               Minus(Num(127)), Minus(Num(149)), Minus(Num(150)), Minus(Num(126)),
               Not(Or({31}, Num(126))), Not(Or({31}, Num(127)))}
PlainWords == {<<"a">>, <<"&">>, <<"&", "a">>, <<"a", "'", "&">>}
QuotedWords == {<<>>, <<" ">>, <<"a", " ", "&">>, <<"&", " ">>}

\* The numbers of isAsciiDigit, by their bits.
ASSUME DigitsAssumption ==
    W > 6 /\ Num(6) = {1, 2} /\ Num(48) = {4, 5} /\ Num(56) = {3, 4, 5} /\ Num(57) = {0, 3, 4, 5}

UserWords == <<Floats \cup Integers32, Integers32, {{}, {0, 3}, Bit}>>
=============================================================================
