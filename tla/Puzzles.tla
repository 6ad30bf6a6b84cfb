------------------------------- MODULE Puzzles -------------------------------
(***************************************************************************)
(* What btest finds out about the bit puzzles of lab 1, and the searches   *)
(* about the inputs of the bomb of lab 2.                                  *)
(***************************************************************************)
EXTENDS Btest, BombSearch

-----------------------------------------------------------------------------
(* btest *)

\* Where the float puzzles of bits.c are wrong.  floatScale2: the double of a number
\* that is not a power of 2 overflows to infinity, and it returns a NaN.
\* floatFloat2Int: it drops the fraction and doubles twice when there is one to drop,
\* and takes the sign of a negative number for an overflow.  floatPower2: it returns 0
\* for every power that is denormal, and where x + 127 overflows.
IsWrong(name, x) ==
    CASE name = "floatScale2"    -> Exp(x) = 254 /\ x \cap FracBits # {}
      [] name = "floatFloat2Int" -> E(x) \in 1 .. 22 \/ (31 \in x /\ E(x) \in 24 .. 30)
      [] name = "floatPower2"    -> \/ Leq(Minus(Num(149)), x) /\ Leq(x, Minus(Num(127)))
                                    \/ Leq(Not(Or({31}, Num(126))), x) /\ 31 \notin x
      [] OTHER -> FALSE

\* btest sees no difference between a solution and its reference on the values it
\* generates.  With the arguments of a user it sees one exactly for these: the bits of
\* any other argument are right, and so are all the integer puzzles.
WrongExactlyOnFloats ==
    step = "call" =>
        (solution_funct(Puzzle.name, Values) # test_funct(Puzzle.name, Values)
            <=> test_fname # NoArg /\ Puzzle.float /\ IsWrong(Puzzle.name, Values[1]))

\* The places in the arrays of all combinations of values of this puzzle's arguments.
Combinations ==
    LET arguments == 1 .. Puzzle.args
        places == UNION {0 .. Count(k) - 1 : k \in arguments}
    IN  {p \in [arguments -> places] : \A k \in arguments : p[k] < Count(k)}

\* An alarm, which nothing cancels, ends no test but the one that set it, or the one after
\* that if it comes there between sigsetjmp and alarm.  When all puzzles are tested, just
\* those ended in this way are without their points; and a puzzle reported without error
\* agreed with its reference on every combination of the values.
VerdictsAreOwn ==
    /\ \A e \in timedOut : e.of = e.test \/ (e.place = "arm" /\ e.of = e.test - 1)
    /\ test_fname = NoArg /\ step = "done" =>
          points = MapThenSumSet(LAMBDA i : test_set[i].rating,
                                 DOMAIN test_set \ {e.test : e \in timedOut})
    /\ step = "back" /\ terrors = 0 => compared = Combinations

-----------------------------------------------------------------------------
(* The searches *)

\* At its end a search has printed all answers in its range, but for phase 4: the
\* reconstruction of func4 gives 0 for 7 alone, the bomb also for 0, 1 and 3.
AnswersPrinted ==
    /\ search = "phase4" /\ input > 14 =>
          /\ {x \in 0 .. 14 : <<x, 0>> \in printed} = {7}
          /\ {x \in 0 .. 14 : func4OfBomb[x, 0, 14] = 0} = {0, 1, 3, 7}
    /\ search = "phase5" /\ place > 6 =>
          printed = {<<41, 47, 46, 37, 38, 39>>} /\ \A v \in printed : phase5OfBomb(v)
    /\ search = "phase6" /\ input = <<>> =>
          printed = {v \in [1 .. 6 -> 1 .. 6] : phase6OfBomb(v)}
    /\ search = "secret" /\ input > 1001 =>
          printed = {x \in 0 .. 1001 : secret_phaseOfBomb(x) = 2} /\ printed = {20, 22}

=============================================================================
