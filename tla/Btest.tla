-------------------------------- MODULE Btest -------------------------------
(***************************************************************************)
(* btest of src/lab1_datalab: for every puzzle of test_set it generates    *)
(* argument values, calls the solution and the reference on every          *)
(* combination until they differ, and counts points.  An alarm ends a test *)
(* that takes too long.                                                    *)
(***************************************************************************)
EXTENDS Bits, Sequences

CONSTANTS
    TestRange,      \* [1..3 -> Nat]: TEST_RANGE, its square and its cube root
    Randoms,        \* bound: the words random_val may draw
    UserArgs,       \* bound: the words given with -1, -2 and -3, for 1, 2 or 3 arguments
    NoArg,          \* an option that is not given
    MaxAlarms       \* bound: tests that an alarm ends

\* decl.c: the puzzles, how many arguments they have, if these are floats (ranges
\* {1,1}), and the rating.
test_set == <<
    [name |-> "bitXor",         args |-> 2, float |-> FALSE, rating |-> 1],
    [name |-> "tmin",           args |-> 0, float |-> FALSE, rating |-> 1],
    [name |-> "isTmax",         args |-> 1, float |-> FALSE, rating |-> 1],
    [name |-> "allOddBits",     args |-> 1, float |-> FALSE, rating |-> 2],
    [name |-> "negate",         args |-> 1, float |-> FALSE, rating |-> 2],
    [name |-> "isAsciiDigit",   args |-> 1, float |-> FALSE, rating |-> 3],
    [name |-> "conditional",    args |-> 3, float |-> FALSE, rating |-> 3],
    [name |-> "isLessOrEqual",  args |-> 2, float |-> FALSE, rating |-> 3],
    [name |-> "logicalNeg",     args |-> 1, float |-> FALSE, rating |-> 4],
    [name |-> "howManyBits",    args |-> 1, float |-> FALSE, rating |-> 4],
    [name |-> "floatScale2",    args |-> 1, float |-> TRUE,  rating |-> 4],
    [name |-> "floatFloat2Int", args |-> 1, float |-> TRUE,  rating |-> 4],
    [name |-> "floatPower2",    args |-> 1, float |-> TRUE,  rating |-> 4] >>

solution_funct(name, v) ==
    CASE name = "bitXor"         -> bitXor(v[1], v[2])
      [] name = "tmin"           -> tmin
      [] name = "isTmax"         -> isTmax(v[1])
      [] name = "allOddBits"     -> allOddBits(v[1])
      [] name = "negate"         -> negate(v[1])
      [] name = "isAsciiDigit"   -> isAsciiDigit(v[1])
      [] name = "conditional"    -> conditional(v[1], v[2], v[3])
      [] name = "isLessOrEqual"  -> isLessOrEqual(v[1], v[2])
      [] name = "logicalNeg"     -> logicalNeg(v[1])
      [] name = "howManyBits"    -> howManyBits(v[1])
      [] name = "floatScale2"    -> floatScale2(v[1])
      [] name = "floatFloat2Int" -> floatFloat2Int(v[1])
      [] name = "floatPower2"    -> floatPower2(v[1])

test_funct(name, v) ==
    CASE name = "bitXor"         -> Xor(v[1], v[2])
      [] name = "tmin"           -> {31}
      [] name = "isTmax"         -> test_isTmax(v[1])
      [] name = "allOddBits"     -> test_allOddBits(v[1])
      [] name = "negate"         -> Minus(v[1])
      [] name = "isAsciiDigit"   -> test_isAsciiDigit(v[1])
      [] name = "conditional"    -> test_conditional(v[1], v[2], v[3])
      [] name = "isLessOrEqual"  -> test_isLessOrEqual(v[1], v[2])
      [] name = "logicalNeg"     -> test_logicalNeg(v[1])
      [] name = "howManyBits"    -> test_howManyBits(v[1])
      [] name = "floatScale2"    -> test_floatScale2(v[1])
      [] name = "floatFloat2Int" -> test_floatFloat2Int(v[1])
      [] name = "floatPower2"    -> test_floatPower2(v[1])

-----------------------------------------------------------------------------
VARIABLES
    step,           \* where run_tests is: "next", "gen", "jump", "arm", "call", "back",
                    \* "done", "lost"
    test,           \* i of run_tests: the puzzle it is at
    test_fname,     \* -f: the only puzzle to test, or NoArg
    argval,         \* [1..3 -> Word or NoArg]: -1, -2 and -3
    drawn,          \* the random values in the arrays of test values, per argument
    at,             \* <<a1, a2, a3>>: the loops over the values
    terrors,        \* what the test reports
    alarmOf,        \* the test whose alarm is to come, or 0
    timedOut,       \* history: the tests that an alarm ended, where, and whose it was
    compared,       \* history: the argument values this test has compared, by their places
    points, max_points,
    errors          \* [puzzles tested so far -> errors]

bvars == <<step, test, test_fname, argval, drawn, at, terrors, alarmOf, timedOut,
           compared, points, max_points, errors>>

Puzzle == test_set[test]

\* gen_vals, the values around zero, the least normalized number, one and the largest
\* normalized number (for which it takes 0x7f000000), then infinities and NaNs.
FloatVal(n, range) ==
    LET i    == Num(n \div 12)
        less == Minus(i)
        base == n % 12
        v == CASE base \in {0, 1}        -> i
               [] base \in {2, 4}        -> Add({23}, i)
               [] base \in {3, 5}        -> Add({23}, less)
               [] base \in {6, 8}        -> Add(23 .. 29, i)
               [] base \in {7, 9}        -> Add(23 .. 29, less)
               [] base \in {10, 11}      -> Add(24 .. 30, less)
    IN  IF n < 12 * range
        THEN IF base \in {1, 4, 5, 8, 9, 11} THEN Or({31}, v) ELSE v
        ELSE << 23 .. 30, 23 .. 31, 22 .. 30, 22 .. 31 >>[n - 12 * range + 1]

\* gen_vals, the values around TMin, TMax and zero, and random ones.
IntVal(n, random) ==
    LET i == n \div 5
    IN  CASE n % 5 = 0 -> Add({31}, Num(i))
          [] n % 5 = 1 -> Add(0 .. 30, Minus(Num(i)))
          [] n % 5 = 2 -> Num(i)
          [] n % 5 = 3 -> Minus(Num(i))
          [] n % 5 = 4 -> random[i]

Count(arg) ==
    CASE argval[arg] # NoArg -> 1
      [] argval[arg] = NoArg /\ Puzzle.float -> 12 * TestRange[Puzzle.args] + 4
      [] OTHER -> 5 * TestRange[Puzzle.args]

Value(arg) ==
    CASE argval[arg] # NoArg -> argval[arg]
      [] argval[arg] = NoArg /\ Puzzle.float -> FloatVal(at[arg], TestRange[Puzzle.args])
      [] OTHER -> IntVal(at[arg], drawn[arg])

Values == [arg \in 1 .. Puzzle.args |-> Value(arg)]

-----------------------------------------------------------------------------
\* main: either every puzzle is tested with generated values, or the one named with -f
\* with the arguments given for it.
BtestInit ==
    /\ step = "next" /\ test = 1
    /\ \/ test_fname = NoArg /\ argval = [k \in 1 .. 3 |-> NoArg]
       \/ \E t \in {test_set[i] : i \in DOMAIN test_set} :
             /\ test_fname = t.name
             /\ \E given \in [1 .. t.args -> IF t.args = 0 THEN {} ELSE UserArgs[t.args]] :
                    argval = [k \in 1 .. 3 |-> IF k <= t.args THEN given[k] ELSE NoArg]
    /\ drawn = <<>> /\ at = <<0, 0, 0>> /\ terrors = 0
    /\ alarmOf = 0 /\ timedOut = {} /\ compared = {}
    /\ points = 0 /\ max_points = 0 /\ errors = <<>>

\* The loop of run_tests: the next puzzle, unless -f names another, or the totals.
NextTest ==
    /\ step = "next"
    /\ IF test > Len(test_set)
       THEN step' = "done" /\ UNCHANGED <<test, errors>>
       ELSE IF test_fname \in {NoArg, Puzzle.name}
       THEN step' = "gen" /\ UNCHANGED <<test, errors>>
       ELSE test' = test + 1 /\ UNCHANGED <<step, errors>>
    /\ UNCHANGED <<test_fname, argval, drawn, at, terrors, alarmOf, timedOut, compared,
                   points, max_points>>

\* test_function up to sigsetjmp: the arrays of values.  Values of float puzzles and
\* given ones are not random.
GenVals ==
    /\ step = "gen"
    /\ LET range == IF Puzzle.float \/ Puzzle.args = 0 \/ argval[1] # NoArg
                    THEN 0 ELSE TestRange[Puzzle.args]
       IN  drawn' \in [1 .. Puzzle.args -> [0 .. range - 1 -> Randoms]]
    /\ step' = "jump"
    /\ at' = <<0, 0, 0>> /\ terrors' = 0
    /\ UNCHANGED <<test, test_fname, argval, alarmOf, timedOut, compared,
                   points, max_points, errors>>

\* sigsetjmp: from here on an alarm comes back to this test.
SetJump ==
    /\ step = "jump" /\ step' = "arm"
    /\ UNCHANGED <<test, test_fname, argval, drawn, at, terrors, alarmOf, timedOut, compared,
                   points, max_points, errors>>

\* VARIANT of Arm: the alarm of an earlier test is not replaced.
ArmOnce ==
    /\ step = "arm" /\ step' = "call"
    /\ alarmOf' = (IF alarmOf = 0 THEN test ELSE alarmOf)
    /\ UNCHANGED <<test, test_fname, argval, drawn, at, terrors, timedOut, compared,
                   points, max_points, errors>>

\* alarm(timeout_limit), which replaces an alarm of an earlier test.
Arm ==
    /\ step = "arm" /\ step' = "call"
    /\ alarmOf' = test
    /\ UNCHANGED <<test, test_fname, argval, drawn, at, terrors, timedOut, compared,
                   points, max_points, errors>>

\* The loops over a1, a2 and a3: the innermost that has not ended goes on, the ones
\* inside it start over; <<>> when all have ended.
Advance(pos) ==
    LET more == {k \in 1 .. Puzzle.args : pos[k] + 1 < Count(k)}
    IN  IF more = {} THEN <<>>
        ELSE [k \in 1 .. 3 |-> CASE k < Max(more) -> pos[k] [] k = Max(more) -> pos[k] + 1
                                 [] OTHER -> 0]

\* test_0_arg to test_3_arg: solution and reference; the first difference ends the test.
Call ==
    LET v     == Values
        wrong == solution_funct(Puzzle.name, v) # test_funct(Puzzle.name, v)
    IN  /\ step = "call"
        /\ IF wrong \/ Advance(at) = <<>>
           THEN /\ terrors' = (IF wrong THEN 1 ELSE 0)
                /\ step' = "back"
                /\ UNCHANGED at
           ELSE at' = Advance(at) /\ UNCHANGED <<terrors, step>>
        /\ compared' = compared \cup {[k \in 1 .. Puzzle.args |-> at[k]]}
        /\ UNCHANGED <<test, test_fname, argval, drawn, alarmOf, timedOut,
                       points, max_points, errors>>

\* run_tests: the score of the test that returned.  The arrays and counters of the test
\* are not looked at again.
Back ==
    /\ step = "back"
    /\ errors' = Append(errors, terrors)
    /\ points' = points + (IF terrors = 0 THEN Puzzle.rating ELSE 0)
    /\ max_points' = max_points + Puzzle.rating
    /\ test' = test + 1 /\ step' = "next"
    /\ drawn' = <<>> /\ at' = <<0, 0, 0>> /\ terrors' = 0 /\ compared' = {}
    /\ UNCHANGED <<test_fname, argval, alarmOf, timedOut>>

\* SIGALRM: timeout_handler jumps to the last sigsetjmp.  Nothing cancels the alarm when
\* a test returns: if it comes outside a test, the frame it jumps to is gone, and
\* what the program does then is undefined.
Alarm ==
    /\ alarmOf # 0 /\ step \notin {"done", "lost"} /\ Cardinality(timedOut) < MaxAlarms
    /\ alarmOf' = 0
    /\ IF step \in {"arm", "call"}
       THEN /\ terrors' = 1 /\ step' = "back"
            /\ timedOut' = timedOut \cup {[test |-> test, place |-> step, of |-> alarmOf]}
       ELSE step' = "lost" /\ UNCHANGED <<terrors, timedOut>>
    /\ UNCHANGED <<test, test_fname, argval, drawn, at, compared, points, max_points, errors>>

BtestStep == NextTest \/ GenVals \/ SetJump \/ Arm \/ Call \/ Back
BtestNext == BtestStep \/ Alarm
=============================================================================
