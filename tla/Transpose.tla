------------------------------- MODULE Transpose ----------------------------
(***************************************************************************)
(* test-trans.c: the transpose functions of trans.c run in tracegen.c, and *)
(* their trace through the cache simulator of CacheSim with s = 5, E = 1,  *)
(* b = 5.  A step is one access to memory; the elements of A are told      *)
(* apart by where they are, and B begins with other values.                *)
(***************************************************************************)
EXTENDS TransposePrograms

CONSTANTS
    Shapes,     \* pairs <<M, N>>: A has N rows of M columns
    Base,       \* the address of A modulo the size of the cache
    BOffset,    \* how far behind A B is, and the first of tracegen's variables
    Globals,
    Reported    \* the misses src/lab4_cachelab/README.md reports for a shape

VARIABLES
    M, N,
    stage,      \* what tracegen's trace is at: "before", "trans", "after", "done"
    block,      \* the block of the matrices
    k,          \* the assignment, or the access of "before" and "after"
    loaded,     \* the right side has been read, into reg
    reg, locals,
    b,          \* the contents of B
    results,    \* what eval_perf records
    blocks, currentTime, hits, misses, evictions, lastUse

Cache == INSTANCE CacheSim WITH W <- 20, s <- 5, E <- 1, b <- 5, Addrs <- {}, MaxTime <- 2^14

cacheVars == <<blocks, currentTime, hits, misses, evictions, lastUse>>
codeVars  == <<M, N, stage, block, k, loaded, reg, locals, b, results>>
vars      == <<codeVars, cacheVars>>

Old == -1
ValueOfA(r, c) == r * M + c

\* tracegen's main: initMatrix fills A and B; test-trans starts with no results.
Init ==
    /\ \E shape \in Shapes : M = shape[1] /\ N = shape[2]
    /\ stage = "before" /\ block = 1 /\ k = 1 /\ loaded = FALSE
    /\ reg = Old /\ locals = [i \in 0 .. 7 |-> Old]
    /\ b = [r \in 0 .. M - 1 |-> [c \in 0 .. N - 1 |-> Old]]
    /\ results = [correct |-> FALSE, misses |-> Old]
    /\ Cache!Init

-----------------------------------------------------------------------------
(* Memory.  The trace begins with the store to MARKER_START and the loads of *)
(* the function's address, M and N, and ends with the store to MARKER_END.   *)

Before == <<<<"S", Globals + 12>>, <<"L", Globals + 32>>, <<"L", Globals + 4>>, <<"L", Globals>>>>
After  == <<<<"S", Globals + 13>>>>

Address(e) == IF e.array = "A" THEN Base + 4 * (e.row * M + e.col)
              ELSE Base + BOffset + 4 * (e.row * N + e.col)

InBounds(e) == CASE e.array = "A" -> e.row \in 0 .. N - 1 /\ e.col \in 0 .. M - 1
                 [] e.array = "B" -> e.row \in 0 .. M - 1 /\ e.col \in 0 .. N - 1
                 [] e.array = "t" -> e.col \in 0 .. 7

ValueOf(e) == CASE e.array = "A" -> ValueOfA(e.row, e.col)
                [] e.array = "B" -> b[e.row][e.col]
                [] e.array = "t" -> locals[e.col]

Blocks  == BlocksOf(M, N)
Current == Program(M, N, Blocks[block][1], Blocks[block][2])

-----------------------------------------------------------------------------
\* The accesses of main around the call
Around(accesses, next) ==
    /\ Cache!processLine(accesses[k][1], accesses[k][2])
    /\ IF k < Len(accesses) THEN k' = k + 1 /\ stage' = stage
       ELSE k' = 1 /\ stage' = next
    /\ UNCHANGED <<M, N, block, loaded, reg, locals, b, results>>

CallTrans == stage = "before" /\ Around(Before, "trans")
ReturnFromTrans == stage = "after" /\ Around(After, "validate")

\* On to the next assignment of this block, the next block, or the end
Advance(program) ==
    IF k < Len(program) THEN k' = k + 1 /\ UNCHANGED <<block, stage>>
    ELSE /\ k' = 1
         /\ IF block < Len(Blocks) THEN block' = block + 1 /\ UNCHANGED stage
            ELSE stage' = "after" /\ UNCHANGED block

\* The right side of an assignment; a local is assigned in the same step.
Load ==
    /\ stage = "trans" /\ ~loaded
    /\ LET program == Current
           dst == program[k].dst
           src == program[k].src
       IN  /\ src.array # "t"
           /\ Cache!processLine("L", Address(src))
           /\ IF dst.array = "t"
              THEN /\ locals' = [locals EXCEPT ![dst.col] = ValueOf(src)]
                   /\ Advance(program) /\ UNCHANGED <<loaded, reg>>
              ELSE /\ loaded' = TRUE /\ reg' = ValueOf(src)
                   /\ UNCHANGED <<locals, k, block, stage>>
    /\ UNCHANGED <<M, N, b, results>>

\* The left side of an assignment, an element of B
Store ==
    /\ stage = "trans"
    /\ LET program == Current
           dst == program[k].dst
           src == program[k].src
       IN  /\ loaded \/ src.array = "t"
           /\ Cache!processLine("S", Address(dst))
           /\ b' = [b EXCEPT ![dst.row][dst.col] = IF loaded THEN reg ELSE ValueOf(src)]
           /\ Advance(program)
    /\ loaded' = FALSE
    /\ UNCHANGED <<M, N, reg, locals, results>>

\* correctTrans, the reference of validate
correctTrans == [r \in 0 .. M - 1 |-> [c \in 0 .. N - 1 |-> ValueOfA(c, r)]]

\* validate: every element against correctTrans
validate == \A r \in 0 .. M - 1, c \in 0 .. N - 1 : b[r][c] = correctTrans[r][c]

\* eval_perf: nothing is recorded for a function that fails validation.
eval_perf ==
    /\ stage = "validate"
    /\ stage' = "done"
    /\ results' = IF validate THEN [correct |-> TRUE, misses |-> misses] ELSE results
    /\ UNCHANGED <<M, N, block, k, loaded, reg, locals, b, cacheVars>>

Next == CallTrans \/ Load \/ Store \/ ReturnFromTrans \/ eval_perf

Spec == Init /\ [][Next]_vars

-----------------------------------------------------------------------------
\* No access leaves the matrices: the edge blocks of 61 by 67 end where the
\* matrices do (dealWith61x67), and the quarters stay in their block.
AccessesInBounds ==
    stage = "trans" =>
        LET program == Current
        IN  \A e \in {program[k].src, program[k].dst} : InBounds(e)

\* Whatever the order of the copies and whichever of B's own elements serve as
\* intermediate storage, B ends as the transpose of A, and test-trans says so
\* (dealWith32, dealWith64, dealWith61x67, normalCase, validate).
Transposed ==
    stage = "done" => /\ results.correct
                      /\ \A r \in 0 .. M - 1, c \in 0 .. N - 1 : b[r][c] = ValueOfA(c, r)

\* The number of misses is the one the README reports, where it reports one: on
\* the diagonal A and B compete for the same lines, and only this order of
\* copies keeps within the limit (README.md:81, 141, 152).
MissesAsReported ==
    (stage = "done" /\ <<M, N>> \in DOMAIN Reported) => results.misses = Reported[<<M, N>>]
=============================================================================
