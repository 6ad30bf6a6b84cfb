-------------------------- MODULE TransposePrograms -------------------------
(***************************************************************************)
(* The transpose functions of src/lab4_cachelab/trans.c as straight-line   *)
(* programs.  The loops over blocks of the matrices become a sequence of   *)
(* blocks, the body of a block a sequence of assignments [dst, src].       *)
(***************************************************************************)
EXTENDS Integers, Sequences, SequencesExt

Elem(array, r, c) == [array |-> array, row |-> r, col |-> c]
A(r, c) == Elem("A", r, c)
B(r, c) == Elem("B", r, c)
T(i)    == Elem("t", 0, i)
Assign(dst, src) == [dst |-> dst, src |-> src]

\* The index pairs of for (m = m0; m <= m1; m++) for (n = n0; n <= n1; n++)
Loop(m0, m1, n0, n1) ==
    LET w == n1 - n0 + 1
    IN  [k \in 1 .. (m1 - m0 + 1) * w |-> <<m0 + (k - 1) \div w, n0 + ((k - 1) % w)>>]

\* B[n][m] = A[m][n] for all these pairs
Copies(m0, m1, n0, n1) ==
    LET p == Loop(m0, m1, n0, n1)
    IN  [k \in DOMAIN p |-> Assign(B(p[k][2], p[k][1]), A(p[k][1], p[k][2]))]

-----------------------------------------------------------------------------
normalCase(M, i) == Copies(i, i, 0, M - 1)

\* VARIANT of dealWith61x67: t0 is not cut at the last column.
dealWith61x67Whole(i, j) == Copies(i, IF i = 64 THEN 66 ELSE i + 15, j, j + 7)

\* Blocks of 16 by 8, at the edges of what is left of 61 columns and 67 rows
dealWith61x67(i, j) ==
    Copies(i, IF i = 64 THEN 66 ELSE i + 15, j, (IF j + 8 < 61 THEN j + 8 ELSE 61) - 1)

-----------------------------------------------------------------------------
(* dealWith64.  Block (m, n) of two by two elements of the 8 by 8 block at  *)
(* (x, x), the loads of it into four locals, and the stores.                *)

Quad(x, m, n) ==
    LET p == <<<<0, 0>>, <<0, 1>>, <<1, 0>>, <<1, 1>>>>
    IN  [k \in 1 .. 4 |-> Assign(B(x + n * 2 + p[k][2], x + m * 2 + p[k][1]),
                                 A(x + m * 2 + p[k][1], x + n * 2 + p[k][2]))]
LoadQuad(x, m, n, t) == [k \in 1 .. 4 |-> Assign(T(t + k - 1), Quad(x, m, n)[k].src)]
StoreQuad(x, m, n, t) == [k \in 1 .. 4 |-> Assign(Quad(x, m, n)[k].dst, T(t + k - 1))]

\* VARIANT of Diagonal64: the second block that collides is not kept in locals.
Diagonal64Direct(x) ==
    <<Assign(B(x + 3, x + 1), A(x + 1, x + 3))>> \o
    FlattenSeq([k \in 1 .. 4 |->
        LET m == k - 1
        IN  Quad(x, m, (m + 3) % 4) \o Quad(x, m, (m + 1) % 4)
            \o LoadQuad(x, m, (m + 2) % 4, 0)
            \o StoreQuad(x, m, (m + 2) % 4, 0) \o Quad(x, m, m)])

\* The block on the diagonal: its rows of A and of B share the cache lines.
Diagonal64(x) ==
    <<Assign(B(x + 3, x + 1), A(x + 1, x + 3))>> \o
    FlattenSeq([k \in 1 .. 4 |->
        LET m == k - 1
        IN  Quad(x, m, (m + 3) % 4) \o Quad(x, m, (m + 1) % 4)
            \o LoadQuad(x, m, (m + 2) % 4, 0) \o LoadQuad(x, m, m, 4)
            \o StoreQuad(x, m, (m + 2) % 4, 0) \o StoreQuad(x, m, m, 4)])

\* Two half rows of A, the columns x .. x + 3 of rows y and y + 1
HalfRows(y, x) == Loop(y, y + 1, x, x + 3)

OffDiagonal64(y, x) ==
    LET p == HalfRows(y, x + 4)
        loads  == [k \in 1 .. 8 |-> Assign(T(k - 1), A(p[k][1], p[k][2]))]
        stores == [k \in 1 .. 8 |-> Assign(B(p[k][2], p[k][1]), T(k - 1))]
    IN  Copies(y, y + 3, x, x + 3) \o loads
        \o Copies(y + 4, y + 7, x, x + 3)
        \o Copies(y + 4, y + 7, x + 4, x + 7)
        \o Copies(y + 2, y + 3, x + 4, x + 7) \o stores

dealWith64(i, j) == IF i = j THEN Diagonal64(i * 8) ELSE OffDiagonal64(i * 8, j * 8)

-----------------------------------------------------------------------------
(* dealWith32.  On the diagonal, B's own elements hold what A's lines would *)
(* have to be read again for.                                              *)

\* VARIANT of InPlace: the four that read what is overwritten come last.
InPlaceLate(x) ==
    LET from(d) == LET p == <<<<4, 6, 4, 4>>, <<4, 7, 5, 4>>, <<5, 6, 4, 5>>, <<5, 7, 5, 5>>,
                              <<6, 6, 4, 6>>, <<6, 7, 5, 6>>, <<7, 6, 4, 7>>, <<7, 7, 5, 7>>>>[d]
                   IN  Assign(B(x + p[1], x + p[2]), B(x + p[3], x + p[4]))
    IN  [k \in 1 .. 8 |-> from(k)]

\* The assignments inside the lower right quarter of B
InPlace(x) ==
    LET from(d) == LET p == <<<<6, 6, 4, 6>>, <<6, 7, 5, 6>>, <<7, 6, 4, 7>>, <<7, 7, 5, 7>>,
                              <<4, 6, 4, 4>>, <<4, 7, 5, 4>>, <<5, 6, 4, 5>>, <<5, 7, 5, 5>>>>[d]
                   IN  Assign(B(x + p[1], x + p[2]), B(x + p[3], x + p[4]))
    IN  [k \in 1 .. 8 |-> from(k)]

\* The locals to the places of the lower right quarter that are left
FromLocals(x) ==
    LET p == <<<<4, 4>>, <<5, 4>>, <<6, 4>>, <<7, 4>>, <<4, 5>>, <<5, 5>>, <<6, 5>>, <<7, 5>>>>
        order == <<1, 5, 2, 6, 3, 7, 4, 8>>
    IN  [k \in 1 .. 8 |-> Assign(B(x + p[order[k]][1], x + p[order[k]][2]), T(order[k] - 1))]

Diagonal32(x) ==
    LET q1 == Loop(4, 7, 0, 7)
        q2 == Loop(0, 3, 0, 3)
        q3 == Loop(0, 3, 4, 7)
        q4 == HalfRows(4, 4)
    IN  [k \in DOMAIN q1 |-> LET m == q1[k][1]
                                 n == q1[k][2]
                             IN  Assign(B(x + m, x + n), IF n < 4 THEN A(x + n, x + m)
                                                         ELSE A(x + m - 4, x + n - 4))]
        \o [k \in DOMAIN q2 |-> Assign(B(x + q2[k][1], x + q2[k][2]),
                                       B(x + 4 + q2[k][2], x + 4 + q2[k][1]))]
        \o [k \in DOMAIN q3 |-> Assign(B(x + q3[k][1], x + q3[k][2]),
                                       A(x + q3[k][2], x + q3[k][1]))]
        \o [k \in 1 .. 8 |-> Assign(T(k - 1), A(x + q4[k][1], x + q4[k][2]))]
        \o [k \in 1 .. 8 |-> Assign(B(x + q4[k][1], x + q4[k][2]),
                                    A(x + q4[k][1] + 2, x + q4[k][2]))]
        \o InPlace(x) \o FromLocals(x)

dealWith32(i, j) == IF i = j THEN Diagonal32(i * 8) ELSE Copies(i * 8, i * 8 + 7, j * 8, j * 8 + 7)

-----------------------------------------------------------------------------
\* transpose_submit: which function, over which blocks.  The second test says
\* M twice.
transpose_submit(M, N) ==
    IF M = 32 /\ N = 32 THEN "dealWith32"
    ELSE IF M = 64 /\ M = 64 THEN "dealWith64"
    ELSE IF M = 61 /\ N = 67 THEN "dealWith61x67"
    ELSE "normalCase"

BlocksOf(M, N) ==
    LET f == transpose_submit(M, N)
    IN  CASE f = "dealWith32"    -> Loop(0, 3, 0, 3)
          [] f = "dealWith64"    -> Loop(0, 7, 0, 7)
          [] f = "dealWith61x67" -> LET p == Loop(0, 4, 0, 7)
                                    IN  [k \in DOMAIN p |-> <<16 * p[k][1], 8 * p[k][2]>>]
          [] f = "normalCase"    -> Loop(0, N - 1, 0, 0)

Program(M, N, i, j) ==
    LET f == transpose_submit(M, N)
    IN  CASE f = "dealWith32"    -> dealWith32(i, j)
          [] f = "dealWith64"    -> dealWith64(i, j)
          [] f = "dealWith61x67" -> dealWith61x67(i, j)
          [] f = "normalCase"    -> normalCase(M, i)
=============================================================================
