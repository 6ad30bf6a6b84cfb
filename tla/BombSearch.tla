------------------------------ MODULE BombSearch -----------------------------
(***************************************************************************)
(* The programs of src/lab2_bomb that look for the inputs of four phases   *)
(* of the bomb: each tries every input of a range on a C++ reconstruction  *)
(* of the phase and prints those it accepts.  The operators named OfBomb   *)
(* are the phases of the bomb itself, from its disassembly.                *)
(***************************************************************************)
EXTENDS Integers, Sequences

-----------------------------------------------------------------------------
(* phase4.cpp *)

\* Half of a difference, rounded to zero: the sign bit is added, then it is shifted.
Half(d) == IF d < 0 THEN -((-d) \div 2) ELSE d \div 2

\* func4 of the bomb: what the call returns is in eax and goes on being used.
func4OfBomb[x \in Nat, y \in Int, z \in Int] ==
    LET t1 == Half(z - y) + y
    IN  CASE t1 = x -> 0
          [] t1 < x -> 2 * func4OfBomb[x, t1 + 1, z] + 1
          [] t1 > x -> 2 * func4OfBomb[x, y, t1 - 1]

\* func4 of phase4.cpp calls itself as the bomb does, but drops the result: t0 is a
\* local variable and still has its value from before the call.
func4(x, y, z) ==
    LET t0 == Half(z - y)
        t1 == t0 + y
    IN  CASE t1 = x -> 0
          [] t1 < x -> 0 + 0 + 1
          [] t1 > x -> t0 + t0

-----------------------------------------------------------------------------
(* phase5.cpp: characters by their codes. *)

secreteCode == <<"m", "a", "d", "u", "i", "e", "r", "s", "n", "f", "o", "t", "v", "b", "y", "l">>
flyers == <<"f", "l", "y", "e", "r", "s">>

\* The character of secreteCode that the low four bits of a code choose.
Chosen(c) == secreteCode[(c % 16) + 1]

\* phase5 asked for the n-th character alone, as main does.
phase5(input, n) == Chosen(input[n]) = flyers[n]

phase5OfBomb(input) == [n \in 1 .. 6 |-> Chosen(input[n])] = flyers

-----------------------------------------------------------------------------
(* phase6.cpp *)

\* RegisterJoe and the simulated memory hold 64 bits; geti32 sees the lower half.
Long(hi, lo) == [hi |-> hi, lo |-> lo]
geti32(w) == w.lo

\* The words of the list's nodes, in the order of their addresses.
value == << Long(1, 332), Long(2, 168), Long(3, 924), Long(4, 691), Long(5, 477), Long(6, 443) >>

\* address[5], past the end of the table: no address of the simulated memory.
Stray == 7

\* Every number is compared with those after it.
AllDiffer(v) == \A i \in 1 .. 6 : \A j \in i + 1 .. 6 : v[i] # v[j]

\* Every number x is replaced by 7 - x.
Complements(v) == [i \in 1 .. 6 |-> 7 - v[i]]

\* The loop that counts to n through address[], whose first element is the second node.
LookUp(n) == IF n <= 6 THEN n ELSE Stray

\* The node a complement chooses; only 2 and more are looked up.
NodeOf(n) == IF n <= 1 THEN 1 ELSE LookUp(n)

\* The nodes are linked in this order and then followed five times: no node may be
\* below the next.  A stray node is not in the simulated memory, only its link is: it
\* is found missing as the next one, and reads as 0 at the head.
Descends(node) ==
    LET word(n) == IF n = Stray THEN Long(0, 0) ELSE value[n]
    IN  \A i \in 1 .. 5 : /\ node[i + 1] # Stray
                          /\ geti32(word(node[i])) >= geti32(word(node[i + 1]))

\* The numbers are at most 6, compared as signed, and differ.
phase6(v) ==
    /\ \A i \in 1 .. 6 : v[i] - 1 <= 5
    /\ AllDiffer(v)
    /\ LET c == Complements(v) IN Descends([i \in 1 .. 6 |-> NodeOf(c[i])])

\* The bomb compares v[i] - 1 with 5 as unsigned: 0 explodes.
phase6OfBomb(v) ==
    /\ \A i \in 1 .. 6 : v[i] \in 1 .. 6
    /\ \A i, j \in 1 .. 6 : i # j => v[i] # v[j]
    /\ \A i \in 1 .. 5 : geti32(value[7 - v[i]]) >= geti32(value[7 - v[i + 1]])

-----------------------------------------------------------------------------
(* secret_phase.cpp: the tree in the simulated memory, by the values in its nodes.  *)
(* 0 is the null pointer; an address that init leaves out is Absent.                *)

Absent == -1
Node(l, r) == [left |-> l, right |-> r]

simulatedMemory ==
    [n \in {36, 8, 50, 6, 22, 45, 107, 1, 7, 20, 35, 40, 47, 99, 1001} |->
        CASE n = 36   -> Node(8, 50)
          [] n = 8    -> Node(6, 22)
          [] n = 50   -> Node(45, 107)
          [] n = 22   -> Node(20, 35)
          [] n = 45   -> Node(40, 47)
          [] n = 6    -> Node(1, 7)
          [] n = 107  -> Node(99, 1001)
          [] n = 7    -> Node(Absent, 0)
          [] n = 1001 -> Node(0, Absent)
          [] OTHER    -> Node(0, 0)]

\* The links fun7 follows for x, and what it makes of them on the way back.
fun7[n \in Int, x \in Int] ==
    CASE n \in {0, Absent} -> -1
      [] n = x -> 0
      [] n > 0 /\ n < x -> 2 * fun7[simulatedMemory[n].right, x] + 1
      [] n > x -> 2 * fun7[simulatedMemory[n].left, x]

\* VARIANT of secret_phase: the input is looked for one too low.
secret_phaseLow(x) == IF x - 1 <= 1000 THEN fun7[36, x - 1] ELSE -1

\* Inputs above 1001 explode, compared as signed; the bomb compares as unsigned.
secret_phase(x) == IF x - 1 <= 1000 THEN fun7[36, x] ELSE -1
secret_phaseOfBomb(x) == IF x - 1 \in 0 .. 1000 THEN fun7[36, x] ELSE -1

-----------------------------------------------------------------------------
VARIABLES
    search,     \* the program: "phase4", "phase5", "phase6" or "secret"
    input,      \* what it tries next
    place,      \* phase5: the character it is looking for
    printed     \* what it has printed

svars == <<search, input, place, printed>>

Searches == {"phase4", "phase5", "phase6", "secret"}

SearchInit ==
    /\ search \in Searches
    /\ input = CASE search = "phase5" -> <<32, 101, 121, 104, 101, 121>>   \* "heyhey"
                 [] search = "phase6" -> <<0, 0, 0, 0, 0, 0>>
                 [] OTHER -> 0
    /\ place = 1
    /\ printed = {}

\* main of phase4.cpp prints what func4 returns for every x up to 14.
TryPhase4 ==
    /\ search = "phase4" /\ input <= 14
    /\ printed' = printed \cup {<<input, func4(input, 0, 14)>>}
    /\ input' = input + 1
    /\ UNCHANGED <<search, place>>

\* main of phase5.cpp: the codes from 32 to 125 until one fits, for every place.
TryPhase5 ==
    /\ search = "phase5" /\ place <= 6
    /\ IF phase5(input, place) \/ input[place] = 125
       THEN /\ place' = place + 1
            /\ input' = IF place = 6 THEN input ELSE [input EXCEPT ![place + 1] = 32]
            /\ printed' = IF place = 6 THEN {input} ELSE printed
       ELSE /\ input' = [input EXCEPT ![place] = @ + 1]
            /\ UNCHANGED <<place, printed>>
    /\ UNCHANGED search

\* main of phase6.cpp: the six nested loops from 0 to 6.
TryPhase6 ==
    /\ search = "phase6" /\ input # <<>>
    /\ printed' = IF phase6(input) THEN printed \cup {input} ELSE printed
    /\ input' = IF input = [i \in 1 .. 6 |-> 6] THEN <<>>
                ELSE LET last == CHOOSE i \in 1 .. 6 : /\ input[i] < 6
                                                       /\ \A j \in i + 1 .. 6 : input[j] = 6
                     IN  [i \in 1 .. 6 |-> CASE i < last -> input[i]
                                             [] i = last -> input[i] + 1
                                             [] i > last -> 0]
    /\ UNCHANGED <<search, place>>

\* main of secret_phase.cpp: every number up to 1001 for which the result is 2.
TrySecret ==
    /\ search = "secret" /\ input <= 1001
    /\ printed' = IF secret_phase(input) = 2 THEN printed \cup {input} ELSE printed
    /\ input' = input + 1
    /\ UNCHANGED <<search, place>>

SearchNext == TryPhase4 \/ TryPhase5 \/ TryPhase6 \/ TrySecret
=============================================================================
