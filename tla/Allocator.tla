----------------------------- MODULE Allocator ------------------------------
(***************************************************************************)
(* What the programs that call src/lab6_malloc may rely on: a payload is a *)
(* stretch of the heap that no other payload shares, where what the caller *)
(* wrote stays until the caller frees it.                                  *)
(***************************************************************************)
EXTENDS Integers

CONSTANTS Index, Sizes, HeapEnd

VARIABLES
    region,     \* [Index -> set of word addresses]
    data        \* [Index -> the index the region is filled with, or 0]

vars == <<region, data>>

Init == region = [i \in Index |-> {}] /\ data = [i \in Index |-> 0]

Region(p, size) == {p + 4 * k : k \in 0 .. (size \div 4) - 1}

\* i's region, wherever it is put, is aligned and nobody else's.
Give(i, size) ==
    /\ \E k \in 1 .. (HeapEnd - size) \div 8 :
          /\ region' = [region EXCEPT ![i] = Region(8 * k, size)]
          /\ \A j \in Index \ {i} : Region(8 * k, size) \cap region[j] = {}
    /\ data' = [data EXCEPT ![i] = i]

Malloc(i, size) == region[i] = {} /\ Give(i, size)
Realloc(i, size) == region[i] # {} /\ data[i] = i /\ Give(i, size)

Free(i) ==
    /\ region[i] # {} /\ data[i] = i
    /\ region' = [region EXCEPT ![i] = {}] /\ data' = [data EXCEPT ![i] = 0]

Restart == region' = [i \in Index |-> {}] /\ data' = [i \in Index |-> 0]

Next ==
    \/ Restart
    \/ \E i \in Index : Free(i) \/ \E size \in Sizes : Malloc(i, size) \/ Realloc(i, size)

Spec == Init /\ [][Next]_vars
=============================================================================
