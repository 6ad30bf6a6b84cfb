------------------------------ MODULE LruCache ------------------------------
(***************************************************************************)
(* A set-associative cache with least-recently-used replacement, as the    *)
(* cache simulator src/lab4_cachelab/csim.c promises it: which memory      *)
(* blocks are cached, when each was used last, and three counters.         *)
(***************************************************************************)
EXTENDS Integers, FiniteSets

CONSTANTS
    MemBlocks,      \* memory blocks
    IndexOf(_),     \* the cache set of a memory block
    E               \* lines per cache set

VARIABLES cached, lastUse, now, hits, misses, evictions

vars == <<cached, lastUse, now, hits, misses, evictions>>

Init ==
    /\ cached = {} /\ lastUse = [x \in MemBlocks |-> 0] /\ now = 1
    /\ hits = 0 /\ misses = 0 /\ evictions = 0

InSameSet(x) == {y \in cached : IndexOf(y) = IndexOf(x)}

\* The cached block of x's set whose last use is longest ago.
LeastRecent(x, y) ==
    y \in InSameSet(x) /\ \A z \in InSameSet(x) : lastUse[y] <= lastUse[z]

\* n is the number of accesses the line makes to x: a load and a store for M.
Hit(x, n) ==
    /\ x \in cached
    /\ hits' = hits + n
    /\ UNCHANGED <<cached, misses, evictions>>

Fill(x, n) ==
    /\ x \notin cached /\ Cardinality(InSameSet(x)) < E
    /\ cached' = cached \cup {x}
    /\ misses' = misses + 1 /\ hits' = hits + (n - 1)
    /\ UNCHANGED evictions

Evict(x, n) ==
    /\ x \notin cached /\ Cardinality(InSameSet(x)) = E
    /\ \E y \in MemBlocks : LeastRecent(x, y) /\ cached' = (cached \ {y}) \cup {x}
    /\ misses' = misses + 1 /\ hits' = hits + (n - 1) /\ evictions' = evictions + 1

Access(x, n) ==
    /\ Hit(x, n) \/ Fill(x, n) \/ Evict(x, n)
    /\ lastUse' = [lastUse EXCEPT ![x] = now] /\ now' = now + 1

\* A line of the trace that is not an access to data.
Other == now' = now + 1 /\ UNCHANGED <<cached, lastUse, hits, misses, evictions>>

Next == Other \/ \E x \in MemBlocks, n \in {1, 2} : Access(x, n)

Spec == Init /\ [][Next]_vars
=============================================================================
