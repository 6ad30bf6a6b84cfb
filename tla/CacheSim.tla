------------------------------ MODULE CacheSim ------------------------------
(***************************************************************************)
(* The cache simulator, src/lab4_cachelab/csim.c: one step reads one line  *)
(* of the trace.  The flat array blocks[setNumber*E + i] is blocks[k][i].  *)
(***************************************************************************)
EXTENDS Integers, FiniteSets

CONSTANTS
    W,          \* the width of an address, 64 in the code
    s, E, b,    \* set index bits, lines per set, block offset bits
    Addrs,      \* the addresses of the trace
    MaxTime     \* bound: lines of the trace

Sets == 0 .. 2^s - 1
Ways == 0 .. E - 1

\* oldest = 1<<30, larger than every time stamp
Oldest == 2^30

ASSUME LinesAssumption == E \in Nat \ {0}

\* s and b are bit counts that leave a tag, and a set number fits into setNumber; without
\* set bits the shifts that compute it are by t and by W, which must clear the address, and
\* with neither set nor offset bits they leave it as it is.
ASSUME GeometryAssumption ==
    /\ W \in Nat /\ s \in Nat /\ b \in Nat /\ s + b # 0 /\ s + b < W
    /\ s <= W \div 2 /\ (s = 0 => b <= W \div 2)
ASSUME AddressAssumption == Addrs \subseteq Nat
ASSUME TraceAssumption == MaxTime \in Nat /\ MaxTime <= Oldest

VARIABLES
    blocks,             \* [Sets -> [Ways -> line]]
    currentTime,
    hits, misses, evictions,
    lastUse             \* history: when each block of 2^b bytes of memory was used last

vars == <<blocks, currentTime, hits, misses, evictions, lastUse>>

\* What the provers are not told about powers of two; it holds for every W.
ASSUME PowersAssumption ==
    /\ 2^0 = 1 /\ \A m \in 0 .. W : 2^m \in Nat \ {0}
    /\ \A m, n \in 0 .. W : m + n <= W => 2^(m + n) = 2^m * 2^n

-----------------------------------------------------------------------------
(* Addresses: W bits, shift counts taken modulo W, setNumber half as wide. *)

Shl(x, n) == (x * 2^(n % W)) % 2^W
Shr(x, n) == x \div 2^(n % W)
t == W - s - b

\* VARIANT of SetNumber: the first set bit goes with the tag.
SetNumberCut(a) == Shr(Shl(a, t + 1), t + 1 + b) % 2^(W \div 2)

\* setNumber = ((address<<t)>>(t+b))
SetNumber(a) == Shr(Shl(a, t), t + b) % 2^(W \div 2)
\* tag = (address>>(s+b))
Tag(a) == Shr(a, s + b)

\* The block of 2^b bytes of memory that an address lies in, by its number.
MemBlock(a) == a \div 2^b
MemBlocks == {MemBlock(a) : a \in Addrs}

\* The set and the tag that a block should have, and the block of set k with tag g.
IndexOf(x) == x % 2^s
TagOf(x) == x \div 2^s
BlockOf(k, g) == g * 2^s + k

-----------------------------------------------------------------------------
Line == [valid : BOOLEAN, tag : Nat, timestamp : Nat]
EmptyLine == [valid |-> FALSE, tag |-> 0, timestamp |-> 0]

\* init; the tags that malloc leaves behind are never looked at.
Init ==
    /\ blocks = [k \in Sets |-> [i \in Ways |-> EmptyLine]]
    /\ currentTime = 1
    /\ hits = 0 /\ misses = 0 /\ evictions = 0
    /\ lastUse = [x \in MemBlocks |-> 0]

\* The lines of set k with tag g, the empty ones, and the ones to be replaced.
Matching(k, g) == {i \in Ways : blocks[k][i].valid /\ blocks[k][i].tag = g}
Empty(k) == {i \in Ways : ~blocks[k][i].valid}

\* VARIANT of Older: the line used last is the one to go.
OlderSwapped(k, i, j) == blocks[k][i].timestamp > blocks[k][j].timestamp

\* The loop prefers i to j, and the first of two equals.
Older(k, i, j) ==
    \/ blocks[k][i].timestamp < blocks[k][j].timestamp
    \/ blocks[k][i].timestamp = blocks[k][j].timestamp /\ i <= j

leastAccessInd(k) ==
    CHOOSE i \in Ways : \A j \in Ways \ {i} : Older(k, i, j)
firstEmpInd(k) == CHOOSE i \in Empty(k) : \A j \in Empty(k) : i <= j

\* VARIANT of Use: only a line that is filled gets a time stamp.
UseWithoutStamp(a, i) ==
    LET k == SetNumber(a)
    IN  blocks' = [blocks EXCEPT ![k][i] =
            [valid |-> TRUE, tag |-> Tag(a),
             timestamp |-> IF blocks[k][i].valid THEN blocks[k][i].timestamp ELSE currentTime]]

\* Line i of a's set holds a's tag and the current time.
Use(a, i) ==
    blocks' = [blocks EXCEPT ![SetNumber(a)][i] =
        [valid |-> TRUE, tag |-> Tag(a), timestamp |-> currentTime]]

\* M is a load that is followed by a store, which hits.
StoreHits(op) == IF op = "M" THEN 1 ELSE 0

Hit(op, a) ==
    /\ \E i \in Matching(SetNumber(a), Tag(a)) : Use(a, i)
    /\ hits' = hits + 1 + StoreHits(op)
    /\ UNCHANGED <<misses, evictions>>

Fill(op, a) ==
    /\ Matching(SetNumber(a), Tag(a)) = {} /\ Empty(SetNumber(a)) # {}
    /\ Use(a, firstEmpInd(SetNumber(a)))
    /\ misses' = misses + 1 /\ hits' = hits + StoreHits(op)
    /\ UNCHANGED evictions

Evict(op, a) ==
    /\ Matching(SetNumber(a), Tag(a)) = {} /\ Empty(SetNumber(a)) = {}
    /\ Use(a, leastAccessInd(SetNumber(a)))
    /\ misses' = misses + 1 /\ hits' = hits + StoreHits(op) /\ evictions' = evictions + 1

Tick == currentTime < MaxTime /\ currentTime' = currentTime + 1

\* processLine of a line that starts with a blank
processLine(op, a) ==
    /\ Tick
    /\ Hit(op, a) \/ Fill(op, a) \/ Evict(op, a)
    /\ lastUse' = [lastUse EXCEPT ![MemBlock(a)] = currentTime]

\* processLine of an instruction line, or of the empty line at the end of the file
Ignore == Tick /\ UNCHANGED <<blocks, hits, misses, evictions, lastUse>>

Next == Ignore \/ \E op \in {"L", "S", "M"}, a \in Addrs : processLine(op, a)

Spec == Init /\ [][Next]_vars

-----------------------------------------------------------------------------
(* Properties. *)

\* Every block of 2^b bytes that was used is found again where -s says, in the set that is
\* its number modulo 2^s under the rest of the number as tag, unless each line of that set
\* was used since: no two blocks are taken for one, no block for two, and none is
\* replaced while an empty line or an older block is there.
BlocksAreFound ==
    \A x \in MemBlocks : lastUse[x] # 0 =>
        \/ Matching(IndexOf(x), TagOf(x)) # {}
        \/ \A i \in Ways : LET line == blocks[IndexOf(x)][i]
                          IN  line.valid /\ line.timestamp > lastUse[x]

\* Counters never go below zero, and time stamps are times.
TypeOK ==
    /\ blocks \in [Sets -> [Ways -> Line]]
    /\ currentTime \in Nat \ {0}
    /\ hits \in Nat /\ misses \in Nat /\ evictions \in Nat
    /\ lastUse \in [MemBlocks -> Nat]

\* A valid line holds the block of memory that its set and tag name, no other line holds
\* it, and its time stamp is the time of that block's last use: the loop may stop at the
\* first match, and the least time stamp is the least recently used block.
LinesAreLru ==
    \A k \in Sets, i \in Ways : blocks[k][i].valid =>
        /\ BlockOf(k, blocks[k][i].tag) \in MemBlocks
        /\ blocks[k][i].timestamp = lastUse[BlockOf(k, blocks[k][i].tag)]
        /\ blocks[k][i].timestamp \in 1 .. currentTime - 1
        /\ \A j \in Ways \ {i} : blocks[k][j].valid =>
              /\ blocks[k][i].tag # blocks[k][j].tag
              /\ blocks[k][i].timestamp # blocks[k][j].timestamp

=============================================================================
