--------------------------- MODULE CacheSimProofs ---------------------------
(***************************************************************************)
(* Proofs about the cache simulator, for every geometry and every trace.   *)
(* The shifts that split an address come first: what they leave is the set *)
(* and the tag of the block of memory that the address lies in.            *)
(***************************************************************************)
EXTENDS CacheSimRefinement, Least, FiniteSetTheorems, FunctionTheorems

-----------------------------------------------------------------------------
(* The bit fields of an address, as arithmetic. *)

\* What is below a multiple stays so when both are scaled.
LEMMA ScaledBelow ==
    ASSUME NEW u \in Nat, NEW c \in Nat \ {0}, NEW m \in Nat, u < c
    PROVE  m * u + m <= m * c /\ m * u \in Nat /\ m * c \in Nat
<1>1. PICK e \in Nat : c = u + 1 + e
  <2>1. c - u - 1 \in Nat /\ c = u + 1 + (c - u - 1)
    OBVIOUS
  <2> QED
    BY <2>1
<1>2. m * c = m * u + m + m * e /\ m * e \in Nat /\ m * u \in Nat
  BY <1>1
<1> QED
  BY <1>2

\* Of an address, q is above the lower s+b bits, u and v are what -s and -b split them into.
Split(a, q, u, v) ==
    /\ q \in Nat /\ u \in Nat /\ v \in Nat /\ u < 2^s /\ v < 2^b
    /\ a = 2^b * (2^s * q + u) + v

LEMMA SplitOf ==
    ASSUME NEW a \in Nat
    PROVE  \E q, u, v : Split(a, q, u, v)
<1>1. 2^s \in Nat \ {0} /\ 2^b \in Nat \ {0}
  BY PowersAssumption, GeometryAssumption
<1>2. PICK y \in Nat, v \in Nat : v < 2^b /\ a = 2^b * y + v
  BY ZenonT(40), <1>1, DivisionIs
<1>3. PICK P \in Nat \ {0} : P = 2^s
  BY <1>1
<1>4. PICK q \in Nat, u \in Nat : u < P /\ y = P * q + u
  BY ZenonT(40), DivisionIs
<1> QED
  BY <1>2, <1>3, <1>4 DEF Split

\* P sets, B bytes in a block, and shifts that multiply and divide by T and T * B.
Parts(a, P, B, T, q, u, v) ==
    /\ (a * T) % (T * (B * P)) = T * (B * u + v)
    /\ (T * (B * u + v)) \div (T * B) = u
    /\ a \div (P * B) = q /\ a \div B = P * q + u

LEMMA ShiftedParts ==
    ASSUME NEW P \in Nat \ {0}, NEW B \in Nat \ {0}, NEW T \in Nat \ {0},
           NEW q \in Nat, NEW u \in Nat, NEW v \in Nat, u < P, v < B,
           NEW a, a = B * (P * q + u) + v
    PROVE  Parts(a, P, B, T, q, u, v)
<1>1. PICK x \in Nat : x = B * u + v
  OBVIOUS
<1>2. x < B * P /\ B * P \in Nat \ {0} /\ B * u \in Nat
  <2>1. B * u + B <= B * P /\ B * u \in Nat /\ B * P \in Nat
    BY ScaledBelow
  <2> QED
    BY <1>1, <2>1
<1>3. a = (B * P) * q + x /\ a \in Nat
  BY <1>1
<1>4. a \div (P * B) = q
  <2>1. P * B = B * P
    OBVIOUS
  <2> QED
    BY <1>2, <1>3, <2>1, QuotientIs
<1>5. a \div B = P * q + u
  <2>1. P * q + u \in Nat
    OBVIOUS
  <2> QED
    BY <2>1, QuotientIs
<1>6. (a * T) % (T * (B * P)) = T * x
  <2>1. PICK m \in Nat \ {0} : m = B * P
    BY <1>2
  <2>2. T * x + T <= T * m /\ T * x \in Nat /\ T * m \in Nat
    BY <1>2, <2>1, ScaledBelow
  <2>3. PICK y \in Nat, d \in Nat \ {0} : y = T * x /\ d = T * m /\ y < d
    BY <2>2
  <2>4. a * T = d * q + y
    <3>1. a = m * q + x
      BY <1>3, <2>1
    <3>2. (m * q + x) * T = (T * m) * q + T * x
      OBVIOUS
    <3> QED
      BY <2>3, <3>1, <3>2
  <2>5. (a * T) % d = y
    BY <2>3, <2>4, QuotientIs
  <2> QED
    BY <2>1, <2>3, <2>5
<1>7. (T * x) \div (T * B) = u
  <2>1. T * v + T <= T * B /\ T * v \in Nat /\ T * B \in Nat
    BY ScaledBelow
  <2>2. PICK y \in Nat, d \in Nat \ {0} : y = T * v /\ d = T * B /\ y < d
    BY <2>1
  <2>3. T * x = d * u + y
    <3>1. T * (B * u + v) = (T * B) * u + T * v
      OBVIOUS
    <3> QED
      BY <1>1, <2>2, <3>1
  <2>4. (T * x) \div d = u
    BY <2>2, <2>3, QuotientIs
  <2> QED
    BY <2>2, <2>4
<1> QED
  BY <1>1, <1>4, <1>5, <1>6, <1>7 DEF Parts

\* The two shifts and the division by the width of setNumber leave exactly the set number.
LEMMA FieldsAre ==
    ASSUME NEW a, NEW q, NEW u, NEW v, Split(a, q, u, v)
    PROVE  SetNumber(a) = u /\ Tag(a) = q /\ a \div 2^b = q * 2^s + u
<1> DEFINE P == 2^s
           B == 2^b
           T == 2^t
           H == 2^(W \div 2)
<1>0. W \in Nat /\ t \in 0 .. W /\ t + b = W - s /\ W - s \in 0 .. W /\ s + b \in 0 .. W
      /\ s \in 0 .. W /\ b \in 0 .. W /\ W \div 2 \in 0 .. W
  BY PowersAssumption, GeometryAssumption DEF t
<1>1. P \in Nat \ {0} /\ B \in Nat \ {0} /\ T \in Nat \ {0} /\ H \in Nat \ {0}
  BY <1>0, PowersAssumption
<1>2. 2^(s + b) = P * B /\ 2^(t + b) = T * B /\ 2^W = T * (B * P)
  <2>1. 2^(s + b) = P * B
    BY <1>0, PowersAssumption
  <2>2. 2^(t + b) = T * B
    BY <1>0, PowersAssumption
  <2>3. (W - s) + s = W
    BY <1>0
  <2>4. 2^((W - s) + s) = 2^(W - s) * 2^s
    BY <1>0, <2>3, PowersAssumption
  <2>5. 2^W = (T * B) * P
    BY <1>0, <2>2, <2>3, <2>4
  <2> HIDE DEF P, B, T
  <2>6. (T * B) * P = T * (B * P)
    BY <1>1
  <2> QED
    BY <2>1, <2>2, <2>5, <2>6
<1>3. /\ (a * T) % (T * (B * P)) = T * (B * u + v) /\ (T * (B * u + v)) \div (T * B) = u
      /\ a \div (P * B) = q /\ a \div B = P * q + u
      /\ u \in Nat /\ q \in Nat /\ v \in Nat /\ u < P /\ v < B
  <2>1. /\ q \in Nat /\ u \in Nat /\ v \in Nat /\ u < P /\ v < B
        /\ a = B * (P * q + u) + v
    BY DEF Split
  <2>2. Parts(a, P, B, T, q, u, v)
    <3> HIDE DEF P, B, T
    <3> QED
      BY <1>1, <2>1, ShiftedParts
  <2> HIDE DEF P, B, T
  <2> QED
    BY <2>1, <2>2 DEF Parts
<1>4. Tag(a) = q
  <2>1. (s + b) % W = s + b
    BY <1>0, GeometryAssumption
  <2> QED
    BY <1>2, <1>3, <2>1 DEF Tag, Shr
<1>5. Shl(a, t) = T * (B * u + v)
  <2>1. t % W = t
    BY <1>0, GeometryAssumption DEF t
  <2> QED
    BY <1>2, <1>3, <2>1 DEF Shl
<1>6. ASSUME s # 0 PROVE SetNumber(a) = u
  <2>1. (t + b) % W = t + b
    BY <1>0, <1>6
  <2>2. Shr(Shl(a, t), t + b) = u
    BY <1>2, <1>3, <1>5, <2>1 DEF Shr
  <2>3. u < H
    <3>1. W \div 2 - s \in 0 .. W /\ s + (W \div 2 - s) = W \div 2
      BY <1>0, GeometryAssumption
    <3>2. 2^(s + (W \div 2 - s)) = 2^s * 2^(W \div 2 - s)
      BY <1>0, <3>1, PowersAssumption
    <3>3. PICK c \in Nat \ {0} : c = 2^(W \div 2 - s) /\ H = P * c
      BY <3>1, <3>2, PowersAssumption
    <3> HIDE DEF P, H
    <3>4. P <= P * c
      BY <1>1
    <3> QED
      BY <1>1, <1>3, <3>3, <3>4
  <2>4. u % H = u
    <3> HIDE DEF P, H
    <3> QED
      BY <1>1, <1>3, <2>3, SmallRemainder
  <2>5. SetNumber(a) = Shr(Shl(a, t), t + b) % H
    BY DEF SetNumber
  <2> HIDE DEF H
  <2> QED
    BY <2>2, <2>4, <2>5
<1>7. ASSUME s = 0 PROVE SetNumber(a) = u
  <2>1. (t + b) % W = 0 /\ P = 1 /\ u = 0
    BY <1>0, <1>3, <1>7, PowersAssumption, GeometryAssumption
  <2>2. Shr(Shl(a, t), t + b) = T * v
    <3>1. Shl(a, t) = T * v
      <4> HIDE DEF P, B, T
      <4> QED
        BY <1>1, <1>3, <1>5, <2>1
    <3>2. T * v \in Nat /\ T * v = 1 * (T * v) + 0
      <4> HIDE DEF T
      <4> QED
        BY <1>1, <1>3
    <3>3. (T * v) \div 1 = T * v
      BY <3>2, QuotientIs
    <3> QED
      BY <2>1, <3>1, <3>3, PowersAssumption DEF Shr
  <2>3. PICK c \in Nat : T = H * c
    <3>1. t - W \div 2 \in 0 .. W /\ W \div 2 + (t - W \div 2) = t
      BY <1>0, <1>7, GeometryAssumption DEF t
    <3>2. 2^(W \div 2 + (t - W \div 2)) = 2^(W \div 2) * 2^(t - W \div 2)
      BY <1>0, <3>1, PowersAssumption
    <3> QED
      BY <3>1, <3>2, PowersAssumption
  <2>4. (T * v) % H = 0
    <3> HIDE DEF T, H
    <3>1. PICK y \in Nat : y = c * v
      BY <1>3
    <3>2. T * v = H * y
      BY <1>1, <1>3, <2>3, <3>1
    <3>3. (H * y) % H = 0
      BY <1>1, MultipleRemainder
    <3> QED
      BY <3>2, <3>3
  <2>5. SetNumber(a) = Shr(Shl(a, t), t + b) % H
    BY DEF SetNumber
  <2> HIDE DEF H, T
  <2> QED
    BY <2>1, <2>2, <2>4, <2>5
<1>8. a \div 2^b = q * 2^s + u
  <2> HIDE DEF P
  <2>1. P * q = q * P
    BY <1>1, <1>3
  <2> QED
    BY <1>3, <2>1 DEF P
<1> QED
  BY <1>4, <1>6, <1>7, <1>8

LEMMA FieldsOf ==
    ASSUME NEW a \in Nat
    PROVE  /\ SetNumber(a) \in Nat /\ SetNumber(a) < 2^s /\ Tag(a) \in Nat
           /\ a \div 2^b = Tag(a) * 2^s + SetNumber(a)
<1>1. PICK q, u, v : Split(a, q, u, v)
  BY SplitOf
<1> QED
  BY <1>1, FieldsAre DEF Split

-----------------------------------------------------------------------------
(* Sets, tags and blocks. *)

\* The fields cut out of an address are the set and the tag of its block.
LEMMA AddressParts ==
    ASSUME NEW a \in Addrs
    PROVE  /\ SetNumber(a) \in Sets /\ Tag(a) \in Nat
           /\ MemBlock(a) = BlockOf(SetNumber(a), Tag(a)) /\ MemBlock(a) \in MemBlocks
<1>1. 2^s \in Nat /\ a \in Nat
  BY PowersAssumption, GeometryAssumption, AddressAssumption
<1>2. /\ SetNumber(a) \in Nat /\ SetNumber(a) < 2^s /\ Tag(a) \in Nat
      /\ a \div 2^b = Tag(a) * 2^s + SetNumber(a)
  BY <1>1, FieldsOf
<1>3. SetNumber(a) \in 0 .. 2^s - 1
  BY <1>1, <1>2
<1> QED BY <1>2, <1>3 DEF MemBlock, MemBlocks, BlockOf, Sets

\* A pair of a set and a tag names one block.
LEMMA PartsOf ==
    ASSUME NEW k \in Sets, NEW g \in Nat
    PROVE  IndexOf(BlockOf(k, g)) = k /\ TagOf(BlockOf(k, g)) = g
<1>1. PICK P \in Nat \ {0} : P = 2^s
  BY PowersAssumption, GeometryAssumption
<1>2. k \in Nat /\ k < P
  BY <1>1 DEF Sets
<1>3. BlockOf(k, g) = P * g + k
  BY <1>1, <1>2 DEF BlockOf
<1>4. BlockOf(k, g) \div P = g /\ BlockOf(k, g) % P = k
  BY <1>2, <1>3, QuotientIs
<1> QED BY <1>1, <1>4 DEF IndexOf, TagOf

\* The set and the tag of the block of an address.
LEMMA AddressBlock ==
    ASSUME NEW a \in Addrs
    PROVE  IndexOf(MemBlock(a)) = SetNumber(a) /\ TagOf(MemBlock(a)) = Tag(a)
BY AddressParts, PartsOf

\* A block has one set and one tag.
LEMMA BlockParts ==
    ASSUME NEW x \in MemBlocks
    PROVE  IndexOf(x) \in Sets /\ TagOf(x) \in Nat /\ x = BlockOf(IndexOf(x), TagOf(x))
<1>1. PICK a \in Addrs : x = MemBlock(a)
  BY DEF MemBlocks
<1>2. IndexOf(x) = SetNumber(a) /\ TagOf(x) = Tag(a)
  BY <1>1, AddressParts, PartsOf
<1> QED BY <1>1, <1>2, AddressParts

-----------------------------------------------------------------------------
(* The invariant. *)

Inv == TypeOK /\ LinesAreLru

\* A full set has a line to replace, and no line of the set was used before it.
LEMMA LeastAccess ==
    ASSUME Inv, NEW k \in Sets, Empty(k) = {}
    PROVE  /\ leastAccessInd(k) \in Ways
           /\ \A j \in Ways : blocks[k][leastAccessInd(k)].timestamp <= blocks[k][j].timestamp
<1> DEFINE T == {blocks[k][i].timestamp : i \in Ways}
<1>1. \A i \in Ways : blocks[k][i].valid /\ blocks[k][i].timestamp \in Nat
  BY DEF Inv, TypeOK, Line, Empty
<1>2. T \in SUBSET Nat /\ T # {}
  <2>1. 0 \in Ways
    BY LinesAssumption DEF Ways
  <2> QED BY <1>1, <2>1
<1>3. PICK m \in T : \A y \in T : m <= y
  BY <1>2, LeastNatural
<1>4. PICK i \in Ways : m = blocks[k][i].timestamp
  BY <1>3
<1>5. ASSUME NEW j \in Ways \ {i} PROVE Older(k, i, j)
  <2>1. blocks[k][i].timestamp <= blocks[k][j].timestamp
    BY <1>3, <1>4
  <2>2. blocks[k][i].timestamp # blocks[k][j].timestamp
    BY <1>1 DEF Inv, LinesAreLru
  <2> QED BY <1>1, <2>1, <2>2 DEF Older
<1>6. leastAccessInd(k) \in Ways /\ \A j \in Ways \ {leastAccessInd(k)} : Older(k, leastAccessInd(k), j)
  BY <1>5 DEF leastAccessInd
<1>7. ASSUME NEW j \in Ways
      PROVE  blocks[k][leastAccessInd(k)].timestamp <= blocks[k][j].timestamp
  <2>1. CASE j = leastAccessInd(k)
    BY <1>1, <2>1
  <2>2. CASE j # leastAccessInd(k)
    BY <1>1, <1>6, <2>2 DEF Older
  <2> QED BY <2>1, <2>2
<1> QED BY <1>6, <1>7

\* A set that is not full has a first empty line.
LEMMA FirstEmpty ==
    ASSUME NEW k \in Sets, Empty(k) # {}
    PROVE  firstEmpInd(k) \in Empty(k)
<1>1. Empty(k) \in SUBSET Nat
  BY LinesAssumption DEF Empty, Ways
<1>2. \E i \in Empty(k) : \A j \in Empty(k) : i <= j
  BY <1>1, LeastNatural
<1> QED BY <1>2 DEF firstEmpInd

\* The line that a step uses holds the address's tag and the time; the others stay.
LEMMA UseChanges ==
    ASSUME TypeOK, NEW a \in Addrs, NEW i \in Ways, Use(a, i)
    PROVE  /\ blocks' \in [Sets -> [Ways -> Line]]
           /\ blocks'[SetNumber(a)][i] =
                 [valid |-> TRUE, tag |-> Tag(a), timestamp |-> currentTime]
           /\ \A k \in Sets, j \in Ways :
                 <<k, j>> # <<SetNumber(a), i>> => blocks'[k][j] = blocks[k][j]
BY AddressParts DEF TypeOK, Use, Line

\* The lines stay least recently used lines when a line is used that is the only one,
\* if any, with the address's tag.
LEMMA UseKeepsLru ==
    ASSUME Inv, NEW a \in Addrs, NEW i \in Ways, Use(a, i),
           Matching(SetNumber(a), Tag(a)) \subseteq {i},
           currentTime' = currentTime + 1,
           lastUse' = [lastUse EXCEPT ![MemBlock(a)] = currentTime]
    PROVE  LinesAreLru'
<1> DEFINE k0 == SetNumber(a)
           g0 == Tag(a)
<1>0. /\ k0 \in Sets /\ g0 \in Nat
      /\ MemBlock(a) = BlockOf(k0, g0) /\ BlockOf(k0, g0) \in MemBlocks
  BY AddressParts
<1>1. /\ blocks'[k0][i] = [valid |-> TRUE, tag |-> g0, timestamp |-> currentTime]
      /\ \A k \in Sets, j \in Ways : <<k, j>> # <<k0, i>> => blocks'[k][j] = blocks[k][j]
  BY UseChanges DEF Inv
<1>2. /\ lastUse'[BlockOf(k0, g0)] = currentTime
      /\ \A x \in MemBlocks : x # BlockOf(k0, g0) => lastUse'[x] = lastUse[x]
  BY <1>0 DEF Inv, TypeOK
<1>3. \A j \in Ways \ {i} : blocks[k0][j].valid => blocks[k0][j].tag # g0
  BY DEF Matching
<1>4. currentTime \in Nat /\ currentTime >= 1
  BY DEF Inv, TypeOK
<1>5. ASSUME NEW k \in Sets, NEW j \in Ways, <<k, j>> # <<k0, i>>, blocks[k][j].valid
      PROVE  /\ BlockOf(k, blocks[k][j].tag) \in MemBlocks
             /\ BlockOf(k, blocks[k][j].tag) # BlockOf(k0, g0)
             /\ blocks[k][j].timestamp = lastUse[BlockOf(k, blocks[k][j].tag)]
             /\ blocks[k][j].timestamp \in 1 .. currentTime - 1
  <2>1. blocks[k][j].tag \in Nat
    BY DEF Inv, TypeOK, Line
  <2>2. k # k0 \/ blocks[k][j].tag # g0
    BY <1>3, <1>5
  <2>3. BlockOf(k, blocks[k][j].tag) # BlockOf(k0, g0)
    <3>1. /\ IndexOf(BlockOf(k0, g0)) = k0 /\ TagOf(BlockOf(k0, g0)) = g0
          /\ IndexOf(BlockOf(k, blocks[k][j].tag)) = k
          /\ TagOf(BlockOf(k, blocks[k][j].tag)) = blocks[k][j].tag
      BY <1>0, <2>1, PartsOf
    <3> QED BY <2>2, <3>1
  <2> QED BY <1>5, <2>3 DEF Inv, LinesAreLru
<1>6. ASSUME NEW k \in Sets, NEW j \in Ways, blocks'[k][j].valid
      PROVE  /\ BlockOf(k, blocks'[k][j].tag) \in MemBlocks
             /\ blocks'[k][j].timestamp = lastUse'[BlockOf(k, blocks'[k][j].tag)]
             /\ blocks'[k][j].timestamp \in 1 .. currentTime' - 1
             /\ \A l \in Ways \ {j} : blocks'[k][l].valid =>
                   /\ blocks'[k][j].tag # blocks'[k][l].tag
                   /\ blocks'[k][j].timestamp # blocks'[k][l].timestamp
  <2>1. CASE <<k, j>> = <<k0, i>>
    <3>1. k = k0 /\ j = i
      BY <2>1
    <3>2. ASSUME NEW l \in Ways \ {i}, blocks'[k0][l].valid
          PROVE  g0 # blocks'[k0][l].tag /\ currentTime # blocks'[k0][l].timestamp
      <4>1. blocks'[k0][l] = blocks[k0][l]
        BY <1>0, <1>1
      <4>2. blocks[k0][l].timestamp \in 1 .. currentTime - 1 /\ blocks[k0][l].tag # g0
        BY <1>0, <1>3, <1>5, <3>2, <4>1
      <4> QED BY <1>4, <4>1, <4>2
    <3> QED BY <1>0, <1>1, <1>2, <1>4, <3>1, <3>2
  <2>2. CASE <<k, j>> # <<k0, i>>
    <3>1. blocks'[k][j] = blocks[k][j] /\ blocks[k][j].valid
      BY <1>1, <1>6, <2>2
    <3>2. /\ BlockOf(k, blocks[k][j].tag) \in MemBlocks
          /\ BlockOf(k, blocks[k][j].tag) # BlockOf(k0, g0)
          /\ blocks[k][j].timestamp = lastUse[BlockOf(k, blocks[k][j].tag)]
          /\ blocks[k][j].timestamp \in 1 .. currentTime - 1
      BY <1>5, <2>2, <3>1
    <3>3. ASSUME NEW l \in Ways \ {j}, blocks'[k][l].valid
          PROVE  /\ blocks[k][j].tag # blocks'[k][l].tag
                 /\ blocks[k][j].timestamp # blocks'[k][l].timestamp
      <4>1. CASE <<k, l>> = <<k0, i>>
        <5>1. k = k0 /\ l = i
          BY <4>1
        <5>2. blocks'[k][l].tag = g0 /\ blocks'[k][l].timestamp = currentTime
          BY <1>1, <5>1
        <5> QED BY <1>4, <3>2, <5>1, <5>2
      <4>2. CASE <<k, l>> # <<k0, i>>
        <5>1. blocks'[k][l] = blocks[k][l]
          BY <1>1, <4>2
        <5>2. \A m \in Ways \ {j} : blocks[k][m].valid =>
                 /\ blocks[k][j].tag # blocks[k][m].tag
                 /\ blocks[k][j].timestamp # blocks[k][m].timestamp
          BY <3>1 DEF Inv, LinesAreLru
        <5> QED BY <3>3, <5>1, <5>2
      <4> QED BY <4>1, <4>2
    <3>4. lastUse'[BlockOf(k, blocks[k][j].tag)] = lastUse[BlockOf(k, blocks[k][j].tag)]
      BY <1>2, <3>2
    <3>5. blocks[k][j].timestamp \in 1 .. currentTime' - 1
      BY <1>4, <3>2
    <3> QED BY <3>1, <3>2, <3>3, <3>4, <3>5
  <2> QED BY <2>1, <2>2
<1> QED BY <1>6 DEF LinesAreLru

\* The initial state.
LEMMA InitInv == Init => Inv
<1> SUFFICES ASSUME Init PROVE Inv
  OBVIOUS
<1>1. TypeOK
  BY DEF Init, TypeOK, EmptyLine, Line
<1>2. LinesAreLru
  BY DEF Init, LinesAreLru, EmptyLine
<1> QED BY <1>1, <1>2 DEF Inv

\* In each of the three outcomes one line is used, and it is the only one that may
\* have held the address's tag.
LEMMA OneLineIsUsed ==
    ASSUME Inv, NEW op \in {"L", "S", "M"}, NEW a \in Addrs,
           Hit(op, a) \/ Fill(op, a) \/ Evict(op, a)
    PROVE  \E i \in Ways : Use(a, i) /\ Matching(SetNumber(a), Tag(a)) \subseteq {i}
<1>0. SetNumber(a) \in Sets
  BY AddressParts
<1>1. CASE Hit(op, a)
  <2>1. PICK i \in Matching(SetNumber(a), Tag(a)) : Use(a, i)
    BY <1>1 DEF Hit
  <2>2. i \in Ways /\ blocks[SetNumber(a)][i].valid /\ blocks[SetNumber(a)][i].tag = Tag(a)
    BY <2>1 DEF Matching
  <2>3. ASSUME NEW j \in Matching(SetNumber(a), Tag(a)), j # i PROVE FALSE
    <3>1. j \in Ways \ {i} /\ blocks[SetNumber(a)][j].valid /\ blocks[SetNumber(a)][j].tag = Tag(a)
      BY <2>3 DEF Matching
    <3>2. \A m \in Ways \ {i} : blocks[SetNumber(a)][m].valid =>
             blocks[SetNumber(a)][i].tag # blocks[SetNumber(a)][m].tag
      BY <1>0, <2>2 DEF Inv, LinesAreLru
    <3> QED BY <2>2, <3>1, <3>2
  <2> QED BY <2>1, <2>2, <2>3
<1>2. CASE Fill(op, a)
  <2>1. firstEmpInd(SetNumber(a)) \in Ways
    BY <1>0, <1>2, FirstEmpty DEF Fill, Empty
  <2> QED BY <1>2, <2>1 DEF Fill
<1>3. CASE Evict(op, a)
  <2>1. leastAccessInd(SetNumber(a)) \in Ways
    BY <1>0, <1>3, LeastAccess DEF Evict
  <2> QED BY <1>3, <2>1 DEF Evict
<1> QED BY <1>1, <1>2, <1>3

\* Every line of the trace keeps the invariant.
LEMMA NextInv == Inv /\ [Next]_vars => Inv'
<1> SUFFICES ASSUME Inv, [Next]_vars PROVE Inv'
  OBVIOUS
<1>1. CASE Ignore
  <2>1. TypeOK'
    BY <1>1 DEF Inv, TypeOK, Ignore, Tick
  <2>2. ASSUME NEW k \in Sets, NEW i \in Ways, blocks[k][i].valid
        PROVE  blocks[k][i].timestamp \in 1 .. currentTime' - 1
    <3>1. blocks[k][i].timestamp \in 1 .. currentTime - 1
      BY <2>2 DEF Inv, LinesAreLru
    <3> QED BY <1>1, <3>1 DEF Inv, TypeOK, Ignore, Tick
  <2>3. LinesAreLru'
    BY <1>1, <2>2 DEF Inv, LinesAreLru, Ignore
  <2> QED BY <2>1, <2>3 DEF Inv
<1>2. ASSUME NEW op \in {"L", "S", "M"}, NEW a \in Addrs, processLine(op, a)
      PROVE  Inv'
  <2>1. PICK i \in Ways : Use(a, i) /\ Matching(SetNumber(a), Tag(a)) \subseteq {i}
    BY <1>2, OneLineIsUsed DEF processLine
  <2>2. /\ currentTime' = currentTime + 1
        /\ lastUse' = [lastUse EXCEPT ![MemBlock(a)] = currentTime]
    BY <1>2 DEF processLine, Tick
  <2>3. LinesAreLru'
    BY <2>1, <2>2, UseKeepsLru
  <2>4. blocks' \in [Sets -> [Ways -> Line]]
    BY <2>1, UseChanges DEF Inv
  <2>5. lastUse' \in [MemBlocks -> Nat] /\ currentTime' \in Nat \ {0}
    BY <2>2, AddressParts DEF Inv, TypeOK
  <2>6. hits' \in Nat /\ misses' \in Nat /\ evictions' \in Nat
    BY <1>2 DEF Inv, TypeOK, processLine, Hit, Fill, Evict, StoreHits
  <2> QED BY <2>3, <2>4, <2>5, <2>6 DEF Inv, TypeOK
<1>3. CASE UNCHANGED vars
  <2>1. TypeOK'
    BY <1>3 DEF Inv, TypeOK, vars
  <2>2. LinesAreLru'
    BY <1>3 DEF Inv, LinesAreLru, vars
  <2> QED BY <2>1, <2>2 DEF Inv
<1> QED BY <1>1, <1>2, <1>3 DEF Next

\* Types, and the time stamps of the lines are the last uses of what they hold: for
\* every geometry and every trace.
THEOREM InvHolds == Spec => []Inv
BY InitInv, NextInv, PTL DEF Spec

\* Every reachable state of the simulator is well-typed.
THEOREM TypeCorrect == Spec => []TypeOK
<1>1. Inv => TypeOK
  BY DEF Inv
<1> QED BY <1>1, InvHolds, PTL

\* Time stamps order the lines of a set by last use, and no block is cached twice.
THEOREM TimeStampsCorrect == Spec => []LinesAreLru
<1>1. Inv => LinesAreLru
  BY DEF Inv
<1> QED BY <1>1, InvHolds, PTL
-----------------------------------------------------------------------------
(* What was used is found until newer blocks need its line. *)

\* Only the oldest line of a full set loses the block it holds.
OldestGoes(a, i) ==
    LET set == blocks[SetNumber(a)]
    IN  set[i].valid /\ set[i].tag # Tag(a) =>
            \A j \in Ways : set[j].valid /\ set[i].timestamp <= set[j].timestamp

LEMMA UsedLineIsOldest ==
    ASSUME Inv, NEW op \in {"L", "S", "M"}, NEW a \in Addrs,
           Hit(op, a) \/ Fill(op, a) \/ Evict(op, a)
    PROVE  \E i \in Ways : Use(a, i) /\ OldestGoes(a, i)
<1>0. SetNumber(a) \in Sets
  BY AddressParts
<1>1. CASE Hit(op, a)
  BY <1>1 DEF Hit, Matching, OldestGoes
<1>2. CASE Fill(op, a)
  <2>1. firstEmpInd(SetNumber(a)) \in Empty(SetNumber(a))
    BY <1>0, <1>2, FirstEmpty DEF Fill
  <2> QED BY <1>2, <2>1 DEF Fill, Empty, OldestGoes
<1>3. CASE Evict(op, a)
  <2>1. /\ leastAccessInd(SetNumber(a)) \in Ways
        /\ \A j \in Ways : blocks[SetNumber(a)][leastAccessInd(SetNumber(a))].timestamp
                             <= blocks[SetNumber(a)][j].timestamp
    BY <1>0, <1>3, LeastAccess DEF Evict
  <2>2. \A j \in Ways : blocks[SetNumber(a)][j].valid
    BY <1>3 DEF Evict, Empty
  <2> QED BY <1>3, <2>1, <2>2 DEF Evict, OldestGoes
<1> QED BY <1>1, <1>2, <1>3

LEMMA UseKeepsFound ==
    ASSUME Inv, BlocksAreFound, NEW a \in Addrs, NEW i \in Ways, Use(a, i), OldestGoes(a, i),
           lastUse' = [lastUse EXCEPT ![MemBlock(a)] = currentTime]
    PROVE  BlocksAreFound'
<1> DEFINE k0 == SetNumber(a)
           g0 == Tag(a)
<1>0. /\ k0 \in Sets /\ g0 \in Nat /\ MemBlock(a) \in MemBlocks
      /\ IndexOf(MemBlock(a)) = k0 /\ TagOf(MemBlock(a)) = g0
  BY AddressParts, AddressBlock
<1>1. /\ blocks'[k0][i] = [valid |-> TRUE, tag |-> g0, timestamp |-> currentTime]
      /\ \A k \in Sets, j \in Ways : <<k, j>> # <<k0, i>> => blocks'[k][j] = blocks[k][j]
  BY UseChanges DEF Inv
<1>2. \A x \in MemBlocks : x # MemBlock(a) => lastUse'[x] = lastUse[x]
  BY DEF Inv, TypeOK
<1>3. ASSUME NEW x \in MemBlocks, x # MemBlock(a), lastUse[x] # 0
      PROVE  \/ Matching(IndexOf(x), TagOf(x))' # {}
             \/ \A j \in Ways : /\ blocks'[IndexOf(x)][j].valid
                               /\ blocks'[IndexOf(x)][j].timestamp > lastUse[x]
  <2> DEFINE k == IndexOf(x)
  <2>0. k \in Sets /\ lastUse[x] \in Nat /\ currentTime \in Nat
    BY BlockParts DEF Inv, TypeOK
  <2>1. ASSUME NEW j \in Ways, blocks[k][j].valid, blocks[k][j].tag = TagOf(x), <<k, j>> # <<k0, i>>
        PROVE  j \in Matching(k, TagOf(x))'
    BY <1>1, <2>0, <2>1 DEF Matching
  <2>2. ASSUME k = k0, blocks[k0][i].valid, blocks[k0][i].tag = TagOf(x)
        PROVE  \A j \in Ways : blocks'[k][j].valid /\ blocks'[k][j].timestamp > lastUse[x]
    <3>1. TagOf(x) # g0
      <4>1. x = BlockOf(IndexOf(x), TagOf(x)) /\ MemBlock(a) = BlockOf(k0, g0)
        BY BlockParts, AddressParts
      <4> QED BY <1>3, <2>2, <4>1
    <3>2. \A j \in Ways : blocks[k0][j].valid /\ blocks[k0][i].timestamp <= blocks[k0][j].timestamp
      BY <2>2, <3>1 DEF OldestGoes
    <3>3. blocks[k0][i].timestamp = lastUse[x] /\ blocks[k0][i].timestamp \in 1 .. currentTime - 1
      <4>1. x = BlockOf(k0, blocks[k0][i].tag)
        BY <2>2, BlockParts
      <4> QED BY <1>0, <2>2, <4>1 DEF Inv, LinesAreLru
    <3>4. \A j \in Ways \ {i} : blocks[k0][j].timestamp # lastUse[x] /\ blocks[k0][j].timestamp \in Nat
      BY <1>0, <2>2, <3>2, <3>3 DEF Inv, LinesAreLru
    <3>5. ASSUME NEW j \in Ways PROVE blocks'[k][j].valid /\ blocks'[k][j].timestamp > lastUse[x]
      <4>1. CASE j = i
        BY <1>1, <2>0, <2>2, <3>3, <4>1
      <4>2. CASE j # i
        <5>1. blocks'[k][j] = blocks[k0][j]
          BY <1>0, <1>1, <2>2, <4>2
        <5> QED BY <2>0, <3>2, <3>3, <3>4, <4>2, <5>1
      <4> QED BY <4>1, <4>2
    <3> QED BY <3>5
  <2>3. ASSUME \A j \in Ways : blocks[k][j].valid /\ blocks[k][j].timestamp > lastUse[x]
        PROVE  \A j \in Ways : blocks'[k][j].valid /\ blocks'[k][j].timestamp > lastUse[x]
    <3>1. ASSUME NEW j \in Ways PROVE blocks'[k][j].valid /\ blocks'[k][j].timestamp > lastUse[x]
      <4>1. blocks[k][j].valid /\ blocks[k][j].timestamp > lastUse[x]
            /\ blocks[k][j].timestamp \in 1 .. currentTime - 1
        BY <2>0, <2>3 DEF Inv, LinesAreLru
      <4>2. CASE <<k, j>> = <<k0, i>>
        BY <1>1, <2>0, <4>1, <4>2
      <4>3. CASE <<k, j>> # <<k0, i>>
        BY <1>1, <2>0, <4>1, <4>3
      <4> QED BY <4>2, <4>3
    <3> QED BY <3>1
  <2>4. \/ \E j \in Ways : blocks[k][j].valid /\ blocks[k][j].tag = TagOf(x)
        \/ \A j \in Ways : blocks[k][j].valid /\ blocks[k][j].timestamp > lastUse[x]
    BY <1>3 DEF BlocksAreFound, Matching
  <2> QED BY <2>1, <2>2, <2>3, <2>4
<1>4. Matching(IndexOf(MemBlock(a)), TagOf(MemBlock(a)))' # {}
  BY <1>0, <1>1 DEF Matching
<1> QED BY <1>2, <1>3, <1>4 DEF BlocksAreFound

\* A block that was used is found in the set and under the tag that -s and -b give it, unless
\* every line of that set was used since: for every geometry and every trace.
THEOREM UsedIsFound == Spec => []BlocksAreFound
<1>1. Init => BlocksAreFound
  BY DEF Init, BlocksAreFound
<1>2. Inv /\ BlocksAreFound /\ [Next]_vars => BlocksAreFound'
  <2> SUFFICES ASSUME Inv, BlocksAreFound, [Next]_vars PROVE BlocksAreFound'
    OBVIOUS
  <2>1. CASE Ignore
    BY <2>1 DEF Ignore, BlocksAreFound, Matching
  <2>2. ASSUME NEW op \in {"L", "S", "M"}, NEW a \in Addrs, processLine(op, a)
        PROVE  BlocksAreFound'
    <3>1. PICK i \in Ways : Use(a, i) /\ OldestGoes(a, i)
      BY <2>2, UsedLineIsOldest DEF processLine
    <3> QED BY <2>2, <3>1, UseKeepsFound DEF processLine
  <2>3. CASE UNCHANGED vars
    BY <2>3 DEF vars, BlocksAreFound, Matching
  <2> QED BY <2>1, <2>2, <2>3 DEF Next
<1> QED BY <1>1, <1>2, InvHolds, PTL DEF Spec

-----------------------------------------------------------------------------
(* The simulator implements an LRU cache. *)

\* The lines of a set that are in use hold the cached blocks of that set, one each.
LEMMA CachedOfSet ==
    ASSUME Inv, NEW x \in MemBlocks
    PROVE  /\ Empty(IndexOf(x)) = {} => Cardinality(Lru!InSameSet(x)) = E
           /\ Empty(IndexOf(x)) # {} => Cardinality(Lru!InSameSet(x)) < E
<1> DEFINE k == IndexOf(x)
           V == Ways \ Empty(k)
           C == Lru!InSameSet(x)
           f == [i \in V |-> BlockOf(k, blocks[k][i].tag)]
<1>1. k \in Sets
  BY BlockParts
<1>2. V = {i \in Ways : blocks[k][i].valid}
  BY DEF Empty
<1>3. C = {y \in MemBlocks : IndexOf(y) = k /\ \E i \in V : blocks[k][i].tag = TagOf(y)}
  BY <1>2 DEF Lru!InSameSet, cached, Matching
<1>4. f \in [V -> C] /\ \A i \in V : TagOf(f[i]) = blocks[k][i].tag
  <2>1. ASSUME NEW i \in V
        PROVE  /\ BlockOf(k, blocks[k][i].tag) \in C
               /\ TagOf(BlockOf(k, blocks[k][i].tag)) = blocks[k][i].tag
    <3>1. BlockOf(k, blocks[k][i].tag) \in MemBlocks /\ blocks[k][i].tag \in Nat
      BY <1>1, <1>2 DEF Inv, LinesAreLru, TypeOK, Line
    <3>2. /\ IndexOf(BlockOf(k, blocks[k][i].tag)) = k
          /\ TagOf(BlockOf(k, blocks[k][i].tag)) = blocks[k][i].tag
      BY <1>1, <3>1, PartsOf
    <3> QED BY <1>3, <3>1, <3>2
  <2> QED BY <2>1
<1>5. \A i, j \in V : f[i] = f[j] => i = j
  <2>1. ASSUME NEW i \in V, NEW j \in V, i # j
        PROVE  blocks[k][i].tag # blocks[k][j].tag
    <3>1. i \in Ways /\ j \in Ways \ {i} /\ blocks[k][i].valid /\ blocks[k][j].valid
      BY <1>2, <2>1
    <3> QED BY <1>1, <3>1 DEF Inv, LinesAreLru
  <2> QED BY <1>4, <2>1
<1>6. \A y \in C : \E i \in V : f[i] = y
  <2>1. ASSUME NEW y \in C PROVE \E i \in V : f[i] = y
    <3>1. y \in MemBlocks /\ IndexOf(y) = k
      BY <1>3
    <3>2. PICK i \in V : blocks[k][i].tag = TagOf(y)
      BY <1>3
    <3>3. y = BlockOf(k, blocks[k][i].tag)
      BY <3>1, <3>2, BlockParts
    <3> QED BY <3>3
  <2> QED BY <2>1
<1>7. ExistsBijection(V, C)
  <2>1. f \in Bijection(V, C)
    BY <1>4, <1>5, <1>6, Fun_IsBij
  <2> QED BY <2>1 DEF ExistsBijection
<1>8. IsFiniteSet(Ways) /\ Cardinality(Ways) = E
  BY LinesAssumption, FS_Interval DEF Ways
<1>9. /\ IsFiniteSet(V) /\ Cardinality(V) \in Nat /\ Cardinality(V) <= E
      /\ Cardinality(V) = E => V = Ways
  BY <1>8, FS_Subset, FS_CardinalityType
<1>10. Cardinality(C) = Cardinality(V)
  BY <1>7, <1>9, FS_Bijection
<1>11. CASE Empty(k) = {}
  BY <1>8, <1>10, <1>11
<1>12. CASE Empty(k) # {}
  <2>1. V # Ways
    BY <1>12 DEF Empty
  <2> QED BY <1>9, <1>10, <1>12, <2>1, LinesAssumption
<1> QED BY <1>11, <1>12

\* What using line i for address a does to the cached blocks: the block that the line
\* held goes, unless it is a's own, and a's block comes.
LEMMA UseCaches ==
    ASSUME Inv, NEW a \in Addrs, NEW i \in Ways, Use(a, i),
           Matching(SetNumber(a), Tag(a)) \subseteq {i}
    PROVE  LET k == SetNumber(a)
               old == BlockOf(k, blocks[k][i].tag)
           IN  cached' = (IF blocks[k][i].valid THEN cached \ {old} ELSE cached)
                            \cup {MemBlock(a)}
<1> DEFINE k0 == SetNumber(a)
           old == BlockOf(k0, blocks[k0][i].tag)
           new == MemBlock(a)
           rest == IF blocks[k0][i].valid THEN cached \ {old} ELSE cached
<1>0. k0 \in Sets /\ new = BlockOf(k0, Tag(a)) /\ new \in MemBlocks
  BY AddressParts
<1>1. /\ blocks'[k0][i] = [valid |-> TRUE, tag |-> Tag(a), timestamp |-> currentTime]
      /\ \A k \in Sets, j \in Ways : <<k, j>> # <<k0, i>> => blocks'[k][j] = blocks[k][j]
  BY UseChanges DEF Inv
<1>2. new \in cached'
  BY <1>0, <1>1, AddressBlock DEF cached, Matching
<1>3. ASSUME NEW x \in MemBlocks, x # new
      PROVE  x \in cached' <=> x \in rest
  <2>0. IndexOf(x) \in Sets /\ x = BlockOf(IndexOf(x), TagOf(x))
    BY BlockParts
  <2>1. x \in cached' <=> \E j \in Ways : <<IndexOf(x), j>> # <<k0, i>>
                             /\ blocks[IndexOf(x)][j].valid /\ blocks[IndexOf(x)][j].tag = TagOf(x)
    <3>1. ASSUME NEW j \in Ways, blocks'[IndexOf(x)][j].valid, blocks'[IndexOf(x)][j].tag = TagOf(x)
          PROVE  <<IndexOf(x), j>> # <<k0, i>>
      BY <1>0, <1>1, <1>3, <2>0, <3>1
    <3> QED BY <1>1, <2>0, <3>1 DEF cached, Matching
  <2>2. CASE ~(IndexOf(x) = k0 /\ blocks[k0][i].valid /\ blocks[k0][i].tag = TagOf(x))
    <3>1. x \in cached' <=> x \in cached
      BY <2>1, <2>2 DEF cached, Matching
    <3>2. x # old \/ ~blocks[k0][i].valid
      <4>1. blocks[k0][i].tag \in Nat
        BY <1>0 DEF Inv, TypeOK, Line
      <4>2. IndexOf(old) = k0 /\ TagOf(old) = blocks[k0][i].tag
        BY <1>0, <4>1, PartsOf
      <4> QED BY <2>2, <4>2
    <3> QED BY <3>1, <3>2
  <2>3. CASE IndexOf(x) = k0 /\ blocks[k0][i].valid /\ blocks[k0][i].tag = TagOf(x)
    <3>1. x = old
      BY <2>0, <2>3
    <3>2. \A j \in Ways \ {i} : blocks[k0][j].valid => blocks[k0][j].tag # TagOf(x)
      <4>1. \A j \in Ways \ {i} : blocks[k0][j].valid => blocks[k0][i].tag # blocks[k0][j].tag
        BY <1>0, <2>3 DEF Inv, LinesAreLru
      <4> QED BY <2>3, <4>1
    <3>3. x \notin cached'
      BY <2>1, <2>3, <3>2
    <3> QED BY <2>3, <3>1, <3>3
  <2> QED BY <2>2, <2>3
<1>4. cached \subseteq MemBlocks /\ cached' \subseteq MemBlocks
  BY DEF cached, MemBlocks
<1>5. cached' = rest \cup {new}
  BY <1>0, <1>2, <1>3, <1>4
<1> QED BY <1>5

\* A hit is a hit of the LRU cache.
LEMMA HitRefines ==
    ASSUME Inv, NEW op \in {"L", "S", "M"}, NEW a \in Addrs, Hit(op, a)
    PROVE  Lru!Hit(MemBlock(a), 1 + StoreHits(op))
<1>1. PICK i \in Matching(SetNumber(a), Tag(a)) : Use(a, i)
  BY DEF Hit
<1>2. i \in Ways /\ blocks[SetNumber(a)][i].valid /\ blocks[SetNumber(a)][i].tag = Tag(a)
  BY <1>1 DEF Matching
<1>3. Matching(SetNumber(a), Tag(a)) \subseteq {i}
  <2>1. \A j \in Ways \ {i} : blocks[SetNumber(a)][j].valid =>
           blocks[SetNumber(a)][i].tag # blocks[SetNumber(a)][j].tag
    BY <1>2, AddressParts DEF Inv, LinesAreLru
  <2> QED BY <1>2, <2>1 DEF Matching
<1>4. MemBlock(a) = BlockOf(SetNumber(a), blocks[SetNumber(a)][i].tag)
  BY <1>2, AddressParts
<1>5. MemBlock(a) \in cached
  BY <1>2, AddressParts, AddressBlock DEF cached, Matching
<1>6. cached' = cached
  <2>1. cached' = (cached \ {MemBlock(a)}) \cup {MemBlock(a)}
    BY <1>1, <1>2, <1>3, <1>4, UseCaches
  <2> QED BY <1>5, <2>1
<1>7. hits' = hits + (1 + StoreHits(op))
  BY DEF Hit, Inv, TypeOK, StoreHits
<1> QED BY <1>5, <1>6, <1>7 DEF Hit, Lru!Hit

\* The address's block is not cached when no line of its set has its tag.
LEMMA NoMatchNotCached ==
    ASSUME NEW a \in Addrs, Matching(SetNumber(a), Tag(a)) = {}
    PROVE  MemBlock(a) \notin cached
BY AddressBlock DEF cached

\* LruCache counts with the same Cardinality.
LEMMA SameCardinality == \A S : Lru!Cardinality(S) = Cardinality(S)
BY DEF Cardinality, Lru!Cardinality

\* A fill of an empty line is a fill of a set that is not full.
LEMMA FillRefines ==
    ASSUME Inv, NEW op \in {"L", "S", "M"}, NEW a \in Addrs, Fill(op, a)
    PROVE  Lru!Fill(MemBlock(a), 1 + StoreHits(op))
<1> DEFINE i == firstEmpInd(SetNumber(a))
<1>0. SetNumber(a) \in Sets /\ IndexOf(MemBlock(a)) = SetNumber(a) /\ MemBlock(a) \in MemBlocks
  BY AddressParts, AddressBlock
<1>1. i \in Ways /\ ~blocks[SetNumber(a)][i].valid
  BY <1>0, FirstEmpty DEF Fill, Empty
<1>2. Use(a, i) /\ Matching(SetNumber(a), Tag(a)) = {}
  BY DEF Fill
<1>3. cached' = cached \cup {MemBlock(a)}
  BY <1>1, <1>2, UseCaches
<1>4. Cardinality(Lru!InSameSet(MemBlock(a))) < E
  BY <1>0, CachedOfSet DEF Fill
<1>5. hits' = hits + ((1 + StoreHits(op)) - 1) /\ misses' = misses + 1
  BY DEF Fill, Inv, TypeOK, StoreHits
<1>6. MemBlock(a) \notin cached
  BY <1>2, NoMatchNotCached
<1> QED BY <1>3, <1>4, <1>5, <1>6, SameCardinality DEF Fill, Lru!Fill

\* An eviction takes the least recently used block of a full set.
LEMMA EvictRefines ==
    ASSUME Inv, NEW op \in {"L", "S", "M"}, NEW a \in Addrs, Evict(op, a)
    PROVE  Lru!Evict(MemBlock(a), 1 + StoreHits(op))
<1> DEFINE k == SetNumber(a)
           i == leastAccessInd(k)
           old == BlockOf(k, blocks[k][i].tag)
<1>0. k \in Sets /\ IndexOf(MemBlock(a)) = k /\ MemBlock(a) \in MemBlocks
  BY AddressParts, AddressBlock
<1>1. Use(a, i) /\ Matching(k, Tag(a)) = {} /\ Empty(k) = {}
  BY DEF Evict
<1>2. i \in Ways /\ \A j \in Ways : blocks[k][i].timestamp <= blocks[k][j].timestamp
  BY <1>0, <1>1, LeastAccess
<1>3. \A j \in Ways : /\ blocks[k][j].valid
                      /\ BlockOf(k, blocks[k][j].tag) \in MemBlocks
                      /\ blocks[k][j].timestamp = lastUse[BlockOf(k, blocks[k][j].tag)]
  BY <1>0, <1>1 DEF Empty, Inv, LinesAreLru
<1>4. cached' = (cached \ {old}) \cup {MemBlock(a)}
  BY <1>1, <1>2, <1>3, UseCaches
<1>5. old \in MemBlocks /\ old \in Lru!InSameSet(MemBlock(a))
  <2>1. blocks[k][i].tag \in Nat
    BY <1>0, <1>2 DEF Inv, TypeOK, Line
  <2>2. IndexOf(old) = k /\ TagOf(old) = blocks[k][i].tag
    BY <1>0, <2>1, PartsOf
  <2> QED BY <1>0, <1>2, <1>3, <2>2 DEF Lru!InSameSet, cached, Matching
<1>6. ASSUME NEW z \in Lru!InSameSet(MemBlock(a)) PROVE lastUse[old] <= lastUse[z]
  <2>1. z \in MemBlocks /\ IndexOf(z) = k /\ \E j \in Ways : blocks[k][j].tag = TagOf(z)
    BY <1>0, <1>6 DEF Lru!InSameSet, cached, Matching
  <2>2. PICK j \in Ways : blocks[k][j].tag = TagOf(z)
    BY <2>1
  <2>3. z = BlockOf(k, blocks[k][j].tag)
    BY <2>1, <2>2, BlockParts
  <2> QED BY <1>2, <1>3, <2>3
<1>7. Lru!LeastRecent(MemBlock(a), old)
  BY <1>5, <1>6 DEF Lru!LeastRecent
<1>8. Cardinality(Lru!InSameSet(MemBlock(a))) = E
  BY <1>0, <1>1, CachedOfSet
<1>9. hits' = hits + ((1 + StoreHits(op)) - 1) /\ misses' = misses + 1 /\ evictions' = evictions + 1
  BY DEF Evict, Inv, TypeOK, StoreHits
<1>10. MemBlock(a) \notin cached
  BY <1>1, NoMatchNotCached
<1> QED BY <1>4, <1>5, <1>7, <1>8, <1>9, <1>10, SameCardinality DEF Lru!Evict

\* For every geometry and every trace csim simulates a cache with least-recently-used
\* replacement: the same blocks are cached, and hits, misses and evictions agree.
THEOREM Refinement == Spec => ImplementsLru
<1>1. Init => Lru!Init
  <2>1. ASSUME Init PROVE cached = {}
    BY <2>1, BlockParts DEF Init, cached, Matching, EmptyLine
  <2> QED BY <2>1 DEF Init, Lru!Init
<1>2. Inv /\ [Next]_vars => [Lru!Next]_(Lru!vars)
  <2> SUFFICES ASSUME Inv, [Next]_vars PROVE [Lru!Next]_(Lru!vars)
    OBVIOUS
  <2>1. CASE Ignore
    BY <2>1 DEF Ignore, Tick, cached, Matching, Lru!Next, Lru!Other
  <2>2. ASSUME NEW op \in {"L", "S", "M"}, NEW a \in Addrs, processLine(op, a)
        PROVE  Lru!Next
    <3> DEFINE n == 1 + StoreHits(op)
    <3>1. n \in {1, 2} /\ MemBlock(a) \in MemBlocks
      BY AddressParts DEF StoreHits
    <3>2. Lru!Hit(MemBlock(a), n) \/ Lru!Fill(MemBlock(a), n) \/ Lru!Evict(MemBlock(a), n)
      BY <2>2, HitRefines, FillRefines, EvictRefines DEF processLine
    <3>3. /\ lastUse' = [lastUse EXCEPT ![MemBlock(a)] = currentTime]
          /\ currentTime' = currentTime + 1
      BY <2>2 DEF processLine, Tick
    <3>4. Lru!Access(MemBlock(a), n)
      BY <3>2, <3>3 DEF Lru!Access
    <3> QED BY <3>1, <3>4 DEF Lru!Next
  <2>3. CASE UNCHANGED vars
    BY <2>3 DEF vars, Lru!vars, cached, Matching
  <2> QED BY <2>1, <2>2, <2>3 DEF Next
<1> QED BY <1>1, <1>2, InvHolds, PTL DEF Spec, ImplementsLru, Lru!Spec

=============================================================================
