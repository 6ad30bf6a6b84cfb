--------------------------- MODULE ProxyCacheProofs -------------------------
(***************************************************************************)
(* Proofs about the proxy's threads and their cache, for any number of     *)
(* connections and blocks: the types and the semaphores; then the LRU      *)
(* values with any number of stores at once, which pages stay when there   *)
(* is one connection at a time, and that all the threads together do what  *)
(* PageCache promises.                                                     *)
(***************************************************************************)
EXTENDS ProxyCacheRefinement, FiniteSetTheorems, TLAPS

-----------------------------------------------------------------------------
(* Type correctness. *)

\* Every step of a thread keeps the types: in particular no scan of the cache and
\* no round of cache_LRU leaves the array of blocks, and no semaphore goes below 0.
LEMMA TypeStep == TypeOK /\ [Next]_vars => TypeOK'
<1> USE CountAssumption, LruAssumption, UrlsAssumption
<1> SUFFICES ASSUME TypeOK, [Next]_vars PROVE TypeOK'
  OBVIOUS
<1>1. CASE UNCHANGED vars
  BY <1>1 DEF TypeOK, vars, blockVars, lockVars, threadVars
<1>2. ASSUME NEW t \in Threads, NEW u \in Urls, Get(t, u) PROVE TypeOK'
  BY <1>2 DEF TypeOK, Get, Goto, blockVars, lockVars, PCs
<1>3. ASSUME NEW t \in Threads, Refuse(t) PROVE TypeOK'
  BY <1>3 DEF TypeOK, Refuse, Goto, blockVars, lockVars, PCs
<1>4. ASSUME NEW t \in Threads, ProcessExit(t) PROVE TypeOK'
  BY <1>4 DEF TypeOK, ProcessExit, blockVars, lockVars, threadVars
<1>5. ASSUME NEW t \in Threads, ReaderPreCount(t) PROVE TypeOK'
  BY <1>5 DEF TypeOK, ReaderPreCount, Goto, P, blockVars, PCs
<1>6. ASSUME NEW t \in Threads, ReaderPreLock(t) PROVE TypeOK'
  BY <1>6 DEF TypeOK, ReaderPreLock, Goto, P, V, blockVars, PCs
<1>7. ASSUME NEW t \in Threads, ReaderAfterCount(t) PROVE TypeOK'
  BY <1>7 DEF TypeOK, ReaderAfterCount, Goto, P, blockVars, PCs
<1>8. ASSUME NEW t \in Threads, ReaderAfterUnlock(t) PROVE TypeOK'
  <2>1. AfterScan(t) \in PCs
    BY DEF TypeOK, AfterScan, Fns, PCs
  <2>2. LoopsOn(t) => i[t] + 1 \in Blocks
    <3>1. i[t] \in 0 .. CACHE_OBJS_COUNT - 1
      BY DEF TypeOK, Blocks
    <3> QED
      BY <3>1 DEF LoopsOn, Blocks
  <2>3. i' \in [Threads -> Blocks]
    BY <1>8, <2>2 DEF TypeOK, ReaderAfterUnlock
  <2> QED
    BY <1>8, <2>1, <2>3 DEF TypeOK, ReaderAfterUnlock, Goto, V, blockVars, PCs
<1>9. ASSUME NEW t \in Threads, FindHit(t) PROVE TypeOK'
  BY <1>9 DEF TypeOK, FindHit, Goto, blockVars, lockVars, PCs, Fns
<1>10. ASSUME NEW t \in Threads, FindNext(t) PROVE TypeOK'
  BY <1>10 DEF TypeOK, FindNext, Goto, blockVars, lockVars, PCs
<1>11. ASSUME NEW t \in Threads, SendCached(t) PROVE TypeOK'
  BY <1>11 DEF TypeOK, SendCached, Goto, blockVars, lockVars, PCs
<1>12. ASSUME NEW t \in Threads, ConsiderVictim(t) PROVE TypeOK'
  BY <1>12 DEF TypeOK, ConsiderVictim, Goto, blockVars, lockVars, PCs
<1>13. ASSUME NEW t \in Threads, Relay(t) PROVE TypeOK'
  <2>1. 0 \in Blocks
    BY DEF Blocks
  <2>2. \A g \in BOOLEAN : [url |-> uri[t], prefixed |-> g] \in Pages
    BY DEF TypeOK, Pages
  <2>3. sent' \in [Threads -> Pages]
    BY <1>13, <2>2 DEF TypeOK, Relay
  <2>4. cachebuf' \in [Threads -> Pages]
    BY <1>13, <2>2 DEF TypeOK, Relay
  <2>5. /\ pc' \in [Threads -> PCs] /\ fn' \in [Threads -> Fns]
        /\ i' \in [Threads -> Blocks] /\ index' \in [Threads -> Blocks]
    BY <1>13, <2>1 DEF TypeOK, Relay, Goto, PCs, Fns
  <2> QED
    BY <1>13, <2>3, <2>4, <2>5 DEF TypeOK, Relay, blockVars, lockVars
<1>14. ASSUME NEW t \in Threads, WritePre(t) PROVE TypeOK'
  BY <1>14 DEF TypeOK, WritePre, Goto, P, blockVars, PCs
<1>15. ASSUME NEW t \in Threads, CopyObj(t) PROVE TypeOK'
  BY <1>15 DEF TypeOK, CopyObj, Goto, lockVars, PCs
<1>16. ASSUME NEW t \in Threads, NEW b \in Blocks \cup {-1}, NEW a, LruGoto(t, a, Succ(t, b))
       PROVE pc' \in [Threads -> PCs] /\ i' \in [Threads -> Blocks]
  <2>1. Succ(t, b) \in Nat
    BY SMTT(20) DEF Succ, Blocks, TypeOK
  <2>2. Succ(t, b) < CACHE_OBJS_COUNT => Succ(t, b) \in Blocks
    BY <2>1 DEF Blocks
  <2> QED
    BY <1>16, <2>2 DEF LruGoto, Goto, TypeOK, PCs
<1>17. ASSUME NEW t \in Threads, CopyUrl(t) PROVE TypeOK'
  BY <1>16, <1>17 DEF TypeOK, CopyUrl, lockVars
<1>18. ASSUME NEW t \in Threads, LruPre(t) PROVE TypeOK'
  BY <1>18 DEF TypeOK, LruPre, Goto, P, blockVars, PCs
<1>19. ASSUME NEW t \in Threads, LruDec(t) PROVE TypeOK'
  <2>1. i[t] \in Blocks
    BY DEF TypeOK
  <2>2. pc' \in [Threads -> PCs] /\ i' \in [Threads -> Blocks]
    BY <1>16, <1>19, <2>1 DEF LruDec
  <2> QED
    BY <1>19, <2>2 DEF TypeOK, LruDec, V
<1>20. ASSUME NEW t \in Threads, WriteAfter(t) PROVE TypeOK'
  BY <1>20 DEF TypeOK, WriteAfter, Goto, V, blockVars, PCs
<1> QED
  BY <1>1, <1>2, <1>3, <1>4, <1>5, <1>6, <1>7, <1>8, <1>9, <1>10, <1>11, <1>12,
     <1>13, <1>14, <1>15, <1>17, <1>18, <1>19, <1>20
  DEF Next, Step, Reader, Find, Store

\* The proxy's state keeps its types in every behaviour.
THEOREM TypeCorrect == Spec => []TypeOK
<1>1. Init => TypeOK
  BY CountAssumption DEF Init, TypeOK, Pages, NoPage, PCs, Fns, Blocks
<1> QED
  BY <1>1, TypeStep, PTL DEF Spec

-----------------------------------------------------------------------------
(* The locks. *)

\* The sets of threads that the lock invariant speaks about are finite.
LEMMA RolesFinite ==
    \A b : IsFiniteSet(Counted(b)) /\ IsFiniteSet(Pins(b))
<1> SUFFICES ASSUME NEW b PROVE IsFiniteSet(Counted(b)) /\ IsFiniteSet(Pins(b))
  OBVIOUS
<1>1. Counted(b) \subseteq Threads /\ Pins(b) \subseteq Threads
  BY DEF Counted, Pins
<1> QED
  BY <1>1, ThreadsAssumption, FS_Subset

\* The lock invariant of a block depends on the block's locks and on who stands
\* where, on nothing else.
Roles(b) == <<Counted(b), Pins(b), Writers(b), RdHolders(b), ReaderGroup(b)>>
Locks(b) == <<rdcntmutex[b], readCnt[b], wmutex[b]>>

LEMMA SameRoles ==
    ASSUME NEW b \in Blocks, BlockOK(b), Roles(b)' = Roles(b), Locks(b)' = Locks(b)
    PROVE  BlockOK(b)'
BY DEF BlockOK, RdMutexOK, CountOK, WMutexOK, Roles, Locks

\* Steps that neither enter nor leave a lock.
LEMMA PlainSteps ==
    ASSUME TypeOK, LockInv, NEW t \in Threads,
           \/ \E u \in Urls : Get(t, u)
           \/ Refuse(t) \/ ProcessExit(t) \/ FindNext(t) \/ SendCached(t)
           \/ ConsiderVictim(t) \/ Relay(t) \/ CopyObj(t) \/ CopyUrl(t)
    PROVE  LockInv'
<1> DEFINE Same == ThreadInv' /\ \A b \in Blocks : Roles(b)' = Roles(b) /\ Locks(b)' = Locks(b)
<1> USE DEF TypeOK, Goto, Roles, Locks, Counted, Pins, Readers, Writers, RdHolders, ReaderGroup,
            ThreadInv, StorePCs, lockVars, threadVars
<1>0. ThreadInv /\ \A b \in Blocks : BlockOK(b)
  BY DEF LockInv
<1>1. CASE \E u \in Urls : Get(t, u)
  <2>1. Same BY <1>0, <1>1 DEF Get
  <2> QED BY <1>0, <2>1, SameRoles DEF LockInv
<1>2. CASE Refuse(t)
  <2>1. Same BY <1>0, <1>2 DEF Refuse
  <2> QED BY <1>0, <2>1, SameRoles DEF LockInv
<1>3. CASE ProcessExit(t)
  <2>1. Same BY <1>0, <1>3 DEF ProcessExit
  <2> QED BY <1>0, <2>1, SameRoles DEF LockInv
<1>4. CASE FindNext(t)
  <2>1. Same BY <1>0, <1>4 DEF FindNext
  <2> QED BY <1>0, <2>1, SameRoles DEF LockInv
<1>5. CASE SendCached(t)
  <2>1. Same BY <1>0, <1>5 DEF SendCached
  <2> QED BY <1>0, <2>1, SameRoles DEF LockInv
<1>6. CASE ConsiderVictim(t)
  <2>1. Same BY <1>0, <1>6 DEF ConsiderVictim
  <2> QED BY <1>0, <2>1, SameRoles DEF LockInv
<1>7. CASE Relay(t)
  <2>1. Same BY <1>0, <1>7 DEF Relay
  <2> QED BY <1>0, <2>1, SameRoles DEF LockInv
<1>8. CASE CopyObj(t)
  <2>1. Same BY <1>0, <1>8 DEF CopyObj
  <2> QED BY <1>0, <2>1, SameRoles DEF LockInv
<1>9. CASE CopyUrl(t)
  <2>1. Same BY <1>0, <1>9 DEF CopyUrl, LruGoto, Succ
  <2> QED BY <1>0, <2>1, SameRoles DEF LockInv
<1> QED
  BY <1>1, <1>2, <1>3, <1>4, <1>5, <1>6, <1>7, <1>8, <1>9

\* One element more or less in a finite set.
LEMMA CardPlus ==
    ASSUME NEW S, IsFiniteSet(S), NEW x, x \notin S
    PROVE  Cardinality(S \cup {x}) = Cardinality(S) + 1
BY FS_AddElement

LEMMA CardMinus ==
    ASSUME NEW S, IsFiniteSet(S), NEW x \in S
    PROVE  /\ Cardinality(S \ {x}) = Cardinality(S) - 1
           /\ Cardinality(S) - 1 \in Nat
           /\ Cardinality(S) = 1 <=> S = {x}
<1>1. /\ IsFiniteSet(S \ {x}) /\ Cardinality(S \ {x}) = Cardinality(S) - 1
  BY FS_RemoveElement
<1>2. Cardinality(S \ {x}) \in Nat /\ Cardinality(S) \in Nat
  BY <1>1, FS_CardinalityType
<1>3. Cardinality(S \ {x}) = 0 <=> S \ {x} = {}
  BY <1>1, FS_EmptySet
<1> QED
  BY <1>1, <1>2, <1>3

\* A count of 0 means that nobody is counted and nobody left a hit behind.
LEMMA CountZero ==
    ASSUME NEW b \in Blocks, CountOK(b)
    PROVE  readCnt[b] = 0 <=> Counted(b) = {} /\ Pins(b) = {}
<1>1. Cardinality(Counted(b)) \in Nat /\ Cardinality(Pins(b)) \in Nat
  BY RolesFinite, FS_CardinalityType
<1>2. /\ Cardinality(Counted(b)) = 0 <=> Counted(b) = {}
      /\ Cardinality(Pins(b)) = 0 <=> Pins(b) = {}
  BY RolesFinite, FS_EmptySet
<1> QED
  BY <1>1, <1>2 DEF CountOK

\* A count of 1 means that the thread that just counted is alone.
LEMMA CountOne ==
    ASSUME NEW b \in Blocks, CountOK(b), NEW t \in Counted(b)
    PROVE  readCnt[b] = 1 <=> Counted(b) = {t} /\ Pins(b) = {}
<1>1. /\ Cardinality(Counted(b)) - 1 \in Nat
      /\ Cardinality(Counted(b)) = 1 <=> Counted(b) = {t}
  BY RolesFinite, CardMinus
<1>2. Cardinality(Counted(b)) \in Int /\ Cardinality(Pins(b)) \in Nat
  BY RolesFinite, FS_CardinalityType
<1>3. Cardinality(Pins(b)) = 0 <=> Pins(b) = {}
  BY RolesFinite, FS_EmptySet
<1> QED
  BY <1>1, <1>2, <1>3 DEF CountOK

\* readerPre, first half: the thread takes rdcntmutex and is counted.
LEMMA ReaderPreCountStep ==
    ASSUME TypeOK, LockInv, NEW t \in Threads, ReaderPreCount(t)
    PROVE  LockInv'
<1> DEFINE x == i[t]
<1> USE DEF ReaderPreCount, Goto
<1>0. x \in Blocks /\ ThreadInv /\ \A b \in Blocks : BlockOK(b)
  BY DEF TypeOK, LockInv
<1>1. ThreadInv'
  BY <1>0 DEF TypeOK, ThreadInv, StorePCs
<1>2. \A b \in Blocks : b # x => Roles(b)' = Roles(b) /\ Locks(b)' = Locks(b)
  BY DEF TypeOK, P, Roles, Locks, Counted, Pins, Readers, Writers, RdHolders, ReaderGroup
<1>3. /\ Counted(x)' = Counted(x) \cup {t} /\ t \notin Counted(x)
      /\ Pins(x)' = Pins(x)
      /\ Writers(x)' = Writers(x)
      /\ RdHolders(x)' = RdHolders(x) \cup {t}
      /\ ReaderGroup(x)' = ReaderGroup(x)
  BY DEF TypeOK, Counted, Pins, Readers, Writers, RdHolders, ReaderGroup
<1>4. /\ rdcntmutex[x] = 1 /\ RdHolders(x) = {}
      /\ rdcntmutex'[x] = 0
      /\ readCnt'[x] = readCnt[x] + 1
      /\ wmutex'[x] = wmutex[x]
  BY <1>0 DEF TypeOK, P, BlockOK, RdMutexOK
<1>5. RdMutexOK(x)'
  BY <1>3, <1>4 DEF RdMutexOK
<1>6. CountOK(x)'
  <2>1. Cardinality(Counted(x) \cup {t}) = Cardinality(Counted(x)) + 1
    BY <1>3, RolesFinite, CardPlus
  <2>2. Cardinality(Counted(x)) \in Int /\ Cardinality(Pins(x)) \in Int
    BY RolesFinite, FS_CardinalityType
  <2>3. readCnt[x] = Cardinality(Counted(x)) + Cardinality(Pins(x))
    BY <1>0 DEF BlockOK, CountOK
  <2> QED
    BY <1>3, <1>4, <2>1, <2>2, <2>3 DEF CountOK
<1>7. WMutexOK(x)'
  BY <1>0, <1>3, <1>4 DEF BlockOK, WMutexOK
<1> QED
  BY <1>0, <1>1, <1>2, <1>5, <1>6, <1>7, SameRoles DEF LockInv, BlockOK

\* readerPre, second half: the first reader takes wmutex for the group.
LEMMA ReaderPreLockStep ==
    ASSUME TypeOK, LockInv, NEW t \in Threads, ReaderPreLock(t)
    PROVE  LockInv'
<1> DEFINE x == i[t]
<1> USE DEF ReaderPreLock, Goto
<1>0. x \in Blocks /\ ThreadInv /\ \A b \in Blocks : BlockOK(b)
  BY DEF TypeOK, LockInv
<1>1. ThreadInv'
  BY <1>0 DEF TypeOK, ThreadInv, StorePCs
<1>2. \A b \in Blocks : b # x => Roles(b)' = Roles(b) /\ Locks(b)' = Locks(b)
  BY <1>0 DEF TypeOK, ThreadInv, P, V, Roles, Locks,
     Counted, Pins, Readers, Writers, RdHolders, ReaderGroup
<1>3. /\ t \in Counted(x) /\ Counted(x)' = Counted(x)
      /\ Pins(x)' = Pins(x)
      /\ Writers(x)' = Writers(x)
      /\ t \in RdHolders(x) /\ RdHolders(x)' = RdHolders(x) \ {t}
      /\ t \in ReaderGroup(x)' /\ ReaderGroup(x) \subseteq ReaderGroup(x)'
  BY DEF TypeOK, Counted, Pins, Readers, Writers, RdHolders, ReaderGroup
<1>4. RdHolders(x) = {t} /\ rdcntmutex[x] = 0
  BY <1>0, <1>3 DEF BlockOK, RdMutexOK
<1>5. rdcntmutex'[x] = 1 /\ readCnt'[x] = readCnt[x]
  BY <1>0, <1>4 DEF TypeOK, V
<1>6. RdMutexOK(x)'
  BY <1>3, <1>4, <1>5 DEF RdMutexOK
<1>7. CountOK(x)'
  BY <1>0, <1>3, <1>5 DEF BlockOK, CountOK
<1>8. readCnt[x] = 1 <=> Counted(x) = {t} /\ Pins(x) = {}
  BY <1>0, <1>3, CountOne DEF BlockOK
<1>9. WMutexOK(x)'
  <2>1. CASE readCnt[x] = 1
    <3>1. wmutex[x] > 0 /\ wmutex'[x] = wmutex[x] - 1
      BY <1>0, <2>1 DEF TypeOK, P
    <3>2. wmutex[x] = 1 /\ Writers(x) = {}
      BY <1>0, <3>1 DEF BlockOK, WMutexOK
    <3> QED
      BY <1>3, <3>1, <3>2 DEF WMutexOK
  <2>2. CASE readCnt[x] # 1
    <3>1. PICK u \in Counted(x) \cup Pins(x) : u # t \/ u \in Pins(x)
      BY <1>3, <1>8, <2>2
    <3>2. u \in ReaderGroup(x)
      BY <1>4, <3>1 DEF Counted, Readers, ReaderGroup, RdHolders
    <3>3. wmutex'[x] = wmutex[x]
      BY <2>2
    <3> QED
      BY <1>0, <1>3, <3>2, <3>3 DEF BlockOK, WMutexOK
  <2> QED
    BY <2>1, <2>2
<1> QED
  BY <1>0, <1>1, <1>2, <1>6, <1>7, <1>9, SameRoles DEF LockInv, BlockOK

\* readerAfter, first half: the thread takes rdcntmutex and is no longer counted.
LEMMA ReaderAfterCountStep ==
    ASSUME TypeOK, LockInv, NEW t \in Threads, ReaderAfterCount(t)
    PROVE  LockInv'
<1> DEFINE x == i[t]
<1> USE DEF ReaderAfterCount, Goto
<1>0. x \in Blocks /\ ThreadInv /\ \A b \in Blocks : BlockOK(b)
  BY DEF TypeOK, LockInv
<1>1. ThreadInv'
  BY <1>0 DEF TypeOK, ThreadInv, StorePCs
<1>2. \A b \in Blocks : b # x => Roles(b)' = Roles(b) /\ Locks(b)' = Locks(b)
  BY <1>0 DEF TypeOK, ThreadInv, P, V, Roles, Locks,
     Counted, Pins, Readers, Writers, RdHolders, ReaderGroup
<1>3. /\ t \in Counted(x) /\ Counted(x)' = Counted(x) \ {t}
      /\ Pins(x)' = Pins(x)
      /\ Writers(x)' = Writers(x)
      /\ RdHolders(x)' = RdHolders(x) \cup {t}
      /\ ReaderGroup(x)' = ReaderGroup(x)
  BY DEF TypeOK, Counted, Pins, Readers, Writers, RdHolders, ReaderGroup
<1>4. /\ rdcntmutex[x] = 1 /\ RdHolders(x) = {}
      /\ rdcntmutex'[x] = 0
      /\ readCnt'[x] = readCnt[x] - 1
      /\ wmutex'[x] = wmutex[x]
  BY <1>0 DEF TypeOK, P, BlockOK, RdMutexOK
<1>5. RdMutexOK(x)'
  BY <1>3, <1>4 DEF RdMutexOK
<1>6. CountOK(x)'
  <2>1. Cardinality(Counted(x) \ {t}) = Cardinality(Counted(x)) - 1
    BY <1>3, RolesFinite, CardMinus
  <2>2. Cardinality(Counted(x)) \in Int /\ Cardinality(Pins(x)) \in Int
    BY RolesFinite, FS_CardinalityType
  <2>3. readCnt[x] = Cardinality(Counted(x)) + Cardinality(Pins(x))
    BY <1>0 DEF BlockOK, CountOK
  <2> QED
    BY <1>3, <1>4, <2>1, <2>2, <2>3 DEF CountOK
<1>7. WMutexOK(x)'
  BY <1>0, <1>3, <1>4 DEF BlockOK, WMutexOK
<1> QED
  BY <1>0, <1>1, <1>2, <1>5, <1>6, <1>7, SameRoles DEF LockInv, BlockOK

\* readerAfter, second half: the last reader gives wmutex back for the group.
LEMMA ReaderAfterUnlockStep ==
    ASSUME TypeOK, LockInv, NEW t \in Threads, ReaderAfterUnlock(t)
    PROVE  LockInv'
<1> USE DEF ReaderAfterUnlock, Goto
<1>a. PICK x \in Blocks : x = i[t]
  BY DEF TypeOK
<1>0. x = i[t] /\ ThreadInv /\ \A b \in Blocks : BlockOK(b)
  BY <1>a DEF LockInv
<1>1. ThreadInv'
  BY <1>0 DEF TypeOK, ThreadInv, StorePCs, LoopsOn, AfterScan, Fns
<1>2. \A b \in Blocks : b # x => Roles(b)' = Roles(b) /\ Locks(b)' = Locks(b)
  BY <1>0 DEF TypeOK, ThreadInv, P, V, Roles, Locks,
     Counted, Pins, Readers, Writers, RdHolders, ReaderGroup, LoopsOn, AfterScan, Fns
<1>3. /\ t \notin Counted(x) /\ Counted(x)' = Counted(x)
      /\ Pins(x)' = Pins(x)
      /\ Writers(x)' = Writers(x)
      /\ t \in RdHolders(x) /\ RdHolders(x)' = RdHolders(x) \ {t}
      /\ t \in ReaderGroup(x) /\ ReaderGroup(x)' = (ReaderGroup(x) \ {t}) \cup Pins(x)
  BY <1>0 DEF TypeOK, LoopsOn, AfterScan, Fns, Counted, Pins, Readers, Writers, RdHolders, ReaderGroup
<1>4. RdHolders(x) = {t} /\ rdcntmutex[x] = 0 /\ wmutex[x] = 0 /\ Writers(x) = {}
  BY <1>0, <1>3 DEF BlockOK, RdMutexOK, WMutexOK
<1>5. rdcntmutex'[x] = 1 /\ readCnt'[x] = readCnt[x]
  BY <1>0, <1>4 DEF TypeOK, V
<1>6. RdMutexOK(x)'
  BY <1>3, <1>4, <1>5 DEF RdMutexOK
<1>7. CountOK(x)'
  BY <1>0, <1>3, <1>5 DEF BlockOK, CountOK
<1>8. readCnt[x] = 0 <=> Counted(x) = {} /\ Pins(x) = {}
  BY <1>0, CountZero DEF BlockOK
<1>9. ReaderGroup(x) \subseteq Counted(x) \cup Pins(x) \cup {t}
  BY <1>4 DEF ReaderGroup, Readers, Counted, RdHolders
<1>10. WMutexOK(x)'
  <2>1. CASE readCnt[x] = 0
    <3>1. wmutex'[x] = 1
      BY <1>0, <1>4, <2>1 DEF TypeOK, V
    <3> QED
      BY <1>3, <1>4, <1>8, <1>9, <2>1, <3>1 DEF WMutexOK
  <2>2. CASE readCnt[x] # 0
    <3>1. PICK u : u \in Counted(x) \cup Pins(x)
      BY <1>8, <2>2
    <3>2. u \in ReaderGroup(x)'
      BY <1>3, <1>4, <3>1 DEF Counted, Readers, ReaderGroup, RdHolders
    <3>3. wmutex'[x] = wmutex[x]
      BY <1>0, <2>2
    <3> QED
      BY <1>3, <1>4, <3>2, <3>3 DEF WMutexOK
  <2> QED
    BY <2>1, <2>2
<1> QED
  BY <1>0, <1>1, <1>2, <1>6, <1>7, <1>10, SameRoles DEF LockInv, BlockOK

\* A hit: the count that was the reader's stays behind as a pin.
LEMMA FindHitStep ==
    ASSUME TypeOK, LockInv, NEW t \in Threads, FindHit(t)
    PROVE  LockInv'
<1> DEFINE x == i[t]
<1> USE DEF FindHit, Goto
<1>0. x \in Blocks /\ ThreadInv /\ \A b \in Blocks : BlockOK(b)
  BY DEF TypeOK, LockInv
<1>1. ThreadInv'
  BY <1>0 DEF TypeOK, ThreadInv, StorePCs, lockVars
<1>2. \A b \in Blocks : b # x => Roles(b)' = Roles(b) /\ Locks(b)' = Locks(b)
  BY <1>0 DEF TypeOK, ThreadInv, P, V, Roles, Locks,
     Counted, Pins, Readers, Writers, RdHolders, ReaderGroup, lockVars
<1>3. /\ t \in Counted(x) /\ Counted(x)' = Counted(x) \ {t}
      /\ t \notin Pins(x) /\ Pins(x)' = Pins(x) \cup {t}
      /\ Writers(x)' = Writers(x)
      /\ RdHolders(x)' = RdHolders(x)
      /\ ReaderGroup(x)' = ReaderGroup(x)
  BY DEF TypeOK, Counted, Pins, Readers, Writers, RdHolders, ReaderGroup
<1>4. Locks(x)' = Locks(x)
  BY DEF Locks, lockVars
<1>5. CountOK(x)'
  <2>1. /\ Cardinality(Counted(x) \ {t}) = Cardinality(Counted(x)) - 1
        /\ Cardinality(Pins(x) \cup {t}) = Cardinality(Pins(x)) + 1
    BY <1>3, RolesFinite, CardMinus, CardPlus
  <2>2. Cardinality(Counted(x)) \in Int /\ Cardinality(Pins(x)) \in Int
    BY RolesFinite, FS_CardinalityType
  <2>3. readCnt[x] = Cardinality(Counted(x)) + Cardinality(Pins(x))
    BY <1>0 DEF BlockOK, CountOK
  <2> QED
    BY <1>3, <1>4, <2>1, <2>2, <2>3 DEF CountOK, Locks
<1>6. RdMutexOK(x)' /\ WMutexOK(x)'
  BY <1>0, <1>3, <1>4 DEF BlockOK, RdMutexOK, WMutexOK, Locks
<1> QED
  BY <1>0, <1>1, <1>2, <1>5, <1>6, SameRoles DEF LockInv, BlockOK

\* cache_uri takes the block it is going to replace.
LEMMA WritePreStep ==
    ASSUME TypeOK, LockInv, NEW t \in Threads, WritePre(t)
    PROVE  LockInv'
<1> DEFINE x == index[t]
<1> USE DEF WritePre, Goto
<1>0. x \in Blocks /\ ThreadInv /\ \A b \in Blocks : BlockOK(b)
  BY DEF TypeOK, LockInv
<1>1. ThreadInv'
  BY <1>0 DEF TypeOK, ThreadInv, StorePCs
<1>2. \A b \in Blocks : b # x => Roles(b)' = Roles(b) /\ Locks(b)' = Locks(b)
  BY <1>0 DEF TypeOK, ThreadInv, P, Roles, Locks,
     Counted, Pins, Readers, Writers, RdHolders, ReaderGroup
<1>3. /\ Counted(x)' = Counted(x) /\ Pins(x)' = Pins(x)
      /\ Writers(x)' = Writers(x) \cup {t}
      /\ RdHolders(x)' = RdHolders(x)
      /\ ReaderGroup(x)' = ReaderGroup(x)
  BY <1>0 DEF TypeOK, ThreadInv, Counted, Pins, Readers, Writers, RdHolders, ReaderGroup
<1>4. /\ wmutex[x] = 1 /\ Writers(x) = {} /\ ReaderGroup(x) = {}
      /\ wmutex'[x] = 0
      /\ readCnt'[x] = readCnt[x] /\ rdcntmutex'[x] = rdcntmutex[x]
  BY <1>0 DEF TypeOK, P, BlockOK, WMutexOK
<1>5. WMutexOK(x)'
  BY <1>3, <1>4 DEF WMutexOK
<1>6. RdMutexOK(x)' /\ CountOK(x)'
  BY <1>0, <1>3, <1>4 DEF BlockOK, RdMutexOK, CountOK
<1> QED
  BY <1>0, <1>1, <1>2, <1>5, <1>6, SameRoles DEF LockInv, BlockOK

\* cache_LRU takes one more block while the store holds its own.
LEMMA LruPreStep ==
    ASSUME TypeOK, LockInv, NEW t \in Threads, LruPre(t)
    PROVE  LockInv'
<1> DEFINE x == i[t]
<1> USE DEF LruPre, Goto
<1>0. x \in Blocks /\ ThreadInv /\ \A b \in Blocks : BlockOK(b)
  BY DEF TypeOK, LockInv
<1>1. ThreadInv'
  BY <1>0 DEF TypeOK, ThreadInv, StorePCs
<1>2. \A b \in Blocks : b # x => Roles(b)' = Roles(b) /\ Locks(b)' = Locks(b)
  BY <1>0 DEF TypeOK, ThreadInv, P, Roles, Locks,
     Counted, Pins, Readers, Writers, RdHolders, ReaderGroup
<1>3. /\ Counted(x)' = Counted(x) /\ Pins(x)' = Pins(x)
      /\ Writers(x)' = Writers(x) \cup {t}
      /\ RdHolders(x)' = RdHolders(x)
      /\ ReaderGroup(x)' = ReaderGroup(x)
  BY <1>0 DEF TypeOK, ThreadInv, Counted, Pins, Readers, Writers, RdHolders, ReaderGroup
<1>4. /\ wmutex[x] = 1 /\ Writers(x) = {} /\ ReaderGroup(x) = {}
      /\ wmutex'[x] = 0
      /\ readCnt'[x] = readCnt[x] /\ rdcntmutex'[x] = rdcntmutex[x]
  BY <1>0 DEF TypeOK, P, BlockOK, WMutexOK
<1>5. WMutexOK(x)'
  BY <1>3, <1>4 DEF WMutexOK
<1>6. RdMutexOK(x)' /\ CountOK(x)'
  BY <1>0, <1>3, <1>4 DEF BlockOK, RdMutexOK, CountOK
<1> QED
  BY <1>0, <1>1, <1>2, <1>5, <1>6, SameRoles DEF LockInv, BlockOK

\* cache_LRU gives that block back and goes on to the next one.
LEMMA LruDecStep ==
    ASSUME TypeOK, LockInv, NEW t \in Threads, LruDec(t)
    PROVE  LockInv'
<1> USE DEF LruDec, Goto, LruGoto, Succ
<1>a. PICK x \in Blocks : x = i[t]
  BY DEF TypeOK
<1>0. x = i[t] /\ ThreadInv /\ \A b \in Blocks : BlockOK(b)
  BY <1>a DEF LockInv
<1>1. ThreadInv'
  <2>1. pc'[t] = "lruPre" => i'[t] = Succ(t, i[t]) /\ i'[t] # index[t]
    BY <1>0 DEF TypeOK, Blocks
  <2>2. pc'[t] \in {"lruPre", "wrAfter"} /\ fn'[t] = "cache_eviction"
    BY <1>0 DEF TypeOK, ThreadInv, StorePCs
  <2>3. \A u \in Threads : u # t => /\ pc'[u] = pc[u] /\ i'[u] = i[u] /\ fn'[u] = fn[u]
                                  /\ index'[u] = index[u] /\ again'[u] = again[u]
    BY DEF TypeOK
  <2>4. index' = index
    OBVIOUS
  <2> QED
    BY <1>0, <2>1, <2>2, <2>3, <2>4 DEF ThreadInv, StorePCs
<1>2. \A b \in Blocks : b # x => Roles(b)' = Roles(b) /\ Locks(b)' = Locks(b)
  BY <1>0 DEF TypeOK, ThreadInv, V, Roles, Locks, StorePCs,
     Counted, Pins, Readers, Writers, RdHolders, ReaderGroup
<1>3. /\ Counted(x)' = Counted(x) /\ Pins(x)' = Pins(x)
      /\ t \in Writers(x) /\ Writers(x)' = Writers(x) \ {t}
      /\ RdHolders(x)' = RdHolders(x)
      /\ ReaderGroup(x)' = ReaderGroup(x)
  BY <1>0 DEF TypeOK, ThreadInv, StorePCs, Counted, Pins, Readers, Writers, RdHolders, ReaderGroup
<1>4. /\ Writers(x) = {t} /\ ReaderGroup(x) = {} /\ wmutex[x] = 0
      /\ wmutex'[x] = 1
      /\ readCnt'[x] = readCnt[x] /\ rdcntmutex'[x] = rdcntmutex[x]
  BY <1>0, <1>3 DEF TypeOK, V, BlockOK, WMutexOK
<1>5. WMutexOK(x)'
  BY <1>3, <1>4 DEF WMutexOK
<1>6. RdMutexOK(x)' /\ CountOK(x)'
  BY <1>0, <1>3, <1>4 DEF BlockOK, RdMutexOK, CountOK
<1> QED
  BY <1>0, <1>1, <1>2, <1>5, <1>6, SameRoles DEF LockInv, BlockOK

\* cache_uri gives its block back.
LEMMA WriteAfterStep ==
    ASSUME TypeOK, LockInv, NEW t \in Threads, WriteAfter(t)
    PROVE  LockInv'
<1> USE DEF WriteAfter, Goto
<1>a. PICK x \in Blocks : x = index[t]
  BY DEF TypeOK
<1>0. x = index[t] /\ ThreadInv /\ \A b \in Blocks : BlockOK(b)
  BY <1>a DEF LockInv
<1>1. ThreadInv'
  BY <1>0 DEF TypeOK, ThreadInv, StorePCs
<1>2. \A b \in Blocks : b # x => Roles(b)' = Roles(b) /\ Locks(b)' = Locks(b)
  BY <1>0 DEF TypeOK, ThreadInv, V, Roles, Locks, StorePCs,
     Counted, Pins, Readers, Writers, RdHolders, ReaderGroup
<1>3. /\ Counted(x)' = Counted(x) /\ Pins(x)' = Pins(x)
      /\ t \in Writers(x) /\ Writers(x)' = Writers(x) \ {t}
      /\ RdHolders(x)' = RdHolders(x)
      /\ ReaderGroup(x)' = ReaderGroup(x)
  BY <1>0 DEF TypeOK, ThreadInv, StorePCs, Counted, Pins, Readers, Writers, RdHolders, ReaderGroup
<1>4. /\ Writers(x) = {t} /\ ReaderGroup(x) = {} /\ wmutex[x] = 0
      /\ wmutex'[x] = 1
      /\ readCnt'[x] = readCnt[x] /\ rdcntmutex'[x] = rdcntmutex[x]
  BY <1>0, <1>3 DEF TypeOK, V, BlockOK, WMutexOK
<1>5. WMutexOK(x)'
  BY <1>3, <1>4 DEF WMutexOK
<1>6. RdMutexOK(x)' /\ CountOK(x)'
  BY <1>0, <1>3, <1>4 DEF BlockOK, RdMutexOK, CountOK
<1> QED
  BY <1>0, <1>1, <1>2, <1>5, <1>6, SameRoles DEF LockInv, BlockOK

\* The lock invariant is inductive.
LEMMA LockStep == TypeOK /\ LockInv /\ [Next]_vars => LockInv'
<1> SUFFICES ASSUME TypeOK, LockInv, [Next]_vars PROVE LockInv'
  OBVIOUS
<1>1. CASE UNCHANGED vars
  <2>1. ThreadInv'
    BY <1>1 DEF LockInv, ThreadInv, vars, threadVars
  <2>2. \A b \in Blocks : Roles(b)' = Roles(b) /\ Locks(b)' = Locks(b)
    BY <1>1 DEF Roles, Locks, Counted, Pins, Readers, Writers, RdHolders, ReaderGroup,
       vars, lockVars, threadVars
  <2> QED
    BY <2>1, <2>2, SameRoles DEF LockInv
<1>2. CASE Next
  <2>1. PICK t \in Threads : (\E u \in Urls : Get(t, u)) \/ Refuse(t) \/ Step(t) \/ ProcessExit(t)
    BY <1>2 DEF Next
  <2> QED
    BY <2>1, PlainSteps, ReaderPreCountStep, ReaderPreLockStep, ReaderAfterCountStep,
       ReaderAfterUnlockStep, FindHitStep, WritePreStep, LruPreStep, LruDecStep, WriteAfterStep
    DEF Step, Reader, Find, Store
<1> QED
  BY <1>1, <1>2

\* Every semaphore is held by exactly the threads that believe they hold it.
THEOREM LocksCorrect == Spec => []LockInv
<1>1. Init => LockInv
  <2> SUFFICES ASSUME Init PROVE LockInv
    OBVIOUS
  <2>1. ThreadInv
    BY DEF Init, ThreadInv, StorePCs
  <2>2. ASSUME NEW b \in Blocks PROVE BlockOK(b)
    <3>1. /\ Counted(b) = {} /\ Pins(b) = {} /\ Writers(b) = {}
          /\ RdHolders(b) = {} /\ ReaderGroup(b) = {}
      BY DEF Init, Counted, Pins, Readers, Writers, RdHolders, ReaderGroup
    <3>2. Cardinality({}) = 0
      BY FS_EmptySet
    <3> QED
      BY <2>2, <3>1, <3>2 DEF Init, BlockOK, RdMutexOK, CountOK, WMutexOK
  <2> QED
    BY <2>1, <2>2 DEF LockInv
<1> QED
  BY <1>1, LockStep, TypeCorrect, PTL DEF Spec

\* A thread that may write a block is alone in it: no other writer, no reader, and
\* no hit whose page has still to be sent.
THEOREM WritersAreAlone == Spec => []Exclusion
<1>1. LockInv => Exclusion
  BY DEF LockInv, BlockOK, WMutexOK, Exclusion, ReaderGroup
<1> QED
  BY <1>1, LocksCorrect, PTL

\* readCnt counts exactly the readerPre calls that no readerAfter has taken back.
THEOREM CountsAreExact == Spec => []ReadCntExact
<1>1. LockInv => ReadCntExact
  BY DEF LockInv, BlockOK, ReadCntExact
<1> QED
  BY <1>1, LocksCorrect, PTL

-----------------------------------------------------------------------------
(* The pages. *)

\* A step that writes the page, the URI or the rank of a block is a writer's.
LEMMA BlockWriters ==
    ASSUME TypeOK, [Next]_vars, NEW b \in Blocks, Writers(b) = {}
    PROVE  /\ cache_obj'[b] = cache_obj[b] /\ cache_url'[b] = cache_url[b]
           /\ LRU'[b] = LRU[b] /\ isEmpty'[b] = isEmpty[b]
<1>1. ASSUME NEW t \in Threads, CopyObj(t) \/ CopyUrl(t) PROVE index[t] # b
  BY <1>1 DEF CopyObj, CopyUrl, LruGoto, Goto, Writers
<1>2. ASSUME NEW t \in Threads, LruDec(t) PROVE i[t] # b
  BY <1>2 DEF LruDec, LruGoto, Goto, Writers
<1>3. CASE UNCHANGED vars
  BY <1>3 DEF vars, blockVars
<1>4. ASSUME NEW t \in Threads, CopyObj(t) PROVE UNCHANGED <<cache_url, LRU, isEmpty>> /\ cache_obj'[b] = cache_obj[b]
  BY <1>1, <1>4 DEF CopyObj, TypeOK
<1>5. ASSUME NEW t \in Threads, CopyUrl(t)
      PROVE  /\ cache_obj' = cache_obj /\ cache_url'[b] = cache_url[b]
             /\ LRU'[b] = LRU[b] /\ isEmpty'[b] = isEmpty[b]
  BY <1>1, <1>5 DEF CopyUrl, TypeOK
<1>6. ASSUME NEW t \in Threads, LruDec(t)
      PROVE  UNCHANGED <<cache_obj, cache_url, isEmpty>> /\ LRU'[b] = LRU[b]
  BY <1>2, <1>6 DEF LruDec, TypeOK
<1>7. ASSUME NEW t \in Threads,
             \/ \E u \in Urls : Get(t, u)
             \/ Refuse(t) \/ ProcessExit(t) \/ Reader(t) \/ Find(t) \/ SendCached(t)
             \/ ConsiderVictim(t) \/ Relay(t) \/ WritePre(t) \/ LruPre(t) \/ WriteAfter(t)
      PROVE  UNCHANGED blockVars
  BY <1>7 DEF Get, Refuse, ProcessExit, Reader, ReaderPreCount, ReaderPreLock,
     ReaderAfterCount, ReaderAfterUnlock, Find, FindHit, FindNext, SendCached,
     ConsiderVictim, Relay, WritePre, LruPre, WriteAfter
<1> QED
  BY <1>3, <1>4, <1>5, <1>6, <1>7 DEF Next, Step, Store, blockVars

\* Once a thread found its URI in a block, no later store and no round of cache_LRU
\* touches that block: the count that cache_find leaves behind keeps them out.
THEOREM PinnedForever == Spec => PinnedBlocksStay
<1>1. TypeOK /\ LockInv /\ [Next]_vars =>
        [\A b \in Blocks : Pins(b) # {} =>
            /\ cache_obj'[b] = cache_obj[b] /\ cache_url'[b] = cache_url[b]
            /\ LRU'[b] = LRU[b]]_vars
  <2>1. LockInv => \A b \in Blocks : Pins(b) # {} => Writers(b) = {}
    BY DEF LockInv, BlockOK, WMutexOK, ReaderGroup
  <2> QED
    BY <2>1, BlockWriters
<1> QED
  BY <1>1, TypeCorrect, LocksCorrect, PTL DEF Spec, PinnedBlocksStay

\* A block pairs a page with its URI, except between the two strcpy of a store.
PageOK(b) ==
    ~isEmpty[b] /\ (\A t \in Threads : pc[t] = "copyUrl" => index[t] # b)
        => cache_obj[b].url = cache_url[b]

\* What a thread has in its hands belongs to the URI it was asked for.
HandOK(t) ==
    /\ pc[t] = "new" => sent[t] = NoPage
    /\ pc[t] = "copyUrl" => cache_obj[index[t]].url = uri[t]
    /\ fn[t] = "cache_eviction" => cachebuf[t].url = uri[t]
    /\ fn[t] = "doit" => ~isEmpty[index[t]] /\ cache_url[index[t]] = uri[t]
    /\ sent[t] # NoPage => sent[t].url = uri[t]

DataInv == (\A b \in Blocks : PageOK(b)) /\ (\A t \in Threads : HandOK(t))

\* Two threads are never both inside a store of the same block, and no thread that
\* hit a block meets a store of it.
LEMMA StoreAlone ==
    ASSUME TypeOK, LockInv, NEW t \in Threads, pc[t] \in {"copyObj", "copyUrl"}
    PROVE  /\ \A u \in Threads \ {t} : pc[u] = "copyUrl" => index[u] # index[t]
           /\ \A u \in Threads : fn[u] = "doit" => index[u] # index[t]
<1>1. index[t] \in Blocks /\ t \in Writers(index[t]) /\ WMutexOK(index[t])
  BY DEF TypeOK, LockInv, BlockOK, Writers
<1> QED
  BY <1>1 DEF WMutexOK, Writers, ReaderGroup, Pins

\* The steps of a store keep pages and URIs paired.
LEMMA StoreKeepsData ==
    ASSUME TypeOK, LockInv, DataInv, NEW t \in Threads, CopyObj(t) \/ CopyUrl(t)
    PROVE  DataInv'
<1>0. /\ index[t] \in Blocks /\ ThreadInv
      /\ \A b \in Blocks : PageOK(b)
      /\ \A u \in Threads : HandOK(u)
  BY DEF TypeOK, LockInv, DataInv
<1>1. CASE CopyObj(t)
  <2> USE <1>1 DEF CopyObj, Goto
  <2>1. fn[t] = "cache_eviction" /\ cachebuf[t].url = uri[t]
    BY <1>0 DEF ThreadInv, StorePCs, HandOK
  <2>2. cache_obj'[index[t]] = cachebuf[t] /\ \A b \in Blocks \ {index[t]} : cache_obj'[b] = cache_obj[b]
    BY <1>0 DEF TypeOK
  <2>3. pc'[t] = "copyUrl" /\ \A u \in Threads \ {t} : pc'[u] = pc[u]
    BY DEF TypeOK
  <2>4. \A u \in Threads \ {t} : pc[u] = "copyUrl" => index[u] # index[t]
    BY StoreAlone
  <2>5. ASSUME NEW b \in Blocks PROVE PageOK(b)'
    BY <1>0, <2>2, <2>3, <2>4 DEF PageOK
  <2>6. ASSUME NEW u \in Threads PROVE HandOK(u)'
    <3>1. index[u] \in Blocks
      BY DEF TypeOK
    <3> QED
      BY <1>0, <2>1, <2>2, <2>3, <2>4, <3>1 DEF HandOK
  <2> QED
    BY <2>5, <2>6 DEF DataInv
<1>2. CASE CopyUrl(t)
  <2> USE <1>2 DEF CopyUrl, LruGoto, Goto
  <2>1. fn[t] = "cache_eviction" /\ cache_obj[index[t]].url = uri[t]
    BY <1>0 DEF ThreadInv, StorePCs, HandOK
  <2>2. /\ cache_url'[index[t]] = uri[t] /\ \A b \in Blocks \ {index[t]} : cache_url'[b] = cache_url[b]
        /\ ~isEmpty'[index[t]] /\ \A b \in Blocks \ {index[t]} : isEmpty'[b] = isEmpty[b]
    BY <1>0 DEF TypeOK
  <2>3. pc'[t] \in {"lruPre", "wrAfter"} /\ \A u \in Threads \ {t} : pc'[u] = pc[u]
    BY DEF TypeOK
  <2>4. \A u \in Threads : fn[u] = "doit" => index[u] # index[t]
    BY StoreAlone
  <2>5. ASSUME NEW b \in Blocks PROVE PageOK(b)'
    BY <1>0, <2>1, <2>2, <2>3 DEF PageOK
  <2>6. ASSUME NEW u \in Threads PROVE HandOK(u)'
    <3>1. index[u] \in Blocks
      BY DEF TypeOK
    <3> QED
      BY <1>0, <2>1, <2>2, <2>3, <2>4, <3>1 DEF HandOK
  <2> QED
    BY <2>5, <2>6 DEF DataInv
<1> QED
  BY <1>1, <1>2

\* Pages and URIs belong together in every step.
LEMMA DataStep == TypeOK /\ LockInv /\ DataInv /\ [Next]_vars => DataInv'
<1> SUFFICES ASSUME TypeOK, LockInv, DataInv, [Next]_vars PROVE DataInv'
  OBVIOUS
<1>0. ThreadInv /\ (\A b \in Blocks : PageOK(b)) /\ \A t \in Threads : HandOK(t)
  BY DEF LockInv, DataInv
<1>1. CASE UNCHANGED vars
  BY <1>1 DEF DataInv, PageOK, HandOK, vars, blockVars, threadVars
<1>2. ASSUME NEW t \in Threads,
             \/ \E u \in Urls : Get(t, u)
             \/ Refuse(t) \/ ProcessExit(t)
             \/ ReaderPreCount(t) \/ ReaderPreLock(t) \/ ReaderAfterCount(t) \/ ReaderAfterUnlock(t)
             \/ FindNext(t) \/ WritePre(t) \/ LruPre(t) \/ LruDec(t) \/ WriteAfter(t)
      PROVE  DataInv'
  <2> USE DEF Get, Refuse, ProcessExit, ReaderPreCount, ReaderPreLock, ReaderAfterCount,
      ReaderAfterUnlock, FindNext, WritePre, LruPre, LruDec, WriteAfter,
      LruGoto, Goto, blockVars, threadVars
  <2>1. UNCHANGED <<cache_obj, cache_url, isEmpty, fn, index, cachebuf, sent>>
    BY <1>2
  <2>2. \A u \in Threads :
          /\ pc'[u] = "copyUrl" <=> pc[u] = "copyUrl"
          /\ pc'[u] = "new" => pc[u] = "new"
    BY <1>2 DEF TypeOK, AfterScan, Fns
  <2>3. \A u \in Threads : uri'[u] = uri[u] \/ (pc[u] = "new" /\ fn[u] = "cache_find" /\ sent[u] = NoPage)
    BY <1>0, <1>2 DEF TypeOK, ThreadInv, HandOK
  <2>4. \A b \in Blocks : PageOK(b)'
    BY <1>0, <2>1, <2>2 DEF PageOK
  <2>5. \A u \in Threads : HandOK(u)'
    BY <1>0, <2>1, <2>2, <2>3 DEF HandOK
  <2> QED
    BY <2>4, <2>5 DEF DataInv
<1>3. ASSUME NEW t \in Threads, FindHit(t) \/ SendCached(t) \/ ConsiderVictim(t) \/ Relay(t)
      PROVE  DataInv'
  <2> USE DEF FindHit, SendCached, ConsiderVictim, Relay, Goto, blockVars
  <2>1. UNCHANGED <<cache_obj, cache_url, isEmpty, uri>>
    BY <1>3
  <2>2. /\ \A u \in Threads : pc'[u] = "copyUrl" <=> pc[u] = "copyUrl"
        /\ \A u \in Threads : pc'[u] = "new" => pc[u] = "new" /\ u # t
        /\ pc[t] # "copyUrl"
    BY <1>3 DEF TypeOK
  <2>3. \A u \in Threads \ {t} : /\ fn'[u] = fn[u] /\ index'[u] = index[u]
                                 /\ cachebuf'[u] = cachebuf[u] /\ sent'[u] = sent[u]
    BY <1>3 DEF TypeOK
  <2>4. \A u \in Threads : pc[u] = "copyUrl" => index'[u] = index[u]
    BY <2>2, <2>3
  <2>5. \A b \in Blocks : PageOK(b)'
    BY <1>0, <2>1, <2>2, <2>4 DEF PageOK
  <2>6. HandOK(t)'
    <3>1. CASE FindHit(t)
      BY <1>0, <2>1, <2>2, <3>1 DEF TypeOK, HandOK, Holds
    <3>2. CASE SendCached(t)
      <4>1. index[t] \in Blocks /\ Pins(index[t]) # {}
        BY <3>2 DEF TypeOK, Pins
      <4>2. Writers(index[t]) = {}
        BY <4>1 DEF LockInv, BlockOK, WMutexOK, ReaderGroup
      <4>3. cache_obj[index[t]].url = uri[t]
        BY <1>0, <3>2, <4>1, <4>2 DEF PageOK, HandOK, Writers
      <4>4. sent'[t] = cache_obj[index[t]] /\ fn'[t] = "doit" /\ index'[t] = index[t]
        BY <3>2 DEF TypeOK
      <4> QED
        BY <1>0, <2>1, <2>2, <3>2, <4>3, <4>4 DEF HandOK
    <3>3. CASE ConsiderVictim(t)
      BY <1>0, <2>1, <2>2, <3>3 DEF TypeOK, HandOK
    <3>4. CASE Relay(t)
      <4>1. sent'[t].url = uri[t]
        BY <3>4 DEF TypeOK
      <4>2. fn'[t] = "cache_eviction" => cachebuf'[t].url = uri[t]
        BY <1>0, <3>4 DEF TypeOK, ThreadInv
      <4>3. fn'[t] # "doit"
        BY <1>0, <3>4 DEF TypeOK, ThreadInv
      <4> QED
        BY <2>1, <2>2, <4>1, <4>2, <4>3 DEF HandOK
    <3> QED
      BY <1>3, <3>1, <3>2, <3>3, <3>4
  <2>7. \A u \in Threads \ {t} : HandOK(u)'
    BY <1>0, <2>1, <2>2, <2>3 DEF HandOK
  <2> QED
    BY <2>5, <2>6, <2>7 DEF DataInv
<1>4. ASSUME NEW t \in Threads, CopyObj(t) \/ CopyUrl(t) PROVE DataInv'
  BY <1>4, StoreKeepsData
<1>5. CASE Next
  <2>1. PICK t \in Threads : (\E u \in Urls : Get(t, u)) \/ Refuse(t) \/ Step(t) \/ ProcessExit(t)
    BY <1>5 DEF Next
  <2> QED
    BY <1>2, <1>3, <1>4, <2>1 DEF Step, Reader, Find, Store
<1> QED
  BY <1>1, <1>5

THEOREM DataCorrect == Spec => []DataInv
<1>1. Init => DataInv
  BY DEF Init, DataInv, PageOK, HandOK
<1> QED
  BY <1>1, DataStep, TypeCorrect, LocksCorrect, PTL DEF Spec

\* Whatever the interleaving of stores and lookups, a client is never sent another
\* URI's page.
THEOREM AnswersTheRequest == Spec => []ServesWhatWasAsked
<1>1. DataInv => ServesWhatWasAsked
  BY DEF DataInv, HandOK, ServesWhatWasAsked
<1> QED
  BY <1>1, DataCorrect, PTL

\* A full block that nobody is writing pairs a page with its own URI.
THEOREM BlocksAreConsistent == Spec => []BlockConsistent
<1>1. DataInv => BlockConsistent
  BY DEF DataInv, PageOK, BlockConsistent, Writers
<1> QED
  BY <1>1, DataCorrect, PTL

-----------------------------------------------------------------------------
(* The LRU values while rounds of cache_LRU are under way. *)

\* The blocks whose LRU a thread in cache_LRU has still to look at.
Rem(t) == IF pc[t] \in {"lruPre", "lruDec"} THEN {b \in Blocks : b >= i[t] /\ b # index[t]} ELSE {}

\* Who has still to look at block b, and the LRU of b once they have all done so.
Pending(b) == {t \in Threads : b \in Rem(t)}
Eff(b) == LRU[b] - Cardinality(Pending(b))

\* Two stores that each have to look at the block the other one holds wait for ever.
Crossed(t, u) == index[t] \in Rem(u) /\ index[u] \in Rem(t)

\* After all the rounds that have begun, the LRU values of the full blocks are distinct and
\* the block stored last has the highest one.
RanksOK ==
    /\ \A b \in Blocks : ~isEmpty[b] => Eff(b) <= LRU_MAGIC_NUMBER
    /\ \A b, c \in Blocks : ~isEmpty[b] /\ ~isEmpty[c] /\ Eff(b) = Eff(c) => b = c
    /\ (\E b \in Blocks : ~isEmpty[b]) => \E b \in Blocks : ~isEmpty[b] /\ Eff(b) = LRU_MAGIC_NUMBER

RankInv == RanksOK \/ \E t, u \in Threads : Crossed(t, u)

LEMMA PendingFinite == \A b : IsFiniteSet(Pending(b)) /\ Cardinality(Pending(b)) \in Nat
<1> SUFFICES ASSUME NEW b PROVE IsFiniteSet(Pending(b)) /\ Cardinality(Pending(b)) \in Nat
  OBVIOUS
<1>1. Pending(b) \subseteq Threads
  BY DEF Pending
<1> QED
  BY <1>1, ThreadsAssumption, FS_Subset, FS_CardinalityType

\* The threads in cache_LRU hold the block they store in, so they store in different ones;
\* a thread that looks at a block holds that block, too.
LEMMA RoundsHold ==
    ASSUME TypeOK, LockInv, NEW t \in Threads,
           pc[t] \in {"copyUrl", "lruPre", "lruDec"}
    PROVE  /\ \A u \in Threads : u # t /\ Rem(u) # {} => index[u] # index[t]
           /\ \A u \in Threads : u # t /\ Rem(u) # {} /\ pc[t] = "lruDec" => index[u] # i[t]
<1>1. index[t] \in Blocks /\ i[t] \in Blocks
  BY DEF TypeOK
<1>2. WMutexOK(index[t]) /\ WMutexOK(i[t])
  BY <1>1 DEF LockInv, BlockOK
<1> QED
  BY <1>2 DEF WMutexOK, Writers, Rem

\* Steps that neither begin a round of cache_LRU nor look at a block in one.
LEMMA SameRanks ==
    ASSUME RankInv, UNCHANGED <<LRU, isEmpty>>,
           \A t \in Threads : Rem(t)' = Rem(t) /\ (Rem(t) # {} => index'[t] = index[t])
    PROVE  RankInv'
<1>1. \A b \in Blocks : Pending(b)' = Pending(b)
  BY DEF Pending
<1>2. \A b \in Blocks : Eff(b)' = Eff(b)
  BY <1>1 DEF Eff
<1>3. RanksOK => RanksOK'
  BY <1>2 DEF RanksOK
<1>4. \A t, u \in Threads : Crossed(t, u) => Crossed(t, u)'
  BY DEF Crossed
<1> QED
  BY <1>3, <1>4 DEF RankInv

\* A round begins: the block just stored ranks highest, unless a round that has not come
\* to it yet is under way, which then waits for this one as this one waits for it.
LEMMA RoundBegins ==
    ASSUME TypeOK, LockInv, RankInv, NEW t \in Threads, CopyUrl(t)
    PROVE  RankInv'
<1> USE DEF CopyUrl, LruGoto, Goto
<1>1. PICK x \in Blocks : x = index[t]
  BY DEF TypeOK
<1>2. pc[t] = "copyUrl" /\ Rem(t) = {}
  BY DEF Rem
<1>3. /\ LRU'[x] = LRU_MAGIC_NUMBER /\ ~isEmpty'[x]
      /\ \A b \in Blocks \ {x} : LRU'[b] = LRU[b] /\ isEmpty'[b] = isEmpty[b]
  BY <1>1 DEF TypeOK
<1>4. index' = index /\ \A u \in Threads \ {t} : Rem(u)' = Rem(u)
  BY DEF TypeOK, Rem
<1>5. Rem(t)' = Blocks \ {x}
  <2>1. CASE Succ(t, -1) < CACHE_OBJS_COUNT
    <3>1. pc'[t] = "lruPre" /\ i'[t] = Succ(t, -1) /\ index'[t] = x
      BY <1>1, <2>1 DEF TypeOK
    <3>2. \A b \in Blocks : b # x => b >= Succ(t, -1)
      BY <1>1 DEF Succ, Blocks
    <3> QED
      BY <3>1, <3>2 DEF Rem
  <2>2. CASE ~(Succ(t, -1) < CACHE_OBJS_COUNT)
    <3>1. pc'[t] = "wrAfter"
      BY <2>2 DEF TypeOK
    <3>2. \A b \in Blocks : b = x
      BY <1>1, <2>2, CountAssumption DEF Succ, Blocks
    <3> QED
      BY <3>1, <3>2 DEF Rem
  <2> QED
    BY <2>1, <2>2
<1>6. ASSUME NEW v \in Threads, NEW w \in Threads, Crossed(v, w) PROVE Crossed(v, w)'
  <2>1. v # t /\ w # t
    BY <1>2, <1>6 DEF Crossed
  <2> QED
    BY <1>4, <1>6, <2>1 DEF Crossed
<1>7. CASE Pending(x) # {}
  <2>1. PICK u \in Threads : x \in Rem(u)
    BY <1>7 DEF Pending
  <2>2. u # t /\ index[u] # x /\ index[u] \in Blocks
    BY <1>1, <1>2, <2>1, RoundsHold DEF TypeOK
  <2>3. Crossed(t, u)'
    BY <1>1, <1>4, <1>5, <2>1, <2>2 DEF Crossed
  <2> QED
    BY <2>3 DEF RankInv
<1>8. CASE RanksOK /\ Pending(x) = {}
  <2> HIDE DEF CopyUrl, LruGoto, Goto
  <2>1. \A b \in Blocks : LRU[b] \in Int /\ Cardinality(Pending(b)) \in Nat /\ Eff(b) \in Int
    BY PendingFinite DEF Eff, TypeOK
  <2>2. Eff(x)' = LRU_MAGIC_NUMBER
    <3>1. Pending(x)' = {}
      BY <1>4, <1>5, <1>8 DEF Pending
    <3> QED
      BY <1>3, <3>1, FS_EmptySet, LruAssumption DEF Eff
  <2>3. \A b \in Blocks \ {x} : Eff(b)' = Eff(b) - 1
    <3>1. TAKE b \in Blocks \ {x}
    <3>2. Pending(b)' = Pending(b) \cup {t} /\ t \notin Pending(b)
      BY <1>2, <1>4, <1>5 DEF Pending
    <3>3. Cardinality(Pending(b)') = Cardinality(Pending(b)) + 1
      BY <3>2, PendingFinite, CardPlus
    <3> QED
      BY <1>3, <2>1, <3>3 DEF Eff
  <2>4. \A b \in Blocks \ {x} : ~isEmpty'[b] => Eff(b)' < LRU_MAGIC_NUMBER
    BY <1>3, <1>8, <2>1, <2>3, LruAssumption DEF RanksOK
  <2>5. \A b, c \in Blocks \ {x} : ~isEmpty'[b] /\ ~isEmpty'[c] /\ Eff(b)' = Eff(c)' => b = c
    BY <1>3, <1>8, <2>1, <2>3 DEF RanksOK
  <2>6. RanksOK'
    <3>1. \A b \in Blocks : ~isEmpty'[b] => Eff(b)' <= LRU_MAGIC_NUMBER
      BY <2>2, <2>1, <2>3, <2>4, LruAssumption
    <3>2. \A b, c \in Blocks : ~isEmpty'[b] /\ ~isEmpty'[c] /\ Eff(b)' = Eff(c)' => b = c
      BY <2>2, <2>1, <2>3, <2>4, <2>5, LruAssumption
    <3> QED
      BY <1>1, <1>3, <2>2, <3>1, <3>2 DEF RanksOK
  <2> QED
    BY <2>6 DEF RankInv
<1> QED
  BY <1>6, <1>7, <1>8 DEF RankInv

\* A round looks at one block: what it takes from its LRU was already taken into account.
LEMMA RoundGoesOn ==
    ASSUME TypeOK, LockInv, RankInv, NEW t \in Threads, LruDec(t)
    PROVE  RankInv'
<1> USE DEF LruDec, LruGoto, Goto
<1>1. PICK x \in Blocks : x = i[t]
  BY DEF TypeOK
<1>2. pc[t] = "lruDec" /\ x # index[t] /\ x \in Rem(t)
  BY <1>1 DEF LockInv, ThreadInv, Rem, Blocks
<1>3. /\ LRU'[x] = IF isEmpty[x] THEN LRU[x] ELSE LRU[x] - 1
      /\ isEmpty' = isEmpty
      /\ \A b \in Blocks \ {x} : LRU'[b] = LRU[b]
  BY <1>1 DEF TypeOK
<1>4. index' = index /\ \A u \in Threads \ {t} : Rem(u)' = Rem(u)
  BY DEF TypeOK, Rem
<1>5. Rem(t)' = Rem(t) \ {x}
  <2>1. CASE Succ(t, x) < CACHE_OBJS_COUNT
    <3>1. pc'[t] = "lruPre" /\ i'[t] = Succ(t, x)
      BY <1>1, <2>1 DEF TypeOK
    <3>2. \A b \in Blocks : b # index[t] => (b >= Succ(t, x) <=> b >= x /\ b # x)
      BY SMTT(20) DEF TypeOK, Succ, Blocks
    <3> QED
      BY <1>1, <1>2, <1>4, <3>1, <3>2 DEF Rem
  <2>2. CASE ~(Succ(t, x) < CACHE_OBJS_COUNT)
    <3>1. pc'[t] = "wrAfter"
      BY <1>1, <2>2 DEF TypeOK
    <3>2. \A b \in Blocks : b # index[t] /\ b >= x => b = x
      BY SMTT(20), <2>2, CountAssumption DEF TypeOK, Succ, Blocks
    <3> QED
      BY <1>1, <1>2, <3>1, <3>2 DEF Rem
  <2> QED
    BY <2>1, <2>2
<1>6. ASSUME NEW v \in Threads, NEW w \in Threads, Crossed(v, w) PROVE Crossed(v, w)'
  <2>1. v # w
    BY <1>6 DEF Crossed, Rem
  <2>2. Rem(v) # {} /\ Rem(w) # {}
    BY <1>6 DEF Crossed
  <2>3. \A u \in Threads : u # t /\ Rem(u) # {} => index[u] # x
    BY <1>1, <1>2, RoundsHold
  <2> QED
    BY <1>4, <1>5, <1>6, <2>1, <2>2, <2>3 DEF Crossed
<1>7. CASE RanksOK
  <2>1. \A b \in Blocks \ {x} : Eff(b)' = Eff(b)
    <3>1. \A b \in Blocks \ {x} : Pending(b)' = Pending(b)
      BY <1>4, <1>5 DEF Pending
    <3> QED
      BY <1>3, <3>1 DEF Eff
  <2>2. ~isEmpty[x] => Eff(x)' = Eff(x)
    <3>1. Pending(x)' = Pending(x) \ {t} /\ t \in Pending(x)
      BY <1>2, <1>4, <1>5 DEF Pending
    <3>2. Cardinality(Pending(x)') = Cardinality(Pending(x)) - 1
      BY <3>1, PendingFinite, CardMinus
    <3> QED
      BY <1>3, <3>2, PendingFinite DEF Eff, TypeOK
  <2>3. RanksOK'
    BY <1>3, <1>7, <2>1, <2>2 DEF RanksOK
  <2> QED
    BY <2>3 DEF RankInv
<1> QED
  BY <1>6, <1>7 DEF RankInv

LEMMA RankStep == TypeOK /\ LockInv /\ RankInv /\ [Next]_vars => RankInv'
<1> SUFFICES ASSUME TypeOK, LockInv, RankInv, [Next]_vars PROVE RankInv'
  OBVIOUS
<1> USE DEF Rem, TypeOK, Goto, blockVars
<1>1. CASE UNCHANGED vars
  BY <1>1, SameRanks DEF vars, threadVars
<1>2. ASSUME NEW t \in Threads, NEW u \in Urls, Get(t, u) PROVE RankInv'
  BY <1>2, SameRanks DEF Get
<1>3. ASSUME NEW t \in Threads, Refuse(t) PROVE RankInv'
  BY <1>3, SameRanks DEF Refuse
<1>4. ASSUME NEW t \in Threads, ProcessExit(t) PROVE RankInv'
  BY <1>4, SameRanks DEF ProcessExit, threadVars
<1>5. ASSUME NEW t \in Threads, ReaderPreCount(t) PROVE RankInv'
  BY <1>5, SameRanks DEF ReaderPreCount
<1>6. ASSUME NEW t \in Threads, ReaderPreLock(t) PROVE RankInv'
  BY <1>6, SameRanks DEF ReaderPreLock
<1>7. ASSUME NEW t \in Threads, ReaderAfterCount(t) PROVE RankInv'
  BY <1>7, SameRanks DEF ReaderAfterCount
<1>8. ASSUME NEW t \in Threads, ReaderAfterUnlock(t) PROVE RankInv'
  BY <1>8, SameRanks DEF ReaderAfterUnlock, AfterScan, Fns
<1>9. ASSUME NEW t \in Threads, FindHit(t) PROVE RankInv'
  BY <1>9, SameRanks DEF FindHit
<1>10. ASSUME NEW t \in Threads, FindNext(t) PROVE RankInv'
  BY <1>10, SameRanks DEF FindNext
<1>11. ASSUME NEW t \in Threads, SendCached(t) PROVE RankInv'
  BY <1>11, SameRanks DEF SendCached
<1>12. ASSUME NEW t \in Threads, ConsiderVictim(t) PROVE RankInv'
  BY <1>12, SameRanks DEF ConsiderVictim
<1>13. ASSUME NEW t \in Threads, Relay(t) PROVE RankInv'
  <2>1. UNCHANGED <<LRU, isEmpty>> /\ pc[t] = "fetch" /\ pc'[t] \in {"rdPre", "done"}
    BY <1>13 DEF Relay
  <2>2. \A u \in Threads \ {t} : pc'[u] = pc[u] /\ i'[u] = i[u] /\ index'[u] = index[u]
    BY <1>13 DEF Relay
  <2> QED
    BY <2>1, <2>2, SameRanks
<1>14. ASSUME NEW t \in Threads, WritePre(t) PROVE RankInv'
  BY <1>14, SameRanks DEF WritePre
<1>15. ASSUME NEW t \in Threads, CopyObj(t) PROVE RankInv'
  BY <1>15, SameRanks DEF CopyObj
<1>16. ASSUME NEW t \in Threads, LruPre(t) PROVE RankInv'
  BY <1>16, SameRanks DEF LruPre
<1>17. ASSUME NEW t \in Threads, WriteAfter(t) PROVE RankInv'
  BY <1>17, SameRanks DEF WriteAfter
<1> QED
  BY <1>1, <1>2, <1>3, <1>4, <1>5, <1>6, <1>7, <1>8, <1>9, <1>10, <1>11,
     <1>12, <1>13, <1>14, <1>15, <1>16, <1>17,
     RoundBegins, RoundGoesOn DEF Next, Step, Reader, Find, Store

\* The rounds of cache_LRU keep the ranks, however they overlap.
THEOREM RanksCorrect == Spec => []RankInv
<1>1. Init => RankInv
  BY DEF Init, RankInv, RanksOK
<1> QED
  BY <1>1, RankStep, TypeCorrect, LocksCorrect, PTL DEF Spec

\* Between stores the LRU values of the full blocks are distinct and the latest store has
\* the highest one, however many stores ran at once and however their rounds of cache_LRU
\* overlapped: two that could spoil each other's values never end.
THEOREM RanksAreDistinct == Spec => []LruRanks
<1>1. ASSUME TypeOK, RankInv PROVE LruRanks
  <2>1. SUFFICES ASSUME Storers = {} PROVE LruRanks
    BY DEF LruRanks
  <2>2. \A t \in Threads : Rem(t) = {}
    BY <2>1 DEF Storers, StorePCs, Rem
  <2>3. \A b \in Blocks : Pending(b) = {} /\ Cardinality(Pending(b)) = 0
    BY <2>2, FS_EmptySet DEF Pending
  <2>4. \A b \in Blocks : Eff(b) = LRU[b]
    BY <1>1, <2>3 DEF Eff, TypeOK
  <2>5. RanksOK
    BY <1>1, <2>2 DEF RankInv, Crossed
  <2> QED
    BY <2>4, <2>5 DEF RanksOK, LruRanks
<1> QED
  BY <1>1, RanksCorrect, TypeCorrect, PTL

-----------------------------------------------------------------------------
(* One connection at a time. *)

LookPCs  == {"rdPre", "rdLock", "inside"}
AfterPCs == {"rdAfter", "rdUnlock"}

Alone == \A t, u \in Active : t = u

\* No two full blocks have the same URI.
UrlsDiffer == \A b, c \in Blocks : ~isEmpty[b] /\ ~isEmpty[c] /\ cache_url[b] = cache_url[c] => b = c

\* cache_find passed no block that holds the URI, and once it gave up none holds it until
\* the thread stores it itself.
SearchOK(t) ==
    /\ pc[t] = "new" => i[t] = 0
    /\ fn[t] = "cache_find" /\ pc[t] \in LookPCs =>
            \A b \in Blocks : b < i[t] => ~Holds(b, uri[t])
    /\ fn[t] = "cache_find" /\ pc[t] \in AfterPCs =>
            again[t] /\ \A b \in Blocks : b <= i[t] => ~Holds(b, uri[t])
    /\ \/ pc[t] = "fetch"
       \/ fn[t] = "cache_eviction" /\ pc[t] \in LookPCs \cup AfterPCs \cup {"wrPre", "copyObj", "copyUrl"}
       => \A b \in Blocks : ~Holds(b, uri[t])

\* cache_eviction went past the first n blocks: they are full, and minindex is an old block
\* unless they all are new.
Passed(t, n) ==
    /\ \A b \in Blocks : b < n => ~isEmpty[b]
    /\ LRU[index[t]] < LRU_MAGIC_NUMBER \/ \A b \in Blocks : b < n => LRU[b] >= LRU_MAGIC_NUMBER

VictimOK(t) ==
    fn[t] = "cache_eviction" =>
        /\ pc[t] \in LookPCs => Passed(t, i[t])
        /\ pc[t] \in AfterPCs =>
                IF again[t] THEN Passed(t, i[t] + 1) ELSE isEmpty[index[t]]
        /\ pc[t] \in {"wrPre", "copyObj", "copyUrl"} =>
                isEmpty[index[t]] \/ Passed(t, CACHE_OBJS_COUNT)

SerialInv ==
    /\ Alone
    /\ UrlsDiffer
    /\ \A t \in Threads : SearchOK(t) /\ VictimOK(t)

\* What a connection does.
Moves(t) == (\E u \in Urls : Get(t, u)) \/ Refuse(t) \/ Step(t) \/ ProcessExit(t)

\* A thread moves itself only, and it is an active one unless it is just accepted.
LEMMA MovesItself ==
    ASSUME TypeOK, NEW t \in Threads, Moves(t)
    PROVE  /\ \A u \in Threads \ {t} : pc'[u] = pc[u] /\ i'[u] = i[u]
           /\ t \in Active \/ Cardinality(Active) < MaxActive
<1> DEFINE Goal == /\ \A u \in Threads \ {t} : pc'[u] = pc[u] /\ i'[u] = i[u]
                   /\ t \in Active \/ Cardinality(Active) < MaxActive
<1> USE DEF TypeOK, Goto
<1>1. ASSUME NEW u \in Urls, Get(t, u) PROVE Goal
  BY <1>1 DEF Get
<1>2. CASE Refuse(t)
  BY <1>2 DEF Refuse
<1>3. CASE ProcessExit(t)
  BY <1>3 DEF ProcessExit, threadVars, Active
<1>4. CASE ReaderPreCount(t)
  BY <1>4 DEF ReaderPreCount, Active
<1>5. CASE ReaderPreLock(t)
  BY <1>5 DEF ReaderPreLock, Active
<1>6. CASE ReaderAfterCount(t)
  BY <1>6 DEF ReaderAfterCount, Active
<1>7. CASE ReaderAfterUnlock(t)
  BY <1>7 DEF ReaderAfterUnlock, Active
<1>8. CASE FindHit(t)
  BY <1>8 DEF FindHit, Active
<1>9. CASE FindNext(t)
  BY <1>9 DEF FindNext, Active
<1>10. CASE SendCached(t)
  BY <1>10 DEF SendCached, Active
<1>11. CASE ConsiderVictim(t)
  BY <1>11 DEF ConsiderVictim, Active
<1>12. CASE Relay(t)
  BY <1>12 DEF Relay, Active
<1>13. CASE WritePre(t)
  BY <1>13 DEF WritePre, Active
<1>14. CASE CopyObj(t)
  BY <1>14 DEF CopyObj, Active
<1>15. CASE CopyUrl(t)
  BY <1>15 DEF CopyUrl, LruGoto, Active
<1>16. CASE LruPre(t)
  BY <1>16 DEF LruPre, Active
<1>17. CASE LruDec(t)
  BY <1>17 DEF LruDec, LruGoto, Active
<1>18. CASE WriteAfter(t)
  BY <1>18 DEF WriteAfter, Active
<1> QED
  BY <1>1, <1>2, <1>3, <1>4, <1>5, <1>6, <1>7, <1>8, <1>9, <1>10, <1>11, <1>12, <1>13,
     <1>14, <1>15, <1>16, <1>17, <1>18
  DEF Moves, Step, Reader, Find, Store

\* With one connection at a time the others do nothing, and a new one begins alone.
LEMMA OthersRest ==
    ASSUME MaxActive = 1, TypeOK, SerialInv, NEW t \in Threads, Moves(t)
    PROVE  Alone' /\ \A u \in Threads \ {t} : SearchOK(u)' /\ VictimOK(u)'
<1>1. /\ \A u \in Threads \ {t} : pc'[u] = pc[u] /\ i'[u] = i[u]
      /\ t \in Active \/ Cardinality(Active) < MaxActive
  BY MovesItself
<1>2. Active \subseteq {t}
  <2>1. CASE t \in Active
    BY <2>1 DEF SerialInv, Alone
  <2>2. CASE Cardinality(Active) < MaxActive
    <3>1. IsFiniteSet(Active)
      BY ThreadsAssumption, FS_Subset DEF Active
    <3>2. Cardinality(Active) \in Nat
      BY <3>1, FS_CardinalityType
    <3>3. Active = {}
      BY <2>2, <3>1, <3>2, FS_EmptySet
    <3> QED
      BY <3>3
  <2> QED
    BY <1>1, <2>1, <2>2
<1>3. \A u \in Threads \ {t} : pc'[u] \in {"new", "done"} /\ (pc'[u] = "new" => i'[u] = 0)
  BY <1>1, <1>2 DEF SerialInv, SearchOK, Active
<1>4. Alone'
  BY <1>3 DEF Alone, Active
<1>5. ASSUME NEW u \in Threads \ {t} PROVE SearchOK(u)' /\ VictimOK(u)'
  BY <1>3 DEF SearchOK, VictimOK, LookPCs, AfterPCs
<1> QED
  BY <1>4, <1>5

\* The scan that goes on no more has seen every block.
LEMMA LastBlock ==
    ASSUME NEW n \in Blocks, ~(n + 1 < CACHE_OBJS_COUNT)
    PROVE  \A b \in Blocks : b <= n /\ (b < n + 1 <=> b < CACHE_OBJS_COUNT)
BY CountAssumption DEF Blocks

\* What the thread that moves learns about the cache.
LEMMA MoverSearches ==
    ASSUME TypeOK, ThreadInv, NEW t \in Threads, Moves(t), UrlsDiffer, SearchOK(t), VictimOK(t)
    PROVE  UrlsDiffer' /\ SearchOK(t)' /\ VictimOK(t)'
<1> DEFINE Goal == UrlsDiffer' /\ SearchOK(t)' /\ VictimOK(t)'
<1> USE DEF TypeOK, Goto, blockVars, UrlsDiffer, SearchOK, VictimOK, Passed, Holds,
            LookPCs, AfterPCs
<1>1. ASSUME NEW u \in Urls, Get(t, u) PROVE Goal
  BY <1>1 DEF Get, ThreadInv, Blocks
<1>2. CASE Refuse(t)
  BY <1>2 DEF Refuse, ThreadInv
<1>3. CASE ProcessExit(t)
  BY <1>3 DEF ProcessExit, threadVars
<1>4. CASE ReaderPreCount(t)
  BY <1>4 DEF ReaderPreCount, ThreadInv
<1>5. CASE ReaderPreLock(t)
  BY <1>5 DEF ReaderPreLock, ThreadInv
<1>6. CASE ReaderAfterCount(t)
  BY <1>6 DEF ReaderAfterCount, ThreadInv
<1>7. CASE ReaderAfterUnlock(t)
  <2>1. UNCHANGED <<blockVars, fn, index, again, uri>> /\ pc[t] = "rdUnlock"
    BY <1>7 DEF ReaderAfterUnlock
  <2>2. CASE LoopsOn(t)
    <3>1. pc'[t] = "rdPre" /\ i'[t] = i[t] + 1 /\ again[t]
      BY <1>7, <2>2 DEF ReaderAfterUnlock, LoopsOn
    <3>2. \A b \in Blocks : b < i[t] + 1 <=> b <= i[t]
      BY DEF Blocks
    <3> QED
      BY <2>1, <3>1, <3>2
  <2>3. CASE ~LoopsOn(t)
    <3>1. pc'[t] = AfterScan(t) /\ i' = i
      BY <1>7, <2>3 DEF ReaderAfterUnlock
    <3>2. again[t] => \A b \in Blocks : b <= i[t] /\ (b < i[t] + 1 <=> b < CACHE_OBJS_COUNT)
      <4>1. again[t] => ~(i[t] + 1 < CACHE_OBJS_COUNT)
        BY <2>3 DEF LoopsOn
      <4> QED
        BY <4>1, LastBlock
    <3>3. CASE fn[t] = "cache_find"
      <4>1. pc'[t] = "fetch" /\ again[t]
        BY <2>1, <3>1, <3>3 DEF AfterScan
      <4> QED
        BY <2>1, <3>2, <3>3, <4>1
    <3>4. CASE fn[t] = "cache_eviction"
      <4>1. pc'[t] = "wrPre"
        BY <3>1, <3>4 DEF AfterScan
      <4> QED
        BY <2>1, <3>2, <3>4, <4>1
    <3>5. CASE fn[t] = "doit"
      <4>1. pc'[t] = "done"
        BY <3>1, <3>5 DEF AfterScan
      <4> QED
        BY <2>1, <3>5, <4>1
    <3> QED
      BY <3>3, <3>4, <3>5 DEF Fns
  <2> QED
    BY <2>2, <2>3
<1>8. CASE FindHit(t)
  BY <1>8 DEF FindHit, ThreadInv
<1>9. CASE FindNext(t)
  <2>1. /\ UNCHANGED <<blockVars, fn, i, uri>> /\ pc[t] = "inside" /\ pc'[t] = "rdAfter"
        /\ fn[t] = "cache_find" /\ again'[t] = TRUE
    BY <1>9 DEF FindNext
  <2>2. \A b \in Blocks : b <= i[t] => ~Holds(b, uri[t])
    <3>1. ~Holds(i[t], uri[t])
      BY <1>9 DEF FindNext
    <3>2. \A b \in Blocks : b <= i[t] => b < i[t] \/ b = i[t]
      BY DEF Blocks
    <3> QED
      BY <2>1, <3>1, <3>2
  <2> QED
    BY <2>1, <2>2
<1>10. CASE SendCached(t)
  BY <1>10 DEF SendCached, ThreadInv
<1>11. CASE ConsiderVictim(t)
  <2>1. UNCHANGED <<blockVars, fn, i, uri>> /\ pc[t] = "inside" /\ pc'[t] = "rdAfter"
    BY <1>11 DEF ConsiderVictim
  <2>2. /\ again'[t] = ~isEmpty[i[t]]
        /\ index'[t] = IF isEmpty[i[t]] \/ LRU[i[t]] < LRU_MAGIC_NUMBER THEN i[t] ELSE index[t]
    BY <1>11 DEF ConsiderVictim
  <2>3. \A b \in Blocks : b < i[t] + 1 <=> b < i[t] \/ b = i[t]
    BY DEF Blocks
  <2>4. fn[t] = "cache_eviction" /\ Passed(t, i[t])
    BY <1>11, <2>1 DEF ConsiderVictim
  <2>5. ~isEmpty[i[t]] => Passed(t, i[t] + 1)'
    BY <2>1, <2>2, <2>3, <2>4, LruAssumption
  <2> QED
    BY <2>1, <2>2, <2>4, <2>5
<1>12. CASE Relay(t)
  <2>1. UNCHANGED <<blockVars, uri>> /\ pc[t] = "fetch" /\ fn[t] = "cache_find"
    BY <1>12 DEF Relay, ThreadInv
  <2>2. CASE uri[t] \in Cacheable
    <3>1. pc'[t] = "rdPre" /\ fn'[t] = "cache_eviction" /\ i'[t] = 0
      BY <1>12, <2>2 DEF Relay
    <3>2. \A b \in Blocks : ~(b < 0)
      BY DEF Blocks
    <3> QED
      BY <2>1, <3>1, <3>2
  <2>3. CASE uri[t] \notin Cacheable
    <3>1. pc'[t] = "done" /\ UNCHANGED fn
      BY <1>12, <2>3 DEF Relay
    <3> QED
      BY <2>1, <3>1
  <2> QED
    BY <2>2, <2>3
<1>13. CASE WritePre(t)
  BY <1>13 DEF WritePre, ThreadInv, StorePCs
<1>14. CASE CopyObj(t)
  BY <1>14 DEF CopyObj, ThreadInv, StorePCs
<1>15. CASE CopyUrl(t)
  <2>1. /\ pc[t] = "copyUrl" /\ fn[t] = "cache_eviction" /\ pc'[t] \in {"lruPre", "wrAfter"}
        /\ UNCHANGED <<fn, index, uri>>
    BY <1>15 DEF CopyUrl, LruGoto, ThreadInv, StorePCs
  <2>2. /\ cache_url'[index[t]] = uri[t]
        /\ \A b \in Blocks \ {index[t]} : cache_url'[b] = cache_url[b] /\ isEmpty'[b] = isEmpty[b]
    BY <1>15 DEF CopyUrl
  <2>3. \A b \in Blocks : ~Holds(b, uri[t])
    BY <2>1
  <2>4. UrlsDiffer'
    BY <2>2, <2>3
  <2> QED
    BY <2>1, <2>4
<1>16. CASE LruPre(t)
  BY <1>16 DEF LruPre, ThreadInv, StorePCs
<1>17. CASE LruDec(t)
  BY <1>17 DEF LruDec, LruGoto, ThreadInv, StorePCs
<1>18. CASE WriteAfter(t)
  BY <1>18 DEF WriteAfter, ThreadInv, StorePCs
<1> QED
  BY <1>1, <1>2, <1>3, <1>4, <1>5, <1>6, <1>7, <1>8, <1>9, <1>10, <1>11, <1>12, <1>13,
     <1>14, <1>15, <1>16, <1>17, <1>18
  DEF Moves, Step, Reader, Find, Store

LEMMA SerialStep ==
    ASSUME MaxActive = 1, TypeOK, LockInv, SerialInv, [Next]_vars
    PROVE  SerialInv'
<1>1. CASE UNCHANGED vars
  BY <1>1 DEF SerialInv, Alone, Active, UrlsDiffer, SearchOK, VictimOK, Passed, Holds,
     vars, blockVars, threadVars
<1>2. CASE Next
  <2>1. PICK t \in Threads : Moves(t)
    BY <1>2 DEF Next, Moves
  <2>2. UrlsDiffer' /\ SearchOK(t)' /\ VictimOK(t)'
    BY <2>1, MoverSearches DEF LockInv, SerialInv
  <2>3. Alone' /\ \A u \in Threads \ {t} : SearchOK(u)' /\ VictimOK(u)'
    BY <2>1, OthersRest
  <2> QED
    BY <2>2, <2>3 DEF SerialInv
<1> QED
  BY <1>1, <1>2

\* With one connection at a time the search before a store is still true when it stores.
THEOREM SerialCorrect == MaxActive = 1 => (Spec => []SerialInv)
<1> SUFFICES ASSUME MaxActive = 1 PROVE Spec => []SerialInv
  OBVIOUS
<1>1. Init => SerialInv
  BY DEF Init, SerialInv, Alone, Active, UrlsDiffer, SearchOK, VictimOK, LookPCs, AfterPCs
<1>2. TypeOK /\ LockInv /\ SerialInv /\ [Next]_vars => SerialInv'
  BY SerialStep
<1> QED
  BY <1>1, <1>2, TypeCorrect, LocksCorrect, PTL DEF Spec

\* With one connection at a time the cache never holds a URI twice.
THEOREM PagesAreDistinct == MaxActive = 1 => (Spec => []NoDuplicates)
<1> SUFFICES ASSUME MaxActive = 1 PROVE Spec => []NoDuplicates
  OBVIOUS
<1>1. Spec => []SerialInv
  BY SerialCorrect
<1>2. SerialInv => NoDuplicates
  BY DEF SerialInv, UrlsDiffer, NoDuplicates
<1> QED
  BY <1>1, <1>2, PTL

\* Only cache_uri gives a block another URI, and it is the block cache_eviction chose.
LEMMA UrlChanges ==
    ASSUME TypeOK, [Next]_vars, NEW b \in Blocks, cache_url'[b] # cache_url[b]
    PROVE  \E t \in Threads : CopyUrl(t) /\ index[t] = b
<1>1. \A t \in Threads : CopyUrl(t) => \A c \in Blocks \ {index[t]} : cache_url'[c] = cache_url[c]
  BY DEF CopyUrl, TypeOK
<1>2. ASSUME NEW t \in Threads, Moves(t) PROVE CopyUrl(t) \/ cache_url' = cache_url
  BY <1>2
  DEF Moves, Step, Reader, Find, Store, Get, Refuse, ProcessExit, ReaderPreCount, ReaderPreLock,
      ReaderAfterCount, ReaderAfterUnlock, FindHit, FindNext, SendCached, ConsiderVictim, Relay,
      WritePre, CopyObj, LruPre, LruDec, WriteAfter, blockVars
<1>3. PICK t \in Threads : Moves(t)
  BY DEF Next, Moves, vars, blockVars
<1> QED
  BY <1>1, <1>2, <1>3

\* With one connection at a time a page is thrown away only when every block holds one.
THEOREM EvictsWhenFull == MaxActive = 1 => (Spec => ReplacesOnlyWhenFull)
<1> SUFFICES ASSUME MaxActive = 1 PROVE Spec => ReplacesOnlyWhenFull
  OBVIOUS
<1>1. TypeOK /\ LockInv /\ SerialInv /\ [Next]_vars =>
        [\A b \in Blocks : ~isEmpty[b] /\ cache_url'[b] # cache_url[b]
            => \A c \in Blocks : ~isEmpty[c]]_vars
  <2> SUFFICES ASSUME TypeOK, LockInv, SerialInv, [Next]_vars, NEW b \in Blocks,
                      ~isEmpty[b], cache_url'[b] # cache_url[b]
               PROVE  \A c \in Blocks : ~isEmpty[c]
    OBVIOUS
  <2>1. PICK t \in Threads : CopyUrl(t) /\ index[t] = b
    BY UrlChanges
  <2>2. pc[t] = "copyUrl" /\ fn[t] = "cache_eviction"
    BY <2>1 DEF CopyUrl, LruGoto, Goto, LockInv, ThreadInv, StorePCs
  <2>3. Passed(t, CACHE_OBJS_COUNT)
    BY <2>1, <2>2 DEF SerialInv, VictimOK
  <2> QED
    BY <2>3, CountAssumption DEF Passed, Blocks
<1>2. Spec => []SerialInv
  BY SerialCorrect
<1> QED
  BY <1>1, <1>2, TypeCorrect, LocksCorrect, PTL DEF Spec, ReplacesOnlyWhenFull

\* With one connection at a time, and more than one block, the page stored last is never
\* the one that is thrown away.
THEOREM NewestIsKept ==
    MaxActive = 1 /\ CACHE_OBJS_COUNT > 1 => (Spec => KeepsTheNewest)
<1> SUFFICES ASSUME MaxActive = 1, CACHE_OBJS_COUNT > 1 PROVE Spec => KeepsTheNewest
  OBVIOUS
<1>1. TypeOK /\ LockInv /\ RankInv /\ SerialInv /\ [Next]_vars =>
        [\A b \in Blocks : ~isEmpty[b] /\ cache_url'[b] # cache_url[b]
            => \E c \in Blocks : LRU[c] > LRU[b]]_vars
  <2> SUFFICES ASSUME TypeOK, LockInv, RankInv, SerialInv, [Next]_vars, NEW b \in Blocks,
                      ~isEmpty[b], cache_url'[b] # cache_url[b]
               PROVE  \E c \in Blocks : LRU[c] > LRU[b]
    OBVIOUS
  <2>1. PICK t \in Threads : CopyUrl(t) /\ index[t] = b
    BY UrlChanges
  <2>2. pc[t] = "copyUrl" /\ fn[t] = "cache_eviction" /\ t \in Active
    BY <2>1 DEF CopyUrl, LruGoto, Goto, LockInv, ThreadInv, StorePCs, Active
  <2>3. Passed(t, CACHE_OBJS_COUNT)
    BY <2>1, <2>2 DEF SerialInv, VictimOK
  <2>4. /\ \A c \in Blocks : ~isEmpty[c]
        /\ LRU[b] < LRU_MAGIC_NUMBER \/ \A c \in Blocks : LRU[c] >= LRU_MAGIC_NUMBER
    BY <2>1, <2>3, CountAssumption DEF Passed, Blocks
  <2>5. \A u \in Threads : Rem(u) = {}
    BY <2>2 DEF SerialInv, Alone, Active, Rem
  <2>6. \A c \in Blocks : Eff(c) = LRU[c] /\ LRU[c] \in Int
    <3>1. \A c \in Blocks : Cardinality(Pending(c)) = 0
      BY <2>5, FS_EmptySet DEF Pending
    <3> QED
      BY <3>1 DEF Eff, TypeOK
  <2>7. RanksOK
    BY <2>5 DEF RankInv, Crossed
  <2>8. PICK c \in Blocks : LRU[c] = LRU_MAGIC_NUMBER
    BY <2>6, <2>7 DEF RanksOK
  <2>9. LRU[b] < LRU_MAGIC_NUMBER
    <3>1. 0 \in Blocks /\ 1 \in Blocks
      BY CountAssumption DEF Blocks
    <3>2. \A d \in Blocks : LRU[d] <= LRU_MAGIC_NUMBER
      BY <2>4, <2>6, <2>7 DEF RanksOK
    <3>3. LRU[0] # LRU[1]
      BY <2>4, <2>6, <2>7, <3>1 DEF RanksOK
    <3> QED
      BY <2>4, <2>6, <3>1, <3>2, <3>3, LruAssumption
  <2> QED
    BY <2>6, <2>8, <2>9, LruAssumption
<1>2. Spec => []SerialInv
  BY SerialCorrect
<1>3. Spec => []RankInv
  BY RanksCorrect
<1> QED
  BY <1>1, <1>2, <1>3, TypeCorrect, LocksCorrect, PTL DEF Spec, KeepsTheNewest

-----------------------------------------------------------------------------
(* The refinement: every step of a thread is a step of PageCache, or changes nothing that
   PageCache sees. *)

\* The functions that stand for PageCache's variables change where their values do.
LEMMA Unseen ==
    ASSUME UNCHANGED <<alive, uri, sent>>,
           \A b \in Blocks : AbsSlot(b)' = AbsSlot(b),
           \A t \in Threads : /\ AbsPhase(t)' = AbsPhase(t)
                              /\ AbsFound(t)' = AbsFound(t) /\ AbsTarget(t)' = AbsTarget(t)
    PROVE  UNCHANGED Abs!vars
<1>1. [b \in Blocks |-> AbsSlot(b)]' = [b \in Blocks |-> AbsSlot(b)]
  OBVIOUS
<1>2. [t \in Threads |-> AbsPhase(t)]' = [t \in Threads |-> AbsPhase(t)]
  OBVIOUS
<1>3. [t \in Threads |-> AbsFound(t)]' = [t \in Threads |-> AbsFound(t)]
  OBVIOUS
<1>4. [t \in Threads |-> AbsTarget(t)]' = [t \in Threads |-> AbsTarget(t)]
  OBVIOUS
<1> QED
  BY <1>1, <1>2, <1>3, <1>4 DEF Abs!vars

\* A block offers a page to the lookups exactly when it is full and no thread is between
\* writePre and the end of strcpy on it.
Storing(b) == \E t \in Threads : pc[t] \in {"copyObj", "copyUrl"} /\ index[t] = b

LEMMA SlotSeen ==
    \A b : AbsSlot(b) = IF isEmpty[b] \/ Storing(b) THEN NoPage ELSE cache_obj[b]
BY DEF AbsSlot, AbsPhase, Storing, Scanning

\* A thread takes PageCache's phase from one value to another and leaves the others'.
LEMMA PhaseMoves ==
    ASSUME NEW t \in Threads, NEW z, alive, AbsPhase(t)' = z,
           \A u \in Threads \ {t} : AbsPhase(u)' = AbsPhase(u)
    PROVE  Abs!Phase(t, AbsPhase(t), z)
<1>1. [u \in Threads |-> AbsPhase(u)]' = [[u \in Threads |-> AbsPhase(u)] EXCEPT ![t] = z]
  OBVIOUS
<1> QED
  BY <1>1 DEF Abs!Phase

\* Steps that PageCache does not see: the locks, the scans, the rounds of cache_LRU, and
\* the strcpy into a block that offers nothing.
LEMMA UnseenSteps ==
    ASSUME TypeOK, LockInv, NEW t \in Threads,
           \/ ReaderPreCount(t) \/ ReaderPreLock(t) \/ ReaderAfterCount(t)
           \/ ReaderAfterUnlock(t) /\ (LoopsOn(t) \/ fn[t] # "cache_find")
           \/ FindNext(t) \/ ConsiderVictim(t) \/ CopyObj(t)
           \/ LruPre(t) \/ LruDec(t) \/ WriteAfter(t)
    PROVE  UNCHANGED Abs!vars
<1> USE DEF Goto, TypeOK, AbsPhase, AbsTarget, AbsFound, Scanning, blockVars, lockVars
<1>0. ThreadInv
  BY DEF LockInv
<1>1. CASE ReaderPreCount(t) \/ ReaderPreLock(t) \/ ReaderAfterCount(t)
  BY <1>1, Unseen DEF ReaderPreCount, ReaderPreLock, ReaderAfterCount, AbsSlot
<1>2. CASE ReaderAfterUnlock(t) /\ (LoopsOn(t) \/ fn[t] # "cache_find")
  <2>1. UNCHANGED <<alive, uri, sent, blockVars, index>>
    BY <1>2 DEF ReaderAfterUnlock
  <2>2. \A u \in Threads : /\ AbsPhase(u)' = AbsPhase(u)
                           /\ AbsFound(u)' = AbsFound(u) /\ AbsTarget(u)' = AbsTarget(u)
    BY <1>0, <1>2 DEF ReaderAfterUnlock, AfterScan, LoopsOn, ThreadInv, Fns
  <2>3. \A b \in Blocks : AbsSlot(b)' = AbsSlot(b)
    <3> HIDE DEF AbsPhase
    <3> QED
      BY <2>1, <2>2 DEF AbsSlot
  <2> QED
    BY <2>1, <2>2, <2>3, Unseen
<1>3. CASE FindNext(t)
  BY <1>3, Unseen DEF FindNext, AbsSlot
<1>4. CASE ConsiderVictim(t)
  BY <1>4, Unseen DEF ConsiderVictim, AbsSlot
<1>5. CASE CopyObj(t)
  BY <1>0, <1>5, StoreAlone, Unseen DEF CopyObj, AbsSlot, ThreadInv, StorePCs
<1>6. CASE LruPre(t) \/ WriteAfter(t)
  BY <1>6, Unseen DEF LruPre, WriteAfter, AbsSlot
<1>7. CASE LruDec(t)
  BY <1>7, Unseen DEF LruDec, LruGoto, AbsSlot
<1> QED
  BY <1>1, <1>2, <1>3, <1>4, <1>5, <1>6, <1>7

-----------------------------------------------------------------------------
(* The steps PageCache sees. *)

\* A request arrives, or a method that is not served.
LEMMA RequestSeen ==
    ASSUME TypeOK, LockInv, NEW t \in Threads, (\E u \in Urls : Get(t, u)) \/ Refuse(t)
    PROVE  Abs!Next
<1> USE DEF Goto, TypeOK, AbsPhase, AbsTarget, AbsFound, Scanning, blockVars, lockVars
<1>0. ThreadInv
  BY DEF LockInv
<1>1. ASSUME NEW u \in Urls, Get(t, u) PROVE Abs!Ask(t, u)
  <2>1. Abs!Phase(t, "idle", "asked")
    BY <1>0, <1>1, PhaseMoves DEF Get, ThreadInv
  <2>2. /\ uri' = [uri EXCEPT ![t] = u] /\ UNCHANGED <<alive, sent>>
        /\ \A b \in Blocks : AbsSlot(b)' = AbsSlot(b)
        /\ \A v \in Threads : AbsFound(v)' = AbsFound(v) /\ AbsTarget(v)' = AbsTarget(v)
    BY <1>1 DEF Get, AbsSlot
  <2> QED
    BY <2>1, <2>2 DEF Abs!Ask
<1>2. ASSUME Refuse(t) PROVE Abs!Refuse(t)
  <2>1. Abs!Phase(t, "idle", "done")
    BY <1>0, <1>2, PhaseMoves DEF Refuse, ThreadInv
  <2>2. /\ UNCHANGED <<alive, uri, sent>>
        /\ \A b \in Blocks : AbsSlot(b)' = AbsSlot(b)
        /\ \A v \in Threads : AbsFound(v)' = AbsFound(v) /\ AbsTarget(v)' = AbsTarget(v)
    BY <1>2 DEF Refuse, AbsSlot
  <2> QED
    BY <2>1, <2>2 DEF Abs!Refuse
<1> QED
  BY <1>1, <1>2 DEF Abs!Next

\* cache_find finds the URI: the block is full, nobody is storing in it, and what it holds
\* is a page of that URI.
LEMMA HitSeen ==
    ASSUME TypeOK, LockInv, DataInv, NEW t \in Threads, FindHit(t)
    PROVE  Abs!Next
<1> USE DEF Goto, TypeOK, FindHit, blockVars, lockVars
<1>1. PICK b \in Blocks : b = i[t]
  OBVIOUS
<1>2. ~Storing(b)
  BY <1>1 DEF LockInv, BlockOK, WMutexOK, ReaderGroup, Readers, Writers, Storing
<1>3. ~isEmpty[b] /\ cache_url[b] = uri[t] /\ cache_obj[b].url = uri[t]
  BY <1>1, <1>2 DEF Holds, DataInv, PageOK, Storing
<1>4. AbsSlot(b) = cache_obj[b]
  BY <1>2, <1>3, SlotSeen
<1>5. Abs!Phase(t, "asked", "hit")
  BY PhaseMoves DEF AbsPhase, Scanning
<1>6. /\ AbsFound(t)' = AbsSlot(b)
      /\ \A v \in Threads \ {t} : AbsFound(v)' = AbsFound(v)
  BY <1>1, <1>4 DEF AbsFound
<1>7. /\ UNCHANGED <<alive, uri, sent>>
      /\ \A c \in Blocks : AbsSlot(c)' = AbsSlot(c)
      /\ \A v \in Threads : AbsTarget(v)' = AbsTarget(v)
  BY DEF AbsSlot, AbsTarget, AbsPhase, Scanning
<1>8. Abs!Hit(t, b)
  BY <1>3, <1>4, <1>5, <1>6, <1>7 DEF Abs!Hit
<1> QED
  BY <1>8 DEF Abs!Next

\* cache_find ends without a hit.
LEMMA MissSeen ==
    ASSUME TypeOK, NEW t \in Threads, ReaderAfterUnlock(t), ~LoopsOn(t), fn[t] = "cache_find"
    PROVE  Abs!Next
<1> USE DEF Goto, TypeOK, ReaderAfterUnlock, AfterScan, AbsPhase, Scanning, blockVars
<1>1. Abs!Phase(t, "asked", "missed")
  BY PhaseMoves
<1>2. /\ UNCHANGED <<alive, uri, sent>>
      /\ \A c \in Blocks : AbsSlot(c)' = AbsSlot(c)
      /\ \A v \in Threads : AbsFound(v)' = AbsFound(v) /\ AbsTarget(v)' = AbsTarget(v)
  BY DEF AbsSlot, AbsFound, AbsTarget
<1>3. Abs!Miss(t)
  BY <1>1, <1>2 DEF Abs!Miss
<1> QED
  BY <1>3 DEF Abs!Next

\* The client is sent the page that the lookup hit, or the origin's.
LEMMA AnswerSeen ==
    ASSUME TypeOK, LockInv, NEW t \in Threads, SendCached(t) \/ Relay(t)
    PROVE  Abs!Next
<1> USE DEF Goto, TypeOK, AbsPhase, Scanning, blockVars, lockVars
<1>0. ThreadInv
  BY DEF LockInv
<1>1. ASSUME SendCached(t) PROVE Abs!AnswerFromCache(t)
  <2>1. Abs!Phase(t, "hit", "done")
    BY <1>1, PhaseMoves DEF SendCached
  <2>2. /\ UNCHANGED <<alive, uri>> /\ sent' = [sent EXCEPT ![t] = AbsFound(t)]
        /\ \A c \in Blocks : AbsSlot(c)' = AbsSlot(c)
        /\ \A v \in Threads : AbsFound(v)' = AbsFound(v) /\ AbsTarget(v)' = AbsTarget(v)
    BY <1>1 DEF SendCached, AbsSlot, AbsFound, AbsTarget
  <2> QED
    BY <2>1, <2>2 DEF Abs!AnswerFromCache
<1>2. ASSUME Relay(t) PROVE Abs!AnswerFromOrigin(t)
  <2>1. fn[t] = "cache_find" /\ pc[t] = "fetch" /\ alive
    BY <1>0, <1>2 DEF Relay, ThreadInv
  <2>2. Abs!Phase(t, "missed", "keeping") \/ Abs!Phase(t, "missed", "done")
    <3>1. AbsPhase(t) = "missed" /\ AbsPhase(t)' \in {"keeping", "done"}
      BY <1>2, <2>1 DEF Relay
    <3>2. \A u \in Threads \ {t} : AbsPhase(u)' = AbsPhase(u)
      BY <1>2 DEF Relay
    <3> QED
      BY <2>1, <3>1, <3>2, PhaseMoves
  <2>3. /\ UNCHANGED <<alive, uri>>
        /\ sent' = [sent EXCEPT ![t] = [url |-> uri[t], prefixed |-> FALSE]]
        /\ \A c \in Blocks : AbsSlot(c)' = AbsSlot(c)
        /\ \A v \in Threads : AbsFound(v)' = AbsFound(v) /\ AbsTarget(v)' = AbsTarget(v)
    BY <1>2, <2>1 DEF Relay, AbsSlot, AbsFound, AbsTarget
  <2> QED
    BY <2>2, <2>3 DEF Abs!AnswerFromOrigin
<1> QED
  BY <1>1, <1>2 DEF Abs!Next

\* writePre succeeds: the old page goes.
LEMMA StoreBegins ==
    ASSUME TypeOK, LockInv, NEW t \in Threads, WritePre(t)
    PROVE  Abs!Next
<1> USE DEF Goto, TypeOK, WritePre, blockVars
<1>1. PICK b \in Blocks : b = index[t]
  OBVIOUS
<1>2. fn[t] = "cache_eviction" /\ pc[t] = "wrPre" /\ alive
  BY DEF LockInv, ThreadInv, StorePCs
<1>3. Abs!Phase(t, "keeping", "storing")
  BY PhaseMoves DEF AbsPhase, Scanning
<1>4. AbsTarget(t)' = b /\ \A v \in Threads \ {t} : AbsTarget(v)' = AbsTarget(v)
  BY <1>1 DEF AbsTarget, AbsPhase, Scanning
<1>5. Storing(b)' /\ \A c \in Blocks \ {b} : Storing(c)' = Storing(c)
  BY <1>1 DEF Storing
<1>6. AbsSlot(b)' = NoPage /\ \A c \in Blocks \ {b} : AbsSlot(c)' = AbsSlot(c)
  BY <1>5 DEF AbsSlot, AbsPhase, Scanning, Storing
<1>7. UNCHANGED <<alive, uri, sent>> /\ \A v \in Threads : AbsFound(v)' = AbsFound(v)
  BY DEF AbsFound
<1>8. Abs!BeginStore(t, b)
  BY <1>3, <1>4, <1>6, <1>7 DEF Abs!BeginStore, NoPage, Abs!NoPage
<1> QED
  BY <1>8 DEF Abs!Next

\* Both strcpy are done: the new page, of the client's URI, has come.
LEMMA StoreEnds ==
    ASSUME TypeOK, LockInv, DataInv, NEW t \in Threads, CopyUrl(t)
    PROVE  Abs!Next
<1> USE DEF Goto, TypeOK, CopyUrl, LruGoto, lockVars
<1>1. PICK b \in Blocks : b = index[t]
  OBVIOUS
<1>2. /\ fn[t] = "cache_eviction" /\ pc[t] = "copyUrl" /\ alive
      /\ cache_obj[b].url = uri[t] /\ cache_obj[b] \in Pages
  BY <1>1 DEF LockInv, ThreadInv, StorePCs, DataInv, HandOK
<1>3. \A u \in Threads \ {t} : pc[u] \in {"copyObj", "copyUrl"} => index[u] # b
  BY <1>1, <1>2 DEF LockInv, BlockOK, WMutexOK, Writers
<1>4. Abs!Phase(t, "storing", "done")
  BY <1>2, PhaseMoves DEF AbsPhase, Scanning
<1>5. /\ AbsTarget(t) = b /\ AbsTarget(t)' = -1
      /\ \A v \in Threads \ {t} : AbsTarget(v)' = AbsTarget(v)
  BY <1>1, <1>2 DEF AbsTarget, AbsPhase, Scanning
<1>6. ~Storing(b)' /\ \A c \in Blocks \ {b} : Storing(c)' = Storing(c)
  BY <1>1, <1>2, <1>3 DEF Storing
<1>7. /\ AbsSlot(b)' = cache_obj[b]
      /\ \A c \in Blocks \ {b} : AbsSlot(c)' = AbsSlot(c)
  BY <1>1, <1>6 DEF AbsSlot, AbsPhase, Scanning, Storing
<1>8. UNCHANGED <<alive, uri, sent>> /\ \A v \in Threads : AbsFound(v)' = AbsFound(v)
  BY DEF AbsFound
<1>9. Abs!EndStore(t, cache_obj[b])
  BY <1>2, <1>4, <1>5, <1>7, <1>8 DEF Abs!EndStore
<1>10. cache_obj[b] \in Abs!Pages
  BY <1>2 DEF Pages, Abs!Pages
<1> QED
  BY <1>9, <1>10 DEF Abs!Next

-----------------------------------------------------------------------------
(* The theorem. *)

LEMMA RefinementStep == TypeOK /\ LockInv /\ DataInv /\ [Next]_vars => [Abs!Next]_(Abs!vars)
<1> SUFFICES ASSUME TypeOK, LockInv, DataInv, [Next]_vars
             PROVE  Abs!Next \/ UNCHANGED Abs!vars
  OBVIOUS
<1>1. CASE UNCHANGED vars
  BY <1>1, Unseen
  DEF vars, blockVars, threadVars, AbsSlot, AbsPhase, AbsFound, AbsTarget
<1>2. ASSUME NEW t \in Threads, ProcessExit(t) PROVE Abs!Next
  <2>1. /\ alive /\ alive' = FALSE /\ UNCHANGED <<uri, sent>>
        /\ \A c \in Blocks : AbsSlot(c)' = AbsSlot(c)
        /\ \A v \in Threads : /\ AbsPhase(v)' = AbsPhase(v)
                               /\ AbsFound(v)' = AbsFound(v) /\ AbsTarget(v)' = AbsTarget(v)
    BY <1>2 DEF ProcessExit, blockVars, threadVars, AbsSlot, AbsPhase, AbsFound, AbsTarget
  <2>2. Abs!Exit
    BY <2>1 DEF Abs!Exit
  <2> QED
    BY <2>2 DEF Abs!Next
<1>3. CASE Next
  <2>1. PICK t \in Threads : (\E u \in Urls : Get(t, u)) \/ Refuse(t) \/ Step(t) \/ ProcessExit(t)
    BY <1>3 DEF Next
  <2> QED
    BY <1>2, <2>1, UnseenSteps, RequestSeen, HitSeen, MissSeen, AnswerSeen, StoreBegins, StoreEnds
    DEF Step, Reader, Find, Store
<1> QED
  BY <1>1, <1>3

\* With any number of threads and blocks, what doit() does for its clients is what
\* PageCache promises: one answer each, the origin's or the page that a block held under
\* the client's own URI at the moment of the lookup.
THEOREM Implementation == Spec => ImplementsPageCache
<1>1. Init => Abs!Init
  BY DEF Init, Abs!Init, AbsSlot, AbsPhase, AbsFound, AbsTarget, Scanning, NoPage, Abs!NoPage
<1> QED
  BY <1>1, RefinementStep, TypeCorrect, LocksCorrect, DataCorrect, PTL
  DEF Spec, ImplementsPageCache, Abs!Spec
=============================================================================
