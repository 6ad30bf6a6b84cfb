------------------------- MODULE ProxyCacheRefinement -----------------------
(***************************************************************************)
(* The threads, scans and semaphores of ProxyCache implement PageCache.    *)
(***************************************************************************)
EXTENDS ProxyCache

Scanning == {"rdPre", "rdLock", "inside", "rdAfter", "rdUnlock"}

\* A client is done for PageCache when it was answered and its page, if it is to
\* be kept, is complete in the cache; the thread may have locks to give back.
AbsPhase(t) ==
    CASE pc[t] = "new" -> "idle"
      [] pc[t] \in Scanning /\ fn[t] = "cache_find" -> "asked"
      [] pc[t] \in {"rdPre", "rdLock", "inside"} /\ fn[t] = "doit" -> "hit"
      [] pc[t] = "fetch" -> "missed"
      [] pc[t] = "wrPre" \/ (pc[t] \in Scanning /\ fn[t] = "cache_eviction") -> "keeping"
      [] pc[t] \in {"copyObj", "copyUrl"} -> "storing"
      [] OTHER -> "done"

\* A slot offers nothing while strcpy is at work on its block.
AbsSlot(b) ==
    IF isEmpty[b] \/ \E t \in Threads : AbsPhase(t) = "storing" /\ index[t] = b
    THEN NoPage ELSE cache_obj[b]

\* A hit stays with the page that the lookup saw, a store with the block it has chosen.
AbsFound(t)  == IF fn[t] = "doit" THEN cache_obj[index[t]] ELSE NoPage
AbsTarget(t) == IF AbsPhase(t) = "storing" THEN index[t] ELSE -1

Abs == INSTANCE PageCache WITH
    Clients <- Threads,
    Slots   <- Blocks,
    NoSlot  <- -1,
    slot    <- [b \in Blocks |-> AbsSlot(b)],
    phase   <- [t \in Threads |-> AbsPhase(t)],
    want    <- uri,
    found   <- [t \in Threads |-> AbsFound(t)],
    target  <- [t \in Threads |-> AbsTarget(t)],
    got     <- sent

\* What doit() does for its clients, with all threads running at once, is what
\* PageCache promises: the page that is sent is the page the lookup found.
ImplementsPageCache == Abs!Spec
=============================================================================
