----------------------------- MODULE ProxyCache -----------------------------
(***************************************************************************)
(* The threaded caching proxy, src/lab7_proxy/proxy.c.  main() starts one  *)
(* thread per accepted connection; every thread runs doit(), which looks   *)
(* its URI up in the shared cache, serves a hit from the cache, and on a   *)
(* miss relays the origin's answer and then stores it.                     *)
(*                                                                         *)
(* A step of a thread runs from one semaphore operation up to the next, or *)
(* is one access to a cache block between two of them.  Each block has the *)
(* two semaphores of the first readers/writers solution: wmutex for the    *)
(* block and rdcntmutex for readCnt.                                       *)
(***************************************************************************)
EXTENDS Integers, FiniteSets

CONSTANTS
    Threads,            \* one thread per connection the main loop accepts
    Urls,               \* the URIs that are requested
    Cacheable,          \* the URIs whose answer is shorter than MAX_OBJECT_SIZE
    NoUrl,              \* no URI at all
    Silent,             \* the URIs whose origin accepts and never answers
    CACHE_OBJS_COUNT,   \* the number of cache blocks
    LRU_MAGIC_NUMBER,   \* the LRU value of a block just stored
    MaxActive           \* bound: connections open at the same time

ASSUME ThreadsAssumption == IsFiniteSet(Threads)
ASSUME UrlsAssumption == Cacheable \subseteq Urls /\ Silent \subseteq Urls /\ NoUrl \notin Urls
ASSUME CountAssumption == CACHE_OBJS_COUNT \in Nat \ {0}
ASSUME LruAssumption == LRU_MAGIC_NUMBER \in Nat \ {0}
ASSUME ActiveAssumption == MaxActive \in Nat

Blocks == 0 .. CACHE_OBJS_COUNT - 1

\* The bytes of one answer, as far as the properties tell answers apart: whose
\* answer it is, and whether other bytes precede it.  "none" is a block that was
\* never written and a client that was sent nothing.
Pages == [url : Urls \cup {NoUrl}, prefixed : BOOLEAN]
NoPage == [url |-> NoUrl, prefixed |-> FALSE]

VARIABLES
    alive,              \* the process has not called exit()
    \* the cache blocks
    cache_obj, cache_url, LRU, isEmpty, readCnt, wmutex, rdcntmutex,
    \* the threads
    pc,                 \* where the thread is
    fn,                 \* on whose behalf it runs readerPre/readerAfter
    i,                  \* the block index the thread is working on
    index,              \* cache_index on a hit, minindex while storing
    again,              \* the loop of fn goes on after readerAfter
    uri,                \* url_store: the URI requested
    cachebuf,           \* the answer collected for the cache
    sent                \* what the client was sent

blockVars  == <<cache_obj, cache_url, LRU, isEmpty>>
lockVars   == <<readCnt, wmutex, rdcntmutex>>
threadVars == <<pc, fn, i, index, again, uri, cachebuf, sent>>
vars       == <<alive, blockVars, lockVars, threadVars>>

PCs == {"new", "rdPre", "rdLock", "inside", "rdAfter", "rdUnlock", "fetch",
        "wrPre", "copyObj", "copyUrl", "lruPre", "lruDec", "wrAfter", "done"}
Fns == {"cache_find", "doit", "cache_eviction"}

Init ==
    /\ alive = TRUE
    /\ cache_obj = [b \in Blocks |-> NoPage]
    /\ cache_url = [b \in Blocks |-> NoUrl]
    /\ LRU = [b \in Blocks |-> 0]
    /\ isEmpty = [b \in Blocks |-> TRUE]
    /\ readCnt = [b \in Blocks |-> 0]
    /\ wmutex = [b \in Blocks |-> 1]
    /\ rdcntmutex = [b \in Blocks |-> 1]
    /\ pc = [t \in Threads |-> "new"]
    /\ fn = [t \in Threads |-> "cache_find"]
    /\ i = [t \in Threads |-> 0]
    /\ index = [t \in Threads |-> 0]
    /\ again = [t \in Threads |-> FALSE]
    /\ uri = [t \in Threads |-> NoUrl]
    /\ cachebuf = [t \in Threads |-> NoPage]
    /\ sent = [t \in Threads |-> NoPage]

-----------------------------------------------------------------------------
(* Semaphores, one per block. *)

P(sem, b) == sem[b] > 0 /\ sem' = [sem EXCEPT ![b] = @ - 1]
V(sem, b) == sem' = [sem EXCEPT ![b] = @ + 1]

\* Thread t moves from label a to label z.
Goto(t, a, z) == alive /\ pc[t] = a /\ pc' = [pc EXCEPT ![t] = z]

-----------------------------------------------------------------------------
(* main: accept a connection, start its thread, read the request line. *)

Active == {t \in Threads : pc[t] \notin {"new", "done"}}

\* A GET request: the thread enters cache_find's loop at block 0.
Get(t, u) ==
    /\ Cardinality(Active) < MaxActive
    /\ Goto(t, "new", "rdPre")
    /\ uri' = [uri EXCEPT ![t] = u]
    /\ UNCHANGED <<alive, blockVars, lockVars, fn, i, index, again, cachebuf, sent>>

\* Any other method: "Proxy does not implement the method", and doit returns.
Refuse(t) ==
    /\ Cardinality(Active) < MaxActive
    /\ Goto(t, "new", "done")
    /\ UNCHANGED <<alive, blockVars, lockVars, fn, i, index, again, uri, cachebuf, sent>>

-----------------------------------------------------------------------------
(* readerPre(i) and readerAfter(i), each in the two steps that can wait. *)

\* P(rdcntmutex); readCnt++
ReaderPreCount(t) ==
    /\ Goto(t, "rdPre", "rdLock")
    /\ P(rdcntmutex, i[t])
    /\ readCnt' = [readCnt EXCEPT ![i[t]] = @ + 1]
    /\ UNCHANGED <<alive, blockVars, wmutex, fn, i, index, again, uri, cachebuf, sent>>

\* if(readCnt==1) P(wmutex); V(rdcntmutex): the first reader waits for the
\* writer while it holds rdcntmutex.
ReaderPreLock(t) ==
    /\ Goto(t, "rdLock", "inside")
    /\ IF readCnt[i[t]] = 1 THEN P(wmutex, i[t]) ELSE UNCHANGED wmutex
    /\ V(rdcntmutex, i[t])
    /\ UNCHANGED <<alive, blockVars, readCnt, fn, i, index, again, uri, cachebuf, sent>>

\* P(rdcntmutex); readCnt--
ReaderAfterCount(t) ==
    /\ Goto(t, "rdAfter", "rdUnlock")
    /\ P(rdcntmutex, i[t])
    /\ readCnt' = [readCnt EXCEPT ![i[t]] = @ - 1]
    /\ UNCHANGED <<alive, blockVars, wmutex, fn, i, index, again, uri, cachebuf, sent>>

\* VARIANT of LoopsOn: the loop bound off by one.
LoopsOnOffByOne(t) == again[t] /\ i[t] + 1 <= CACHE_OBJS_COUNT

\* Where the thread goes when readerAfter(i) returns: to the next block of the
\* scan, or out of the function that was scanning.
LoopsOn(t) == again[t] /\ i[t] + 1 < CACHE_OBJS_COUNT

AfterScan(t) ==
    CASE fn[t] = "cache_find"     -> "fetch"
      [] fn[t] = "cache_eviction" -> "wrPre"
      [] fn[t] = "doit"           -> "done"

\* VARIANT of ReaderAfterUnlock: V(wmutex) whether or not readers remain.
ReaderAfterUnlockAlways(t) ==
    /\ Goto(t, "rdUnlock", IF LoopsOn(t) THEN "rdPre" ELSE AfterScan(t))
    /\ V(wmutex, i[t])
    /\ V(rdcntmutex, i[t])
    /\ i' = IF LoopsOn(t) THEN [i EXCEPT ![t] = @ + 1] ELSE i
    /\ UNCHANGED <<alive, blockVars, readCnt, fn, index, again, uri, cachebuf, sent>>

\* if(readCnt==0) V(wmutex); V(rdcntmutex)
ReaderAfterUnlock(t) ==
    /\ Goto(t, "rdUnlock", IF LoopsOn(t) THEN "rdPre" ELSE AfterScan(t))
    /\ IF readCnt[i[t]] = 0 THEN V(wmutex, i[t]) ELSE UNCHANGED wmutex
    /\ V(rdcntmutex, i[t])
    /\ i' = IF LoopsOn(t) THEN [i EXCEPT ![t] = @ + 1] ELSE i
    /\ UNCHANGED <<alive, blockVars, readCnt, fn, index, again, uri, cachebuf, sent>>

-----------------------------------------------------------------------------
(* What a thread does inside the reader section of block i. *)

Holds(b, u) == ~isEmpty[b] /\ cache_url[b] = u

\* VARIANT of FindHit: the count is taken back before the loop is left.
FindHitReleases(t) ==
    /\ fn[t] = "cache_find"
    /\ Holds(i[t], uri[t])
    /\ Goto(t, "inside", "rdPre")
    /\ rdcntmutex[i[t]] > 0
    /\ readCnt' = [readCnt EXCEPT ![i[t]] = @ - 1]
    /\ IF readCnt[i[t]] = 1 THEN V(wmutex, i[t]) ELSE UNCHANGED wmutex
    /\ fn' = [fn EXCEPT ![t] = "doit"]
    /\ index' = [index EXCEPT ![t] = i[t]]
    /\ again' = [again EXCEPT ![t] = FALSE]
    /\ UNCHANGED <<alive, blockVars, rdcntmutex, i, uri, cachebuf, sent>>

\* cache_find finds the URI: it leaves the loop by break, so readerAfter(i) is
\* not called, and doit calls readerPre(cache_index) once more.
FindHit(t) ==
    /\ fn[t] = "cache_find"
    /\ Holds(i[t], uri[t])
    /\ Goto(t, "inside", "rdPre")
    /\ fn' = [fn EXCEPT ![t] = "doit"]
    /\ index' = [index EXCEPT ![t] = i[t]]
    /\ again' = [again EXCEPT ![t] = FALSE]
    /\ UNCHANGED <<alive, blockVars, lockVars, i, uri, cachebuf, sent>>

\* VARIANT of FindNext: the first block that does not match ends the search.
FindNextGivesUp(t) ==
    /\ fn[t] = "cache_find"
    /\ ~Holds(i[t], uri[t])
    /\ Goto(t, "inside", "rdAfter")
    /\ again' = [again EXCEPT ![t] = FALSE]
    /\ UNCHANGED <<alive, blockVars, lockVars, fn, i, index, uri, cachebuf, sent>>

\* cache_find does not find it here and looks at the next block.
FindNext(t) ==
    /\ fn[t] = "cache_find"
    /\ ~Holds(i[t], uri[t])
    /\ Goto(t, "inside", "rdAfter")
    /\ again' = [again EXCEPT ![t] = TRUE]
    /\ UNCHANGED <<alive, blockVars, lockVars, fn, i, index, uri, cachebuf, sent>>

\* VARIANT of SendCached: doit returns without readerAfter(cache_index).
SendCachedKeepsCount(t) ==
    /\ fn[t] = "doit"
    /\ Goto(t, "inside", "done")
    /\ sent' = [sent EXCEPT ![t] = cache_obj[index[t]]]
    /\ UNCHANGED <<alive, blockVars, lockVars, fn, i, index, again, uri, cachebuf>>

\* doit writes the cached object to the client.
SendCached(t) ==
    /\ fn[t] = "doit"
    /\ Goto(t, "inside", "rdAfter")
    /\ sent' = [sent EXCEPT ![t] = cache_obj[index[t]]]
    /\ UNCHANGED <<alive, blockVars, lockVars, fn, i, index, again, uri, cachebuf>>

\* VARIANT of ConsiderVictim: empty blocks are judged by their LRU like the others.
ConsiderVictimByLru(t) ==
    /\ fn[t] = "cache_eviction"
    /\ Goto(t, "inside", "rdAfter")
    /\ index' = IF LRU[i[t]] < LRU_MAGIC_NUMBER THEN [index EXCEPT ![t] = i[t]] ELSE index
    /\ again' = [again EXCEPT ![t] = TRUE]
    /\ UNCHANGED <<alive, blockVars, lockVars, fn, i, uri, cachebuf, sent>>

\* VARIANT of ConsiderVictim: the newest block is no exception.
ConsiderVictimEqual(t) ==
    /\ fn[t] = "cache_eviction"
    /\ Goto(t, "inside", "rdAfter")
    /\ index' = IF isEmpty[i[t]] \/ LRU[i[t]] <= LRU_MAGIC_NUMBER
                THEN [index EXCEPT ![t] = i[t]] ELSE index
    /\ again' = [again EXCEPT ![t] = ~isEmpty[i[t]]]
    /\ UNCHANGED <<alive, blockVars, lockVars, fn, i, uri, cachebuf, sent>>

\* cache_eviction: the first empty block ends the scan; a full one is taken
\* when its LRU is below min, which is never lowered from LRU_MAGIC_NUMBER.
ConsiderVictim(t) ==
    /\ fn[t] = "cache_eviction"
    /\ Goto(t, "inside", "rdAfter")
    /\ index' = IF isEmpty[i[t]] \/ LRU[i[t]] < LRU_MAGIC_NUMBER
                THEN [index EXCEPT ![t] = i[t]] ELSE index
    /\ again' = [again EXCEPT ![t] = ~isEmpty[i[t]]]
    /\ UNCHANGED <<alive, blockVars, lockVars, fn, i, uri, cachebuf, sent>>

-----------------------------------------------------------------------------
(* The miss: relay the origin's answer, then store it. *)

\* The whole answer is relayed to the client.  cachebuf is an uninitialised
\* array the lines are appended to: what the stack held before may precede them.
Relay(t) ==
    /\ uri[t] \notin Silent
    /\ sent' = [sent EXCEPT ![t] = [url |-> uri[t], prefixed |-> FALSE]]
    /\ \/ /\ uri[t] \in Cacheable
          /\ Goto(t, "fetch", "rdPre")
          /\ fn' = [fn EXCEPT ![t] = "cache_eviction"]
          /\ i' = [i EXCEPT ![t] = 0]
          /\ index' = [index EXCEPT ![t] = 0]
          /\ \E garbage \in BOOLEAN :
                cachebuf' = [cachebuf EXCEPT ![t] =
                                [url |-> uri[t], prefixed |-> garbage]]
       \/ /\ uri[t] \notin Cacheable
          /\ Goto(t, "fetch", "done")
          /\ UNCHANGED <<fn, i, index, cachebuf>>
    /\ UNCHANGED <<alive, blockVars, lockVars, again, uri>>

\* Open_clientfd to the origin, Rio_readlineb from it, or Rio_writen to a client
\* that went away fails: the csapp.c wrappers call exit() for the whole process.
ProcessExit(t) ==
    /\ alive
    /\ pc[t] = "fetch" \/ (pc[t] = "inside" /\ fn[t] = "doit")
    /\ alive' = FALSE
    /\ UNCHANGED <<blockVars, lockVars, threadVars>>

\* VARIANT of WritePre: the block is written without its semaphore.
WritePreUnlocked(t) ==
    /\ Goto(t, "wrPre", "copyObj")
    /\ UNCHANGED <<alive, blockVars, lockVars, fn, i, index, again, uri, cachebuf, sent>>

\* cache_uri: writePre(i)
WritePre(t) ==
    /\ Goto(t, "wrPre", "copyObj")
    /\ P(wmutex, index[t])
    /\ UNCHANGED <<alive, blockVars, readCnt, rdcntmutex,
                   fn, i, index, again, uri, cachebuf, sent>>

\* strcpy(cache_obj,buf)
CopyObj(t) ==
    /\ Goto(t, "copyObj", "copyUrl")
    /\ cache_obj' = [cache_obj EXCEPT ![index[t]] = cachebuf[t]]
    /\ UNCHANGED <<alive, cache_url, LRU, isEmpty, lockVars,
                   fn, i, index, again, uri, cachebuf, sent>>

\* VARIANT of Succ: the second loop of cache_LRU is missing.
SuccFirstLoopOnly(t, b) == IF b + 1 = index[t] THEN CACHE_OBJS_COUNT ELSE b + 1

\* cache_LRU's two loops: every block but index, in increasing order.
Succ(t, b) == IF b + 1 = index[t] THEN b + 2 ELSE b + 1
LruGoto(t, a, b) ==
    /\ Goto(t, a, IF b < CACHE_OBJS_COUNT THEN "lruPre" ELSE "wrAfter")
    /\ i' = IF b < CACHE_OBJS_COUNT THEN [i EXCEPT ![t] = b] ELSE i

\* strcpy(cache_url,uri); isEmpty = 0; LRU = LRU_MAGIC_NUMBER; cache_LRU(i) starts
CopyUrl(t) ==
    /\ LruGoto(t, "copyUrl", Succ(t, -1))
    /\ cache_url' = [cache_url EXCEPT ![index[t]] = uri[t]]
    /\ isEmpty' = [isEmpty EXCEPT ![index[t]] = FALSE]
    /\ LRU' = [LRU EXCEPT ![index[t]] = LRU_MAGIC_NUMBER]
    /\ UNCHANGED <<alive, cache_obj, lockVars, fn, index, again, uri, cachebuf, sent>>

\* cache_LRU: writePre(i), while writePre(index) is still held
LruPre(t) ==
    /\ Goto(t, "lruPre", "lruDec")
    /\ P(wmutex, i[t])
    /\ UNCHANGED <<alive, blockVars, readCnt, rdcntmutex,
                   fn, i, index, again, uri, cachebuf, sent>>

\* VARIANT of LruDec: writeAfter(i) is forgotten.
LruDecKeepsLock(t) ==
    /\ LruGoto(t, "lruDec", Succ(t, i[t]))
    /\ LRU' = IF isEmpty[i[t]] THEN LRU ELSE [LRU EXCEPT ![i[t]] = @ - 1]
    /\ UNCHANGED <<alive, cache_obj, cache_url, isEmpty, lockVars,
                   fn, index, again, uri, cachebuf, sent>>

\* cache_LRU: if(isEmpty==0) LRU--; writeAfter(i)
LruDec(t) ==
    /\ LruGoto(t, "lruDec", Succ(t, i[t]))
    /\ LRU' = IF isEmpty[i[t]] THEN LRU ELSE [LRU EXCEPT ![i[t]] = @ - 1]
    /\ V(wmutex, i[t])
    /\ UNCHANGED <<alive, cache_obj, cache_url, isEmpty, readCnt, rdcntmutex,
                   fn, index, again, uri, cachebuf, sent>>

\* cache_uri: writeAfter(i), and doit returns
WriteAfter(t) ==
    /\ Goto(t, "wrAfter", "done")
    /\ V(wmutex, index[t])
    /\ UNCHANGED <<alive, blockVars, readCnt, rdcntmutex,
                   fn, i, index, again, uri, cachebuf, sent>>

-----------------------------------------------------------------------------
Find(t)  == FindHit(t) \/ FindNext(t)
Reader(t) == \/ ReaderPreCount(t) \/ ReaderPreLock(t)
             \/ ReaderAfterCount(t) \/ ReaderAfterUnlock(t)
Store(t) == \/ WritePre(t) \/ CopyObj(t) \/ CopyUrl(t)
            \/ LruPre(t) \/ LruDec(t) \/ WriteAfter(t)

\* What the thread does by itself, once it has its request.
Step(t) == \/ Reader(t) \/ Find(t) \/ SendCached(t) \/ ConsiderVictim(t)
           \/ Relay(t) \/ Store(t)

Next == \E t \in Threads :
            \/ \E u \in Urls : Get(t, u)
            \/ Refuse(t)
            \/ Step(t)
            \/ ProcessExit(t)

Spec == Init /\ [][Next]_vars

\* The scheduler lets every thread run, and a semaphore that stays available is
\* taken in the end.  Nothing obliges a client to connect.
FairSpec == Spec /\ \A t \in Threads : WF_vars(Step(t))

-----------------------------------------------------------------------------
(* Who stands where with respect to block b. *)

\* readerPre(b) has counted the thread and readerAfter(b) has not yet.
Counted(b) == {t \in Threads : i[t] = b /\ pc[t] \in {"rdLock", "inside", "rdAfter"}}
\* The count cache_find leaves behind when it hits: nothing takes it back, not
\* even the end of the thread.
Pins(b) == {t \in Threads : fn[t] = "doit" /\ index[t] = b}
\* Threads between readerPre(b) and readerAfter(b), which may read the block.
Readers(b) == {t \in Threads : i[t] = b /\ pc[t] \in {"inside", "rdAfter"}}
\* Threads between writePre(b) and writeAfter(b), for a store or for cache_LRU.
Writers(b) ==
    {t \in Threads :
        \/ index[t] = b /\ pc[t] \in {"copyObj", "copyUrl", "lruPre", "lruDec", "wrAfter"}
        \/ i[t] = b /\ pc[t] = "lruDec"}
\* Threads in cache_uri after cache_eviction.
StorePCs == {"wrPre", "copyObj", "copyUrl", "lruPre", "lruDec", "wrAfter"}
Storers == {t \in Threads : pc[t] \in StorePCs}

-----------------------------------------------------------------------------
(* Safety. *)

TypeOK ==
    /\ alive \in BOOLEAN
    /\ cache_obj \in [Blocks -> Pages]
    /\ cache_url \in [Blocks -> Urls \cup {NoUrl}]
    /\ LRU \in [Blocks -> Int]
    /\ isEmpty \in [Blocks -> BOOLEAN]
    /\ readCnt \in [Blocks -> Int]
    /\ wmutex \in [Blocks -> Nat]
    /\ rdcntmutex \in [Blocks -> Nat]
    /\ pc \in [Threads -> PCs]
    /\ fn \in [Threads -> Fns]
    /\ i \in [Threads -> Blocks]
    /\ index \in [Threads -> Blocks]
    /\ again \in [Threads -> BOOLEAN]
    /\ uri \in [Threads -> Urls \cup {NoUrl}]
    /\ cachebuf \in [Threads -> Pages]
    /\ sent \in [Threads -> Pages]

\* The readers/writers protocol of lines 259-280: a thread that may write a block
\* is alone in it, and no hit that still counts on the block is overtaken.
Exclusion ==
    \A b \in Blocks : \A t \in Writers(b) :
        Writers(b) = {t} /\ Readers(b) \cup Pins(b) = {}

\* The thread that holds rdcntmutex[b], and the threads on whose behalf the first
\* reader holds wmutex[b].
RdHolders(b) == {t \in Threads : i[t] = b /\ pc[t] \in {"rdLock", "rdUnlock"}}
ReaderGroup(b) == Readers(b) \cup Pins(b) \cup {t \in Threads : i[t] = b /\ pc[t] = "rdUnlock"}

ThreadInv ==
    \A t \in Threads :
        /\ pc[t] \in {"new", "fetch"} => fn[t] = "cache_find"
        /\ pc[t] \in StorePCs => fn[t] = "cache_eviction"
        /\ fn[t] = "doit" => i[t] = index[t] /\ ~again[t]
        /\ pc[t] \in {"lruPre", "lruDec"} => i[t] # index[t]

RdMutexOK(b) ==
    /\ rdcntmutex[b] \in {0, 1}
    /\ rdcntmutex[b] = 0 <=> RdHolders(b) # {}
    /\ \A t, u \in RdHolders(b) : t = u

CountOK(b) == readCnt[b] = Cardinality(Counted(b)) + Cardinality(Pins(b))

WMutexOK(b) ==
    /\ wmutex[b] \in {0, 1}
    /\ wmutex[b] = 1 <=> Writers(b) = {} /\ ReaderGroup(b) = {}
    /\ \A t, u \in Writers(b) : t = u
    /\ Writers(b) = {} \/ ReaderGroup(b) = {}

BlockOK(b) == RdMutexOK(b) /\ CountOK(b) /\ WMutexOK(b)

\* Each semaphore is held by exactly the threads that the code lets believe they
\* hold it: rdcntmutex by one thread inside readerPre or readerAfter, wmutex by one
\* writer or by a group of readers that is not empty (the inductive invariant).
LockInv == ThreadInv /\ \A b \in Blocks : BlockOK(b)

\* readCnt is, at every moment, the number of readerPre calls that counted minus
\* the readerAfter calls that did: the readers and the hits that were left behind.
ReadCntExact == \A b \in Blocks : CountOK(b)

\* cache_find drops no lock on a hit before doit reads the block again, so what a
\* client is sent from the cache answers the URI it asked for.
ServesWhatWasAsked ==
    \A t \in Threads : sent[t] # NoPage => sent[t].url = uri[t]

\* cache_obj and cache_url of a full block belong together for anyone who may
\* look at it, however many stores chose the same block.
BlockConsistent ==
    \A b \in Blocks : ~isEmpty[b] /\ Writers(b) = {} => cache_obj[b].url = cache_url[b]

\* Between stores the LRU values of the full blocks are distinct and the latest
\* store has the highest one, whatever the interleaving of the stores was.
LruRanks ==
    Storers = {} =>
        LET Full == {b \in Blocks : ~isEmpty[b]}
        IN  /\ \A b, c \in Full : LRU[b] = LRU[c] => b = c
            /\ Full # {} => \E b \in Full : LRU[b] = LRU_MAGIC_NUMBER

\* A block that was hit once is never replaced or aged again.
PinnedBlocksStay ==
    [][\A b \in Blocks : Pins(b) # {} =>
            /\ cache_obj'[b] = cache_obj[b] /\ cache_url'[b] = cache_url[b]
            /\ LRU'[b] = LRU[b]]_vars

-----------------------------------------------------------------------------
(* One connection at a time (MaxActive = 1). *)

\* Without concurrency a URI is stored only after the whole cache was searched
\* for it, so the cache never holds it twice.
NoDuplicates ==
    Storers = {} =>
        \A b, c \in Blocks : ~isEmpty[b] /\ ~isEmpty[c] /\ cache_url[b] = cache_url[c] => b = c

\* Without concurrency cache_eviction replaces a full block only in a full cache.
ReplacesOnlyWhenFull ==
    [][\A b \in Blocks : ~isEmpty[b] /\ cache_url'[b] # cache_url[b]
            => \A c \in Blocks : ~isEmpty[c]]_vars

\* Without concurrency the page that was stored last is never the one that is replaced,
\* with two blocks or more.
KeepsTheNewest ==
    [][\A b \in Blocks : ~isEmpty[b] /\ cache_url'[b] # cache_url[b]
            => \E c \in Blocks : LRU[c] > LRU[b]]_vars

-----------------------------------------------------------------------------
(* Liveness. *)

Finished(t) == pc[t] = "done" \/ ~alive \/ (pc[t] = "fetch" /\ uri[t] \in Silent)

\* A connection is served and closed, also while another one waits for an origin
\* that never answers, as long as no store runs beside another store or after a
\* hit.  (Those two are what the threads can block each other with for ever.)
ServedUnlessStoresCollide ==
    [](Storers # {} => Cardinality(Storers) = 1 /\ \A b \in Blocks : Pins(b) = {})
        => \A t \in Threads : pc[t] # "new" ~> Finished(t)
=============================================================================
