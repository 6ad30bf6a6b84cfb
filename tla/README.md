# Models of the CSAPP3eLabs programs

The repository holds one author's solutions of the seven programming labs that go with
*Computer Systems: A Programmer's Perspective*.  Each lab is a program of its own; they share no
state.  This directory holds TLA+ models of the programs that have behaviour worth checking, TLC
configurations that check them on small instances, and TLAPS proofs about them.

Every file name below is relative to `src/` for code and to this directory for TLA+.

## 1. The parts of the repository

| part | code | state | operations | hard about it |
|---|---|---|---|---|
| caching proxy | `lab7_proxy/proxy.c` (`proxy_Part3.c` is the same program) | ten cache blocks (page, URI, LRU, isEmpty) with `readCnt` and two semaphores each; one thread per connection | accept, `doit`, `cache_find`, `cache_eviction`, `cache_uri`, `cache_LRU`, `readerPre/After`, `writePre/After` | threads over shared blocks, lock order, a victim chosen before it is locked, a count that is left behind, an exit that takes all threads along |
| earlier proxies | `proxy_Part1.c` (one connection at a time), `proxy_Part2.c` (a thread each) | the buffers of `doit`, on the stack and never cleared | `doit`, `parse_uri`, `build_http_header`, `connect_endServer` | what an earlier request left behind, short reads, a peer that goes away |
| web server | `lab7_proxy/tiny/tiny.c`, `cgi-bin/adder.c` | one connection, a CGI child | `doit`, `read_requesthdrs`, `parse_uri`, `serve_static`, `serve_dynamic`, `clienterror` | end of input in the middle of a request, a loop that does not look at the end of the input |
| robust I/O | `lab7_proxy/csapp.c` (four copies) | `rio_t`: buffer, pointer, count | `rio_readinitb`, `rio_read`, `rio_readlineb`, `rio_writen` | short counts, the line that exceeds the buffer |
| job-control shell | `lab5_shelllab/tsh.c` | job table `jobs[16]`, `nextjid`, the global `pid`; in the kernel: children, process groups, pending and blocked signals | `eval`, `parseline`, `builtin_cmd`, `do_bgfg`, the handlers, `addjob`, `deletejob`, `maxjid` | signal handlers that interrupt the main loop at any point, signals that coalesce, children that change state between two system calls |
| cache simulator | `lab4_cachelab/csim.c` | lines with valid bit, tag and time stamp; hit, miss and eviction counters | one trace line: L, S, M, I | time stamps have to implement least recently used |
| matrix transpose | `lab4_cachelab/trans.c`, run by `tracegen.c` and `test-trans.c` | two matrices, eight locals, the cache they are traced in | `transpose_submit` and its three blocked functions, `trans`, `validate`, `eval_perf` | loop bounds and remainders; B as its own buffer, in an order that both keeps the values and avoids misses |
| allocators | `lab6_malloc/mm-implict.c`, `mm-explicit.c`, `mm.c` (= `mm-finalversion.c`), `mm-segrete_v1.c`, `mm-naive.c`; heap in `memlib.c` | a heap of blocks with headers (and footers), free lists | `mm_init`, `mm_malloc`, `mm_free`, `mm_realloc`, `extend_heap`, `coalesce`, `place`, `find_fit` | long sequences of calls, block boundaries, remainders too small for a block, neighbours that move between lists |
| malloc driver | `lab6_malloc/mdriver.c` | range list, ids, sizes | `eval_mm_valid`, `add_range` | - |
| timing | `lab6_malloc/fcyc.c`, `clock.c`, `fsecs.c` | the cycle counter, the calibrated cost of a tick, the best samples | `fcyc`, `callibrate`, `start_comp_counter`, `get_comp_counter` | two clocks read one after the other, a counter that wraps |
| bit puzzles and their tester | `lab1_datalab/bits.c`, `tests.c`, `decl.c`, `btest.c` | test values, loops, points, an alarm | the thirteen puzzles; `gen_vals`, `test_function`, `run_tests` | overflow, the sign bit, denormalised numbers; an alarm that outlives its test |
| bomb reconstructions | `lab2_bomb/phase4.cpp`, `phase5.cpp`, `phase6.cpp`, `secret_phase.cpp` | an input and what was printed | the searches | a register that is a variable in C++; reads beyond a table |
| attack lab, bomb, trace tools | `lab3_attacklab`, `lab2_bomb/bomb.c`, `ftimer.c`, `traceFileAnalysis.cpp`, `sdriver.pl` and others | - | - | - |

The programs are separate processes.  Parts interact in these places: the proxies with clients and
with origins (tiny is one), over connections; proxy and tiny with robust I/O; the shell with its
children, by signals and wait status; the allocators with `memlib.c` below and the driver above; the
transpose with the cache simulator, through its trace; btest with the puzzles.

What makes each part correct:

* caching proxy: a writer is alone in a block; a client gets the page of the URI it asked for; the
  counters agree with the threads; every connection is served and closed; eviction follows LRU.
* web: a client gets the answer to its own request, in order, however reads and writes are cut; its
  Host line reaches the origin; a connection that was accepted is served completely.
* shell: every child that ended is reaped and removed from the table; job ids are unique; the prompt
  returns exactly when the foreground job is done; the arguments of a line come back.
* cache simulator: hits, misses and evictions are those of an LRU cache of the given geometry.
* transpose: the result is the transpose, no index leaves a matrix, the misses are as reported.
* allocators: payloads do not overlap and stay inside the heap; the free lists hold exactly the free
  blocks; neighbours of freed blocks are merged; `realloc` keeps the contents.
* timing: the time of the fastest run, whatever interrupted it.
* bit puzzles: each function computes what the reference in `tests.c` computes; btest sees it if not
  and gives the points accordingly.
* bomb: a search prints all answers the bomb accepts, and no other.

## 2. Modules

| module | what it is | builds on |
|---|---|---|
| `ProxyCache` | the caching proxy's threads and cache, semaphore by semaphore | |
| `PageCache` | what the cache promises its clients, without locks or scans | |
| `ProxyCacheRefinement` | the mapping from `ProxyCache` to `PageCache` | both |
| `ProxyCacheProofs` | theorems: the locks, that the mapping is a refinement, what the cache keeps | `ProxyCacheRefinement` |
| `Rio` | the buffered reads and the writes of robust I/O | |
| `Network` | connections, clients that send a request and may leave | `Rio` |
| `Tiny` | the web server and its CGI child | `Network` |
| `EarlyProxy` | Part1 and Part2 | `Tiny` |
| `Web` | clients, proxy and tiny together, and the properties | `EarlyProxy` |
| `WebProofs` | theorems about the web programs | `Web`, `Least` |
| `JobTable` | the shell's job list: its operations | |
| `Tsh`, `TshProofs` | the shell, its signal handlers, its children; theorems | `JobTable`, `Least` |
| `CacheSim` | the cache simulator, one line of the trace per step | |
| `LruCache` | a cache that replaces the least recently used block | |
| `CacheSimRefinement`, `CacheSimProofs` | the mapping from `CacheSim` to `LruCache`; theorems | both, `Least` |
| `Least` | what loops rest on: least and greatest elements of sets of naturals, functions that are defined by a loop, quotients and remainders | |
| `TransposePrograms` | the functions of `trans.c` as sequences of assignments | |
| `Transpose` | such a program in `tracegen.c`, one access per step, traced by `CacheSim` | both |
| `HeapMemory` | `memlib.c`, the header macros, and the text the allocators share | |
| `NaiveHeap`, `ImplicitHeap`, `ExplicitHeap`, `TargetedHeap`, `SegregatedHeap` | the five allocators | `HeapMemory` |
| `Allocator` | what a program may rely on | |
| `MallocDriver` | traces of `mdriver.c` on any of the allocators, and the properties | all seven |
| `MallocProofs` | theorems about the implicit list and the naive allocator | `MallocDriver`, `Least` |
| `ExplicitProofs` | theorems about the explicit list, and about the three together | `MallocProofs` |
| `Words` | machine words as sets of positions, for any width | |
| `Bits` | `bits.c` and `tests.c` | `Words` |
| `Btest` | btest | `Bits` |
| `BombSearch` | the four searches, and the phases of the bomb from its listing | |
| `Puzzles` | properties of the last two | both |
| `CommandLine` | `parseline` | |
| `Timing` | the K-best measurement | |
| `Programs`, `ProgramsProofs` | the programs that run alone, one of them per behaviour; theorems about puzzles and timing | the last three, `Least` |
| `MC...` | the instances that TLC checks, with their `.cfg` files | |

What is composed is what interacts: proxy, tiny and robust I/O; shell and job table; driver,
allocator and heap; transpose and cache simulator; btest and puzzles.  Each detailed module is shown
to implement the abstract one where there is one (`PageCache`, `LruCache`, `Allocator`).

The order of work was: the caching proxy with its locks proved, the shell, the cache simulator with
its proofs, the allocators, then the web programs, the transpose, the puzzles and the searches,
command lines and timing; then the proofs of the shell, of the proxy's refinement and contents, of
the implicit list, of the explicit list and the naive allocator on the lemmas about blocks of the
implicit one, of the bit fields of the cache simulator, of the timing and of the web programs.  What is left, in the order
in which it would pay:

1. Proofs: the lists of `mm-segrete_v1.c`, on the chains of `ExplicitProofs`.
2. The measurements of `mdriver.c` (utilisation and speed).

## 3. The proxy

`ProxyCache` models `proxy.c` from `main` to `cache_uri`.

| code | model |
|---|---|
| `cache.cacheobjs[i]` | the functions `cache_obj`, `cache_url`, `LRU`, `isEmpty`, `readCnt`, `wmutex`, `rdcntmutex` on `Blocks` |
| a thread and its stack | `pc`, `fn` (the function whose `readerPre`/`readerAfter` it runs), `i`, `index`, `again`, `uri`, `cachebuf`, `sent` |
| `readerPre`, `readerAfter` | `ReaderPreCount`, `ReaderPreLock`, `ReaderAfterCount`, `ReaderAfterUnlock` |
| `cache_find`, the hit in `doit` | `FindHit`, `FindNext`, `SendCached` |
| `cache_eviction` | `ConsiderVictim` |
| the miss in `doit` | `Relay` |
| `cache_uri`, `cache_LRU`, `writePre`, `writeAfter` | `WritePre`, `CopyObj`, `CopyUrl`, `LruPre`, `LruDec`, `WriteAfter` |
| `exit()` in the csapp.c wrappers | `ProcessExit` |

A step runs from one semaphore operation to the next, or is one access to a block between two of
them, so every interleaving that another thread can observe is a behaviour of the model.  A page is
its URI and a bit, `prefixed`: `cachebuf` is appended to without being initialised (line 154), so a
page that is kept may begin with other bytes, and the bit says so.

**Runs.**

* `proxy_threads`: three connections at once, two URIs that are cached and one too long for it, two
  blocks.  It shows the readers/writers protocol and its counts (`Exclusion`,
  `ReadCntExact`), the pairing of pages with URIs (`BlockConsistent`, `ServesWhatWasAsked`), the
  ranks after overlapping stores (`LruRanks`), that a hit block is never written again
  (`PinnedBlocksStay`), and that all of it looks to clients like `PageCache`
  (`ImplementsPageCache`).  Three threads are the least number for a reader that passes the first
  one while a writer waits; two blocks are the least for a store that ages another block.
* `proxy_serial`: one connection at a time, five of them, three blocks.  Properties that concurrent
  lookups break: no URI twice (`NoDuplicates`), no page replaced while a block is empty
  (`ReplacesOnlyWhenFull`), and never the page stored last (`KeepsTheNewest`), which is all that the
  choice of the victim guarantees.  Five connections fill three blocks and replace one.
* `proxy_progress`: under fairness every connection is served and closed, also next to one whose
  origin never answers, as long as no store meets another store or a block that was hit
  (`ServedUnlessStoresCollide`).  Both conditions are necessary, see section 12.

**Bounds.** `MaxActive` is the number of connections open at once; connections are model values and
interchangeable (`ThreadSymmetry`, in runs of safety properties only).  `LRU_MAGIC_NUMBER` is the
code's 9999; ten blocks are reduced to two or three.

**Fairness.** Weak fairness of each thread's `Step`: the kernel schedules every thread, and `P` on a
semaphore that stays positive returns.  Clients need not connect (`Get` is not fair), nor origins
answer (`Silent`), nor need the process end.

## 4. The shell

`Tsh` models the shell and, as the actions of the environment, what the kernel and the user do.

| code | model |
|---|---|
| `jobs`, `nextjid`, `addjob`, `deletejob`, `maxjid`, the lookups | `JobTable` |
| `main`'s loop, `eval` | `Quit`, `BlankLine`, `Launch`, `AddFg`, `AddBg`, `BgPrint`, `Check`, `Unblock` |
| `do_bgfg` | `Lookup`, `BgCommand`, `FgCommand`, `FgStopped`, `FgRunning` |
| `sigchld_handler` | `HandlerStarts`, then one of `Reaps`, `ReportsStop`, `HasNoChild`: what its one `waitpid` returns |
| `sigint_handler`, `sigtstp_handler`, `sigquit_handler` | `CtrlC`, `CtrlZ`, `SigQuit` |
| children | `SetPgid`, `Exits`, `Stops`; `killpg` is `KillPg` |

A step of the main loop runs up to the next point at which a handler could make a difference: a
change of the signal mask, or a use of the job list while SIGCHLD is not blocked.  A pending SIGCHLD
is a bit, as in the kernel: two children that change together are one signal.  `do_bgfg` keeps its
slot in `tmp` across the points at which the handler may clear that slot.

**Runs.**

* `shell_jobs`: two children and two slots, all commands and signals.  A job in the list is a child
  that was not reaped, so the handler never deletes before `eval` adds (`JobsAreUnreaped`); no child
  is forgotten (`ChildrenAreListed`); job ids are unique as long as no more jobs were started than
  there are slots (`JidsUnique`; beyond that `nextjid` wraps to 1 while job 1 may be in use); a
  foreground wait ends once all children have ended, so no wakeup is lost (`EvalReturns`), and as
  long as every job runs in the foreground and none stops, not before (`EvalWaitsForItsJob`).  Two
  children are enough for the races: one that is waited for and one that disturbs.
* `shell_foreground` (a violation): the wait of `eval` ends when `pid` is set, and the handler sets
  it for whichever child it reports.  A background job that ends or stops brings back the prompt
  while the foreground job runs, against the comment of `eval`; a second foreground job can then be
  started, against "At most 1 job can be in the FG state" (line 36).

**Fairness.** Weak fairness of the main loop once it has a command (`Work`), of the handler
(`Handler`), and of each child's way to its `execve` (`SetPgid`).  Nobody must type and no child
must end.  `EvalReturns` supposes that `fg` is not used, because with `fg` the wait can be
lost (section 12).

In `Tsh` a line is the command it yields.  How it is taken apart is `CommandLine`, section 9.

## 5. The cache simulator

`CacheSim` is `csim.c`: `processLine` is one line of the trace and has the three outcomes `Hit`,
`Fill` and `Evict`; `M` is a load followed by a store that hits.  `blocks[k][i]` is the flat array's
`blocks[setNumber*E+i]`.  `SetNumber` and `Tag` are the shifts as the code writes them, at a width
`W` that replaces 64, with shift counts taken modulo the width as the processor does.  `lastUse` is
a history variable: when each block of `2^b` bytes of memory (`MemBlock`, the address divided by
`2^b`, which no shift of the code computes) was used last.

The run `csim` takes every trace of six lines over five addresses in four blocks, in two sets of two
lines.  Three of the blocks share a set, so that lines are filled, hit and evicted; two addresses
lie in one block.  It shows that the simulator is an LRU cache of these blocks of memory with the right
counters (`ImplementsLru`), the invariant behind it (`LinesAreLru`), and that each block that was
used is found again where `-s` says, unless every line of its set was used since
(`BlocksAreFound`): a set number or a tag that takes two blocks for one, or one block for two,
leaves some block without its own line.

## 6. The allocators

`HeapMemory` is the heap as an array of words with a `brk`, and the macros.  The five allocators are
`mm_init`, `extend_heap`, `coalesce`, `place` and `find_fit` word by word, in the order in which the
code writes.  What several files have as the same text stands once, in `HeapMemory`.  A loop over
the blocks is a function of the address it is at; in `find_fit`, and in the driver's own walk
(`Blocks`), it also stops where the next block would begin outside the heap or not further on, which
no tiled heap lets happen (lemmas `FindFitIs`, `FitIs` and `BlocksAre`).
`MallocDriver` is `eval_mm_valid` of `mdriver.c`: it allocates, frees and reallocates, fills each
payload with the byte of its index, checks alignment, position and overlap as `add_range` does, and
checks that `mm_realloc` kept the contents.  Which allocator is linked is chosen in `Init`.

| code | model |
|---|---|
| `mem_sbrk`, `mem_reset_brk`, `mem_max_addr` | `mem_sbrk`, `mem_reset_brk`, `CanGrow`; the field `brk` |
| `PUT(HDRP(bp),..); PUT(FTRP(bp),..)` | `Mark` |
| `mm-implict.c`: one implicit list; `mm-explicit.c`: one list of the free blocks | `ImplicitHeap`, `ExplicitHeap` |
| `mm-segrete_v1.c`: a list per target size, filled in batches, and a general one | `TargetedHeap` |
| `mm.c`, `mm-finalversion.c`: eight lists by classes of sizes, each sorted; three ways to `mm_realloc` | `SegregatedHeap` |
| `mm-naive.c`: `brk` only | `NaiveHeap` |
| the request loop of `eval_mm_valid` | `Alloc`, `Realloc`, `Free`, `NextTrace` |
| `malloc_error` | `verdict` |

**Runs.**

* `heaps`: every trace, or sequence of traces, of up to seven requests of 8 or 32 bytes on the
  implicit and the explicit list.  The heap grows by 64 bytes, in `mm_init` and once more, so blocks
  are split, merged on either side and on both, the heap is extended next to a free block, and it
  runs full.  Headers lead from the prologue to the epilogue and agree with footers and with what
  callers own (`HeapTiled`), no two free blocks are neighbours (`NoFreeNeighbours`), the explicit
  list runs through every free block once and back (`FreeListExact`), a request fails only when the
  heap cannot grow and no free block would do (`FailsOnlyWhenFull`), and to callers it all looks like
  disjoint payloads that nobody else writes (`ImplementsAllocator`).  The last one is stronger than
  the driver's own check, which only looks at the ends of a new payload.
* `heaps_segregated`: every trace of up to six requests of two ids on `mm.c`, `mm-segrete_v1.c` and
  `mm-naive.c`.  Every free block is in exactly one of the lists that may hold its size, and the
  lists lead to the epilogue and back (`FreeListExact`); callers are kept apart
  (`ImplementsAllocator`).  Three sizes lie in two classes and one is the target size, so blocks
  move between lists; with two ids no block lies between two free ones of its class that were freed
  before it.
* `heaps_case4` (a violation): with three ids that case comes about.  In `coalesce` of `mm.c` with
  both neighbours free (line 464) one of the two stays linked into its list although it is part of
  the merged block, a later request is given bytes of it while it is still listed, two callers share
  them, and the driver reports it (`DriverIsContent`).

Three choices of constants matter, and all are where the code goes wrong beyond them:

* `SIZE_T` is 8, the build of `CMakeLists.txt`.  `mm_realloc` of the implicit and explicit list reads
  a `size_t` in front of the payload for the old size.  With eight bytes the header is its upper
  half, so the result is never the smaller one and the contents are kept.  With four, as `-m32` in
  the Makefile makes it, it reads the footer of the block before, and contents are lost at the
  second request.
* No request needs a block of `CHUNKSIZE - 8`.  `mm-explicit.c` splits a block that it has just got
  from `extend_heap` without asking whether the rest is big enough for a list node; with 8 bytes
  left (line 353) `HeapTiled` fails within five requests.  `mm-implict.c` handles that size.
* No `mm_realloc` in `mm.c` leaves 0 or 8 bytes over: `mm_reallocHelper` (line 392) would mark them as a
  free block and overwrite the epilogue.

## 7. The web programs

`Web` puts two clients in front of tiny, or of Part1 or Part2 in front of tiny.  A stream is a
sequence of tokens (a word, a header, a piece of a body) and of line ends; `read` may return any
number of the tokens there are, `write` may take any number, so a line may arrive in pieces and span
the internal buffer of `rio_t`.

| code | model |
|---|---|
| `rio_read`, `rio_readlineb`, `rio_writen` | operators of the same names: one `read` or `write` each |
| connections, listen queue, close and reset | `net`, `backlog` of `Network` |
| `main`, `doit`, `read_requesthdrs`, `serve_static`, `serve_dynamic`, the child of `fork` | the actions of `Tiny`, over the registers in `tiny` |
| `doit`, `build_http_header` of Part1/Part2, one thread per connection | the actions of `EarlyProxy`, over `handler[c]` |
| what an earlier call left on the stack | `stack`, `Scanned`, `HostLines` |
| `exit()` in the csapp.c wrappers, SIGPIPE | `ProxyDies` and the like |

The run `web` has thirteen requests of the first client (complete and cut off, with long lines, with
a method that is not GET, for a directory, a program with and without arguments, a missing, a
forbidden and an empty file, URIs that the proxy takes apart wrongly) and two of the second, which
may go away at any time.  It shows that what a client was sent is always the beginning of the answer
to its own request (`AnswersMatch`), that a Host line reaches the origin (`HostForwarded`), that tiny
closes a connection with input unread, which resets it, only after a refusal (`ResetOnlyAfterRefusal`),
that no buffer overflows (`TypeOK`), and that every connection is served completely unless some
client does what ends or blocks a server (`Served`, with the list in `Harmful`).

**Bounds.** `MAXLINE` is 4 tokens and `RIO_BUFSIZE` 2, for 8192 bytes each: lines longer than either
exist.  Two clients are one that is served and one that comes before, after or meanwhile.

**Fairness.** Weak fairness of `ServerStep`, the servers and their kernel taken together: as long as
something can go on, something does.  Clients need not connect.  This is less than the scheduler
gives, and enough because the servers' steps cannot go on for ever.

## 8. The matrix transpose

`TransposePrograms` translates each function of `trans.c` into a sequence of blocks with a sequence
of assignments each; `Transpose` runs it in `tracegen.c`, one access at a time, through `CacheSim`
with `s=5`, `E=1`, `b=5`.  Elements of A are told apart by their place, so the run shows the result
for whatever A holds.

The run `transpose` takes 32x32, 64x64, 61x67 and, for `trans`'s general case, 3x5, at the addresses
of the trace in the repository.  No access leaves the matrices (`AccessesInBounds`), B ends as the
transpose and `test-trans` says so (`Transposed`: on the diagonal of 64x64, quarters of B buffer one
another), and the misses are 275, 1291 and 1953 as `README.md` of the lab reports
(`MissesAsReported`), counted with the accesses of `tracegen.c` around the call.

## 9. The programs that run alone

One behaviour of `Programs` is one of four programs; the run `programs` takes them all.

* **btest** (`Words`, `Bits`, `Btest`).  A word is the set of the positions that hold 1, so that the
  puzzles can be proved about for any width; the run has 32.  `bits.c` and `tests.c` are operators of
  the same names; float puzzles are on the bits of the float.  `Btest` is `run_tests`,
  `test_function` and `gen_vals`: the values around each corner, the loops over up to three
  arguments, the alarm that jumps out of a test.  `WrongExactlyOnFloats` says for which arguments a
  solution and its reference differ: never on generated values, and on the arguments a user may give
  exactly where three float puzzles are wrong (section 12).  The alarm is never cancelled (line 357):
  it may come after its test returned.  Outside a test it then jumps into a frame that is gone, the
  step to `"lost"`, where nothing is promised; between `sigsetjmp` (`SetJump`) and `alarm()` (`Arm`)
  of the next test it ends that one.  `VerdictsAreOwn`: these are the only tests that an alarm of
  another one ends; at the end just the tests that an alarm ended are without their points; and a
  test that reports no error has compared every combination of its values, whatever an alarm cut
  short before.  The histories are `timedOut` and `compared`.  `TEST_RANGE` is 4 for 500000; tests
  that an alarm ends: 1 (`MaxAlarms`).
* **The searches** (`BombSearch`) over their whole ranges.  The operators named `...OfBomb` are the
  phases of the bomb from its listing.  `AnswersPrinted`: phases 5, 6 and the secret one print all
  the bomb accepts and nothing else; phase 4 prints 0 for 7 only, where the bomb also accepts 0, 1
  and 3, because the C++ `func4` drops what its recursive call returns.  `phase6.cpp` admits 0 by a
  signed comparison and then reads `address[5]`, behind the table: no such input is printed.
* **parseline** (`CommandLine`), one argument per step, on every line of up to three arguments that
  are plain, quoted, empty between quotes, or begin with `&`, with one or two blanks between and up
  to one at the end.  `ArgumentsComeBack`: the arguments are those the line was written from; a last
  one that begins with `&`, quoted or not, is taken off and makes the job a background one.
* **Timing** (`Timing`): `fcyc` with and without compensation, `callibrate`, the counter in halves
  (of 8 instead of 2^32, started just before it wraps), timer interrupts at any point, also between
  the reading of the two clocks.  `ReportsTheFastest`: without compensation the result is the fastest
  run, too high by no more than the ticks in it; with compensation it is never too high, and too low
  by what `callibrate` overestimates (less than `THRESHOLD` per tick) and by one tick for each of the
  two places where a tick falls between the clocks.  Bounds: K is 2 of 3 samples, two ticks per run,
  two events in `callibrate`, the last of which is not split by the two clocks.

## 10. What is proved

TLAPS checks the theorems below for all values of the constants that satisfy the named assumptions
and the hypotheses given here.  Each invariant was checked by TLC on the instance of its run before
it was proved.

**The proxy's locks** (`ProxyCacheProofs`): any finite number of connections (`ThreadsAssumption`),
any URIs (`UrlsAssumption`), at least one block (`CountAssumption`), a positive rank
(`LruAssumption`).  `TypeOK` is inductive.  `Exclusion` is not: that a writer is alone follows from
who holds which semaphore.  `LockInv` says this for every block: `rdcntmutex` is taken exactly if
one thread is between the two halves of `readerPre` or `readerAfter` (`RdMutexOK`), `readCnt` is the
number of counted readers plus the hits left behind (`CountOK`), and `wmutex` is taken exactly if
there is one writer or a group of readers (`WMutexOK`).  Each action that touches a semaphore has
its lemma; the others leave all the roles alone and are dealt with together (`SameRoles`,
`PlainSteps`).  `WritersAreAlone` and `CountsAreExact` follow at once; `PinnedForever` because a hit
keeps the block's reader group from ever being empty.  The pages need one more invariant, `DataInv`:
what a storing thread carries is its own URI's page, a block outside a writer's hands has page and
URI together, and after a hit the block holds the URI asked for.  From it follow `AnswersTheRequest`
and `BlocksAreConsistent`.

**What clients of the proxy see** (`ProxyCacheProofs`): under the same assumptions
`Implementation` shows that `ProxyCache` implements `PageCache`.  The mapping shows the page of a
block unless a thread is between `writePre` and the end of `strcpy` on it, so both `strcpy`s
together are one step of the cache, the second.  Most steps change nothing that is seen
(`UnseenSteps`).  The others are simulated one by one, each with the part of `LockInv` or `DataInv`
that makes it legal: a lookup finds a page that is offered since a reader keeps storing threads out
of the block, a hit is still there when `doit` reads it since the hit pinned it, a store begins on a
slot nobody else stores in.

**What the proxy keeps** (`ProxyCacheProofs`).  `RanksAreDistinct` holds for any number of stores
at once.  `LruRanks` speaks of the moments between stores; while rounds of `cache_LRU` are under way
the values are anything.  The invariant `RankInv` looks ahead: `Eff(b)` is the LRU of `b` once every
round that has begun has passed it, and these values are distinct with the latest store on top.  A
new round takes one from all of them but its own block, which gets the top value.  This fails when
two stores each have still to pass the other's block (`Crossed`), but then neither ever gets it and
there is no moment between stores again; so the invariant is one or the other.
The three others suppose one connection at a time (`MaxActive = 1`), as their run does; TLC breaks
each of them with two.  `SerialInv` follows the loops: the blocks that `cache_find` has passed do not
hold the URI, those that `cache_eviction` has passed are full, and its choice is an old block unless
all passed ones are new.  `PagesAreDistinct` and `EvictsWhenFull` follow; `NewestIsKept` also needs
two blocks, because with one there is nothing else to replace.

**The web programs** (`WebProofs`): any clients, files and requests, any size of a line buffer from 2
and of the buffer behind it from 1 (`MaxLineAssumption`, `RioBufSizeAssumption`), any tokens that
include the words the servers write (`TokensAssumption`, `SiteAssumption`, `HeadersAssumption`).
About `rio_readlineb` the lemma `ReadLineKeeps` says that wherever the reads stop nothing is lost or
moved, no buffer overflows, and what is returned has its line end, if any, at its end.  `TypeOK` is
not inductive: which connection a descriptor is, and in which state, follows from `Struct`, who holds
which connection (the listen queues, tiny's one connection, a thread's client and its origin).
`ResetOnlyAfterRefusal` and `HostForwarded` need to know what a server has read: `RequestsRead` says
that its buffers and the connection together hold the rest of its own client's request, that this
rest begins where a line begins unless some line is too long for `MAXLINE`, that nothing of it is
left once the loop over the headers has ended, and that the `Host` lines passed so far are what
`host_hdr` holds.  Two hypotheses are about the requests: `NoBodies`, that nothing follows the empty
line (with a body tiny always closes with bytes unread), and for `HostForwarded` also
`HostsAreLines`, that `Host` begins a line other than the first.
`WebAnswers` states `AnswersMatch`, for a line buffer that holds a method and a URI (`MAXLINE > 2`)
and under `SiteReplies`, that the answers `Site` which the site owes are what tiny makes of its files.
Its invariant, `AnswersKept`, follows an answer on its way back: what has reached the client, what
the proxy's thread is writing, what is in its buffer and on the connection to the origin are, in this
order (`Sent`), what tiny has sent so far, and with what tiny is about to send (`Coming`) they begin
the answer.  Before that it follows the request on its way there: what tiny will read, together with
what the thread has still to send (`Left`), begins with the method and the URI of this client
(`Asks`).  Bytes left in the buffer of an earlier connection, or a stack value taken for this
request's, would break it.
`MCWeb` asserts the three hypotheses on the requests and the site for the run.

**The shell** (`TshProofs`): any number of slots (`MaxJobsAssumption`) and children
(`PidsAssumption`, which makes the process ids a finite set).  The invariant `ShellInv` has four
parts: types; `ListInv`, that no child has two slots and that between the fork and `addjob` the
handler cannot run and the new child has no slot; `ChildrenAreListed`; and `JidInv`.  `JidsUnique` alone is not inductive because
`nextjid` wraps and is set back by `deletejob`: `JidInv` bounds every job id by the number of
children that were started, and says that `nextjid` is above all of them unless that number has
reached the slots.  `ListedChildrenLive`, `NoChildForgotten` and `JobIdsUnique` follow from it.
`ForegroundIsAwaited` has an invariant of its own, `WaitInv`, that holds as long as every job was
run in the foreground and none stopped: there is at most one child, and when the prompt is up, or
`pid` is set while `eval` waits, there is none.

**The implicit list** (`MallocProofs`): any size of the heap, any chunk, any requests that are
multiples of 4 (`HeapAssumption`, `DriverAssumption`), under two hypotheses.  `CHUNKSIZE + 16 <=
MAX_HEAP` says that `mm_init` finds room; without it there is no heap.  `SIZE_T = 8` is the build of
`CMakeLists.txt`; with 4, `mm_realloc` loses contents (section 6), so the theorems would be false.
The invariant `HeapInv` says that there is a set `S` of addresses at which blocks begin
(`Tiles`: prologue, epilogue, each block ends where the next member of `S` begins, footers agree
with headers), that no two free ones are neighbours (`Merged`), and that those in use are one for
each id of the driver, big enough for its payload and with the id's bytes in it (`Owns`).  With `S`
as a witness no induction along the heap is needed: `place` adds an address, `coalesce` takes one or
two away, `extend_heap` adds the new epilogue (`SplitTiles`, `MergeTiles`, `ExtendTiles`).  That the
blocks which the properties reach by walking along the headers are `S` (`BlocksAre`), and what
`find_fit` returns (`FindFitIs`), are about loops: such a function is defined by recursion towards
the end of the heap, and `LoopDefined` of `Least` says that such a recursion defines it (a case of
`DescentDefined`, for recursions in which some natural number descends).
`BlocksTileTheHeap`, `FreeBlocksAreMerged` and `GivesUpOnlyWhenFull` follow.  `PayloadsAreApart` is
the refinement of `Allocator`: the region of an id is the payload of its block, and distinct members
of `S` have disjoint payloads.  It is more than the driver's own check can see.

**The explicit list** (`ExplicitProofs`): any size of the heap, any chunk, any requests, under three
hypotheses.  `CHUNKSIZE + 32 <= MAX_HEAP` says that `mm_init` finds room, `SIZE_T = 8` is the build as
before, and `NoneTooNarrow` says that no request needs a block of `CHUNKSIZE - 8` bytes: that is the
size at which line 353 of `mm-explicit.c` leaves a free block too small for its two links, and the
theorems would be false (section 6).  The invariant `Listed` is that of the implicit list with two
additions.  Blocks have at least 16 bytes (`Shape`, which looks at the heap without the two words
that this file keeps behind the epilogue).  And the free blocks are a chain (`Chain`): there
is a numbering `rk` of them, of the prologue and of the epilogue, such that the link forward of each
leads to the one with the next higher number and the link back to where one came from.  With the
numbering as a witness, taking a block out of the list, putting one in front, putting one in the
place of another and moving the list's end with the epilogue are each one lemma (`ChainLeaves`,
`ChainEnters`, `ReplaceIs`, `ChainEnds`) that gives the new numbering.  That the links of a free
block are neither headers nor footers (`EndsApart`) nor in a payload (`BodyApart`) lets the lemmas
about blocks of `MallocProofs` be used again.  The properties' walk along the list is a recursion
with the number of blocks as fuel (`Walk`), and `DescentDefined` says what it finds (`ListWalked`).  `ListedBlocksTileTheHeap`,
`ListedFreeBlocksAreMerged`, `ListHoldsTheFreeBlocks`, `ListGivesUpOnlyWhenFull` and
`ListedPayloadsAreApart` follow.

**The naive allocator** (end of `MallocProofs`): no hypothesis at all, the heap may even be smaller
than one block and `size_t` have either width.  `NaiveInv` says that payloads lie below `brk`, apart,
each behind its size word and with its id's bytes in it.  `mm_free` does nothing and `mm_realloc`
always takes new room at the end of the heap (`NaiveCorrect`); `NaivePayloadsAreApart` and
`NaiveGivesUpOnlyWhenFull` follow.

`DriverIsSatisfied` and `DriverSeesAnAllocator` put the three allocators together and are what the run
`heaps` checks, for every value of its constants under the hypotheses of the explicit list; the
first also says that the driver never reports an error (`DriverIsContent`).

**The cache simulator** (`CacheSimProofs`): any number of lines per set (`LinesAssumption`), any
addresses (`AddressAssumption`), any trace shorter than `oldest` (`TraceAssumption`), and the
geometries that leave a tag and whose shifts give a set that exists (`GeometryAssumption`: `s` and
`b` not both 0, `s + b < W`, `s` and, if `s` is 0, also `b` at most half of `W`).  The shifts come
first.  One is a product with a power of two cut to the width, or a quotient: `SplitOf` says that an
address is tag, set and offset put together, `PartsOf` that the code's shifts give these, through
intermediate values of half the width, and `AddressBlock` that they are set and tag of the block of
memory that the address lies in.  The provers have no laws of `^`, so the three used, `2^0 = 1`,
that powers are positive and that `2^(m+n)` is the product, are named (`PowersAssumption`); they
have no content of their own, and TLC evaluates them for every exponent up to `W`.

The invariant is `TypeOK /\ LinesAreLru`: time stamps are last uses and no block is held twice in a
set.  `UsedIsFound` states `BlocksAreFound`: what is put into a line is found there, and the line
that loses its block is the oldest of a full set (`UsedLineIsOldest`), so that all the others, and
then itself, were used later (`UseKeepsFound`).
`Refinement` shows that every step is a step of `LruCache`: a hit since a matching line is a cached
block, a fill since an empty line means fewer than `E` cached blocks in the set (the lines in use
and the cached blocks of a set are in bijection, `CachedOfSet`), an eviction since the line with the
least time stamp holds the least recently used block. `LeastAccess` and `FirstEmpty` need that a
nonempty set of naturals has a least element, which `Least` proves by well-founded induction.

**The bit puzzles** (`ProgramsProofs`): for every width `W`, each of the following gives what the
reference of `tests.c` gives, for all words: `bitXor` (`XorRight`), `allOddBits` (`AllOddBitsRight`),
`conditional` (`ConditionalRight`), `logicalNeg` (`LogicalNegRight`), `howManyBits`
(`HowManyBitsRight`), `isTmax` (`IsTmaxRight`), `isLessOrEqual` (`IsLessOrEqualRight`) and, for more
than six bits, `isAsciiDigit` (`IsAsciiDigitRight`).  Addition is by carries (`CarryInto`: in some lower position both
words have a 1, and in every position between at least one of them has), so no recursion is
needed.  The proofs use the facts about single words that the tricks rest on: `x >> 31` is all
1s or none (`SignSpread`), adding 0 changes nothing (`AddZero`), -1 + 1 is 0 (`OnesPlusOne`), `x + x`
is a shift (`AddTwice`).  For `isLessOrEqual`, `SubtractionIs` says that `x + ~y + 1` is subtraction
with borrows, and `DifferenceTells` what its sign means when it cannot overflow.  `IsAsciiDigitRight` has
the bits of 6, 48, 56 and 57 as its hypothesis `Digits`, since the provers cannot compute powers of two;
TLC evaluates the same in `MCPrograms`.
They do not have a run's property as
their statement: `WrongExactlyOnFloats` is about btest, which compares the same two functions.

**The timing** (`ProgramsProofs`).  `FastestIsReported` states `ReportsTheFastest` for any width of the
counter's halves, any durations, any number of interrupts, any `kbest` and number of samples.  Its
hypothesis, `NothingComesAround`, is that neither a run of `f` nor a callibration is so long that the
counter comes around as a whole (2^64 cycles), and that a read of the counter takes less than the
2000 cycles between `THRESHOLD` and `RECORDTHRESH`; the model's own bounds on where a tick can fall in
`callibrate` (section 9) stay.  `CounterIs` is that the two unsigned
subtractions with a borrow give the cycles that have passed, whatever wraps; `LaterLater` that the
counter counts.  The invariant `TimingInv` says what each phase has: in `callibrate` less than
`THRESHOLD`, or exactly one late tick, has passed since the counter was last looked at
(`Callibrating`), so what is recorded for a tick is at least its cost and exceeds it by less than
`THRESHOLD` and a read (`PerTick`); after a run of `f` the counter has moved by its cycles and ticks
(`Measured`); and between runs the first of the kept values is least and within the bounds of the
fastest run so far (`Best`).  That a better sample cannot be lost is `Inserted`: wherever the
insertion sort takes a value, the first one stays the least.

**Only model-checked**:

* liveness, which is out of TLAPS's reach under fairness: `ServedUnlessStoresCollide`,
  `EvalReturns`, `Served`;
* what a recursion over data computes for every input, which is an induction the provers cannot be
  given: `ArgumentsComeBack` (the arguments of a line), `AnswersPrinted` (the searches);
* `WrongExactlyOnFloats` and `VerdictsAreOwn`, about the values that btest tries, and its alarms;
* the segregated and targeted allocators (`FreeListExact` and `ImplementsAllocator` in
  `heaps_segregated`).  For `mm.c` they hold only as long as fourth cases of `coalesce` and narrow
  remainders in `mm_realloc` do not come about (section 6), so there is no theorem for every trace;
* the float puzzles;
* the transpose (`Transposed`, `AccessesInBounds`, `MissesAsReported`); the last of these is about
  the number of misses of given matrices.

## 11. What is not modelled

* Everything printed, option letters, the reading of trace files, content types.
* The lengths of names.  A URI, path or header is a value of a small set, so that `strcpy` and
  `sprintf` copy it as it is: the model holds for what fits into the arrays of the code.  In the
  caching proxy this is a URI of less than 100 characters (`url_store`, `proxy.c:113`), in the earlier
  ones a rebuilt request of less than `MAXLINE` (`proxy_Part1.c:128`).  `other_hdr`, which nothing
  sets before the first `strcat`, is empty at first in the run `web`, whatever the code finds there.
* In the caching proxy the taking apart of requests: the same functions are modelled in
  `EarlyProxy`.  `proxy_Part3.c` is `proxy.c`.
* `rio_readn` and `rio_readnb`, which no program here calls; `csapp.c`'s wrappers but for the exit
  they end in.
* `mdriver.c`'s measurement of utilisation and speed, its options and its reading of traces.
* Of the timing the Alpha and other counters, the clearing of the cache, `mhz` and the overhead
  measurement; `ftimer.c`.  `config.h` selects `gettimeofday`, so `fcyc.c` is used only after a
  change there.
* Fractions of a cycle: `callibrate` divides doubles (`clock.c:232`), `Timing` naturals.  Under the
  bounds of section 9 the divisor, the ticks of one event, is always 1, so nothing is rounded.
* `test-trans.c`'s child processes, files and signals.
* The shell's test programs (`myspin.c` and so on), but for what the shell sees of them: a child in
  `Tsh` may end or stop by itself at any time (`Exits`, `Stops`).  The signal that `myint` sends
  itself, and `mysplit`'s own child, add nothing to that.
* The attack lab and `bomb.c`: notes and a main program around binaries that are not here;
  `traceFileAnalysis.cpp` and `sdriver.pl`, which print or drive.

## 12. Where code and comments part

Two runs end in a violation, `shell_foreground` (section 4) and `heaps_case4` (section 6);
`PROJECT.json` quotes the lines.  While the models were written, these came up as well:

* caching proxy: `cache_find` leaves its loop on a hit without `readerAfter` (line 287), so `readCnt`
  counts a reader for ever, the block's `wmutex` is never released and the next store hangs
  (`ReadCntExact` counts these readers).  Two stores that chose different blocks can each wait in
  `cache_LRU` for the other's (line 348 and 321).  `cache_eviction` never lowers its minimum, so it
  returns the last block that is not the latest one (line 307).  Two threads that miss the same URI
  both store it (line 122 and after); a page from the cache may begin with the bytes that `cachebuf`
  held before; any error in a `csapp.c` wrapper ends all connections.
* earlier proxies: whether a Host line is made up depends on what `host_hdr` held before
  (`proxy_Part1.c:124`); a URI with a `:` in its path is cut there, and one without a path gets that
  of an earlier request; a failed connection to the origin ends the process, so the test for it in
  `doit` never succeeds.
* tiny: `read_requesthdrs` loops for ever when the input ends inside the headers (line 105); a request
  line without method and URI is answered with what the stack holds (line 60); a file of length 0 and
  a program without arguments end the process or the child.
* shell: `fg` looks at a stopped job before it blocks SIGCHLD: if the job is killed in between, the
  shell marks a cleared slot and sleeps without a child that could wake it (line 374).  One call of
  `sigchld_handler` reports one child, so children that end together leave a zombie and its job; the
  handler's `waitpid` blocks, so a SIGCHLD that nothing stands behind stops the shell; `bg` calls
  `killpg(-pid, SIGCONT)`, which fails, so the job is marked running and stays stopped; `fg PID`
  looks the job up by job id the second time; a blank line, a background job that ends before it is
  printed, and a stopped child without a job each end the shell by a null pointer.  `parseline` drops
  the rest of a line after a quote that is not closed, takes a quoted `&` for the operator, and does
  not count its arguments.
* cache simulator: with `s = 0` and `b = 0` the set number is the whole address (excluded by
  `GeometryAssumption`).  `trans.c:30` tests `M == 64` twice, and N never.
* allocators: those of section 6.
* bit puzzles: `floatScale2` returns a NaN where the double of a number overflows, unless the
  fraction is 0 (line 540); `floatFloat2Int` drops the fraction of numbers with an exponent from 1
  to 22 and fails for negative ones with an exponent from 24 to 30 (line 596); `floatPower2` is 0 for
  the denormalised powers -149 to -127, and wrong where `x + 127` overflows (line 629).  btest finds
  none of these: its values are not there.
* btest: an alarm that a test left behind ends the next test if it comes between that one's
  `sigsetjmp` and `alarm` (lines 350 to 357), and jumps into a frame that is gone if it comes
  between two tests.
* bomb: `func4` of `phase4.cpp`, and the signed comparison of `phase6.cpp`, see section 9.
* timing: both places where the two clocks are read one after the other make a compensated time too
  low, and the best of K keeps the lowest.
