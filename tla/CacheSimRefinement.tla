------------------------- MODULE CacheSimRefinement -------------------------
(* csim.c's time stamps and bit fields implement an LRU cache of memory blocks. *)
EXTENDS CacheSim

cached == {x \in MemBlocks : Matching(IndexOf(x), TagOf(x)) # {}}

Lru == INSTANCE LruCache WITH now <- currentTime

\* Every line of the trace does to the simulated lines what it would do to a cache
\* that replaces the least recently used block, and counts the same.
ImplementsLru == Lru!Spec
=============================================================================
