----------------------------- MODULE MCCacheSim -----------------------------
(* Small caches; the .cfg files give geometry and addresses. *)
EXTENDS CacheSimRefinement
=============================================================================
