--------------------------- MODULE MCMallocDriver ---------------------------
(* Small heaps for the allocators of src/lab6_malloc under their driver.    *)
EXTENDS MallocDriver

\* One target size; a batch of it is sixteen blocks if BATCH is 16.
Targets == <<16>>
=============================================================================
