---------------------------- MODULE MCProxyCache ----------------------------
(* The proxy on small instances; the .cfg files give the constants. *)
EXTENDS ProxyCacheRefinement, TLC

\* Connections are interchangeable: no definition names a particular thread.
ThreadSymmetry == Permutations(Threads)
=============================================================================
