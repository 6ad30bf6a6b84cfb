------------------------------- MODULE MCTsh --------------------------------
(* The shell for model checking: process ids start at 11, clear of the job ids. *)
EXTENDS Tsh
=============================================================================
