------------------------------- MODULE Programs ------------------------------
(***************************************************************************)
(* The sequential programs of labs 1, 2, 5 and 6 that need no other part   *)
(* of the repository: btest, the searches for the inputs of the bomb, the  *)
(* parser of command lines and the measuring of times.  Each run of the    *)
(* specification is a run of one of them, the others stay where they begin.*)
(***************************************************************************)
EXTENDS Puzzles, CommandLine, Timing

VARIABLE program    \* "btest", "search", "parse" or "measure"

vars == <<program, bvars, svars, pvars, tvars>>

Init ==
    /\ program \in {"btest", "search", "parse", "measure"}
    /\ BtestInit  /\ (program # "btest"   => test_fname = NoArg)
    /\ SearchInit /\ (program # "search"  => search = "phase4")
    /\ ParseInit  /\ (program # "parse"   => meant = <<>> /\ Len(buf) = 1)
    /\ TimingInit /\ (program # "measure" => tsc = <<0, 0>>)

Next ==
    /\ \/ program = "btest"   /\ BtestNext  /\ UNCHANGED <<svars, pvars, tvars>>
       \/ program = "search"  /\ SearchNext /\ UNCHANGED <<bvars, pvars, tvars>>
       \/ program = "parse"   /\ ParseNext  /\ UNCHANGED <<bvars, svars, tvars>>
       \/ program = "measure" /\ TimingNext /\ UNCHANGED <<bvars, svars, pvars>>
    /\ UNCHANGED program

Spec == Init /\ [][Next]_vars
=============================================================================
