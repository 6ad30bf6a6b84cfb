------------------------------ MODULE JobTable ------------------------------
(***************************************************************************)
(* The job list of the shell, src/lab5_shelllab/tsh.c lines 504-652: a     *)
(* fixed array of slots and the next job id.  Command lines are left out.  *)
(***************************************************************************)
EXTENDS Integers, FiniteSets

CONSTANTS
    MAXJOBS,    \* the number of slots
    Pids        \* the process ids the kernel hands out

ASSUME MaxJobsAssumption == MAXJOBS \in Nat \ {0}
ASSUME PidsAssumption == Pids \subseteq Nat \ {0} /\ IsFiniteSet(Pids)

Slots  == 0 .. MAXJOBS - 1

VARIABLES
    jobs,       \* [Slots -> [pid, jid, state]], state "UNDEF", "FG", "BG" or "ST"
    nextjid

tableVars == <<jobs, nextjid>>

\* clearjob: the contents of an unused slot
NoJob == [pid |-> 0, jid |-> 0, state |-> "UNDEF"]

\* initjobs
TableInit == jobs = [s \in Slots |-> NoJob] /\ nextjid = 1

-----------------------------------------------------------------------------
(* Lookups.  A loop over the slots returns the first that fits. *)

First(S) == CHOOSE s \in S : \A r \in S : s <= r
FreeSlots == {s \in Slots : jobs[s].pid = 0}
SlotsOfPid(p) == IF p < 1 THEN {} ELSE {s \in Slots : jobs[s].pid = p}
SlotsOfJid(j) == IF j < 1 THEN {} ELSE {s \in Slots : jobs[s].jid = j}
FgSlots == {s \in Slots : jobs[s].state = "FG"}

fgpid == IF FgSlots = {} THEN 0 ELSE jobs[First(FgSlots)].pid

\* The largest jid in table J, 0 when J is empty.
maxjid(J) ==
    LET jids == {J[s].jid : s \in Slots} \cup {0}
    IN  CHOOSE m \in jids : \A j \in jids : j <= m

-----------------------------------------------------------------------------
(* Updates. *)

\* VARIANT of NextAfter: the id wraps before it passes MAXJOBS.
NextAfterEarly(j) == IF j + 1 >= MAXJOBS THEN 1 ELSE j + 1

\* nextjid++; if (nextjid > MAXJOBS) nextjid = 1
NextAfter(j) == IF j + 1 > MAXJOBS THEN 1 ELSE j + 1

\* addjob: the first free slot, or nothing when there is none.
addjob(p, st) ==
    IF p < 1 \/ FreeSlots = {} THEN UNCHANGED tableVars
    ELSE /\ jobs' = [jobs EXCEPT ![First(FreeSlots)] = [pid |-> p, jid |-> nextjid, state |-> st]]
         /\ nextjid' = NextAfter(nextjid)

\* deletejob: the slot is cleared, and the next id follows the largest one left.
deletejob(p) ==
    IF SlotsOfPid(p) = {} THEN UNCHANGED tableVars
    ELSE /\ jobs' = [jobs EXCEPT ![First(SlotsOfPid(p))] = NoJob]
         /\ nextjid' = maxjid(jobs') + 1

\* A write through a pointer to a slot, whatever the slot holds by now.
SetState(s, st) == jobs' = [jobs EXCEPT ![s].state = st] /\ UNCHANGED nextjid
=============================================================================
