------------------------------ MODULE TshProofs -----------------------------
(***************************************************************************)
(* Proofs about the shell, for any number of slots in the job list and any *)
(* number of children.                                                     *)
(***************************************************************************)
EXTENDS Tsh, Least, FiniteSetTheorems, TLAPS

-----------------------------------------------------------------------------
(* The inductive invariant. *)

States == {"UNDEF", "FG", "BG", "ST"}
Jobs   == [pid : Pids \cup {0}, jid : Nat, state : States]
ShellPCs == {"prompt", "added", "check", "suspend", "unmask", "bgUnmask", "bgPrint",
             "bgState", "fgState", "fgStopped", "fgRunning", "exit", "crashed"}
ChildStates == {"none", "new", "running", "stopped", "reported", "zombie", "gone"}

TypeOK ==
    /\ jobs \in [Slots -> Jobs]
    /\ nextjid \in Nat \ {0}
    /\ pc \in ShellPCs
    /\ pid \in Pids \cup {0, -1}
    /\ tmp \in Slots
    /\ id \in Nat
    /\ bg \in BOOLEAN /\ blocked \in BOOLEAN /\ handling \in BOOLEAN /\ pending \in BOOLEAN
    /\ child \in [Pids -> ChildStates]

\* A slot is free or holds a child with a job id; no child has two slots.  Between the fork
\* and addjob the new child has none, and the handler cannot run.
ListInv ==
    /\ \A s \in Slots : jobs[s].pid = 0 <=> jobs[s].jid = 0
    /\ \A r, s \in Slots : jobs[r].pid = jobs[s].pid /\ jobs[r].pid # 0 => r = s
    /\ JobsAreUnreaped
    /\ pc = "added" => /\ blocked /\ ~handling
                       /\ pid \in Children /\ SlotsOfPid(pid) = {}

\* The children that were started, and how many of them eval has offered to addjob.
Started == {p \in Pids : child[p] # "none"}
Offered == IF pc = "added" THEN Cardinality(Started) - 1 ELSE Cardinality(Started)

\* As long as no more children were started than there are slots, nextjid is larger than
\* every job id in the list; if it has wrapped, no further job can come.
JidInv ==
    Cardinality(Started) <= MAXJOBS =>
        /\ \A r, s \in Slots : jobs[r].jid = jobs[s].jid /\ jobs[r].jid # 0 => r = s
        /\ \A s \in Slots : jobs[s].jid <= Offered
        /\ nextjid <= Offered + 1
        /\ (\A s \in Slots : jobs[s].jid < nextjid) \/ Offered = MAXJOBS

ShellInv == TypeOK /\ ListInv /\ ChildrenAreListed /\ JidInv

-----------------------------------------------------------------------------
(* The lookups. *)

LEMMA SlotsAreNaturals ==
    /\ 0 \in Slots /\ Slots \in SUBSET Nat
    /\ IsFiniteSet(Slots) /\ Cardinality(Slots) = MAXJOBS
<1>1. MAXJOBS - 1 \in Int /\ ~(0 > MAXJOBS - 1) /\ MAXJOBS - 1 - 0 + 1 = MAXJOBS
  BY MaxJobsAssumption
<1>2. IsFiniteSet(0 .. MAXJOBS - 1) /\ Cardinality(0 .. MAXJOBS - 1) = MAXJOBS
  BY <1>1, FS_Interval
<1> QED
  BY <1>2, MaxJobsAssumption DEF Slots

\* A loop that stops at the first slot (or process id) that fits finds one.
LEMMA FirstFits ==
    ASSUME NEW S \in SUBSET Nat, S # {}
    PROVE  First(S) \in S
<1>1. \E s \in S : \A r \in S : s <= r
  BY LeastNatural
<1> QED
  BY <1>1 DEF First

\* maxjid returns the largest id in the list, or 0.
LEMMA MaxJid ==
    ASSUME NEW J \in [Slots -> Jobs]
    PROVE  /\ maxjid(J) \in Nat
           /\ \A s \in Slots : J[s].jid <= maxjid(J)
           /\ maxjid(J) = 0 \/ \E s \in Slots : J[s].jid = maxjid(J)
<1> DEFINE f == [k \in 0 .. MAXJOBS - 1 |-> J[k].jid]
           jids == {J[s].jid : s \in Slots} \cup {0}
<1>1. f \in [0 .. MAXJOBS - 1 -> Nat]
  BY DEF Slots, Jobs
<1>2. PICK m \in Nat : \A k \in 0 .. MAXJOBS - 1 : f[k] <= m
  BY <1>1, ArrayBounded, MaxJobsAssumption
<1>3. \A s \in Slots : J[s].jid <= m
  BY <1>2 DEF Slots
<1>4. jids \in SUBSET Nat /\ jids # {} /\ \A y \in jids : y <= m
  BY <1>3 DEF Jobs
<1>5. \E x \in jids : \A y \in jids : y <= x
  BY <1>4, GreatestNatural
<1>6. maxjid(J) \in jids /\ \A y \in jids : y <= maxjid(J)
  BY <1>5 DEF maxjid
<1> QED
  BY <1>4, <1>6

-----------------------------------------------------------------------------
(* The updates. *)

\* addjob fills one free slot, or changes nothing when there is none.
LEMMA AddsJob ==
    ASSUME TypeOK, NEW p \in Pids, NEW st, addjob(p, st)
    PROVE  \/ FreeSlots = {} /\ UNCHANGED tableVars
           \/ \E x \in FreeSlots :
                 /\ jobs' = [jobs EXCEPT ![x] = [pid |-> p, jid |-> nextjid, state |-> st]]
                 /\ nextjid' = NextAfter(nextjid)
<1>1. FreeSlots \in SUBSET Nat
  BY SlotsAreNaturals DEF FreeSlots
<1>2. ~(p < 1)
  BY PidsAssumption
<1> QED
  BY <1>1, <1>2, FirstFits DEF addjob

\* deletejob clears a slot of that process, or changes nothing when it has none.
LEMMA DeletesJob ==
    ASSUME TypeOK, NEW p \in Pids, deletejob(p)
    PROVE  \/ SlotsOfPid(p) = {} /\ UNCHANGED tableVars
           \/ \E x \in SlotsOfPid(p) :
                 /\ jobs' = [jobs EXCEPT ![x] = NoJob]
                 /\ nextjid' = maxjid(jobs') + 1
<1>1. SlotsOfPid(p) \in SUBSET Nat
  BY SlotsAreNaturals DEF SlotsOfPid
<1> QED
  BY <1>1, FirstFits DEF deletejob

\* Slots that are looked up are slots of the list.
LEMMA FoundSlots ==
    /\ \A n : SlotsOfPid(n) # {} => First(SlotsOfPid(n)) \in SlotsOfPid(n)
    /\ \A n : SlotsOfJid(n) # {} => First(SlotsOfJid(n)) \in SlotsOfJid(n)
    /\ \A n : SlotsOfPid(n) \in SUBSET Slots /\ SlotsOfJid(n) \in SUBSET Slots
<1>1. \A n : SlotsOfPid(n) \in SUBSET Slots /\ SlotsOfJid(n) \in SUBSET Slots
  BY DEF SlotsOfPid, SlotsOfJid
<1>2. \A n : SlotsOfPid(n) \in SUBSET Nat /\ SlotsOfJid(n) \in SUBSET Nat
  BY <1>1, SlotsAreNaturals
<1> QED
  BY <1>1, <1>2, FirstFits

\* The process that eval forks next has not been started.
LEMMA NextPidIsNew ==
    ASSUME \E p \in Pids : child[p] = "none"
    PROVE  NextPid \in Pids /\ child[NextPid] = "none"
<1>1. {p \in Pids : child[p] = "none"} \in SUBSET Nat
  BY PidsAssumption
<1> QED
  BY <1>1, FirstFits DEF NextPid

\* What happens to a child that was forked and is not reaped.
LiveStates == ChildStates \ {"none", "gone"}

LEMMA ChildLives ==
    ASSUME TypeOK, NEW p \in Pids, child[p] \in LiveStates, NEW st \in LiveStates,
           child' = [child EXCEPT ![p] = st]
    PROVE  /\ child' \in [Pids -> ChildStates]
           /\ Children' = Children /\ Started' = Started
BY DEF TypeOK, LiveStates, ChildStates, Children, Started

LEMMA KilledChildLives ==
    ASSUME TypeOK, NEW p, NEW from \in SUBSET LiveStates, NEW st \in LiveStates,
           KillPg(p, from, st)
    PROVE  /\ child' \in [Pids -> ChildStates] /\ pending' \in BOOLEAN
           /\ Children' = Children /\ Started' = Started
<1>1. CASE p \in Pids /\ child[p] \in from
  BY <1>1, ChildLives DEF KillPg, Becomes
<1>2. CASE ~(p \in Pids /\ child[p] \in from)
  BY <1>2 DEF KillPg, TypeOK, Children, Started
<1> QED
  BY <1>1, <1>2

-----------------------------------------------------------------------------
(* Type correctness. *)

LEMMA JobListTyped ==
    ASSUME TypeOK
    PROVE  /\ \A s \in Slots, st \in States : SetState(s, st) =>
                 jobs' \in [Slots -> Jobs] /\ nextjid' \in Nat \ {0}
           /\ \A p \in Pids, st \in States : addjob(p, st) =>
                 jobs' \in [Slots -> Jobs] /\ nextjid' \in Nat \ {0}
           /\ \A p \in Pids : deletejob(p) =>
                 jobs' \in [Slots -> Jobs] /\ nextjid' \in Nat \ {0}
<1>1. ASSUME NEW s \in Slots, NEW st \in States, SetState(s, st)
      PROVE  jobs' \in [Slots -> Jobs] /\ nextjid' \in Nat \ {0}
  BY <1>1 DEF TypeOK, SetState, Jobs
<1>2. ASSUME NEW p \in Pids, NEW st \in States, addjob(p, st)
      PROVE  jobs' \in [Slots -> Jobs] /\ nextjid' \in Nat \ {0}
  <2>1. [pid |-> p, jid |-> nextjid, state |-> st] \in Jobs
    BY DEF TypeOK, Jobs
  <2>2. NextAfter(nextjid) \in Nat \ {0}
    BY DEF TypeOK, NextAfter
  <2> QED
    BY <1>2, <2>1, <2>2, AddsJob DEF TypeOK, tableVars, FreeSlots
<1>3. ASSUME NEW p \in Pids, deletejob(p)
      PROVE  jobs' \in [Slots -> Jobs] /\ nextjid' \in Nat \ {0}
  <2>1. NoJob \in Jobs
    BY DEF NoJob, Jobs, States
  <2>2. jobs' \in [Slots -> Jobs]
    BY <1>3, <2>1, DeletesJob DEF TypeOK, tableVars, SlotsOfPid
  <2>3. maxjid(jobs') + 1 \in Nat \ {0}
    BY <2>2, MaxJid
  <2> QED
    BY <1>3, <2>2, <2>3, DeletesJob DEF TypeOK, tableVars
<1> QED
  BY <1>1, <1>2, <1>3

\* Every step of the shell and of the kernel keeps the types: no lookup leaves the job
\* list, and no job id is negative.
LEMMA TypeStep == TypeOK /\ ListInv /\ [Next]_vars => TypeOK'
<1> SUFFICES ASSUME TypeOK, ListInv, [Next]_vars PROVE TypeOK'
  OBVIOUS
<1>1. CASE UNCHANGED vars
  BY <1>1 DEF TypeOK, vars, tableVars, shellVars
<1>2. ASSUME NEW p \in Pids, SetPgid(p) \/ Exits(p) \/ Stops(p) PROVE TypeOK'
  BY <1>2 DEF TypeOK, SetPgid, Exits, Stops, Becomes, tableVars, shellVars, ChildStates
<1>3. CASE CtrlC \/ CtrlZ
  BY <1>3, KilledChildLives
  DEF TypeOK, CtrlC, CtrlZ, tableVars, shellVars, LiveStates, ChildStates
<1>4. CASE HandlerStarts \/ HasNoChild
  BY <1>4 DEF TypeOK, HandlerStarts, HasNoChild, HandlerReturns, tableVars, shellVars, ShellPCs
<1>5. ASSUME NEW p \in Pids, Reaps(p) PROVE TypeOK'
  BY <1>5, JobListTyped DEF TypeOK, Reaps, HandlerReturns, ShellPCs, ChildStates
<1>6. ASSUME NEW p \in Pids, ReportsStop(p) PROVE TypeOK'
  BY <1>6, JobListTyped, FoundSlots
  DEF TypeOK, ReportsStop, HandlerReturns, tableVars, ShellPCs, ChildStates, States
<1>7. CASE Quit \/ SigQuit \/ BlankLine
  BY <1>7 DEF TypeOK, Quit, SigQuit, BlankLine, Main, tableVars, ShellPCs
<1>8. ASSUME NEW inBg \in BOOLEAN, Launch(inBg) PROVE TypeOK'
  BY <1>8, NextPidIsNew DEF TypeOK, Launch, Main, tableVars, ShellPCs, ChildStates
<1>9. CASE AddFg \/ AddBg
  <2>1. pid \in Pids
    BY <1>9 DEF AddFg, AddBg, Main, ListInv, Children
  <2> QED
    BY <1>9, <2>1, JobListTyped DEF TypeOK, AddFg, AddBg, Main, ShellPCs, States
<1>10. CASE Unblock("bgUnmask", "bgPrint") \/ Unblock("unmask", "prompt") \/ BgPrint \/ Check
  BY <1>10 DEF TypeOK, Unblock, BgPrint, Check, Main, tableVars, ShellPCs
<1>11. ASSUME NEW n \in Numbers, NEW byJid \in BOOLEAN, NEW next \in {"bgState", "fgState"},
              Lookup(n, byJid, next)
       PROVE  TypeOK'
  <2>1. n \in Nat
    <3>1. \A s \in Slots : jobs[s].jid \in Nat /\ jobs[s].pid \in Pids \cup {0}
      BY DEF TypeOK, Jobs
    <3>2. Pids \cup {0} \subseteq Nat
      BY PidsAssumption
    <3>3. \A s \in Slots : jobs[s].jid \in Nat /\ jobs[s].pid \in Nat
      BY <3>1, <3>2
    <3> QED
      BY <3>3 DEF Numbers
  <2>2. tmp' \in Slots
    BY <1>11, FoundSlots DEF Lookup
  <2> QED
    BY <1>11, <2>1, <2>2 DEF TypeOK, Lookup, Main, tableVars, ShellPCs
<1>12. CASE BgCommand \/ FgCommand
  BY <1>12, JobListTyped DEF TypeOK, BgCommand, FgCommand, Main, tableVars, ShellPCs, States
<1>13. CASE FgStopped
  BY <1>13, JobListTyped, KilledChildLives
  DEF TypeOK, FgStopped, Main, ShellPCs, States, LiveStates, ChildStates
<1>14. CASE FgRunning
  BY <1>14, JobListTyped, FoundSlots
  DEF TypeOK, FgRunning, Main, tableVars, ShellPCs, States
<1> QED
  BY <1>1, <1>2, <1>3, <1>4, <1>5, <1>6, <1>7, <1>8, <1>9, <1>10, <1>11, <1>12, <1>13, <1>14
  DEF Next, Command, Work, Handler

-----------------------------------------------------------------------------
(* Steps that leave the list as it is, but for the states of jobs. *)

\* The process ids and job ids in the list, and the children, are what they were.
SameList ==
    /\ \A s \in Slots : jobs'[s].pid = jobs[s].pid /\ jobs'[s].jid = jobs[s].jid
    /\ nextjid' = nextjid
    /\ Children' = Children /\ Started' = Started

\* main is where it was with respect to the fork and addjob, or the shell has ended.
SamePlace ==
    /\ ShellRuns' => ShellRuns /\ (pc' = "added" <=> pc = "added")
    /\ pc' = "added" => pc = "added" /\ pid' = pid /\ blocked' = blocked /\ handling' = handling

LEMMA StartedFinite ==
    IsFiniteSet(Started) /\ Cardinality(Started) \in Nat
BY PidsAssumption, FS_Subset, FS_CardinalityType DEF Started

LEMMA SameListKeepsInv ==
    ASSUME ShellInv, SameList, SamePlace
    PROVE  ListInv' /\ ChildrenAreListed' /\ JidInv'
<1> USE DEF ShellInv, SameList, SamePlace
<1>1. \A p : SlotsOfPid(p)' = SlotsOfPid(p)
  BY DEF SlotsOfPid
<1>2. ListInv'
  BY <1>1 DEF ListInv, JobsAreUnreaped
<1>3. ChildrenAreListed'
  BY <1>1 DEF ChildrenAreListed, ShellRuns
<1>4. JidInv'
  <2>1. CASE Offered' = Offered
    BY <2>1 DEF JidInv, TypeOK
  <2>2. CASE Offered' # Offered
    <3>1. pc = "added" /\ pc' # "added"
      BY <2>2 DEF Offered
    <3>2. Offered = Cardinality(Started) - 1 /\ Offered' = Cardinality(Started)
      BY <3>1 DEF Offered
    <3>3. nextjid \in Nat /\ \A s \in Slots : jobs[s].jid \in Nat
      BY DEF TypeOK, Jobs
    <3> QED
      BY <3>2, <3>3, StartedFinite, MaxJobsAssumption DEF JidInv
  <2> QED
    BY <2>1, <2>2
<1> QED
  BY <1>2, <1>3, <1>4

\* A write of a job's state changes neither its process id nor its job id.
LEMMA StateOnly ==
    ASSUME TypeOK, NEW s \in Slots, NEW st, SetState(s, st)
    PROVE  /\ \A r \in Slots : jobs'[r].pid = jobs[r].pid /\ jobs'[r].jid = jobs[r].jid
           /\ nextjid' = nextjid
BY DEF TypeOK, SetState, Jobs

LEMMA PlainSteps ==
    ASSUME ShellInv,
           \/ \E p \in Pids : SetPgid(p) \/ Exits(p) \/ Stops(p)
           \/ CtrlC \/ CtrlZ \/ HandlerStarts \/ HasNoChild
           \/ Quit \/ SigQuit \/ BlankLine
           \/ Unblock("bgUnmask", "bgPrint") \/ Unblock("unmask", "prompt")
           \/ BgPrint \/ Check \/ BgCommand \/ FgCommand \/ FgStopped \/ FgRunning
           \/ \E p \in Pids : ReportsStop(p)
           \/ \E n, byJid, next : next \in {"bgState", "fgState"} /\ Lookup(n, byJid, next)
    PROVE  ListInv' /\ ChildrenAreListed' /\ JidInv'
<1> USE DEF SameList, SamePlace, ShellRuns, tableVars, shellVars, Main
<1>0. TypeOK /\ (pc = "added" => blocked /\ ~handling)
  BY DEF ShellInv, ListInv
<1>1. CASE \E p \in Pids : SetPgid(p) \/ Exits(p) \/ Stops(p)
  BY <1>0, <1>1, ChildLives, SameListKeepsInv
  DEF SetPgid, Exits, Stops, Becomes, LiveStates, ChildStates
<1>2. CASE CtrlC \/ CtrlZ
  BY <1>0, <1>2, KilledChildLives, SameListKeepsInv DEF CtrlC, CtrlZ, LiveStates, ChildStates
<1>3. CASE HandlerStarts \/ HasNoChild
  BY <1>0, <1>3, SameListKeepsInv DEF HandlerStarts, HasNoChild, Waits, HandlerReturns, Children, Started
<1>4. CASE Quit \/ SigQuit \/ BlankLine
  BY <1>4, SameListKeepsInv DEF Quit, SigQuit, BlankLine, Children, Started
<1>5. CASE Unblock("bgUnmask", "bgPrint") \/ Unblock("unmask", "prompt") \/ BgPrint \/ Check
  BY <1>5, SameListKeepsInv DEF Unblock, BgPrint, Check, Children, Started
<1>6. CASE BgCommand \/ FgCommand
  BY <1>0, <1>6, StateOnly, SameListKeepsInv DEF BgCommand, FgCommand, TypeOK, Children, Started
<1>7. CASE FgStopped
  BY <1>0, <1>7, StateOnly, KilledChildLives, SameListKeepsInv
  DEF FgStopped, TypeOK, LiveStates, ChildStates
<1>8. CASE FgRunning
  BY <1>0, <1>8, StateOnly, FoundSlots, SameListKeepsInv DEF FgRunning, Children, Started
<1>9. CASE \E p \in Pids : ReportsStop(p)
  BY <1>0, <1>9, StateOnly, FoundSlots, ChildLives, SameListKeepsInv
  DEF ReportsStop, Waits, HandlerReturns, LiveStates, ChildStates
<1>10. CASE \E n, byJid, next : next \in {"bgState", "fgState"} /\ Lookup(n, byJid, next)
  BY <1>10, SameListKeepsInv DEF Lookup, Children, Started
<1> QED
  BY <1>1, <1>2, <1>3, <1>4, <1>5, <1>6, <1>7, <1>8, <1>9, <1>10

-----------------------------------------------------------------------------
(* The fork, addjob and deletejob. *)

\* eval forks a child: it is in no slot yet, and the handler cannot run.
LEMMA LaunchStep ==
    ASSUME ShellInv, NEW inBg \in BOOLEAN, Launch(inBg)
    PROVE  ListInv' /\ ChildrenAreListed' /\ JidInv'
<1> USE DEF ShellInv, Launch, Main, tableVars
<1>1. PICK p \in Pids : p = NextPid /\ child[p] = "none" /\ p # 0
  BY NextPidIsNew, PidsAssumption
<1>2. /\ Children' = Children \cup {p} /\ p \notin Children
      /\ Started' = Started \cup {p} /\ p \notin Started
  BY <1>1 DEF TypeOK, Children, Started
<1>3. SlotsOfPid(p) = {} /\ \A q : SlotsOfPid(q)' = SlotsOfPid(q)
  BY <1>1, <1>2 DEF ListInv, JobsAreUnreaped, SlotsOfPid
<1>4. ListInv'
  BY <1>1, <1>2, <1>3 DEF ListInv, JobsAreUnreaped, TypeOK
<1>5. ChildrenAreListed'
  BY <1>1, <1>2, <1>3 DEF ChildrenAreListed, ShellRuns
<1>6. Offered' = Offered /\ Cardinality(Started') = Cardinality(Started) + 1
  <2>1. Cardinality(Started \cup {p}) = Cardinality(Started) + 1
    BY <1>2, StartedFinite, FS_AddElement
  <2>2. Cardinality(Started') = Cardinality(Started) + 1
    BY <1>2, <2>1
  <2> QED
    BY <2>2, StartedFinite DEF Offered
<1>7. JidInv'
  BY <1>6, StartedFinite, MaxJobsAssumption DEF JidInv, TypeOK
<1> QED
  BY <1>4, <1>5, <1>7

\* When every child but p may have a slot and no more children exist than slots, one slot
\* is free: two slots would have to hold the same child.
LEMMA RoomForOne ==
    ASSUME ShellInv, NEW p \in Pids, SlotsOfPid(p) = {},
           NEW S \in SUBSET Pids, p \in S, Children \subseteq S, Cardinality(S) <= MAXJOBS
    PROVE  FreeSlots # {}
<1> SUFFICES ASSUME FreeSlots = {} PROVE FALSE
  OBVIOUS
<1> DEFINE f == [s \in Slots |-> jobs[s].pid]
<1>1. \A s \in Slots : jobs[s].pid # 0 /\ jobs[s].pid \in Children /\ jobs[s].pid # p
  BY PidsAssumption DEF FreeSlots, ShellInv, ListInv, JobsAreUnreaped, SlotsOfPid
<1>2. f \in [Slots -> S \ {p}]
  BY <1>1
<1>3. IsFiniteSet(S) /\ IsFiniteSet(S \ {p}) /\ Cardinality(S \ {p}) = Cardinality(S) - 1
      /\ Cardinality(S) \in Nat
  BY PidsAssumption, FS_Subset, FS_RemoveElement, FS_CardinalityType
<1>4. Cardinality(S \ {p}) < Cardinality(Slots)
  BY <1>3, SlotsAreNaturals, MaxJobsAssumption
<1>5. \E x, y \in Slots : x # y /\ f[x] = f[y]
  <2> DEFINE T == S \ {p}
  <2>1. IsFiniteSet(T) /\ Cardinality(T) < Cardinality(Slots) /\ f \in [Slots -> T]
    BY <1>2, <1>3, <1>4
  <2>2. IsFiniteSet(Slots)
    BY SlotsAreNaturals
  <2> HIDE DEF f, T
  <2> QED BY <2>1, <2>2, FS_PigeonHole
<1> QED
  BY <1>1, <1>5 DEF ShellInv, ListInv

\* eval adds the child it has forked.
LEMMA AddStep ==
    ASSUME ShellInv, AddFg \/ AddBg
    PROVE  ListInv' /\ ChildrenAreListed' /\ JidInv'
<1> USE DEF ShellInv
<1>1. /\ pc = "added" /\ pc' \in {"check", "bgUnmask"}
      /\ \E st \in States : addjob(pid, st)
      /\ UNCHANGED <<child>>
  BY DEF AddFg, AddBg, Main, States
<1>2. PICK p \in Pids : p = pid /\ p \in Children /\ SlotsOfPid(p) = {}
  BY <1>1 DEF ListInv, Children
<1>3. PICK st \in States : addjob(p, st)
  BY <1>1, <1>2
<1>4. Children' = Children /\ Started' = Started /\ Children \subseteq Started
  BY <1>1 DEF Children, Started
<1>5. Offered = Cardinality(Started) - 1 /\ Offered' = Cardinality(Started)
  BY <1>1, <1>4 DEF Offered
<1>6. CASE FreeSlots = {} /\ UNCHANGED tableVars
  <2>1. \A q : SlotsOfPid(q)' = SlotsOfPid(q)
    BY <1>6 DEF SlotsOfPid, tableVars
  <2>2. ListInv'
    BY <1>1, <1>4, <1>6 DEF ListInv, JobsAreUnreaped, tableVars
  <2>3. ~(Cardinality(Pids) <= MAXJOBS)
    BY <1>2, <1>6, RoomForOne DEF Children
  <2>4. ~(Cardinality(Started) <= MAXJOBS)
    BY <1>2, <1>4, <1>6, RoomForOne DEF Started
  <2> QED
    BY <1>4, <2>2, <2>3, <2>4 DEF ChildrenAreListed, JidInv
<1>7. ASSUME NEW x \in FreeSlots,
             jobs' = [jobs EXCEPT ![x] = [pid |-> p, jid |-> nextjid, state |-> st]],
             nextjid' = NextAfter(nextjid)
      PROVE  ListInv' /\ ChildrenAreListed' /\ JidInv'
  <2>0. x \in Slots /\ jobs[x].pid = 0 /\ p # 0 /\ nextjid \in Nat \ {0}
    BY PidsAssumption DEF FreeSlots, TypeOK
  <2>1. /\ jobs'[x].pid = p /\ jobs'[x].jid = nextjid
        /\ \A s \in Slots \ {x} : jobs'[s] = jobs[s]
    BY <1>7, <2>0 DEF TypeOK
  <2>2. ListInv'
    <3>1. \A s \in Slots : jobs[s].pid # p
      BY <1>2, <2>0, PidsAssumption DEF SlotsOfPid
    <3>2. \A s \in Slots : jobs'[s].pid = 0 <=> jobs'[s].jid = 0
      BY <2>0, <2>1 DEF ListInv
    <3>3. \A r, s \in Slots : jobs'[r].pid = jobs'[s].pid /\ jobs'[r].pid # 0 => r = s
      BY <2>1, <3>1 DEF ListInv
    <3>4. JobsAreUnreaped'
      BY <1>2, <1>4, <2>1 DEF ListInv, JobsAreUnreaped
    <3> QED
      BY <1>1, <3>2, <3>3, <3>4 DEF ListInv
  <2>3. \A q \in Pids : SlotsOfPid(q) \subseteq SlotsOfPid(q)'
    BY <2>0, <2>1, PidsAssumption DEF SlotsOfPid
  <2>4. SlotsOfPid(p)' # {}
    BY <2>0, <2>1, PidsAssumption DEF SlotsOfPid
  <2>5. ChildrenAreListed'
    BY <1>1, <1>2, <1>4, <2>3, <2>4 DEF ChildrenAreListed, ShellRuns, Children
  <2>6. JidInv'
    <3>1. SUFFICES ASSUME Cardinality(Started) <= MAXJOBS PROVE JidInv'
      BY <1>4 DEF JidInv
    <3>2. Cardinality(Started) \in Nat
      BY StartedFinite
    <3>3. /\ \A r, s \in Slots : jobs[r].jid = jobs[s].jid /\ jobs[r].jid # 0 => r = s
          /\ \A s \in Slots : jobs[s].jid <= Offered /\ jobs[s].jid < nextjid
          /\ nextjid <= Offered'
      BY <1>5, <3>1, <3>2, MaxJobsAssumption DEF JidInv
    <3>4. \A r, s \in Slots : jobs'[r].jid = jobs'[s].jid /\ jobs'[r].jid # 0 => r = s
      BY <2>0, <2>1, <3>3 DEF TypeOK, Jobs
    <3>5. \A s \in Slots : jobs[s].jid \in Nat
      BY DEF TypeOK, Jobs
    <3>6. \A s \in Slots : jobs'[s].jid <= Offered'
      BY <1>5, <2>0, <2>1, <3>2, <3>3, <3>5
    <3>7. nextjid' <= Offered' + 1
      BY <1>5, <1>7, <2>0, <3>2, <3>3 DEF NextAfter
    <3>8. (\A s \in Slots : jobs'[s].jid < nextjid') \/ Offered' = MAXJOBS
      BY <1>5, <1>7, <2>0, <2>1, <3>1, <3>2, <3>3, <3>5, MaxJobsAssumption DEF NextAfter
    <3> QED
      BY <3>4, <3>6, <3>7, <3>8 DEF JidInv
  <2> QED
    BY <2>2, <2>5, <2>6
<1> QED
  BY <1>3, <1>6, <1>7, AddsJob

\* The handler deletes the job of a child it has reaped: the child had one slot, so none
\* is left, and the next job id follows the largest that is left.
LEMMA ReapStep ==
    ASSUME ShellInv, NEW p \in Pids, Reaps(p)
    PROVE  ListInv' /\ ChildrenAreListed' /\ JidInv'
<1> USE DEF ShellInv
<1>1. /\ pc # "added" /\ pc' # "added" /\ ShellRuns /\ p # 0
      /\ deletejob(p) /\ child[p] = "zombie" /\ child' = [child EXCEPT ![p] = "gone"]
  BY PidsAssumption DEF Reaps, Waits, HandlerReturns, ListInv
<1>2. Children' = Children \ {p} /\ Started' = Started /\ Offered' = Offered
  BY <1>1 DEF TypeOK, Children, Started, Offered
<1>3. CASE SlotsOfPid(p) = {} /\ UNCHANGED tableVars
  <2>1. \A q : SlotsOfPid(q)' = SlotsOfPid(q)
    BY <1>3 DEF SlotsOfPid, tableVars
  <2>2. \A s \in Slots : jobs[s].pid # p
    BY <1>3, PidsAssumption DEF SlotsOfPid
  <2> QED
    BY <1>1, <1>2, <1>3, <2>1, <2>2
    DEF ListInv, JobsAreUnreaped, ChildrenAreListed, JidInv, ShellRuns, tableVars
<1>4. ASSUME NEW x \in SlotsOfPid(p),
             jobs' = [jobs EXCEPT ![x] = NoJob], nextjid' = maxjid(jobs') + 1
      PROVE  ListInv' /\ ChildrenAreListed' /\ JidInv'
  <2>0. x \in Slots /\ jobs[x].pid = p
    BY DEF SlotsOfPid
  <2>1. /\ jobs'[x].pid = 0 /\ jobs'[x].jid = 0
        /\ \A s \in Slots \ {x} : jobs'[s] = jobs[s]
    BY <1>4, <2>0 DEF TypeOK, NoJob
  <2>2. \A s \in Slots \ {x} : jobs[s].pid # p
    BY <1>1, <2>0 DEF ListInv
  <2>3. ListInv'
    BY <1>1, <1>2, <2>0, <2>1, <2>2 DEF ListInv, JobsAreUnreaped
  <2>4. \A q \in Pids \ {p} : SlotsOfPid(q)' = SlotsOfPid(q)
    BY <2>0, <2>1, PidsAssumption DEF SlotsOfPid
  <2>5. ChildrenAreListed'
    BY <1>1, <1>2, <2>4 DEF ChildrenAreListed, ShellRuns, Children
  <2>6. JidInv'
    <3>1. SUFFICES ASSUME Cardinality(Started) <= MAXJOBS PROVE JidInv'
      BY <1>2 DEF JidInv
    <3>2. Offered \in Nat
      BY <1>1, StartedFinite DEF Offered
    <3>3. /\ \A r, s \in Slots : jobs[r].jid = jobs[s].jid /\ jobs[r].jid # 0 => r = s
          /\ \A s \in Slots : jobs[s].jid <= Offered
      BY <3>1 DEF JidInv
    <3>4. /\ \A r, s \in Slots : jobs'[r].jid = jobs'[s].jid /\ jobs'[r].jid # 0 => r = s
          /\ \A s \in Slots : jobs'[s].jid <= Offered
      BY <2>0, <2>1, <3>2, <3>3
    <3>5. jobs' \in [Slots -> Jobs]
      BY <1>1, JobListTyped
    <3>6. PICK m \in Nat :
            /\ nextjid' = m + 1
            /\ \A s \in Slots : jobs'[s].jid <= m
            /\ m = 0 \/ \E s \in Slots : jobs'[s].jid = m
      BY <1>4, <3>5, MaxJid
    <3>7. nextjid' <= Offered + 1
      BY <3>2, <3>4, <3>6
    <3>8. \A s \in Slots : jobs'[s].jid < nextjid'
      <4>1. \A s \in Slots : jobs'[s].jid \in Nat
        BY <3>5 DEF Jobs
      <4> QED
        BY <3>6, <4>1
    <3> QED
      BY <1>2, <3>4, <3>7, <3>8 DEF JidInv
  <2> QED
    BY <2>3, <2>5, <2>6
<1> QED
  BY <1>1, <1>3, <1>4, DeletesJob

-----------------------------------------------------------------------------
(* The theorems. *)

LEMMA ShellStep == ShellInv /\ [Next]_vars => ShellInv'
<1> SUFFICES ASSUME ShellInv, [Next]_vars PROVE ShellInv'
  OBVIOUS
<1>1. TypeOK'
  BY TypeStep DEF ShellInv
<1>2. CASE UNCHANGED vars
  BY <1>1, <1>2 DEF ShellInv, ListInv, JobsAreUnreaped, ChildrenAreListed, JidInv,
     SlotsOfPid, Children, Started, Offered, ShellRuns, vars, tableVars, shellVars
<1>3. CASE Next
  BY <1>1, <1>3, PlainSteps, LaunchStep, AddStep, ReapStep
  DEF ShellInv, Next, Command, Work, Handler
<1> QED
  BY <1>2, <1>3

\* The inductive invariant of the shell: types, job list, children and job ids.
THEOREM ShellCorrect == Spec => []ShellInv
<1>1. Init => ShellInv
  <2> SUFFICES ASSUME Init PROVE ShellInv
    OBVIOUS
  <2>1. TypeOK
    <3>1. NoJob \in Jobs
      BY DEF NoJob, Jobs, States
    <3>2. jobs \in [Slots -> Jobs] /\ nextjid \in Nat \ {0}
      BY <3>1 DEF Init, TableInit
    <3> QED
      BY <3>2, SlotsAreNaturals DEF Init, TypeOK, ShellPCs, ChildStates
  <2>2. Started = {} /\ Children = {} /\ Cardinality(Started) = 0
    BY FS_EmptySet DEF Init, Started, Children
  <2> QED
    BY <2>1, <2>2, MaxJobsAssumption
    DEF Init, TableInit, NoJob, ShellInv, ListInv, JobsAreUnreaped, ChildrenAreListed, JidInv, Offered
<1> QED
  BY <1>1, ShellStep, PTL DEF Spec

\* The handler never deletes a job before eval has added it: what is in the list is a
\* child that waitpid has not yet taken away.
THEOREM ListedChildrenLive == Spec => []JobsAreUnreaped
<1>1. ShellInv => JobsAreUnreaped
  BY DEF ShellInv, ListInv
<1> QED
  BY <1>1, ShellCorrect, PTL

\* While there are at most as many children as slots, every child that was forked and not
\* reaped is in the list, but for the one that is about to be added.
THEOREM NoChildForgotten == Spec => []ChildrenAreListed
<1>1. ShellInv => ChildrenAreListed
  BY DEF ShellInv
<1> QED
  BY <1>1, ShellCorrect, PTL

\* A job id names one job, as long as no more jobs were started than there are slots.
THEOREM JobIdsUnique == Spec => []JidsUnique
<1>1. ShellInv => JidsUnique
  BY DEF ShellInv, ListInv, JidInv, JidsUnique, FreeSlots, Started
<1> QED
  BY <1>1, ShellCorrect, PTL

-----------------------------------------------------------------------------
(* Foreground jobs, while nothing runs in the background and nothing stops. *)

OnlyForeground == ~bg /\ pc # "fgState" /\ \A p \in Pids : child[p] # "stopped"

\* There is one child at most, the one eval waits for: none is left once pid is set, and
\* none at the prompt.  (So bg, too, finds no job.)
WaitInv ==
    /\ pc \notin {"bgUnmask", "bgPrint", "bgState", "fgStopped", "fgRunning"}
    /\ \A p, q \in Children : p = q
    /\ pc \in {"prompt", "unmask"} => Children = {}
    /\ pc \in {"check", "suspend"} /\ pid # 0 => Children = {}
    /\ \A s \in Slots : jobs[s].state = "FG" => jobs[s].pid # 0

LEMMA WaitStep ==
    ASSUME ShellInv, OnlyForeground, OnlyForeground', WaitInv, [Next]_vars
    PROVE  WaitInv'
<1> USE DEF ShellInv, WaitInv, tableVars, shellVars, Main, ShellRuns
<1>0. TypeOK /\ (pc = "added" => ~handling /\ pid \in Children)
  BY DEF ListInv
<1>1. CASE UNCHANGED vars
  BY <1>1 DEF Children, vars
<1>2. ASSUME NEW p \in Pids, SetPgid(p) \/ Exits(p) \/ Stops(p) PROVE WaitInv'
  BY <1>0, <1>2, ChildLives
  DEF SetPgid, Exits, Stops, Becomes, LiveStates, ChildStates
<1>3. CASE CtrlC \/ CtrlZ
  BY <1>0, <1>3, KilledChildLives DEF CtrlC, CtrlZ, LiveStates, ChildStates
<1>4. CASE HandlerStarts \/ HasNoChild
  BY <1>0, <1>4 DEF HandlerStarts, HasNoChild, Waits, HandlerReturns, Children
<1>5. ASSUME NEW p \in Pids, Reaps(p) PROVE WaitInv'
  <2>1. p \in Children /\ Children' = Children \ {p}
    BY <1>0, <1>5 DEF Reaps, TypeOK, Children
  <2>2. Children' = {}
    BY <2>1
  <2>3. \A s \in Slots : jobs'[s].state = "FG" => jobs'[s].pid # 0
    BY <1>0, <1>5, DeletesJob DEF Reaps, NoJob, TypeOK
  <2> QED
    BY <1>0, <1>5, <2>2, <2>3 DEF Reaps, Waits, HandlerReturns
<1>6. ASSUME NEW p \in Pids, ReportsStop(p) PROVE WaitInv'
  BY <1>6 DEF ReportsStop, OnlyForeground
<1>7. CASE Quit \/ SigQuit \/ BlankLine
  BY <1>7 DEF Quit, SigQuit, BlankLine, Children
<1>8. ASSUME NEW inBg \in BOOLEAN, Launch(inBg) PROVE WaitInv'
  BY <1>0, <1>8, NextPidIsNew DEF Launch, TypeOK, Children
<1>9. CASE AddFg
  <2>1. pid \in Pids /\ pid # 0
    BY <1>0, <1>9, PidsAssumption DEF AddFg, Children
  <2>2. \A s \in Slots : jobs'[s].state = "FG" => jobs'[s].pid # 0
    BY <1>0, <1>9, <2>1, AddsJob DEF AddFg, TypeOK
  <2> QED
    BY <1>9, <2>2 DEF AddFg, Children
<1>10. CASE AddBg
  BY <1>10 DEF AddBg, OnlyForeground
<1>11. CASE Unblock("bgUnmask", "bgPrint") \/ Unblock("unmask", "prompt") \/ BgPrint \/ Check
  BY <1>11 DEF Unblock, BgPrint, Check, Children
<1>12. ASSUME NEW n \in Numbers, NEW byJid \in BOOLEAN, NEW next \in {"bgState", "fgState"},
              Lookup(n, byJid, next)
       PROVE  WaitInv'
  <2>1. \A s \in Slots : jobs[s].pid = 0 /\ jobs[s].jid = 0
    BY <1>12 DEF Lookup, ListInv, JobsAreUnreaped
  <2>2. n = 0
    BY <2>1 DEF Numbers
  <2> QED
    BY <1>12, <2>2 DEF Lookup, SlotsOfPid, SlotsOfJid
<1>13. CASE BgCommand \/ FgCommand \/ FgStopped \/ FgRunning
  BY <1>13 DEF BgCommand, FgCommand, FgStopped, FgRunning, OnlyForeground
<1> QED
  BY <1>1, <1>2, <1>3, <1>4, <1>5, <1>6, <1>7, <1>8, <1>9, <1>10, <1>11, <1>12, <1>13
  DEF Next, Command, Work, Handler

\* While only foreground jobs run and none stops, the prompt comes back only when no job
\* is in the foreground.
THEOREM ForegroundIsAwaited == Spec => EvalWaitsForItsJob
<1>1. Init => WaitInv
  BY DEF Init, TableInit, NoJob, WaitInv, Children
<1>2. ShellInv /\ OnlyForeground /\ OnlyForeground' /\ WaitInv /\ [Next]_vars => WaitInv'
  BY WaitStep
<1>3. ShellInv /\ WaitInv => (pc = "prompt" => FgSlots = {})
  BY DEF ShellInv, ListInv, JobsAreUnreaped, WaitInv, FgSlots
<1>4. Spec /\ []OnlyForeground => [](pc = "prompt" => FgSlots = {})
  BY <1>1, <1>2, <1>3, ShellCorrect, PTL DEF Spec
<1> QED
  BY <1>4, PTL DEF EvalWaitsForItsJob, OnlyForeground
=============================================================================
