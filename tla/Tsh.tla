--------------------------------- MODULE Tsh --------------------------------
(***************************************************************************)
(* The job-control shell, src/lab5_shelllab/tsh.c: the read/eval loop, the *)
(* builtins, the signal handlers and the job list, together with what the  *)
(* kernel does to the shell and its children.                              *)
(*                                                                         *)
(* The shell is one thread.  A step of its main loop runs up to the next   *)
(* point where a handler may interrupt it with an effect: a change of the  *)
(* signal mask, or a use of the job list while SIGCHLD is not blocked.     *)
(* SIGINT and SIGTSTP handlers run in one step: between fgpid() and        *)
(* killpg() nothing can happen that changes what killpg does.  The mask    *)
(* that eval and do_bgfg block is not initialised (no sigemptyset): it may *)
(* hold SIGINT and SIGTSTP as well, which only makes ctrl-c and ctrl-z     *)
(* take effect later, as if they had been typed later.                     *)
(***************************************************************************)
EXTENDS JobTable

VARIABLES
    \* the shell
    pc,         \* where main is
    pid,        \* the global variable pid
    bg,         \* the command ends in '&'
    tmp,        \* tempjob of do_bgfg, a slot
    id,         \* id of do_bgfg, what follows bg or fg
    blocked,    \* SIGCHLD is blocked
    handling,   \* sigchld_handler has been entered
    \* the kernel
    pending,    \* SIGCHLD is pending for the shell
    child       \* every process: "none" (not forked), "new" (forked, still in the shell's
                \* process group), "running", "stopped" (waitpid has not reported it yet),
                \* "reported" (it has), "zombie" or "gone" (reaped)

shellVars == <<pc, pid, bg, tmp, id>>
vars == <<tableVars, shellVars, blocked, handling, pending, child>>

Init ==
    /\ TableInit
    /\ pc = "prompt" /\ pid = 0 /\ bg = FALSE /\ tmp = 0 /\ id = 0
    /\ blocked = FALSE /\ handling = FALSE /\ pending = FALSE
    /\ child = [p \in Pids |-> "none"]

-----------------------------------------------------------------------------
(* The kernel and the children. *)

ShellRuns == pc \notin {"exit", "crashed"}

\* A child changes its state and the shell is sent SIGCHLD; one pending SIGCHLD
\* stands for any number of them.
Becomes(p, st) == child' = [child EXCEPT ![p] = st] /\ pending' = TRUE

\* The child runs setpgid(0,0) and execve.
SetPgid(p) ==
    /\ child[p] = "new"
    /\ child' = [child EXCEPT ![p] = "running"]
    /\ UNCHANGED <<tableVars, shellVars, blocked, handling, pending>>

\* The child ends, by itself (the test program myspin, after its sleep) or killed from
\* outside.
Exits(p) ==
    /\ ShellRuns /\ child[p] \in {"new", "running", "stopped", "reported"}
    /\ Becomes(p, "zombie")
    /\ UNCHANGED <<tableVars, shellVars, blocked, handling>>

\* It stops, by itself (mystop sends SIGTSTP to its own group) or by someone else than
\* the shell.
Stops(p) ==
    /\ ShellRuns /\ child[p] = "running"
    /\ Becomes(p, "stopped")
    /\ UNCHANGED <<tableVars, shellVars, blocked, handling>>

\* killpg reaches the process group that a child has made for itself.  SIGINT and
\* SIGTSTP act on a running child; to a stopped one SIGTSTP is nothing, and SIGINT
\* waits until it is continued (it may then end, like any running child).
KillPg(p, from, to) ==
    IF p \in Pids /\ child[p] \in from THEN Becomes(p, to) ELSE UNCHANGED <<child, pending>>

\* The user types ctrl-c: sigint_handler passes it to the foreground job.
CtrlC ==
    /\ ShellRuns /\ fgpid # 0
    /\ KillPg(fgpid, {"running"}, "zombie")
    /\ UNCHANGED <<tableVars, shellVars, blocked, handling>>

\* The user types ctrl-z: sigtstp_handler passes it to the foreground job.
CtrlZ ==
    /\ ShellRuns /\ fgpid # 0
    /\ KillPg(fgpid, {"running"}, "stopped")
    /\ UNCHANGED <<tableVars, shellVars, blocked, handling>>

-----------------------------------------------------------------------------
(* sigchld_handler.  SIGCHLD is blocked while it runs, and main does not move. *)

HandlerStarts ==
    /\ ShellRuns /\ pending /\ ~blocked /\ ~handling
    /\ pending' = FALSE /\ handling' = TRUE
    /\ UNCHANGED <<tableVars, shellVars, blocked, child>>

\* The handler is in its call of waitpid.
Waits == handling /\ ShellRuns

Waitable == {p \in Pids : child[p] \in {"zombie", "stopped"}}
Children == {p \in Pids : child[p] \notin {"none", "gone"}}

\* The handler returns; sigsuspend then puts the old mask back and returns too.
HandlerReturns ==
    /\ handling' = FALSE
    /\ IF pc = "suspend" THEN pc' = "check" /\ blocked' = TRUE ELSE UNCHANGED <<pc, blocked>>

\* VARIANT of Reaps: a stopped child loses its job like one that ended.
ReapsAll(p) ==
    /\ Waits /\ p \in Waitable
    /\ pid' = p
    /\ deletejob(p)
    /\ child' = [child EXCEPT ![p] = IF child[p] = "zombie" THEN "gone" ELSE "reported"]
    /\ HandlerReturns
    /\ UNCHANGED <<bg, tmp, id, pending>>

\* One call waitpid(-1,&status,WUNTRACED) reports a child that ended: its job is
\* deleted, if it has one.
Reaps(p) ==
    /\ Waits /\ child[p] = "zombie"
    /\ pid' = p
    /\ deletejob(p)
    /\ child' = [child EXCEPT ![p] = "gone"]
    /\ HandlerReturns
    /\ UNCHANGED <<bg, tmp, id, pending>>

\* It reports a child that stopped: the state of its job is set through the pointer
\* that getjobpid returns, which is NULL for a child that has no job.
ReportsStop(p) ==
    /\ Waits /\ child[p] = "stopped"
    /\ pid' = p
    /\ child' = [child EXCEPT ![p] = "reported"]
    /\ IF SlotsOfPid(p) = {}
       THEN pc' = "crashed" /\ UNCHANGED <<tableVars, handling, blocked>>
       ELSE SetState(First(SlotsOfPid(p)), "ST") /\ HandlerReturns
    /\ UNCHANGED <<bg, tmp, id, pending>>

\* Without children waitpid returns -1, and pid becomes -1.  (With children none of
\* which has anything to report, waitpid waits: there is no step.)
HasNoChild ==
    /\ Waits /\ Children = {}
    /\ pid' = -1
    /\ HandlerReturns
    /\ UNCHANGED <<tableVars, bg, tmp, id, pending, child>>

Handler == HandlerStarts \/ HasNoChild \/ \E p \in Pids : Reaps(p) \/ ReportsStop(p)

-----------------------------------------------------------------------------
(* main and eval. *)

Main(a, z) == ~handling /\ pc = a /\ pc' = z

\* quit, the end of the input, or a fork that fails.
Quit ==
    /\ Main("prompt", "exit")
    /\ UNCHANGED <<tableVars, pid, bg, tmp, id, blocked, handling, pending, child>>

\* SIGQUIT ends the shell wherever it is.
SigQuit ==
    /\ ShellRuns
    /\ pc' = "exit"
    /\ UNCHANGED <<tableVars, pid, bg, tmp, id, blocked, handling, pending, child>>

\* A blank line: parseline leaves argv[0] NULL and builtin_cmd hands it to strcmp.
BlankLine ==
    /\ Main("prompt", "crashed")
    /\ UNCHANGED <<tableVars, pid, bg, tmp, id, blocked, handling, pending, child>>

NextPid == First({p \in Pids : child[p] = "none"})

\* VARIANT of Launch: SIGCHLD is not blocked before the fork.
LaunchUnblocked(inBg) ==
    /\ \E p \in Pids : child[p] = "none"
    /\ Main("prompt", "added")
    /\ bg' = inBg
    /\ pid' = NextPid
    /\ child' = [child EXCEPT ![NextPid] = "new"]
    /\ UNCHANGED <<tableVars, tmp, id, blocked, handling, pending>>

\* A command that is not built in: block SIGCHLD, fork.
Launch(inBg) ==
    /\ \E p \in Pids : child[p] = "none"
    /\ Main("prompt", "added")
    /\ blocked' = TRUE
    /\ bg' = inBg
    /\ pid' = NextPid
    /\ child' = [child EXCEPT ![NextPid] = "new"]
    /\ UNCHANGED <<tableVars, tmp, id, handling, pending>>

\* VARIANT of AddFg: pid is not cleared.
AddFgKeepsPid ==
    /\ ~bg
    /\ Main("added", "check")
    /\ addjob(pid, "FG")
    /\ UNCHANGED <<pid, bg, tmp, id, blocked, handling, pending, child>>

\* eval, foreground: addjob; pid = 0; the wait starts.
AddFg ==
    /\ ~bg
    /\ Main("added", "check")
    /\ addjob(pid, "FG")
    /\ pid' = 0
    /\ UNCHANGED <<bg, tmp, id, blocked, handling, pending, child>>

\* eval, background: addjob.
AddBg ==
    /\ bg
    /\ Main("added", "bgUnmask")
    /\ addjob(pid, "BG")
    /\ UNCHANGED <<pid, bg, tmp, id, blocked, handling, pending, child>>

Unblock(a, z) ==
    /\ Main(a, z)
    /\ blocked' = FALSE
    /\ UNCHANGED <<tableVars, pid, bg, tmp, id, handling, pending, child>>

\* eval, background: the job is looked up again, by whatever pid is by now, and
\* printed; getjobpid returns NULL when it is not in the list.
BgPrint ==
    /\ Main("bgPrint", IF SlotsOfPid(pid) = {} THEN "crashed" ELSE "unmask")
    /\ UNCHANGED <<tableVars, pid, bg, tmp, id, blocked, handling, pending, child>>

\* while(!pid) sigsuspend(&prev);
Check ==
    /\ Main("check", IF pid = 0 THEN "suspend" ELSE "unmask")
    /\ blocked' = (pid # 0)
    /\ UNCHANGED <<tableVars, pid, bg, tmp, id, handling, pending, child>>

-----------------------------------------------------------------------------
(* do_bgfg. *)

\* bg or fg with the number n, of a job (byJid) or of a process: the slot found, or
\* a message and back to the prompt.
Lookup(n, byJid, next) ==
    LET found == IF byJid THEN SlotsOfJid(n) ELSE SlotsOfPid(n)
    IN  /\ found # {}
        /\ Main("prompt", next)
        /\ tmp' = First(found)
        /\ id' = n
        /\ UNCHANGED <<tableVars, pid, bg, blocked, handling, pending, child>>

\* bg: tempjob->state = BG.  killpg(-pid,SIGCONT) fails with EINVAL for every pid
\* but 0, and the shell's own group has no stopped process: nothing is continued.
BgCommand ==
    /\ Main("bgState", "prompt")
    /\ SetState(tmp, "BG")
    /\ UNCHANGED <<pid, bg, tmp, id, blocked, handling, pending, child>>

\* fg: the state decides; a job in the foreground or a cleared slot is left alone.
FgCommand ==
    LET st == jobs[tmp].state
    IN  /\ Main("fgState", CASE st = "ST" -> "fgStopped" [] st = "BG" -> "fgRunning"
                             [] OTHER -> "prompt")
        /\ UNCHANGED <<tableVars, pid, bg, tmp, id, blocked, handling, pending, child>>

\* fg of a job that was stopped: block SIGCHLD; state = FG; killpg(pid,SIGCONT);
\* pid = 0; the wait starts.  The slot is not looked at again.
FgStopped ==
    /\ Main("fgStopped", "check")
    /\ blocked' = TRUE
    /\ SetState(tmp, "FG")
    /\ KillPg(jobs[tmp].pid, {"stopped", "reported"}, "running")
    /\ pid' = 0
    /\ UNCHANGED <<bg, tmp, id, handling>>

\* fg of a job that was running: block SIGCHLD; it is looked up again, always by
\* job id.
FgRunning ==
    LET found == SlotsOfJid(id)
    IN  /\ blocked' = TRUE
        /\ IF found = {}
           THEN Main("fgRunning", "unmask") /\ UNCHANGED <<tableVars, pid, tmp>>
           ELSE /\ Main("fgRunning", "check")
                /\ tmp' = First(found)
                /\ SetState(First(found), "FG")
                /\ pid' = 0
        /\ UNCHANGED <<bg, id, handling, pending, child>>

-----------------------------------------------------------------------------
\* The steps main takes by itself, once it has a command.
Work == \/ AddFg \/ AddBg \/ Unblock("bgUnmask", "bgPrint") \/ BgPrint
        \/ Check \/ Unblock("unmask", "prompt")
        \/ BgCommand \/ FgCommand \/ FgStopped \/ FgRunning

Numbers == {jobs[s].jid : s \in Slots} \cup {jobs[s].pid : s \in Slots}

Command == \/ Quit \/ BlankLine
           \/ \E inBg \in BOOLEAN : Launch(inBg)
           \/ \E n \in Numbers, byJid \in BOOLEAN, next \in {"bgState", "fgState"} :
                 Lookup(n, byJid, next)

Next == \/ Command \/ Work \/ Handler \/ CtrlC \/ CtrlZ \/ SigQuit
        \/ \E p \in Pids : SetPgid(p) \/ Exits(p) \/ Stops(p)

Spec == Init /\ [][Next]_vars

\* main goes on, a handler that can go on does, and a child gets to its execve.
\* Nobody has to type, and a child need not end.
FairSpec == Spec /\ WF_vars(Work) /\ WF_vars(Handler) /\ \A p \in Pids : WF_vars(SetPgid(p))

-----------------------------------------------------------------------------
(* Properties that hold. *)

\* A job in the list is a child that has not been reaped: the handler never deletes a
\* job before eval has added it (eval blocks SIGCHLD from before the fork).
JobsAreUnreaped ==
    \A s \in Slots : jobs[s].pid # 0 => jobs[s].pid \in Children

\* While the list has room for every child, every unreaped child is in it, but for
\* the one eval has just forked and not yet added: no child is forgotten.
ChildrenAreListed ==
    ShellRuns /\ Cardinality(Pids) <= MAXJOBS =>
        \A p \in Children : SlotsOfPid(p) # {} \/ (pc = "added" /\ p = pid)

\* "getjobjid - Find a job (by JID) on the job list": %jid names one job, as long as no
\* more than MAXJOBS were started.  (nextjid wraps, and is set back by deletejob.)
JidsUnique ==
    Cardinality({p \in Pids : child[p] # "none"}) <= MAXJOBS =>
        \A r, s \in Slots \ FreeSlots : jobs[r].jid = jobs[s].jid => r = s

\* While all jobs run in the foreground and none stops, the prompt comes back only when
\* no job is in the foreground: eval waits for its own child.
EvalWaitsForItsJob ==
    [](~bg /\ pc # "fgState" /\ \A p \in Pids : child[p] # "stopped")
        => [](pc = "prompt" => FgSlots = {})

\* When fg is not used, a foreground wait ends once every child has
\* ended, however exits, stops and signals interleave with it: no wakeup is lost
\* between the fork, the SIGCHLD and sigsuspend.
AllEnded == \A p \in Pids : child[p] \in {"none", "zombie", "gone"}
EvalReturns == [](pc # "fgState") => ((pc = "suspend" /\ AllEnded) ~> pc # "suspend")

-----------------------------------------------------------------------------
(* What a comment states and the code violates. *)

\* eval: "If the job is running in the foreground, wait for it to terminate and then
\* return": when the prompt is back, no job is in the foreground.
EvalWaits == pc = "prompt" => FgSlots = {}
=============================================================================
