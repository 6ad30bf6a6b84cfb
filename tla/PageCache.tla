----------------------------- MODULE PageCache ------------------------------
(***************************************************************************)
(* What the proxy's cache promises to the clients of one proxy process,    *)
(* without locks, counters or scans: src/lab7_proxy/proxy.c, doit().       *)
(*                                                                         *)
(* A client asks for a URI and is answered once.  The answer is either the *)
(* origin's, or the page that a slot held under that very URI at the       *)
(* moment of the lookup.  A lookup may miss although the URI is present    *)
(* (the scan is not atomic); it never hits anything else.  A page enters a *)
(* slot in two moments: the old page goes, the new one comes.              *)
(***************************************************************************)
CONSTANTS
    Clients, Urls, Slots,
    NoUrl,      \* not in Urls
    NoSlot      \* not in Slots

Pages  == [url : Urls \cup {NoUrl}, prefixed : BOOLEAN]
NoPage == [url |-> NoUrl, prefixed |-> FALSE]

VARIABLES
    alive,      \* the process runs
    slot,       \* the page a slot offers, NoPage when it offers none
    phase,      \* how far the client's request is
    want,       \* the URI the client asked for
    found,      \* the page the lookup hit
    target,     \* the slot a page is being stored in, else NoSlot
    got         \* what the client was sent

vars == <<alive, slot, phase, want, found, target, got>>

Init ==
    /\ alive = TRUE
    /\ slot = [s \in Slots |-> NoPage]
    /\ phase = [c \in Clients |-> "idle"]
    /\ want = [c \in Clients |-> NoUrl]
    /\ found = [c \in Clients |-> NoPage]
    /\ target = [c \in Clients |-> NoSlot]
    /\ got = [c \in Clients |-> NoPage]

Phase(c, from, to) == alive /\ phase[c] = from /\ phase' = [phase EXCEPT ![c] = to]

Ask(c, u) ==
    /\ Phase(c, "idle", "asked")
    /\ want' = [want EXCEPT ![c] = u]
    /\ UNCHANGED <<alive, slot, found, target, got>>

Refuse(c) ==
    /\ Phase(c, "idle", "done")
    /\ UNCHANGED <<alive, slot, want, found, target, got>>

Hit(c, s) ==
    /\ slot[s].url = want[c]
    /\ Phase(c, "asked", "hit")
    /\ found' = [found EXCEPT ![c] = slot[s]]
    /\ UNCHANGED <<alive, slot, want, target, got>>

Miss(c) ==
    /\ Phase(c, "asked", "missed")
    /\ UNCHANGED <<alive, slot, want, found, target, got>>

AnswerFromCache(c) ==
    /\ Phase(c, "hit", "done")
    /\ got' = [got EXCEPT ![c] = found[c]]
    /\ UNCHANGED <<alive, slot, want, found, target>>

\* The origin's answer is passed on as it is; it may be kept for the cache or not.
AnswerFromOrigin(c) ==
    /\ Phase(c, "missed", "keeping") \/ Phase(c, "missed", "done")
    /\ got' = [got EXCEPT ![c] = [url |-> want[c], prefixed |-> FALSE]]
    /\ UNCHANGED <<alive, slot, want, found, target>>

BeginStore(c, s) ==
    /\ Phase(c, "keeping", "storing")
    /\ slot' = [slot EXCEPT ![s] = NoPage]
    /\ target' = [target EXCEPT ![c] = s]
    /\ UNCHANGED <<alive, want, found, got>>

\* A store ends in the slot it began in, with a page of the client's URI.
EndStore(c, p) ==
    /\ p.url = want[c]
    /\ Phase(c, "storing", "done")
    /\ slot' = [slot EXCEPT ![target[c]] = p]
    /\ target' = [target EXCEPT ![c] = NoSlot]
    /\ UNCHANGED <<alive, want, found, got>>

Exit == alive /\ alive' = FALSE /\ UNCHANGED <<slot, phase, want, found, target, got>>

Next ==
    \/ \E c \in Clients :
          \/ \E u \in Urls : Ask(c, u)
          \/ Refuse(c) \/ Miss(c) \/ AnswerFromCache(c) \/ AnswerFromOrigin(c)
          \/ \E s \in Slots : Hit(c, s) \/ BeginStore(c, s)
          \/ \E p \in Pages : EndStore(c, p)
    \/ Exit

Spec == Init /\ [][Next]_vars
=============================================================================
