------------------------------- MODULE Network ------------------------------
(***************************************************************************)
(* Clients, connections and the two servers' listening sockets, as tiny.c  *)
(* and the first proxies use them through csapp.c.  The kernel's part is   *)
(* what the calls of the code tell apart: data arrives in order, a closed  *)
(* peer is end of file, and a peer that is gone or that closed with input  *)
(* unread makes reads and writes fail.                                     *)
(***************************************************************************)
EXTENDS Rio

CONSTANTS
    Clients,
    Requests,       \* what each client may send, as sequences of tokens
    Leavers         \* the clients that may go away at any time

ASSUME RequestsAssumption == \A c \in Clients : Requests[c] \subseteq Seq(Tokens)

Servers     == {"tiny", "proxy"}
Connections == Clients \X {"client", "origin"}

VARIABLES
    request,        \* what each client sends
    to,             \* the server it sends it to
    net,            \* the connections
    backlog,        \* connections that listen() queued for accept()
    alive           \* the server processes that have not ended

networkVars == <<request, to, net, backlog, alive>>

Closed == [up |-> <<>>, down |-> <<>>, client |-> "none", server |-> "none",
           reset |-> FALSE]

\* open_listenfd: listen() has made a queue for connections, and nobody is in it.  (A
\* server that gets no such descriptor ends before it accepts anything.)
open_listenfd == <<>>

NetworkInit ==
    /\ request \in [Clients -> UNION {Requests[c] : c \in Clients}]
    /\ \A c \in Clients : request[c] \in Requests[c]
    /\ to \in [Clients -> Servers]
    /\ net = [k \in Connections |-> Closed]
    /\ backlog = [s \in Servers |-> open_listenfd]
    /\ alive = [s \in Servers |-> TRUE]

\* The head of a request ends with an empty line.
Whole(r) == /\ Len(r) > 1
            /\ \E i \in 1 .. Len(r) - 1 : r[i] = NL /\ r[i + 1] = NL

\* A connection k to server s that carries data; a client that cut its request
\* short has also closed its sending side.
Opened(data, cut) == [Closed EXCEPT !.up = data,
                                    !.client = IF cut THEN "shut" ELSE "open",
                                    !.server = "queued"]

Gone(k)    == net[k].client = "gone"
AtEof(k)   == net[k].up = <<>> /\ net[k].client \in {"shut", "gone"}

\* What a server has written on k and then closes, or the kernel for a process
\* that ended: with input unread or never accepted the connection is reset.
Shut(n) == [n EXCEPT !.server = "closed",
                     !.reset = n.up # <<>> \/ n.server = "queued"]

-----------------------------------------------------------------------------
Connect(c) ==
    /\ net[<<c, "client">>] = Closed
    /\ alive[to[c]]
    /\ net' = [net EXCEPT ![<<c, "client">>] = Opened(request[c], ~Whole(request[c]))]
    /\ backlog' = [backlog EXCEPT ![to[c]] = Append(@, <<c, "client">>)]
    /\ UNCHANGED <<request, to, alive>>

\* A client goes away before its answer is complete.
Leave(c) ==
    /\ c \in Leavers
    /\ net[<<c, "client">>].client = "open"
    /\ net[<<c, "client">>].server # "closed"
    /\ net' = [net EXCEPT ![<<c, "client">>].client = "gone"]
    /\ UNCHANGED <<request, to, backlog, alive>>
=============================================================================
