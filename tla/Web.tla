---------------------------------- MODULE Web -------------------------------
(***************************************************************************)
(* Clients, the proxies without a cache and Tiny together.  A client talks *)
(* to Tiny or to the proxy, which asks Tiny for it.                        *)
(***************************************************************************)
EXTENDS EarlyProxy

CONSTANT Site       \* the answer the site owes to a URI, as one sequence

Init == NetworkInit /\ TinyInit /\ ProxyInit

ConnectStep(c) == Connect(c) /\ UNCHANGED <<tiny, version, handler, stack>>
LeaveStep(c)   == Leave(c) /\ UNCHANGED <<tiny, version, handler, stack>>
TinyStep       == TinyNext /\ UNCHANGED <<version, handler, stack>>

ServerStep     == TinyStep \/ \E c \in Clients : ProxyNext(c)

Next ==
    \/ \E c \in Clients : ConnectStep(c) \/ LeaveStep(c)
    \/ ServerStep

\* Some process that can go on does; a client may connect or not.
Spec == Init /\ [][Next]_webVars /\ WF_webVars(ServerStep)

-----------------------------------------------------------------------------
(* What the clients asked for. *)

FirstLine(r)  == LET ends == {i \in 1 .. Len(r) : r[i] = NL}
                 IN  IF ends = {} THEN r ELSE SubSeq(r, 1, CHOOSE i \in ends : \A j \in ends : i <= j)
Method(r)     == Words(FirstLine(r))[1]
Uri(r)        == Words(FirstLine(r))[2]
\* The request line has a method and a URI.
Clear(r)      == Len(Words(FirstLine(r))) >= 2
\* A line that does not fit rio_readlineb's buffer
LongLine(r)   == \E i \in 1 .. Len(r) : \A j \in i .. i + MAXLINE - 2 : j <= Len(r) /\ r[j] # NL
HostOf(r)     == {h \in HostHeaders : \E i \in 1 .. Len(r) : r[i] = h}

\* A request has nothing after its head.
NoBodies == \A c \in Clients : \A r \in Requests[c] :
               \A i \in 1 .. Len(r) - 1 : r[i] = NL /\ r[i + 1] = NL => i + 1 = Len(r)

\* A token that stands for a Host line stands where a line begins, and not first.
HostsAreLines ==
    /\ Blank \notin HostHeaders /\ NL \notin HostHeaders
    /\ \A c \in Clients : \A r \in Requests[c] :
          \A i \in 1 .. Len(r) : r[i] \in HostHeaders => i > 1 /\ r[i - 1] = NL

Answer(c) ==
    LET r == request[c]
    IN  IF to[c] = "proxy"
        THEN IF Method(r) # "GET" \/ Uri(r) \in ColonUris THEN <<>> ELSE Site[Uri(r)]
        ELSE IF Method(r) # "GET" THEN Site["501"] ELSE Site[Uri(r)]

\* What Tiny sends for a URI: an error page, a file, of which a length of 0 has no body,
\* or the output of adder.c.
ErrorPage(e) == <<e, "type", "length", "TinyError">>
Reply(uri) ==
    LET p == parse_uri(uri)
    IN  CASE p.filename \notin Files           -> ErrorPage("404")
          [] p.filename \in Files \ Allowed    -> ErrorPage("403")
          [] p.static /\ p.filename \in Files \cap Allowed ->
                 <<"200", "static">> \o IF p.filename \in Empty THEN <<>> ELSE <<p.filename, "end">>
          [] ~p.static /\ p.filename \in Files \cap Allowed ->
                 <<"200", "Server">> \o adder(p.cgiargs)

\* Site says of the requests what Tiny does with its files.
SiteReplies ==
    /\ Site["501"] = ErrorPage("501")
    /\ \A c \in Clients : \A r \in Requests[c] : Clear(r) => Site[Uri(r)] = Reply(Uri(r))

\* What ends a process, makes it loop, or makes it answer out of what an earlier
\* request left on its stack.
Harmful(c) ==
    LET r == request[c]
    IN  \/ ~Clear(r)
        \/ to[c] = "tiny" /\ ~Whole(r)
        \/ Uri(r) \in DOMAIN Path /\ Path[Uri(r)] \in Empty
        \/ to[c] = "proxy" /\ Uri(r) \in ColonUris \cup NoPathUris
Harm == \E c \in Clients : Harmful(c) \/ net[Down(c)].client = "gone"

-----------------------------------------------------------------------------
TinyPCs  == {"accept", "request", "headers", "spin", "uri", "write", "open", "fork",
             "wait", "close", "dead"}
ProxyPCs == {"idle", "request", "headers", "connect", "send", "relay", "write",
             "closeServer", "close", "done", "dead"}

\* Every register has a value of its kind, no buffer overflows, and a connection
\* that was never opened carries nothing.
TypeOK ==
    /\ tiny.pc \in TinyPCs
    /\ \A rp \in {tiny.rio} \cup UNION {{handler[c].rio, handler[c].server} : c \in Clients} :
          Len(rp.line) < MAXLINE /\ Len(rp.unread) <= RIO_BUFSIZE
    /\ \A c \in Clients : handler[c].pc \in ProxyPCs
    /\ \A k \in Connections : net[k].server = "none" => net[k] = Closed

\* What a client was sent is the beginning of the answer to its own request,
\* complete and in order, whoever else is served in between, however the reads
\* and writes were cut, and through the proxy as well as without it (doit of
\* tiny.c and proxy_Part1.c, rio_readlineb, rio_writen).
AnswersMatch ==
    \A c \in Clients :
       Clear(request[c]) /\ (to[c] = "proxy" => Uri(request[c]) \notin NoPathUris)
         => IsPrefix(net[Down(c)].down, Answer(c))

\* The Host line of a request is the one its origin sees, unless a line too long
\* for the buffer hid it (build_http_header).
HostForwarded ==
    \A c \in Clients :
       (handler[c].pc \in {"connect", "send"} /\ HostOf(request[c]) # {} /\ ~LongLine(request[c]))
         => handler[c].host \in HostOf(request[c])

\* A server that closes a connection with input unread resets it, and the answer
\* may be lost: only a refused method and an overlong line leave any
\* (doit returns before read_requesthdrs, tiny.c:61-65).
ResetOnlyAfterRefusal ==
    \A c \in Clients :
       (net[Down(c)].reset /\ alive[to[c]] /\ Clear(request[c]))
         => Method(request[c]) # "GET" \/ LongLine(request[c])

\* A client is served completely, unless some client goes away, cuts its head
\* short or asks for what ends a process: both servers' loops come around again
\* (main of tiny.c and proxy_Part1.c).
Served ==
    \A c \in Clients :
       (net[Down(c)].server = "queued")
         ~> (Harm \/ (net[Down(c)].server = "closed" /\ net[Down(c)].down = Answer(c)))
=============================================================================
