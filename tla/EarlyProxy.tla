------------------------------ MODULE EarlyProxy ----------------------------
(***************************************************************************)
(* The proxies without a cache in front of Tiny: proxy_Part1.c, which      *)
(* serves one connection after the other, and proxy_Part2.c, which starts  *)
(* a thread for each.  Both run the same doit(); its parse_uri,            *)
(* build_http_header and connect_endServer are the same in proxy.c.        *)
(***************************************************************************)
EXTENDS Tiny

CONSTANTS
    Versions,       \* the programs looked at, of "Part1" and "Part2"
    HostHeaders,    \* the header lines that begin with "Host"
    ColonUris,      \* URIs with a ':' in their path, which parse_uri cuts there
    NoPathUris,     \* URIs without a path, for which parse_uri sets none
    OtherHdr        \* what other_hdr may hold: it is never set

ASSUME HeadersAssumption ==
    {"GET", "origin"} \cup HostHeaders \subseteq Tokens /\ OtherHdr \subseteq Seq(Tokens)

VARIABLES
    version,
    handler,        \* the registers of doit() for each client's connection
    stack           \* what the last doit() left in its automatic variables

webVars == <<networkVars, tiny, version, handler, stack>>

Origin == "origin"      \* the host every other URI names

Idle == [pc |-> "idle", rio |-> rio_readinitb, server |-> rio_readinitb,
         method |-> Unset, uri |-> Unset, hostname |-> Unset, path |-> Unset,
         words |-> <<>>, host |-> Blank, out |-> <<>>]

ProxyInit ==
    \* the programs differ only if they serve more than one client
    /\ version \in Versions
    /\ version = "Part2" => \A c \in Clients : to[c] = "proxy"
    /\ handler = [c \in Clients |-> Idle]
    /\ stack = [method |-> Unset, uri |-> Unset, path |-> Unset, host |-> Blank,
                words |-> <<Unset>>]

Down(c) == <<c, "client">>
Up(c)   == <<c, "origin">>

-----------------------------------------------------------------------------
ProxyAt(c, pc) == alive["proxy"] /\ handler[c].pc = pc

Goto(c, pc) == handler' = [handler EXCEPT ![c].pc = pc]

\* rio_readlineb on the client's connection has returned
HeadLineReturned(c) == \/ Complete(handler[c].rio.line)
                       \/ handler[c].rio.unread = <<>> /\ AtEof(Down(c))

\* rio_readlineb on the origin's connection has returned
AnswerLineReturned(c) ==
    \/ Complete(handler[c].server.line)
    \/ /\ handler[c].server.unread = <<>>
       /\ net[Up(c)].down = <<>> /\ net[Up(c)].server = "closed"

\* exit() or SIGPIPE ends every thread: the kernel closes the connections.
ProxyDies ==
    /\ alive' = [alive EXCEPT !["proxy"] = FALSE]
    /\ net' = [k \in Connections |->
                 CASE k[2] = "client" /\ to[k[1]] = "proxy" /\ net[k].server \in {"queued", "open"}
                        -> Shut(net[k])
                   [] k[2] = "origin" /\ net[k].client = "open"
                        -> [net[k] EXCEPT !.client = "gone"]
                   [] OTHER -> net[k]]
    /\ backlog' = [backlog EXCEPT !["proxy"] = <<>>]
    /\ handler' = [c \in Clients |-> [handler[c] EXCEPT !.pc = "dead"]]
    /\ UNCHANGED <<request, to, tiny, version, stack>>

\* main: Accept, then doit in this thread or in a new one
ProxyAccept(c) ==
    /\ ProxyAt(c, "idle")
    /\ backlog["proxy"] # <<>> /\ Head(backlog["proxy"]) = Down(c)
    /\ version = "Part1" => \A d \in Clients : handler[d].pc \in {"idle", "done"}
    /\ Goto(c, "request")
    /\ backlog' = [backlog EXCEPT !["proxy"] = Tail(@)]
    /\ net' = [net EXCEPT ![Down(c)].server = "open"]
    /\ UNCHANGED <<request, to, alive, tiny, version, stack>>

ProxyRead(c) ==
    /\ ProxyAt(c, "request") \/ ProxyAt(c, "headers")
    /\ ~HeadLineReturned(c)
    /\ \E r \in rio_readlineb(handler[c].rio, net[Down(c)].up) :
          /\ handler' = [handler EXCEPT ![c].rio = r.rio]
          /\ net' = [net EXCEPT ![Down(c)].up = r.in]
    /\ UNCHANGED <<request, to, backlog, alive, tiny, version, stack>>

ProxyReadFails(c) ==
    /\ ProxyAt(c, "request") \/ ProxyAt(c, "headers")
    /\ ~Complete(handler[c].rio.line) /\ handler[c].rio.unread = <<>>
    /\ Gone(Down(c))
    /\ ProxyDies

\* parse_uri: it cuts the URI at the first ':' after "//", wherever it is, and
\* sets no path if there is none.
ParsedPaths(uri) == IF uri \in NoPathUris THEN {stack.path, Unset} ELSE {uri}
ParsedHost(uri)  == IF uri \in ColonUris \cup {Unset} THEN Unset ELSE Origin

\* doit: the request line.  At end of file nothing is written to buf, and
\* sscanf reads what the last call left there.
ProxyRequestLine(c) ==
    /\ ProxyAt(c, "request") /\ HeadLineReturned(c)
    /\ \E words \in IF handler[c].rio.line = <<>> THEN {stack.words, <<Unset>>}
                    ELSE {Words(handler[c].rio.line)} :
       \E method \in Scanned(words, 1, stack.method), uri \in Scanned(words, 2, stack.uri) :
       \E path \in ParsedPaths(uri) :
          handler' = [handler EXCEPT ![c] =
             [@ EXCEPT !.method = method, !.uri = uri, !.path = path, !.words = words,
                       !.hostname = ParsedHost(uri), !.rio = NextLine(handler[c].rio),
                       !.pc = IF method # "GET" THEN "close" ELSE "headers"]]
    /\ UNCHANGED <<networkVars, tiny, version, stack>>

\* build_http_header: the Host line is kept, every other line is dropped.
ProxyHeaderLine(c) ==
    /\ ProxyAt(c, "headers") /\ HeadLineReturned(c)
    /\ handler[c].rio.line \notin {<<>>, <<NL>>}
    /\ handler' = [handler EXCEPT ![c] =
          [@ EXCEPT !.rio = NextLine(handler[c].rio),
                    !.host = IF handler[c].rio.line[1] \in HostHeaders
                             THEN handler[c].rio.line[1] ELSE handler[c].host]]
    /\ UNCHANGED <<networkVars, tiny, version, stack>>

\* VARIANT of HostLines: whatever host_hdr held goes first.
HostLinesKept(h) == IF stack.host # Blank THEN {stack.host}
                    ELSE {IF h.host = Blank THEN h.hostname ELSE h.host}

\* host_hdr without a Host line in this request: nothing, or the last call's
HostLines(h) == IF h.host # Blank THEN {h.host}
                ELSE {IF x = Blank THEN h.hostname ELSE x : x \in {stack.host, Blank}}

\* build_http_header: the request for the origin; the lines that are the same in
\* every request are left out, and other_hdr is what it happens to hold.
build_http_header(c) ==
    /\ ProxyAt(c, "headers") /\ HeadLineReturned(c)
    /\ handler[c].rio.line \in {<<>>, <<NL>>}
    /\ \E host \in HostLines(handler[c]), other \in OtherHdr :
          handler' = [handler EXCEPT ![c] =
             [@ EXCEPT !.pc = "connect", !.host = host,
                       !.out = <<"GET", handler[c].path, NL, host, NL>> \o other \o <<NL>>]]
    /\ UNCHANGED <<networkVars, tiny, version, stack>>

\* open_clientfd to a server that listens: the connection waits there to be accepted.
open_clientfd(c) ==
    /\ net' = [net EXCEPT ![Up(c)] = Opened(<<>>, FALSE)]
    /\ backlog' = [backlog EXCEPT !["tiny"] = Append(@, Up(c))]

\* connect_endServer: Open_clientfd ends the process if it cannot connect, so the
\* test of doit for a descriptor below 0 never succeeds.
connect_endServer(c) ==
    /\ ProxyAt(c, "connect")
    /\ IF handler[c].hostname = Origin /\ alive["tiny"]
       THEN /\ open_clientfd(c)
            /\ Goto(c, "send")
            /\ UNCHANGED <<request, to, alive, tiny, version, stack>>
       ELSE ProxyDies

ProxySend(c) ==
    /\ ProxyAt(c, "send")
    /\ \E w \in rio_writen(handler[c].out) :
          /\ net' = [net EXCEPT ![Up(c)].up = @ \o w[1]]
          /\ handler' = [handler EXCEPT ![c] =
                [@ EXCEPT !.out = w[2], !.pc = IF w[2] = <<>> THEN "relay" ELSE "send"]]
    /\ UNCHANGED <<request, to, backlog, alive, tiny, version, stack>>

ProxyRelayRead(c) ==
    /\ ProxyAt(c, "relay")
    /\ ~AnswerLineReturned(c)
    /\ \E r \in rio_readlineb(handler[c].server, net[Up(c)].down) :
          /\ handler' = [handler EXCEPT ![c].server = r.rio]
          /\ net' = [net EXCEPT ![Up(c)].down = r.in]
    /\ UNCHANGED <<request, to, backlog, alive, tiny, version, stack>>

\* Tiny ended: reading from it or writing to it may fail, which ends the proxy.
OriginFails(c) ==
    /\ ProxyAt(c, "send") \/ ProxyAt(c, "relay")
    /\ net[Up(c)].server = "closed"
    /\ ProxyAt(c, "relay") => net[Up(c)].reset
    /\ ProxyDies

\* doit: one line of the answer, whatever it contains, goes to the client
ProxyRelayLine(c) ==
    /\ ProxyAt(c, "relay") /\ AnswerLineReturned(c)
    /\ handler' = [handler EXCEPT ![c] =
          [@ EXCEPT !.server = NextLine(handler[c].server), !.out = handler[c].server.line,
                    !.words = IF handler[c].server.line = <<>> THEN handler[c].words
                              ELSE Words(handler[c].server.line),
                    !.pc = IF handler[c].server.line = <<>> THEN "closeServer" ELSE "write"]]
    /\ UNCHANGED <<networkVars, tiny, version, stack>>

ProxyWrite(c) ==
    /\ ProxyAt(c, "write")
    /\ \E w \in rio_writen(handler[c].out) :
          /\ net' = [net EXCEPT ![Down(c)].down = @ \o w[1]]
          /\ handler' = [handler EXCEPT ![c] =
                [@ EXCEPT !.out = w[2], !.pc = IF w[2] = <<>> THEN "relay" ELSE "write"]]
    /\ UNCHANGED <<request, to, backlog, alive, tiny, version, stack>>

ProxyWriteFails(c) == ProxyAt(c, "write") /\ Gone(Down(c)) /\ ProxyDies

\* doit: Close(end_serverfd)
ProxyCloseServer(c) ==
    /\ ProxyAt(c, "closeServer")
    /\ net' = [net EXCEPT ![Up(c)].client = "gone"]
    /\ Goto(c, "close")
    /\ UNCHANGED <<request, to, backlog, alive, tiny, version, stack>>

\* Close(connfd); the next doit may find this one's variables on the stack.
ProxyClose(c) ==
    /\ ProxyAt(c, "close")
    /\ net' = [net EXCEPT ![Down(c)] = Shut(@)]
    /\ stack' = [method |-> handler[c].method, uri |-> handler[c].uri,
                 path |-> handler[c].path, words |-> handler[c].words,
                 host |-> IF handler[c].host = Blank THEN stack.host ELSE handler[c].host]
    /\ handler' = [handler EXCEPT ![c] = [Idle EXCEPT !.pc = "done"]]
    /\ UNCHANGED <<request, to, backlog, alive, tiny, version>>

ProxyNext(c) ==
    \/ ProxyAccept(c) \/ ProxyRead(c) \/ ProxyReadFails(c) \/ ProxyRequestLine(c)
    \/ ProxyHeaderLine(c) \/ build_http_header(c) \/ connect_endServer(c)
    \/ ProxySend(c) \/ ProxyRelayRead(c) \/ OriginFails(c) \/ ProxyRelayLine(c)
    \/ ProxyWrite(c) \/ ProxyWriteFails(c) \/ ProxyCloseServer(c) \/ ProxyClose(c)
=============================================================================
