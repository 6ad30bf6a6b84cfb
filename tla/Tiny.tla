--------------------------------- MODULE Tiny -------------------------------
(***************************************************************************)
(* The iterative web server, src/lab7_proxy/tiny/tiny.c: main() accepts    *)
(* one connection at a time, doit() reads the request and answers it, with *)
(* an error page, a file, or the output of a CGI child process.            *)
(***************************************************************************)
EXTENDS Network

CONSTANTS
    CgiUris,        \* the URIs that contain "cgi-bin"
    Query,          \* what follows the '?' of a URI that has one
    Path,           \* the file a URI without its query stands for, or a directory
    Home,           \* the home.html of each directory of the site
    Files,          \* the files stat() finds
    Allowed,        \* the regular files Tiny may read and run
    Empty           \* the files of length 0

VARIABLE
    tiny            \* the registers of main() and doit(), and the CGI child

NoConnection == <<>>
Unset        == "?"     \* what a buffer holds that was never written
Blank        == ""      \* an empty string

ASSUME SiteAssumption ==
    /\ {Unset, Blank, "200", "static", "end", "Server", "sum"} \subseteq Tokens
    /\ {"501", "404", "403", "type", "length", "TinyError"} \subseteq Tokens
    /\ \A f \in {Query, Path, Home} : \A x \in DOMAIN f : f[x] \in Tokens

TinyInit == tiny = [pc |-> "accept", conn |-> NoConnection, rio |-> rio_readinitb,
                    method |-> Unset, uri |-> Unset, bufSet |-> FALSE,
                    filename |-> Unset, cgiargs |-> Unset,
                    out |-> <<>>, next |-> "accept", cgi |-> <<>>]

-----------------------------------------------------------------------------
(* What the code computes from a request. *)

\* sscanf of a line, which has NL only at its end: the words it assigns, in order
Words(line) == IF line # <<>> /\ Last(line) = NL THEN Front(line) ELSE line

\* sscanf leaves an argument alone for which the line has no word: the buffer
\* is an automatic variable that may hold what the last call left there.
Scanned(words, i, last) == IF i <= Len(words) THEN {words[i]} ELSE {last, Unset}

\* The '?' of a URI that runs a program is overwritten: what stays in the
\* buffer is the path.
parse_uri(uri) ==
    LET file == IF uri \in DOMAIN Path THEN Path[uri] ELSE uri
    IN  IF uri \notin CgiUris
        THEN [static |-> TRUE, cgiargs |-> Blank, uri |-> uri,
              filename |-> IF file \in DOMAIN Home THEN Home[file] ELSE file]
        ELSE [static |-> FALSE, filename |-> file, uri |-> file,
              cgiargs |-> IF uri \in DOMAIN Query THEN Query[uri] ELSE Blank]

\* Every answer is a sequence of calls of rio_writen.
clienterror(errnum) == <<<<errnum>>, <<"type">>, <<"length">>, <<"TinyError">>>>
StaticHead          == <<<<"200", "static">>>>
StaticBody(file)    == <<<<file, "end">>>>
DynamicHead         == <<<<"200">>, <<"Server">>>>

\* cgi-bin/adder.c takes QUERY_STRING apart at '&' and follows a null pointer
\* if it has none.
adder(cgiargs) == IF cgiargs = Blank THEN <<>> ELSE <<"sum", cgiargs>>

-----------------------------------------------------------------------------
Stream == net[tiny.conn]

\* rio_readlineb has returned: a line, or what there was before end of file
LineReturned == \/ Complete(tiny.rio.line)
                \/ tiny.rio.unread = <<>> /\ AtEof(tiny.conn)

At(pc) == alive["tiny"] /\ tiny.pc = pc

\* exit() or SIGPIPE: the kernel closes the connections.
TinyDies ==
    /\ alive' = [alive EXCEPT !["tiny"] = FALSE]
    /\ net' = [k \in Connections |-> IF k = tiny.conn \/ k \in ToSet(backlog["tiny"])
                                     THEN Shut(net[k]) ELSE net[k]]
    /\ backlog' = [backlog EXCEPT !["tiny"] = <<>>]
    /\ tiny' = [tiny EXCEPT !.pc = "dead"]
    /\ UNCHANGED <<request, to>>

\* VARIANT of TinyAccept: the buffer is initialised once, not for each connection.
TinyAcceptKeepsBuffer ==
    /\ At("accept") /\ backlog["tiny"] # <<>>
    /\ LET k == Head(backlog["tiny"])
       IN  /\ tiny' = [tiny EXCEPT !.pc = "request", !.conn = k, !.rio = NextLine(@)]
           /\ net' = [net EXCEPT ![k].server = "open"]
    /\ backlog' = [backlog EXCEPT !["tiny"] = Tail(@)]
    /\ UNCHANGED <<request, to, alive>>

\* main: Accept; doit: Rio_readinitb
TinyAccept ==
    /\ At("accept") /\ backlog["tiny"] # <<>>
    /\ LET k == Head(backlog["tiny"])
       IN  /\ tiny' = [tiny EXCEPT !.pc = "request", !.conn = k, !.rio = rio_readinitb]
           /\ net' = [net EXCEPT ![k].server = "open"]
    /\ backlog' = [backlog EXCEPT !["tiny"] = Tail(@)]
    /\ UNCHANGED <<request, to, alive>>

TinyRead ==
    /\ At("request") \/ At("headers")
    /\ ~LineReturned
    /\ \E r \in rio_readlineb(tiny.rio, Stream.up) :
          /\ tiny' = [tiny EXCEPT !.rio = r.rio]
          /\ net' = [net EXCEPT ![tiny.conn].up = r.in]
    /\ UNCHANGED <<request, to, backlog, alive>>

\* A read() from a client that is gone may fail: Rio_readlineb ends the process.
TinyReadFails ==
    /\ At("request") \/ At("headers")
    /\ ~Complete(tiny.rio.line) /\ tiny.rio.unread = <<>>
    /\ Gone(tiny.conn)
    /\ TinyDies

\* The calls of rio_writen that are due, and where doit goes on after them
Answering(t, out, next) == [t EXCEPT !.pc = "write", !.out = out, !.next = next]

TinyRequestLine ==
    /\ At("request") /\ LineReturned
    /\ IF tiny.rio.line = <<>> THEN tiny' = [tiny EXCEPT !.pc = "close"]
       ELSE \E method \in Scanned(Words(tiny.rio.line), 1, tiny.method),
               uri \in Scanned(Words(tiny.rio.line), 2, tiny.uri) :
              LET t == [tiny EXCEPT !.method = method, !.uri = uri, !.bufSet = FALSE,
                                    !.rio = NextLine(@)]
              IN  tiny' = IF method # "GET" THEN Answering(t, clienterror("501"), "close")
                          ELSE [t EXCEPT !.pc = "headers"]
    /\ UNCHANGED networkVars

\* VARIANT of read_requesthdrs: one line is taken for all of them.
read_requesthdrsOneLine ==
    /\ At("headers") /\ LineReturned
    /\ tiny' = [tiny EXCEPT !.pc = "uri", !.rio = NextLine(@)]
    /\ UNCHANGED networkVars

\* read_requesthdrs: one line.  At end of file Rio_readlineb leaves buf alone, so
\* the loop never ends unless buf, still unset, happens to hold the last
\* request's empty line.
read_requesthdrs ==
    /\ At("headers") /\ LineReturned
    /\ LET line == tiny.rio.line
           t == [tiny EXCEPT !.rio = NextLine(@)]
       IN  \/ /\ line = <<NL>> \/ (line = <<>> /\ ~tiny.bufSet)
              /\ tiny' = [t EXCEPT !.pc = "uri"]
           \/ /\ line = <<>>
              /\ tiny' = [t EXCEPT !.pc = "spin"]
           \/ /\ line \notin {<<>>, <<NL>>}
              /\ tiny' = [t EXCEPT !.bufSet = TRUE]
    /\ UNCHANGED networkVars

\* VARIANT of TinyLookup: doit goes on after the page that says 404.
TinyLookupGoesOn ==
    /\ At("uri")
    /\ LET p == parse_uri(tiny.uri)
           t == [tiny EXCEPT !.uri = p.uri, !.filename = p.filename, !.cgiargs = p.cgiargs]
       IN  tiny' = CASE p.filename \notin Files -> Answering(t, clienterror("404"), "open")
                     [] p.filename \in Files \ Allowed ->
                            Answering(t, clienterror("403"), "close")
                     [] p.static /\ p.filename \in Files \cap Allowed ->
                            Answering(t, StaticHead, "open")
                     [] OTHER -> Answering(t, DynamicHead, "fork")
    /\ UNCHANGED networkVars

\* doit from parse_uri to the first write of the answer
TinyLookup ==
    /\ At("uri")
    /\ LET p == parse_uri(tiny.uri)
           t == [tiny EXCEPT !.uri = p.uri, !.filename = p.filename, !.cgiargs = p.cgiargs]
       IN  tiny' = CASE p.filename \notin Files -> Answering(t, clienterror("404"), "close")
                     [] p.filename \in Files \ Allowed ->
                            Answering(t, clienterror("403"), "close")
                     [] p.static /\ p.filename \in Files \cap Allowed ->
                            Answering(t, StaticHead, "open")
                     [] OTHER -> Answering(t, DynamicHead, "fork")
    /\ UNCHANGED networkVars

\* Rio_writen to the client: it may be cut into several write()s.
TinyWrite ==
    /\ At("write")
    /\ \E w \in rio_writen(Head(tiny.out)) :
          LET out == IF w[2] = <<>> THEN Tail(tiny.out) ELSE <<w[2]>> \o Tail(tiny.out)
          IN  /\ net' = [net EXCEPT ![tiny.conn].down = @ \o w[1]]
              /\ tiny' = [tiny EXCEPT !.out = out,
                                      !.pc = IF out = <<>> THEN tiny.next ELSE "write"]
    /\ UNCHANGED <<request, to, backlog, alive>>

\* A write() to a client that is gone raises SIGPIPE, or fails and ends the process.
TinyWriteFails == At("write") /\ Gone(tiny.conn) /\ TinyDies

\* serve_static: Open, Mmap, which fails for a length of 0, and the body; both
\* wrappers end the process.
TinyMap ==
    /\ At("open")
    /\ IF tiny.filename \notin Files \ Empty THEN TinyDies
       ELSE /\ tiny' = Answering(tiny, StaticBody(tiny.filename), "close")
            /\ UNCHANGED networkVars

\* serve_dynamic: Fork; the child has the connection as its standard output.
TinyFork ==
    /\ At("fork")
    /\ tiny' = [tiny EXCEPT !.pc = "wait", !.cgi = adder(tiny.cgiargs)]
    /\ UNCHANGED networkVars

CgiWrite ==
    /\ tiny.cgi # <<>>
    /\ \/ \E w \in rio_writen(tiny.cgi) :
             /\ net' = [net EXCEPT ![tiny.conn].down = @ \o w[1]]
             /\ tiny' = [tiny EXCEPT !.cgi = w[2]]
       \/ /\ Gone(tiny.conn)
          /\ tiny' = [tiny EXCEPT !.cgi = <<>>]
          /\ UNCHANGED net
    /\ UNCHANGED <<request, to, backlog, alive>>

\* Wait returns when the child has ended.
TinyWait ==
    /\ At("wait") /\ tiny.cgi = <<>>
    /\ tiny' = [tiny EXCEPT !.pc = "close"]
    /\ UNCHANGED networkVars

TinyClose ==
    /\ At("close")
    /\ net' = [net EXCEPT ![tiny.conn] = Shut(@)]
    /\ tiny' = [tiny EXCEPT !.pc = "accept", !.conn = NoConnection]
    /\ UNCHANGED <<request, to, backlog, alive>>

TinyNext ==
    \/ TinyAccept \/ TinyRead \/ TinyReadFails \/ TinyRequestLine \/ read_requesthdrs
    \/ TinyLookup \/ TinyWrite \/ TinyWriteFails \/ TinyMap \/ TinyFork \/ CgiWrite
    \/ TinyWait \/ TinyClose
=============================================================================
