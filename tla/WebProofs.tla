------------------------------ MODULE WebProofs -----------------------------
(***************************************************************************)
(* Proofs about Web, for any number of clients and any requests: what a    *)
(* buffered read keeps of a stream, the types of both servers' registers,  *)
(* who holds which connection, how much of a request has been read, and    *)
(* how much of its answer has been sent.                                   *)
(***************************************************************************)
EXTENDS Web, Least, SequenceTheorems

-----------------------------------------------------------------------------
(* Sequences of tokens, and the buffered reads of csapp.c. *)

\* rio_t: no buffer overflows.
Buffers == {rp \in [unread : Seq(Tokens), line : Seq(Tokens)] :
               Len(rp.line) < MAXLINE /\ Len(rp.unread) <= RIO_BUFSIZE}

\* What is still to come of a stream whose reader has started a line
Rest(rp, in) == rp.line \o (rp.unread \o in)

\* A line ends with the first NL.
OneLine(line) == \A j \in 1 .. Len(line) - 1 : line[j] # NL

\* The loop of rio_readlineb copies what is in the internal buffer, as far as it fits
\* and no further than the first NL.
LEMMA CopiedIs ==
    ASSUME NEW line \in Seq(Tokens), NEW unread \in Seq(Tokens), Len(line) < MAXLINE
    PROVE  /\ Copied(line, unread) \in Nat
           /\ Copied(line, unread) <= Len(unread)
           /\ Copied(line, unread) + Len(line) < MAXLINE
           /\ \A j \in 1 .. Copied(line, unread) - 1 : unread[j] # NL
<1> DEFINE most == AtMost(MAXLINE - 1 - Len(line), Len(unread))
           ends == {k \in 1 .. most : unread[k] = NL}
<1>1. most \in Nat /\ most <= Len(unread) /\ most + Len(line) < MAXLINE
  BY MaxLineAssumption DEF AtMost
<1>2. Copied(line, unread) = IF ends = {} THEN most ELSE CHOOSE k \in ends : \A j \in ends : k <= j
  BY DEF Copied
<1> HIDE DEF most
<1>3. CASE ends = {}
  BY <1>1, <1>2, <1>3
<1>4. CASE ends # {}
  <2>1. ends \in SUBSET Nat
    BY <1>1
  <2>2. \E k \in ends : \A j \in ends : k <= j
    <3> HIDE DEF ends
    <3> QED BY <1>4, <2>1, LeastNatural
  <2>3. PICK k \in ends : k = Copied(line, unread) /\ \A j \in ends : k <= j
    <3> HIDE DEF ends
    <3> QED BY <1>2, <1>4, <2>2
  <2>4. k \in 1 .. most
    BY <2>3
  <2>5. ASSUME NEW j \in 1 .. k - 1 PROVE unread[j] # NL
    <3>1. j \notin ends
      <4>1. ~(k <= j) /\ k \in Nat
        BY <1>1, <2>4, <2>5
      <4> HIDE DEF ends
      <4> QED BY <2>3, <4>1
    <3>2. j \in 1 .. most
      BY <1>1, <2>4, <2>5
    <3> QED BY <3>1, <3>2
  <2>6. k \in Nat /\ k <= Len(unread) /\ k + Len(line) < MAXLINE
    <3>1. PICK m \in Nat : m = most
      BY <1>1
    <3>2. k \in 1 .. m /\ m <= Len(unread) /\ m + Len(line) < MAXLINE
      BY <1>1, <2>4, <3>1
    <3>3. Len(line) \in Nat /\ Len(unread) \in Nat
      OBVIOUS
    <3> QED BY <3>2, <3>3, MaxLineAssumption
  <2>7. k = Copied(line, unread)
    BY <2>3
  <2> QED BY <2>5, <2>6, <2>7
<1> QED BY <1>3, <1>4

\* A sequence is cut in two anywhere.
LEMMA CutInTwo ==
    ASSUME NEW s \in Seq(Tokens), NEW k \in 0 .. Len(s)
    PROVE  /\ SubSeq(s, 1, k) \in Seq(Tokens)
           /\ SubSeq(s, k + 1, Len(s)) \in Seq(Tokens)
           /\ Len(SubSeq(s, 1, k)) = k
           /\ Len(SubSeq(s, k + 1, Len(s))) = Len(s) - k
           /\ \A j \in 1 .. k : SubSeq(s, 1, k)[j] = s[j]
           /\ SubSeq(s, 1, k) \o SubSeq(s, k + 1, Len(s)) = s
<1>0. PICK n \in Nat : n = Len(s)
  OBVIOUS
<1>1. \A j \in 1 .. k : s[j] \in Tokens
  BY <1>0
<1>2. \A j \in k + 1 .. n : s[j] \in Tokens
  BY <1>0
<1>3. 1 \in 1 .. n + 1 /\ k \in 1 - 1 .. n /\ n \in k .. n
  BY <1>0
<1>4. SubSeq(s, 1, k) \o SubSeq(s, k + 1, n) = SubSeq(s, 1, n)
  BY <1>0, <1>3, ConcatAdjacentSubSeq
<1>5. SubSeq(s, 1, n) = s
  BY <1>0, SubSeqFull
<1>6. k \in Int /\ n \in Int /\ 1 \in Int /\ k + 1 \in Int
  BY <1>0
<1>7. /\ SubSeq(s, 1, k) \in Seq(Tokens)
      /\ Len(SubSeq(s, 1, k)) = IF 1 <= k THEN k - 1 + 1 ELSE 0
      /\ \A j \in 1 .. k - 1 + 1 : SubSeq(s, 1, k)[j] = s[1 + j - 1]
  BY <1>1, <1>6, SubSeqProperties
<1>8. /\ SubSeq(s, k + 1, n) \in Seq(Tokens)
      /\ Len(SubSeq(s, k + 1, n)) = IF k + 1 <= n THEN n - (k + 1) + 1 ELSE 0
  BY <1>2, <1>6, SubSeqProperties
<1>9. Len(SubSeq(s, 1, k)) = k /\ Len(SubSeq(s, k + 1, n)) = n - k
  BY <1>0, <1>7, <1>8
<1>10. \A j \in 1 .. k : SubSeq(s, 1, k)[j] = s[j]
  <2>1. \A j \in 1 .. k : j \in 1 .. k - 1 + 1 /\ 1 + j - 1 = j
    OBVIOUS
  <2> QED BY <1>7, <2>1
<1> QED BY <1>0, <1>4, <1>5, <1>7, <1>8, <1>9, <1>10

LEMMA CatTyped ==
    ASSUME NEW a \in Seq(Tokens), NEW b \in Seq(Tokens)
    PROVE  /\ a \o b \in Seq(Tokens)
           /\ Len(a \o b) = Len(a) + Len(b)
           /\ \A j \in 1 .. Len(a) : (a \o b)[j] = a[j]
           /\ \A j \in 1 .. Len(b) : (a \o b)[Len(a) + j] = b[j]
           /\ \A j \in Len(a) + 1 .. Len(a) + Len(b) : (a \o b)[j] = b[j - Len(a)]
<1>1. /\ a \o b \in Seq(Tokens)
      /\ Len(a \o b) = Len(a) + Len(b)
      /\ \A j \in 1 .. Len(a) + Len(b) : (a \o b)[j] = IF j <= Len(a) THEN a[j] ELSE b[j - Len(a)]
  BY ConcatProperties
<1> QED BY <1>1

LEMMA CatAssoc ==
    ASSUME NEW a \in Seq(Tokens), NEW b \in Seq(Tokens), NEW c \in Seq(Tokens)
    PROVE  (a \o b) \o c = a \o (b \o c)
BY ConcatAssociative

LEMMA CatEmpty ==
    ASSUME NEW a \in Seq(Tokens)
    PROVE  a \o <<>> = a /\ <<>> \o a = a
BY ConcatEmptySeq

\* rio_read delivers the stream in order.
LEMMA RioReadKeeps ==
    ASSUME NEW unread \in Seq(Tokens), Len(unread) <= RIO_BUFSIZE, NEW in \in Seq(Tokens),
           NEW r \in rio_read(unread, in)
    PROVE  /\ r[1] \in Seq(Tokens) /\ Len(r[1]) <= RIO_BUFSIZE
           /\ r[2] \in Seq(Tokens)
           /\ r[1] \o r[2] = unread \o in
<1>1. CASE unread # <<>>
  <2>1. r = <<unread, in>>
    BY <1>1 DEF rio_read
  <2> QED BY <2>1
<1>2. CASE unread = <<>>
  <2>1. PICK k \in 1 .. AtMost(RIO_BUFSIZE, Len(in)) :
            r = <<SubSeq(in, 1, k), SubSeq(in, k + 1, Len(in))>>
    BY <1>2 DEF rio_read
  <2>2. k \in 0 .. Len(in) /\ k <= RIO_BUFSIZE
    BY RioBufSizeAssumption DEF AtMost
  <2>3. r[1] = SubSeq(in, 1, k) /\ r[2] = SubSeq(in, k + 1, Len(in))
    BY <2>1
  <2>4. r[1] \in Seq(Tokens) /\ r[2] \in Seq(Tokens) /\ Len(r[1]) = k /\ r[1] \o r[2] = in
    BY <2>2, <2>3, CutInTwo
  <2>5. unread \o in = in
    BY <1>2, CatEmpty
  <2> QED BY <2>2, <2>4, <2>5
<1> QED BY <1>1, <1>2

\* rio_readlineb neither loses nor changes the order of anything, wherever the reads
\* stop, its buffers never overflow, and what it returns is at most one line.
LEMMA ReadLineKeeps ==
    ASSUME NEW rp \in Buffers, NEW in \in Seq(Tokens), NEW r \in rio_readlineb(rp, in)
    PROVE  /\ r.rio \in Buffers
           /\ r.in \in Seq(Tokens)
           /\ Rest(r.rio, r.in) = Rest(rp, in)
           /\ OneLine(rp.line) /\ ~Complete(rp.line) => OneLine(r.rio.line)
<1>1. rp.line \in Seq(Tokens) /\ rp.unread \in Seq(Tokens) /\ Len(rp.line) < MAXLINE
      /\ Len(rp.unread) <= RIO_BUFSIZE
  BY DEF Buffers
<1>2. PICK q \in rio_read(rp.unread, in) :
         r = [rio |-> [unread |-> SubSeq(q[1], Copied(rp.line, q[1]) + 1, Len(q[1])),
                       line   |-> rp.line \o SubSeq(q[1], 1, Copied(rp.line, q[1]))],
              in  |-> q[2]]
  BY DEF rio_readlineb
<1>3. PICK u, w, k, l : /\ u = q[1] /\ w = q[2] /\ k = Copied(rp.line, u) /\ l = rp.line
  OBVIOUS
<1>4. /\ u \in Seq(Tokens) /\ Len(u) <= RIO_BUFSIZE /\ w \in Seq(Tokens)
      /\ u \o w = rp.unread \o in
  BY <1>1, <1>3, RioReadKeeps
<1>5. /\ k \in Nat /\ k <= Len(u) /\ k + Len(l) < MAXLINE
      /\ \A j \in 1 .. k - 1 : u[j] # NL
  BY <1>1, <1>3, <1>4, CopiedIs
<1>6. PICK a, b : a = SubSeq(u, 1, k) /\ b = SubSeq(u, k + 1, Len(u))
  OBVIOUS
<1>7. /\ a \in Seq(Tokens) /\ b \in Seq(Tokens) /\ Len(a) = k /\ Len(b) = Len(u) - k
      /\ a \o b = u /\ \A j \in 1 .. k : a[j] = u[j]
  <2>1. k \in 0 .. Len(u)
    BY <1>4, <1>5
  <2> QED BY <1>4, <1>6, <2>1, CutInTwo
<1>8. l \in Seq(Tokens)
  BY <1>1, <1>3
<1>9. /\ r.rio = [unread |-> b, line |-> l \o a] /\ r.in = w
  BY <1>2, <1>3, <1>6
<1>10. l \o a \in Seq(Tokens) /\ Len(l \o a) = Len(l) + k
  BY <1>7, <1>8, CatTyped
<1>11. r.rio \in Buffers
  <2>1. Len(l \o a) < MAXLINE /\ Len(b) <= RIO_BUFSIZE
    BY <1>4, <1>5, <1>7, <1>8, <1>10, RioBufSizeAssumption, MaxLineAssumption
  <2> QED BY <1>7, <1>9, <1>10, <2>1 DEF Buffers
<1>12. Rest(r.rio, r.in) = Rest(rp, in)
  <2>1. Rest(r.rio, r.in) = (l \o a) \o (b \o w)
    BY <1>9 DEF Rest
  <2>0. l \in Seq(Tokens) /\ a \in Seq(Tokens) /\ b \in Seq(Tokens) /\ w \in Seq(Tokens)
    BY <1>4, <1>7, <1>8
  <2>2. b \o w \in Seq(Tokens)
    BY <2>0, CatTyped
  <2>3. (l \o a) \o (b \o w) = l \o (a \o (b \o w))
    <3>1. PICK x : x = b \o w
      OBVIOUS
    <3>2. l \in Seq(Tokens) /\ a \in Seq(Tokens) /\ x \in Seq(Tokens)
      BY <2>0, <2>2, <3>1
    <3>3. (l \o a) \o x = l \o (a \o x)
      BY ONLY <3>2, CatAssoc, SMTT(60)
    <3> QED BY <3>1, <3>3
  <2>4. (a \o b) \o w = a \o (b \o w)
    BY ONLY <2>0, CatAssoc, SMTT(60)
  <2>5. Rest(rp, in) = l \o (u \o w)
    BY <1>3, <1>4 DEF Rest
  <2> QED BY <1>7, <2>1, <2>3, <2>4, <2>5
<1>13. ASSUME OneLine(l), ~Complete(l) PROVE OneLine(l \o a)
  <2>1. \A j \in 1 .. Len(l) : l[j] # NL
    <3>1. l # <<>> => l[Len(l)] # NL
      BY <1>13 DEF Complete, Last
    <3>2. l = <<>> => Len(l) = 0
      OBVIOUS
    <3>3. Len(l) \in Nat
      BY <1>8
    <3> QED BY <1>13, <3>1, <3>2, <3>3 DEF OneLine
  <2>2. ASSUME NEW j \in 1 .. Len(l \o a) - 1 PROVE (l \o a)[j] # NL
    <3>0. PICK n \in Nat : n = Len(l)
      BY <1>8
    <3>1. CASE j <= n
      <4>1. j \in 1 .. Len(l)
        BY <3>0, <3>1, <1>10, <1>5
      <4>2. (l \o a)[j] = l[j]
        BY <1>7, <1>8, <4>1, CatTyped
      <4> QED BY <2>1, <4>1, <4>2
    <3>2. CASE ~(j <= n)
      <4>1. j \in n + 1 .. n + k /\ j - n \in 1 .. k - 1 /\ j - n \in 1 .. k
        BY <1>5, <1>10, <3>0, <3>2
      <4>2. (l \o a)[j] = a[j - n]
        BY <1>7, <1>8, <3>0, <4>1, CatTyped
      <4> QED BY <1>5, <1>7, <4>1, <4>2
    <3> QED BY <3>1, <3>2
  <2> QED BY <2>2 DEF OneLine
<1> QED BY <1>3, <1>4, <1>9, <1>11, <1>12, <1>13

\* The two connections of a client are different from those of every other client.
LEMMA Ends ==
    /\ \A c \in Clients : Down(c) \in Connections /\ Up(c) \in Connections
    /\ \A c, d \in Clients : Down(c) # Up(d)
    /\ \A c, d \in Clients : (Down(c) = Down(d) \/ Up(c) = Up(d)) => c = d
    /\ \A k \in Connections : \E c \in Clients : k = Down(c) \/ k = Up(c)
    /\ NoConnection \notin Connections
<1>1. \A c \in Clients : Down(c) \in Connections /\ Up(c) \in Connections
  BY DEF Down, Up, Connections
<1>2. ASSUME NEW c \in Clients, NEW d \in Clients PROVE Down(c) # Up(d)
  BY DEF Down, Up
<1>3. ASSUME NEW c \in Clients, NEW d \in Clients PROVE (Down(c) = Down(d) \/ Up(c) = Up(d)) => c = d
  BY DEF Down, Up
<1>4. ASSUME NEW k \in Connections PROVE \E c \in Clients : k = Down(c) \/ k = Up(c)
  BY DEF Down, Up, Connections
<1>5. NoConnection \notin Connections
  <2>1. ASSUME NoConnection \in Connections PROVE FALSE
    <3>1. PICK c \in Clients, e \in {"client", "origin"} : <<>> = <<c, e>>
      BY <2>1 DEF NoConnection, Connections
    <3>2. Len(<<>>) = 0 /\ Len(<<c, e>>) = 2
      OBVIOUS
    <3> QED BY <3>1, <3>2
  <2> QED BY <2>1
<1> QED BY <1>1, <1>2, <1>3, <1>4, <1>5

-----------------------------------------------------------------------------
(* Type correctness. *)

Written == Seq(Tokens) \ {<<>>}

Conn == [up : Seq(Tokens), down : Seq(Tokens), client : {"none", "open", "shut", "gone"},
         server : {"none", "queued", "open", "closed"}, reset : BOOLEAN]

TinyRegs == [pc : TinyPCs, conn : Connections \cup {NoConnection}, rio : Buffers,
             method : Tokens, uri : Tokens, bufSet : BOOLEAN, filename : Tokens,
             cgiargs : Tokens, out : Seq(Written),
             next : {"accept", "open", "fork", "close"}, cgi : Seq(Tokens)]

HandlerRegs == [pc : ProxyPCs, rio : Buffers, server : Buffers, method : Tokens,
                uri : Tokens, hostname : Tokens, path : Tokens, words : Seq(Tokens),
                host : Tokens, out : Seq(Tokens)]

StackRegs == [method : Tokens, uri : Tokens, path : Tokens, host : Tokens,
              words : Seq(Tokens)]

\* Nothing is written that has no length.
TypeInv ==
    /\ request \in [Clients -> Seq(Tokens)] /\ to \in [Clients -> Servers]
    /\ net \in [Connections -> Conn]
    /\ backlog \in [Servers -> Seq(Connections)]
    /\ alive \in [Servers -> BOOLEAN]
    /\ tiny \in TinyRegs
    /\ tiny.pc = "write" => tiny.out # <<>>
    /\ handler \in [Clients -> HandlerRegs]
    /\ \A c \in Clients : handler[c].pc \in {"connect", "send", "write"} => handler[c].out # <<>>
    /\ stack \in StackRegs

LEMMA WriteKeeps ==
    ASSUME NEW out \in Written, NEW w \in rio_writen(out)
    PROVE  w[1] \in Seq(Tokens) /\ w[2] \in Seq(Tokens) /\ w[1] \o w[2] = out
<1>1. PICK k \in {1, Len(out)} : w = <<SubSeq(out, 1, k), SubSeq(out, k + 1, Len(out))>>
  BY DEF rio_writen
<1>2. out \in Seq(Tokens) /\ Len(out) # 0
  BY DEF Written
<1>3. k \in 0 .. Len(out)
  BY <1>2
<1>4. w[1] = SubSeq(out, 1, k) /\ w[2] = SubSeq(out, k + 1, Len(out))
  BY <1>1
<1> QED BY <1>2, <1>3, <1>4, CutInTwo

LEMMA WordsTyped ==
    ASSUME NEW line \in Seq(Tokens)
    PROVE  /\ Words(line) \in Seq(Tokens)
           /\ Len(Words(line)) <= Len(line)
           /\ \A j \in 1 .. Len(Words(line)) : Words(line)[j] = line[j]
<1>1. CASE line # <<>> /\ Last(line) = NL
  <2>1. Words(line) = SubSeq(line, 1, Len(line) - 1)
    BY <1>1 DEF Words, Front
  <2>2. Len(line) - 1 \in 0 .. Len(line)
    BY <1>1
  <2>3. /\ SubSeq(line, 1, Len(line) - 1) \in Seq(Tokens)
        /\ Len(SubSeq(line, 1, Len(line) - 1)) = Len(line) - 1
        /\ \A j \in 1 .. Len(line) - 1 : SubSeq(line, 1, Len(line) - 1)[j] = line[j]
    BY <2>2, CutInTwo
  <2> QED BY <2>1, <2>2, <2>3
<1>2. CASE ~(line # <<>> /\ Last(line) = NL)
  BY <1>2 DEF Words
<1> QED BY <1>1, <1>2

LEMMA Literals ==
    /\ Unset \in Tokens /\ Blank \in Tokens /\ "200" \in Tokens /\ "static" \in Tokens
    /\ "end" \in Tokens /\ "Server" \in Tokens /\ "sum" \in Tokens
    /\ "501" \in Tokens /\ "404" \in Tokens /\ "403" \in Tokens
    /\ "type" \in Tokens /\ "length" \in Tokens /\ "TinyError" \in Tokens
    /\ "GET" \in Tokens /\ "origin" \in Tokens /\ NL \in Tokens
<1> DEFINE A == {Unset, Blank, "200", "static", "end", "Server", "sum"}
           B == {"501", "404", "403", "type", "length", "TinyError"}
<1>1. A \subseteq Tokens /\ B \subseteq Tokens
  BY SiteAssumption
<1>2. "GET" \in Tokens /\ "origin" \in Tokens
  BY HeadersAssumption
<1>3. \A x \in A : x \in Tokens
  BY <1>1
<1>4. \A x \in B : x \in Tokens
  BY <1>1
<1> QED BY <1>2, <1>3, <1>4, TokensAssumption

LEMMA ScannedTyped ==
    ASSUME NEW words \in Seq(Tokens), NEW i \in {1, 2}, NEW last \in Tokens
    PROVE  Scanned(words, i, last) \subseteq Tokens
<1>1. CASE i <= Len(words)
  <2>1. words[i] \in Tokens
    BY <1>1
  <2> QED BY <1>1, <2>1 DEF Scanned
<1>2. CASE ~(i <= Len(words))
  BY <1>2, Literals DEF Scanned
<1> QED BY <1>1, <1>2

LEMMA NewBuffers == rio_readinitb \in Buffers
BY MaxLineAssumption, RioBufSizeAssumption DEF rio_readinitb, Buffers

LEMMA NextLineTyped ==
    ASSUME NEW rp \in Buffers PROVE NextLine(rp) \in Buffers
<1>1. NextLine(rp) = [unread |-> rp.unread, line |-> <<>>]
  BY DEF NextLine, Buffers
<1>2. Len(<<>>) < MAXLINE
  BY MaxLineAssumption
<1> QED BY <1>1, <1>2 DEF Buffers

LEMMA ParsedTyped ==
    ASSUME NEW uri \in Tokens
    PROVE  /\ parse_uri(uri).uri \in Tokens
           /\ parse_uri(uri).filename \in Tokens
           /\ parse_uri(uri).cgiargs \in Tokens
<1>1. PICK file : file = IF uri \in DOMAIN Path THEN Path[uri] ELSE uri
  OBVIOUS
<1>2. file \in Tokens
  BY <1>1, SiteAssumption
<1>3. CASE uri \notin CgiUris
  <2>1. parse_uri(uri) = [static |-> TRUE, cgiargs |-> Blank, uri |-> uri,
              filename |-> IF file \in DOMAIN Home THEN Home[file] ELSE file]
    BY <1>1, <1>3 DEF parse_uri
  <2>2. (IF file \in DOMAIN Home THEN Home[file] ELSE file) \in Tokens
    BY <1>2, SiteAssumption
  <2>3. Blank \in Tokens
    BY Literals
  <2> QED BY <2>1, <2>2, <2>3
<1>4. CASE uri \in CgiUris
  <2>1. parse_uri(uri) = [static |-> FALSE, filename |-> file, uri |-> file,
              cgiargs |-> IF uri \in DOMAIN Query THEN Query[uri] ELSE Blank]
    BY <1>1, <1>4 DEF parse_uri
  <2>2. (IF uri \in DOMAIN Query THEN Query[uri] ELSE Blank) \in Tokens
    BY SiteAssumption, Literals
  <2> QED BY <1>2, <2>1, <2>2
<1> QED BY <1>3, <1>4

LEMMA AnswersTyped ==
    /\ \A e \in {"501", "404", "403"} : clienterror(e) \in Seq(Written) /\ clienterror(e) # <<>>
    /\ StaticHead \in Seq(Written) /\ StaticHead # <<>>
    /\ DynamicHead \in Seq(Written) /\ DynamicHead # <<>>
    /\ \A x \in Tokens : /\ StaticBody(x) \in Seq(Written) /\ StaticBody(x) # <<>>
                         /\ adder(x) \in Seq(Tokens)
<1>1. \A x \in Tokens : <<x>> \in Written
  BY DEF Written
<1>2. \A x, y \in Tokens : <<x, y>> \in Written
  BY DEF Written
<1>3. ASSUME NEW e \in {"501", "404", "403"} PROVE clienterror(e) \in Seq(Written) /\ clienterror(e) # <<>>
  <2>1. e \in Tokens /\ "type" \in Tokens /\ "length" \in Tokens /\ "TinyError" \in Tokens
    BY Literals
  <2>2. <<e>> \in Written /\ <<"type">> \in Written /\ <<"length">> \in Written
        /\ <<"TinyError">> \in Written
    BY <1>1, <2>1
  <2>3. clienterror(e) = <<<<e>>, <<"type">>, <<"length">>, <<"TinyError">>>>
    BY DEF clienterror
  <2>4. Len(clienterror(e)) = 4
    BY <2>3
  <2> QED BY <2>2, <2>3, <2>4
<1>4. StaticHead \in Seq(Written) /\ StaticHead # <<>>
  <2>1. <<"200", "static">> \in Written
    BY <1>2, SiteAssumption
  <2> QED BY <2>1 DEF StaticHead
<1>5. DynamicHead \in Seq(Written) /\ DynamicHead # <<>>
  <2>1. <<"200">> \in Written /\ <<"Server">> \in Written
    BY <1>1, SiteAssumption
  <2> QED BY <2>1 DEF DynamicHead
<1>6. ASSUME NEW x \in Tokens PROVE StaticBody(x) \in Seq(Written) /\ StaticBody(x) # <<>>
  <2>1. <<x, "end">> \in Written
    BY <1>2, SiteAssumption
  <2> QED BY <2>1 DEF StaticBody
<1>7. ASSUME NEW x \in Tokens PROVE adder(x) \in Seq(Tokens)
  <2>1. CASE x = Blank
    BY <2>1 DEF adder
  <2>2. CASE x # Blank
    <3>1. adder(x) = <<"sum", x>>
      BY <2>2 DEF adder
    <3> QED BY <3>1, Literals
  <2> QED BY <2>1, <2>2
<1> QED BY <1>3, <1>4, <1>5, <1>6, <1>7

LEMMA OpenedTyped ==
    ASSUME NEW data \in Seq(Tokens), NEW cut \in BOOLEAN
    PROVE  /\ Opened(data, cut) \in Conn
           /\ Opened(data, cut).server = "queued" /\ Opened(data, cut).up = data
           /\ Opened(data, cut).down = <<>> /\ Opened(data, cut).reset = FALSE
           /\ Opened(data, cut).client \in {"open", "shut"}
           /\ ~cut => Opened(data, cut).client = "open"
<1>1. Opened(data, cut) = [up |-> data, down |-> <<>>,
          client |-> IF cut THEN "shut" ELSE "open", server |-> "queued", reset |-> FALSE]
  <2>1. Opened(data, cut) = [Closed EXCEPT !.up = data, !.client = IF cut THEN "shut" ELSE "open",
                                           !.server = "queued"]
    BY DEF Opened
  <2>2. CASE cut
    BY <2>1, <2>2 DEF Closed
  <2>3. CASE ~cut
    BY <2>1, <2>3 DEF Closed
  <2> QED BY <2>2, <2>3
<1>2. (IF cut THEN "shut" ELSE "open") \in {"open", "shut"}
  OBVIOUS
<1>3. <<>> \in Seq(Tokens)
  OBVIOUS
<1>4. Opened(data, cut) \in Conn
  BY <1>1, <1>3 DEF Conn
<1> QED BY <1>1, <1>2, <1>4

LEMMA ShutTyped ==
    ASSUME NEW n \in Conn
    PROVE  /\ Shut(n) \in Conn
           /\ Shut(n).server = "closed" /\ Shut(n).up = n.up /\ Shut(n).down = n.down
           /\ Shut(n).client = n.client
           /\ Shut(n).reset => n.up # <<>> \/ n.server = "queued"
BY DEF Shut, Conn

LEMMA TypeInit == Init => TypeInv
<1> SUFFICES ASSUME Init PROVE TypeInv
  OBVIOUS
<1> USE DEF Init, NetworkInit, TinyInit, ProxyInit
<1>1. request \in [Clients -> Seq(Tokens)] /\ to \in [Clients -> Servers]
  <2>1. \A c \in Clients : request[c] \in Seq(Tokens)
    BY RequestsAssumption
  <2> QED BY <2>1
<1>2. net \in [Connections -> Conn]
  BY DEF Closed, Conn
<1>3. backlog \in [Servers -> Seq(Connections)] /\ alive \in [Servers -> BOOLEAN]
  BY DEF open_listenfd
<1>4. tiny \in TinyRegs /\ tiny.pc # "write"
  BY Literals, NewBuffers DEF TinyRegs, TinyPCs
<1>5. Idle \in HandlerRegs /\ Idle.pc = "idle"
  BY Literals, NewBuffers DEF Idle, HandlerRegs, ProxyPCs
<1>6. stack \in StackRegs
  <2>1. <<Unset>> \in Seq(Tokens)
    BY Literals
  <2> QED BY <2>1, Literals DEF StackRegs
<1> QED BY <1>1, <1>2, <1>3, <1>4, <1>5, <1>6 DEF TypeInv

\* What TinyDies and ProxyDies do to the types
LEMMA DiesTyped ==
    ASSUME TypeInv
    PROVE  /\ TinyDies /\ UNCHANGED <<version, handler, stack>> => TypeInv'
           /\ ProxyDies => TypeInv'
<1>1. ASSUME TinyDies, UNCHANGED <<version, handler, stack>> PROVE TypeInv'
  <2>1. net' \in [Connections -> Conn]
    BY <1>1, ShutTyped DEF TypeInv, TinyDies
  <2>2. backlog' \in [Servers -> Seq(Connections)] /\ alive' \in [Servers -> BOOLEAN]
    <3>1. <<>> \in Seq(Connections)
      OBVIOUS
    <3>2. backlog' = [backlog EXCEPT !["tiny"] = <<>>] /\ alive' = [alive EXCEPT !["tiny"] = FALSE]
      BY <1>1 DEF TinyDies
    <3>3. backlog' \in [Servers -> Seq(Connections)]
      BY <3>1, <3>2 DEF TypeInv
    <3> QED BY <3>2, <3>3 DEF TypeInv
  <2>3. tiny' \in TinyRegs /\ tiny'.pc # "write"
    BY <1>1 DEF TypeInv, TinyDies, TinyRegs, TinyPCs
  <2> QED BY <1>1, <2>1, <2>2, <2>3 DEF TypeInv, TinyDies
<1>2. ASSUME ProxyDies PROVE TypeInv'
  <2>1. net' \in [Connections -> Conn]
    <3>1. ASSUME NEW k \in Connections PROVE net'[k] \in Conn
      <4>1. net[k] \in Conn /\ Shut(net[k]) \in Conn /\ [net[k] EXCEPT !.client = "gone"] \in Conn
        <5>1. net[k] \in Conn
          BY DEF TypeInv
        <5> QED BY <5>1, ShutTyped DEF Conn
      <4>2. net'[k] \in {net[k], Shut(net[k]), [net[k] EXCEPT !.client = "gone"]}
        BY <1>2 DEF ProxyDies
      <4> QED BY <4>1, <4>2
    <3>2. DOMAIN net' = Connections /\ net' = [k \in Connections |-> net'[k]]
      BY <1>2 DEF ProxyDies
    <3> QED BY <3>1, <3>2
  <2>2. backlog' \in [Servers -> Seq(Connections)] /\ alive' \in [Servers -> BOOLEAN]
    <3>1. <<>> \in Seq(Connections)
      OBVIOUS
    <3>2. backlog' = [backlog EXCEPT !["proxy"] = <<>>] /\ alive' = [alive EXCEPT !["proxy"] = FALSE]
      BY <1>2 DEF ProxyDies
    <3>3. backlog' \in [Servers -> Seq(Connections)]
      BY <3>1, <3>2 DEF TypeInv
    <3> QED BY <3>2, <3>3 DEF TypeInv
  <2>3. handler' \in [Clients -> HandlerRegs] /\ \A c \in Clients : handler'[c].pc = "dead"
    BY <1>2, ZenonT(60) DEF TypeInv, ProxyDies, HandlerRegs, ProxyPCs
  <2> QED BY <1>2, <2>2, <2>1, <2>3 DEF TypeInv, ProxyDies
<1> QED BY <1>1, <1>2

-----------------------------------------------------------------------------
(* Who holds which connection. *)

Serving == {"request", "headers", "connect", "send", "relay", "write", "closeServer", "close"}
Calling == {"send", "relay", "write", "closeServer"}

\* The registers of Tiny: the process, its connection and its child belong together.
TinyShape ==
    /\ alive["tiny"] <=> tiny.pc # "dead"
    /\ alive["tiny"] => (tiny.conn = NoConnection <=> tiny.pc = "accept")
    /\ tiny.cgi # <<>> => tiny.pc = "wait"
    /\ tiny.pc = "write" => tiny.next # "accept"
    /\ alive["tiny"] /\ tiny.conn # NoConnection => net[tiny.conn].server = "open"
    /\ \A c \in Clients : tiny.conn = Down(c) => to[c] = "tiny"

\* A connection that waits to be accepted waits once, where its client put it.
QueueShape ==
    \A s \in Servers :
       /\ \A i \in 1 .. Len(backlog[s]) : net[backlog[s][i]].server = "queued"
       /\ \A i, j \in 1 .. Len(backlog[s]) : backlog[s][i] = backlog[s][j] => i = j
       /\ \A i \in 1 .. Len(backlog[s]), c \in Clients :
             /\ backlog[s][i] = Down(c) => to[c] = s
             /\ backlog[s][i] = Up(c) => s = "tiny"

\* A thread of the proxy has the connection it serves, and one to the origin when it has
\* called it.
HandlerOK(c) ==
    /\ handler[c].pc = "dead" <=> ~alive["proxy"]
    /\ to[c] = "tiny" => handler[c].pc \in {"idle", "dead"}
    /\ handler[c].pc = "idle" => handler[c] = Idle
    /\ handler[c].pc \in Serving => net[Down(c)].server = "open"
    /\ handler[c].pc = "idle" /\ to[c] = "proxy" => net[Down(c)].server \in {"none", "queued"}
    /\ handler[c].pc = "done" => net[Down(c)].server = "closed"
    /\ handler[c].pc \in {"idle", "request", "headers", "connect"} => net[Up(c)] = Closed
    /\ handler[c].pc \in Calling => net[Up(c)].server # "none" /\ net[Up(c)].client = "open"
    /\ handler[c].pc \in {"closeServer", "close", "done"} =>
          net[Up(c)].server \in {"none", "closed"}

HandlerShape == \A c \in Clients : HandlerOK(c)

NetShape == \A k \in Connections : net[k].server = "none" => net[k] = Closed

Struct == TinyShape /\ QueueShape /\ HandlerShape /\ NetShape

\* A server that is in the middle of a request has a connection.
LEMMA TinyHolds ==
    ASSUME TypeInv, Struct, alive["tiny"], tiny.pc # "accept"
    PROVE  tiny.conn \in Connections /\ net[tiny.conn].server = "open" /\ net[tiny.conn] \in Conn
<1>1. tiny.conn \in Connections \cup {NoConnection}
  BY DEF TypeInv, TinyRegs
<1>2. tiny.conn # NoConnection /\ net[tiny.conn].server = "open"
  BY DEF Struct, TinyShape
<1> QED BY <1>1, <1>2 DEF TypeInv

\* The steps of Tiny keep the types: in particular no line overflows its buffer.
LEMMA TinyTypeStep ==
    ASSUME TypeInv, Struct, TinyNext, UNCHANGED <<version, handler, stack>>
    PROVE  TypeInv'
<1> USE DEF At
<1>1. ASSUME TinyAccept PROVE TypeInv'
  <2>1. backlog["tiny"] \in Seq(Connections) /\ backlog["tiny"] # <<>>
    BY <1>1 DEF TypeInv, TinyAccept, Servers
  <2>2. PICK k \in Connections : k = Head(backlog["tiny"])
    BY <2>1
  <2>3. Tail(backlog["tiny"]) \in Seq(Connections)
    BY <2>1
  <2>4. /\ tiny' = [tiny EXCEPT !.pc = "request", !.conn = k, !.rio = rio_readinitb]
        /\ net' = [net EXCEPT ![k].server = "open"]
        /\ backlog' = [backlog EXCEPT !["tiny"] = Tail(backlog["tiny"])]
        /\ UNCHANGED <<request, to, alive>>
    BY <1>1, <2>2 DEF TinyAccept
  <2>5. backlog' \in [Servers -> Seq(Connections)]
    BY <2>3, <2>4 DEF TypeInv
  <2>6. net' \in [Connections -> Conn]
    BY <2>2, <2>4, ZenonT(60) DEF TypeInv, Conn
  <2>7. tiny' \in TinyRegs /\ tiny'.pc # "write"
    BY <2>2, <2>4, NewBuffers DEF TypeInv, TinyRegs, TinyPCs
  <2> QED BY <2>4, <2>5, <2>6, <2>7 DEF TypeInv
<1>2. ASSUME TinyRead PROVE TypeInv'
  <2>1. tiny.conn \in Connections /\ net[tiny.conn] \in Conn
    BY <1>2, TinyHolds DEF TinyRead
  <2>2. PICK r \in rio_readlineb(tiny.rio, Stream.up) :
          /\ tiny' = [tiny EXCEPT !.rio = r.rio]
          /\ net' = [net EXCEPT ![tiny.conn].up = r.in]
    BY <1>2 DEF TinyRead
  <2>3. tiny.rio \in Buffers /\ Stream.up \in Seq(Tokens)
    BY <2>1 DEF TypeInv, TinyRegs, Conn, Stream
  <2>4. r.rio \in Buffers /\ r.in \in Seq(Tokens)
    BY <2>3, ReadLineKeeps
  <2>5. net' \in [Connections -> Conn]
    BY <2>1, <2>2, <2>4 DEF TypeInv, Conn
  <2>6. tiny' \in TinyRegs /\ tiny'.pc # "write"
    BY <1>2, <2>2, <2>4 DEF TypeInv, TinyRegs, TinyRead
  <2> QED BY <1>2, <2>5, <2>6 DEF TypeInv, TinyRead
<1>3. ASSUME TinyReadFails \/ TinyWriteFails PROVE TypeInv'
  BY <1>3, DiesTyped DEF TinyReadFails, TinyWriteFails
<1>4. ASSUME TinyRequestLine PROVE TypeInv'
  <2>1. tiny.rio.line \in Seq(Tokens)
    BY DEF TypeInv, TinyRegs, Buffers
  <2>2. CASE tiny.rio.line = <<>>
    BY <1>4, <2>2, ZenonT(60) DEF TinyRequestLine, TypeInv, TinyRegs, TinyPCs, networkVars
  <2>3. CASE tiny.rio.line # <<>>
    <3>1. PICK method \in Scanned(Words(tiny.rio.line), 1, tiny.method),
               uri \in Scanned(Words(tiny.rio.line), 2, tiny.uri) :
              LET t == [tiny EXCEPT !.method = method, !.uri = uri, !.bufSet = FALSE,
                                    !.rio = NextLine(@)]
              IN  tiny' = IF method # "GET" THEN Answering(t, clienterror("501"), "close")
                          ELSE [t EXCEPT !.pc = "headers"]
      BY <1>4, <2>3 DEF TinyRequestLine
    <3>2. tiny.method \in Tokens /\ tiny.uri \in Tokens /\ tiny.rio \in Buffers
      BY DEF TypeInv, TinyRegs
    <3>3. method \in Tokens /\ uri \in Tokens
      BY <2>1, <3>2, WordsTyped, ScannedTyped
    <3>4. NextLine(tiny.rio) \in Buffers
      BY <3>2, NextLineTyped
    <3>5. PICK t : t = [tiny EXCEPT !.method = method, !.uri = uri, !.bufSet = FALSE,
                                    !.rio = NextLine(tiny.rio)]
      OBVIOUS
    <3>6. t \in TinyRegs
      BY <3>3, <3>4, <3>5 DEF TypeInv, TinyRegs
    <3>7. tiny' = IF method # "GET" THEN Answering(t, clienterror("501"), "close")
                          ELSE [t EXCEPT !.pc = "headers"]
      BY <3>1, <3>5
    <3>8. clienterror("501") \in Seq(Written) /\ clienterror("501") # <<>>
      BY AnswersTyped
    <3>9. tiny' \in TinyRegs /\ (tiny'.pc = "write" => tiny'.out # <<>>)
      BY <3>6, <3>7, <3>8 DEF Answering, TinyRegs, TinyPCs
    <3> QED BY <1>4, <3>9 DEF TypeInv, TinyRequestLine, networkVars
  <2> QED BY <2>2, <2>3
<1>5. ASSUME read_requesthdrs PROVE TypeInv'
  <2>1. NextLine(tiny.rio) \in Buffers
    BY NextLineTyped DEF TypeInv, TinyRegs
  <2>2. PICK t : t = [tiny EXCEPT !.rio = NextLine(tiny.rio)]
    OBVIOUS
  <2>3. t \in TinyRegs /\ t.pc = "headers"
    BY <1>5, <2>1, <2>2 DEF TypeInv, TinyRegs, read_requesthdrs
  <2>4. \/ tiny' = [t EXCEPT !.pc = "uri"]
        \/ tiny' = [t EXCEPT !.pc = "spin"]
        \/ tiny' = [t EXCEPT !.bufSet = TRUE]
    BY <1>5, <2>2 DEF read_requesthdrs
  <2>5. tiny' \in TinyRegs /\ tiny'.pc # "write"
    BY <2>3, <2>4 DEF TinyRegs, TinyPCs
  <2> QED BY <1>5, <2>5 DEF TypeInv, read_requesthdrs, networkVars
<1>6. ASSUME TinyLookup PROVE TypeInv'
  <2>1. PICK p : p = parse_uri(tiny.uri)
    OBVIOUS
  <2>2. p.uri \in Tokens /\ p.filename \in Tokens /\ p.cgiargs \in Tokens
    BY <2>1, ParsedTyped DEF TypeInv, TinyRegs
  <2>3. PICK t : t = [tiny EXCEPT !.uri = p.uri, !.filename = p.filename, !.cgiargs = p.cgiargs]
    OBVIOUS
  <2>4. t \in TinyRegs
    BY <2>2, <2>3 DEF TypeInv, TinyRegs
  <2>5. tiny' = CASE p.filename \notin Files -> Answering(t, clienterror("404"), "close")
                  [] p.filename \in Files \ Allowed -> Answering(t, clienterror("403"), "close")
                  [] p.static /\ p.filename \in Allowed -> Answering(t, StaticHead, "open")
                  [] OTHER -> Answering(t, DynamicHead, "fork")
    BY <1>6, <2>1, <2>3 DEF TinyLookup
  <2>6. \/ tiny' = Answering(t, clienterror("404"), "close")
        \/ tiny' = Answering(t, clienterror("403"), "close")
        \/ tiny' = Answering(t, StaticHead, "open")
        \/ tiny' = Answering(t, DynamicHead, "fork")
    <3>1. PICK a, b, c : a = (p.filename \notin Files) /\ b = (p.filename \in Files \ Allowed)
                         /\ c = (p.static /\ p.filename \in Allowed)
      OBVIOUS
    <3> QED BY <2>5
  <2>7. tiny' \in TinyRegs /\ tiny'.out # <<>>
    <3>1. ASSUME NEW out \in Seq(Written), out # <<>>, NEW next \in {"accept", "open", "fork", "close"},
                 tiny' = Answering(t, out, next)
          PROVE  tiny' \in TinyRegs /\ tiny'.out # <<>>
      BY <2>4, <3>1 DEF Answering, TinyRegs, TinyPCs
    <3> QED BY <2>6, <3>1, AnswersTyped
  <2> QED BY <1>6, <2>7 DEF TypeInv, TinyLookup, networkVars
<1>7. ASSUME TinyWrite PROVE TypeInv'
  <2>1. tiny.conn \in Connections /\ net[tiny.conn] \in Conn
    BY <1>7, TinyHolds DEF TinyWrite
  <2>2. tiny.out \in Seq(Written) /\ tiny.out # <<>>
    BY <1>7 DEF TypeInv, TinyRegs, TinyWrite
  <2>3. PICK h \in Written : h = Head(tiny.out)
    BY <2>2
  <2>4. PICK rest \in Seq(Written) : rest = Tail(tiny.out)
    BY <2>2, HeadTailProperties
  <2>5. PICK w \in rio_writen(h) :
          LET out == IF w[2] = <<>> THEN rest ELSE <<w[2]>> \o rest
          IN  /\ net' = [net EXCEPT ![tiny.conn].down = @ \o w[1]]
              /\ tiny' = [tiny EXCEPT !.out = out,
                                      !.pc = IF out = <<>> THEN tiny.next ELSE "write"]
    BY <1>7, <2>3, <2>4 DEF TinyWrite
  <2>6. w[1] \in Seq(Tokens) /\ w[2] \in Seq(Tokens)
    BY WriteKeeps
  <2>7. PICK out : out = IF w[2] = <<>> THEN rest ELSE <<w[2]>> \o rest
    OBVIOUS
  <2>8. out \in Seq(Written)
    <3>1. CASE w[2] = <<>>
      BY <2>7, <3>1
    <3>2. CASE w[2] # <<>>
      <4>1. <<w[2]>> \in Seq(Written)
        BY <2>6, <3>2 DEF Written
      <4>2. <<w[2]>> \o rest \in Seq(Written)
        BY <4>1
      <4> QED BY <2>7, <3>2, <4>2
    <3> QED BY <3>1, <3>2
  <2>9. PICK d : d = net[tiny.conn].down \o w[1]
    OBVIOUS
  <2>10. d \in Seq(Tokens)
    <3>1. net[tiny.conn].down \in Seq(Tokens)
      BY <2>1 DEF Conn
    <3> QED BY <2>6, <2>9, <3>1, CatTyped
  <2>11. net' = [net EXCEPT ![tiny.conn].down = d]
    BY <2>5, <2>9
  <2>12. net' \in [Connections -> Conn]
    BY <2>1, <2>10, <2>11 DEF TypeInv, Conn
  <2>13. tiny' = [tiny EXCEPT !.out = out, !.pc = IF out = <<>> THEN tiny.next ELSE "write"]
    BY <2>5, <2>7
  <2>14. tiny' \in TinyRegs /\ (tiny'.pc = "write" => tiny'.out # <<>>)
    BY <2>8, <2>13 DEF TypeInv, TinyRegs, TinyPCs
  <2> QED BY <1>7, <2>12, <2>14 DEF TypeInv, TinyWrite
<1>8. ASSUME TinyMap PROVE TypeInv'
  <2>1. CASE tiny.filename \notin Files \ Empty
    BY <1>8, <2>1, DiesTyped DEF TinyMap
  <2>2. CASE tiny.filename \in Files \ Empty
    <3>1. tiny' = Answering(tiny, StaticBody(tiny.filename), "close") /\ UNCHANGED networkVars
      BY <1>8, <2>2 DEF TinyMap
    <3>2. StaticBody(tiny.filename) \in Seq(Written) /\ StaticBody(tiny.filename) # <<>>
      BY AnswersTyped DEF TypeInv, TinyRegs
    <3>3. tiny' \in TinyRegs /\ tiny'.out # <<>>
      BY <3>1, <3>2 DEF TypeInv, Answering, TinyRegs, TinyPCs
    <3> QED BY <3>1, <3>3 DEF TypeInv, networkVars
  <2> QED BY <2>1, <2>2
<1>9. ASSUME TinyFork PROVE TypeInv'
  <2>1. adder(tiny.cgiargs) \in Seq(Tokens)
    BY AnswersTyped DEF TypeInv, TinyRegs
  <2>2. tiny' \in TinyRegs /\ tiny'.pc # "write"
    BY <1>9, <2>1 DEF TypeInv, TinyFork, TinyRegs, TinyPCs
  <2> QED BY <1>9, <2>2 DEF TypeInv, TinyFork, networkVars
<1>10. ASSUME CgiWrite PROVE TypeInv'
  <2>1. tiny.conn \in Connections /\ net[tiny.conn] \in Conn /\ tiny.pc = "wait"
    <3>1. tiny.pc = "wait" /\ alive["tiny"]
      BY <1>10 DEF CgiWrite, Struct, TinyShape
    <3> QED BY <3>1, TinyHolds
  <2>2. CASE tiny' = [tiny EXCEPT !.cgi = <<>>] /\ UNCHANGED net
    <3>1. tiny' \in TinyRegs /\ tiny'.pc # "write"
      <4>1. <<>> \in Seq(Tokens)
        OBVIOUS
      <4> QED BY <2>1, <2>2, <4>1 DEF TypeInv, TinyRegs
    <3> QED BY <1>10, <2>2, <3>1 DEF TypeInv, CgiWrite
  <2>3. ASSUME NEW w \in rio_writen(tiny.cgi),
               net' = [net EXCEPT ![tiny.conn].down = @ \o w[1]],
               tiny' = [tiny EXCEPT !.cgi = w[2]]
        PROVE  TypeInv'
    <3>1. tiny.cgi \in Written
      BY <1>10 DEF CgiWrite, TypeInv, TinyRegs, Written
    <3>2. w[1] \in Seq(Tokens) /\ w[2] \in Seq(Tokens)
      BY <3>1, WriteKeeps
    <3>3. PICK d : d = net[tiny.conn].down \o w[1]
      OBVIOUS
    <3>4. d \in Seq(Tokens)
      <4>1. net[tiny.conn].down \in Seq(Tokens)
        BY <2>1 DEF Conn
      <4> QED BY <3>2, <3>3, <4>1, CatTyped
    <3>5. net' = [net EXCEPT ![tiny.conn].down = d]
      BY <2>3, <3>3
    <3>6. net' \in [Connections -> Conn]
      BY <2>1, <3>4, <3>5 DEF TypeInv, Conn
    <3>7. tiny' \in TinyRegs /\ tiny'.pc # "write"
      BY <2>1, <2>3, <3>2 DEF TypeInv, TinyRegs
    <3> QED BY <1>10, <3>6, <3>7 DEF TypeInv, CgiWrite
  <2> QED BY <1>10, <2>2, <2>3 DEF CgiWrite
<1>11. ASSUME TinyWait PROVE TypeInv'
  BY <1>11 DEF TypeInv, TinyWait, networkVars, TinyRegs, TinyPCs
<1>12. ASSUME TinyClose PROVE TypeInv'
  <2>1. tiny.conn \in Connections /\ net[tiny.conn] \in Conn
    BY <1>12, TinyHolds DEF TinyClose
  <2>2. net' \in [Connections -> Conn]
    BY <1>12, <2>1, ShutTyped DEF TinyClose, TypeInv
  <2>3. tiny' \in TinyRegs /\ tiny'.pc # "write"
    BY <1>12 DEF TypeInv, TinyClose, TinyRegs, TinyPCs
  <2> QED BY <1>12, <2>2, <2>3 DEF TypeInv, TinyClose
<1> QED BY <1>1, <1>2, <1>3, <1>4, <1>5, <1>6, <1>7, <1>8, <1>9, <1>10, <1>11, <1>12 DEF TinyNext

LEMMA HandlerKnown ==
    ASSUME TypeInv, NEW c \in Clients
    PROVE  /\ handler[c] \in HandlerRegs
           /\ handler[c].rio \in Buffers /\ handler[c].server \in Buffers
           /\ handler[c].method \in Tokens /\ handler[c].uri \in Tokens
           /\ handler[c].hostname \in Tokens /\ handler[c].path \in Tokens
           /\ handler[c].words \in Seq(Tokens) /\ handler[c].host \in Tokens
           /\ handler[c].out \in Seq(Tokens)
           /\ net[Down(c)] \in Conn /\ net[Up(c)] \in Conn
           /\ net[Down(c)].up \in Seq(Tokens) /\ net[Down(c)].down \in Seq(Tokens)
           /\ net[Up(c)].up \in Seq(Tokens) /\ net[Up(c)].down \in Seq(Tokens)
<1>1. handler[c] \in HandlerRegs
  BY DEF TypeInv
<1>2. net[Down(c)] \in Conn /\ net[Up(c)] \in Conn
  BY Ends DEF TypeInv
<1>3. /\ handler[c].rio \in Buffers /\ handler[c].server \in Buffers
      /\ handler[c].method \in Tokens /\ handler[c].uri \in Tokens
      /\ handler[c].hostname \in Tokens /\ handler[c].path \in Tokens
      /\ handler[c].words \in Seq(Tokens) /\ handler[c].host \in Tokens
      /\ handler[c].out \in Seq(Tokens)
  BY <1>1 DEF HandlerRegs
<1> QED BY <1>1, <1>2, <1>3 DEF Conn

\* One thread of the proxy takes a step that leaves the others alone.
LEMMA HandlerTyped ==
    ASSUME TypeInv, NEW c \in Clients, NEW h \in HandlerRegs,
           h.pc \in {"connect", "send", "write"} => h.out # <<>>,
           handler' = [handler EXCEPT ![c] = h],
           net' \in [Connections -> Conn], backlog' \in [Servers -> Seq(Connections)],
           stack' \in StackRegs, UNCHANGED <<request, to, alive, tiny>>
    PROVE  TypeInv'
<1>1. handler' \in [Clients -> HandlerRegs]
  BY DEF TypeInv
<1>2. ASSUME NEW d \in Clients, handler'[d].pc \in {"connect", "send", "write"} PROVE handler'[d].out # <<>>
  <2>1. CASE d = c
    BY <1>2, <2>1 DEF TypeInv
  <2>2. CASE d # c
    BY <1>2, <2>2 DEF TypeInv
  <2> QED BY <2>1, <2>2
<1> QED BY <1>1, <1>2 DEF TypeInv

\* The steps of the proxy keep the types.
LEMMA ProxyTypeStep ==
    ASSUME TypeInv, NEW c \in Clients, ProxyNext(c)
    PROVE  TypeInv'
<1> USE DEF ProxyAt
<1> PICK h : h = handler[c]
  OBVIOUS
<1>0. /\ h \in HandlerRegs
      /\ h.rio \in Buffers /\ h.server \in Buffers
      /\ h.method \in Tokens /\ h.uri \in Tokens /\ h.hostname \in Tokens /\ h.path \in Tokens
      /\ h.words \in Seq(Tokens) /\ h.host \in Tokens /\ h.out \in Seq(Tokens)
  BY HandlerKnown
<1>a. /\ Down(c) \in Connections /\ Up(c) \in Connections
      /\ net[Down(c)].up \in Seq(Tokens) /\ net[Down(c)].down \in Seq(Tokens)
      /\ net[Up(c)].up \in Seq(Tokens) /\ net[Up(c)].down \in Seq(Tokens)
      /\ net[Down(c)] \in Conn /\ net[Up(c)] \in Conn
  BY Ends, HandlerKnown
<1>b. /\ net \in [Connections -> Conn] /\ backlog \in [Servers -> Seq(Connections)]
      /\ stack \in StackRegs
  BY DEF TypeInv
<1>c. stack.method \in Tokens /\ stack.uri \in Tokens /\ stack.path \in Tokens
      /\ stack.host \in Tokens /\ stack.words \in Seq(Tokens)
  BY <1>b DEF StackRegs
<1>1. ASSUME ProxyAccept(c) PROVE TypeInv'
  <2>1. backlog["proxy"] \in Seq(Connections) /\ backlog["proxy"] # <<>>
    BY <1>b, <1>1 DEF ProxyAccept, Servers
  <2>2. Tail(backlog["proxy"]) \in Seq(Connections)
    BY <2>1
  <2>3. backlog' \in [Servers -> Seq(Connections)]
    BY <1>b, <1>1, <2>2 DEF ProxyAccept
  <2>4. net' \in [Connections -> Conn]
    BY <1>a, <1>b, <1>1 DEF ProxyAccept, Conn
  <2>5. PICK g : g = [h EXCEPT !.pc = "request"]
    OBVIOUS
  <2>6. g \in HandlerRegs /\ g.pc = "request"
    BY <1>0, <2>5 DEF HandlerRegs, ProxyPCs
  <2>7. handler' = [handler EXCEPT ![c] = g]
    BY <1>1, <2>5 DEF ProxyAccept, Goto
  <2>8. stack' \in StackRegs /\ UNCHANGED <<request, to, alive, tiny>>
    BY <1>1, <1>b DEF ProxyAccept
  <2> QED BY <2>3, <2>4, <2>6, <2>7, <2>8, HandlerTyped
<1>2. ASSUME ProxyRead(c) PROVE TypeInv'
  <2>1. PICK r \in rio_readlineb(h.rio, net[Down(c)].up) :
          /\ handler' = [handler EXCEPT ![c].rio = r.rio]
          /\ net' = [net EXCEPT ![Down(c)].up = r.in]
    BY <1>2 DEF ProxyRead
  <2>2. r.rio \in Buffers /\ r.in \in Seq(Tokens)
    BY <1>0, <1>a, ReadLineKeeps
  <2>3. PICK g : g = [h EXCEPT !.rio = r.rio]
    OBVIOUS
  <2>4. g \in HandlerRegs /\ g.pc \notin {"connect", "send", "write"}
    BY <1>0, <1>2, <2>2, <2>3 DEF HandlerRegs, ProxyRead
  <2>5. handler' = [handler EXCEPT ![c] = g]
    BY <2>1, <2>3
  <2>6. net' \in [Connections -> Conn]
    BY <1>a, <1>b, <2>1, <2>2 DEF Conn
  <2>7. backlog' \in [Servers -> Seq(Connections)] /\ stack' \in StackRegs
        /\ UNCHANGED <<request, to, alive, tiny>>
    BY <1>b, <1>2 DEF ProxyRead
  <2> QED BY <2>4, <2>5, <2>6, <2>7, HandlerTyped
<1>3. ASSUME ProxyReadFails(c) \/ OriginFails(c) \/ ProxyWriteFails(c) PROVE TypeInv'
  BY <1>3, DiesTyped DEF ProxyReadFails, OriginFails, ProxyWriteFails
<1>4. ASSUME ProxyRequestLine(c) PROVE TypeInv'
  <2>a. PICK words \in IF h.rio.line = <<>> THEN {stack.words, <<Unset>>} ELSE {Words(h.rio.line)} :
          \E method \in Scanned(words, 1, stack.method), uri \in Scanned(words, 2, stack.uri) :
          \E path \in ParsedPaths(uri) :
          handler' = [handler EXCEPT ![c] =
             [@ EXCEPT !.method = method, !.uri = uri, !.path = path, !.words = words,
                       !.hostname = ParsedHost(uri), !.rio = NextLine(handler[c].rio),
                       !.pc = IF method # "GET" THEN "close" ELSE "headers"]]
    BY <1>4 DEF ProxyRequestLine
  <2>b. PICK method \in Scanned(words, 1, stack.method), uri \in Scanned(words, 2, stack.uri) :
          \E path \in ParsedPaths(uri) :
          handler' = [handler EXCEPT ![c] =
             [@ EXCEPT !.method = method, !.uri = uri, !.path = path, !.words = words,
                       !.hostname = ParsedHost(uri), !.rio = NextLine(handler[c].rio),
                       !.pc = IF method # "GET" THEN "close" ELSE "headers"]]
    BY <2>a
  <2>1. PICK path \in ParsedPaths(uri) :
          handler' = [handler EXCEPT ![c] =
             [@ EXCEPT !.method = method, !.uri = uri, !.path = path, !.words = words,
                       !.hostname = ParsedHost(uri), !.rio = NextLine(handler[c].rio),
                       !.pc = IF method # "GET" THEN "close" ELSE "headers"]]
    BY <2>b
  <2>2. words \in Seq(Tokens)
    <3>1. <<Unset>> \in Seq(Tokens)
      BY Literals
    <3>2. h.rio.line \in Seq(Tokens)
      BY <1>0 DEF Buffers
    <3>3. Words(h.rio.line) \in Seq(Tokens)
      BY <3>2, WordsTyped
    <3> QED BY <1>c, <3>1, <3>3
  <2>3. method \in Tokens /\ uri \in Tokens
    BY <1>c, <2>2, ScannedTyped
  <2>4. path \in Tokens /\ ParsedHost(uri) \in Tokens
    BY <1>c, <2>3, Literals DEF ParsedPaths, ParsedHost, Origin
  <2>5. PICK g : g = [h EXCEPT !.method = method, !.uri = uri, !.path = path, !.words = words,
                       !.hostname = ParsedHost(uri), !.rio = NextLine(h.rio),
                       !.pc = IF method # "GET" THEN "close" ELSE "headers"]
    OBVIOUS
  <2>6. NextLine(h.rio) \in Buffers
    BY <1>0, NextLineTyped
  <2>7. g \in HandlerRegs /\ g.pc \notin {"connect", "send", "write"}
    BY <1>0, <2>2, <2>3, <2>4, <2>5, <2>6 DEF HandlerRegs, ProxyPCs
  <2>8. handler' = [handler EXCEPT ![c] = g]
    BY <2>1, <2>5
  <2>9. UNCHANGED <<net, backlog, stack, request, to, alive, tiny>>
    BY <1>4 DEF ProxyRequestLine, networkVars
  <2> QED BY <1>b, <2>7, <2>8, <2>9, HandlerTyped
<1>5. ASSUME ProxyHeaderLine(c) PROVE TypeInv'
  <2>1. h.rio.line \in Seq(Tokens) /\ h.rio.line # <<>>
    BY <1>0, <1>5 DEF Buffers, ProxyHeaderLine
  <2>2. PICK host : host = IF h.rio.line[1] \in HostHeaders THEN h.rio.line[1] ELSE h.host
    OBVIOUS
  <2>3. host \in Tokens
    BY <1>0, <2>1, <2>2
  <2>4. PICK g : g = [h EXCEPT !.rio = NextLine(h.rio), !.host = host]
    OBVIOUS
  <2>5. NextLine(h.rio) \in Buffers
    BY <1>0, NextLineTyped
  <2>6. g \in HandlerRegs /\ g.pc = "headers"
    BY <1>0, <1>5, <2>3, <2>4, <2>5 DEF HandlerRegs, ProxyHeaderLine
  <2>7. handler' = [handler EXCEPT ![c] = g]
    BY <1>5, <2>2, <2>4 DEF ProxyHeaderLine
  <2>8. UNCHANGED <<net, backlog, stack, request, to, alive, tiny>>
    BY <1>5 DEF ProxyHeaderLine, networkVars
  <2> QED BY <1>b, <2>6, <2>7, <2>8, HandlerTyped
<1>6. ASSUME build_http_header(c) PROVE TypeInv'
  <2>1. PICK host \in HostLines(h), other \in OtherHdr :
          handler' = [handler EXCEPT ![c] =
             [@ EXCEPT !.pc = "connect", !.host = host,
                       !.out = <<"GET", h.path, NL, host, NL>> \o other \o <<NL>>]]
    BY <1>6 DEF build_http_header
  <2>2. host \in Tokens
    BY <1>0, <1>c, Literals DEF HostLines
  <2>3. <<"GET", h.path, NL, host, NL>> \in Seq(Tokens) /\ <<NL>> \in Seq(Tokens)
    BY <1>0, <2>2, Literals
  <2>4. other \in Seq(Tokens)
    BY HeadersAssumption
  <2>5. PICK out : out = <<"GET", h.path, NL, host, NL>> \o other \o <<NL>>
    OBVIOUS
  <2>6. out \in Seq(Tokens) /\ out # <<>>
    BY <2>3, <2>4, <2>5
  <2>7. PICK g : g = [h EXCEPT !.pc = "connect", !.host = host, !.out = out]
    OBVIOUS
  <2>8. g \in HandlerRegs /\ g.out # <<>>
    BY <1>0, <2>2, <2>6, <2>7 DEF HandlerRegs, ProxyPCs
  <2>9. handler' = [handler EXCEPT ![c] = g]
    BY <2>1, <2>5, <2>7
  <2>10. UNCHANGED <<net, backlog, stack, request, to, alive, tiny>>
    BY <1>6 DEF build_http_header, networkVars
  <2> QED BY <1>b, <2>8, <2>9, <2>10, HandlerTyped
<1>7. ASSUME connect_endServer(c) PROVE TypeInv'
  <2>1. CASE h.hostname = Origin /\ alive["tiny"]
    <3>1. /\ net' = [net EXCEPT ![Up(c)] = Opened(<<>>, FALSE)]
          /\ backlog' = [backlog EXCEPT !["tiny"] = Append(@, Up(c))]
          /\ handler' = [handler EXCEPT ![c].pc = "send"]
          /\ UNCHANGED <<request, to, alive, tiny, version, stack>>
      BY <1>7, <2>1 DEF connect_endServer, open_clientfd, Goto
    <3>2. Opened(<<>>, FALSE) \in Conn
      <4>1. <<>> \in Seq(Tokens) /\ FALSE \in BOOLEAN
        OBVIOUS
      <4> QED BY <4>1, OpenedTyped
    <3>3. net' \in [Connections -> Conn]
      BY <1>b, <3>1, <3>2
    <3>4. backlog["tiny"] \in Seq(Connections)
      BY <1>b DEF Servers
    <3>5. Append(backlog["tiny"], Up(c)) \in Seq(Connections)
      BY <1>a, <3>4
    <3>6. backlog' \in [Servers -> Seq(Connections)]
      BY <1>b, <3>1, <3>5
    <3>7. PICK g : g = [h EXCEPT !.pc = "send"]
      OBVIOUS
    <3>8. h.out # <<>>
      BY <1>7 DEF TypeInv, connect_endServer
    <3>9. g \in HandlerRegs /\ g.out # <<>>
      BY <1>0, <3>7, <3>8 DEF HandlerRegs, ProxyPCs
    <3>10. handler' = [handler EXCEPT ![c] = g]
      BY <3>1, <3>7
    <3> QED BY <1>b, <3>1, <3>3, <3>6, <3>9, <3>10, HandlerTyped
  <2>2. CASE ~(h.hostname = Origin /\ alive["tiny"])
    BY <1>7, <2>2, DiesTyped DEF connect_endServer
  <2> QED BY <2>1, <2>2
<1>8. ASSUME ProxySend(c) PROVE TypeInv'
  <2>1. PICK w \in rio_writen(h.out) :
          /\ net' = [net EXCEPT ![Up(c)].up = @ \o w[1]]
          /\ handler' = [handler EXCEPT ![c] =
                [@ EXCEPT !.out = w[2], !.pc = IF w[2] = <<>> THEN "relay" ELSE "send"]]
    BY <1>8 DEF ProxySend
  <2>2. h.out \in Written
    BY <1>0, <1>8 DEF ProxySend, TypeInv, Written
  <2>3. w[1] \in Seq(Tokens) /\ w[2] \in Seq(Tokens)
    BY <2>2, WriteKeeps
  <2>4. PICK u : u = net[Up(c)].up \o w[1]
    OBVIOUS
  <2>5. u \in Seq(Tokens)
    BY <1>a, <2>3, <2>4, CatTyped
  <2>6. net' = [net EXCEPT ![Up(c)].up = u]
    BY <2>1, <2>4
  <2>7. net' \in [Connections -> Conn]
    BY <1>a, <1>b, <2>5, <2>6 DEF Conn
  <2>8. PICK g : g = [h EXCEPT !.out = w[2], !.pc = IF w[2] = <<>> THEN "relay" ELSE "send"]
    OBVIOUS
  <2>9. g \in HandlerRegs /\ (g.pc # "relay" => g.out # <<>>)
    BY <1>0, <2>3, <2>8 DEF HandlerRegs, ProxyPCs
  <2>10. handler' = [handler EXCEPT ![c] = g]
    BY <2>1, <2>8
  <2>11. UNCHANGED <<request, to, backlog, alive, tiny, stack>>
    BY <1>8 DEF ProxySend
  <2> QED BY <1>b, <2>7, <2>9, <2>10, <2>11, HandlerTyped
<1>9. ASSUME ProxyRelayRead(c) PROVE TypeInv'
  <2>1. PICK r \in rio_readlineb(h.server, net[Up(c)].down) :
          /\ handler' = [handler EXCEPT ![c].server = r.rio]
          /\ net' = [net EXCEPT ![Up(c)].down = r.in]
    BY <1>9 DEF ProxyRelayRead
  <2>2. r.rio \in Buffers /\ r.in \in Seq(Tokens)
    BY <1>0, <1>a, ReadLineKeeps
  <2>3. PICK g : g = [h EXCEPT !.server = r.rio]
    OBVIOUS
  <2>4. g \in HandlerRegs /\ g.pc = "relay"
    BY <1>0, <1>9, <2>2, <2>3 DEF HandlerRegs, ProxyRelayRead
  <2>5. handler' = [handler EXCEPT ![c] = g]
    BY <2>1, <2>3
  <2>6. net' \in [Connections -> Conn]
    BY <1>a, <1>b, <2>1, <2>2 DEF Conn
  <2>7. backlog' \in [Servers -> Seq(Connections)] /\ stack' \in StackRegs
        /\ UNCHANGED <<request, to, alive, tiny>>
    BY <1>b, <1>9 DEF ProxyRelayRead
  <2> QED BY <2>4, <2>5, <2>6, <2>7, HandlerTyped
<1>10. ASSUME ProxyRelayLine(c) PROVE TypeInv'
  <2>1. h.server.line \in Seq(Tokens)
    BY <1>0 DEF Buffers
  <2>2. PICK words : words = IF h.server.line = <<>> THEN h.words ELSE Words(h.server.line)
    OBVIOUS
  <2>3. words \in Seq(Tokens)
    BY <1>0, <2>1, <2>2, WordsTyped
  <2>4. NextLine(h.server) \in Buffers
    BY <1>0, NextLineTyped
  <2>5. PICK g : g = [h EXCEPT !.server = NextLine(h.server), !.out = h.server.line, !.words = words,
                    !.pc = IF h.server.line = <<>> THEN "closeServer" ELSE "write"]
    OBVIOUS
  <2>6. g \in HandlerRegs /\ (g.pc # "closeServer" => g.out # <<>>)
    BY <1>0, <2>1, <2>3, <2>4, <2>5 DEF HandlerRegs, ProxyPCs
  <2>7. g.pc \in {"closeServer", "write"}
    BY <1>0, <2>5 DEF HandlerRegs
  <2>8. handler' = [handler EXCEPT ![c] = g]
    BY <1>10, <2>2, <2>5 DEF ProxyRelayLine
  <2>9. UNCHANGED <<net, backlog, stack, request, to, alive, tiny>>
    BY <1>10 DEF ProxyRelayLine, networkVars
  <2> QED BY <1>b, <2>6, <2>7, <2>8, <2>9, HandlerTyped
<1>11. ASSUME ProxyWrite(c) PROVE TypeInv'
  <2>1. PICK w \in rio_writen(h.out) :
          /\ net' = [net EXCEPT ![Down(c)].down = @ \o w[1]]
          /\ handler' = [handler EXCEPT ![c] =
                [@ EXCEPT !.out = w[2], !.pc = IF w[2] = <<>> THEN "relay" ELSE "write"]]
    BY <1>11 DEF ProxyWrite
  <2>2. h.out \in Written
    BY <1>0, <1>11 DEF ProxyWrite, TypeInv, Written
  <2>3. w[1] \in Seq(Tokens) /\ w[2] \in Seq(Tokens)
    BY <2>2, WriteKeeps
  <2>4. PICK u : u = net[Down(c)].down \o w[1]
    OBVIOUS
  <2>5. u \in Seq(Tokens)
    BY <1>a, <2>3, <2>4, CatTyped
  <2>6. net' = [net EXCEPT ![Down(c)].down = u]
    BY <2>1, <2>4
  <2>7. net' \in [Connections -> Conn]
    BY <1>a, <1>b, <2>5, <2>6 DEF Conn
  <2>8. PICK g : g = [h EXCEPT !.out = w[2], !.pc = IF w[2] = <<>> THEN "relay" ELSE "write"]
    OBVIOUS
  <2>9. g \in HandlerRegs /\ (g.pc # "relay" => g.out # <<>>)
    BY <1>0, <2>3, <2>8 DEF HandlerRegs, ProxyPCs
  <2>10. handler' = [handler EXCEPT ![c] = g]
    BY <2>1, <2>8
  <2>11. UNCHANGED <<request, to, backlog, alive, tiny, stack>>
    BY <1>11 DEF ProxyWrite
  <2> QED BY <1>b, <2>7, <2>9, <2>10, <2>11, HandlerTyped
<1>12. ASSUME ProxyCloseServer(c) PROVE TypeInv'
  <2>1. net' \in [Connections -> Conn]
    BY <1>a, <1>b, <1>12 DEF ProxyCloseServer, Conn
  <2>2. PICK g : g = [h EXCEPT !.pc = "close"]
    OBVIOUS
  <2>3. g \in HandlerRegs /\ g.pc = "close"
    BY <1>0, <2>2 DEF HandlerRegs, ProxyPCs
  <2>4. handler' = [handler EXCEPT ![c] = g]
    BY <1>12, <2>2 DEF ProxyCloseServer, Goto
  <2>5. backlog' \in [Servers -> Seq(Connections)] /\ stack' \in StackRegs
        /\ UNCHANGED <<request, to, alive, tiny>>
    BY <1>b, <1>12 DEF ProxyCloseServer
  <2> QED BY <2>1, <2>3, <2>4, <2>5, HandlerTyped
<1>13. ASSUME ProxyClose(c) PROVE TypeInv'
  <2>1. net' \in [Connections -> Conn]
    BY <1>a, <1>b, <1>13, ShutTyped DEF ProxyClose
  <2>2. Idle \in HandlerRegs
    BY Literals, NewBuffers DEF Idle, HandlerRegs, ProxyPCs
  <2>3. PICK g : g = [Idle EXCEPT !.pc = "done"]
    OBVIOUS
  <2>4. g \in HandlerRegs /\ g.pc = "done"
    BY <2>2, <2>3 DEF HandlerRegs, ProxyPCs
  <2>5. handler' = [handler EXCEPT ![c] = g]
    BY <1>13, <2>3 DEF ProxyClose
  <2>6. stack' \in StackRegs
    BY <1>0, <1>c, <1>13 DEF ProxyClose, StackRegs
  <2>7. backlog' \in [Servers -> Seq(Connections)] /\ UNCHANGED <<request, to, alive, tiny>>
    BY <1>b, <1>13 DEF ProxyClose
  <2> QED BY <2>1, <2>4, <2>5, <2>6, <2>7, HandlerTyped
<1> QED BY <1>1, <1>2, <1>3, <1>4, <1>5, <1>6, <1>7, <1>8, <1>9, <1>10, <1>11, <1>12, <1>13
        DEF ProxyNext

\* Clients come and go.
LEMMA ClientTypeStep ==
    ASSUME TypeInv, NEW c \in Clients, ConnectStep(c) \/ LeaveStep(c)
    PROVE  TypeInv'
<1>0. Down(c) \in Connections /\ Down(c) = <<c, "client">>
  BY Ends DEF Down
<1>1. CASE ConnectStep(c)
  <2>1. /\ net' = [net EXCEPT ![Down(c)] = Opened(request[c], ~Whole(request[c]))]
        /\ backlog' = [backlog EXCEPT ![to[c]] = Append(@, Down(c))]
        /\ UNCHANGED <<request, to, alive, tiny, handler, stack>>
    BY <1>0, <1>1 DEF ConnectStep, Connect
  <2>2. request[c] \in Seq(Tokens) /\ (~Whole(request[c])) \in BOOLEAN /\ to[c] \in Servers
    BY DEF TypeInv, Whole
  <2>3. Opened(request[c], ~Whole(request[c])) \in Conn
    BY <2>2, OpenedTyped
  <2>4. net' \in [Connections -> Conn]
    BY <2>1, <2>3 DEF TypeInv
  <2>5. backlog[to[c]] \in Seq(Connections)
    BY <2>2 DEF TypeInv
  <2>6. Append(backlog[to[c]], Down(c)) \in Seq(Connections)
    BY <1>0, <2>5
  <2>7. backlog' \in [Servers -> Seq(Connections)]
    BY <2>1, <2>6 DEF TypeInv
  <2> QED BY <2>1, <2>4, <2>7 DEF TypeInv
<1>2. CASE LeaveStep(c)
  <2>1. net' \in [Connections -> Conn]
    BY <1>0, <1>2 DEF LeaveStep, Leave, TypeInv, Conn
  <2> QED BY <1>2, <2>1 DEF LeaveStep, Leave, TypeInv
<1> QED BY <1>1, <1>2

LEMMA TypeStep == ASSUME TypeInv, Struct, [Next]_webVars PROVE TypeInv'
<1>1. CASE UNCHANGED webVars
  BY <1>1 DEF TypeInv, webVars, networkVars
<1>2. CASE Next
  BY <1>2, ClientTypeStep, TinyTypeStep, ProxyTypeStep DEF Next, ServerStep, TinyStep
<1> QED BY <1>1, <1>2

-----------------------------------------------------------------------------
(* Every step keeps that shape. *)

\* Data goes over connections that are there; none is opened, accepted or closed.
Quiet ==
    /\ \A k \in Connections : /\ net'[k].server = net[k].server
                              /\ net'[k] = net[k] \/ net[k].server # "none"
    /\ \A c \in Clients : net'[Up(c)].client = net[Up(c)].client

LEMMA QuietData ==
    ASSUME TypeInv, NEW k \in Connections, net[k].server # "none", NEW x,
           \/ net' = [net EXCEPT ![k].up = x]
           \/ net' = [net EXCEPT ![k].down = x]
    PROVE  Quiet
<1>1. \A j \in Connections : /\ net'[j].server = net[j].server /\ net'[j].client = net[j].client
                             /\ net'[j] = net[j] \/ net[j].server # "none"
  BY DEF TypeInv, Conn
<1> QED BY <1>1, Ends DEF Quiet

LEMMA QuietUnchanged == net' = net => Quiet
BY DEF Quiet

LEMMA QuietQueues ==
    ASSUME TypeInv, QueueShape, NetShape, Quiet, UNCHANGED <<backlog, to>>
    PROVE  QueueShape' /\ NetShape'
<1>1. ASSUME NEW s \in Servers, NEW i \in 1 .. Len(backlog[s]) PROVE backlog[s][i] \in Connections
  <2>1. backlog[s] \in Seq(Connections)
    BY DEF TypeInv
  <2> QED BY <2>1
<1>a. \A k \in Connections : /\ net'[k].server = net[k].server
                             /\ net'[k] = net[k] \/ net[k].server # "none"
  BY DEF Quiet
<1>2. QueueShape'
  BY <1>1, <1>a DEF QueueShape
<1>3. NetShape'
  BY <1>a DEF NetShape
<1> QED BY <1>2, <1>3

LEMMA QuietHandler ==
    ASSUME NEW c \in Clients, HandlerOK(c), Quiet, UNCHANGED <<to, alive>>,
           handler'[c] = handler[c]
    PROVE  HandlerOK(c)'
<1>1. Down(c) \in Connections /\ Up(c) \in Connections
  BY Ends
<1>2. net[Up(c)] = Closed => net'[Up(c)] = Closed
  BY <1>1 DEF Quiet, Closed
<1>3. /\ net'[Up(c)].server = net[Up(c)].server /\ net'[Up(c)].client = net[Up(c)].client
      /\ net'[Down(c)].server = net[Down(c)].server
  BY <1>1 DEF Quiet
<1> QED BY <1>2, <1>3 DEF HandlerOK

LEMMA QuietTiny ==
    ASSUME TypeInv, TinyShape, Quiet, UNCHANGED <<to, alive>>, tiny'.conn = tiny.conn,
           tiny'.cgi # <<>> => tiny'.pc = "wait",
           tiny'.pc = "write" => tiny'.next # "accept",
           tiny.pc \notin {"accept", "dead"}, tiny'.pc \notin {"accept", "dead"}
    PROVE  TinyShape'
<1>1. tiny.conn \in Connections \cup {NoConnection}
  BY DEF TypeInv, TinyRegs
<1>2. tiny.conn \in Connections => net'[tiny.conn].server = net[tiny.conn].server
  BY DEF Quiet
<1> QED BY <1>1, <1>2 DEF TinyShape

LEMMA StillTiny ==
    ASSUME TypeInv, TinyShape, UNCHANGED <<to, tiny>>, alive'["tiny"] = alive["tiny"],
           tiny.conn \in Connections => net'[tiny.conn].server = net[tiny.conn].server
    PROVE  TinyShape'
<1>1. tiny.conn \in Connections \cup {NoConnection}
  BY DEF TypeInv, TinyRegs
<1> QED BY <1>1 DEF TinyShape

LEMMA StructInit == Init => Struct
<1> SUFFICES ASSUME Init PROVE Struct
  OBVIOUS
<1> USE DEF Init, NetworkInit, TinyInit, ProxyInit
<1>1. TinyShape
  <2>1. \A c \in Clients : NoConnection # Down(c)
    BY Ends
  <2> QED BY <2>1 DEF TinyShape, Servers
<1>2. QueueShape
  BY DEF QueueShape, open_listenfd
<1>3. HandlerShape
  <2>1. Idle.pc = "idle"
    BY DEF Idle
  <2>2. Closed.server = "none"
    BY DEF Closed
  <2> QED BY <2>1, <2>2, Ends DEF HandlerShape, HandlerOK, Serving, Calling, Servers
<1>4. NetShape
  BY DEF NetShape
<1> QED BY <1>1, <1>2, <1>3, <1>4 DEF Struct

\* The steps of Tiny that only take and give data
LEMMA TinyQuiet ==
    ASSUME TypeInv, Struct, Quiet, UNCHANGED <<backlog, to, alive, handler>>,
           tiny'.conn = tiny.conn, tiny'.cgi # <<>> => tiny'.pc = "wait",
           tiny'.pc = "write" => tiny'.next # "accept",
           tiny.pc \notin {"accept", "dead"}, tiny'.pc \notin {"accept", "dead"}
    PROVE  Struct'
<1>1. TinyShape'
  BY QuietTiny DEF Struct
<1>2. QueueShape' /\ NetShape'
  BY QuietQueues DEF Struct
<1>3. HandlerShape'
  BY QuietHandler DEF Struct, HandlerShape
<1> QED BY <1>1, <1>2, <1>3 DEF Struct

\* A connection that waits at one server waits nowhere else.
LEMMA Queued ==
    ASSUME TypeInv, Struct, NEW s \in Servers, NEW i \in 1 .. Len(backlog[s])
    PROVE  /\ backlog[s][i] \in Connections /\ net[backlog[s][i]].server = "queued"
           /\ \A r \in Servers : \A j \in 1 .. Len(backlog[r]) :
                 backlog[r][j] = backlog[s][i] => r = s /\ j = i
           /\ alive["tiny"] => tiny.conn # backlog[s][i]
<1>1. backlog[s] \in Seq(Connections)
  BY DEF TypeInv
<1>2. backlog[s][i] \in Connections /\ net[backlog[s][i]].server = "queued"
  BY <1>1 DEF Struct, QueueShape
<1>3. alive["tiny"] => tiny.conn # backlog[s][i]
  BY <1>2, Ends DEF Struct, TinyShape
<1>4. ASSUME NEW r \in Servers, NEW j \in 1 .. Len(backlog[r]), backlog[r][j] = backlog[s][i]
      PROVE  r = s /\ j = i
  <2>1. PICK c \in Clients : backlog[s][i] = Down(c) \/ backlog[s][i] = Up(c)
    BY <1>2, Ends
  <2>2. r = s
    BY <1>4, <2>1 DEF Struct, QueueShape
  <2> QED BY <1>4, <2>2 DEF Struct, QueueShape
<1> QED BY <1>2, <1>3, <1>4

\* accept: the connection that has waited longest leaves the queue.
LEMMA Dequeue ==
    ASSUME TypeInv, Struct, NEW s \in Servers, backlog[s] # <<>>,
           net' = [net EXCEPT ![Head(backlog[s])].server = "open"],
           backlog' = [backlog EXCEPT ![s] = Tail(@)], UNCHANGED to
    PROVE  /\ Head(backlog[s]) \in Connections /\ net[Head(backlog[s])].server = "queued"
           /\ QueueShape' /\ NetShape'
           /\ alive["tiny"] => tiny.conn # Head(backlog[s])
<1>1. backlog[s] \in Seq(Connections) /\ Len(backlog[s]) \in Nat /\ 1 \in 1 .. Len(backlog[s])
  BY DEF TypeInv
<1>2. PICK k : k = Head(backlog[s]) /\ k = backlog[s][1]
  BY <1>1
<1>3. /\ k \in Connections /\ net[k].server = "queued"
      /\ \A r \in Servers : \A j \in 1 .. Len(backlog[r]) :
            backlog[r][j] = k => r = s /\ j = 1
      /\ alive["tiny"] => tiny.conn # k
  BY <1>1, <1>2, Queued
<1>4. /\ Tail(backlog[s]) \in Seq(Connections)
      /\ Len(Tail(backlog[s])) = Len(backlog[s]) - 1
      /\ \A i \in 1 .. Len(Tail(backlog[s])) : Tail(backlog[s])[i] = backlog[s][i + 1]
  BY <1>1, HeadTailProperties
<1>5. ASSUME NEW r \in Servers, NEW i \in 1 .. Len(backlog'[r])
      PROVE  \E j \in 1 .. Len(backlog[r]) : backlog'[r][i] = backlog[r][j] /\ backlog[r][j] # k
                                             /\ j = IF r = s THEN i + 1 ELSE i
  <2>1. CASE r = s
    <3>1. backlog'[r] = Tail(backlog[s])
      BY <2>1 DEF TypeInv
    <3>2. i + 1 \in 1 .. Len(backlog[s]) /\ i + 1 # 1
      <4>1. PICK n \in Nat : n = Len(backlog[s])
        BY <1>1
      <4>2. i \in 1 .. n - 1
        BY <1>4, <3>1, <4>1
      <4> QED BY <4>1, <4>2
    <3>3. backlog'[r][i] = backlog[s][i + 1] /\ backlog[s][i + 1] # k
      BY <1>3, <1>4, <1>5, <3>1, <3>2
    <3> QED BY <2>1, <3>2, <3>3
  <2>2. CASE r # s
    <3>1. backlog'[r] = backlog[r]
      BY <2>2 DEF TypeInv
    <3> QED BY <1>3, <1>5, <2>2, <3>1
  <2> QED BY <2>1, <2>2
<1>6. ASSUME NEW j \in Connections, j # k PROVE net'[j] = net[j]
  BY <1>2, <1>6 DEF TypeInv
<1>7. net'[k].server = "open"
  BY <1>2, <1>3 DEF TypeInv, Conn
<1>8. ASSUME NEW r \in Servers, NEW j \in 1 .. Len(backlog[r])
      PROVE  backlog[r][j] \in Connections /\ net[backlog[r][j]].server = "queued"
  BY Queued
<1>9. QueueShape'
  <2>1. ASSUME NEW r \in Servers, NEW i \in 1 .. Len(backlog'[r])
        PROVE  /\ net'[backlog'[r][i]].server = "queued"
               /\ \A c \in Clients : /\ backlog'[r][i] = Down(c) => to[c] = r
                                     /\ backlog'[r][i] = Up(c) => r = "tiny"
    <3>1. PICK j \in 1 .. Len(backlog[r]) : backlog'[r][i] = backlog[r][j] /\ backlog[r][j] # k
      BY <1>5
    <3>2. net'[backlog'[r][i]].server = "queued"
      <4>1. PICK l : l = backlog[r][j]
        OBVIOUS
      <4>2. l \in Connections /\ net[l].server = "queued" /\ l # k /\ l = backlog'[r][i]
        BY <1>8, <3>1, <4>1
      <4>3. net'[l] = net[l]
        BY <1>6, <4>2
      <4> QED BY <4>2, <4>3
    <3>3. \A c \in Clients : /\ backlog[r][j] = Down(c) => to[c] = r
                             /\ backlog[r][j] = Up(c) => r = "tiny"
      BY DEF Struct, QueueShape
    <3> QED BY <3>1, <3>2, <3>3
  <2>2. ASSUME NEW r \in Servers, NEW i \in 1 .. Len(backlog'[r]), NEW j \in 1 .. Len(backlog'[r]),
               backlog'[r][i] = backlog'[r][j]
        PROVE  i = j
    <3>1. PICK a \in 1 .. Len(backlog[r]) : backlog'[r][i] = backlog[r][a]
                                            /\ a = IF r = s THEN i + 1 ELSE i
      BY <1>5
    <3>2. PICK b \in 1 .. Len(backlog[r]) : backlog'[r][j] = backlog[r][b]
                                            /\ b = IF r = s THEN j + 1 ELSE j
      BY <1>5
    <3>3. a = b
      BY <2>2, <3>1, <3>2 DEF Struct, QueueShape
    <3> QED BY <3>1, <3>2, <3>3
  <2> QED BY <2>1, <2>2 DEF QueueShape
<1>10. NetShape'
  BY <1>3, <1>6, <1>7 DEF Struct, NetShape
<1> QED BY <1>2, <1>3, <1>9, <1>10

LEMMA TinyDiesStruct ==
    ASSUME TypeInv, Struct, TinyDies, alive["tiny"], tiny.cgi = <<>>,
           UNCHANGED <<version, handler, stack>>
    PROVE  Struct'
<1>1. backlog["tiny"] \in Seq(Connections)
  BY DEF TypeInv, Servers
<1>2. ASSUME NEW k \in ToSet(backlog["tiny"])
      PROVE  \E i \in 1 .. Len(backlog["tiny"]) : k = backlog["tiny"][i]
  BY <1>1 DEF ToSet
<1>3. ASSUME NEW k \in Connections
      PROVE  \/ net'[k] = net[k]
             \/ /\ net'[k] = Shut(net[k]) /\ net[k].server \in {"open", "queued"}
                /\ \A c \in Clients : k = Down(c) => to[c] = "tiny"
  <2>1. CASE k = tiny.conn
    <3>1. net'[k] = Shut(net[k])
      BY <2>1 DEF TinyDies
    <3>2. net[k].server = "open" /\ \A c \in Clients : k = Down(c) => to[c] = "tiny"
      BY <2>1, Ends DEF Struct, TinyShape
    <3> QED BY <3>1, <3>2
  <2>2. CASE k \in ToSet(backlog["tiny"])
    <3>1. net'[k] = Shut(net[k])
      BY <2>2 DEF TinyDies
    <3>2. PICK i \in 1 .. Len(backlog["tiny"]) : k = backlog["tiny"][i]
      BY <1>2, <2>2
    <3>3. net[k].server = "queued" /\ \A c \in Clients : k = Down(c) => to[c] = "tiny"
      BY <3>2 DEF Struct, QueueShape, Servers
    <3> QED BY <3>1, <3>3
  <2>3. CASE k # tiny.conn /\ k \notin ToSet(backlog["tiny"])
    BY <2>3 DEF TinyDies
  <2> QED BY <2>1, <2>2, <2>3
<1>4. ASSUME NEW k \in Connections
      PROVE  \/ net'[k] = net[k]
             \/ /\ net'[k].server = "closed" /\ net'[k].client = net[k].client
                /\ net[k].server \in {"open", "queued"}
                /\ \A c \in Clients : k = Down(c) => to[c] = "tiny"
  <2>1. net[k] \in Conn
    BY DEF TypeInv
  <2> QED BY <1>3, <2>1, ShutTyped
<1>5. /\ UNCHANGED to /\ tiny' = [tiny EXCEPT !.pc = "dead"]
      /\ backlog' = [backlog EXCEPT !["tiny"] = <<>>] /\ alive' = [alive EXCEPT !["tiny"] = FALSE]
  BY DEF TinyDies
<1>6. TinyShape'
  BY <1>5 DEF Struct, TinyShape, TypeInv, TinyRegs, Servers
<1>7. QueueShape'
  <2>1. ASSUME NEW s \in Servers
        PROVE  /\ s = "tiny" => backlog'[s] = <<>>
               /\ s # "tiny" => s = "proxy" /\ backlog'[s] = backlog[s]
    BY <1>5 DEF TypeInv, Servers
  <2>2. ASSUME NEW i \in 1 .. Len(backlog["proxy"])
        PROVE  net'[backlog["proxy"][i]].server = "queued"
    <3>1. "proxy" \in Servers
      BY DEF Servers
    <3>2. backlog["proxy"][i] \in Connections /\ net[backlog["proxy"][i]].server = "queued"
      BY <3>1, Queued
    <3>3. PICK c \in Clients : backlog["proxy"][i] = Down(c) /\ to[c] = "proxy"
      BY <3>1, <3>2, Ends DEF Struct, QueueShape
    <3> QED BY <1>4, <3>2, <3>3
  <2> QED BY <1>5, <2>1, <2>2 DEF Struct, QueueShape
<1>8. HandlerShape'
  <2>1. ASSUME NEW c \in Clients PROVE HandlerOK(c)'
    <3>1. HandlerOK(c) /\ Down(c) \in Connections /\ Up(c) \in Connections
      BY Ends DEF Struct, HandlerShape
    <3>2. handler'[c] = handler[c] /\ to'[c] = to[c] /\ alive'["proxy"] = alive["proxy"]
      BY <1>5 DEF TypeInv
    <3>3. net[Up(c)] = Closed => net'[Up(c)] = Closed
      BY <1>4, <3>1 DEF Closed
    <3>4. to[c] = "proxy" => net'[Down(c)] = net[Down(c)]
      BY <1>4, <3>1
    <3>5. net[Down(c)].server = "closed" => net'[Down(c)].server = "closed"
      BY <1>4, <3>1
    <3>6. /\ net[Up(c)].server # "none" => net'[Up(c)].server # "none"
          /\ net'[Up(c)].client = net[Up(c)].client
          /\ net[Up(c)].server \in {"none", "closed"} => net'[Up(c)].server \in {"none", "closed"}
      BY <1>4, <3>1
    <3>7. to[c] \in {"tiny", "proxy"}
      BY DEF TypeInv, Servers
    <3> QED BY <3>1, <3>2, <3>3, <3>4, <3>5, <3>6, <3>7 DEF HandlerOK, Serving
  <2> QED BY <2>1 DEF HandlerShape
<1>9. NetShape'
  BY <1>4 DEF Struct, NetShape
<1> QED BY <1>6, <1>7, <1>8, <1>9 DEF Struct

LEMMA TinyAcceptStruct ==
    ASSUME TypeInv, Struct, TinyAccept, UNCHANGED <<version, handler, stack>>
    PROVE  Struct'
<1>1. PICK k : k = Head(backlog["tiny"])
  OBVIOUS
<1>2. /\ backlog["tiny"] # <<>> /\ alive["tiny"] /\ tiny.pc = "accept" /\ "tiny" \in Servers
      /\ tiny' = [tiny EXCEPT !.pc = "request", !.conn = k, !.rio = rio_readinitb]
      /\ net' = [net EXCEPT ![Head(backlog["tiny"])].server = "open"]
      /\ backlog' = [backlog EXCEPT !["tiny"] = Tail(@)]
      /\ UNCHANGED <<request, to, alive>>
  BY <1>1 DEF TinyAccept, At, Servers
<1>3. k \in Connections /\ net[k].server = "queued" /\ QueueShape' /\ NetShape'
  BY <1>1, <1>2, Dequeue
<1>4. \A j \in Connections : net'[j] = IF j = k THEN [net[k] EXCEPT !.server = "open"] ELSE net[j]
  BY <1>1, <1>2, <1>3 DEF TypeInv
<1>5. net[k] \in Conn
  BY <1>3 DEF TypeInv
<1>6. \A c \in Clients : k = Down(c) => to[c] = "tiny"
  <2>1. backlog["tiny"] \in Seq(Connections)
    BY <1>2 DEF TypeInv
  <2>2. 1 \in 1 .. Len(backlog["tiny"]) /\ k = backlog["tiny"][1]
    BY <1>1, <1>2, <2>1
  <2> QED BY <1>2, <2>2 DEF Struct, QueueShape
<1>7. TinyShape'
  <2>1. net'[k].server = "open"
    BY <1>3, <1>4, <1>5 DEF Conn
  <2>2. /\ tiny'.pc = "request" /\ tiny'.conn = k /\ tiny'.cgi = tiny.cgi
    BY <1>2 DEF TypeInv, TinyRegs
  <2>3. k # NoConnection
    BY <1>3, Ends
  <2> QED BY <1>2, <1>6, <2>1, <2>2, <2>3 DEF Struct, TinyShape
<1>8. HandlerShape'
  <2>1. ASSUME NEW c \in Clients PROVE HandlerOK(c)'
    <3>1. HandlerOK(c) /\ Down(c) \in Connections /\ Up(c) \in Connections
      BY Ends DEF Struct, HandlerShape
    <3>2. /\ handler'[c] = handler[c] /\ to'[c] = to[c] /\ alive' = alive
          /\ to[c] \in {"tiny", "proxy"}
      BY <1>2 DEF TypeInv, Servers
    <3>3. Up(c) = k => net[Up(c)] # Closed /\ net'[Up(c)].server = "open"
                       /\ net'[Up(c)].client = net[Up(c)].client
      BY <1>3, <1>4, <1>5, <3>1 DEF Closed, Conn
    <3>4. Up(c) # k => net'[Up(c)] = net[Up(c)]
      BY <1>4, <3>1
    <3>5. to[c] = "proxy" \/ net[Down(c)].server = "closed" => net'[Down(c)] = net[Down(c)]
      BY <1>3, <1>4, <1>6, <3>1
    <3> QED BY <1>3, <3>1, <3>2, <3>3, <3>4, <3>5 DEF HandlerOK, Serving
  <2> QED BY <2>1 DEF HandlerShape
<1> QED BY <1>3, <1>7, <1>8 DEF Struct

LEMMA TinyCloseStruct ==
    ASSUME TypeInv, Struct, TinyClose, UNCHANGED <<version, handler, stack>>
    PROVE  Struct'
<1>1. PICK k : k = tiny.conn
  OBVIOUS
<1>2. /\ alive["tiny"] /\ tiny.pc = "close"
      /\ net' = [net EXCEPT ![k] = Shut(@)]
      /\ tiny' = [tiny EXCEPT !.pc = "accept", !.conn = NoConnection]
      /\ UNCHANGED <<request, to, backlog, alive>>
  BY <1>1 DEF TinyClose, At
<1>3. k \in Connections /\ net[k].server = "open" /\ net[k] \in Conn
  BY <1>1, <1>2, TinyHolds
<1>4. /\ \A j \in Connections : j # k => net'[j] = net[j]
      /\ net'[k].server = "closed" /\ net'[k].client = net[k].client
  BY <1>2, <1>3, ShutTyped DEF TypeInv
<1>5. TinyShape'
  <2>1. tiny'.pc = "accept" /\ tiny'.conn = NoConnection /\ tiny'.cgi = tiny.cgi
    BY <1>2 DEF TypeInv, TinyRegs
  <2> QED BY <1>2, <2>1, Ends DEF Struct, TinyShape
<1>6. QueueShape'
  <2>1. ASSUME NEW s \in Servers, NEW i \in 1 .. Len(backlog[s])
        PROVE  net'[backlog[s][i]].server = "queued"
    <3>1. backlog[s][i] \in Connections /\ net[backlog[s][i]].server = "queued"
      BY Queued
    <3> QED BY <1>3, <1>4, <3>1
  <2> QED BY <1>2, <2>1 DEF Struct, QueueShape
<1>7. HandlerShape'
  <2>1. ASSUME NEW c \in Clients PROVE HandlerOK(c)'
    <3>1. HandlerOK(c) /\ Down(c) \in Connections /\ Up(c) \in Connections
      BY Ends DEF Struct, HandlerShape
    <3>2. /\ handler'[c] = handler[c] /\ to'[c] = to[c] /\ alive' = alive
          /\ to[c] \in {"tiny", "proxy"}
      BY <1>2 DEF TypeInv, Servers
    <3>3. Up(c) = k => net[Up(c)] # Closed /\ net'[Up(c)].server = "closed"
                       /\ net'[Up(c)].client = net[Up(c)].client
      BY <1>3, <1>4, <3>1 DEF Closed
    <3>4. Up(c) # k => net'[Up(c)] = net[Up(c)]
      BY <1>4, <3>1
    <3>5. to[c] = "proxy" \/ net[Down(c)].server = "closed" => net'[Down(c)] = net[Down(c)]
      BY <1>1, <1>3, <1>4, <3>1 DEF Struct, TinyShape
    <3> QED BY <1>3, <3>1, <3>2, <3>3, <3>4, <3>5 DEF HandlerOK, Serving
  <2> QED BY <2>1 DEF HandlerShape
<1>8. NetShape'
  BY <1>4 DEF Struct, NetShape
<1> QED BY <1>5, <1>6, <1>7, <1>8 DEF Struct

LEMMA TinyStructStep ==
    ASSUME TypeInv, Struct, TinyNext, UNCHANGED <<version, handler, stack>>
    PROVE  Struct'
<1> USE DEF At
<1>1. CASE TinyAccept
  BY <1>1, TinyAcceptStruct
<1>2. CASE TinyRead
  <2>1. tiny.conn \in Connections /\ net[tiny.conn].server = "open"
    BY <1>2, TinyHolds DEF TinyRead
  <2>2. PICK r \in rio_readlineb(tiny.rio, Stream.up) :
          /\ tiny' = [tiny EXCEPT !.rio = r.rio]
          /\ net' = [net EXCEPT ![tiny.conn].up = r.in]
    BY <1>2 DEF TinyRead
  <2>3. Quiet
    BY <2>1, <2>2, QuietData
  <2>4. tiny'.conn = tiny.conn /\ tiny'.cgi = tiny.cgi /\ tiny'.pc = tiny.pc
    BY <2>2 DEF TypeInv, TinyRegs
  <2>5. tiny.cgi = <<>> /\ tiny.pc \in {"request", "headers"}
    BY <1>2 DEF TinyRead, Struct, TinyShape
  <2> QED BY <1>2, <2>3, <2>4, <2>5, TinyQuiet DEF TinyRead
<1>3. CASE TinyReadFails \/ TinyWriteFails
  <2>1. TinyDies /\ alive["tiny"] /\ tiny.cgi = <<>>
    BY <1>3 DEF TinyReadFails, TinyWriteFails, Struct, TinyShape
  <2> QED BY <2>1, TinyDiesStruct
<1>4. CASE TinyRequestLine
  <2>1. tiny.pc = "request" /\ tiny.cgi = <<>> /\ UNCHANGED networkVars
    BY <1>4 DEF TinyRequestLine, Struct, TinyShape
  <2>2. tiny'.conn = tiny.conn /\ tiny'.cgi = tiny.cgi /\ tiny'.pc \in {"close", "headers", "write"}
        /\ (tiny'.pc = "write" => tiny'.next = "close")
    BY <1>4, ZenonT(60) DEF TinyRequestLine, TypeInv, TinyRegs, Answering
  <2>3. Quiet
    BY <2>1, QuietUnchanged DEF networkVars
  <2> QED BY <2>1, <2>2, <2>3, TinyQuiet, SMTT(40) DEF networkVars
<1>5. CASE read_requesthdrs
  <2>1. tiny.pc = "headers" /\ tiny.cgi = <<>> /\ UNCHANGED networkVars
    BY <1>5 DEF read_requesthdrs, Struct, TinyShape
  <2>2. tiny'.conn = tiny.conn /\ tiny'.cgi = tiny.cgi /\ tiny'.pc \in {"uri", "headers", "spin"}
    BY <1>5 DEF read_requesthdrs, TypeInv, TinyRegs
  <2>3. Quiet
    BY <2>1, QuietUnchanged DEF networkVars
  <2> QED BY <2>1, <2>2, <2>3, TinyQuiet DEF networkVars
<1>6. CASE TinyLookup
  <2>1. tiny.pc = "uri" /\ tiny.cgi = <<>> /\ UNCHANGED networkVars
    BY <1>6 DEF TinyLookup, Struct, TinyShape
  <2>2. tiny'.conn = tiny.conn /\ tiny'.cgi = tiny.cgi /\ tiny'.pc = "write"
        /\ tiny'.next # "accept"
    <3>1. PICK p : p = parse_uri(tiny.uri)
      OBVIOUS
    <3>2. PICK t : t = [tiny EXCEPT !.uri = p.uri, !.filename = p.filename, !.cgiargs = p.cgiargs]
      OBVIOUS
    <3>3. DOMAIN t = DOMAIN tiny /\ t.conn = tiny.conn /\ t.cgi = tiny.cgi
      BY <3>2 DEF TypeInv, TinyRegs
    <3>4. \E out : \E next \in {"close", "open", "fork"} : tiny' = Answering(t, out, next)
      BY <1>6, <3>1, <3>2 DEF TinyLookup
    <3> QED BY <3>3, <3>4 DEF Answering, TypeInv, TinyRegs
  <2>3. Quiet
    BY <2>1, QuietUnchanged DEF networkVars
  <2> QED BY <2>1, <2>2, <2>3, TinyQuiet DEF networkVars
<1>7. CASE TinyWrite
  <2>1. tiny.conn \in Connections /\ net[tiny.conn].server = "open" /\ tiny.pc = "write"
    BY <1>7, TinyHolds DEF TinyWrite
  <2>2. PICK w \in rio_writen(Head(tiny.out)) :
          LET out == IF w[2] = <<>> THEN Tail(tiny.out) ELSE <<w[2]>> \o Tail(tiny.out)
          IN  /\ net' = [net EXCEPT ![tiny.conn].down = @ \o w[1]]
              /\ tiny' = [tiny EXCEPT !.out = out,
                                      !.pc = IF out = <<>> THEN tiny.next ELSE "write"]
    BY <1>7 DEF TinyWrite
  <2>3. PICK d, out : /\ net' = [net EXCEPT ![tiny.conn].down = d]
                      /\ tiny' = [tiny EXCEPT !.out = out,
                                      !.pc = IF out = <<>> THEN tiny.next ELSE "write"]
    BY <2>2
  <2>4. Quiet
    BY <2>1, <2>3, QuietData
  <2>5. tiny'.conn = tiny.conn /\ tiny'.cgi = tiny.cgi /\ tiny'.pc \in {tiny.next, "write"}
        /\ tiny'.next = tiny.next
    BY <2>3 DEF TypeInv, TinyRegs
  <2>6. tiny.next \in {"open", "fork", "close"} /\ tiny.cgi = <<>>
    BY <2>1 DEF Struct, TinyShape, TypeInv, TinyRegs
  <2> QED BY <1>7, <2>1, <2>4, <2>5, <2>6, TinyQuiet DEF TinyWrite
<1>8. CASE TinyMap
  <2>1. alive["tiny"] /\ tiny.pc = "open" /\ tiny.cgi = <<>>
    BY <1>8 DEF TinyMap, Struct, TinyShape
  <2>2. CASE TinyDies
    BY <2>1, <2>2, TinyDiesStruct
  <2>3. CASE tiny' = Answering(tiny, StaticBody(tiny.filename), "close") /\ UNCHANGED networkVars
    <3>1. tiny'.conn = tiny.conn /\ tiny'.cgi = tiny.cgi /\ tiny'.pc = "write" /\ tiny'.next = "close"
      BY <2>3 DEF Answering, TypeInv, TinyRegs
    <3>2. Quiet
      BY <2>3, QuietUnchanged DEF networkVars
    <3> QED BY <2>1, <2>3, <3>1, <3>2, TinyQuiet DEF networkVars
  <2> QED BY <1>8, <2>2, <2>3 DEF TinyMap
<1>9. CASE TinyFork
  <2>1. tiny'.conn = tiny.conn /\ tiny'.pc = "wait"
    BY <1>9 DEF TinyFork, TypeInv, TinyRegs
  <2>2. Quiet
    BY <1>9, QuietUnchanged DEF TinyFork, networkVars
  <2> QED BY <1>9, <2>1, <2>2, TinyQuiet DEF TinyFork, networkVars
<1>10. CASE CgiWrite
  <2>1. tiny.pc = "wait" /\ alive["tiny"]
    BY <1>10 DEF CgiWrite, Struct, TinyShape
  <2>2. tiny.conn \in Connections /\ net[tiny.conn].server = "open"
    BY <2>1, TinyHolds
  <2>3. tiny'.conn = tiny.conn /\ tiny'.pc = "wait"
    BY <1>10, <2>1 DEF CgiWrite, TypeInv, TinyRegs
  <2>4. net' = net \/ \E d : net' = [net EXCEPT ![tiny.conn].down = d]
    BY <1>10 DEF CgiWrite
  <2>5. Quiet
    BY <2>2, <2>4, QuietData, QuietUnchanged
  <2> QED BY <1>10, <2>1, <2>3, <2>5, TinyQuiet DEF CgiWrite
<1>11. CASE TinyWait
  <2>1. tiny'.conn = tiny.conn /\ tiny'.cgi = <<>> /\ tiny'.pc = "close"
    BY <1>11 DEF TinyWait, TypeInv, TinyRegs
  <2>2. Quiet
    BY <1>11, QuietUnchanged DEF TinyWait, networkVars
  <2> QED BY <1>11, <2>1, <2>2, TinyQuiet DEF TinyWait, networkVars
<1>12. CASE TinyClose
  BY <1>12, TinyCloseStruct
<1> QED BY <1>1, <1>2, <1>3, <1>4, <1>5, <1>6, <1>7, <1>8, <1>9, <1>10, <1>11, <1>12 DEF TinyNext

\* One thread of the proxy takes a step over connections that are there.
LEMMA ProxyQuiet ==
    ASSUME TypeInv, Struct, Quiet, UNCHANGED <<backlog, to, alive, tiny>>, NEW c \in Clients,
           \A d \in Clients : d # c => handler'[d] = handler[d],
           HandlerOK(c)'
    PROVE  Struct'
<1>1. TinyShape'
  <2>1. tiny.conn \in Connections => net'[tiny.conn].server = net[tiny.conn].server
    BY DEF Quiet
  <2> QED BY <2>1, StillTiny DEF Struct
<1>2. QueueShape' /\ NetShape'
  BY QuietQueues DEF Struct
<1>3. HandlerShape'
  <2>1. ASSUME NEW d \in Clients PROVE HandlerOK(d)'
    <3>1. CASE d = c
      BY <3>1
    <3>2. CASE d # c
      BY <3>2, QuietHandler DEF Struct, HandlerShape
    <3> QED BY <3>1, <3>2
  <2> QED BY <2>1 DEF HandlerShape
<1> QED BY <1>1, <1>2, <1>3 DEF Struct

\* Where the registers of a thread may go while its connections stay
LEMMA HandlerGoes ==
    ASSUME NEW c \in Clients, HandlerOK(c), Quiet, UNCHANGED <<to, alive>>,
           handler[c].pc \in Serving,
           \/ handler'[c].pc = handler[c].pc
           \/ handler[c].pc = "request" /\ handler'[c].pc \in {"headers", "close"}
           \/ handler[c].pc = "headers" /\ handler'[c].pc = "connect"
           \/ handler[c].pc \in Calling /\ handler'[c].pc \in {"send", "relay", "write"}
           \/ /\ handler[c].pc = "relay" /\ handler'[c].pc = "closeServer"
              /\ net[Up(c)].server = "closed"
    PROVE  HandlerOK(c)'
<1>1. /\ net'[Up(c)].server = net[Up(c)].server /\ net'[Up(c)].client = net[Up(c)].client
      /\ net'[Down(c)].server = net[Down(c)].server
      /\ net[Up(c)] = Closed => net'[Up(c)] = Closed
  <2>1. Down(c) \in Connections /\ Up(c) \in Connections
    BY Ends
  <2> QED BY <2>1 DEF Quiet, Closed
<1>2. to[c] # "tiny" /\ alive["proxy"]
  BY DEF HandlerOK, Serving
<1>3. net[Up(c)] = Closed => net[Up(c)].server = "none"
  BY DEF Closed
<1>4. handler'[c].pc \in Serving
  BY DEF Serving, Calling
<1> QED BY <1>1, <1>2, <1>3, <1>4 DEF HandlerOK, Serving, Calling

LEMMA ProxyQuietStep ==
    ASSUME TypeInv, Struct, NEW c \in Clients,
           \/ ProxyRead(c) \/ ProxyRequestLine(c) \/ ProxyHeaderLine(c) \/ build_http_header(c)
           \/ ProxySend(c) \/ ProxyRelayRead(c) \/ ProxyRelayLine(c) \/ ProxyWrite(c)
    PROVE  Struct'
<1> USE DEF ProxyAt
<1>0. /\ HandlerOK(c) /\ handler \in [Clients -> HandlerRegs] /\ handler[c] \in HandlerRegs
      /\ Down(c) \in Connections /\ Up(c) \in Connections
  BY Ends DEF Struct, HandlerShape, TypeInv
<1>1. handler[c].pc \in Serving => net[Down(c)].server = "open"
  BY <1>0 DEF HandlerOK
<1>2. handler[c].pc \in Calling => net[Up(c)].server # "none"
  BY <1>0 DEF HandlerOK
<1>3. ASSUME Quiet, UNCHANGED <<backlog, to, alive, tiny>>, NEW h,
             handler' = [handler EXCEPT ![c] = h],
             handler[c].pc \in Serving,
             \/ h.pc = handler[c].pc
             \/ handler[c].pc = "request" /\ h.pc \in {"headers", "close"}
             \/ handler[c].pc = "headers" /\ h.pc = "connect"
             \/ handler[c].pc \in Calling /\ h.pc \in {"send", "relay", "write"}
             \/ /\ handler[c].pc = "relay" /\ h.pc = "closeServer"
                /\ net[Up(c)].server = "closed"
      PROVE  Struct'
  <2>1. handler'[c] = h /\ \A d \in Clients : d # c => handler'[d] = handler[d]
    BY <1>0, <1>3
  <2>2. HandlerOK(c)'
    BY <1>0, <1>3, <2>1, HandlerGoes
  <2> QED BY <1>3, <2>1, <2>2, ProxyQuiet
<1>4. CASE ProxyRead(c)
  <2>1. PICK r : /\ handler' = [handler EXCEPT ![c].rio = r.rio]
                 /\ net' = [net EXCEPT ![Down(c)].up = r.in]
    BY <1>4 DEF ProxyRead
  <2>2. PICK h : h = [handler[c] EXCEPT !.rio = r.rio]
    OBVIOUS
  <2>3. handler' = [handler EXCEPT ![c] = h] /\ h.pc = handler[c].pc
    BY <1>0, <2>1, <2>2 DEF HandlerRegs
  <2>4. handler[c].pc \in Serving
    BY <1>4 DEF ProxyRead, Serving
  <2>5. Quiet
    BY <1>0, <1>1, <2>1, <2>4, QuietData
  <2> QED BY <1>3, <1>4, <2>3, <2>4, <2>5 DEF ProxyRead
<1>5. CASE ProxyRequestLine(c)
  <2>a. PICK words \in IF handler[c].rio.line = <<>> THEN {stack.words, <<Unset>>}
                      ELSE {Words(handler[c].rio.line)} :
          \E method \in Scanned(words, 1, stack.method), uri \in Scanned(words, 2, stack.uri) :
          \E path \in ParsedPaths(uri) :
          handler' = [handler EXCEPT ![c] =
             [@ EXCEPT !.method = method, !.uri = uri, !.path = path, !.words = words,
                       !.hostname = ParsedHost(uri), !.rio = NextLine(handler[c].rio),
                       !.pc = IF method # "GET" THEN "close" ELSE "headers"]]
    BY <1>5 DEF ProxyRequestLine
  <2>1. PICK method, uri, path :
          handler' = [handler EXCEPT ![c] =
             [@ EXCEPT !.method = method, !.uri = uri, !.path = path, !.words = words,
                       !.hostname = ParsedHost(uri), !.rio = NextLine(handler[c].rio),
                       !.pc = IF method # "GET" THEN "close" ELSE "headers"]]
    BY <2>a
  <2>2. PICK h : h = [handler[c] EXCEPT !.method = method, !.uri = uri, !.path = path, !.words = words,
                       !.hostname = ParsedHost(uri), !.rio = NextLine(handler[c].rio),
                       !.pc = IF method # "GET" THEN "close" ELSE "headers"]
    OBVIOUS
  <2>3. handler' = [handler EXCEPT ![c] = h]
    BY <2>1, <2>2
  <2>4. h.pc \in {"headers", "close"}
    BY <1>0, <2>2 DEF HandlerRegs
  <2>5. handler[c].pc = "request" /\ UNCHANGED <<net, backlog, to, alive, tiny>>
    BY <1>5 DEF ProxyRequestLine, networkVars
  <2> QED BY <1>3, <2>3, <2>4, <2>5, QuietUnchanged DEF Serving
<1>6. CASE ProxyHeaderLine(c)
  <2>1. PICK host : handler' = [handler EXCEPT ![c] = [@ EXCEPT !.rio = NextLine(handler[c].rio), !.host = host]]
    BY <1>6 DEF ProxyHeaderLine
  <2>2. PICK h : h = [handler[c] EXCEPT !.rio = NextLine(handler[c].rio), !.host = host]
    OBVIOUS
  <2>3. handler' = [handler EXCEPT ![c] = h] /\ h.pc = handler[c].pc
    BY <1>0, <2>1, <2>2 DEF HandlerRegs
  <2>4. handler[c].pc = "headers" /\ UNCHANGED <<net, backlog, to, alive, tiny>>
    BY <1>6 DEF ProxyHeaderLine, networkVars
  <2> QED BY <1>3, <2>3, <2>4, QuietUnchanged DEF Serving
<1>7. CASE build_http_header(c)
  <2>1. PICK host, out : handler' = [handler EXCEPT ![c] = [@ EXCEPT !.pc = "connect", !.host = host, !.out = out]]
    BY <1>7 DEF build_http_header
  <2>2. PICK h : h = [handler[c] EXCEPT !.pc = "connect", !.host = host, !.out = out]
    OBVIOUS
  <2>3. handler' = [handler EXCEPT ![c] = h] /\ h.pc = "connect"
    BY <1>0, <2>1, <2>2 DEF HandlerRegs
  <2>4. handler[c].pc = "headers" /\ UNCHANGED <<net, backlog, to, alive, tiny>>
    BY <1>7 DEF build_http_header, networkVars
  <2> QED BY <1>3, <2>3, <2>4, QuietUnchanged DEF Serving
<1>8. CASE ProxySend(c)
  <2>1. PICK w : /\ net' = [net EXCEPT ![Up(c)].up = @ \o w[1]]
                 /\ handler' = [handler EXCEPT ![c] =
                       [@ EXCEPT !.out = w[2], !.pc = IF w[2] = <<>> THEN "relay" ELSE "send"]]
    BY <1>8 DEF ProxySend
  <2>2. PICK h : h = [handler[c] EXCEPT !.out = w[2], !.pc = IF w[2] = <<>> THEN "relay" ELSE "send"]
    OBVIOUS
  <2>3. handler' = [handler EXCEPT ![c] = h] /\ h.pc \in {"relay", "send"}
    BY <1>0, <2>1, <2>2 DEF HandlerRegs
  <2>4. handler[c].pc = "send" /\ UNCHANGED <<backlog, to, alive, tiny>>
    BY <1>8 DEF ProxySend
  <2>5. \E d : net' = [net EXCEPT ![Up(c)].up = d]
    BY <2>1
  <2>6. Quiet
    BY <1>0, <1>2, <2>4, <2>5, QuietData DEF Calling
  <2> QED BY <1>3, <2>3, <2>4, <2>6 DEF Serving, Calling
<1>9. CASE ProxyRelayRead(c)
  <2>1. PICK r : /\ handler' = [handler EXCEPT ![c].server = r.rio]
                 /\ net' = [net EXCEPT ![Up(c)].down = r.in]
    BY <1>9 DEF ProxyRelayRead
  <2>2. PICK h : h = [handler[c] EXCEPT !.server = r.rio]
    OBVIOUS
  <2>3. handler' = [handler EXCEPT ![c] = h] /\ h.pc = handler[c].pc
    BY <1>0, <2>1, <2>2 DEF HandlerRegs
  <2>4. handler[c].pc = "relay" /\ UNCHANGED <<backlog, to, alive, tiny>>
    BY <1>9 DEF ProxyRelayRead
  <2>5. Quiet
    BY <1>0, <1>2, <2>1, <2>4, QuietData DEF Calling
  <2> QED BY <1>3, <2>3, <2>4, <2>5 DEF Serving
<1>10. CASE ProxyRelayLine(c)
  <2>1. PICK words : handler' = [handler EXCEPT ![c] =
          [@ EXCEPT !.server = NextLine(handler[c].server), !.out = handler[c].server.line,
                    !.words = words,
                    !.pc = IF handler[c].server.line = <<>> THEN "closeServer" ELSE "write"]]
    BY <1>10 DEF ProxyRelayLine
  <2>2. PICK h : h = [handler[c] EXCEPT !.server = NextLine(handler[c].server),
                    !.out = handler[c].server.line, !.words = words,
                    !.pc = IF handler[c].server.line = <<>> THEN "closeServer" ELSE "write"]
    OBVIOUS
  <2>3. handler' = [handler EXCEPT ![c] = h]
    BY <2>1, <2>2
  <2>4. h.pc = IF handler[c].server.line = <<>> THEN "closeServer" ELSE "write"
    BY <1>0, <2>2 DEF HandlerRegs
  <2>5. /\ handler[c].pc = "relay" /\ UNCHANGED <<net, backlog, to, alive, tiny>>
        /\ AnswerLineReturned(c)
    BY <1>10 DEF ProxyRelayLine, networkVars
  <2>6. handler[c].server.line = <<>> => net[Up(c)].server = "closed"
    BY <2>5 DEF AnswerLineReturned, Complete
  <2> QED BY <1>3, <2>3, <2>4, <2>5, <2>6, QuietUnchanged DEF Serving, Calling
<1>11. CASE ProxyWrite(c)
  <2>1. PICK w : /\ net' = [net EXCEPT ![Down(c)].down = @ \o w[1]]
                 /\ handler' = [handler EXCEPT ![c] =
                       [@ EXCEPT !.out = w[2], !.pc = IF w[2] = <<>> THEN "relay" ELSE "write"]]
    BY <1>11 DEF ProxyWrite
  <2>2. PICK h : h = [handler[c] EXCEPT !.out = w[2], !.pc = IF w[2] = <<>> THEN "relay" ELSE "write"]
    OBVIOUS
  <2>3. handler' = [handler EXCEPT ![c] = h] /\ h.pc \in {"relay", "write"}
    BY <1>0, <2>1, <2>2 DEF HandlerRegs
  <2>4. handler[c].pc = "write" /\ UNCHANGED <<backlog, to, alive, tiny>>
    BY <1>11 DEF ProxyWrite
  <2>5. \E d : net' = [net EXCEPT ![Down(c)].down = d]
    BY <2>1
  <2>6. Quiet
    BY <1>0, <1>1, <2>4, <2>5, QuietData DEF Serving
  <2> QED BY <1>3, <2>3, <2>4, <2>6 DEF Serving, Calling
<1> QED BY <1>4, <1>5, <1>6, <1>7, <1>8, <1>9, <1>10, <1>11

LEMMA ProxyAcceptStruct ==
    ASSUME TypeInv, Struct, NEW c \in Clients, ProxyAccept(c)
    PROVE  Struct'
<1>1. /\ backlog["proxy"] # <<>> /\ Head(backlog["proxy"]) = Down(c) /\ alive["proxy"]
      /\ handler[c].pc = "idle" /\ handler' = [handler EXCEPT ![c].pc = "request"]
      /\ backlog' = [backlog EXCEPT !["proxy"] = Tail(@)]
      /\ net' = [net EXCEPT ![Down(c)].server = "open"]
      /\ UNCHANGED <<request, to, alive, tiny, version, stack>> /\ "proxy" \in Servers
  BY DEF ProxyAccept, ProxyAt, Goto, Servers
<1>2. /\ Down(c) \in Connections /\ net[Down(c)].server = "queued" /\ QueueShape' /\ NetShape'
      /\ alive["tiny"] => tiny.conn # Down(c)
  BY <1>1, Dequeue
<1>3. \A k \in Connections : k # Down(c) => net'[k] = net[k]
  BY <1>1, <1>2 DEF TypeInv
<1>4. net'[Down(c)].server = "open"
  BY <1>1, <1>2 DEF TypeInv, Conn
<1>5. TinyShape'
  <2>1. CASE alive["tiny"]
    BY <1>1, <1>2, <1>3, <2>1, StillTiny DEF Struct
  <2>2. CASE ~alive["tiny"]
    BY <1>1, <2>2 DEF Struct, TinyShape
  <2> QED BY <2>1, <2>2
<1>6. to[c] = "proxy"
  <2>1. backlog["proxy"] \in Seq(Connections)
    BY <1>1 DEF TypeInv
  <2>2. 1 \in 1 .. Len(backlog["proxy"]) /\ backlog["proxy"][1] = Down(c)
    BY <1>1, <2>1
  <2> QED BY <1>1, <2>2 DEF Struct, QueueShape
<1>7. HandlerShape'
  <2>1. ASSUME NEW d \in Clients PROVE HandlerOK(d)'
    <3>1. HandlerOK(d) /\ Down(d) \in Connections /\ Up(d) \in Connections /\ Up(d) # Down(c)
          /\ (d # c => Down(d) # Down(c))
      BY Ends DEF Struct, HandlerShape
    <3>2. net'[Up(d)] = net[Up(d)] /\ (d # c => net'[Down(d)] = net[Down(d)])
      BY <1>3, <3>1
    <3>3. handler'[d].pc = IF d = c THEN "request" ELSE handler[d].pc
      BY <1>1 DEF TypeInv, HandlerRegs
    <3>4. d # c => handler'[d] = handler[d]
      BY <1>1 DEF TypeInv
    <3>5. CASE d = c
      BY <1>1, <1>4, <1>6, <3>1, <3>2, <3>3, <3>5 DEF HandlerOK, Serving, Calling
    <3>6. CASE d # c
      BY <1>1, <3>1, <3>2, <3>4, <3>6 DEF HandlerOK
    <3> QED BY <3>5, <3>6
  <2> QED BY <2>1 DEF HandlerShape
<1> QED BY <1>2, <1>5, <1>7 DEF Struct

\* connect: a connection that is new waits to be accepted.
LEMMA Enqueue ==
    ASSUME TypeInv, Struct, NEW s \in Servers, NEW k \in Connections, net[k].server = "none",
           NEW n \in Conn, n.server = "queued",
           net' = [net EXCEPT ![k] = n], backlog' = [backlog EXCEPT ![s] = Append(@, k)],
           UNCHANGED to,
           \A c \in Clients : (k = Down(c) => to[c] = s) /\ (k = Up(c) => s = "tiny")
    PROVE  QueueShape' /\ NetShape'
<1>1. backlog[s] \in Seq(Connections) /\ Len(backlog[s]) \in Nat
  BY DEF TypeInv
<1>2. /\ Len(Append(backlog[s], k)) = Len(backlog[s]) + 1
      /\ \A i \in 1 .. Len(backlog[s]) : Append(backlog[s], k)[i] = backlog[s][i]
      /\ Append(backlog[s], k)[Len(backlog[s]) + 1] = k
  BY <1>1, AppendProperties
<1>3. /\ \A j \in Connections : j # k => net'[j] = net[j]
      /\ net'[k].server = "queued"
  BY DEF TypeInv
<1>4. ASSUME NEW r \in Servers, NEW i \in 1 .. Len(backlog'[r])
      PROVE  \/ r = s /\ i = Len(backlog[s]) + 1 /\ backlog'[r][i] = k
             \/ i \in 1 .. Len(backlog[r]) /\ backlog'[r][i] = backlog[r][i]
  <2>1. CASE r = s
    <3>1. backlog'[r] = Append(backlog[s], k)
      BY <2>1 DEF TypeInv
    <3>2. PICK m \in Nat : m = Len(backlog[s])
      BY <1>1
    <3>3. i \in 1 .. m + 1
      BY <1>2, <3>1, <3>2
    <3>4. i = m + 1 \/ i \in 1 .. m
      BY <3>3
    <3> QED BY <1>2, <2>1, <3>1, <3>2, <3>4
  <2>2. CASE r # s
    <3>1. backlog'[r] = backlog[r]
      BY <2>2 DEF TypeInv
    <3> QED BY <3>1
  <2> QED BY <2>1, <2>2
<1>5. ASSUME NEW r \in Servers, NEW i \in 1 .. Len(backlog[r])
      PROVE  backlog[r][i] \in Connections /\ net[backlog[r][i]].server = "queued" /\ backlog[r][i] # k
  BY Queued
<1>6. QueueShape'
  <2>1. ASSUME NEW r \in Servers, NEW i \in 1 .. Len(backlog'[r])
        PROVE  /\ net'[backlog'[r][i]].server = "queued"
               /\ \A c \in Clients : /\ backlog'[r][i] = Down(c) => to[c] = r
                                     /\ backlog'[r][i] = Up(c) => r = "tiny"
    <3>1. CASE r = s /\ backlog'[r][i] = k
      BY <1>3, <3>1
    <3>2. CASE i \in 1 .. Len(backlog[r]) /\ backlog'[r][i] = backlog[r][i]
      <4>1. PICK l : l = backlog[r][i]
        OBVIOUS
      <4>2. l \in Connections /\ net[l].server = "queued" /\ l # k
        BY <1>5, <3>2, <4>1
      <4>3. net'[l].server = "queued"
        BY <1>3, <4>2
      <4>4. \A c \in Clients : /\ l = Down(c) => to[c] = r
                               /\ l = Up(c) => r = "tiny"
        BY <3>2, <4>1 DEF Struct, QueueShape
      <4> QED BY <3>2, <4>1, <4>3, <4>4
    <3> QED BY <1>4, <3>1, <3>2
  <2>2. ASSUME NEW r \in Servers, NEW i \in 1 .. Len(backlog'[r]), NEW j \in 1 .. Len(backlog'[r]),
               backlog'[r][i] = backlog'[r][j]
        PROVE  i = j
    <3>1. CASE i \in 1 .. Len(backlog[r]) /\ backlog'[r][i] = backlog[r][i]
      <4>1. j \in 1 .. Len(backlog[r]) /\ backlog'[r][j] = backlog[r][j]
        BY <1>4, <1>5, <2>2, <3>1
      <4> QED BY <2>2, <3>1, <4>1 DEF Struct, QueueShape
    <3>2. CASE r = s /\ i = Len(backlog[s]) + 1 /\ backlog'[r][i] = k
      <4>1. j = Len(backlog[s]) + 1
        BY <1>4, <1>5, <2>2, <3>2
      <4> QED BY <3>2, <4>1
    <3> QED BY <1>4, <3>1, <3>2
  <2> QED BY <2>1, <2>2 DEF QueueShape
<1>7. NetShape'
  BY <1>3 DEF Struct, NetShape
<1> QED BY <1>6, <1>7

LEMMA ProxyConnectStruct ==
    ASSUME TypeInv, Struct, NEW c \in Clients, handler[c].pc = "connect", alive["tiny"], alive["proxy"],
           open_clientfd(c), handler' = [handler EXCEPT ![c].pc = "send"],
           UNCHANGED <<request, to, alive, tiny, version, stack>>
    PROVE  Struct'
<1>1. PICK n : n = Opened(<<>>, FALSE)
  OBVIOUS
<1>2. n \in Conn /\ n.server = "queued" /\ n.client = "open"
  <2>1. <<>> \in Seq(Tokens) /\ FALSE \in BOOLEAN
    OBVIOUS
  <2> QED BY <1>1, <2>1, OpenedTyped
<1>3. /\ net' = [net EXCEPT ![Up(c)] = n]
      /\ backlog' = [backlog EXCEPT !["tiny"] = Append(@, Up(c))]
  BY <1>1 DEF open_clientfd
<1>4. HandlerOK(c) /\ Up(c) \in Connections /\ net[Up(c)].server = "none" /\ "tiny" \in Servers
  BY Ends DEF Struct, HandlerShape, HandlerOK, Closed, Servers
<1>5. QueueShape' /\ NetShape'
  <2>1. \A d \in Clients : (Up(c) = Down(d) => to[d] = "tiny") /\ (Up(c) = Up(d) => "tiny" = "tiny")
    BY Ends
  <2> QED BY <1>2, <1>3, <1>4, <2>1, Enqueue
<1>6. /\ \A k \in Connections : k # Up(c) => net'[k] = net[k]
      /\ net'[Up(c)] = n
  BY <1>3, <1>4 DEF TypeInv
<1>7. TinyShape'
  <2>1. tiny.conn # Up(c)
    BY <1>4, Ends DEF Struct, TinyShape
  <2> QED BY <1>6, <2>1, StillTiny DEF Struct
<1>8. HandlerShape'
  <2>1. ASSUME NEW d \in Clients PROVE HandlerOK(d)'
    <3>1. HandlerOK(d) /\ Down(d) \in Connections /\ Up(d) \in Connections /\ Up(c) # Down(d)
          /\ (d # c => Up(d) # Up(c))
      BY Ends DEF Struct, HandlerShape
    <3>2. net'[Down(d)] = net[Down(d)] /\ (d # c => net'[Up(d)] = net[Up(d)])
      BY <1>6, <3>1
    <3>3. handler'[d].pc = IF d = c THEN "send" ELSE handler[d].pc
      BY DEF TypeInv, HandlerRegs
    <3>4. d # c => handler'[d] = handler[d]
      BY DEF TypeInv
    <3>5. CASE d = c
      BY <1>2, <1>6, <3>1, <3>2, <3>3, <3>5 DEF HandlerOK, Serving, Calling
    <3>6. CASE d # c
      BY <3>1, <3>2, <3>4, <3>6 DEF HandlerOK
    <3> QED BY <3>5, <3>6
  <2> QED BY <2>1 DEF HandlerShape
<1> QED BY <1>5, <1>7, <1>8 DEF Struct

\* Closing: what the proxy's end of a connection does to the other conditions.
LEMMA ProxyCloseStruct ==
    ASSUME TypeInv, Struct, NEW c \in Clients, ProxyClose(c) \/ ProxyCloseServer(c)
    PROVE  Struct'
<1> USE DEF ProxyAt
<1>1. HandlerOK(c) /\ Down(c) \in Connections /\ Up(c) \in Connections
  BY Ends DEF Struct, HandlerShape
<1>2. CASE ProxyCloseServer(c)
  <2>1. /\ handler[c].pc = "closeServer" /\ handler' = [handler EXCEPT ![c].pc = "close"]
        /\ net' = [net EXCEPT ![Up(c)].client = "gone"]
        /\ UNCHANGED <<request, to, backlog, alive, tiny, version, stack>>
    BY <1>2 DEF ProxyCloseServer, Goto
  <2>2. net[Up(c)].server = "closed"
    BY <1>1, <2>1 DEF HandlerOK, Calling
  <2>3. /\ \A k \in Connections : k # Up(c) => net'[k] = net[k]
        /\ net'[Up(c)].server = "closed"
    BY <1>1, <2>1, <2>2 DEF TypeInv, Conn
  <2>4. TinyShape'
    <3>1. tiny.conn \in Connections => net'[tiny.conn].server = net[tiny.conn].server
      BY <2>2, <2>3
    <3> QED BY <2>1, <3>1, StillTiny DEF Struct
  <2>5. QueueShape'
    <3>1. ASSUME NEW s \in Servers, NEW i \in 1 .. Len(backlog[s])
          PROVE  net'[backlog[s][i]].server = "queued"
      <4>1. backlog[s][i] \in Connections /\ net[backlog[s][i]].server = "queued"
        BY Queued
      <4> QED BY <2>2, <2>3, <4>1
    <3> QED BY <2>1, <3>1 DEF Struct, QueueShape
  <2>6. NetShape'
    BY <2>3 DEF Struct, NetShape
  <2>7. HandlerShape'
    <3>1. ASSUME NEW d \in Clients PROVE HandlerOK(d)'
      <4>1. HandlerOK(d) /\ Down(d) \in Connections /\ Up(d) \in Connections /\ Up(c) # Down(d)
            /\ (d # c => Up(d) # Up(c))
        BY Ends DEF Struct, HandlerShape
      <4>2. net'[Down(d)] = net[Down(d)] /\ (d # c => net'[Up(d)] = net[Up(d)])
        BY <2>3, <4>1
      <4>3. handler'[d].pc = IF d = c THEN "close" ELSE handler[d].pc
        BY <2>1 DEF TypeInv, HandlerRegs
      <4>4. d # c => handler'[d] = handler[d]
        BY <2>1 DEF TypeInv
      <4>5. CASE d = c
        BY <2>1, <2>3, <4>1, <4>2, <4>3, <4>5 DEF HandlerOK, Serving, Calling
      <4>6. CASE d # c
        BY <2>1, <4>1, <4>2, <4>4, <4>6 DEF HandlerOK
      <4> QED BY <4>5, <4>6
    <3> QED BY <3>1 DEF HandlerShape
  <2> QED BY <2>4, <2>5, <2>6, <2>7 DEF Struct
<1>3. CASE ProxyClose(c)
  <2>1. /\ handler[c].pc = "close" /\ handler' = [handler EXCEPT ![c] = [Idle EXCEPT !.pc = "done"]]
        /\ net' = [net EXCEPT ![Down(c)] = Shut(@)]
        /\ UNCHANGED <<request, to, backlog, alive, tiny, version>>
    BY <1>3 DEF ProxyClose
  <2>2. net[Down(c)].server = "open" /\ net[Down(c)] \in Conn /\ to[c] # "tiny"
    BY <1>1, <2>1 DEF HandlerOK, Serving, TypeInv
  <2>3. /\ \A k \in Connections : k # Down(c) => net'[k] = net[k]
        /\ net'[Down(c)].server = "closed"
    BY <1>1, <2>1, <2>2, ShutTyped DEF TypeInv
  <2>4. TinyShape'
    <3>1. tiny.conn # Down(c)
      BY <2>2 DEF Struct, TinyShape
    <3> QED BY <2>1, <2>3, <3>1, StillTiny DEF Struct
  <2>5. QueueShape'
    <3>1. ASSUME NEW s \in Servers, NEW i \in 1 .. Len(backlog[s])
          PROVE  net'[backlog[s][i]].server = "queued"
      <4>1. backlog[s][i] \in Connections /\ net[backlog[s][i]].server = "queued"
        BY Queued
      <4> QED BY <2>2, <2>3, <4>1
    <3> QED BY <2>1, <3>1 DEF Struct, QueueShape
  <2>6. NetShape'
    BY <2>3 DEF Struct, NetShape
  <2>7. HandlerShape'
    <3>1. ASSUME NEW d \in Clients PROVE HandlerOK(d)'
      <4>1. HandlerOK(d) /\ Down(d) \in Connections /\ Up(d) \in Connections /\ Up(d) # Down(c)
            /\ (d # c => Down(d) # Down(c))
        BY Ends DEF Struct, HandlerShape
      <4>2. net'[Up(d)] = net[Up(d)] /\ (d # c => net'[Down(d)] = net[Down(d)])
        BY <2>3, <4>1
      <4>3. d = c => handler'[d].pc = "done"
        <5>1. [Idle EXCEPT !.pc = "done"].pc = "done"
          BY DEF Idle
        <5> QED BY <2>1, <5>1 DEF TypeInv
      <4>4. d # c => handler'[d] = handler[d]
        BY <2>1 DEF TypeInv
      <4>5. CASE d = c
        BY <2>1, <2>2, <2>3, <4>1, <4>2, <4>3, <4>5 DEF HandlerOK, Serving, Calling
      <4>6. CASE d # c
        BY <2>1, <4>1, <4>2, <4>4, <4>6 DEF HandlerOK
      <4> QED BY <4>5, <4>6
    <3> QED BY <3>1 DEF HandlerShape
  <2> QED BY <2>4, <2>5, <2>6, <2>7 DEF Struct
<1> QED BY <1>2, <1>3

LEMMA ProxyDiesStruct ==
    ASSUME TypeInv, Struct, ProxyDies
    PROVE  Struct'
<1>1. /\ alive' = [alive EXCEPT !["proxy"] = FALSE]
      /\ backlog' = [backlog EXCEPT !["proxy"] = <<>>]
      /\ handler' = [c \in Clients |-> [handler[c] EXCEPT !.pc = "dead"]]
      /\ UNCHANGED <<request, to, tiny, version, stack>>
  BY DEF ProxyDies
<1>2. ASSUME NEW k \in Connections
      PROVE  \/ net'[k] = net[k]
             \/ /\ net'[k].server = "closed"
                /\ \E c \in Clients : k = Down(c) /\ to[c] = "proxy"
             \/ /\ net'[k].server = net[k].server /\ net[k].server # "none"
  <2>1. net[k] \in Conn
    BY DEF TypeInv
  <2>2. net'[k] = CASE k[2] = "client" /\ to[k[1]] = "proxy" /\ net[k].server \in {"queued", "open"}
                        -> Shut(net[k])
                   [] k[2] = "origin" /\ net[k].client = "open"
                        -> [net[k] EXCEPT !.client = "gone"]
                   [] OTHER -> net[k]
    BY DEF ProxyDies
  <2>3. CASE k[2] = "client" /\ to[k[1]] = "proxy" /\ net[k].server \in {"queued", "open"}
    <3>1. k[1] \in Clients /\ k = Down(k[1])
      BY <2>3 DEF Down, Connections
    <3> QED BY <2>1, <2>2, <2>3, <3>1, ShutTyped
  <2>4. CASE ~(k[2] = "client" /\ to[k[1]] = "proxy" /\ net[k].server \in {"queued", "open"})
              /\ k[2] = "origin" /\ net[k].client = "open"
    <3>1. net'[k] = [net[k] EXCEPT !.client = "gone"]
      BY <2>2, <2>4
    <3>2. net[k].server # "none"
      BY <2>4 DEF Struct, NetShape, Closed
    <3> QED BY <2>1, <3>1, <3>2 DEF Conn
  <2>5. CASE ~(k[2] = "client" /\ to[k[1]] = "proxy" /\ net[k].server \in {"queued", "open"})
              /\ ~(k[2] = "origin" /\ net[k].client = "open")
    BY <2>2, <2>5
  <2> QED BY <2>3, <2>4, <2>5
<1>3. TinyShape'
  <2>1. tiny.conn \in Connections => net'[tiny.conn].server = net[tiny.conn].server
    BY <1>2, Ends DEF Struct, TinyShape
  <2>2. alive'["tiny"] = alive["tiny"]
    BY <1>1 DEF TypeInv
  <2> QED BY <1>1, <2>1, <2>2, StillTiny DEF Struct
<1>4. QueueShape'
  <2>1. ASSUME NEW s \in Servers
        PROVE  /\ s = "proxy" => backlog'[s] = <<>>
               /\ s # "proxy" => s = "tiny" /\ backlog'[s] = backlog[s]
    BY <1>1 DEF TypeInv, Servers
  <2>2. ASSUME NEW i \in 1 .. Len(backlog["tiny"])
        PROVE  net'[backlog["tiny"][i]].server = "queued"
    <3>1. "tiny" \in Servers
      BY DEF Servers
    <3>2. PICK k : k = backlog["tiny"][i]
      OBVIOUS
    <3>3. k \in Connections /\ net[k].server = "queued"
      BY <3>1, <3>2, Queued
    <3>4. \A c \in Clients : k = Down(c) => to[c] = "tiny"
      BY <3>1, <3>2 DEF Struct, QueueShape
    <3>5. net'[k].server = "queued"
      BY <1>2, <3>3, <3>4
    <3> QED BY <3>2, <3>5
  <2> QED BY <1>1, <2>1, <2>2 DEF Struct, QueueShape
<1>5. HandlerShape'
  <2>1. ASSUME NEW c \in Clients PROVE HandlerOK(c)'
    <3>1. handler'[c].pc = "dead" /\ ~alive'["proxy"]
      BY <1>1 DEF TypeInv, HandlerRegs, Servers
    <3> QED BY <3>1 DEF HandlerOK, Serving, Calling
  <2> QED BY <2>1 DEF HandlerShape
<1>6. NetShape'
  BY <1>2 DEF Struct, NetShape
<1> QED BY <1>3, <1>4, <1>5, <1>6 DEF Struct

LEMMA ProxyStructStep ==
    ASSUME TypeInv, Struct, NEW c \in Clients, ProxyNext(c)
    PROVE  Struct'
<1>1. CASE ProxyAccept(c)
  BY <1>1, ProxyAcceptStruct
<1>2. CASE ProxyReadFails(c) \/ OriginFails(c) \/ ProxyWriteFails(c)
  BY <1>2, ProxyDiesStruct DEF ProxyReadFails, OriginFails, ProxyWriteFails
<1>3. CASE connect_endServer(c)
  <2>1. CASE handler[c].hostname = Origin /\ alive["tiny"]
    <3>1. /\ handler[c].pc = "connect" /\ alive["proxy"] /\ open_clientfd(c)
          /\ handler' = [handler EXCEPT ![c].pc = "send"]
          /\ UNCHANGED <<request, to, alive, tiny, version, stack>>
      BY <1>3, <2>1 DEF connect_endServer, ProxyAt, Goto
    <3> QED BY <2>1, <3>1, ProxyConnectStruct
  <2>2. CASE ~(handler[c].hostname = Origin /\ alive["tiny"])
    BY <1>3, <2>2, ProxyDiesStruct DEF connect_endServer
  <2> QED BY <2>1, <2>2
<1>4. CASE ProxyClose(c) \/ ProxyCloseServer(c)
  BY <1>4, ProxyCloseStruct
<1> QED BY <1>1, <1>2, <1>3, <1>4, ProxyQuietStep DEF ProxyNext

LEMMA ClientStructStep ==
    ASSUME TypeInv, Struct, NEW c \in Clients, ConnectStep(c) \/ LeaveStep(c)
    PROVE  Struct'
<1>0. Down(c) \in Connections /\ Down(c) = <<c, "client">> /\ HandlerOK(c)
  BY Ends DEF Down, Struct, HandlerShape
<1>1. CASE ConnectStep(c)
  <2>1. PICK n : n = Opened(request[c], ~Whole(request[c]))
    OBVIOUS
  <2>2. /\ net' = [net EXCEPT ![Down(c)] = n] /\ net[Down(c)] = Closed /\ alive[to[c]]
        /\ backlog' = [backlog EXCEPT ![to[c]] = Append(@, Down(c))]
        /\ UNCHANGED <<request, to, alive, tiny, handler, stack>>
    BY <1>0, <1>1, <2>1 DEF ConnectStep, Connect
  <2>3. request[c] \in Seq(Tokens) /\ (~Whole(request[c])) \in BOOLEAN /\ to[c] \in Servers
    BY DEF TypeInv, Whole
  <2>4. n \in Conn /\ n.server = "queued"
    BY <2>1, <2>3, OpenedTyped
  <2>5. net[Down(c)].server = "none"
    BY <2>2 DEF Closed
  <2>6. QueueShape' /\ NetShape'
    <3>1. \A d \in Clients : (Down(c) = Down(d) => to[d] = to[c]) /\ (Down(c) = Up(d) => to[c] = "tiny")
      BY Ends
    <3> QED BY <1>0, <2>2, <2>3, <2>4, <2>5, <3>1, Enqueue
  <2>7. /\ \A k \in Connections : k # Down(c) => net'[k] = net[k]
        /\ net'[Down(c)] = n
    BY <1>0, <2>2 DEF TypeInv
  <2>8. TinyShape'
    <3>1. tiny.conn # Down(c) \/ ~alive["tiny"]
      BY <1>0, <2>5, Ends DEF Struct, TinyShape
    <3>2. CASE alive["tiny"]
      BY <2>2, <2>7, <3>1, <3>2, StillTiny DEF Struct
    <3>3. CASE ~alive["tiny"]
      BY <2>2, <3>3 DEF Struct, TinyShape
    <3> QED BY <3>2, <3>3
  <2>9. HandlerShape'
    <3>1. ASSUME NEW d \in Clients PROVE HandlerOK(d)'
      <4>1. HandlerOK(d) /\ Down(d) \in Connections /\ Up(d) \in Connections /\ Up(d) # Down(c)
            /\ (d # c => Down(d) # Down(c))
        BY Ends DEF Struct, HandlerShape
      <4>2. net'[Up(d)] = net[Up(d)] /\ (d # c => net'[Down(d)] = net[Down(d)])
        BY <2>7, <4>1
      <4>3. CASE d = c
        <5>1. handler[c].pc \notin Serving /\ handler[c].pc # "done"
          BY <2>5, <4>1, <4>3 DEF HandlerOK
        <5> QED BY <2>2, <2>4, <2>7, <4>1, <4>2, <4>3, <5>1 DEF HandlerOK, Serving, Calling
      <4>4. CASE d # c
        BY <2>2, <4>1, <4>2, <4>4 DEF HandlerOK
      <4> QED BY <4>3, <4>4
    <3> QED BY <3>1 DEF HandlerShape
  <2> QED BY <2>6, <2>8, <2>9 DEF Struct
<1>2. CASE LeaveStep(c)
  <2>1. /\ net[Down(c)].client = "open" /\ net' = [net EXCEPT ![Down(c)].client = "gone"]
        /\ UNCHANGED <<request, to, backlog, alive, tiny, handler, stack>>
    BY <1>0, <1>2 DEF LeaveStep, Leave
  <2>2. net[Down(c)].server # "none"
    BY <1>0, <2>1 DEF Struct, NetShape, Closed
  <2>3. Quiet
    <3>1. /\ \A k \in Connections : k # Down(c) => net'[k] = net[k]
          /\ net'[Down(c)].server = net[Down(c)].server
      BY <1>0, <2>1 DEF TypeInv, Conn
    <3>2. \A d \in Clients : Up(d) \in Connections /\ Up(d) # Down(c)
      BY Ends
    <3> QED BY <2>2, <3>1, <3>2 DEF Quiet
  <2>4. \A d \in Clients : d # c => handler'[d] = handler[d]
    BY <2>1
  <2>5. HandlerOK(c)'
    BY <1>0, <2>1, <2>3, QuietHandler
  <2> QED BY <2>1, <2>3, <2>4, <2>5, ProxyQuiet
<1> QED BY <1>1, <1>2

LEMMA StructStep == ASSUME TypeInv, Struct, [Next]_webVars PROVE Struct'
<1>1. CASE UNCHANGED webVars
  BY <1>1 DEF Struct, TinyShape, QueueShape, HandlerShape, HandlerOK, NetShape, webVars, networkVars
<1>2. CASE Next
  BY <1>2, ClientStructStep, TinyStructStep, ProxyStructStep DEF Next, ServerStep, TinyStep
<1> QED BY <1>1, <1>2

\* Neither Tiny nor a thread of the proxy ever overflows a line buffer or the buffer behind
\* it, loses a register's kind, or touches a connection that was never opened (TypeOK),
\* whatever MAXLINE and RIO_BUFSIZE are, for any number of clients and any requests
\* (rio_readlineb, doit of tiny.c and of the first proxies).
THEOREM WebTypeCorrect == Spec => []TypeOK
<1>1. Init => TypeInv /\ Struct
  BY TypeInit, StructInit
<1>2. TypeInv /\ Struct /\ [Next]_webVars => (TypeInv /\ Struct)'
  BY TypeStep, StructStep
<1>3. TypeInv /\ Struct => TypeOK
  <2> SUFFICES ASSUME TypeInv, Struct PROVE TypeOK
    OBVIOUS
  <2>1. tiny.pc \in TinyPCs /\ tiny.rio \in Buffers
    BY DEF TypeInv, TinyRegs
  <2>2. \A c \in Clients : handler[c].pc \in ProxyPCs /\ handler[c].rio \in Buffers
                           /\ handler[c].server \in Buffers
    BY DEF TypeInv, HandlerRegs
  <2> QED BY <2>1, <2>2 DEF TypeOK, Buffers, Struct, NetShape
<1> QED BY <1>1, <1>2, <1>3, PTL DEF Spec

-----------------------------------------------------------------------------
(* How a server reads a request. *)

\* The rest of r after its first p tokens begins where a line begins, or is empty.
From(r, p, rest) ==
    /\ rest = SubSeq(r, p + 1, Len(r))
    /\ p = Len(r) \/ LongLine(r) \/ (p > 0 /\ r[p] = NL)

\* Nothing of the request is left to read, unless its method was refused.
Spent(c) == Clear(request[c]) /\ ~LongLine(request[c])
              => net[Down(c)].up = <<>> \/ Method(request[c]) # "GET"

\* The Host lines among the first p tokens of the request have been noticed.
HostNoticed(host, r, p) ==
    /\ host = Blank \/ host \in HostOf(r)
    /\ (\E i \in 1 .. p : r[i] \in HostHeaders) => host # Blank

\* Tiny reads the request of c, line by line.
TinyReads(c) ==
    LET rest == Rest(tiny.rio, net[Down(c)].up)
    IN  /\ tiny.pc \in {"request", "headers"} => OneLine(tiny.rio.line)
        /\ tiny.pc = "request" => rest = request[c]
        /\ tiny.pc = "headers" => \E p \in 0 .. Len(request[c]) : From(request[c], p, rest)
        /\ tiny.pc \notin {"accept", "request", "headers", "dead"} => Spent(c)

\* The thread of c reads it, and looks for its Host line.
HandlerReads(c) ==
    LET h == handler[c]
        rest == Rest(h.rio, net[Down(c)].up)
    IN  /\ h.pc \in {"request", "headers"} => OneLine(h.rio.line)
        /\ h.pc = "request" => rest = request[c] /\ h.host = Blank
        /\ h.pc = "headers" => \E p \in 0 .. Len(request[c]) :
                                  /\ From(request[c], p, rest)
                                  /\ HostsAreLines => HostNoticed(h.host, request[c], p)
        /\ h.pc \in Serving \ {"request", "headers"} => Spent(c)
        /\ HostsAreLines /\ h.pc \in {"connect", "send"} /\ HostOf(request[c]) # {}
             /\ ~LongLine(request[c]) => h.host \in HostOf(request[c])

RequestRead(c) ==
    /\ net[Down(c)].server = "queued" => net[Down(c)].up = request[c]
    /\ tiny.conn = Down(c) => TinyReads(c)
    /\ HandlerReads(c)
    /\ net[Down(c)].reset /\ alive[to[c]] /\ Clear(request[c])
         => Method(request[c]) # "GET" \/ LongLine(request[c])

RequestsRead == \A c \in Clients : RequestRead(c)

\* rio_readlineb has returned.
Returned(rp, in) == Complete(rp.line) \/ (rp.unread = <<>> /\ in = <<>>)

LEMMA RestTyped ==
    ASSUME NEW rp \in Buffers, NEW in \in Seq(Tokens)
    PROVE  /\ rp.line \in Seq(Tokens) /\ rp.unread \in Seq(Tokens)
           /\ rp.unread \o in \in Seq(Tokens)
           /\ Rest(rp, in) \in Seq(Tokens)
           /\ Rest(rp, in) = rp.line \o (rp.unread \o in)
           /\ Rest(NextLine(rp), in) = rp.unread \o in
           /\ Len(rp.unread \o in) = Len(rp.unread) + Len(in)
           /\ Len(Rest(rp, in)) = Len(rp.line) + (Len(rp.unread) + Len(in))
<1>1. rp.line \in Seq(Tokens) /\ rp.unread \in Seq(Tokens)
  BY DEF Buffers
<1>2. rp.unread \o in \in Seq(Tokens) /\ Len(rp.unread \o in) = Len(rp.unread) + Len(in)
  BY <1>1, CatTyped
<1>3. Rest(rp, in) = rp.line \o (rp.unread \o in)
  BY DEF Rest
<1>4. Rest(rp, in) \in Seq(Tokens) /\ Len(Rest(rp, in)) = Len(rp.line) + Len(rp.unread \o in)
  BY <1>1, <1>2, <1>3, CatTyped
<1>5. Rest(NextLine(rp), in) = rp.unread \o in
  <2>1. NextLine(rp) = [unread |-> rp.unread, line |-> <<>>]
    BY DEF NextLine, Buffers
  <2>2. Rest(NextLine(rp), in) = <<>> \o (rp.unread \o in)
    BY <2>1 DEF Rest
  <2> QED BY <1>2, <2>2, CatEmpty
<1> QED BY <1>1, <1>2, <1>3, <1>4, <1>5

\* The line is a piece of the request, and what follows it is the rest of the request.
LEMMA LineOf ==
    ASSUME NEW rp \in Buffers, NEW in \in Seq(Tokens), NEW r \in Seq(Tokens), NEW p \in 0 .. Len(r),
           Rest(rp, in) = SubSeq(r, p + 1, Len(r))
    PROVE  /\ p + Len(rp.line) \in 0 .. Len(r)
           /\ Len(rp.line) + (Len(rp.unread) + Len(in)) = Len(r) - p
           /\ \A j \in 1 .. Len(rp.line) : rp.line[j] = r[p + j]
           /\ Rest(NextLine(rp), in) = SubSeq(r, p + Len(rp.line) + 1, Len(r))
<1>0. /\ rp.line \in Seq(Tokens) /\ rp.unread \in Seq(Tokens)
      /\ rp.unread \o in \in Seq(Tokens)
      /\ Rest(rp, in) = rp.line \o (rp.unread \o in)
      /\ Rest(NextLine(rp), in) = rp.unread \o in
      /\ Len(rp.unread \o in) = Len(rp.unread) + Len(in)
  BY RestTyped
<1>a. Len(rp.line) \in Nat /\ Len(r) \in Nat /\ Len(rp.unread) \in Nat /\ Len(in) \in Nat
  BY <1>0
<1>b. PICK s : s = SubSeq(r, p + 1, Len(r))
  OBVIOUS
<1>1. PICK l \in Seq(Tokens), m \in Nat, n \in Nat, x \in Seq(Tokens) :
          /\ s = SubSeq(r, p + 1, n) /\ l = rp.line /\ m = Len(rp.line) /\ n = Len(r)
          /\ x = rp.unread \o in
  BY <1>0, <1>a, <1>b
<1>2. /\ l \in Seq(Tokens) /\ x \in Seq(Tokens) /\ s = l \o x /\ Len(l) = m
      /\ Len(x) = Len(rp.unread) + Len(in) /\ Rest(NextLine(rp), in) = x
      /\ Len(rp.unread) \in Nat /\ Len(in) \in Nat
  BY <1>0, <1>a, <1>1
<1>3. Len(s) = n - p /\ \A j \in 1 .. n - p : s[j] = r[p + j]
  <2>1. p + 1 \in Int /\ n \in Int /\ \A i \in p + 1 .. n : r[i] \in Tokens
    BY <1>1
  <2>a. PICK a, y : a = p + 1 /\ y = SubSeq(r, a, n)
    OBVIOUS
  <2>b. a \in Int /\ n \in Int /\ \A i \in a .. n : r[i] \in Tokens
    BY <2>1, <2>a
  <2>c. /\ Len(y) = IF a <= n THEN n - a + 1 ELSE 0
        /\ \A i \in 1 .. n - a + 1 : y[i] = r[a + i - 1]
    BY <2>a, <2>b, SubSeqProperties
  <2>d. s = y
    BY <1>1, <2>a
  <2>2. /\ Len(s) = IF p + 1 <= n THEN n - (p + 1) + 1 ELSE 0
        /\ \A i \in 1 .. n - (p + 1) + 1 : s[i] = r[p + 1 + i - 1]
    BY <2>a, <2>c, <2>d
  <2>3. p <= n /\ p \in Nat
    BY <1>1
  <2>4. Len(s) = n - p
    BY <1>1, <2>2, <2>3
  <2>5. ASSUME NEW j \in 1 .. n - p PROVE s[j] = r[p + j]
    <3>1. j \in 1 .. n - (p + 1) + 1 /\ p + 1 + j - 1 = p + j
      BY <2>3
    <3> QED BY <1>1, <2>2, <3>1
  <2> QED BY <2>4, <2>5
<1>4. /\ Len(s) = m + Len(x)
      /\ \A j \in 1 .. m : s[j] = l[j]
      /\ \A j \in 1 .. Len(x) : s[m + j] = x[j]
  <2>1. /\ Len(l \o x) = Len(l) + Len(x)
        /\ \A j \in 1 .. Len(l) : (l \o x)[j] = l[j]
        /\ \A j \in 1 .. Len(x) : (l \o x)[Len(l) + j] = x[j]
    BY <1>2, CatTyped
  <2> QED BY <1>2, <2>1
<1>5. PICK k \in Nat : k = Len(x)
  BY <1>2
<1>6. m + k = n - p /\ p \in Nat
  <2>1. Len(s) = n - p /\ Len(s) = m + k
    BY <1>3, <1>4, <1>5
  <2>2. p \in Nat
    BY <1>a
  <2> QED BY <2>1, <2>2
<1>7. \A j \in 1 .. m : l[j] = r[p + j]
  BY <1>3, <1>4, <1>6
<1>8. x = SubSeq(r, p + m + 1, n)
  <2>1. PICK y : y = SubSeq(r, p + m + 1, n)
    OBVIOUS
  <2>2. p + m + 1 \in Int /\ n \in Int /\ \A i \in p + m + 1 .. n : r[i] \in Tokens
    BY <1>1, <1>6
  <2>3. /\ y \in Seq(Tokens)
        /\ Len(y) = IF p + m + 1 <= n THEN n - (p + m + 1) + 1 ELSE 0
        /\ \A i \in 1 .. n - (p + m + 1) + 1 : y[i] = r[p + m + 1 + i - 1]
    BY <2>1, <2>2, SubSeqProperties
  <2>4. Len(y) = k
    BY <1>6, <2>3
  <2>5. ASSUME NEW j \in 1 .. k PROVE x[j] = y[j]
    <3>1. x[j] = s[m + j] /\ m + j \in 1 .. n - p
      BY <1>4, <1>5, <1>6
    <3>2. s[m + j] = r[p + (m + j)]
      BY <1>3, <3>1
    <3>3. j \in 1 .. n - (p + m + 1) + 1 /\ p + m + 1 + j - 1 = p + (m + j)
      BY <1>6
    <3>4. y[j] = r[p + (m + j)]
      BY <2>3, <3>3
    <3> QED BY <3>1, <3>2, <3>4
  <2>6. Len(x) = Len(y) /\ \A j \in 1 .. Len(x) : x[j] = y[j]
    BY <1>5, <2>4, <2>5
  <2> QED BY <1>2, <2>1, <2>3, <2>6, SeqEqual
<1>9. p + m \in 0 .. n
  BY <1>6
<1>10. m + (Len(rp.unread) + Len(in)) = n - p
  BY <1>2, <1>5, <1>6
<1> QED BY <1>1, <1>2, <1>7, <1>8, <1>9, <1>10

\* A line that fills its buffer is a long line of the request.
LEMMA OverlongIs ==
    ASSUME NEW line \in Seq(Tokens), NEW r \in Seq(Tokens), NEW p \in Nat,
           p + Len(line) <= Len(r), \A j \in 1 .. Len(line) : line[j] = r[p + j],
           OneLine(line), Len(line) = MAXLINE - 1, Last(line) # NL
    PROVE  LongLine(r)
<1>1. PICK m \in Nat, n \in Nat : m = Len(line) /\ n = Len(r)
  OBVIOUS
<1>2. m = MAXLINE - 1 /\ m > 0 /\ p + m <= n /\ MAXLINE \in Nat
  BY <1>1, MaxLineAssumption
<1>3. ASSUME NEW j \in p + 1 .. p + 1 + MAXLINE - 2 PROVE j <= n /\ r[j] # NL
  <2>1. j - p \in 1 .. m /\ p + (j - p) = j /\ j <= n
    BY <1>2
  <2>2. line[j - p] = r[j]
    BY <1>1, <2>1
  <2>3. j - p = m \/ j - p \in 1 .. m - 1
    BY <1>2, <2>1
  <2>4. line[j - p] # NL
    BY <1>1, <2>3 DEF OneLine, Last
  <2> QED BY <2>1, <2>2, <2>4
<1>4. p + 1 \in 1 .. n
  BY <1>2
<1> QED BY <1>1, <1>3, <1>4 DEF LongLine

\* The next line begins where this one has ended.
LEMMA NextFrom ==
    ASSUME NEW rp \in Buffers, NEW in \in Seq(Tokens), NEW r \in Seq(Tokens), NEW p \in 0 .. Len(r),
           Rest(rp, in) = SubSeq(r, p + 1, Len(r)), OneLine(rp.line), Returned(rp, in),
           rp.line # <<>>
    PROVE  From(r, p + Len(rp.line), Rest(NextLine(rp), in))
<1>0. rp.line \in Seq(Tokens) /\ rp.unread \in Seq(Tokens)
  BY RestTyped
<1>1. PICK l \in Seq(Tokens), m \in Nat, n \in Nat : l = rp.line /\ m = Len(l) /\ n = Len(r)
  <2>1. Len(rp.line) \in Nat /\ Len(r) \in Nat
    BY <1>0
  <2> QED BY <1>0, <2>1
<1>2. /\ p + m \in 0 .. n /\ m + (Len(rp.unread) + Len(in)) = n - p
      /\ \A j \in 1 .. m : l[j] = r[p + j]
      /\ Rest(NextLine(rp), in) = SubSeq(r, p + m + 1, n)
  <2>1. /\ p + Len(rp.line) \in 0 .. Len(r)
        /\ Len(rp.line) + (Len(rp.unread) + Len(in)) = Len(r) - p
        /\ \A j \in 1 .. Len(rp.line) : rp.line[j] = r[p + j]
        /\ Rest(NextLine(rp), in) = SubSeq(r, p + Len(rp.line) + 1, Len(r))
    BY LineOf
  <2> QED BY <1>1, <2>1
<1>3. l \in Seq(Tokens) /\ l # <<>> /\ m > 0
  BY <1>0, <1>1
<1>4. CASE Last(l) = NL
  <2>1. m \in 1 .. m /\ l[m] = NL
    BY <1>1, <1>3, <1>4 DEF Last
  <2>2. r[p + m] = NL
    BY <1>2, <2>1
  <2>3. p + m > 0
    BY <1>3
  <2> QED BY <1>1, <1>2, <2>2, <2>3 DEF From
<1>5. CASE Last(l) # NL /\ Len(l) = MAXLINE - 1
  <2>1. p + Len(l) <= Len(r) /\ p \in Nat
    BY <1>1, <1>2
  <2>2. \A j \in 1 .. Len(l) : l[j] = r[p + j]
    BY <1>1, <1>2
  <2>3. LongLine(r)
    BY <1>1, <1>3, <1>5, <2>1, <2>2, OverlongIs
  <2> QED BY <1>1, <1>2, <2>3 DEF From
<1>6. CASE rp.unread = <<>> /\ in = <<>>
  <2>1. p + m = n
    <3>1. Len(rp.unread) = 0 /\ Len(in) = 0
      BY <1>6
    <3> QED BY <1>1, <1>2, <3>1
  <2> QED BY <1>1, <1>2, <2>1 DEF From
<1> QED BY <1>1, <1>4, <1>5, <1>6 DEF Returned, Complete

\* Nothing is left when rio_readlineb returns nothing, and nothing follows an empty line.
LEMMA NothingLeft ==
    ASSUME NEW rp \in Buffers, NEW in \in Seq(Tokens), NEW r \in Seq(Tokens), NEW p \in 0 .. Len(r),
           Rest(rp, in) = SubSeq(r, p + 1, Len(r)), Returned(rp, in), rp.line = <<>>
    PROVE  in = <<>> /\ p = Len(r)
<1>1. rp.unread = <<>> /\ in = <<>>
  BY DEF Returned, Complete
<1>2. Len(rp.line) = 0 /\ Len(rp.unread) = 0 /\ Len(in) = 0
  BY <1>1
<1>3. Len(rp.line) + (Len(rp.unread) + Len(in)) = Len(r) - p
  BY LineOf
<1> QED BY <1>1, <1>2, <1>3

LEMMA EmptyLineLast ==
    ASSUME NEW rp \in Buffers, NEW in \in Seq(Tokens), NEW r \in Seq(Tokens), NEW p \in 0 .. Len(r),
           From(r, p, Rest(rp, in)), rp.line = <<NL>>, ~LongLine(r),
           \A i \in 1 .. Len(r) - 1 : r[i] = NL /\ r[i + 1] = NL => i + 1 = Len(r)
    PROVE  in = <<>> /\ p + 1 = Len(r) /\ r[Len(r)] = NL
<1>1. Rest(rp, in) = SubSeq(r, p + 1, Len(r))
  BY DEF From
<1>0. rp.line \in Seq(Tokens) /\ rp.unread \in Seq(Tokens)
  BY RestTyped
<1>2. PICK n \in Nat, a \in Nat, b \in Nat : n = Len(r) /\ a = Len(rp.unread) /\ b = Len(in)
  <2>1. Len(r) \in Nat /\ Len(rp.unread) \in Nat /\ Len(in) \in Nat
    BY <1>0
  <2> QED BY <2>1
<1>3. Len(rp.line) = 1 /\ rp.line[1] = NL
  OBVIOUS
<1>4. 1 + (a + b) = n - p /\ r[p + 1] = NL
  <2>1. /\ Len(rp.line) + (Len(rp.unread) + Len(in)) = Len(r) - p
        /\ \A j \in 1 .. Len(rp.line) : rp.line[j] = r[p + j]
    BY <1>1, LineOf
  <2> QED BY <1>2, <1>3, <2>1
<1>5. p \in Nat /\ p < n
  BY <1>2, <1>4
<1>6. p > 0 /\ r[p] = NL
  BY <1>2, <1>5 DEF From
<1>7. p \in 1 .. n - 1
  BY <1>5, <1>6
<1>8. p + 1 = n
  BY <1>2, <1>4, <1>6, <1>7
<1>9. b = 0
  BY <1>4, <1>8
<1>10. in = <<>>
  <2>1. Len(in) = 0
    BY <1>2, <1>9
  <2> QED BY <2>1, EmptySeq
<1> QED BY <1>2, <1>4, <1>8, <1>10

\* A line that ends with NL, or with the request, is the first one.
LEMMA FirstLineIs ==
    ASSUME NEW l \in Seq(Tokens), NEW r \in Seq(Tokens), l # <<>>, Len(l) <= Len(r),
           \A j \in 1 .. Len(l) : l[j] = r[j], OneLine(l), Last(l) = NL \/ Len(l) = Len(r)
    PROVE  FirstLine(r) = l
<1> DEFINE ends == {i \in 1 .. Len(r) : r[i] = NL}
<1>1. PICK m \in Nat, n \in Nat : m = Len(l) /\ n = Len(r)
  OBVIOUS
<1>2. m > 0 /\ m <= n
  BY <1>1, EmptySeq
<1>3. FirstLine(r) = IF ends = {} THEN r
                     ELSE SubSeq(r, 1, CHOOSE i \in ends : \A j \in ends : i <= j)
  BY DEF FirstLine
<1>4. \A i \in ends : i \in 1 .. n /\ r[i] = NL /\ i \in Nat
  BY <1>1
<1>5. \A i \in ends : i >= m
  <2> SUFFICES ASSUME NEW i \in ends, ~(i >= m) PROVE FALSE
    OBVIOUS
  <2>1. i \in 1 .. m - 1 /\ r[i] = NL
    BY <1>2, <1>4
  <2>2. l[i] = r[i] /\ l[i] # NL
    <3>1. i \in 1 .. m
      BY <1>2, <2>1
    <3> QED BY <1>1, <2>1, <3>1 DEF OneLine
  <2> QED BY <2>1, <2>2
<1>6. CASE Last(l) = NL
  <2>1. l[m] = NL /\ m \in 1 .. m
    BY <1>1, <1>2, <1>6 DEF Last
  <2>2. r[m] = NL
    BY <1>1, <2>1
  <2>3. m \in ends
    BY <1>1, <1>2, <2>2
  <2>4. (CHOOSE i \in ends : \A j \in ends : i <= j) = m
    <3>1. \A j \in ends : m <= j /\ j \in Nat
      BY <1>2, <1>4, <1>5
    <3>2. PICK k : k = CHOOSE i \in ends : \A j \in ends : i <= j
      OBVIOUS
    <3>3. k \in ends /\ \A j \in ends : k <= j
      <4> HIDE DEF ends
      <4> QED BY <2>3, <3>1, <3>2
    <3>4. k <= m /\ m <= k /\ k \in Nat
      <4> HIDE DEF ends
      <4> QED BY <2>3, <3>1, <3>3
    <3> QED BY <3>2, <3>4
  <2>5. FirstLine(r) = SubSeq(r, 1, m)
    BY <1>3, <2>3, <2>4
  <2>6. SubSeq(r, 1, m) = l
    <3>1. PICK y : y = SubSeq(r, 1, m)
      OBVIOUS
    <3>2. 1 \in Int /\ m \in Int /\ \A i \in 1 .. m : r[i] \in Tokens
      BY <1>1, <1>2
    <3>3. /\ y \in Seq(Tokens)
          /\ Len(y) = IF 1 <= m THEN m - 1 + 1 ELSE 0
          /\ \A i \in 1 .. m - 1 + 1 : y[i] = r[1 + i - 1]
      BY <3>1, <3>2, SubSeqProperties
    <3>4. Len(y) = m /\ \A i \in 1 .. m : y[i] = r[i]
      BY <1>2, <3>3
    <3>5. Len(y) = Len(l) /\ \A i \in 1 .. Len(y) : y[i] = l[i]
      BY <1>1, <3>4
    <3> QED BY <3>1, <3>3, <3>5, SeqEqual
  <2> QED BY <2>5, <2>6
<1>7. CASE Last(l) # NL /\ Len(l) = Len(r)
  <2>1. l = r
    BY <1>7, SeqEqual
  <2>2. ends = {}
    <3> SUFFICES ASSUME NEW i \in ends PROVE FALSE
      OBVIOUS
    <3>1. i >= m /\ i \in 1 .. n /\ r[i] = NL
      BY <1>4, <1>5
    <3>2. i = m
      BY <1>1, <1>7, <3>1
    <3> QED BY <1>1, <1>7, <2>1, <3>1, <3>2 DEF Last
  <2> QED BY <1>3, <2>1, <2>2
<1> QED BY <1>6, <1>7

\* The first line that a server reads is the request line.
LEMMA LineIsFirst ==
    ASSUME NEW rp \in Buffers, NEW in \in Seq(Tokens), NEW r \in Seq(Tokens),
           Rest(rp, in) = r, OneLine(rp.line), Returned(rp, in), rp.line # <<>>, ~LongLine(r)
    PROVE  FirstLine(r) = rp.line
<1>1. rp.line \in Seq(Tokens)
  BY RestTyped
<1>2. PICK p \in Nat : p = 0
  OBVIOUS
<1>3. p \in 0 .. Len(r) /\ Rest(rp, in) = SubSeq(r, p + 1, Len(r))
  <2>1. p \in 0 .. Len(r)
    BY <1>2
  <2>2. SubSeq(r, 1, Len(r)) = r
    BY SubSeqFull
  <2>3. p + 1 = 1
    BY <1>2
  <2> QED BY <2>1, <2>2, <2>3
<1>4. /\ p + Len(rp.line) \in 0 .. Len(r)
      /\ Len(rp.line) + (Len(rp.unread) + Len(in)) = Len(r) - p
      /\ \A j \in 1 .. Len(rp.line) : rp.line[j] = r[p + j]
  BY <1>3, LineOf
<1>5. Len(rp.line) <= Len(r) /\ \A j \in 1 .. Len(rp.line) : rp.line[j] = r[j]
  <2>1. PICK m \in Nat : m = Len(rp.line)
    BY <1>1
  <2>2. m <= Len(r)
    BY <1>2, <1>4, <2>1
  <2>3. \A j \in 1 .. m : p + j = j
    BY <1>2
  <2> QED BY <1>4, <2>1, <2>2, <2>3
<1>6. Last(rp.line) = NL \/ Len(rp.line) = Len(r)
  <2>1. CASE Len(rp.line) = MAXLINE - 1 /\ Last(rp.line) # NL
    <3>1. p + Len(rp.line) <= Len(r)
      BY <1>1, <1>4
    <3> QED BY <1>1, <1>4, <2>1, <3>1, OverlongIs
  <2>2. CASE rp.unread = <<>> /\ in = <<>>
    <3>1. Len(rp.unread) = 0 /\ Len(in) = 0
      BY <2>2
    <3> QED BY <1>1, <1>2, <1>4, <3>1
  <2> QED BY <2>1, <2>2 DEF Returned, Complete
<1> QED BY <1>1, <1>5, <1>6, FirstLineIs

\* A Host line is the first token of a line other than the request line.
LEMMA HostStartsLine ==
    ASSUME NEW r \in Seq(Tokens), NEW l \in Seq(Tokens), NEW p \in Nat, p + Len(l) <= Len(r),
           \A j \in 1 .. Len(l) : l[j] = r[p + j], OneLine(l),
           \A i \in 1 .. Len(r) : r[i] \in HostHeaders => i > 1 /\ r[i - 1] = NL,
           NEW i \in p + 1 .. p + Len(l), r[i] \in HostHeaders
    PROVE  i = p + 1 /\ p > 0
<1>1. PICK m \in Nat, n \in Nat : m = Len(l) /\ n = Len(r)
  OBVIOUS
<1>2. i \in 1 .. n /\ i \in p + 1 .. p + m
  BY <1>1
<1>3. i > 1 /\ r[i - 1] = NL
  BY <1>1, <1>2
<1>4. i = p + 1
  <2> SUFFICES ASSUME i # p + 1 PROVE FALSE
    OBVIOUS
  <2>1. PICK j \in Nat : j = i - 1 - p
    BY <1>2
  <2>2. j \in 1 .. m - 1 /\ j \in 1 .. m /\ p + j = i - 1
    BY <1>2, <2>1
  <2>3. l[j] = r[i - 1] /\ l[j] # NL
    BY <1>1, <2>2 DEF OneLine
  <2> QED BY <1>3, <2>3
<1> QED BY <1>3, <1>4

\* build_http_header keeps the Host line it has just read, or the one it had.
LEMMA HostFollowed ==
    ASSUME NEW r \in Seq(Tokens), NEW l \in Seq(Tokens), NEW p \in Nat, p + Len(l) <= Len(r),
           \A j \in 1 .. Len(l) : l[j] = r[p + j], OneLine(l), l # <<>>,
           \A i \in 1 .. Len(r) : r[i] \in HostHeaders => i > 1 /\ r[i - 1] = NL,
           Blank \notin HostHeaders, NEW host, HostNoticed(host, r, p)
    PROVE  HostNoticed(IF l[1] \in HostHeaders THEN l[1] ELSE host, r, p + Len(l))
<1>1. PICK m \in Nat, n \in Nat : m = Len(l) /\ n = Len(r)
  OBVIOUS
<1>2. m > 0 /\ p + m <= n
  BY <1>1, EmptySeq
<1>3. l[1] = r[p + 1] /\ p + 1 \in 1 .. n
  BY <1>1, <1>2
<1>4. CASE l[1] \in HostHeaders
  BY <1>1, <1>3, <1>4 DEF HostNoticed, HostOf
<1>5. CASE l[1] \notin HostHeaders
  <2>1. ASSUME NEW i \in 1 .. p + m, r[i] \in HostHeaders PROVE host # Blank
    <3>1. CASE i <= p
      <4>1. i \in 1 .. p
        BY <2>1, <3>1
      <4> QED BY <2>1, <4>1 DEF HostNoticed
    <3>2. CASE ~(i <= p)
      <4>1. i \in p + 1 .. p + Len(l)
        BY <1>1, <2>1, <3>2
      <4>2. i = p + 1
        BY <2>1, <4>1, HostStartsLine
      <4> QED BY <1>3, <1>5, <2>1, <4>2
    <3> QED BY <3>1, <3>2
  <2> QED BY <1>1, <1>5, <2>1 DEF HostNoticed
<1> QED BY <1>4, <1>5

\* The request line is no Host line.
LEMMA HostNotFirst ==
    ASSUME NEW r \in Seq(Tokens), NEW l \in Seq(Tokens), Len(l) <= Len(r),
           \A j \in 1 .. Len(l) : l[j] = r[j], OneLine(l),
           \A i \in 1 .. Len(r) : r[i] \in HostHeaders => i > 1 /\ r[i - 1] = NL
    PROVE  HostNoticed(Blank, r, Len(l))
<1> SUFFICES ASSUME NEW i \in 1 .. Len(l), r[i] \in HostHeaders PROVE FALSE
  BY DEF HostNoticed
<1>1. PICK p \in Nat : p = 0
  OBVIOUS
<1>2. p + Len(l) <= Len(r) /\ i \in p + 1 .. p + Len(l) /\ \A j \in 1 .. Len(l) : l[j] = r[p + j]
  BY <1>1
<1>3. p > 0
  BY <1>2, HostStartsLine
<1> QED BY <1>1, <1>3

\* At the end of the head the request's Host line has been noticed, if it has one.
LEMMA HostAtEnd ==
    ASSUME NEW r \in Seq(Tokens), NEW p \in 0 .. Len(r), NL \notin HostHeaders,
           p = Len(r) \/ (p + 1 = Len(r) /\ r[Len(r)] = NL),
           NEW host, HostNoticed(host, r, p), HostOf(r) # {}
    PROVE  host # Blank /\ host \in HostOf(r)
<1>1. PICK i \in 1 .. Len(r) : r[i] \in HostHeaders
  BY DEF HostOf
<1>2. i \in 1 .. p
  <2>1. PICK n \in Nat : n = Len(r)
    OBVIOUS
  <2>2. i # n \/ p = n
    BY <1>1, <2>1
  <2> QED BY <2>1, <2>2
<1> QED BY <1>1, <1>2 DEF HostNoticed

\* What is left after a header line, and after the request line
LEMMA LineTaken ==
    ASSUME NEW rp \in Buffers, NEW in \in Seq(Tokens), NEW r \in Seq(Tokens), NEW p \in 0 .. Len(r),
           Rest(rp, in) = SubSeq(r, p + 1, Len(r)), OneLine(rp.line), Returned(rp, in),
           rp.line # <<>>
    PROVE  /\ p + Len(rp.line) \in 0 .. Len(r)
           /\ From(r, p + Len(rp.line), Rest(NextLine(rp), in))
           /\ OneLine(NextLine(rp).line)
           /\ \A j \in 1 .. Len(rp.line) : rp.line[j] = r[p + j]
           /\ rp.line \in Seq(Tokens) /\ p \in Nat /\ p + Len(rp.line) <= Len(r)
<1>1. rp.line \in Seq(Tokens)
  BY RestTyped
<1>2. p + Len(rp.line) \in 0 .. Len(r) /\ \A j \in 1 .. Len(rp.line) : rp.line[j] = r[p + j]
  BY LineOf
<1>3. From(r, p + Len(rp.line), Rest(NextLine(rp), in))
  BY NextFrom
<1>4. OneLine(NextLine(rp).line)
  <2>1. NextLine(rp).line = <<>>
    BY DEF NextLine, Buffers
  <2> QED BY <2>1 DEF OneLine
<1>5. p \in Nat /\ p + Len(rp.line) <= Len(r)
  BY <1>1, <1>2
<1> QED BY <1>1, <1>2, <1>3, <1>4, <1>5

LEMMA RequestLineTaken ==
    ASSUME NEW rp \in Buffers, NEW in \in Seq(Tokens), NEW r \in Seq(Tokens),
           Rest(rp, in) = r, OneLine(rp.line), Returned(rp, in), rp.line # <<>>
    PROVE  /\ Len(rp.line) \in 0 .. Len(r)
           /\ From(r, Len(rp.line), Rest(NextLine(rp), in))
           /\ OneLine(NextLine(rp).line)
           /\ \A j \in 1 .. Len(rp.line) : rp.line[j] = r[j]
           /\ rp.line \in Seq(Tokens) /\ Len(rp.line) <= Len(r)
<1>1. PICK p \in 0 .. Len(r) : p = 0
  OBVIOUS
<1>2. SubSeq(r, p + 1, Len(r)) = r
  BY <1>1, SubSeqFull
<1>3. /\ p + Len(rp.line) \in 0 .. Len(r)
      /\ From(r, p + Len(rp.line), Rest(NextLine(rp), in))
      /\ OneLine(NextLine(rp).line)
      /\ \A j \in 1 .. Len(rp.line) : rp.line[j] = r[p + j]
      /\ rp.line \in Seq(Tokens)
  BY <1>2, LineTaken
<1>4. PICK m \in Nat : m = Len(rp.line)
  BY <1>3
<1>5. p + m = m /\ \A j \in 1 .. m : p + j = j
  BY <1>1
<1>6. m \in 0 .. Len(r) /\ From(r, m, Rest(NextLine(rp), in))
      /\ \A j \in 1 .. m : rp.line[j] = r[j]
  BY <1>3, <1>4, <1>5
<1>7. m <= Len(r)
  BY <1>6
<1> QED BY <1>3, <1>4, <1>6, <1>7

\* Nothing is left when the head has ended.
LEMMA HeadEnds ==
    ASSUME NEW rp \in Buffers, NEW in \in Seq(Tokens), NEW r \in Seq(Tokens), NEW p \in 0 .. Len(r),
           From(r, p, Rest(rp, in)), Returned(rp, in), rp.line \in {<<>>, <<NL>>}, ~LongLine(r),
           \A i \in 1 .. Len(r) - 1 : r[i] = NL /\ r[i + 1] = NL => i + 1 = Len(r)
    PROVE  in = <<>> /\ (p = Len(r) \/ (p + 1 = Len(r) /\ r[Len(r)] = NL))
<1>1. CASE rp.line = <<>>
  <2>1. Rest(rp, in) = SubSeq(r, p + 1, Len(r))
    BY DEF From
  <2> QED BY <1>1, <2>1, NothingLeft
<1>2. CASE rp.line = <<NL>>
  BY <1>2, EmptyLineLast
<1> QED BY <1>1, <1>2

\* The method that sscanf takes from a request line that is not too long
LEMMA MethodTaken ==
    ASSUME NEW rp \in Buffers, NEW in \in Seq(Tokens), NEW r \in Seq(Tokens),
           Rest(rp, in) = r, OneLine(rp.line), Returned(rp, in), rp.line # <<>>, ~LongLine(r),
           Clear(r), NEW last, NEW method \in Scanned(Words(rp.line), 1, last)
    PROVE  method = Method(r)
<1>1. FirstLine(r) = rp.line
  BY LineIsFirst
<1>2. rp.line \in Seq(Tokens)
  BY RestTyped
<1>3. Words(rp.line) \in Seq(Tokens) /\ Len(Words(rp.line)) >= 2
  BY <1>1, <1>2, WordsTyped DEF Clear
<1>4. 1 <= Len(Words(rp.line))
  BY <1>3
<1> QED BY <1>1, <1>4 DEF Scanned, Method

\* The requests are of those that the clients may send.
Asked == \A c \in Clients : request[c] \in Requests[c]

LEMMA RequestKept == ASSUME [Next]_webVars PROVE UNCHANGED <<request, to>>
<1>1. CASE UNCHANGED webVars
  BY <1>1 DEF webVars, networkVars
<1>2. ASSUME NEW c \in Clients, ConnectStep(c) \/ LeaveStep(c) PROVE UNCHANGED <<request, to>>
  BY <1>2, SMTT(40) DEF ConnectStep, LeaveStep, Connect, Leave
<1>3. ASSUME TinyNext PROVE UNCHANGED <<request, to>>
  BY <1>3, ZenonT(60) DEF TinyNext, TinyAccept, TinyRead, TinyReadFails, TinyRequestLine, read_requesthdrs,
     TinyLookup, TinyWrite, TinyWriteFails, TinyMap, TinyFork, CgiWrite, TinyWait, TinyClose,
     TinyDies, networkVars
<1>4. ASSUME NEW c \in Clients, ProxyNext(c) PROVE UNCHANGED <<request, to>>
  BY <1>4, ZenonT(60) DEF ProxyNext, ProxyAccept, ProxyRead, ProxyReadFails, ProxyRequestLine,
     ProxyHeaderLine, build_http_header, connect_endServer, ProxySend, ProxyRelayRead,
     OriginFails, ProxyRelayLine, ProxyWrite, ProxyWriteFails, ProxyCloseServer, ProxyClose,
     ProxyDies, networkVars
<1> QED BY <1>1, <1>2, <1>3, <1>4 DEF Next, ServerStep, TinyStep

LEMMA TinyReadsOn ==
    ASSUME NEW c \in Clients, TinyReads(c), request'[c] = request[c],
           net'[Down(c)].up = net[Down(c)].up, tiny'.rio = tiny.rio, tiny'.pc = tiny.pc
    PROVE  TinyReads(c)'
BY DEF TinyReads, Spent

LEMMA HandlerReadsOn ==
    ASSUME NEW c \in Clients, HandlerReads(c), request'[c] = request[c],
           net'[Down(c)].up = net[Down(c)].up,
           handler'[c].rio = handler[c].rio, handler'[c].pc = handler[c].pc,
           handler'[c].host = handler[c].host
    PROVE  HandlerReads(c)'
BY DEF HandlerReads, Spent

\* A client of Tiny has no thread of the proxy.
LEMMA HandlerReadsNothing ==
    ASSUME NEW c \in Clients, handler'[c].pc \in {"idle", "done", "dead"}
    PROVE  HandlerReads(c)'
BY DEF HandlerReads, Serving

\* A step that only concerns the connection k which Tiny serves
LEMMA TinyServesReads ==
    ASSUME TypeInv, Struct, RequestsRead, alive["tiny"], NEW k \in Connections, tiny.conn = k,
           tiny'.conn = k, UNCHANGED <<request, to, alive, handler>>,
           \A j \in Connections : j # k => net'[j] = net[j],
           net'[k].server = net[k].server, net'[k].reset = net[k].reset,
           \A c \in Clients : k = Down(c) => TinyReads(c)'
    PROVE  RequestsRead'
<1> SUFFICES ASSUME NEW c \in Clients PROVE RequestRead(c)'
  BY DEF RequestsRead
<1>1. RequestRead(c) /\ Down(c) \in Connections /\ HandlerOK(c)
  BY Ends DEF RequestsRead, Struct, HandlerShape
<1>2. CASE Down(c) # k
  <2>1. net'[Down(c)] = net[Down(c)]
    BY <1>1, <1>2
  <2>2. HandlerReads(c)'
    BY <1>1, <2>1, HandlerReadsOn DEF RequestRead
  <2> QED BY <1>1, <1>2, <2>1, <2>2 DEF RequestRead
<1>3. CASE Down(c) = k
  <2>1. to[c] = "tiny" /\ net[k].server = "open"
    BY <1>3, Ends DEF Struct, TinyShape
  <2>2. handler'[c].pc \in {"idle", "dead"}
    BY <1>1, <2>1 DEF HandlerOK
  <2>3. HandlerReads(c)'
    BY <2>2, HandlerReadsNothing
  <2> QED BY <1>1, <1>3, <2>1, <2>3 DEF RequestRead
<1> QED BY <1>2, <1>3

LEMMA TinyAcceptReads ==
    ASSUME TypeInv, Struct, RequestsRead, TinyAccept, UNCHANGED <<version, handler, stack>>
    PROVE  RequestsRead'
<1>1. PICK k : k = Head(backlog["tiny"])
  OBVIOUS
<1>2. /\ net' = [net EXCEPT ![k].server = "open"]
      /\ tiny' = [tiny EXCEPT !.pc = "request", !.conn = k, !.rio = rio_readinitb]
      /\ UNCHANGED <<request, to, alive>>
  BY <1>1 DEF TinyAccept
<1>3. k \in Connections /\ net[k].server = "queued"
  <2>1. "tiny" \in Servers /\ backlog["tiny"] # <<>>
    BY DEF Servers, TinyAccept
  <2>2. backlog' = [backlog EXCEPT !["tiny"] = Tail(@)]
    BY DEF TinyAccept
  <2> QED BY <1>1, <1>2, <2>1, <2>2, Dequeue
<1>4. /\ tiny'.pc = "request" /\ tiny'.conn = k /\ tiny'.rio = rio_readinitb
      /\ \A j \in Connections : net'[j].up = net[j].up /\ net'[j].reset = net[j].reset
      /\ \A j \in Connections : j # k => net'[j] = net[j]
      /\ net'[k].server = "open"
  BY <1>2, <1>3 DEF TypeInv, TinyRegs, Conn
<1> SUFFICES ASSUME NEW c \in Clients PROVE RequestRead(c)'
  BY DEF RequestsRead
<1>5. /\ RequestRead(c) /\ Down(c) \in Connections /\ handler'[c] = handler[c]
      /\ net[Down(c)].up \in Seq(Tokens)
  BY Ends, HandlerKnown DEF RequestsRead
<1>6. HandlerReads(c)'
  BY <1>2, <1>4, <1>5, HandlerReadsOn DEF RequestRead
<1>7. ASSUME Down(c) = k PROVE TinyReads(c)'
  <2>1. net[Down(c)].up = request[c]
    BY <1>3, <1>5, <1>7 DEF RequestRead
  <2>2. rio_readinitb = [unread |-> <<>>, line |-> <<>>]
    BY DEF rio_readinitb
  <2>3. Rest(rio_readinitb, net[Down(c)].up) = net[Down(c)].up
    <3>1. Rest(rio_readinitb, net[Down(c)].up) = <<>> \o (<<>> \o net[Down(c)].up)
      BY <2>2 DEF Rest
    <3> QED BY <1>5, <3>1, CatEmpty
  <2>4. OneLine(rio_readinitb.line)
    BY <2>2 DEF OneLine
  <2> QED BY <1>2, <1>4, <1>5, <2>1, <2>3, <2>4 DEF TinyReads
<1> QED BY <1>2, <1>4, <1>5, <1>6, <1>7 DEF RequestRead

LEMMA TinyCloseReads ==
    ASSUME TypeInv, Struct, RequestsRead, TinyClose, UNCHANGED <<version, handler, stack>>
    PROVE  RequestsRead'
<1>1. PICK k : k = tiny.conn
  OBVIOUS
<1>2. /\ alive["tiny"] /\ tiny.pc = "close"
      /\ net' = [net EXCEPT ![k] = Shut(@)]
      /\ tiny' = [tiny EXCEPT !.pc = "accept", !.conn = NoConnection]
      /\ UNCHANGED <<request, to, alive>>
  BY <1>1 DEF TinyClose, At
<1>3. k \in Connections /\ net[k].server = "open" /\ net[k] \in Conn
  BY <1>1, <1>2, TinyHolds
<1>4. /\ \A j \in Connections : j # k => net'[j] = net[j]
      /\ net'[k].server = "closed" /\ net'[k].up = net[k].up
      /\ net'[k].reset => net[k].up # <<>>
      /\ tiny'.conn = NoConnection
  BY <1>2, <1>3 DEF TypeInv, Shut, Conn, TinyRegs
<1> SUFFICES ASSUME NEW c \in Clients PROVE RequestRead(c)'
  BY DEF RequestsRead
<1>5. /\ RequestRead(c) /\ Down(c) \in Connections /\ handler'[c] = handler[c]
      /\ NoConnection # Down(c)
  BY Ends DEF RequestsRead
<1>6. net'[Down(c)].up = net[Down(c)].up
  BY <1>4, <1>5
<1>7. HandlerReads(c)'
  BY <1>2, <1>5, <1>6, HandlerReadsOn DEF RequestRead
<1>8. CASE Down(c) = k
  <2>1. Spent(c)
    BY <1>1, <1>2, <1>5, <1>8 DEF RequestRead, TinyReads
  <2> QED BY <1>2, <1>4, <1>5, <1>7, <1>8, <2>1 DEF RequestRead, Spent
<1>9. CASE Down(c) # k
  BY <1>2, <1>4, <1>5, <1>7, <1>9 DEF RequestRead
<1> QED BY <1>8, <1>9

LEMMA TinyDiesReads ==
    ASSUME TypeInv, Struct, RequestsRead, TinyDies, UNCHANGED <<version, handler, stack>>
    PROVE  RequestsRead'
<1>1. /\ alive' = [alive EXCEPT !["tiny"] = FALSE] /\ tiny' = [tiny EXCEPT !.pc = "dead"]
      /\ UNCHANGED <<request, to>>
  BY DEF TinyDies
<1> SUFFICES ASSUME NEW c \in Clients PROVE RequestRead(c)'
  BY DEF RequestsRead
<1>2. /\ RequestRead(c) /\ Down(c) \in Connections /\ handler'[c] = handler[c]
      /\ net[Down(c)] \in Conn
  BY Ends, HandlerKnown DEF RequestsRead
<1>3. net'[Down(c)] = net[Down(c)] \/ net'[Down(c)] = Shut(net[Down(c)])
  BY <1>2 DEF TinyDies
<1>4. /\ net'[Down(c)].up = net[Down(c)].up
      /\ net'[Down(c)] = net[Down(c)] \/ net'[Down(c)].server = "closed"
  BY <1>2, <1>3 DEF Shut, Conn
<1>5. HandlerReads(c)'
  BY <1>1, <1>2, <1>4, HandlerReadsOn DEF RequestRead
<1>6. tiny'.pc = "dead" /\ TinyReads(c)'
  <2>1. tiny'.pc = "dead"
    BY <1>1 DEF TypeInv, TinyRegs
  <2> QED BY <2>1 DEF TinyReads
<1>7. to'[c] = to[c] /\ to[c] \in {"tiny", "proxy"} /\ (to[c] = "tiny" => ~alive'[to[c]])
      /\ (to[c] = "proxy" => alive'[to[c]] = alive[to[c]])
  BY <1>1 DEF TypeInv, Servers
<1>8. to[c] = "proxy" => net'[Down(c)] = net[Down(c)]
  <2> SUFFICES ASSUME to[c] = "proxy" PROVE net'[Down(c)] = net[Down(c)]
    OBVIOUS
  <2>1. Down(c) # tiny.conn
    BY DEF Struct, TinyShape
  <2>2. Down(c) \notin ToSet(backlog["tiny"])
    <3>1. \A i \in 1 .. Len(backlog["tiny"]) : backlog["tiny"][i] # Down(c)
      BY DEF Struct, QueueShape, Servers
    <3>2. backlog["tiny"] \in Seq(Connections)
      BY DEF TypeInv, Servers
    <3> QED BY <3>1, <3>2 DEF ToSet
  <2> QED BY <1>2, <2>1, <2>2 DEF TinyDies
<1> QED BY <1>1, <1>2, <1>4, <1>5, <1>6, <1>7, <1>8 DEF RequestRead

\* Tiny answers what it has read.
LEMMA TinyAnswersReads ==
    ASSUME TypeInv, Struct, RequestsRead, alive["tiny"], NEW k \in Connections, tiny.conn = k,
           tiny'.conn = k, UNCHANGED <<request, to, alive, handler>>,
           tiny.pc \notin {"accept", "request", "headers", "dead"},
           tiny'.pc \notin {"accept", "request", "headers", "dead"},
           net' = net \/ \E d : net' = [net EXCEPT ![k].down = d]
    PROVE  RequestsRead'
<1>1. /\ \A j \in Connections : j # k => net'[j] = net[j]
      /\ \A j \in Connections : net'[j].up = net[j].up
      /\ net'[k].server = net[k].server /\ net'[k].reset = net[k].reset
  <2>1. CASE net' = net
    BY <2>1
  <2>2. ASSUME NEW d, net' = [net EXCEPT ![k].down = d]
        PROVE  /\ \A j \in Connections : j # k => net'[j] = net[j]
               /\ net'[k].up = net[k].up
               /\ net'[k].server = net[k].server /\ net'[k].reset = net[k].reset
    BY <2>2 DEF TypeInv, Conn
  <2> QED BY <2>1, <2>2
<1>2. ASSUME NEW c \in Clients, k = Down(c) PROVE TinyReads(c)'
  <2>1. Spent(c)
    BY <1>2 DEF RequestsRead, RequestRead, TinyReads
  <2>2. Spent(c)'
    BY <1>1, <1>2, <2>1 DEF Spent
  <2> QED BY <2>2 DEF TinyReads
<1> QED BY <1>1, <1>2, TinyServesReads

LEMMA TinyReadReads ==
    ASSUME TypeInv, Struct, RequestsRead, TinyRead, UNCHANGED <<version, handler, stack>>
    PROVE  RequestsRead'
<1>1. PICK k : k = tiny.conn
  OBVIOUS
<1>2. /\ alive["tiny"] /\ tiny.pc \in {"request", "headers"} /\ ~Complete(tiny.rio.line)
      /\ UNCHANGED <<request, to, alive>>
  BY DEF TinyRead, At, LineReturned
<1>3. k \in Connections /\ net[k].server = "open" /\ net[k] \in Conn
  BY <1>1, <1>2, TinyHolds
<1>4. PICK r \in rio_readlineb(tiny.rio, net[k].up) :
          /\ tiny' = [tiny EXCEPT !.rio = r.rio]
          /\ net' = [net EXCEPT ![k].up = r.in]
  BY <1>1 DEF TinyRead, Stream
<1>5. tiny.rio \in Buffers /\ net[k].up \in Seq(Tokens)
  BY <1>3 DEF TypeInv, TinyRegs, Conn
<1>6. /\ Rest(r.rio, r.in) = Rest(tiny.rio, net[k].up)
      /\ OneLine(tiny.rio.line) => OneLine(r.rio.line)
  BY <1>2, <1>5, ReadLineKeeps
<1>7. /\ \A j \in Connections : j # k => net'[j] = net[j]
      /\ net'[k].up = r.in
      /\ net'[k].server = net[k].server /\ net'[k].reset = net[k].reset
      /\ tiny'.conn = k /\ tiny'.pc = tiny.pc /\ tiny'.rio = r.rio
  BY <1>1, <1>3, <1>4 DEF TypeInv, Conn, TinyRegs
<1>8. ASSUME NEW c \in Clients, k = Down(c) PROVE TinyReads(c)'
  <2>1. TinyReads(c)
    BY <1>1, <1>8 DEF RequestsRead, RequestRead
  <2> QED BY <1>2, <1>6, <1>7, <1>8, <2>1 DEF TinyReads
<1> QED BY <1>1, <1>2, <1>3, <1>7, <1>8, TinyServesReads

LEMMA TinyRequestLineReads ==
    ASSUME TypeInv, Struct, RequestsRead, TinyRequestLine, UNCHANGED <<version, handler, stack>>
    PROVE  RequestsRead'
<1>1. PICK k : k = tiny.conn
  OBVIOUS
<1>2. alive["tiny"] /\ tiny.pc = "request" /\ LineReturned /\ UNCHANGED networkVars
  BY DEF TinyRequestLine, At
<1>3. k \in Connections /\ net[k].server = "open" /\ net[k] \in Conn
  BY <1>1, <1>2, TinyHolds
<1>4. PICK rp, in : rp = tiny.rio /\ in = net[k].up
  OBVIOUS
<1>5. rp \in Buffers /\ in \in Seq(Tokens) /\ request \in [Clients -> Seq(Tokens)]
  BY <1>3, <1>4 DEF TypeInv, TinyRegs, Conn
<1>6. Returned(rp, in)
  BY <1>1, <1>2, <1>4, SMTT(40) DEF LineReturned, AtEof, Returned
<1>7. tiny'.conn = k
  BY <1>1, ZenonT(60) DEF TinyRequestLine, Answering, TypeInv, TinyRegs
<1>8. ASSUME NEW c \in Clients, k = Down(c) PROVE TinyReads(c)'
  <2>1. PICK q \in Seq(Tokens) : q = request[c]
    BY <1>5
  <2>2. Rest(rp, in) = q /\ OneLine(rp.line)
    BY <1>1, <1>2, <1>4, <1>8, <2>1 DEF RequestsRead, RequestRead, TinyReads
  <2>3. net'[Down(c)].up = in /\ request'[c] = q /\ Spent(c)' = Spent(c)
    BY <1>2, <1>4, <1>8, <2>1 DEF networkVars, Spent
  <2>4. CASE rp.line = <<>>
    <3>1. tiny'.pc = "close"
      BY <1>4, <2>4 DEF TinyRequestLine, TypeInv, TinyRegs
    <3>2. in = <<>>
      BY <1>6, <2>4 DEF Returned, Complete
    <3> QED BY <2>3, <3>1, <3>2 DEF TinyReads, Spent
  <2>5. CASE rp.line # <<>>
    <3>1. PICK method \in Scanned(Words(rp.line), 1, tiny.method),
               uri \in Scanned(Words(rp.line), 2, tiny.uri) :
             LET t == [tiny EXCEPT !.method = method, !.uri = uri, !.bufSet = FALSE,
                                   !.rio = NextLine(rp)]
             IN  tiny' = IF method # "GET" THEN Answering(t, clienterror("501"), "close")
                         ELSE [t EXCEPT !.pc = "headers"]
      BY <1>4, <2>5, ZenonT(60) DEF TinyRequestLine
    <3>2. CASE method # "GET"
      <4>1. tiny'.pc = "write"
        BY <3>1, <3>2 DEF Answering, TypeInv, TinyRegs
      <4>2. Clear(q) /\ ~LongLine(q) => method = Method(q)
        BY <1>5, <1>6, <2>2, <2>5, MethodTaken
      <4> QED BY <2>1, <2>3, <3>2, <4>1, <4>2 DEF TinyReads, Spent
    <3>3. CASE method = "GET"
      <4>1. tiny'.pc = "headers" /\ tiny'.rio = NextLine(rp)
        BY <3>1, <3>3 DEF TypeInv, TinyRegs
      <4>2. /\ Len(rp.line) \in 0 .. Len(q)
            /\ From(q, Len(rp.line), Rest(NextLine(rp), in))
            /\ OneLine(NextLine(rp).line)
        BY <1>5, <1>6, <2>2, <2>5, RequestLineTaken
      <4> QED BY <2>1, <2>3, <4>1, <4>2 DEF TinyReads
    <3> QED BY <3>2, <3>3
  <2> QED BY <2>4, <2>5
<1> QED BY <1>1, <1>2, <1>3, <1>7, <1>8, TinyServesReads, SMTT(40) DEF networkVars

LEMMA TinyHeadersReads ==
    ASSUME NoBodies, Asked, TypeInv, Struct, RequestsRead, read_requesthdrs,
           UNCHANGED <<version, handler, stack>>
    PROVE  RequestsRead'
<1>1. PICK k : k = tiny.conn
  OBVIOUS
<1>2. alive["tiny"] /\ tiny.pc = "headers" /\ LineReturned /\ UNCHANGED networkVars
  BY DEF read_requesthdrs, At
<1>3. k \in Connections /\ net[k].server = "open" /\ net[k] \in Conn
  BY <1>1, <1>2, TinyHolds
<1>4. PICK rp, in : rp = tiny.rio /\ in = net[k].up
  OBVIOUS
<1>5. rp \in Buffers /\ in \in Seq(Tokens) /\ request \in [Clients -> Seq(Tokens)]
  BY <1>3, <1>4 DEF TypeInv, TinyRegs, Conn
<1>6. Returned(rp, in)
  BY <1>1, <1>2, <1>4 DEF LineReturned, AtEof, Returned
<1>7. /\ tiny'.conn = k /\ tiny'.rio = NextLine(rp)
      /\ \/ rp.line \in {<<>>, <<NL>>} /\ tiny'.pc \in {"uri", "spin"}
         \/ rp.line \notin {<<>>, <<NL>>} /\ tiny'.pc = "headers"
  BY <1>1, <1>2, <1>4 DEF read_requesthdrs, TypeInv, TinyRegs
<1>8. ASSUME NEW c \in Clients, k = Down(c) PROVE TinyReads(c)'
  <2>1. PICK q \in Seq(Tokens) : q = request[c]
    BY <1>5
  <2>2. OneLine(rp.line) /\ \E p \in 0 .. Len(q) : From(q, p, Rest(rp, in))
    BY <1>1, <1>2, <1>4, <1>8, <2>1 DEF RequestsRead, RequestRead, TinyReads
  <2>3. PICK p \in 0 .. Len(q) : From(q, p, Rest(rp, in))
    BY <2>2
  <2>4. net'[Down(c)].up = in /\ request'[c] = q
    BY <1>2, <1>4, <1>8, <2>1 DEF networkVars
  <2>5. CASE rp.line \in {<<>>, <<NL>>}
    <3>1. \A i \in 1 .. Len(q) - 1 : q[i] = NL /\ q[i + 1] = NL => i + 1 = Len(q)
      BY <2>1 DEF NoBodies, Asked
    <3>2. ~LongLine(q) => in = <<>>
      BY <1>5, <1>6, <2>3, <2>5, <3>1, HeadEnds
    <3> QED BY <1>7, <2>4, <2>5, <3>2 DEF TinyReads, Spent
  <2>6. CASE rp.line \notin {<<>>, <<NL>>}
    <3>1. Rest(rp, in) = SubSeq(q, p + 1, Len(q)) /\ rp.line # <<>>
      BY <2>3, <2>6 DEF From
    <3>2. /\ p + Len(rp.line) \in 0 .. Len(q)
          /\ From(q, p + Len(rp.line), Rest(NextLine(rp), in))
          /\ OneLine(NextLine(rp).line)
      BY <1>5, <1>6, <2>2, <3>1, LineTaken
    <3> QED BY <1>7, <2>4, <2>6, <3>2 DEF TinyReads
  <2> QED BY <2>5, <2>6
<1> QED BY <1>1, <1>2, <1>3, <1>7, <1>8, TinyServesReads DEF networkVars

LEMMA TinyReadsStep ==
    ASSUME NoBodies, Asked, TypeInv, Struct, RequestsRead, TinyNext,
           UNCHANGED <<version, handler, stack>>
    PROVE  RequestsRead'
<1> USE DEF At
<1>1. CASE TinyAccept
  BY <1>1, TinyAcceptReads
<1>2. CASE TinyRead
  BY <1>2, TinyReadReads
<1>3. CASE TinyReadFails \/ TinyWriteFails \/ (TinyMap /\ TinyDies)
  BY <1>3, TinyDiesReads DEF TinyReadFails, TinyWriteFails
<1>4. CASE TinyRequestLine
  BY <1>4, TinyRequestLineReads
<1>5. CASE read_requesthdrs
  BY <1>5, TinyHeadersReads
<1>6. CASE TinyClose
  BY <1>6, TinyCloseReads
<1>7. ASSUME alive["tiny"], tiny.pc \notin {"accept", "request", "headers", "dead"},
             tiny'.pc \notin {"accept", "request", "headers", "dead"}, tiny'.conn = tiny.conn,
             UNCHANGED <<request, to, alive>>,
             net' = net \/ \E d : net' = [net EXCEPT ![tiny.conn].down = d]
      PROVE  RequestsRead'
  <2>1. tiny.conn \in Connections
    BY <1>7, TinyHolds
  <2> QED BY <1>7, <2>1, TinyAnswersReads
<1>8. CASE TinyLookup
  <2>1. alive["tiny"] /\ tiny.pc = "uri" /\ UNCHANGED networkVars
    BY <1>8 DEF TinyLookup
  <2>2. tiny'.conn = tiny.conn /\ tiny'.pc = "write"
    <3>1. PICK p : p = parse_uri(tiny.uri)
      OBVIOUS
    <3>2. PICK t : t = [tiny EXCEPT !.uri = p.uri, !.filename = p.filename, !.cgiargs = p.cgiargs]
      OBVIOUS
    <3>3. DOMAIN t = DOMAIN tiny /\ t.conn = tiny.conn
      BY <3>2 DEF TypeInv, TinyRegs
    <3>4. \E out : \E next \in {"close", "open", "fork"} : tiny' = Answering(t, out, next)
      BY <1>8, <3>1, <3>2 DEF TinyLookup
    <3> QED BY <3>3, <3>4 DEF Answering, TypeInv, TinyRegs
  <2> QED BY <1>7, <2>1, <2>2 DEF networkVars
<1>9. CASE TinyWrite
  <2>1. alive["tiny"] /\ tiny.pc = "write" /\ UNCHANGED <<request, to, alive>>
    BY <1>9 DEF TinyWrite
  <2>2. PICK w \in rio_writen(Head(tiny.out)) :
          LET out == IF w[2] = <<>> THEN Tail(tiny.out) ELSE <<w[2]>> \o Tail(tiny.out)
          IN  /\ net' = [net EXCEPT ![tiny.conn].down = @ \o w[1]]
              /\ tiny' = [tiny EXCEPT !.out = out,
                                      !.pc = IF out = <<>> THEN tiny.next ELSE "write"]
    BY <1>9 DEF TinyWrite
  <2>3. PICK d, out : /\ net' = [net EXCEPT ![tiny.conn].down = d]
                      /\ tiny' = [tiny EXCEPT !.out = out,
                                      !.pc = IF out = <<>> THEN tiny.next ELSE "write"]
    BY <2>2
  <2>4. tiny'.conn = tiny.conn /\ tiny'.pc \in {tiny.next, "write"}
    BY <2>3 DEF TypeInv, TinyRegs
  <2>5. tiny.next \in {"open", "fork", "close"}
    BY <2>1 DEF Struct, TinyShape, TypeInv, TinyRegs
  <2> QED BY <1>7, <2>1, <2>3, <2>4, <2>5
<1>10. CASE TinyMap /\ tiny' = Answering(tiny, StaticBody(tiny.filename), "close") /\ UNCHANGED networkVars
  <2>1. alive["tiny"] /\ tiny.pc = "open"
    BY <1>10 DEF TinyMap
  <2>2. tiny'.conn = tiny.conn /\ tiny'.pc = "write"
    BY <1>10 DEF Answering, TypeInv, TinyRegs
  <2> QED BY <1>7, <1>10, <2>1, <2>2 DEF networkVars
<1>11. CASE TinyFork
  <2>1. alive["tiny"] /\ tiny.pc = "fork" /\ tiny'.conn = tiny.conn /\ tiny'.pc = "wait"
    BY <1>11 DEF TinyFork, TypeInv, TinyRegs
  <2> QED BY <1>7, <1>11, <2>1 DEF TinyFork, networkVars
<1>12. CASE CgiWrite
  <2>1. tiny.pc = "wait" /\ alive["tiny"]
    BY <1>12 DEF CgiWrite, Struct, TinyShape
  <2>2. tiny'.conn = tiny.conn /\ tiny'.pc = "wait"
    BY <1>12, <2>1 DEF CgiWrite, TypeInv, TinyRegs
  <2>3. net' = net \/ \E d : net' = [net EXCEPT ![tiny.conn].down = d]
    BY <1>12 DEF CgiWrite
  <2> QED BY <1>7, <1>12, <2>1, <2>2, <2>3 DEF CgiWrite
<1>13. CASE TinyWait
  <2>1. alive["tiny"] /\ tiny.pc = "wait" /\ tiny'.conn = tiny.conn /\ tiny'.pc = "close"
    BY <1>13 DEF TinyWait, TypeInv, TinyRegs
  <2> QED BY <1>7, <1>13, <2>1 DEF TinyWait, networkVars
<1>14. TinyMap => \/ TinyMap /\ TinyDies
                  \/ TinyMap /\ tiny' = Answering(tiny, StaticBody(tiny.filename), "close")
                     /\ UNCHANGED networkVars
  BY DEF TinyMap
<1> QED BY <1>1, <1>2, <1>3, <1>4, <1>5, <1>6, <1>8, <1>9, <1>10, <1>11, <1>12, <1>13, <1>14
        DEF TinyNext

-----------------------------------------------------------------------------
(* How a thread of the proxy reads it. *)

\* A step that only concerns the client of one thread
LEMMA ProxyServesReads ==
    ASSUME TypeInv, Struct, RequestsRead, NEW c \in Clients, to[c] = "proxy",
           UNCHANGED <<request, to, alive, tiny>>,
           \A d \in Clients : d # c => handler'[d] = handler[d] /\ net'[Down(d)] = net[Down(d)],
           net'[Down(c)].server # "queued", HandlerReads(c)',
           \/ net'[Down(c)].reset = net[Down(c)].reset
           \/ Spent(c) /\ (net'[Down(c)].reset => net[Down(c)].up # <<>>)
    PROVE  RequestsRead'
<1> SUFFICES ASSUME NEW d \in Clients PROVE RequestRead(d)'
  BY DEF RequestsRead
<1>1. RequestRead(d)
  BY DEF RequestsRead
<1>2. CASE d # c
  <2>1. handler'[d] = handler[d] /\ net'[Down(d)] = net[Down(d)]
    BY <1>2
  <2>2. HandlerReads(d)'
    BY <1>1, <2>1, HandlerReadsOn DEF RequestRead
  <2>3. tiny.conn = Down(d) => TinyReads(d)'
    BY <1>1, <2>1, TinyReadsOn DEF RequestRead
  <2> QED BY <1>1, <2>1, <2>2, <2>3 DEF RequestRead
<1>3. CASE d = c
  <2>1. tiny'.conn # Down(c)
    BY DEF Struct, TinyShape
  <2> QED BY <1>1, <1>3, <2>1 DEF RequestRead, Spent
<1> QED BY <1>2, <1>3

\* The thread of c goes on with what it has read, without a look at its connection.
LEMMA ProxyAnswersReads ==
    ASSUME TypeInv, Struct, RequestsRead, NEW c \in Clients,
           UNCHANGED <<request, to, alive, tiny>>,
           \A d \in Clients : d # c => handler'[d] = handler[d] /\ net'[Down(d)] = net[Down(d)],
           net'[Down(c)].up = net[Down(c)].up, net'[Down(c)].server = net[Down(c)].server,
           net'[Down(c)].reset = net[Down(c)].reset,
           handler[c].pc \in Serving \ {"request", "headers"},
           handler'[c].pc \in Serving \ {"request", "headers"},
           handler'[c].pc \in {"connect", "send"} =>
              handler[c].pc \in {"connect", "send"} /\ handler'[c].host = handler[c].host
    PROVE  RequestsRead'
<1>1. HandlerOK(c) /\ RequestRead(c)
  BY DEF Struct, HandlerShape, RequestsRead
<1>2. to[c] = "proxy" /\ net[Down(c)].server = "open"
  <2>1. to[c] \in {"tiny", "proxy"}
    BY DEF TypeInv, Servers
  <2> QED BY <1>1, <2>1 DEF HandlerOK, Serving
<1>3. Spent(c)
  BY <1>1 DEF RequestRead, HandlerReads
<1>4. HandlerReads(c)'
  <2>1. Spent(c)'
    BY <1>3 DEF Spent
  <2>2. HostsAreLines /\ handler'[c].pc \in {"connect", "send"} /\ HostOf(request[c]) # {}
        /\ ~LongLine(request[c]) => handler'[c].host \in HostOf(request[c])
    BY <1>1 DEF RequestRead, HandlerReads
  <2>3. handler'[c].pc # "request" /\ handler'[c].pc # "headers"
    OBVIOUS
  <2>4. request'[c] = request[c]
    OBVIOUS
  <2> QED BY <2>1, <2>2, <2>3, <2>4 DEF HandlerReads
<1>5. to[c] = "proxy" /\ net'[Down(c)].server # "queued"
  BY <1>2
<1> QED BY <1>4, <1>5, ProxyServesReads

LEMMA ProxyReadReads ==
    ASSUME TypeInv, Struct, RequestsRead, NEW c \in Clients, ProxyRead(c)
    PROVE  RequestsRead'
<1>1. /\ alive["proxy"] /\ handler[c].pc \in {"request", "headers"}
      /\ ~Complete(handler[c].rio.line) /\ UNCHANGED <<request, to, alive, tiny>>
  BY DEF ProxyRead, ProxyAt, HeadLineReturned
<1>2. PICK r \in rio_readlineb(handler[c].rio, net[Down(c)].up) :
          /\ handler' = [handler EXCEPT ![c].rio = r.rio]
          /\ net' = [net EXCEPT ![Down(c)].up = r.in]
  BY DEF ProxyRead
<1>3. /\ handler[c] \in HandlerRegs /\ handler[c].rio \in Buffers
      /\ net[Down(c)] \in Conn /\ net[Down(c)].up \in Seq(Tokens) /\ Down(c) \in Connections
  BY HandlerKnown, Ends
<1>4. /\ Rest(r.rio, r.in) = Rest(handler[c].rio, net[Down(c)].up)
      /\ OneLine(handler[c].rio.line) => OneLine(r.rio.line)
  BY <1>1, <1>3, ReadLineKeeps
<1>5. /\ net'[Down(c)].up = r.in /\ net'[Down(c)].server = net[Down(c)].server
      /\ net'[Down(c)].reset = net[Down(c)].reset
  BY <1>2, <1>3 DEF TypeInv, Conn
<1>6. /\ handler'[c].pc = handler[c].pc /\ handler'[c].rio = r.rio
      /\ handler'[c].host = handler[c].host
  BY <1>2, <1>3 DEF TypeInv, HandlerRegs
<1>7. \A d \in Clients : d # c => handler'[d] = handler[d] /\ net'[Down(d)] = net[Down(d)]
  BY <1>2, <1>3, Ends DEF TypeInv
<1>8. HandlerOK(c) /\ HandlerReads(c)
  BY DEF Struct, HandlerShape, RequestsRead, RequestRead
<1>9. to[c] = "proxy" /\ net[Down(c)].server = "open"
  <2>1. to[c] \in {"tiny", "proxy"}
    BY DEF TypeInv, Servers
  <2> QED BY <1>1, <1>8, <2>1 DEF HandlerOK, Serving
<1>10. HandlerReads(c)'
  <2>1. OneLine(handler'[c].rio.line)
    BY <1>1, <1>4, <1>6, <1>8 DEF HandlerReads
  <2>2. Rest(handler'[c].rio, net'[Down(c)].up) = Rest(handler[c].rio, net[Down(c)].up)
    BY <1>4, <1>5, <1>6
  <2>3. request'[c] = request[c]
    BY <1>1
  <2> QED BY <1>1, <1>6, <1>8, <2>1, <2>2, <2>3 DEF HandlerReads, Serving
<1>11. net'[Down(c)].server # "queued"
  BY <1>5, <1>9
<1> QED BY <1>1, <1>5, <1>7, <1>9, <1>10, <1>11, ProxyServesReads

\* What ProxyRequestLine, ProxyHeaderLine and build_http_header have in common
LEMMA HeadStep ==
    ASSUME TypeInv, Struct, RequestsRead, NEW c \in Clients, alive["proxy"],
           handler[c].pc \in {"request", "headers"}, HeadLineReturned(c),
           UNCHANGED <<networkVars, tiny>>,
           \A d \in Clients : d # c => handler'[d] = handler[d]
    PROVE  /\ handler[c].rio \in Buffers /\ net[Down(c)].up \in Seq(Tokens)
           /\ request[c] \in Seq(Tokens)
           /\ Returned(handler[c].rio, net[Down(c)].up)
           /\ HandlerReads(c)
           /\ HandlerReads(c)' => RequestsRead'
<1>1. /\ handler[c].rio \in Buffers /\ net[Down(c)].up \in Seq(Tokens)
      /\ request[c] \in Seq(Tokens)
  BY HandlerKnown DEF TypeInv
<1>2. Returned(handler[c].rio, net[Down(c)].up)
  BY DEF HeadLineReturned, AtEof, Returned
<1>3. HandlerOK(c) /\ HandlerReads(c)
  BY DEF Struct, HandlerShape, RequestsRead, RequestRead
<1>4. to[c] = "proxy" /\ net[Down(c)].server = "open"
  <2>1. to[c] \in {"tiny", "proxy"}
    BY DEF TypeInv, Servers
  <2> QED BY <1>3, <2>1 DEF HandlerOK, Serving
<1>5. ASSUME HandlerReads(c)' PROVE RequestsRead'
  <2>1. UNCHANGED <<request, to, net, alive, tiny>>
    BY DEF networkVars
  <2>2. /\ net'[Down(c)].server # "queued"
        /\ net'[Down(c)].reset = net[Down(c)].reset
        /\ \A d \in Clients : d # c => handler'[d] = handler[d] /\ net'[Down(d)] = net[Down(d)]
    BY <1>4, <2>1
  <2> QED BY <1>4, <1>5, <2>1, <2>2, ProxyServesReads
<1> QED BY <1>1, <1>2, <1>3, <1>5

LEMMA ProxyRequestLineReads ==
    ASSUME Asked, TypeInv, Struct, RequestsRead, NEW c \in Clients, ProxyRequestLine(c)
    PROVE  RequestsRead'
<1>1. /\ alive["proxy"] /\ handler[c].pc = "request" /\ HeadLineReturned(c)
      /\ UNCHANGED <<networkVars, tiny>>
  BY DEF ProxyRequestLine, ProxyAt
<1>2. PICK rp, in, q : rp = handler[c].rio /\ in = net[Down(c)].up /\ q = request[c]
  OBVIOUS
<1>a. PICK words \in IF rp.line = <<>> THEN {stack.words, <<Unset>>} ELSE {Words(rp.line)} :
          \E method \in Scanned(words, 1, stack.method), uri \in Scanned(words, 2, stack.uri) :
          \E path \in ParsedPaths(uri) :
          handler' = [handler EXCEPT ![c] =
             [@ EXCEPT !.method = method, !.uri = uri, !.path = path, !.words = words,
                       !.hostname = ParsedHost(uri), !.rio = NextLine(handler[c].rio),
                       !.pc = IF method # "GET" THEN "close" ELSE "headers"]]
  BY <1>2 DEF ProxyRequestLine
<1>b. PICK method \in Scanned(words, 1, stack.method), uri \in Scanned(words, 2, stack.uri) :
          \E path \in ParsedPaths(uri) :
          handler' = [handler EXCEPT ![c] =
             [@ EXCEPT !.method = method, !.uri = uri, !.path = path, !.words = words,
                       !.hostname = ParsedHost(uri), !.rio = NextLine(handler[c].rio),
                       !.pc = IF method # "GET" THEN "close" ELSE "headers"]]
  BY <1>a
<1>3. PICK path \in ParsedPaths(uri) :
          handler' = [handler EXCEPT ![c] =
             [@ EXCEPT !.method = method, !.uri = uri, !.path = path, !.words = words,
                       !.hostname = ParsedHost(uri), !.rio = NextLine(handler[c].rio),
                       !.pc = IF method # "GET" THEN "close" ELSE "headers"]]
  BY <1>b
<1>4. handler[c] \in HandlerRegs /\ handler \in [Clients -> HandlerRegs]
  BY DEF TypeInv
<1>5. /\ handler'[c].rio = NextLine(rp) /\ handler'[c].host = handler[c].host
      /\ handler'[c].pc = IF method # "GET" THEN "close" ELSE "headers"
      /\ \A d \in Clients : d # c => handler'[d] = handler[d]
  BY <1>2, <1>3, <1>4 DEF HandlerRegs
<1>6. /\ rp \in Buffers /\ in \in Seq(Tokens) /\ q \in Seq(Tokens) /\ Returned(rp, in)
      /\ HandlerReads(c) /\ (HandlerReads(c)' => RequestsRead')
  BY <1>1, <1>2, <1>5, HeadStep
<1>7. /\ OneLine(rp.line) /\ Rest(rp, in) = q /\ handler[c].host = Blank
  BY <1>1, <1>2, <1>6 DEF HandlerReads
<1>8. /\ net'[Down(c)].up = in /\ request'[c] = q
  BY <1>1, <1>2 DEF networkVars
<1>9. CASE method # "GET"
  <2>1. handler'[c].pc = "close"
    BY <1>5, <1>9
  <2>2. in = <<>> \/ (Clear(q) /\ ~LongLine(q) => method = Method(q))
    <3>1. CASE rp.line = <<>>
      BY <1>6, <3>1 DEF Returned, Complete
    <3>2. CASE rp.line # <<>>
      <4>1. method \in Scanned(Words(rp.line), 1, stack.method)
        BY <3>2
      <4> QED BY <1>6, <1>7, <3>2, <4>1, MethodTaken
    <3> QED BY <3>1, <3>2
  <2>3. Spent(c)'
    BY <1>8, <1>9, <2>2 DEF Spent
  <2>4. HandlerReads(c)'
    BY <2>1, <2>3 DEF HandlerReads
  <2> QED BY <1>6, <2>4
<1>10. CASE method = "GET"
  <2>1. handler'[c].pc = "headers"
    BY <1>5, <1>10
  <2>2. \E p \in 0 .. Len(q) : /\ From(q, p, Rest(NextLine(rp), in))
                               /\ HostsAreLines => HostNoticed(Blank, q, p)
    <3>0. HostsAreLines => \A i \in 1 .. Len(q) : q[i] \in HostHeaders => i > 1 /\ q[i - 1] = NL
      BY <1>2 DEF HostsAreLines, Asked
    <3>1. CASE rp.line = <<>>
      <4>1. in = <<>> /\ rp.unread = <<>>
        BY <1>6, <3>1 DEF Returned, Complete
      <4>2. Rest(NextLine(rp), in) = q /\ q = <<>>
        <5>1. NextLine(rp) = rp
          BY <1>6, <3>1 DEF NextLine, Buffers
        <5>2. Rest(rp, in) = <<>> \o (<<>> \o <<>>)
          BY <3>1, <4>1 DEF Rest
        <5>3. <<>> \o (<<>> \o <<>>) = <<>>
          <6>1. <<>> \in Seq(Tokens)
            OBVIOUS
          <6>2. <<>> \o <<>> = <<>>
            BY <6>1, CatEmpty
          <6> QED BY <6>1, <6>2, CatEmpty
        <5> QED BY <1>7, <5>1, <5>2, <5>3
      <4>3. From(q, 0, Rest(NextLine(rp), in))
        <5>1. SubSeq(q, 1, Len(q)) = q
          BY <1>6, SubSeqFull
        <5>2. Len(q) = 0 /\ 0 + 1 = 1
          BY <4>2
        <5> QED BY <4>2, <5>1, <5>2 DEF From
      <4>4. HostNoticed(Blank, q, 0)
        BY DEF HostNoticed
      <4>5. 0 \in 0 .. Len(q)
        BY <4>2
      <4> QED BY <4>3, <4>4, <4>5
    <3>2. CASE rp.line # <<>>
      <4>1. /\ Len(rp.line) \in 0 .. Len(q)
            /\ From(q, Len(rp.line), Rest(NextLine(rp), in))
            /\ rp.line \in Seq(Tokens) /\ Len(rp.line) <= Len(q)
            /\ \A j \in 1 .. Len(rp.line) : rp.line[j] = q[j]
        BY <1>6, <1>7, <3>2, RequestLineTaken
      <4>2. HostsAreLines => HostNoticed(Blank, q, Len(rp.line))
        BY <1>6, <1>7, <3>0, <4>1, HostNotFirst
      <4> QED BY <4>1, <4>2
    <3> QED BY <3>1, <3>2
  <2>3. OneLine(NextLine(rp).line)
    <3>1. NextLine(rp).line = <<>>
      BY <1>6 DEF NextLine, Buffers
    <3> QED BY <3>1 DEF OneLine
  <2>4. HandlerReads(c)'
    BY <1>5, <1>7, <1>8, <2>1, <2>2, <2>3 DEF HandlerReads
  <2> QED BY <1>6, <2>4
<1> QED BY <1>9, <1>10

LEMMA ProxyHeaderLineReads ==
    ASSUME Asked, TypeInv, Struct, RequestsRead, NEW c \in Clients, ProxyHeaderLine(c)
    PROVE  RequestsRead'
<1>1. /\ alive["proxy"] /\ handler[c].pc = "headers" /\ HeadLineReturned(c)
      /\ UNCHANGED <<networkVars, tiny>>
  BY DEF ProxyHeaderLine, ProxyAt
<1>2. PICK rp, in, q, host : /\ rp = handler[c].rio /\ in = net[Down(c)].up /\ q = request[c]
                             /\ host = handler[c].host
  OBVIOUS
<1>3. /\ rp.line # <<>>
      /\ handler' = [handler EXCEPT ![c] =
            [@ EXCEPT !.rio = NextLine(rp),
                      !.host = IF rp.line[1] \in HostHeaders THEN rp.line[1] ELSE host]]
  BY <1>2 DEF ProxyHeaderLine
<1>4. handler[c] \in HandlerRegs /\ handler \in [Clients -> HandlerRegs]
  BY DEF TypeInv
<1>5. /\ handler'[c].rio = NextLine(rp) /\ handler'[c].pc = "headers"
      /\ handler'[c].host = IF rp.line[1] \in HostHeaders THEN rp.line[1] ELSE host
      /\ \A d \in Clients : d # c => handler'[d] = handler[d]
  BY <1>1, <1>3, <1>4 DEF HandlerRegs
<1>6. /\ rp \in Buffers /\ in \in Seq(Tokens) /\ q \in Seq(Tokens) /\ Returned(rp, in)
      /\ HandlerReads(c) /\ (HandlerReads(c)' => RequestsRead')
  BY <1>1, <1>2, <1>5, HeadStep
<1>7. /\ OneLine(rp.line)
      /\ \E p \in 0 .. Len(q) : From(q, p, Rest(rp, in)) /\ (HostsAreLines => HostNoticed(host, q, p))
  BY <1>1, <1>2, <1>6 DEF HandlerReads
<1>8. PICK p \in 0 .. Len(q) : From(q, p, Rest(rp, in)) /\ (HostsAreLines => HostNoticed(host, q, p))
  BY <1>7
<1>9. Rest(rp, in) = SubSeq(q, p + 1, Len(q))
  BY <1>8 DEF From
<1>10. /\ p + Len(rp.line) \in 0 .. Len(q)
       /\ From(q, p + Len(rp.line), Rest(NextLine(rp), in))
       /\ OneLine(NextLine(rp).line)
       /\ \A j \in 1 .. Len(rp.line) : rp.line[j] = q[p + j]
       /\ rp.line \in Seq(Tokens) /\ p \in Nat /\ p + Len(rp.line) <= Len(q)
  BY <1>3, <1>6, <1>7, <1>9, LineTaken
<1>11. HostsAreLines => HostNoticed(handler'[c].host, q, p + Len(rp.line))
  <2> SUFFICES ASSUME HostsAreLines PROVE HostNoticed(handler'[c].host, q, p + Len(rp.line))
    OBVIOUS
  <2>1. /\ Blank \notin HostHeaders
        /\ \A i \in 1 .. Len(q) : q[i] \in HostHeaders => i > 1 /\ q[i - 1] = NL
    BY <1>2 DEF HostsAreLines, Asked
  <2>2. HostNoticed(host, q, p)
    BY <1>8
  <2>3. HostNoticed(IF rp.line[1] \in HostHeaders THEN rp.line[1] ELSE host, q, p + Len(rp.line))
    BY <1>3, <1>6, <1>7, <1>10, <2>1, <2>2, HostFollowed
  <2> QED BY <1>5, <2>3
<1>12. net'[Down(c)].up = in /\ request'[c] = q
  BY <1>1, <1>2 DEF networkVars
<1>13. PICK x \in 0 .. Len(q) : /\ From(q, x, Rest(NextLine(rp), in))
                                /\ HostsAreLines => HostNoticed(handler'[c].host, q, x)
  BY <1>10, <1>11
<1>14. HandlerReads(c)'
  BY <1>5, <1>10, <1>12, <1>13 DEF HandlerReads, Serving
<1> QED BY <1>6, <1>14

LEMMA BuildReads ==
    ASSUME NoBodies, Asked, TypeInv, Struct, RequestsRead, NEW c \in Clients, build_http_header(c)
    PROVE  RequestsRead'
<1>1. /\ alive["proxy"] /\ handler[c].pc = "headers" /\ HeadLineReturned(c)
      /\ UNCHANGED <<networkVars, tiny>>
  BY DEF build_http_header, ProxyAt
<1>2. PICK rp, in, q, h : /\ rp = handler[c].rio /\ in = net[Down(c)].up /\ q = request[c]
                          /\ h = handler[c]
  OBVIOUS
<1>3. PICK host \in HostLines(h), other \in OtherHdr :
        /\ rp.line \in {<<>>, <<NL>>}
        /\ handler' = [handler EXCEPT ![c] =
             [@ EXCEPT !.pc = "connect", !.host = host,
                       !.out = <<"GET", handler[c].path, NL, host, NL>> \o other \o <<NL>>]]
  BY <1>2 DEF build_http_header
<1>4. handler[c] \in HandlerRegs /\ handler \in [Clients -> HandlerRegs]
  BY DEF TypeInv
<1>5. /\ handler'[c].pc = "connect" /\ handler'[c].host = host
      /\ \A d \in Clients : d # c => handler'[d] = handler[d]
  BY <1>3, <1>4 DEF HandlerRegs
<1>6. /\ rp \in Buffers /\ in \in Seq(Tokens) /\ q \in Seq(Tokens) /\ Returned(rp, in)
      /\ HandlerReads(c) /\ (HandlerReads(c)' => RequestsRead')
  BY <1>1, <1>2, <1>5, HeadStep
<1>7. \E p \in 0 .. Len(q) : From(q, p, Rest(rp, in)) /\ (HostsAreLines => HostNoticed(h.host, q, p))
  BY <1>1, <1>2, <1>6 DEF HandlerReads
<1>8. PICK p \in 0 .. Len(q) : From(q, p, Rest(rp, in)) /\ (HostsAreLines => HostNoticed(h.host, q, p))
  BY <1>7
<1>9. \A i \in 1 .. Len(q) - 1 : q[i] = NL /\ q[i + 1] = NL => i + 1 = Len(q)
  BY <1>2 DEF NoBodies, Asked
<1>10. ~LongLine(q) => in = <<>> /\ (p = Len(q) \/ (p + 1 = Len(q) /\ q[Len(q)] = NL))
  BY <1>3, <1>6, <1>8, <1>9, HeadEnds
<1>11. ASSUME HostsAreLines, HostOf(q) # {}, ~LongLine(q) PROVE host \in HostOf(q)
  <2>1. NL \notin HostHeaders
    BY <1>11 DEF HostsAreLines
  <2>2. HostNoticed(h.host, q, p) /\ (p = Len(q) \/ (p + 1 = Len(q) /\ q[Len(q)] = NL))
    BY <1>8, <1>10, <1>11
  <2>3. h.host # Blank /\ h.host \in HostOf(q)
    BY <1>6, <1>11, <2>1, <2>2, HostAtEnd
  <2> QED BY <2>3 DEF HostLines
<1>12. net'[Down(c)].up = in /\ request'[c] = q
  BY <1>1, <1>2 DEF networkVars
<1>13. Spent(c)'
  BY <1>10, <1>12 DEF Spent
<1>14. HandlerReads(c)'
  BY <1>5, <1>11, <1>12, <1>13 DEF HandlerReads
<1> QED BY <1>6, <1>14

LEMMA ProxyAcceptReads ==
    ASSUME TypeInv, Struct, RequestsRead, NEW c \in Clients, ProxyAccept(c)
    PROVE  RequestsRead'
<1>1. /\ backlog["proxy"] # <<>> /\ Head(backlog["proxy"]) = Down(c) /\ alive["proxy"]
      /\ handler[c].pc = "idle" /\ handler' = [handler EXCEPT ![c].pc = "request"]
      /\ backlog' = [backlog EXCEPT !["proxy"] = Tail(@)]
      /\ net' = [net EXCEPT ![Down(c)].server = "open"]
      /\ UNCHANGED <<request, to, alive, tiny>> /\ "proxy" \in Servers
  BY DEF ProxyAccept, ProxyAt, Goto, Servers
<1>2. Down(c) \in Connections /\ net[Down(c)].server = "queued" /\ net[Down(c)].up \in Seq(Tokens)
  BY <1>1, Dequeue, HandlerKnown
<1>3. /\ net'[Down(c)].server = "open" /\ net'[Down(c)].up = net[Down(c)].up
      /\ net'[Down(c)].reset = net[Down(c)].reset
  BY <1>1, <1>2 DEF TypeInv, Conn
<1>4. \A d \in Clients : d # c => handler'[d] = handler[d] /\ net'[Down(d)] = net[Down(d)]
  BY <1>1, <1>2, Ends DEF TypeInv
<1>5. to[c] = "proxy"
  <2>1. backlog["proxy"] \in Seq(Connections)
    BY <1>1 DEF TypeInv
  <2>2. 1 \in 1 .. Len(backlog["proxy"]) /\ backlog["proxy"][1] = Down(c)
    BY <1>1, <2>1
  <2> QED BY <1>1, <2>2 DEF Struct, QueueShape
<1>6. handler[c] = Idle
  BY <1>1 DEF Struct, HandlerShape, HandlerOK
<1>7. /\ handler'[c].pc = "request" /\ handler'[c].host = Blank
      /\ handler'[c].rio = rio_readinitb
  BY <1>1, <1>6 DEF TypeInv, Idle
<1>8. net[Down(c)].up = request[c]
  BY <1>2 DEF RequestsRead, RequestRead
<1>9. rio_readinitb = [unread |-> <<>>, line |-> <<>>]
  BY DEF rio_readinitb
<1>10. Rest(rio_readinitb, net[Down(c)].up) = net[Down(c)].up
  <2>1. Rest(rio_readinitb, net[Down(c)].up) = <<>> \o (<<>> \o net[Down(c)].up)
    BY <1>9 DEF Rest
  <2> QED BY <1>2, <2>1, CatEmpty
<1>11. OneLine(rio_readinitb.line)
  BY <1>9 DEF OneLine
<1>12. HandlerReads(c)'
  <2>1. request'[c] = request[c]
    BY <1>1
  <2> QED BY <1>3, <1>7, <1>8, <1>10, <1>11, <2>1 DEF HandlerReads, Serving
<1> QED BY <1>1, <1>3, <1>4, <1>5, <1>12, ProxyServesReads

LEMMA ProxyCloseReads ==
    ASSUME TypeInv, Struct, RequestsRead, NEW c \in Clients, ProxyClose(c)
    PROVE  RequestsRead'
<1>1. /\ handler[c].pc = "close" /\ net' = [net EXCEPT ![Down(c)] = Shut(@)]
      /\ handler' = [handler EXCEPT ![c] = [Idle EXCEPT !.pc = "done"]]
      /\ UNCHANGED <<request, to, alive, tiny>>
  BY DEF ProxyClose, ProxyAt
<1>2. Down(c) \in Connections /\ net[Down(c)] \in Conn
  BY HandlerKnown, Ends
<1>3. HandlerOK(c) /\ HandlerReads(c)
  BY DEF Struct, HandlerShape, RequestsRead, RequestRead
<1>4. to[c] = "proxy" /\ net[Down(c)].server = "open"
  <2>1. to[c] \in {"tiny", "proxy"}
    BY DEF TypeInv, Servers
  <2> QED BY <1>1, <1>3, <2>1 DEF HandlerOK, Serving
<1>5. Spent(c)
  BY <1>1, <1>3 DEF HandlerReads, Serving
<1>6. net'[Down(c)].server = "closed" /\ (net'[Down(c)].reset => net[Down(c)].up # <<>>)
  BY <1>1, <1>2, <1>4 DEF TypeInv, Shut, Conn
<1>7. \A d \in Clients : d # c => handler'[d] = handler[d] /\ net'[Down(d)] = net[Down(d)]
  BY <1>1, <1>2, Ends DEF TypeInv
<1>8. handler'[c].pc = "done"
  BY <1>1 DEF TypeInv, Idle
<1>9. HandlerReads(c)'
  BY <1>8, HandlerReadsNothing
<1>10. net'[Down(c)].server # "queued"
  BY <1>6
<1> QED BY <1>1, <1>4, <1>5, <1>6, <1>7, <1>9, <1>10, ProxyServesReads

LEMMA ProxyDiesReads ==
    ASSUME TypeInv, Struct, RequestsRead, ProxyDies
    PROVE  RequestsRead'
<1>1. /\ alive' = [alive EXCEPT !["proxy"] = FALSE]
      /\ handler' = [c \in Clients |-> [handler[c] EXCEPT !.pc = "dead"]]
      /\ UNCHANGED <<request, to, tiny>>
  BY DEF ProxyDies
<1> SUFFICES ASSUME NEW c \in Clients PROVE RequestRead(c)'
  BY DEF RequestsRead
<1>2. RequestRead(c) /\ Down(c) \in Connections /\ net[Down(c)] \in Conn
  BY Ends, HandlerKnown DEF RequestsRead
<1>3. Down(c)[1] = c /\ Down(c)[2] = "client"
  BY DEF Down
<1>4. \/ net'[Down(c)] = net[Down(c)]
      \/ net'[Down(c)] = Shut(net[Down(c)]) /\ to[c] = "proxy"
  BY <1>2, <1>3 DEF ProxyDies
<1>5. /\ net'[Down(c)].up = net[Down(c)].up
      /\ \/ net'[Down(c)] = net[Down(c)]
         \/ net'[Down(c)].server = "closed" /\ to[c] = "proxy"
  <2>1. Shut(net[Down(c)]).up = net[Down(c)].up /\ Shut(net[Down(c)]).server = "closed"
    BY <1>2 DEF Shut, Conn
  <2>2. net'[Down(c)].up = net[Down(c)].up
    BY <1>4, <2>1
  <2>3. net'[Down(c)] = net[Down(c)] \/ (net'[Down(c)].server = "closed" /\ to[c] = "proxy")
    BY <1>4, <2>1
  <2> QED BY <2>2, <2>3
<1>6. handler'[c].pc = "dead"
  BY <1>1 DEF TypeInv, HandlerRegs
<1>7. HandlerReads(c)'
  BY <1>6, HandlerReadsNothing
<1>8. tiny.conn = Down(c) => TinyReads(c)'
  BY <1>1, <1>2, <1>5, TinyReadsOn DEF RequestRead
<1>9. /\ to'[c] = to[c] /\ to[c] \in {"tiny", "proxy"} /\ (to[c] = "proxy" => ~alive'[to[c]])
      /\ (to[c] = "tiny" => alive'[to[c]] = alive[to[c]])
  BY <1>1 DEF TypeInv, Servers
<1> QED BY <1>1, <1>2, <1>5, <1>7, <1>8, <1>9 DEF RequestRead

LEMMA ProxyReadsStep ==
    ASSUME NoBodies, Asked, TypeInv, Struct, RequestsRead, NEW c \in Clients, ProxyNext(c)
    PROVE  RequestsRead'
<1> USE DEF ProxyAt
<1>0. /\ handler \in [Clients -> HandlerRegs] /\ handler[c] \in HandlerRegs
      /\ Down(c) \in Connections /\ Up(c) \in Connections
      /\ \A d \in Clients : Down(d) \in Connections /\ Down(d) # Up(c)
      /\ \A d \in Clients : d # c => Down(d) # Down(c)
      /\ net \in [Connections -> Conn] /\ net[Down(c)] \in Conn
  BY Ends DEF TypeInv
<1>1. CASE ProxyAccept(c)
  BY <1>1, ProxyAcceptReads
<1>2. CASE ProxyRead(c)
  BY <1>2, ProxyReadReads
<1>3. CASE ProxyDies
  BY <1>3, ProxyDiesReads
<1>4. CASE ProxyRequestLine(c)
  BY <1>4, ProxyRequestLineReads
<1>5. CASE ProxyHeaderLine(c)
  BY <1>5, ProxyHeaderLineReads
<1>6. CASE build_http_header(c)
  BY <1>6, BuildReads
<1>7. CASE ProxyClose(c)
  BY <1>7, ProxyCloseReads
<1>8. ASSUME UNCHANGED <<request, to, alive, tiny>>, NEW h, handler' = [handler EXCEPT ![c] = h],
             \/ net' = net
             \/ \E x : net' = [net EXCEPT ![Up(c)] = x]
             \/ \E x : net' = [net EXCEPT ![Down(c)].down = x],
             handler[c].pc \in {"connect", "send", "relay", "write", "closeServer"},
             h.pc \in {"send", "relay", "write", "closeServer", "close"},
             h.pc = "send" => handler[c].pc \in {"connect", "send"} /\ h.host = handler[c].host
      PROVE  RequestsRead'
  <2>1. handler'[c] = h /\ \A d \in Clients : d # c => handler'[d] = handler[d]
    BY <1>0, <1>8
  <2>2. /\ \A d \in Clients : d # c => net'[Down(d)] = net[Down(d)]
        /\ net'[Down(c)].up = net[Down(c)].up /\ net'[Down(c)].server = net[Down(c)].server
        /\ net'[Down(c)].reset = net[Down(c)].reset
    <3>1. CASE net' = net
      BY <3>1
    <3>2. ASSUME NEW x, net' = [net EXCEPT ![Up(c)] = x]
          PROVE  \A d \in Clients : net'[Down(d)] = net[Down(d)]
      BY <1>0, <3>2
    <3>3. ASSUME NEW x, net' = [net EXCEPT ![Down(c)].down = x]
          PROVE  /\ \A d \in Clients : d # c => net'[Down(d)] = net[Down(d)]
                 /\ net'[Down(c)].up = net[Down(c)].up
                 /\ net'[Down(c)].server = net[Down(c)].server
                 /\ net'[Down(c)].reset = net[Down(c)].reset
      BY <1>0, <3>3 DEF Conn
    <3> QED BY <1>8, <3>1, <3>2, <3>3
  <2>3. handler[c].pc \in Serving \ {"request", "headers"}
    BY <1>8 DEF Serving
  <2>4. handler'[c].pc \in Serving \ {"request", "headers"}
    BY <1>8, <2>1 DEF Serving
  <2>5. handler'[c].pc \in {"connect", "send"} =>
           handler[c].pc \in {"connect", "send"} /\ handler'[c].host = handler[c].host
    BY <1>8, <2>1
  <2> QED BY <1>8, <2>1, <2>2, <2>3, <2>4, <2>5, ProxyAnswersReads
<1>9. CASE connect_endServer(c) /\ ~ProxyDies
  <2>1. /\ handler[c].pc = "connect" /\ open_clientfd(c) /\ Goto(c, "send")
        /\ UNCHANGED <<request, to, alive, tiny>>
    BY <1>9 DEF connect_endServer
  <2>2. PICK h : h = [handler[c] EXCEPT !.pc = "send"]
    OBVIOUS
  <2>3. /\ handler' = [handler EXCEPT ![c] = h] /\ h.pc = "send" /\ h.host = handler[c].host
    BY <1>0, <2>1, <2>2 DEF Goto, HandlerRegs
  <2>4. \E x : net' = [net EXCEPT ![Up(c)] = x]
    BY <2>1 DEF open_clientfd
  <2> QED BY <1>8, <2>1, <2>3, <2>4
<1>10. CASE ProxySend(c)
  <2>1. PICK w : /\ \E x : net' = [net EXCEPT ![Up(c)].up = x]
                 /\ handler' = [handler EXCEPT ![c] =
                      [@ EXCEPT !.out = w[2], !.pc = IF w[2] = <<>> THEN "relay" ELSE "send"]]
    BY <1>10 DEF ProxySend
  <2>2. PICK h : h = [handler[c] EXCEPT !.out = w[2], !.pc = IF w[2] = <<>> THEN "relay" ELSE "send"]
    OBVIOUS
  <2>3. /\ handler' = [handler EXCEPT ![c] = h] /\ h.pc \in {"relay", "send"}
        /\ h.host = handler[c].host
    BY <1>0, <2>1, <2>2 DEF HandlerRegs
  <2>4. \E x : net' = [net EXCEPT ![Up(c)] = x]
    BY <2>1
  <2>5. handler[c].pc = "send" /\ UNCHANGED <<request, to, alive, tiny>>
    BY <1>10 DEF ProxySend
  <2> QED BY <1>8, <2>3, <2>4, <2>5
<1>11. CASE ProxyRelayRead(c)
  <2>1. PICK r : /\ handler' = [handler EXCEPT ![c].server = r.rio]
                 /\ net' = [net EXCEPT ![Up(c)].down = r.in]
    BY <1>11 DEF ProxyRelayRead
  <2>2. PICK h : h = [handler[c] EXCEPT !.server = r.rio]
    OBVIOUS
  <2>3. handler[c].pc = "relay" /\ UNCHANGED <<request, to, alive, tiny>>
    BY <1>11 DEF ProxyRelayRead
  <2>4. handler' = [handler EXCEPT ![c] = h] /\ h.pc = "relay"
    BY <1>0, <2>1, <2>2, <2>3 DEF HandlerRegs
  <2>5. \E x : net' = [net EXCEPT ![Up(c)] = x]
    BY <2>1
  <2> QED BY <1>8, <2>3, <2>4, <2>5
<1>12. CASE ProxyRelayLine(c)
  <2>1. PICK h : h = [handler[c] EXCEPT !.server = NextLine(handler[c].server),
                    !.out = handler[c].server.line,
                    !.words = IF handler[c].server.line = <<>> THEN handler[c].words
                              ELSE Words(handler[c].server.line),
                    !.pc = IF handler[c].server.line = <<>> THEN "closeServer" ELSE "write"]
    OBVIOUS
  <2>2. handler' = [handler EXCEPT ![c] = h]
    BY <1>12, <2>1 DEF ProxyRelayLine
  <2>3. h.pc \in {"closeServer", "write"}
    BY <1>0, <2>1 DEF HandlerRegs
  <2>4. handler[c].pc = "relay" /\ UNCHANGED <<request, to, alive, tiny, net>>
    BY <1>12 DEF ProxyRelayLine, networkVars
  <2> QED BY <1>8, <2>2, <2>3, <2>4
<1>13. CASE ProxyWrite(c)
  <2>1. PICK w : /\ \E x : net' = [net EXCEPT ![Down(c)].down = x]
                 /\ handler' = [handler EXCEPT ![c] =
                      [@ EXCEPT !.out = w[2], !.pc = IF w[2] = <<>> THEN "relay" ELSE "write"]]
    BY <1>13 DEF ProxyWrite
  <2>2. PICK h : h = [handler[c] EXCEPT !.out = w[2], !.pc = IF w[2] = <<>> THEN "relay" ELSE "write"]
    OBVIOUS
  <2>3. handler' = [handler EXCEPT ![c] = h] /\ h.pc \in {"relay", "write"}
    BY <1>0, <2>1, <2>2 DEF HandlerRegs
  <2>4. handler[c].pc = "write" /\ UNCHANGED <<request, to, alive, tiny>>
    BY <1>13 DEF ProxyWrite
  <2> QED BY <1>8, <2>1, <2>3, <2>4
<1>14. CASE ProxyCloseServer(c)
  <2>1. PICK h : h = [handler[c] EXCEPT !.pc = "close"]
    OBVIOUS
  <2>2. handler' = [handler EXCEPT ![c] = h] /\ h.pc = "close"
    BY <1>0, <1>14, <2>1 DEF ProxyCloseServer, Goto, HandlerRegs
  <2>3. handler[c].pc = "closeServer" /\ UNCHANGED <<request, to, alive, tiny>>
    BY <1>14 DEF ProxyCloseServer
  <2>4. \E x : net' = [net EXCEPT ![Up(c)] = x]
    BY <1>14 DEF ProxyCloseServer
  <2> QED BY <1>8, <2>2, <2>3, <2>4
<1>15. ProxyReadFails(c) \/ OriginFails(c) \/ ProxyWriteFails(c) => ProxyDies
  BY DEF ProxyReadFails, OriginFails, ProxyWriteFails
<1> QED BY <1>1, <1>2, <1>3, <1>4, <1>5, <1>6, <1>7, <1>9, <1>10, <1>11, <1>12, <1>13, <1>14, <1>15
        DEF ProxyNext

LEMMA ClientReadsStep ==
    ASSUME TypeInv, Struct, RequestsRead, NEW c \in Clients, ConnectStep(c) \/ LeaveStep(c)
    PROVE  RequestsRead'
<1>0. Down(c) \in Connections /\ Down(c) = <<c, "client">>
  BY Ends DEF Down
<1>1. UNCHANGED <<request, to, alive, tiny, handler>>
  BY DEF ConnectStep, LeaveStep, Connect, Leave
<1>2. CASE ConnectStep(c)
  <2>1. PICK n : n = Opened(request[c], ~Whole(request[c]))
    OBVIOUS
  <2>2. net' = [net EXCEPT ![Down(c)] = n] /\ net[Down(c)] = Closed
    BY <1>0, <1>2, <2>1 DEF ConnectStep, Connect
  <2>3. n.up = request[c] /\ n.reset = FALSE
    BY <2>1 DEF Opened, Closed
  <2>4. net'[Down(c)] = n /\ \A k \in Connections : k # Down(c) => net'[k] = net[k]
    BY <1>0, <2>2 DEF TypeInv
  <2>5. ASSUME NEW d \in Clients PROVE RequestRead(d)'
    <3>1. RequestRead(d) /\ Down(d) \in Connections /\ (d # c => Down(d) # Down(c)) /\ HandlerOK(d)
      BY Ends DEF RequestsRead, Struct, HandlerShape
    <3>2. CASE d # c
      <4>1. net'[Down(d)] = net[Down(d)]
        BY <2>4, <3>1, <3>2
      <4>2. HandlerReads(d)'
        BY <1>1, <3>1, <4>1, HandlerReadsOn DEF RequestRead
      <4>3. tiny.conn = Down(d) => TinyReads(d)'
        BY <1>1, <3>1, <4>1, TinyReadsOn DEF RequestRead
      <4> QED BY <1>1, <3>1, <4>1, <4>2, <4>3 DEF RequestRead
    <3>3. CASE d = c
      <4>1. net[Down(c)].server = "none"
        BY <2>2 DEF Closed
      <4>2. handler[c].pc \notin Serving
        BY <3>1, <3>3, <4>1 DEF HandlerOK
      <4>3. HandlerReads(c)'
        BY <1>1, <4>2 DEF HandlerReads, Serving
      <4>4. tiny.conn = Down(c) => TinyReads(c)'
        <5>1. tiny.conn = Down(c) => tiny.pc = "dead"
          BY <1>0, <4>1, Ends DEF Struct, TinyShape
        <5> QED BY <1>1, <5>1 DEF TinyReads
      <4> QED BY <1>1, <2>3, <2>4, <3>3, <4>3, <4>4 DEF RequestRead
    <3> QED BY <3>2, <3>3
  <2> QED BY <2>5 DEF RequestsRead
<1>3. CASE LeaveStep(c)
  <2>1. net' = [net EXCEPT ![Down(c)].client = "gone"]
    BY <1>0, <1>3 DEF LeaveStep, Leave
  <2>2. ASSUME NEW d \in Clients PROVE RequestRead(d)'
    <3>1. RequestRead(d) /\ Down(d) \in Connections
      BY Ends DEF RequestsRead
    <3>2. /\ net'[Down(d)].up = net[Down(d)].up /\ net'[Down(d)].server = net[Down(d)].server
          /\ net'[Down(d)].reset = net[Down(d)].reset
      BY <1>0, <2>1, <3>1 DEF TypeInv, Conn
    <3>3. HandlerReads(d)'
      BY <1>1, <3>1, <3>2, HandlerReadsOn DEF RequestRead
    <3>4. tiny.conn = Down(d) => TinyReads(d)'
      BY <1>1, <3>1, <3>2, TinyReadsOn DEF RequestRead
    <3> QED BY <1>1, <3>1, <3>2, <3>3, <3>4 DEF RequestRead
  <2> QED BY <2>2 DEF RequestsRead
<1> QED BY <1>2, <1>3

LEMMA ReadsInit == Init => RequestsRead /\ Asked
<1> SUFFICES ASSUME Init PROVE RequestsRead /\ Asked
  OBVIOUS
<1> USE DEF Init, NetworkInit, TinyInit, ProxyInit
<1>1. Asked
  BY DEF Asked
<1>2. ASSUME NEW c \in Clients PROVE RequestRead(c)
  <2>1. Down(c) \in Connections /\ NoConnection # Down(c)
    BY Ends
  <2>2. net[Down(c)].server = "none" /\ ~net[Down(c)].reset
    BY <2>1 DEF Closed
  <2>3. handler[c].pc = "idle"
    BY DEF Idle
  <2>4. HandlerReads(c)
    BY <2>3 DEF HandlerReads, Serving
  <2>5. tiny.conn # Down(c)
    BY <2>1
  <2> QED BY <2>2, <2>4, <2>5 DEF RequestRead
<1> QED BY <1>1, <1>2 DEF RequestsRead

LEMMA ReadsStep ==
    ASSUME NoBodies, Asked, TypeInv, Struct, RequestsRead, [Next]_webVars
    PROVE  RequestsRead' /\ Asked'
<1>1. Asked'
  BY RequestKept DEF Asked
<1>2. CASE UNCHANGED webVars
  <2>1. UNCHANGED <<request, to, net, alive, tiny, handler>>
    BY <1>2 DEF webVars, networkVars
  <2>2. ASSUME NEW c \in Clients PROVE RequestRead(c)'
    <3>1. RequestRead(c)
      BY DEF RequestsRead
    <3>2. HandlerReads(c)'
      BY <2>1, <3>1, HandlerReadsOn DEF RequestRead
    <3>3. tiny.conn = Down(c) => TinyReads(c)'
      BY <2>1, <3>1, TinyReadsOn DEF RequestRead
    <3> QED BY <2>1, <3>1, <3>2, <3>3 DEF RequestRead
  <2> QED BY <1>1, <2>2 DEF RequestsRead
<1>3. CASE Next
  BY <1>1, <1>3, ClientReadsStep, TinyReadsStep, ProxyReadsStep DEF Next, ServerStep, TinyStep
<1> QED BY <1>2, <1>3

\* How both servers read a request is the inductive invariant of the next two theorems.
LEMMA ReadsInv == NoBodies => (Spec => [](TypeInv /\ Struct /\ RequestsRead /\ Asked))
<1> SUFFICES ASSUME NoBodies PROVE Spec => [](TypeInv /\ Struct /\ RequestsRead /\ Asked)
  OBVIOUS
<1>1. Init => TypeInv /\ Struct /\ RequestsRead /\ Asked
  BY TypeInit, StructInit, ReadsInit
<1>2. TypeInv /\ Struct /\ RequestsRead /\ Asked /\ [Next]_webVars
        => (TypeInv /\ Struct /\ RequestsRead /\ Asked)'
  BY TypeStep, StructStep, ReadsStep
<1> QED BY <1>1, <1>2, PTL DEF Spec

\* If requests have no bodies, neither server closes a connection with input unread, so that
\* the client might lose its answer, unless it refused the method or met a line that does not
\* fit its buffer, however the reads were cut, for any number of clients and any sizes of the
\* buffers (doit and read_requesthdrs of tiny.c, doit and build_http_header of the proxies).
THEOREM WebReset == NoBodies => (Spec => []ResetOnlyAfterRefusal)
<1>1. RequestsRead => ResetOnlyAfterRefusal
  BY DEF RequestsRead, RequestRead, ResetOnlyAfterRefusal
<1> QED BY <1>1, ReadsInv, PTL

\* If requests have no bodies and Host headers stand where lines begin, the Host line of a
\* request is the one that its origin gets, unless a line too long for the buffer hid it,
\* and never that of an earlier request on the stack (build_http_header).
THEOREM WebHost == NoBodies /\ HostsAreLines => (Spec => []HostForwarded)
<1> SUFFICES ASSUME NoBodies, HostsAreLines PROVE Spec => []HostForwarded
  OBVIOUS
<1>1. RequestsRead => HostForwarded
  BY DEF RequestsRead, RequestRead, HandlerReads, HostForwarded
<1> QED BY <1>1, ReadsInv, PTL

-----------------------------------------------------------------------------
(* What a client is sent. *)

Prefix(s, t) == \E x \in Seq(Tokens) : t = s \o x

Fetching == {"send", "relay", "write"}

\* The stream s begins with the method and the URI of the request r.
Asks(s, r) == /\ Len(s) >= 2
              /\ s[1] = Method(r) /\ s[2] = Uri(r)
              /\ s[1] # NL /\ s[2] # NL

\* What the thread of c has still to send to the origin, and to its client
Left(c) == IF handler[c].pc = "send" THEN handler[c].out ELSE <<>>
Due(c)  == IF handler[c].pc = "write" THEN handler[c].out ELSE <<>>

\* All that Tiny has sent for c so far
Sent(c) == IF to[c] = "tiny" THEN net[Down(c)].down
           ELSE net[Down(c)].down \o (Due(c) \o Rest(handler[c].server, net[Up(c)].down))

\* The calls of rio_writen that are due, as one sequence: an answer has at most four
Flat(s) == CASE Len(s) = 1 -> s[1]
             [] Len(s) = 2 -> s[1] \o s[2]
             [] Len(s) = 3 -> s[1] \o (s[2] \o s[3])
             [] Len(s) = 4 -> s[1] \o (s[2] \o (s[3] \o s[4]))
             [] OTHER -> <<>>

\* What serve_static and serve_dynamic send after the head
Then(t, next) == CASE next = "open" /\ t.filename \in Files \ Empty -> <<t.filename, "end">>
                   [] next = "fork" -> adder(t.cgiargs)
                   [] OTHER -> <<>>

\* What Tiny is about to send
Coming(t) == CASE t.pc = "write" -> Flat(t.out) \o Then(t, t.next)
               [] t.pc = "wait" -> t.cgi
               [] OTHER -> Then(t, t.pc)

\* Tiny serves c on connection k, directly or as the origin.
Serves(c, k) == \/ k = Down(c) /\ to[c] = "tiny"
                \/ k = Up(c) /\ handler[c].pc \in Fetching

TinyAnswers(c, k) ==
    /\ tiny.pc = "request" => Asks(Rest(tiny.rio, net[k].up) \o Left(c), request[c])
    /\ tiny.pc \in {"request", "headers", "uri"} => Sent(c) = <<>>
    /\ tiny.pc \in {"headers", "uri"} => tiny.uri = Uri(request[c]) /\ Method(request[c]) = "GET"
    /\ tiny.pc = "write" => Len(tiny.out) <= 4
    /\ Prefix(Sent(c) \o Coming(tiny), Answer(c))

\* The thread of c asks for what its client asked for.
HandlerAnswers(c) ==
    LET h == handler[c]
    IN  /\ h.pc \in {"request", "headers", "connect"} =>
              net[Down(c)].down = <<>> /\ h.server = rio_readinitb
        /\ h.pc = "request" => Asks(Rest(h.rio, net[Down(c)].up), request[c])
        /\ h.pc \in {"headers", "connect"} =>
              /\ h.path = Uri(request[c])
              /\ h.hostname = Origin => Uri(request[c]) \notin ColonUris
        /\ h.pc = "connect" => Asks(h.out, request[c])
        /\ h.pc \in {"headers", "connect"} \cup Fetching => Method(request[c]) = "GET"
        /\ h.pc \in Fetching => Uri(request[c]) \notin ColonUris

AnswerKept(c) ==
    /\ Prefix(net[Down(c)].down, Answer(c))
    /\ net[Down(c)].server = "queued" => net[Down(c)].down = <<>> /\ Asks(net[Down(c)].up, request[c])
    /\ HandlerAnswers(c)
    /\ handler[c].pc \in Fetching =>
          /\ Prefix(Sent(c), Answer(c))
          /\ net[Up(c)].server = "queued" => Sent(c) = <<>> /\ Asks(net[Up(c)].up \o Left(c), request[c])
    /\ \A k \in Connections : tiny.pc # "dead" /\ tiny.conn = k /\ Serves(c, k) => TinyAnswers(c, k)

\* A request whose answer is known
Known(c) == Clear(request[c]) /\ (to[c] = "proxy" => Uri(request[c]) \notin NoPathUris)

AnswersKept == \A c \in Clients : Known(c) => AnswerKept(c)

LEMMA PrefixIs ==
    ASSUME NEW s \in Seq(Tokens), NEW t, Prefix(s, t)
    PROVE  IsPrefix(s, t)
<1>1. PICK x \in Seq(Tokens) : t = s \o x
  BY DEF Prefix
<1>2. /\ t \in Seq(Tokens) /\ Len(t) = Len(s) + Len(x)
      /\ \A i \in 1 .. Len(s) : t[i] = s[i]
  BY <1>1, CatTyped
<1>3. PICK m \in Nat, n \in Nat : m = Len(s) /\ n = Len(x)
  <2>1. Len(s) \in Nat /\ Len(x) \in Nat
    OBVIOUS
  <2> QED BY <2>1
<1>4. Len(t) = m + n /\ m <= m + n /\ m \in 0 .. Len(t) /\ m \in 0 .. Len(s)
  BY <1>2, <1>3
<1>5. /\ SubSeq(s, 1, m) \in Seq(Tokens) /\ Len(SubSeq(s, 1, m)) = m
      /\ \A i \in 1 .. m : SubSeq(s, 1, m)[i] = s[i]
  BY <1>4, CutInTwo
<1>6. /\ SubSeq(t, 1, m) \in Seq(Tokens) /\ Len(SubSeq(t, 1, m)) = m
      /\ \A i \in 1 .. m : SubSeq(t, 1, m)[i] = t[i]
  BY <1>2, <1>4, CutInTwo
<1>7. SubSeq(s, 1, m) = SubSeq(t, 1, m)
  <2>1. \A i \in 1 .. m : SubSeq(s, 1, m)[i] = SubSeq(t, 1, m)[i]
    BY <1>2, <1>3, <1>5, <1>6
  <2> QED BY <1>5, <1>6, <2>1, SeqEqual
<1> QED BY <1>3, <1>4, <1>7 DEF IsPrefix

LEMMA PrefixLess ==
    ASSUME NEW a \in Seq(Tokens), NEW b \in Seq(Tokens), NEW t, Prefix(a \o b, t)
    PROVE  Prefix(a, t)
<1>1. PICK x \in Seq(Tokens) : t = (a \o b) \o x
  BY DEF Prefix
<1>2. b \o x \in Seq(Tokens)
  BY CatTyped
<1>3. (a \o b) \o x = a \o (b \o x)
  BY CatAssoc
<1> QED BY <1>1, <1>2, <1>3 DEF Prefix

LEMMA PrefixEmpty ==
    ASSUME NEW t \in Seq(Tokens) PROVE Prefix(<<>>, t) /\ Prefix(t, t)
<1>1. <<>> \o t = t /\ t \o <<>> = t
  BY CatEmpty
<1>2. <<>> \in Seq(Tokens)
  OBVIOUS
<1> QED BY <1>1, <1>2 DEF Prefix

\* A line that begins the stream s: its words are those that s begins with, however far
\* rio_readlineb got.
LEMMA WordsTaken ==
    ASSUME NEW s \in Seq(Tokens), NEW l \in Seq(Tokens), MAXLINE > 2,
           Len(s) >= 2, s[1] # NL, s[2] # NL,
           l # <<>>, Len(l) <= Len(s), \A j \in 1 .. Len(l) : l[j] = s[j],
           Last(l) = NL \/ Len(l) = MAXLINE - 1 \/ Len(l) = Len(s)
    PROVE  /\ Words(l) \in Seq(Tokens) /\ Len(Words(l)) >= 2
           /\ Words(l)[1] = s[1] /\ Words(l)[2] = s[2]
<1>1. PICK m \in Nat, n \in Nat : m = Len(l) /\ n = Len(s)
  OBVIOUS
<1>2. m > 0 /\ m <= n /\ n >= 2
  BY <1>1, EmptySeq
<1>3. \A j \in 1 .. m : l[j] = s[j]
  BY <1>1
<1>4. Len(Words(l)) >= 2
  <2>1. CASE Last(l) = NL
    <3>1. m \in 1 .. m /\ l[m] = NL
      BY <1>1, <1>2, <2>1 DEF Last
    <3>2. s[m] = NL
      BY <1>3, <3>1
    <3>3. m # 1 /\ m # 2
      BY <3>2
    <3>4. m >= 3
      BY <1>2, <3>3
    <3>5. Words(l) = SubSeq(l, 1, m - 1)
      BY <1>1, <2>1 DEF Words, Front
    <3>6. m - 1 \in 0 .. Len(l)
      BY <1>1, <3>4
    <3>7. Len(SubSeq(l, 1, m - 1)) = m - 1
      BY <3>6, CutInTwo
    <3> QED BY <3>4, <3>5, <3>7
  <2>2. CASE Last(l) # NL
    <3>1. Words(l) = l
      BY <2>2 DEF Words
    <3>2. MAXLINE \in Nat
      BY MaxLineAssumption
    <3> QED BY <1>1, <1>2, <2>2, <3>1, <3>2
  <2> QED BY <2>1, <2>2
<1>5. /\ Words(l) \in Seq(Tokens) /\ Len(Words(l)) <= m
      /\ \A j \in 1 .. Len(Words(l)) : Words(l)[j] = l[j]
  BY <1>1, WordsTyped
<1>6. PICK w \in Nat : w = Len(Words(l))
  BY <1>5
<1>7. 1 \in 1 .. w /\ 2 \in 1 .. w /\ 1 \in 1 .. m /\ 2 \in 1 .. m
  BY <1>4, <1>5, <1>6
<1>8. Words(l)[1] = l[1] /\ Words(l)[2] = l[2]
  BY <1>5, <1>6, <1>7
<1>9. l[1] = s[1] /\ l[2] = s[2]
  BY <1>3, <1>7
<1> QED BY <1>4, <1>5, <1>8, <1>9

\* A request line with a method and a URI begins with them.
LEMMA ClearBegins ==
    ASSUME NEW r \in Seq(Tokens), Clear(r)
    PROVE  /\ Len(r) >= 2 /\ r[1] = Method(r) /\ r[2] = Uri(r)
           /\ r[1] # NL /\ r[2] # NL
<1> DEFINE ends == {i \in 1 .. Len(r) : r[i] = NL}
<1>1. PICK n \in Nat : n = Len(r)
  OBVIOUS
<1>2. Len(Words(FirstLine(r))) >= 2
  BY DEF Clear
<1>3. CASE ends = {}
  <2>1. FirstLine(r) = r
    BY <1>3 DEF FirstLine
  <2>2. PICK w \in Nat : w = Len(Words(r))
    BY WordsTyped
  <2>3. w >= 2 /\ w <= n /\ \A j \in 1 .. w : Words(r)[j] = r[j]
    BY <1>1, <1>2, <2>1, <2>2, WordsTyped
  <2>4. 1 \in 1 .. w /\ 2 \in 1 .. w /\ 1 \in 1 .. n /\ 2 \in 1 .. n /\ n >= 2
    BY <2>3
  <2>5. r[1] # NL /\ r[2] # NL
    BY <1>1, <1>3, <2>4
  <2> QED BY <1>1, <2>1, <2>3, <2>4, <2>5 DEF Method, Uri
<1>4. CASE ends # {}
  <2>1. PICK e : e = CHOOSE i \in ends : \A j \in ends : i <= j
    OBVIOUS
  <2>2. e \in ends /\ \A j \in ends : e <= j
    <3>1. ends \in SUBSET Nat
      OBVIOUS
    <3>2. \E i \in ends : \A j \in ends : i <= j
      BY <1>4, <3>1, LeastNatural
    <3> QED BY <2>1, <3>2
  <2>3. e \in 1 .. n /\ r[e] = NL /\ \A j \in 1 .. e - 1 : r[j] # NL
    <3>1. e \in 1 .. n /\ r[e] = NL
      BY <1>1, <2>2
    <3>2. ASSUME NEW j \in 1 .. e - 1 PROVE r[j] # NL
      <4>1. j \in 1 .. Len(r) /\ ~(e <= j)
        BY <1>1, <3>1, <3>2
      <4> QED BY <2>2, <4>1
    <3> QED BY <3>1, <3>2
  <2>4. PICK f : f = SubSeq(r, 1, e)
    OBVIOUS
  <2>5. FirstLine(r) = f
    BY <1>4, <2>1, <2>4 DEF FirstLine
  <2>6. f \in Seq(Tokens) /\ Len(f) = e /\ \A j \in 1 .. e : f[j] = r[j]
    <3>1. e \in 0 .. Len(r)
      BY <1>1, <2>3
    <3> QED BY <2>4, <3>1, CutInTwo
  <2>7. f # <<>> /\ Last(f) = NL
    <3>1. e \in 1 .. e
      BY <2>3
    <3>2. f[e] = NL
      BY <2>3, <2>6, <3>1
    <3>3. f # <<>>
      BY <2>3, <2>6, EmptySeq
    <3> QED BY <2>6, <3>2, <3>3 DEF Last
  <2>8. Words(f) = SubSeq(f, 1, e - 1)
    BY <2>6, <2>7 DEF Words, Front
  <2>9. Len(Words(f)) = e - 1 /\ \A j \in 1 .. e - 1 : Words(f)[j] = f[j]
    <3>1. e - 1 \in 0 .. Len(f)
      BY <2>3, <2>6
    <3> QED BY <2>6, <2>8, <3>1, CutInTwo
  <2>10. e - 1 >= 2
    BY <1>2, <2>5, <2>9
  <2>11. 1 \in 1 .. e - 1 /\ 2 \in 1 .. e - 1 /\ 1 \in 1 .. e /\ 2 \in 1 .. e /\ n >= 2
    BY <2>3, <2>10
  <2>12. Words(f)[1] = r[1] /\ Words(f)[2] = r[2]
    BY <2>6, <2>9, <2>11
  <2>13. r[1] # NL /\ r[2] # NL
    BY <2>3, <2>11
  <2> QED BY <1>1, <2>5, <2>11, <2>12, <2>13 DEF Method, Uri
<1> QED BY <1>3, <1>4

-----------------------------------------------------------------------------
(* What is owed to a client, and what Tiny is about to send. *)

LEMMA StreamsTyped ==
    ASSUME TypeInv, NEW c \in Clients
    PROVE  /\ Left(c) \in Seq(Tokens) /\ Due(c) \in Seq(Tokens) /\ Sent(c) \in Seq(Tokens)
           /\ Rest(handler[c].server, net[Up(c)].down) \in Seq(Tokens)
<1>1. /\ handler[c].server \in Buffers /\ handler[c].out \in Seq(Tokens)
      /\ net[Down(c)].down \in Seq(Tokens) /\ net[Up(c)].down \in Seq(Tokens)
  BY HandlerKnown
<1>2. <<>> \in Seq(Tokens)
  OBVIOUS
<1>3. Left(c) \in Seq(Tokens) /\ Due(c) \in Seq(Tokens)
  BY <1>1, <1>2 DEF Left, Due
<1>4. Rest(handler[c].server, net[Up(c)].down) \in Seq(Tokens)
  BY <1>1, RestTyped
<1>5. Due(c) \o Rest(handler[c].server, net[Up(c)].down) \in Seq(Tokens)
  BY <1>3, <1>4, CatTyped
<1>6. net[Down(c)].down \o (Due(c) \o Rest(handler[c].server, net[Up(c)].down)) \in Seq(Tokens)
  BY <1>1, <1>5, CatTyped
<1> QED BY <1>1, <1>3, <1>4, <1>6 DEF Sent

LEMMA ThenTyped ==
    ASSUME NEW t, t.filename \in Tokens, t.cgiargs \in Tokens, NEW next
    PROVE  Then(t, next) \in Seq(Tokens)
<1>1. CASE next = "open" /\ t.filename \in Files \ Empty
  <2>1. Then(t, next) = <<t.filename, "end">>
    BY <1>1 DEF Then
  <2> QED BY <2>1, Literals
<1>2. CASE next = "fork"
  <2>1. Then(t, next) = adder(t.cgiargs)
    BY <1>2 DEF Then
  <2> QED BY <2>1, AnswersTyped
<1>3. CASE ~(next = "open" /\ t.filename \in Files \ Empty) /\ next # "fork"
  <2>1. Then(t, next) = <<>>
    BY <1>3 DEF Then
  <2> QED BY <2>1
<1> QED BY <1>1, <1>2, <1>3

LEMMA FlatOf ==
    ASSUME NEW a \in Seq(Tokens), NEW s \in Seq(Seq(Tokens)), Len(s) <= 3
    PROVE  /\ Flat(s) \in Seq(Tokens)
           /\ Flat(<<a>> \o s) = a \o Flat(s)
<1>1. PICK x : x = <<a>> \o s
  OBVIOUS
<1>2. Len(x) = Len(s) + 1 /\ x[1] = a /\ \A i \in 1 .. Len(s) : x[i + 1] = s[i]
  <2>1. <<a>> \in Seq(Seq(Tokens)) /\ Len(<<a>>) = 1 /\ <<a>>[1] = a
    OBVIOUS
  <2>2. /\ Len(x) = 1 + Len(s)
        /\ \A i \in 1 .. 1 + Len(s) : x[i] = IF i <= 1 THEN <<a>>[i] ELSE s[i - 1]
    BY <1>1, <2>1, ConcatProperties
  <2>3. PICK n \in Nat : n = Len(s)
    OBVIOUS
  <2>4. x[1] = a
    BY <2>1, <2>2, <2>3
  <2>5. ASSUME NEW i \in 1 .. n PROVE x[i + 1] = s[i]
    <3>1. i + 1 \in 1 .. 1 + n /\ ~(i + 1 <= 1) /\ i + 1 - 1 = i
      BY <2>5
    <3> QED BY <2>2, <2>3, <3>1
  <2> QED BY <2>2, <2>3, <2>4, <2>5
<1>a. \A i \in 1 .. Len(s) : s[i] \in Seq(Tokens)
  OBVIOUS
<1>3. CASE Len(s) = 0
  <2>1. Len(x) = 1 /\ x[1] = a
    BY <1>2, <1>3
  <2>2. Flat(x) = a
    BY <2>1 DEF Flat
  <2>3. Flat(s) = <<>>
    BY <1>3 DEF Flat
  <2> QED BY <1>1, <2>2, <2>3, CatEmpty
<1>4. CASE Len(s) = 1
  <2>1. Len(x) = 2 /\ x[1] = a /\ x[2] = s[1] /\ s[1] \in Seq(Tokens)
    BY <1>2, <1>4
  <2>2. Flat(x) = x[1] \o x[2]
    BY <2>1 DEF Flat
  <2>3. Flat(s) = s[1]
    BY <1>4 DEF Flat
  <2> QED BY <1>1, <2>1, <2>2, <2>3
<1>5. CASE Len(s) = 2
  <2>0. 1 \in 1 .. Len(s) /\ 2 \in 1 .. Len(s)
    BY <1>5
  <2>a. Len(x) = 3 /\ x[1] = a /\ x[1 + 1] = s[1] /\ x[2 + 1] = s[2]
    BY <1>2, <1>5, <2>0
  <2>1. Len(x) = 3 /\ x[1] = a /\ x[2] = s[1] /\ x[3] = s[2] /\ s[1] \in Seq(Tokens)
        /\ s[2] \in Seq(Tokens)
    BY <1>a, <2>0, <2>a
  <2>b. Len(x) = 3
    BY <2>1
  <2>2. Flat(x) = x[1] \o (x[2] \o x[3])
    BY ONLY <2>b DEF Flat
  <2>3. Flat(s) = s[1] \o s[2]
    BY <1>5 DEF Flat
  <2>4. s[1] \o s[2] \in Seq(Tokens)
    BY <2>1, CatTyped
  <2> QED BY <1>1, <2>1, <2>2, <2>3, <2>4
<1>6. CASE Len(s) = 3
  <2>0. 1 \in 1 .. Len(s) /\ 2 \in 1 .. Len(s) /\ 3 \in 1 .. Len(s)
    BY <1>6
  <2>a. Len(x) = 4 /\ x[1] = a /\ x[1 + 1] = s[1] /\ x[2 + 1] = s[2] /\ x[3 + 1] = s[3]
    BY <1>2, <1>6, <2>0
  <2>1. Len(x) = 4 /\ x[1] = a /\ x[2] = s[1] /\ x[3] = s[2] /\ x[4] = s[3]
        /\ s[1] \in Seq(Tokens) /\ s[2] \in Seq(Tokens) /\ s[3] \in Seq(Tokens)
    BY <1>a, <2>0, <2>a
  <2>b. Len(x) = 4
    BY <2>1
  <2>2. Flat(x) = x[1] \o (x[2] \o (x[3] \o x[4]))
    BY ONLY <2>b DEF Flat
  <2>3. Flat(s) = s[1] \o (s[2] \o s[3])
    BY <1>6 DEF Flat
  <2>4. s[2] \o s[3] \in Seq(Tokens)
    BY <2>1, CatTyped
  <2>5. s[1] \o (s[2] \o s[3]) \in Seq(Tokens)
    BY <2>1, <2>4, CatTyped
  <2> QED BY <1>1, <2>1, <2>2, <2>3, <2>5
<1>7. Len(s) \in {0, 1, 2, 3}
  <2>1. PICK n \in Nat : n = Len(s)
    OBVIOUS
  <2>2. n <= 3 /\ n \in Nat
    BY <2>1
  <2>3. n \in {0, 1, 2, 3}
    BY ONLY <2>2
  <2> QED BY <2>1, <2>3
<1> QED BY <1>3, <1>4, <1>5, <1>6, <1>7

LEMMA HeadAndTail ==
    ASSUME NEW out \in Seq(Written), out # <<>>
    PROVE  out = <<Head(out)>> \o Tail(out)
<1>1. Head(out) \in Written /\ Tail(out) \in Seq(Written) /\ Head(out) = out[1]
      /\ Len(Tail(out)) = Len(out) - 1 /\ \A i \in 1 .. Len(Tail(out)) : Tail(out)[i] = out[i + 1]
  BY HeadTailProperties
<1>2. PICK h, t, x : h = <<Head(out)>> /\ t = Tail(out) /\ x = h \o t
  OBVIOUS
<1>3. h \in Seq(Written) /\ Len(h) = 1 /\ h[1] = out[1] /\ t \in Seq(Written)
  BY <1>1, <1>2
<1>4. /\ x \in Seq(Written) /\ Len(x) = Len(h) + Len(t)
      /\ \A i \in 1 .. Len(h) + Len(t) : x[i] = IF i <= Len(h) THEN h[i] ELSE t[i - Len(h)]
  BY <1>2, <1>3, ConcatProperties
<1>5. PICK n \in Nat : n = Len(t) /\ Len(out) = n + 1
  <2>1. PICK n \in Nat, o \in Nat : n = Len(t) /\ o = Len(out)
    BY <1>3
  <2>2. n = o - 1
    BY <1>1, <1>2, <2>1
  <2>3. o = n + 1
    BY <2>2
  <2> QED BY <2>1, <2>3
<1>6. Len(x) = Len(out) /\ Len(x) = 1 + n
  BY <1>3, <1>4, <1>5
<1>7. ASSUME NEW i \in 1 .. Len(x) PROVE x[i] = out[i]
  <2>1. i \in 1 .. 1 + n
    BY <1>6, <1>7
  <2>2. x[i] = IF i <= 1 THEN h[i] ELSE t[i - 1]
    BY <1>3, <1>4, <1>5, <2>1
  <2>3. CASE i = 1
    BY <1>3, <2>2, <2>3
  <2>4. CASE i # 1
    <3>1. i - 1 \in 1 .. n /\ ~(i <= 1) /\ i - 1 + 1 = i
      BY <2>1, <2>4
    <3> QED BY <1>1, <1>2, <1>5, <2>2, <3>1
  <2> QED BY <2>3, <2>4
<1>8. x = out
  BY <1>4, <1>6, <1>7, SeqEqual
<1> QED BY <1>2, <1>8

\* The first call that is due, and the others
LEMMA FlatHead ==
    ASSUME NEW out \in Seq(Written), out # <<>>, Len(out) <= 4
    PROVE  /\ Head(out) \in Written /\ Tail(out) \in Seq(Seq(Tokens)) /\ Len(Tail(out)) <= 3
           /\ Flat(out) \in Seq(Tokens) /\ Flat(Tail(out)) \in Seq(Tokens)
           /\ Flat(out) = Head(out) \o Flat(Tail(out))
<1>1. Head(out) \in Written /\ Tail(out) \in Seq(Written) /\ Len(Tail(out)) = Len(out) - 1
  BY EmptySeq
<1>2. Written \subseteq Seq(Tokens)
  BY DEF Written
<1>3. Tail(out) \in Seq(Seq(Tokens))
  <2>1. \A i \in 1 .. Len(Tail(out)) : Tail(out)[i] \in Seq(Tokens)
    BY <1>1, <1>2
  <2> QED BY <1>1, <1>2
<1>4. out = <<Head(out)>> \o Tail(out)
  BY HeadAndTail
<1>5. Len(Tail(out)) <= 3 /\ Head(out) \in Seq(Tokens)
  BY <1>1, <1>2
<1>6. Flat(Tail(out)) \in Seq(Tokens) /\ Flat(<<Head(out)>> \o Tail(out)) = Head(out) \o Flat(Tail(out))
  BY <1>3, <1>5, FlatOf
<1>7. Head(out) \o Flat(Tail(out)) \in Seq(Tokens)
  BY <1>5, <1>6, CatTyped
<1> QED BY <1>1, <1>3, <1>4, <1>5, <1>6, <1>7

LEMMA Joined ==
    ASSUME NEW a \in Tokens, NEW b \in Tokens
    PROVE  /\ <<a>> \o <<b>> = <<a, b>>
           /\ \A d \in Tokens : <<a>> \o <<b, d>> = <<a, b, d>>
           /\ \A d, e \in Tokens : <<a>> \o <<b, d, e>> = <<a, b, d, e>>
<1>1. ASSUME NEW s \in Seq(Tokens), NEW t \in Seq(Tokens), Len(t) = Len(s) + 1, t[1] = a,
             \A i \in 2 .. Len(t) : t[i] = s[i - 1]
      PROVE  <<a>> \o s = t
  <2>1. <<a>> \in Seq(Tokens) /\ Len(<<a>>) = 1 /\ <<a>>[1] = a
    OBVIOUS
  <2>2. PICK x : x = <<a>> \o s
    OBVIOUS
  <2>3. /\ x \in Seq(Tokens) /\ Len(x) = 1 + Len(s)
        /\ \A i \in 1 .. 1 + Len(s) : x[i] = IF i <= 1 THEN <<a>>[i] ELSE s[i - 1]
    BY <2>1, <2>2, ConcatProperties
  <2>4. PICK n \in Nat : n = Len(s)
    OBVIOUS
  <2>5. Len(x) = Len(t)
    BY <1>1, <2>3, <2>4
  <2>6. ASSUME NEW i \in 1 .. 1 + n PROVE x[i] = t[i]
    <3>1. CASE i = 1
      BY <1>1, <2>1, <2>3, <2>4, <3>1
    <3>2. CASE i # 1
      <4>1. i \in 2 .. Len(t) /\ ~(i <= 1)
        BY <1>1, <2>4, <3>2
      <4> QED BY <1>1, <2>3, <2>4, <4>1
    <3> QED BY <3>1, <3>2
  <2>7. \A i \in 1 .. Len(x) : x[i] = t[i]
    BY <2>3, <2>4, <2>6
  <2>8. x = t
    BY <1>1, <2>3, <2>5, <2>7, SeqEqual
  <2> QED BY <2>2, <2>8
<1>2. <<a>> \o <<b>> = <<a, b>>
  <2>1. PICK s, t : s = <<b>> /\ t = <<a, b>>
    OBVIOUS
  <2>2. /\ s \in Seq(Tokens) /\ t \in Seq(Tokens) /\ Len(s) = 1 /\ Len(t) = 2
        /\ s[1] = b /\ t[1] = a /\ t[2] = b
    BY <2>1
  <2>3. \A i \in 2 .. Len(t) : t[i] = s[i - 1]
    BY <2>2
  <2>4. Len(t) = Len(s) + 1 /\ t[1] = a
    BY <2>2
  <2>5. <<a>> \o s = t
    BY <1>1, <2>2, <2>3, <2>4
  <2> QED BY <2>1, <2>5
<1>3. ASSUME NEW d \in Tokens PROVE <<a>> \o <<b, d>> = <<a, b, d>>
  <2>1. PICK s, t : s = <<b, d>> /\ t = <<a, b, d>>
    OBVIOUS
  <2>2. /\ s \in Seq(Tokens) /\ t \in Seq(Tokens) /\ Len(s) = 2 /\ Len(t) = 3
        /\ s[1] = b /\ s[2] = d /\ t[1] = a /\ t[2] = b /\ t[3] = d
    BY <2>1
  <2>3. \A i \in 2 .. Len(t) : t[i] = s[i - 1]
    BY <2>2
  <2>4. Len(t) = Len(s) + 1 /\ t[1] = a
    BY <2>2
  <2>5. <<a>> \o s = t
    BY <1>1, <2>2, <2>3, <2>4
  <2> QED BY <2>1, <2>5
<1>4. ASSUME NEW d \in Tokens, NEW e \in Tokens PROVE <<a>> \o <<b, d, e>> = <<a, b, d, e>>
  <2>1. PICK s, t : s = <<b, d, e>> /\ t = <<a, b, d, e>>
    OBVIOUS
  <2>2. /\ s \in Seq(Tokens) /\ t \in Seq(Tokens) /\ Len(s) = 3 /\ Len(t) = 4
        /\ s[1] = b /\ s[2] = d /\ s[3] = e /\ t[1] = a /\ t[2] = b /\ t[3] = d /\ t[4] = e
    BY <2>1
  <2>3. \A i \in 2 .. Len(t) : t[i] = s[i - 1]
    BY <2>2
  <2>4. Len(t) = Len(s) + 1 /\ t[1] = a
    BY <2>2
  <2>5. <<a>> \o s = t
    BY <1>1, <2>2, <2>3, <2>4
  <2> QED BY <2>1, <2>5
<1> QED BY <1>2, <1>3, <1>4

LEMMA PagesAre ==
    ASSUME NEW e \in {"501", "404", "403"}
    PROVE  /\ ErrorPage(e) \in Seq(Tokens)
           /\ Flat(clienterror(e)) = ErrorPage(e) /\ Len(clienterror(e)) = 4
<1>1. e \in Tokens /\ "type" \in Tokens /\ "length" \in Tokens /\ "TinyError" \in Tokens
  BY Literals
<1>2. PICK a, b, d : a = "type" /\ b = "length" /\ d = "TinyError"
  OBVIOUS
<1>3. a \in Tokens /\ b \in Tokens /\ d \in Tokens
  BY <1>1, <1>2
<1>4. ErrorPage(e) = <<e, a, b, d>>
  BY <1>2 DEF ErrorPage
<1>5. <<e, a, b, d>> \in Seq(Tokens)
  BY <1>1, <1>3
<1>6. PICK x : x = <<<<e>>, <<a>>, <<b>>, <<d>>>>
  OBVIOUS
<1>7. clienterror(e) = x
  BY <1>2, <1>6 DEF clienterror
<1>8. Len(x) = 4 /\ x[1] = <<e>> /\ x[2] = <<a>> /\ x[3] = <<b>> /\ x[4] = <<d>>
  BY <1>6
<1>9. Flat(x) = x[1] \o (x[2] \o (x[3] \o x[4]))
  <2>1. Len(x) = 4
    BY <1>8
  <2> QED BY ONLY <2>1 DEF Flat
<1>10. <<b>> \o <<d>> = <<b, d>> /\ <<a>> \o <<b, d>> = <<a, b, d>>
       /\ <<e>> \o <<a, b, d>> = <<e, a, b, d>>
  BY <1>1, <1>3, Joined
<1> QED BY <1>4, <1>5, <1>7, <1>8, <1>9, <1>10

\* The heads and the body of a file, each call after the other
LEMMA HeadsAre ==
    /\ Flat(StaticHead) = <<"200", "static">> /\ Len(StaticHead) = 1
    /\ Flat(DynamicHead) = <<"200", "Server">> /\ Len(DynamicHead) = 2
    /\ \A x \in Tokens : Flat(StaticBody(x)) = <<x, "end">> /\ Len(StaticBody(x)) = 1
    /\ <<"200", "static">> \in Seq(Tokens) /\ <<"200", "Server">> \in Seq(Tokens)
    /\ \A x \in Tokens : <<x, "end">> \in Seq(Tokens)
<1>1. "200" \in Tokens /\ "static" \in Tokens /\ "Server" \in Tokens /\ "end" \in Tokens
  BY Literals
<1>2. \A s : Len(s) = 1 => Flat(s) = s[1]
  BY DEF Flat
<1>3. Flat(StaticHead) = <<"200", "static">> /\ Len(StaticHead) = 1
  <2>1. Len(StaticHead) = 1 /\ StaticHead[1] = <<"200", "static">>
    BY DEF StaticHead
  <2> QED BY <1>2, <2>1
<1>4. ASSUME NEW x \in Tokens PROVE Flat(StaticBody(x)) = <<x, "end">> /\ Len(StaticBody(x)) = 1
  <2>1. Len(StaticBody(x)) = 1 /\ StaticBody(x)[1] = <<x, "end">>
    BY DEF StaticBody
  <2> QED BY <1>2, <2>1
<1>5. Flat(DynamicHead) = <<"200", "Server">> /\ Len(DynamicHead) = 2
  <2>1. PICK a, b : a = "200" /\ b = "Server"
    OBVIOUS
  <2>2. PICK x : x = <<<<a>>, <<b>>>>
    OBVIOUS
  <2>3. DynamicHead = x
    BY <2>1, <2>2 DEF DynamicHead
  <2>4. Len(x) = 2 /\ x[1] = <<a>> /\ x[2] = <<b>>
    BY <2>2
  <2>5. Flat(x) = x[1] \o x[2]
    <3>1. Len(x) = 2
      BY <2>4
    <3> QED BY ONLY <3>1 DEF Flat
  <2>6. <<a>> \o <<b>> = <<a, b>>
    BY <1>1, <2>1, Joined
  <2> QED BY <2>1, <2>3, <2>4, <2>5, <2>6
<1> QED BY <1>1, <1>3, <1>4, <1>5

LEMMA ReplyTyped ==
    ASSUME NEW u \in Tokens PROVE Reply(u) \in Seq(Tokens)
<1>1. PICK p : p = parse_uri(u)
  OBVIOUS
<1>2. p.filename \in Tokens /\ p.cgiargs \in Tokens
  BY <1>1, ParsedTyped
<1>3. CASE p.filename \notin Files
  <2>1. Reply(u) = ErrorPage("404")
    BY <1>1, <1>3 DEF Reply
  <2> QED BY <2>1, PagesAre
<1>4. CASE p.filename \in Files \ Allowed
  <2>1. Reply(u) = ErrorPage("403")
    BY <1>1, <1>4 DEF Reply
  <2> QED BY <2>1, PagesAre
<1>5. CASE p.filename \in Files \cap Allowed /\ p.static
  <2>1. PICK x : x = IF p.filename \in Empty THEN <<>> ELSE <<p.filename, "end">>
    OBVIOUS
  <2>2. Reply(u) = <<"200", "static">> \o x
    BY <1>1, <1>5, <2>1 DEF Reply
  <2>3. <<>> \in Seq(Tokens)
    OBVIOUS
  <2>4. x \in Seq(Tokens)
    BY <1>2, <2>1, <2>3, HeadsAre
  <2> QED BY <2>2, <2>4, HeadsAre, CatTyped
<1>6. CASE p.filename \in Files \cap Allowed /\ ~p.static
  <2>1. PICK x : x = adder(p.cgiargs)
    OBVIOUS
  <2>2. Reply(u) = <<"200", "Server">> \o x
    BY <1>1, <1>6, <2>1 DEF Reply
  <2>4. x \in Seq(Tokens)
    BY <1>2, <2>1, AnswersTyped
  <2> QED BY <2>2, <2>4, HeadsAre, CatTyped
<1> QED BY <1>3, <1>4, <1>5, <1>6

\* A client of Tiny is owed what Tiny does with the URI, a client of the proxy the same.
LEMMA AnswerIs ==
    ASSUME TypeInv, Asked, SiteReplies, NEW c \in Clients, Known(c)
    PROVE  /\ Answer(c) \in Seq(Tokens)
           /\ to[c] = "tiny" /\ Method(request[c]) # "GET" => Answer(c) = ErrorPage("501")
           /\ Method(request[c]) = "GET" /\ (to[c] = "tiny" \/ Uri(request[c]) \notin ColonUris)
                => Answer(c) = Reply(Uri(request[c]))
<1>1. PICK r : r = request[c]
  OBVIOUS
<1>2. r \in Requests[c] /\ Clear(r) /\ r \in Seq(Tokens)
  BY <1>1 DEF Asked, Known, TypeInv
<1>3. Site[Uri(r)] = Reply(Uri(r)) /\ Site["501"] = ErrorPage("501")
  BY <1>2 DEF SiteReplies
<1>4. Uri(r) \in Tokens
  <2>1. Len(r) >= 2 /\ r[2] = Uri(r)
    BY <1>2, ClearBegins
  <2>2. 2 \in 1 .. Len(r)
    BY <2>1
  <2>3. r[2] \in Tokens
    BY <1>2, <2>2
  <2> QED BY <2>1, <2>3
<1>5. Reply(Uri(r)) \in Seq(Tokens) /\ ErrorPage("501") \in Seq(Tokens)
  BY <1>4, ReplyTyped, PagesAre
<1>6. to[c] \in {"tiny", "proxy"} /\ <<>> \in Seq(Tokens)
  BY DEF TypeInv, Servers
<1>7. CASE to[c] = "proxy"
  <2>1. Answer(c) = IF Method(r) # "GET" \/ Uri(r) \in ColonUris THEN <<>> ELSE Site[Uri(r)]
    BY <1>1, <1>7 DEF Answer
  <2> QED BY <1>1, <1>3, <1>5, <1>6, <1>7, <2>1
<1>8. CASE to[c] = "tiny"
  <2>1. Answer(c) = IF Method(r) # "GET" THEN Site["501"] ELSE Site[Uri(r)]
    BY <1>1, <1>8 DEF Answer
  <2> QED BY <1>1, <1>3, <1>5, <1>8, <2>1
<1> QED BY <1>6, <1>7, <1>8

\* What doit decides after parse_uri is to send this reply.
LEMMA LookupIs ==
    ASSUME TypeInv, TinyLookup
    PROVE  /\ tiny'.pc = "write" /\ tiny'.conn = tiny.conn /\ Len(tiny'.out) <= 4
           /\ Coming(tiny)' = Reply(tiny.uri)
<1>1. PICK p : p = parse_uri(tiny.uri)
  OBVIOUS
<1>2. tiny \in TinyRegs /\ tiny.uri \in Tokens
  BY DEF TypeInv, TinyRegs
<1>3. p.filename \in Tokens /\ p.cgiargs \in Tokens
  BY <1>1, <1>2, ParsedTyped
<1>4. PICK t : t = [tiny EXCEPT !.uri = p.uri, !.filename = p.filename, !.cgiargs = p.cgiargs]
  OBVIOUS
<1>5. tiny' = CASE p.filename \notin Files -> Answering(t, clienterror("404"), "close")
                [] p.filename \in Files \ Allowed -> Answering(t, clienterror("403"), "close")
                [] p.static /\ p.filename \in Files \cap Allowed ->
                       Answering(t, StaticHead, "open")
                [] OTHER -> Answering(t, DynamicHead, "fork")
  BY <1>1, <1>4 DEF TinyLookup
<1>6. ASSUME NEW out, NEW next, tiny' = Answering(t, out, next)
      PROVE  /\ tiny'.pc = "write" /\ tiny'.conn = tiny.conn
             /\ tiny'.out = out /\ tiny'.next = next
             /\ tiny'.filename = p.filename /\ tiny'.cgiargs = p.cgiargs
             /\ Coming(tiny)' = Flat(out) \o Then(tiny', next)
  <2>1. /\ tiny'.pc = "write" /\ tiny'.conn = tiny.conn
        /\ tiny'.out = out /\ tiny'.next = next
        /\ tiny'.filename = p.filename /\ tiny'.cgiargs = p.cgiargs
    BY <1>2, <1>4, <1>6 DEF Answering, TinyRegs
  <2>2. Coming(tiny)' = Flat(tiny'.out) \o Then(tiny', tiny'.next)
    BY <2>1 DEF Coming
  <2> QED BY <2>1, <2>2
<1>7. CASE p.filename \notin Files
  <2>1. tiny' = Answering(t, clienterror("404"), "close")
    BY <1>5, <1>7
  <2>2. Reply(tiny.uri) = ErrorPage("404")
    BY <1>1, <1>7 DEF Reply
  <2>3. Then(tiny', "close") = <<>>
    BY DEF Then
  <2>4. ErrorPage("404") \in Seq(Tokens) /\ Flat(clienterror("404")) = ErrorPage("404")
        /\ Len(clienterror("404")) = 4
    BY PagesAre
  <2>5. ErrorPage("404") \o <<>> = ErrorPage("404")
    BY <2>4, CatEmpty
  <2>6. /\ tiny'.pc = "write" /\ tiny'.conn = tiny.conn /\ tiny'.out = clienterror("404")
        /\ Coming(tiny)' = Flat(clienterror("404")) \o Then(tiny', "close")
    BY <1>6, <2>1
  <2>7. Len(tiny'.out) <= 4
    <3>1. PICK n : n = Len(tiny'.out)
      OBVIOUS
    <3>2. n = 4
      BY <2>4, <2>6, <3>1
    <3>3. n <= 4
      BY ONLY <3>2
    <3> QED BY <3>1, <3>3
  <2>8. Coming(tiny)' = Reply(tiny.uri)
    BY <2>2, <2>3, <2>4, <2>5, <2>6
  <2> QED BY <2>6, <2>7, <2>8
<1>8. CASE p.filename \in Files \ Allowed
  <2>1. tiny' = Answering(t, clienterror("403"), "close")
    BY <1>5, <1>8
  <2>2. Reply(tiny.uri) = ErrorPage("403")
    BY <1>1, <1>8 DEF Reply
  <2>3. Then(tiny', "close") = <<>>
    BY DEF Then
  <2>4. ErrorPage("403") \in Seq(Tokens) /\ Flat(clienterror("403")) = ErrorPage("403")
        /\ Len(clienterror("403")) = 4
    BY PagesAre
  <2>5. ErrorPage("403") \o <<>> = ErrorPage("403")
    BY <2>4, CatEmpty
  <2>6. /\ tiny'.pc = "write" /\ tiny'.conn = tiny.conn /\ tiny'.out = clienterror("403")
        /\ Coming(tiny)' = Flat(clienterror("403")) \o Then(tiny', "close")
    BY <1>6, <2>1
  <2>7. Len(tiny'.out) <= 4
    <3>1. PICK n : n = Len(tiny'.out)
      OBVIOUS
    <3>2. n = 4
      BY <2>4, <2>6, <3>1
    <3>3. n <= 4
      BY ONLY <3>2
    <3> QED BY <3>1, <3>3
  <2>8. Coming(tiny)' = Reply(tiny.uri)
    BY <2>2, <2>3, <2>4, <2>5, <2>6
  <2> QED BY <2>6, <2>7, <2>8
<1>9. CASE p.filename \in Files \cap Allowed /\ p.static
  <2>1. tiny' = Answering(t, StaticHead, "open")
    BY <1>5, <1>9
  <2>2. PICK x : x = IF p.filename \in Empty THEN <<>> ELSE <<p.filename, "end">>
    OBVIOUS
  <2>3. Reply(tiny.uri) = <<"200", "static">> \o x
    BY <1>1, <1>9, <2>2 DEF Reply
  <2>4. tiny'.filename = p.filename
    BY <1>6, <2>1
  <2>5. Then(tiny', "open") = x
    BY <1>9, <2>2, <2>4 DEF Then
  <2>6. /\ tiny'.pc = "write" /\ tiny'.conn = tiny.conn /\ tiny'.out = StaticHead
        /\ Coming(tiny)' = Flat(StaticHead) \o Then(tiny', "open")
    BY <1>6, <2>1
  <2> QED BY <2>3, <2>5, <2>6, HeadsAre
<1>10. CASE p.filename \in Files \cap Allowed /\ ~p.static
  <2>1. tiny' = Answering(t, DynamicHead, "fork")
    BY <1>5, <1>10
  <2>2. Reply(tiny.uri) = <<"200", "Server">> \o adder(p.cgiargs)
    BY <1>1, <1>10 DEF Reply
  <2>3. tiny'.cgiargs = p.cgiargs
    BY <1>6, <2>1
  <2>4. Then(tiny', "fork") = adder(p.cgiargs)
    BY <2>3 DEF Then
  <2>6. /\ tiny'.pc = "write" /\ tiny'.conn = tiny.conn /\ tiny'.out = DynamicHead
        /\ Coming(tiny)' = Flat(DynamicHead) \o Then(tiny', "fork")
    BY <1>6, <2>1
  <2> QED BY <2>2, <2>4, <2>6, HeadsAre
<1> QED BY <1>7, <1>8, <1>9, <1>10

-----------------------------------------------------------------------------
(* Steps keep what is owed. *)

LEMMA AnswerSame ==
    ASSUME NEW c \in Clients, request'[c] = request[c], to'[c] = to[c]
    PROVE  Answer(c)' = Answer(c) /\ (Known(c)' <=> Known(c))
BY DEF Answer, Known

LEMMA SentSame ==
    ASSUME NEW c \in Clients, to'[c] = to[c], handler'[c] = handler[c],
           net'[Down(c)].down = net[Down(c)].down,
           to[c] # "tiny" => net'[Up(c)].down = net[Up(c)].down
    PROVE  Sent(c)' = Sent(c)
BY DEF Sent, Due

\* What a step does not touch
LEMMA OthersKept ==
    ASSUME NEW c \in Clients, AnswerKept(c),
           request'[c] = request[c], to'[c] = to[c], handler'[c] = handler[c],
           net'[Down(c)].up = net[Down(c)].up, net'[Down(c)].down = net[Down(c)].down,
           net'[Down(c)].server = "queued" => net[Down(c)].server = "queued",
           handler[c].pc \in Fetching =>
              /\ net'[Up(c)].up = net[Up(c)].up /\ net'[Up(c)].down = net[Up(c)].down
              /\ net'[Up(c)].server = "queued" => net[Up(c)].server = "queued",
           \A k \in Connections :
              tiny'.pc # "dead" /\ tiny'.conn = k /\ Serves(c, k) => tiny' = tiny
    PROVE  AnswerKept(c)'
<1>1. Answer(c)' = Answer(c)
  BY AnswerSame
<1>2. HandlerAnswers(c)'
  BY DEF AnswerKept, HandlerAnswers
<1>3. Left(c)' = Left(c)
  BY DEF Left
<1>4. handler[c].pc \in Fetching \/ to[c] = "tiny" => Sent(c)' = Sent(c)
  BY DEF Sent, Due
<1>5. handler'[c].pc \in Fetching =>
          /\ Prefix(Sent(c)', Answer(c)')
          /\ net'[Up(c)].server = "queued" =>
                Sent(c)' = <<>> /\ Asks(net'[Up(c)].up \o Left(c)', request'[c])
  BY <1>1, <1>3, <1>4 DEF AnswerKept
<1>6. ASSUME NEW k \in Connections, tiny'.pc # "dead", tiny'.conn = k, Serves(c, k)'
      PROVE  TinyAnswers(c, k)'
  <2>1. Serves(c, k)
    BY <1>6 DEF Serves
  <2>2. tiny' = tiny
    BY <1>6, <2>1
  <2>3. net'[k].up = net[k].up /\ Sent(c)' = Sent(c)
    BY <1>4, <2>1 DEF Serves
  <2>4. TinyAnswers(c, k)
    BY <1>6, <2>1, <2>2 DEF AnswerKept
  <2>5. Coming(tiny)' = Coming(tiny)
    BY <2>2
  <2> QED BY <1>1, <1>3, <2>2, <2>3, <2>4, <2>5 DEF TinyAnswers
<1>7. /\ Prefix(net'[Down(c)].down, Answer(c)')
      /\ net'[Down(c)].server = "queued" =>
            net'[Down(c)].down = <<>> /\ Asks(net'[Down(c)].up, request'[c])
  BY <1>1 DEF AnswerKept
<1> QED BY <1>2, <1>5, <1>6, <1>7 DEF AnswerKept

LEMMA ComingTyped ==
    ASSUME TypeInv, tiny.pc = "write" => Len(tiny.out) <= 4
    PROVE  Coming(tiny) \in Seq(Tokens)
<1>1. /\ tiny.filename \in Tokens /\ tiny.cgiargs \in Tokens /\ tiny.out \in Seq(Written)
      /\ tiny.cgi \in Seq(Tokens)
  BY DEF TypeInv, TinyRegs
<1>2. \A next : Then(tiny, next) \in Seq(Tokens)
  BY <1>1, ThenTyped
<1>3. CASE tiny.pc = "write"
  <2>1. tiny.out # <<>>
    BY <1>3 DEF TypeInv
  <2>2. Flat(tiny.out) \in Seq(Tokens)
    BY <1>1, <1>3, <2>1, FlatHead
  <2>3. Coming(tiny) = Flat(tiny.out) \o Then(tiny, tiny.next)
    BY <1>3 DEF Coming
  <2> QED BY <1>2, <2>2, <2>3, CatTyped
<1>4. CASE tiny.pc = "wait"
  <2>1. Coming(tiny) = tiny.cgi
    BY <1>4 DEF Coming
  <2> QED BY <1>1, <2>1
<1>5. CASE tiny.pc # "write" /\ tiny.pc # "wait"
  <2>1. Coming(tiny) = Then(tiny, tiny.pc)
    BY <1>5 DEF Coming
  <2> QED BY <1>2, <2>1
<1> QED BY <1>3, <1>4, <1>5

\* The same of the state after a step
LEMMA AllTyped ==
    TypeInv => /\ \A c \in Clients : Sent(c) \in Seq(Tokens)
               /\ (tiny.pc = "write" => Len(tiny.out) <= 4) => Coming(tiny) \in Seq(Tokens)
BY StreamsTyped, ComingTyped

LEMMA NextTyped ==
    TypeInv' => (/\ \A c \in Clients : Sent(c) \in Seq(Tokens)
                 /\ (tiny.pc = "write" => Len(tiny.out) <= 4) => Coming(tiny) \in Seq(Tokens))'
BY AllTyped, PTL

LEMMA PartsTyped ==
    TypeInv' => (\A c \in Clients :
                    /\ net[Down(c)].down \in Seq(Tokens)
                    /\ Due(c) \o Rest(handler[c].server, net[Up(c)].down) \in Seq(Tokens))'
<1>1. TypeInv => \A c \in Clients :
                    /\ net[Down(c)].down \in Seq(Tokens)
                    /\ Due(c) \o Rest(handler[c].server, net[Up(c)].down) \in Seq(Tokens)
  BY StreamsTyped, HandlerKnown, CatTyped
<1> QED BY <1>1, PTL

LEMMA RestMore ==
    ASSUME NEW rp \in Buffers, NEW in \in Seq(Tokens), NEW w \in Seq(Tokens)
    PROVE  in \o w \in Seq(Tokens) /\ Rest(rp, in \o w) = Rest(rp, in) \o w
<1>1. PICK l, u : l = rp.line /\ u = rp.unread
  OBVIOUS
<1>2. l \in Seq(Tokens) /\ u \in Seq(Tokens)
  BY <1>1, RestTyped
<1>3. PICK x : x = u \o in
  OBVIOUS
<1>4. x \in Seq(Tokens)
  BY <1>2, <1>3, CatTyped
<1>5. u \o (in \o w) = x \o w
  BY <1>2, <1>3, CatAssoc
<1>6. l \o (x \o w) = (l \o x) \o w
  BY <1>2, <1>4, CatAssoc
<1>7. Rest(rp, in \o w) = l \o (u \o (in \o w)) /\ Rest(rp, in) = l \o x
  BY <1>1, <1>3 DEF Rest
<1>8. in \o w \in Seq(Tokens)
  BY CatTyped
<1> QED BY <1>5, <1>6, <1>7, <1>8

\* What Tiny writes for c is sent to c.
LEMMA SentMore ==
    ASSUME TypeInv, Struct, NEW c \in Clients, NEW k \in Connections, Serves(c, k),
           NEW w \in Seq(Tokens), net' = [net EXCEPT ![k].down = @ \o w],
           UNCHANGED <<to, handler>>
    PROVE  Sent(c)' = Sent(c) \o w
<1>0. Down(c) \in Connections /\ Up(c) \in Connections /\ Down(c) # Up(c)
  BY Ends
<1>1. net'[k].down = net[k].down \o w /\ \A j \in Connections : j # k => net'[j] = net[j]
  BY DEF TypeInv, Conn
<1>2. CASE k = Down(c) /\ to[c] = "tiny"
  BY <1>1, <1>2 DEF Sent
<1>3. CASE k = Up(c) /\ handler[c].pc \in Fetching
  <2>1. to[c] # "tiny"
    BY <1>3 DEF Struct, HandlerShape, HandlerOK, Fetching
  <2>2. PICK a, b, rp, in : a = net[Down(c)].down /\ b = Due(c) /\ rp = handler[c].server
                            /\ in = net[Up(c)].down
    OBVIOUS
  <2>3. a \in Seq(Tokens) /\ b \in Seq(Tokens) /\ rp \in Buffers /\ in \in Seq(Tokens)
    BY <2>2, HandlerKnown, StreamsTyped
  <2>4. PICK x : x = Rest(rp, in)
    OBVIOUS
  <2>5. x \in Seq(Tokens) /\ Rest(rp, in \o w) = x \o w
    BY <2>3, <2>4, RestTyped, RestMore
  <2>6. Due(c)' = b
    BY <2>2 DEF Due
  <2>7. net'[Down(c)].down = a /\ net'[Up(c)].down = in \o w
    BY <1>0, <1>1, <1>3, <2>2
  <2>8. Sent(c) = a \o (b \o x) /\ Sent(c)' = a \o (b \o (x \o w))
    BY <2>1, <2>2, <2>4, <2>5, <2>6, <2>7 DEF Sent
  <2>9. b \o x \in Seq(Tokens)
    BY <2>3, <2>5, CatTyped
  <2>10. (b \o x) \o w = b \o (x \o w)
    <3>1. b \in Seq(Tokens) /\ x \in Seq(Tokens) /\ w \in Seq(Tokens)
      BY <2>3, <2>5
    <3> QED BY ONLY <3>1, CatAssoc, SMTT(60)
  <2>11. PICK y : y = b \o x
    OBVIOUS
  <2>12. (a \o y) \o w = a \o (y \o w)
    <3>1. a \in Seq(Tokens) /\ y \in Seq(Tokens) /\ w \in Seq(Tokens)
      BY <2>3, <2>9, <2>11
    <3> QED BY ONLY <3>1, CatAssoc, SMTT(60)
  <2> QED BY <2>8, <2>10, <2>11, <2>12
<1> QED BY <1>2, <1>3 DEF Serves

-----------------------------------------------------------------------------
(* The steps of Tiny. *)

\* A step that concerns the connection k, which Tiny serves after it
LEMMA TinyKeeps ==
    ASSUME TypeInv', Struct, AnswersKept, NEW k \in Connections, tiny'.conn = k,
           UNCHANGED <<request, to, handler>>,
           \A j \in Connections : j # k => net'[j] = net[j],
           net'[k].server # "queued",
           \A c \in Clients : k = Down(c) => to[c] = "tiny",
           \A c \in Clients : Known(c) /\ Serves(c, k) => TinyAnswers(c, k)'
    PROVE  AnswersKept'
<1> SUFFICES ASSUME NEW c \in Clients, Known(c)' PROVE AnswerKept(c)'
  BY DEF AnswersKept
<1>1. /\ request'[c] = request[c] /\ to'[c] = to[c] /\ handler'[c] = handler[c]
      /\ Down(c) \in Connections /\ Up(c) \in Connections /\ Down(c) # Up(c)
  BY Ends
<1>2. Known(c) /\ AnswerKept(c) /\ HandlerOK(c)
  <2>1. Known(c)
    BY <1>1, AnswerSame
  <2> QED BY <2>1 DEF AnswersKept, Struct, HandlerShape
<1>3. CASE ~Serves(c, k)
  <2>1. net'[Down(c)] = net[Down(c)]
    BY <1>1, <1>3 DEF Serves
  <2>2. handler[c].pc \in Fetching => net'[Up(c)] = net[Up(c)]
    BY <1>1, <1>3 DEF Serves
  <2>3. \A j \in Connections :
           tiny'.pc # "dead" /\ tiny'.conn = j /\ Serves(c, j) => tiny' = tiny
    BY <1>3
  <2> QED BY <1>1, <1>2, <2>1, <2>2, <2>3, OthersKept
<1>4. CASE Serves(c, k)
  <2>1. TinyAnswers(c, k)'
    BY <1>2, <1>4
  <2>2. Prefix(Sent(c)', Answer(c)')
    <3>1. PICK s, d, a : s = Sent(c)' /\ d = Coming(tiny)' /\ a = Answer(c)'
      OBVIOUS
    <3>2. s \in Seq(Tokens)
      <4>1. Sent(c)' \in Seq(Tokens)
        BY NextTyped
      <4> QED BY <3>1, <4>1
    <3>3. d \in Seq(Tokens)
      <4>1. tiny'.pc = "write" => Len(tiny'.out) <= 4
        BY <2>1 DEF TinyAnswers
      <4>2. Coming(tiny)' \in Seq(Tokens)
        BY <4>1, NextTyped
      <4> QED BY <3>1, <4>2
    <3>4. Prefix(s \o d, a)
      BY <2>1, <3>1 DEF TinyAnswers
    <3>5. Prefix(s, a)
      BY <3>2, <3>3, <3>4, PrefixLess
    <3> QED BY <3>1, <3>5
  <2>3. ASSUME NEW j \in Connections, tiny'.pc # "dead", tiny'.conn = j, Serves(c, j)'
        PROVE  TinyAnswers(c, j)'
    BY <2>1, <2>3
  <2>4. CASE k = Down(c) /\ to[c] = "tiny"
    <3>1. handler'[c].pc \in {"idle", "dead"}
      BY <1>1, <1>2, <2>4 DEF HandlerOK
    <3>2. HandlerAnswers(c)' /\ handler'[c].pc \notin Fetching
      BY <3>1 DEF HandlerAnswers, Fetching
    <3>3. Sent(c)' = net'[Down(c)].down
      BY <1>1, <2>4 DEF Sent
    <3> QED BY <2>2, <2>3, <2>4, <3>2, <3>3 DEF AnswerKept
  <2>5. CASE k = Up(c) /\ handler[c].pc \in Fetching
    <3>1. net'[Down(c)] = net[Down(c)]
      BY <1>1, <2>5
    <3>2. HandlerAnswers(c)'
      BY <1>1, <1>2, <3>1 DEF AnswerKept, HandlerAnswers
    <3>3. Answer(c)' = Answer(c)
      BY <1>1, AnswerSame
    <3>4. /\ Prefix(net'[Down(c)].down, Answer(c)')
          /\ net'[Down(c)].server = "queued" =>
                net'[Down(c)].down = <<>> /\ Asks(net'[Down(c)].up, request'[c])
      BY <1>1, <1>2, <3>1, <3>3 DEF AnswerKept
    <3>5. handler'[c].pc \in Fetching =>
             /\ Prefix(Sent(c)', Answer(c)')
             /\ net'[Up(c)].server = "queued" =>
                   Sent(c)' = <<>> /\ Asks(net'[Up(c)].up \o Left(c)', request'[c])
      BY <2>2, <2>5
    <3> QED BY <2>3, <3>2, <3>4, <3>5 DEF AnswerKept
  <2> QED BY <1>4, <2>4, <2>5 DEF Serves
<1> QED BY <1>3, <1>4

\* What Tiny knows of the connection it serves
LEMMA TinyServing ==
    ASSUME TypeInv, Struct, AnswersKept, alive["tiny"], tiny.pc # "accept",
           NEW k, k = tiny.conn
    PROVE  /\ k \in Connections /\ net[k].server = "open" /\ net[k] \in Conn
           /\ \A c \in Clients : k = Down(c) => to[c] = "tiny"
           /\ \A c \in Clients : Known(c) /\ Serves(c, k) => TinyAnswers(c, k) /\ AnswerKept(c)
<1>1. k \in Connections /\ net[k].server = "open" /\ net[k] \in Conn
  BY TinyHolds
<1>2. \A c \in Clients : k = Down(c) => to[c] = "tiny"
  BY DEF Struct, TinyShape
<1>3. tiny.pc # "dead"
  BY DEF Struct, TinyShape
<1> QED BY <1>1, <1>2, <1>3 DEF AnswersKept, AnswerKept

LEMMA ComingNone ==
    ASSUME NEW t, t.pc \notin {"write", "wait", "open", "fork"}
    PROVE  Coming(t) = <<>>
BY DEF Coming, Then

\* Tiny goes on with what it has read, and has still nothing to send.
LEMMA TinyListens ==
    ASSUME TypeInv, Struct, AnswersKept, TypeInv', NEW k, k = tiny.conn, tiny'.conn = k, alive["tiny"],
           tiny.pc \in {"request", "headers"},
           UNCHANGED <<request, to, handler>>,
           \A j \in Connections : net'[j].down = net[j].down /\ net'[j].server = net[j].server,
           \A j \in Connections : j # k => net'[j] = net[j],
           tiny'.pc \in {"request", "headers", "uri", "spin", "close"},
           \A c \in Clients : Known(c) /\ Serves(c, k) /\ TinyAnswers(c, k) =>
              /\ tiny'.pc = "request" => Asks(Rest(tiny'.rio, net'[k].up) \o Left(c), request[c])
              /\ tiny'.pc \in {"headers", "uri"} =>
                    tiny'.uri = Uri(request[c]) /\ Method(request[c]) = "GET"
    PROVE  AnswersKept'
<1>1. /\ k \in Connections /\ net[k].server = "open" /\ net[k] \in Conn
      /\ \A c \in Clients : k = Down(c) => to[c] = "tiny"
      /\ \A c \in Clients : Known(c) /\ Serves(c, k) => TinyAnswers(c, k) /\ AnswerKept(c)
  BY TinyServing
<1>2. ASSUME NEW c \in Clients, Known(c), Serves(c, k) PROVE TinyAnswers(c, k)'
  <2>1. TinyAnswers(c, k)
    BY <1>1, <1>2
  <2>2. Coming(tiny) = <<>> /\ Coming(tiny)' = <<>>
    <3>1. Coming(tiny) = <<>>
      BY ComingNone
    <3>2. Coming(tiny') = <<>>
      BY ComingNone
    <3> QED BY <3>1, <3>2
  <2>3. Sent(c)' = Sent(c) /\ Answer(c)' = Answer(c) /\ Left(c)' = Left(c)
    <3>1. Sent(c)' = Sent(c)
      BY Ends, SentSame
    <3> QED BY <3>1, AnswerSame DEF Left
  <2>4. Sent(c) = <<>> /\ Prefix(Sent(c) \o Coming(tiny), Answer(c))
    BY <2>1 DEF TinyAnswers
  <2>5. Prefix(Sent(c)' \o Coming(tiny)', Answer(c)')
    BY <2>2, <2>3, <2>4
  <2>6. /\ tiny'.pc = "request" => Asks(Rest(tiny'.rio, net'[k].up) \o Left(c)', request'[c])
        /\ tiny'.pc \in {"headers", "uri"} =>
              tiny'.uri = Uri(request'[c]) /\ Method(request'[c]) = "GET"
    BY <1>2, <2>1, <2>3
  <2> QED BY <2>3, <2>4, <2>5, <2>6 DEF TinyAnswers
<1>3. net'[k].server # "queued"
  BY <1>1
<1> QED BY <1>1, <1>2, <1>3, TinyKeeps

LEMMA TinyReadAnswers ==
    ASSUME TypeInv, Struct, AnswersKept, TypeInv', TinyRead, UNCHANGED <<version, handler, stack>>
    PROVE  AnswersKept'
<1>1. PICK k : k = tiny.conn
  OBVIOUS
<1>2. alive["tiny"] /\ tiny.pc \in {"request", "headers"} /\ UNCHANGED <<request, to, alive>>
  BY DEF TinyRead, At
<1>3. /\ k \in Connections /\ net[k].server = "open" /\ net[k] \in Conn
  BY <1>1, <1>2, TinyServing
<1>4. PICK r \in rio_readlineb(tiny.rio, net[k].up) :
         /\ tiny' = [tiny EXCEPT !.rio = r.rio]
         /\ net' = [net EXCEPT ![k].up = r.in]
  BY <1>1 DEF TinyRead, Stream
<1>5. tiny.rio \in Buffers /\ net[k].up \in Seq(Tokens)
  BY <1>3 DEF TypeInv, TinyRegs, Conn
<1>6. Rest(r.rio, r.in) = Rest(tiny.rio, net[k].up)
  BY <1>5, ReadLineKeeps
<1>7. /\ \A j \in Connections : j # k => net'[j] = net[j]
      /\ \A j \in Connections : net'[j].down = net[j].down /\ net'[j].server = net[j].server
      /\ net'[k].up = r.in
      /\ tiny'.conn = k /\ tiny'.pc = tiny.pc /\ tiny'.rio = r.rio /\ tiny'.uri = tiny.uri
  BY <1>1, <1>3, <1>4 DEF TypeInv, Conn, TinyRegs
<1>8. \A c \in Clients : Known(c) /\ Serves(c, k) /\ TinyAnswers(c, k) =>
              /\ tiny'.pc = "request" => Asks(Rest(tiny'.rio, net'[k].up) \o Left(c), request[c])
              /\ tiny'.pc \in {"headers", "uri"} =>
                    tiny'.uri = Uri(request[c]) /\ Method(request[c]) = "GET"
  BY <1>6, <1>7 DEF TinyAnswers
<1> QED BY <1>1, <1>2, <1>7, <1>8, TinyListens

LEMMA TinyHeadersAnswers ==
    ASSUME TypeInv, Struct, AnswersKept, TypeInv', read_requesthdrs, UNCHANGED <<version, handler, stack>>
    PROVE  AnswersKept'
<1>1. PICK k : k = tiny.conn
  OBVIOUS
<1>2. alive["tiny"] /\ tiny.pc = "headers" /\ UNCHANGED <<request, to, alive, net>>
  BY DEF read_requesthdrs, At, networkVars
<1>3. /\ tiny'.conn = k /\ tiny'.pc \in {"headers", "uri", "spin"} /\ tiny'.uri = tiny.uri
  BY <1>1, <1>2 DEF read_requesthdrs, TypeInv, TinyRegs
<1>4. \A c \in Clients : Known(c) /\ Serves(c, k) /\ TinyAnswers(c, k) =>
              /\ tiny'.pc = "request" => Asks(Rest(tiny'.rio, net'[k].up) \o Left(c), request[c])
              /\ tiny'.pc \in {"headers", "uri"} =>
                    tiny'.uri = Uri(request[c]) /\ Method(request[c]) = "GET"
  BY <1>2, <1>3 DEF TinyAnswers
<1>5. /\ \A j \in Connections : net'[j].down = net[j].down /\ net'[j].server = net[j].server
      /\ \A j \in Connections : j # k => net'[j] = net[j]
  BY <1>2
<1> QED BY <1>1, <1>2, <1>3, <1>4, <1>5, TinyListens

\* Tiny sends w, which is the next of what it is about to send.
LEMMA TinySends ==
    ASSUME TypeInv, Struct, AnswersKept, TypeInv', NEW k, k = tiny.conn, tiny'.conn = k, alive["tiny"],
           tiny.pc # "accept", tiny'.pc \notin {"request", "headers", "uri"},
           UNCHANGED <<request, to, handler>>, NEW w \in Seq(Tokens),
           \/ net' = [net EXCEPT ![k].down = @ \o w]
           \/ net' = net /\ w = <<>>,
           \A c \in Clients : Known(c) /\ Serves(c, k) /\ TinyAnswers(c, k) =>
              /\ tiny'.pc = "write" => Len(tiny'.out) <= 4
              /\ Coming(tiny) = w \o Coming(tiny)'
    PROVE  AnswersKept'
<1>1. /\ k \in Connections /\ net[k].server = "open" /\ net[k] \in Conn
      /\ \A c \in Clients : k = Down(c) => to[c] = "tiny"
      /\ \A c \in Clients : Known(c) /\ Serves(c, k) => TinyAnswers(c, k) /\ AnswerKept(c)
  BY TinyServing
<1>2. ASSUME NEW c \in Clients, Known(c), Serves(c, k) PROVE TinyAnswers(c, k)'
  <2>1. TinyAnswers(c, k)
    BY <1>1, <1>2
  <2>2. /\ tiny'.pc = "write" => Len(tiny'.out) <= 4
        /\ Coming(tiny) = w \o Coming(tiny)'
    BY <1>2, <2>1
  <2>3. Sent(c)' = Sent(c) \o w
    <3>1. Sent(c) \in Seq(Tokens)
      BY StreamsTyped
    <3>2. CASE net' = net /\ w = <<>>
      <4>1. Sent(c)' = Sent(c)
        BY <3>2, SentSame
      <4> QED BY <3>1, <3>2, <4>1, CatEmpty
    <3>3. CASE net' = [net EXCEPT ![k].down = @ \o w]
      BY <1>1, <1>2, <3>3, SentMore
    <3> QED BY <3>2, <3>3
  <2>4. PICK s, y, d : s = Sent(c) /\ y = Coming(tiny) /\ d = Coming(tiny)'
    OBVIOUS
  <2>5. s \in Seq(Tokens) /\ w \in Seq(Tokens) /\ d \in Seq(Tokens)
    BY <2>2, <2>4, StreamsTyped, NextTyped
  <2>6. (s \o w) \o d = s \o (w \o d)
    BY ONLY <2>5, CatAssoc, SMTT(60)
  <2>7. Prefix(s \o y, Answer(c)) /\ y = w \o d
    BY <2>1, <2>2, <2>4 DEF TinyAnswers
  <2>8. Answer(c)' = Answer(c)
    BY AnswerSame
  <2>9. Prefix(Sent(c)' \o Coming(tiny)', Answer(c)')
    BY <2>3, <2>4, <2>6, <2>7, <2>8
  <2> QED BY <2>2, <2>9 DEF TinyAnswers
<1>3. net'[k].server # "queued" /\ \A j \in Connections : j # k => net'[j] = net[j]
  <2>1. CASE net' = net /\ w = <<>>
    BY <1>1, <2>1
  <2>2. CASE net' = [net EXCEPT ![k].down = @ \o w]
    BY <1>1, <2>2 DEF TypeInv, Conn
  <2> QED BY <2>1, <2>2
<1> QED BY <1>1, <1>2, <1>3, TinyKeeps

LEMMA TinyMapAnswers ==
    ASSUME TypeInv, Struct, AnswersKept, TypeInv', TinyMap, tiny.filename \in Files \ Empty,
           UNCHANGED <<version, handler, stack>>
    PROVE  AnswersKept'
<1>1. PICK k : k = tiny.conn
  OBVIOUS
<1>2. /\ alive["tiny"] /\ tiny.pc = "open" /\ UNCHANGED <<request, to, net>>
      /\ tiny' = Answering(tiny, StaticBody(tiny.filename), "close")
  BY DEF TinyMap, At, networkVars
<1>3. /\ tiny'.conn = k /\ tiny'.pc = "write" /\ tiny'.out = StaticBody(tiny.filename)
      /\ tiny'.next = "close" /\ tiny.filename \in Tokens
  BY <1>1, <1>2 DEF Answering, TypeInv, TinyRegs
<1>4. PICK x : x = <<tiny.filename, "end">>
  OBVIOUS
<1>5. /\ x \in Seq(Tokens) /\ Flat(StaticBody(tiny.filename)) = x
      /\ Len(StaticBody(tiny.filename)) = 1
  BY <1>3, <1>4, HeadsAre
<1>6. Coming(tiny) = x
  BY <1>2, <1>4 DEF Coming, Then
<1>7. Coming(tiny') = x
  <2>1. Coming(tiny') = Flat(tiny'.out) \o Then(tiny', tiny'.next)
    BY <1>3 DEF Coming
  <2>2. Then(tiny', tiny'.next) = <<>>
    BY <1>3 DEF Then
  <2>3. x \o <<>> = x
    BY <1>5, CatEmpty
  <2> QED BY <1>3, <1>5, <2>1, <2>2, <2>3
<1>8. Len(tiny'.out) <= 4
  <2>1. PICK n : n = Len(tiny'.out)
    OBVIOUS
  <2>2. n = 1
    BY <1>3, <1>5, <2>1
  <2>3. n <= 4
    BY ONLY <2>2
  <2> QED BY <2>1, <2>3
<1>9. PICK w : w = <<>>
  OBVIOUS
<1>10. w \in Seq(Tokens) /\ w \o x = x
  <2>1. w \in Seq(Tokens)
    BY <1>9
  <2> QED BY <1>5, <1>9, <2>1, CatEmpty
<1>11. Coming(tiny) = w \o Coming(tiny)'
  BY <1>6, <1>7, <1>10
<1>12. net' = net /\ w = <<>>
  BY <1>2, <1>9
<1> QED BY <1>1, <1>2, <1>3, <1>8, <1>10, <1>11, <1>12, TinySends

LEMMA TinyForkAnswers ==
    ASSUME TypeInv, Struct, AnswersKept, TypeInv', TinyFork \/ TinyWait,
           UNCHANGED <<version, handler, stack>>
    PROVE  AnswersKept'
<1>1. PICK k : k = tiny.conn
  OBVIOUS
<1>2. /\ alive["tiny"] /\ tiny.pc \in {"fork", "wait"} /\ UNCHANGED <<request, to, net>>
  BY DEF TinyFork, TinyWait, At, networkVars
<1>3. tiny'.conn = k /\ tiny'.pc \in {"wait", "close"}
  BY <1>1 DEF TinyFork, TinyWait, TypeInv, TinyRegs
<1>4. Coming(tiny) \in Seq(Tokens)
  BY <1>2, ComingTyped
<1>5. Coming(tiny') = Coming(tiny)
  <2>1. CASE TinyFork
    <3>1. tiny.pc = "fork" /\ tiny'.pc = "wait" /\ tiny'.cgi = adder(tiny.cgiargs)
      BY <2>1 DEF TinyFork, At, TypeInv, TinyRegs
    <3>2. Coming(tiny) = adder(tiny.cgiargs)
      BY <3>1 DEF Coming, Then
    <3>3. Coming(tiny') = tiny'.cgi
      BY <3>1 DEF Coming
    <3> QED BY <3>1, <3>2, <3>3
  <2>2. CASE TinyWait
    <3>1. tiny.pc = "wait" /\ tiny.cgi = <<>> /\ tiny'.pc = "close"
      BY <2>2 DEF TinyWait, At, TypeInv, TinyRegs
    <3>2. Coming(tiny) = <<>>
      BY <3>1 DEF Coming
    <3>3. Coming(tiny') = <<>>
      BY <3>1, ComingNone
    <3> QED BY <3>2, <3>3
  <2> QED BY <2>1, <2>2
<1>6. PICK w : w = <<>>
  OBVIOUS
<1>7. w \in Seq(Tokens) /\ w \o Coming(tiny) = Coming(tiny)
  <2>1. w \in Seq(Tokens)
    BY <1>6
  <2> QED BY <1>4, <1>6, <2>1, CatEmpty
<1>8. Coming(tiny) = w \o Coming(tiny)'
  BY <1>5, <1>7
<1>9. net' = net /\ w = <<>>
  BY <1>2, <1>6
<1> QED BY <1>1, <1>2, <1>3, <1>7, <1>8, <1>9, TinySends

LEMMA TinyWriteAnswers ==
    ASSUME TypeInv, Struct, AnswersKept, TypeInv', TinyWrite, UNCHANGED <<version, handler, stack>>
    PROVE  AnswersKept'
<1>1. PICK k : k = tiny.conn
  OBVIOUS
<1>2. alive["tiny"] /\ tiny.pc = "write" /\ UNCHANGED <<request, to>>
  BY DEF TinyWrite, At
<1>3. PICK q, rest, next : q = Head(tiny.out) /\ rest = Tail(tiny.out) /\ next = tiny.next
  OBVIOUS
<1>4. PICK w \in rio_writen(q) :
          /\ net' = [net EXCEPT ![k].down = @ \o w[1]]
          /\ tiny' = [tiny EXCEPT !.out = IF w[2] = <<>> THEN rest ELSE <<w[2]>> \o rest,
                                  !.pc = IF (IF w[2] = <<>> THEN rest ELSE <<w[2]>> \o rest) = <<>>
                                         THEN tiny.next ELSE "write"]
  BY <1>1, <1>3 DEF TinyWrite
<1>5. PICK out : out = IF w[2] = <<>> THEN rest ELSE <<w[2]>> \o rest
  OBVIOUS
<1>6. /\ tiny'.conn = k /\ tiny'.out = out /\ tiny'.next = next
      /\ tiny'.pc = IF out = <<>> THEN next ELSE "write"
      /\ tiny'.filename = tiny.filename /\ tiny'.cgiargs = tiny.cgiargs
  BY <1>1, <1>3, <1>4, <1>5 DEF TypeInv, TinyRegs
<1>7. /\ tiny.out \in Seq(Written) /\ tiny.out # <<>>
      /\ next \in {"open", "fork", "close"}
      /\ tiny.filename \in Tokens /\ tiny.cgiargs \in Tokens
  BY <1>2, <1>3 DEF TypeInv, TinyRegs, Struct, TinyShape
<1>8. q \in Written
  BY <1>3, <1>7
<1>9. PICK u, v : u = w[1] /\ v = w[2]
  OBVIOUS
<1>10. u \in Seq(Tokens) /\ v \in Seq(Tokens) /\ u \o v = q
  BY <1>8, <1>9, WriteKeeps
<1>11. PICK d : d = Then(tiny, next)
  OBVIOUS
<1>12. d \in Seq(Tokens) /\ Then(tiny', next) = d
  <2>1. d \in Seq(Tokens)
    BY <1>7, <1>11, ThenTyped
  <2>2. Then(tiny', next) = d
    BY <1>6, <1>11 DEF Then
  <2> QED BY <2>1, <2>2
<1>13. ASSUME Len(tiny.out) <= 4
       PROVE  /\ tiny'.pc = "write" => Len(tiny'.out) <= 4
              /\ Coming(tiny) = u \o Coming(tiny)'
  <2>1. PICK f : f = Flat(rest)
    OBVIOUS
  <2>2. /\ rest \in Seq(Seq(Tokens)) /\ Len(rest) <= 3
        /\ f \in Seq(Tokens) /\ Flat(tiny.out) = q \o f
    BY <1>3, <1>7, <1>13, <2>1, FlatHead
  <2>3. Flat(out) = v \o f /\ Len(out) <= 4
    <3>1. CASE v = <<>>
      <4>1. out = rest
        BY <1>5, <1>9, <3>1
      <4>2. v \o f = f
        BY <2>2, <3>1, CatEmpty
      <4>3. Len(out) <= 4
        BY <2>2, <4>1
      <4> QED BY <2>1, <4>1, <4>2, <4>3
    <3>2. CASE v # <<>>
      <4>1. out = <<v>> \o rest
        BY <1>5, <1>9, <3>2
      <4>2. Flat(<<v>> \o rest) = v \o Flat(rest)
        BY <1>10, <2>2, FlatOf
      <4>3. Len(out) <= 4
        <5>1. PICK h : h = <<v>>
          OBVIOUS
        <5>2. h \in Seq(Seq(Tokens)) /\ Len(h) = 1
          BY <1>10, <5>1
        <5>3. out = h \o rest
          BY <4>1, <5>1
        <5>4. Len(out) = Len(h) + Len(rest)
          BY <2>2, <5>2, <5>3, ConcatProperties
        <5>5. PICK m \in Nat : m = Len(rest)
          BY <2>2
        <5>6. PICK n : n = Len(out)
          OBVIOUS
        <5>7. m \in Nat /\ n = 1 + m /\ m <= 3
          BY <2>2, <5>2, <5>4, <5>5, <5>6
        <5>8. n <= 4
          BY ONLY <5>7
        <5> QED BY <5>6, <5>8
      <4> QED BY <2>1, <4>1, <4>2, <4>3
    <3> QED BY <3>1, <3>2
  <2>4. Coming(tiny') = (v \o f) \o d
    <3>1. CASE out = <<>>
      <4>1. Flat(out) = <<>>
        <5>1. Len(out) = 0
          BY <3>1
        <5> QED BY ONLY <5>1 DEF Flat
      <4>2. tiny'.pc = next /\ next # "write" /\ next # "wait"
        BY <1>6, <1>7, <3>1
      <4>3. Coming(tiny') = Then(tiny', tiny'.pc)
        BY <4>2 DEF Coming
      <4>4. <<>> \o d = d
        BY <1>12, CatEmpty
      <4> QED BY <1>12, <2>3, <4>1, <4>2, <4>3, <4>4
    <3>2. CASE out # <<>>
      <4>1. tiny'.pc = "write"
        BY <1>6, <3>2
      <4>2. Coming(tiny') = Flat(tiny'.out) \o Then(tiny', tiny'.next)
        BY <4>1 DEF Coming
      <4> QED BY <1>6, <1>12, <2>3, <4>2
    <3> QED BY <3>1, <3>2
  <2>5. Coming(tiny) = (q \o f) \o d
    <3>1. Coming(tiny) = Flat(tiny.out) \o Then(tiny, tiny.next)
      BY <1>2 DEF Coming
    <3> QED BY <1>3, <1>11, <2>2, <3>1
  <2>6. PICK x : x = v \o f
    OBVIOUS
  <2>7. u \in Seq(Tokens) /\ v \in Seq(Tokens) /\ f \in Seq(Tokens) /\ d \in Seq(Tokens)
    BY <1>10, <1>12, <2>2
  <2>8. (u \o v) \o f = u \o (v \o f)
    BY ONLY <2>7, CatAssoc, SMTT(60)
  <2>9. x \in Seq(Tokens)
    BY <2>6, <2>7, CatTyped
  <2>10. (u \o x) \o d = u \o (x \o d)
    BY ONLY <2>7, <2>9, CatAssoc, SMTT(60)
  <2>11. Coming(tiny) = u \o Coming(tiny')
    BY <1>10, <2>4, <2>5, <2>6, <2>8, <2>10
  <2> QED BY <1>6, <2>3, <2>11
<1>14. \A c \in Clients : Known(c) /\ Serves(c, k) /\ TinyAnswers(c, k) =>
              /\ tiny'.pc = "write" => Len(tiny'.out) <= 4
              /\ Coming(tiny) = u \o Coming(tiny)'
  BY <1>2, <1>13 DEF TinyAnswers
<1>15. tiny'.pc \notin {"request", "headers", "uri"}
  BY <1>6, <1>7
<1>16. net' = [net EXCEPT ![k].down = @ \o u]
  BY <1>4, <1>9
<1> QED BY <1>1, <1>2, <1>6, <1>10, <1>14, <1>15, <1>16, TinySends

LEMMA CgiWriteAnswers ==
    ASSUME TypeInv, Struct, AnswersKept, TypeInv', CgiWrite, UNCHANGED <<version, handler, stack>>
    PROVE  AnswersKept'
<1>1. PICK k : k = tiny.conn
  OBVIOUS
<1>2. tiny.cgi # <<>> /\ tiny.cgi \in Seq(Tokens) /\ UNCHANGED <<request, to, alive>>
  BY DEF CgiWrite, TypeInv, TinyRegs
<1>3. alive["tiny"] /\ tiny.pc = "wait"
  BY <1>2 DEF Struct, TinyShape
<1>4. Coming(tiny) = tiny.cgi
  BY <1>3 DEF Coming
<1>5. CASE \E w \in rio_writen(tiny.cgi) :
             /\ net' = [net EXCEPT ![tiny.conn].down = @ \o w[1]]
             /\ tiny' = [tiny EXCEPT !.cgi = w[2]]
  <2>1. PICK w \in rio_writen(tiny.cgi) :
             /\ net' = [net EXCEPT ![tiny.conn].down = @ \o w[1]]
             /\ tiny' = [tiny EXCEPT !.cgi = w[2]]
    BY <1>5
  <2>2. PICK u, v : u = w[1] /\ v = w[2]
    OBVIOUS
  <2>3. u \in Seq(Tokens) /\ v \in Seq(Tokens) /\ u \o v = tiny.cgi
    <3>1. tiny.cgi \in Written
      BY <1>2 DEF Written
    <3> QED BY <2>2, <3>1, WriteKeeps
  <2>4. tiny'.conn = k /\ tiny'.pc = "wait" /\ tiny'.cgi = v
    BY <1>1, <1>3, <2>1, <2>2 DEF TypeInv, TinyRegs
  <2>5. Coming(tiny') = v
    BY <2>4 DEF Coming
  <2>6. Coming(tiny) = u \o Coming(tiny)'
    BY <1>4, <2>3, <2>5
  <2>7. net' = [net EXCEPT ![k].down = @ \o u]
    BY <1>1, <2>1, <2>2
  <2> QED BY <1>1, <1>2, <1>3, <2>3, <2>4, <2>6, <2>7, TinySends
<1>6. CASE net' = net /\ tiny' = [tiny EXCEPT !.cgi = <<>>]
  <2>1. /\ k \in Connections /\ net[k].server = "open" /\ net[k] \in Conn
        /\ \A c \in Clients : k = Down(c) => to[c] = "tiny"
        /\ \A c \in Clients : Known(c) /\ Serves(c, k) => TinyAnswers(c, k) /\ AnswerKept(c)
    BY <1>1, <1>3, TinyServing
  <2>2. tiny'.conn = k /\ tiny'.pc = "wait" /\ tiny'.cgi = <<>>
    BY <1>1, <1>3, <1>6 DEF TypeInv, TinyRegs
  <2>3. Coming(tiny') = <<>>
    BY <2>2 DEF Coming
  <2>4. ASSUME NEW c \in Clients, Known(c), Serves(c, k) PROVE TinyAnswers(c, k)'
    <3>1. TinyAnswers(c, k)
      BY <2>1, <2>4
    <3>2. Sent(c)' = Sent(c) /\ Answer(c)' = Answer(c)
      BY <1>2, <1>6, SentSame, AnswerSame
    <3>3. PICK s, d, a : s = Sent(c) /\ d = Coming(tiny) /\ a = Answer(c)
      OBVIOUS
    <3>4. s \in Seq(Tokens) /\ d \in Seq(Tokens)
      BY <1>2, <1>4, <3>3, StreamsTyped
    <3>5. Prefix(s \o d, a)
      BY <3>1, <3>3 DEF TinyAnswers
    <3>6. Prefix(s, a)
      BY <3>4, <3>5, PrefixLess
    <3>7. s \o <<>> = s
      BY <3>4, CatEmpty
    <3>8. Prefix(Sent(c)' \o Coming(tiny)', Answer(c)')
      BY <2>3, <3>2, <3>3, <3>6, <3>7
    <3> QED BY <2>2, <3>8 DEF TinyAnswers
  <2>5. net'[k].server # "queued" /\ \A j \in Connections : j # k => net'[j] = net[j]
    BY <1>6, <2>1
  <2> QED BY <1>2, <2>1, <2>2, <2>4, <2>5, TinyKeeps
<1> QED BY <1>5, <1>6 DEF CgiWrite

\* doit decides what it owes to the URI that it has read.
LEMMA TinyLookupAnswers ==
    ASSUME TypeInv, Struct, AnswersKept, TypeInv', TinyLookup, UNCHANGED <<version, handler, stack>>,
           Asked, SiteReplies
    PROVE  AnswersKept'
<1>1. PICK k : k = tiny.conn
  OBVIOUS
<1>2. alive["tiny"] /\ tiny.pc = "uri" /\ UNCHANGED <<request, to, alive, net>>
  BY DEF TinyLookup, At, networkVars
<1>3. /\ k \in Connections /\ net[k].server = "open" /\ net[k] \in Conn
      /\ \A c \in Clients : k = Down(c) => to[c] = "tiny"
      /\ \A c \in Clients : Known(c) /\ Serves(c, k) => TinyAnswers(c, k) /\ AnswerKept(c)
  BY <1>1, <1>2, TinyServing
<1>4. /\ tiny'.pc = "write" /\ tiny'.conn = k /\ Len(tiny'.out) <= 4
      /\ Coming(tiny)' = Reply(tiny.uri)
  BY <1>1, LookupIs
<1>5. ASSUME NEW c \in Clients, Known(c), Serves(c, k) PROVE TinyAnswers(c, k)'
  <2>1. TinyAnswers(c, k) /\ AnswerKept(c)
    BY <1>3, <1>5
  <2>2. tiny.uri = Uri(request[c]) /\ Method(request[c]) = "GET" /\ Sent(c) = <<>>
    BY <1>2, <2>1 DEF TinyAnswers
  <2>3. to[c] = "tiny" \/ Uri(request[c]) \notin ColonUris
    BY <1>5, <2>1 DEF Serves, AnswerKept, HandlerAnswers
  <2>4. Answer(c) = Reply(tiny.uri) /\ Answer(c) \in Seq(Tokens)
    BY <1>5, <2>2, <2>3, AnswerIs
  <2>5. Sent(c)' = Sent(c) /\ Answer(c)' = Answer(c)
    BY <1>2, SentSame, AnswerSame
  <2>6. PICK a : a = Answer(c)
    OBVIOUS
  <2>7. <<>> \o a = a /\ Prefix(a, a)
    BY <2>4, <2>6, CatEmpty, PrefixEmpty
  <2>8. Prefix(Sent(c)' \o Coming(tiny)', Answer(c)')
    BY <1>4, <2>2, <2>4, <2>5, <2>6, <2>7
  <2> QED BY <1>4, <2>8 DEF TinyAnswers
<1>6. net'[k].server # "queued" /\ \A j \in Connections : j # k => net'[j] = net[j]
  BY <1>2, <1>3
<1> QED BY <1>2, <1>3, <1>4, <1>5, <1>6, TinyKeeps

\* What Rio_readlineb returned from the stream s
LEMMA LineBegins ==
    ASSUME NEW rp \in Buffers, NEW in \in Seq(Tokens), NEW more \in Seq(Tokens), MAXLINE > 2,
           Len(Rest(rp, in) \o more) >= 2,
           (Rest(rp, in) \o more)[1] # NL, (Rest(rp, in) \o more)[2] # NL,
           rp.line # <<>>,
           Complete(rp.line) \/ (rp.unread = <<>> /\ in = <<>> /\ more = <<>>)
    PROVE  /\ Words(rp.line) \in Seq(Tokens) /\ Len(Words(rp.line)) >= 2
           /\ Words(rp.line)[1] = (Rest(rp, in) \o more)[1]
           /\ Words(rp.line)[2] = (Rest(rp, in) \o more)[2]
<1>1. PICK l, x : l = rp.line /\ x = rp.unread \o in
  OBVIOUS
<1>2. l \in Seq(Tokens) /\ x \in Seq(Tokens) /\ rp.unread \in Seq(Tokens)
  BY <1>1, RestTyped
<1>3. Rest(rp, in) = l \o x
  BY <1>1 DEF Rest
<1>4. PICK y : y = x \o more
  OBVIOUS
<1>5. y \in Seq(Tokens)
  BY <1>2, <1>4, CatTyped
<1>6. (l \o x) \o more = l \o (x \o more)
  BY ONLY <1>2, more \in Seq(Tokens), CatAssoc, SMTT(60)
<1>7. PICK s : s = l \o y
  OBVIOUS
<1>8. Rest(rp, in) \o more = s
  BY <1>3, <1>4, <1>6, <1>7
<1>9. /\ s \in Seq(Tokens) /\ Len(s) = Len(l) + Len(y)
      /\ \A j \in 1 .. Len(l) : s[j] = l[j]
  BY <1>2, <1>5, <1>7, CatTyped
<1>10. Len(l) <= Len(s)
  <2>1. PICK m \in Nat, n \in Nat : m = Len(l) /\ n = Len(y)
    BY <1>2, <1>5
  <2>2. m <= m + n
    BY <2>1
  <2> QED BY <1>9, <2>1, <2>2
<1>11. Last(l) = NL \/ Len(l) = MAXLINE - 1 \/ Len(l) = Len(s)
  <2>1. CASE Complete(rp.line)
    BY <1>1, <2>1 DEF Complete
  <2>2. CASE rp.unread = <<>> /\ in = <<>> /\ more = <<>>
    <3>1. x = <<>>
      BY <1>1, <1>2, <2>2, CatEmpty
    <3>2. y = <<>>
      BY <1>2, <1>4, <2>2, <3>1, CatEmpty
    <3>3. s = l
      BY <1>2, <1>7, <3>2, CatEmpty
    <3> QED BY <3>3
  <2> QED BY <2>1, <2>2
<1>12. Len(s) >= 2 /\ s[1] # NL /\ s[2] # NL /\ l # <<>>
  BY <1>1, <1>8
<1>13. \A j \in 1 .. Len(l) : l[j] = s[j]
  BY <1>9
<1>14. /\ Words(l) \in Seq(Tokens) /\ Len(Words(l)) >= 2
       /\ Words(l)[1] = s[1] /\ Words(l)[2] = s[2]
  BY <1>2, <1>9, <1>10, <1>11, <1>12, <1>13, WordsTaken
<1> QED BY <1>1, <1>8, <1>14

\* doit takes method and URI from the first line, and answers other methods at once.
LEMMA TinyRequestLineAnswers ==
    ASSUME TypeInv, Struct, AnswersKept, TypeInv', TinyRequestLine, UNCHANGED <<version, handler, stack>>,
           Asked, SiteReplies, MAXLINE > 2
    PROVE  AnswersKept'
<1>1. PICK k : k = tiny.conn
  OBVIOUS
<1>2. alive["tiny"] /\ tiny.pc = "request" /\ LineReturned /\ UNCHANGED <<request, to, alive, net>>
  BY DEF TinyRequestLine, At, networkVars
<1>3. /\ k \in Connections /\ net[k].server = "open" /\ net[k] \in Conn
      /\ \A c \in Clients : k = Down(c) => to[c] = "tiny"
      /\ \A c \in Clients : Known(c) /\ Serves(c, k) => TinyAnswers(c, k) /\ AnswerKept(c)
  BY <1>1, <1>2, TinyServing
<1>4. PICK rp, in : rp = tiny.rio /\ in = net[k].up
  OBVIOUS
<1>5. rp \in Buffers /\ in \in Seq(Tokens)
  BY <1>3, <1>4 DEF TypeInv, TinyRegs, Conn
<1>6. \A j \in Connections : net'[j] = net[j]
  BY <1>2
<1>7. CASE rp.line = <<>>
  <2>1. tiny'.pc = "close" /\ tiny'.conn = k
    BY <1>1, <1>4, <1>7 DEF TinyRequestLine, TypeInv, TinyRegs
  <2>2. \A c \in Clients : Known(c) /\ Serves(c, k) /\ TinyAnswers(c, k) =>
              /\ tiny'.pc = "request" => Asks(Rest(tiny'.rio, net'[k].up) \o Left(c), request[c])
              /\ tiny'.pc \in {"headers", "uri"} =>
                    tiny'.uri = Uri(request[c]) /\ Method(request[c]) = "GET"
    BY <2>1
  <2> QED BY <1>1, <1>2, <1>6, <2>1, <2>2, TinyListens
<1>8. CASE rp.line # <<>>
  <2>1. PICK method \in Scanned(Words(rp.line), 1, tiny.method),
             uri \in Scanned(Words(rp.line), 2, tiny.uri) :
           LET t == [tiny EXCEPT !.method = method, !.uri = uri, !.bufSet = FALSE,
                                 !.rio = NextLine(rp)]
           IN  tiny' = IF method # "GET" THEN Answering(t, clienterror("501"), "close")
                       ELSE [t EXCEPT !.pc = "headers"]
    BY <1>4, <1>8, ZenonT(60) DEF TinyRequestLine
  <2>2. ASSUME NEW c \in Clients, Known(c), Serves(c, k)
        PROVE  method = Method(request[c]) /\ uri = Uri(request[c])
    <3>1. TinyAnswers(c, k) /\ AnswerKept(c) /\ HandlerOK(c)
      BY <1>3, <2>2 DEF Struct, HandlerShape
    <3>2. PICK more \in Seq(Tokens) : more = Left(c)
      BY StreamsTyped
    <3>3. Asks(Rest(rp, in) \o more, request[c])
      BY <1>2, <1>4, <3>1, <3>2 DEF TinyAnswers
    <3>4. Complete(rp.line) \/ (rp.unread = <<>> /\ in = <<>> /\ more = <<>>)
      <4>1. ASSUME ~Complete(rp.line) PROVE rp.unread = <<>> /\ in = <<>> /\ more = <<>>
        <5>1. rp.unread = <<>> /\ in = <<>> /\ net[k].client \in {"shut", "gone"}
          BY <1>1, <1>2, <1>4, <4>1 DEF LineReturned, AtEof
        <5>2. handler[c].pc # "send"
          BY <2>2, <3>1, <5>1 DEF Serves, HandlerOK, Calling
        <5>3. more = <<>>
          BY <3>2, <5>2 DEF Left
        <5> QED BY <5>1, <5>3
      <4> QED BY <4>1
    <3>5. PICK s : s = Rest(rp, in) \o more
      OBVIOUS
    <3>6. /\ Len(s) >= 2 /\ s[1] = Method(request[c]) /\ s[2] = Uri(request[c])
          /\ s[1] # NL /\ s[2] # NL
      BY <3>3, <3>5 DEF Asks
    <3>7. /\ Words(rp.line) \in Seq(Tokens) /\ Len(Words(rp.line)) >= 2
          /\ Words(rp.line)[1] = s[1] /\ Words(rp.line)[2] = s[2]
      <4>1. /\ Len(Rest(rp, in) \o more) >= 2
            /\ (Rest(rp, in) \o more)[1] # NL /\ (Rest(rp, in) \o more)[2] # NL
        BY <3>5, <3>6
      <4>2. /\ Words(rp.line) \in Seq(Tokens) /\ Len(Words(rp.line)) >= 2
            /\ Words(rp.line)[1] = (Rest(rp, in) \o more)[1]
            /\ Words(rp.line)[2] = (Rest(rp, in) \o more)[2]
        BY <1>5, <1>8, <3>2, <3>4, <4>1, LineBegins
      <4> QED BY <3>5, <4>2
    <3>8. 1 <= Len(Words(rp.line)) /\ 2 <= Len(Words(rp.line))
      BY <3>7
    <3> QED BY <3>6, <3>7, <3>8 DEF Scanned
  <2>3. CASE method # "GET"
    <3>1. /\ tiny'.conn = k /\ tiny'.pc = "write" /\ tiny'.out = clienterror("501")
          /\ tiny'.next = "close"
      BY <1>1, <2>1, <2>3 DEF Answering, TypeInv, TinyRegs
    <3>2. PICK e : e = ErrorPage("501")
      OBVIOUS
    <3>3. e \in Seq(Tokens) /\ Flat(tiny'.out) = e /\ Len(tiny'.out) = 4
      BY <3>1, <3>2, PagesAre
    <3>4. Coming(tiny') = e
      <4>1. Coming(tiny') = Flat(tiny'.out) \o Then(tiny', tiny'.next)
        BY <3>1 DEF Coming
      <4>2. Then(tiny', tiny'.next) = <<>>
        BY <3>1 DEF Then
      <4> QED BY <3>3, <4>1, <4>2, CatEmpty
    <3>5. Len(tiny'.out) <= 4
      <4>1. PICK n : n = Len(tiny'.out)
        OBVIOUS
      <4>2. n = 4
        BY <3>3, <4>1
      <4>3. n <= 4
        BY ONLY <4>2
      <4> QED BY <4>1, <4>3
    <3>6. ASSUME NEW c \in Clients, Known(c), Serves(c, k) PROVE TinyAnswers(c, k)'
      <4>1. TinyAnswers(c, k) /\ AnswerKept(c) /\ Method(request[c]) # "GET"
        BY <1>3, <2>2, <2>3, <3>6
      <4>2. to[c] = "tiny"
        BY <3>6, <4>1 DEF Serves, AnswerKept, HandlerAnswers
      <4>3. Answer(c) = e
        BY <3>2, <3>6, <4>1, <4>2, AnswerIs
      <4>4. Sent(c)' = <<>> /\ Answer(c)' = Answer(c)
        <5>1. Sent(c)' = Sent(c) /\ Answer(c)' = Answer(c)
          BY <1>2, SentSame, AnswerSame
        <5> QED BY <1>2, <4>1, <5>1 DEF TinyAnswers
      <4>5. <<>> \o e = e /\ Prefix(e, e)
        BY <3>3, CatEmpty, PrefixEmpty
      <4>6. Prefix(Sent(c)' \o Coming(tiny)', Answer(c)')
        BY <3>4, <4>3, <4>4, <4>5
      <4> QED BY <3>1, <3>5, <4>6 DEF TinyAnswers
    <3>7. net'[k].server # "queued" /\ \A j \in Connections : j # k => net'[j] = net[j]
      BY <1>3, <1>6
    <3> QED BY <1>2, <1>3, <3>1, <3>6, <3>7, TinyKeeps
  <2>4. CASE method = "GET"
    <3>1. tiny'.conn = k /\ tiny'.pc = "headers" /\ tiny'.uri = uri
      BY <1>1, <2>1, <2>4 DEF TypeInv, TinyRegs
    <3>2. \A c \in Clients : Known(c) /\ Serves(c, k) /\ TinyAnswers(c, k) =>
              /\ tiny'.pc = "request" => Asks(Rest(tiny'.rio, net'[k].up) \o Left(c), request[c])
              /\ tiny'.pc \in {"headers", "uri"} =>
                    tiny'.uri = Uri(request[c]) /\ Method(request[c]) = "GET"
      BY <2>2, <2>4, <3>1
    <3> QED BY <1>1, <1>2, <1>6, <3>1, <3>2, TinyListens
  <2> QED BY <2>3, <2>4
<1> QED BY <1>7, <1>8

LEMMA TinyCloseAnswers ==
    ASSUME TypeInv, Struct, AnswersKept, TinyClose, UNCHANGED <<version, handler, stack>>
    PROVE  AnswersKept'
<1>1. PICK k : k = tiny.conn
  OBVIOUS
<1>2. /\ alive["tiny"] /\ tiny.pc = "close"
      /\ net' = [net EXCEPT ![k] = Shut(@)]
      /\ tiny' = [tiny EXCEPT !.pc = "accept", !.conn = NoConnection]
      /\ UNCHANGED <<request, to, alive>>
  BY <1>1 DEF TinyClose, At
<1>3. k \in Connections /\ net[k].server = "open" /\ net[k] \in Conn
  BY <1>1, <1>2, TinyHolds
<1>4. /\ \A j \in Connections : /\ net'[j].up = net[j].up /\ net'[j].down = net[j].down
                                /\ net'[j].server = "queued" => net[j].server = "queued"
      /\ tiny'.conn = NoConnection
  BY <1>2, <1>3 DEF TypeInv, Shut, Conn, TinyRegs
<1> SUFFICES ASSUME NEW c \in Clients, Known(c)' PROVE AnswerKept(c)'
  BY DEF AnswersKept
<1>5. AnswerKept(c)
  BY <1>2, AnswerSame DEF AnswersKept
<1>6. Down(c) \in Connections /\ Up(c) \in Connections /\ NoConnection \notin Connections
  BY Ends
<1>7. \A j \in Connections :
         tiny'.pc # "dead" /\ tiny'.conn = j /\ Serves(c, j) => tiny' = tiny
  BY <1>4, <1>6
<1> QED BY <1>2, <1>4, <1>5, <1>6, <1>7, OthersKept

LEMMA TinyDiesAnswers ==
    ASSUME TypeInv, Struct, AnswersKept, TinyDies, UNCHANGED <<version, handler, stack>>
    PROVE  AnswersKept'
<1>1. /\ tiny' = [tiny EXCEPT !.pc = "dead"] /\ UNCHANGED <<request, to>>
      /\ \A j \in Connections : net'[j] \in {net[j], Shut(net[j])}
  BY DEF TinyDies
<1>2. tiny'.pc = "dead"
  BY <1>1 DEF TypeInv, TinyRegs
<1>3. \A j \in Connections : /\ net'[j].up = net[j].up /\ net'[j].down = net[j].down
                             /\ net'[j].server = "queued" => net[j].server = "queued"
  <2>1. ASSUME NEW j \in Connections
        PROVE  /\ Shut(net[j]).up = net[j].up /\ Shut(net[j]).down = net[j].down
               /\ Shut(net[j]).server = "closed"
    <3>1. net[j] \in Conn
      BY DEF TypeInv
    <3> QED BY <3>1 DEF Shut, Conn
  <2> QED BY <1>1, <2>1
<1> SUFFICES ASSUME NEW c \in Clients, Known(c)' PROVE AnswerKept(c)'
  BY DEF AnswersKept
<1>4. AnswerKept(c)
  BY <1>1, AnswerSame DEF AnswersKept
<1>5. Down(c) \in Connections /\ Up(c) \in Connections
  BY Ends
<1> QED BY <1>1, <1>2, <1>3, <1>4, <1>5, OthersKept

\* Nothing has been read of a connection, and nothing written, when it is accepted.
LEMMA TinyAcceptAnswers ==
    ASSUME TypeInv, Struct, AnswersKept, TypeInv', TinyAccept, UNCHANGED <<version, handler, stack>>,
           Asked, SiteReplies
    PROVE  AnswersKept'
<1>1. PICK k : k = Head(backlog["tiny"])
  OBVIOUS
<1>2. /\ net' = [net EXCEPT ![k].server = "open"]
      /\ tiny' = [tiny EXCEPT !.pc = "request", !.conn = k, !.rio = rio_readinitb]
      /\ UNCHANGED <<request, to, alive>>
  BY <1>1 DEF TinyAccept
<1>3. /\ k \in Connections /\ net[k].server = "queued"
      /\ \A c \in Clients : k = Down(c) => to[c] = "tiny"
  <2>1. "tiny" \in Servers /\ backlog["tiny"] \in Seq(Connections) /\ backlog["tiny"] # <<>>
    BY DEF Servers, TinyAccept, TypeInv
  <2>2. PICK i \in 1 .. Len(backlog["tiny"]) : i = 1
    BY <2>1, EmptySeq
  <2>3. k = backlog["tiny"][i]
    BY <1>1, <2>1, <2>2
  <2> QED BY <2>1, <2>3 DEF Struct, QueueShape
<1>4. /\ tiny'.pc = "request" /\ tiny'.conn = k /\ tiny'.rio = rio_readinitb
      /\ \A j \in Connections : net'[j].up = net[j].up /\ net'[j].down = net[j].down
      /\ \A j \in Connections : j # k => net'[j] = net[j]
      /\ net'[k].server # "queued"
  BY <1>2, <1>3 DEF TypeInv, TinyRegs, Conn
<1>5. ASSUME NEW c \in Clients, Known(c), Serves(c, k) PROVE TinyAnswers(c, k)'
  <2>1. AnswerKept(c) /\ HandlerOK(c)
    BY <1>5 DEF AnswersKept, Struct, HandlerShape
  <2>2. PICK up \in Seq(Tokens), more \in Seq(Tokens) : up = net[k].up /\ more = Left(c)
    BY <1>3, StreamsTyped DEF TypeInv, Conn
  <2>3. Sent(c) = <<>> /\ Asks(up \o more, request[c])
    <3>1. CASE k = Up(c) /\ handler[c].pc \in Fetching
      BY <1>3, <2>1, <2>2, <3>1 DEF AnswerKept
    <3>2. CASE k = Down(c) /\ to[c] = "tiny"
      <4>1. Sent(c) = <<>> /\ Asks(up, request[c])
        BY <1>3, <2>1, <2>2, <3>2 DEF AnswerKept, Sent
      <4>2. more = <<>>
        BY <2>1, <2>2, <3>2 DEF HandlerOK, Left
      <4>3. up \o more = up
        BY <2>2, <4>2, CatEmpty
      <4> QED BY <4>1, <4>3
    <3> QED BY <1>5, <3>1, <3>2 DEF Serves
  <2>4. Rest(rio_readinitb, up) = up
    <3>1. Rest(rio_readinitb, up) = <<>> \o (<<>> \o up)
      BY DEF Rest, rio_readinitb
    <3> QED BY <2>2, <3>1, CatEmpty
  <2>5. Sent(c)' = Sent(c) /\ Answer(c)' = Answer(c) /\ Left(c)' = Left(c)
    <3>1. Sent(c)' = Sent(c)
      BY <1>2, <1>4, Ends, SentSame
    <3> QED BY <1>2, <3>1, AnswerSame DEF Left
  <2>6. Coming(tiny') = <<>>
    BY <1>4, ComingNone
  <2>7. PICK a : a = Answer(c)
    OBVIOUS
  <2>8. a \in Seq(Tokens)
    BY <1>5, <2>7, AnswerIs
  <2>9. <<>> \o <<>> = <<>> /\ Prefix(<<>>, a)
    BY <2>8, PrefixEmpty, CatEmpty
  <2>10. Prefix(Sent(c)' \o Coming(tiny)', Answer(c)')
    BY <2>3, <2>5, <2>6, <2>7, <2>9
  <2>11. Asks(Rest(tiny'.rio, net'[k].up) \o Left(c)', request'[c])
    BY <1>2, <1>3, <1>4, <2>2, <2>3, <2>4, <2>5
  <2>12. Sent(c)' = <<>>
    BY <2>3, <2>5
  <2> QED BY <1>4, <2>10, <2>11, <2>12 DEF TinyAnswers
<1> QED BY <1>2, <1>3, <1>4, <1>5, TinyKeeps

LEMMA TinyAnswersStep ==
    ASSUME TypeInv, Struct, AnswersKept, TypeInv', TinyNext, UNCHANGED <<version, handler, stack>>,
           Asked, SiteReplies, MAXLINE > 2
    PROVE  AnswersKept'
<1>1. CASE TinyAccept
  BY <1>1, TinyAcceptAnswers
<1>2. CASE TinyRead
  BY <1>2, TinyReadAnswers
<1>3. CASE TinyReadFails \/ TinyWriteFails
  BY <1>3, TinyDiesAnswers DEF TinyReadFails, TinyWriteFails
<1>4. CASE TinyRequestLine
  BY <1>4, TinyRequestLineAnswers
<1>5. CASE read_requesthdrs
  BY <1>5, TinyHeadersAnswers
<1>6. CASE TinyLookup
  BY <1>6, TinyLookupAnswers
<1>7. CASE TinyWrite
  BY <1>7, TinyWriteAnswers
<1>8. CASE TinyMap
  BY <1>8, TinyMapAnswers, TinyDiesAnswers DEF TinyMap
<1>9. CASE TinyFork \/ TinyWait
  BY <1>9, TinyForkAnswers
<1>10. CASE CgiWrite
  BY <1>10, CgiWriteAnswers
<1>11. CASE TinyClose
  BY <1>11, TinyCloseAnswers
<1> QED BY <1>1, <1>2, <1>3, <1>4, <1>5, <1>6, <1>7, <1>8, <1>9, <1>10, <1>11 DEF TinyNext

-----------------------------------------------------------------------------
(* The steps of the proxy. *)

\* A step of the thread of c
LEMMA ProxyKeeps ==
    ASSUME TypeInv, Struct, AnswersKept, NEW c \in Clients,
           UNCHANGED <<request, to, tiny>>,
           \A d \in Clients : d # c => /\ handler'[d] = handler[d]
                                       /\ net'[Down(d)] = net[Down(d)] /\ net'[Up(d)] = net[Up(d)],
           Known(c) => AnswerKept(c)'
    PROVE  AnswersKept'
<1> SUFFICES ASSUME NEW d \in Clients, Known(d)' PROVE AnswerKept(d)'
  BY DEF AnswersKept
<1>1. Known(d)
  BY AnswerSame
<1>2. AnswerKept(d)
  BY <1>1 DEF AnswersKept
<1>3. CASE d = c
  BY <1>1, <1>3
<1>4. CASE d # c
  <2>1. handler'[d] = handler[d] /\ net'[Down(d)] = net[Down(d)] /\ net'[Up(d)] = net[Up(d)]
    BY <1>4
  <2> QED BY <1>2, <2>1, OthersKept
<1> QED BY <1>3, <1>4

\* The thread of c has its client's connection, and its client came to the proxy.
LEMMA ThreadHas ==
    ASSUME TypeInv, Struct, AnswersKept, NEW c \in Clients, handler[c].pc \in Serving
    PROVE  /\ to[c] = "proxy" /\ net[Down(c)].server = "open" /\ HandlerOK(c)
           /\ Down(c) \in Connections /\ Up(c) \in Connections /\ Down(c) # Up(c)
           /\ Known(c) => AnswerKept(c)
<1>1. HandlerOK(c) /\ (Known(c) => AnswerKept(c))
  BY DEF Struct, HandlerShape, AnswersKept
<1>2. to[c] \in {"tiny", "proxy"}
  BY DEF TypeInv, Servers
<1> QED BY <1>1, <1>2, Ends DEF HandlerOK, Serving

\* The thread reads or writes a head, or has got all of the answer.
LEMMA HeadKeeps ==
    ASSUME TypeInv, Struct, AnswersKept, NEW c \in Clients, to[c] = "proxy",
           UNCHANGED <<request, to, tiny>>,
           \A d \in Clients : d # c => /\ handler'[d] = handler[d]
                                       /\ net'[Down(d)] = net[Down(d)] /\ net'[Up(d)] = net[Up(d)],
           net'[Down(c)].down = net[Down(c)].down, net'[Down(c)].server # "queued",
           handler'[c].pc \notin Fetching,
           Known(c) /\ AnswerKept(c) => HandlerAnswers(c)'
    PROVE  AnswersKept'
<1>1. ASSUME Known(c) PROVE AnswerKept(c)'
  <2>1. AnswerKept(c) /\ HandlerAnswers(c)'
    BY <1>1 DEF AnswersKept
  <2>2. Prefix(net'[Down(c)].down, Answer(c)')
    BY <2>1, AnswerSame DEF AnswerKept
  <2>3. \A k \in Connections : ~Serves(c, k)'
    BY DEF Serves
  <2> QED BY <2>1, <2>2, <2>3 DEF AnswerKept
<1> QED BY <1>1, ProxyKeeps

\* The thread passes on what Tiny sent, or the rest of its own request.
LEMMA FetchKeeps ==
    ASSUME TypeInv, Struct, AnswersKept, TypeInv', NEW c \in Clients, to[c] = "proxy",
           UNCHANGED <<request, to, tiny>>,
           \A d \in Clients : d # c => /\ handler'[d] = handler[d]
                                       /\ net'[Down(d)] = net[Down(d)] /\ net'[Up(d)] = net[Up(d)],
           net'[Down(c)].server # "queued", net'[Up(c)].server = net[Up(c)].server,
           handler[c].pc \in Fetching, handler'[c].pc \in Fetching,
           Sent(c)' = Sent(c),
           net'[Up(c)].up \o Left(c)' = net[Up(c)].up \o Left(c),
           \A rp \in Buffers : Rest(rp, net'[Up(c)].up) \o Left(c)' = Rest(rp, net[Up(c)].up) \o Left(c)
    PROVE  AnswersKept'
<1>1. ASSUME Known(c) PROVE AnswerKept(c)'
  <2>1. AnswerKept(c)
    BY <1>1 DEF AnswersKept
  <2>2. HandlerAnswers(c)'
    BY <2>1 DEF AnswerKept, HandlerAnswers, Fetching
  <2>3. Answer(c)' = Answer(c)
    BY AnswerSame
  <2>4. handler'[c].pc \in Fetching =>
          /\ Prefix(Sent(c)', Answer(c)')
          /\ net'[Up(c)].server = "queued" =>
                Sent(c)' = <<>> /\ Asks(net'[Up(c)].up \o Left(c)', request'[c])
    BY <2>1, <2>3 DEF AnswerKept
  <2>5. Prefix(net'[Down(c)].down, Answer(c)')
    <3>1. PICK a, x, b : /\ a = net'[Down(c)].down /\ b = Answer(c)'
                         /\ x = (Due(c) \o Rest(handler[c].server, net[Up(c)].down))'
      OBVIOUS
    <3>2. a \in Seq(Tokens) /\ x \in Seq(Tokens)
      <4>1. /\ (net[Down(c)].down \in Seq(Tokens))'
            /\ (Due(c) \o Rest(handler[c].server, net[Up(c)].down) \in Seq(Tokens))'
        BY PartsTyped
      <4> QED BY <3>1, <4>1
    <3>3. Sent(c)' = a \o x
      BY <3>1 DEF Sent
    <3>4. Prefix(a \o x, b)
      BY <2>4, <3>1, <3>3
    <3>5. Prefix(a, b)
      BY <3>2, <3>4, PrefixLess
    <3> QED BY <3>1, <3>5
  <2>6. ASSUME NEW k \in Connections, tiny'.pc # "dead", tiny'.conn = k, Serves(c, k)'
        PROVE  TinyAnswers(c, k)'
    <3>1. k = Up(c) /\ Serves(c, k)
      BY <2>6 DEF Serves
    <3>2. TinyAnswers(c, k)
      BY <2>1, <2>6, <3>1 DEF AnswerKept
    <3>3. tiny.rio \in Buffers
      BY DEF TypeInv, TinyRegs
    <3>4. Rest(tiny'.rio, net'[k].up) \o Left(c)' = Rest(tiny.rio, net[k].up) \o Left(c)
      BY <3>1, <3>3
    <3>5. Coming(tiny)' = Coming(tiny)
      OBVIOUS
    <3> QED BY <2>3, <3>2, <3>4, <3>5 DEF TinyAnswers
  <2> QED BY <2>2, <2>4, <2>5, <2>6 DEF AnswerKept
<1> QED BY <1>1, ProxyKeeps

\* exit() of the proxy, whichever thread calls it
LEMMA ProxyDiesAnswers ==
    ASSUME TypeInv, Struct, AnswersKept, ProxyDies
    PROVE  AnswersKept'
<1>1. UNCHANGED <<request, to, tiny>> /\ \A c \in Clients : handler'[c].pc = "dead"
  <2>1. handler' = [c \in Clients |-> [handler[c] EXCEPT !.pc = "dead"]]
    BY DEF ProxyDies
  <2>2. ASSUME NEW c \in Clients PROVE handler'[c].pc = "dead"
    <3>1. handler[c] \in HandlerRegs /\ handler'[c] = [handler[c] EXCEPT !.pc = "dead"]
      BY <2>1, HandlerKnown
    <3> QED BY <3>1 DEF HandlerRegs
  <2> QED BY <2>2 DEF ProxyDies
<1>2. \A j \in Connections : /\ net'[j].up = net[j].up /\ net'[j].down = net[j].down
                             /\ net'[j].server = "queued" => net[j].server = "queued"
  <2>1. ASSUME NEW j \in Connections
        PROVE  net'[j] \in {net[j], Shut(net[j]), [net[j] EXCEPT !.client = "gone"]}
    BY DEF ProxyDies
  <2>2. ASSUME NEW j \in Connections, NEW n \in {net[j], Shut(net[j]), [net[j] EXCEPT !.client = "gone"]}
        PROVE  /\ n.up = net[j].up /\ n.down = net[j].down
               /\ n.server = "queued" => net[j].server = "queued"
    <3>1. net[j] \in Conn
      BY DEF TypeInv
    <3> QED BY <2>2, <3>1 DEF Shut, Conn
  <2> QED BY <2>1, <2>2
<1> SUFFICES ASSUME NEW c \in Clients, Known(c)' PROVE AnswerKept(c)'
  BY DEF AnswersKept
<1>3. AnswerKept(c) /\ HandlerOK(c) /\ Answer(c)' = Answer(c)
  BY <1>1, AnswerSame DEF AnswersKept, Struct, HandlerShape
<1>4. Down(c) \in Connections /\ handler'[c].pc = "dead" /\ request'[c] = request[c]
  BY <1>1, Ends
<1>5. HandlerAnswers(c)' /\ handler'[c].pc \notin Fetching
  BY <1>4 DEF HandlerAnswers, Fetching
<1>6. /\ Prefix(net'[Down(c)].down, Answer(c)')
      /\ net'[Down(c)].server = "queued" =>
            net'[Down(c)].down = <<>> /\ Asks(net'[Down(c)].up, request'[c])
  BY <1>2, <1>3, <1>4 DEF AnswerKept
<1>7. ASSUME NEW k \in Connections, tiny'.pc # "dead", tiny'.conn = k, Serves(c, k)'
      PROVE  TinyAnswers(c, k)'
  <2>1. k = Down(c) /\ to[c] = "tiny" /\ to'[c] = "tiny"
    BY <1>1, <1>5, <1>7 DEF Serves
  <2>2. TinyAnswers(c, k)
    BY <1>1, <1>3, <1>7, <2>1 DEF AnswerKept, Serves
  <2>3. Sent(c)' = Sent(c)
    BY <1>2, <1>4, <2>1 DEF Sent
  <2>4. Left(c)' = Left(c)
    BY <1>3, <1>4, <2>1 DEF HandlerOK, Left
  <2>5. Coming(tiny)' = Coming(tiny) /\ tiny' = tiny
    BY <1>1
  <2> QED BY <1>2, <1>3, <1>4, <2>2, <2>3, <2>4, <2>5 DEF TinyAnswers
<1> QED BY <1>5, <1>6, <1>7 DEF AnswerKept

LEMMA ProxyAcceptAnswers ==
    ASSUME TypeInv, Struct, AnswersKept, NEW c \in Clients, ProxyAccept(c)
    PROVE  AnswersKept'
<1>1. /\ alive["proxy"] /\ handler[c].pc = "idle"
      /\ backlog["proxy"] # <<>> /\ Head(backlog["proxy"]) = Down(c)
      /\ handler' = [handler EXCEPT ![c].pc = "request"]
      /\ net' = [net EXCEPT ![Down(c)].server = "open"]
      /\ UNCHANGED <<request, to, tiny>>
  BY DEF ProxyAccept, ProxyAt, Goto
<1>2. net[Down(c)].server = "queued" /\ to[c] = "proxy"
  <2>1. "proxy" \in Servers /\ backlog["proxy"] \in Seq(Connections)
    BY DEF Servers, TypeInv
  <2>2. PICK i \in 1 .. Len(backlog["proxy"]) : i = 1
    BY <1>1, <2>1, EmptySeq
  <2>3. Down(c) = backlog["proxy"][i]
    BY <1>1, <2>1, <2>2
  <2> QED BY <2>1, <2>3 DEF Struct, QueueShape
<1>3. /\ Down(c) \in Connections /\ Up(c) \in Connections /\ Down(c) # Up(c)
      /\ net[Down(c)] \in Conn /\ handler[c] \in HandlerRegs
      /\ net[Down(c)].up \in Seq(Tokens)
  BY Ends, HandlerKnown
<1>4. /\ net'[Down(c)].down = net[Down(c)].down /\ net'[Down(c)].up = net[Down(c)].up
      /\ net'[Down(c)].server = "open"
  BY <1>1, <1>3 DEF TypeInv, Conn
<1>5. \A d \in Clients : d # c => /\ handler'[d] = handler[d]
                                  /\ net'[Down(d)] = net[Down(d)] /\ net'[Up(d)] = net[Up(d)]
  BY <1>1, <1>3, Ends DEF TypeInv
<1>6. handler'[c] = [handler[c] EXCEPT !.pc = "request"] /\ handler[c] = Idle
  BY <1>1 DEF TypeInv, Struct, HandlerShape, HandlerOK
<1>7. /\ handler'[c].pc = "request" /\ handler'[c].rio = rio_readinitb
      /\ handler'[c].server = rio_readinitb
  BY <1>6 DEF Idle
<1>8. ASSUME Known(c), AnswerKept(c) PROVE HandlerAnswers(c)'
  <2>1. net[Down(c)].down = <<>> /\ Asks(net[Down(c)].up, request[c])
    BY <1>2, <1>8 DEF AnswerKept
  <2>2. Rest(rio_readinitb, net[Down(c)].up) = net[Down(c)].up
    <3>1. Rest(rio_readinitb, net[Down(c)].up) = <<>> \o (<<>> \o net[Down(c)].up)
      BY DEF Rest, rio_readinitb
    <3> QED BY <1>3, <3>1, CatEmpty
  <2>3. Asks(Rest(handler'[c].rio, net'[Down(c)].up), request'[c])
    BY <1>1, <1>4, <1>7, <2>1, <2>2
  <2>4. net'[Down(c)].down = <<>>
    BY <1>4, <2>1
  <2> QED BY <1>7, <2>3, <2>4 DEF HandlerAnswers, Fetching
<1>9. handler'[c].pc \notin Fetching
  BY <1>7 DEF Fetching
<1> QED BY <1>1, <1>2, <1>4, <1>5, <1>8, <1>9, HeadKeeps

LEMMA ProxyReadAnswers ==
    ASSUME TypeInv, Struct, AnswersKept, NEW c \in Clients, ProxyRead(c)
    PROVE  AnswersKept'
<1>1. /\ handler[c].pc \in {"request", "headers"} /\ UNCHANGED <<request, to, alive, tiny>>
  BY DEF ProxyRead, ProxyAt
<1>2. PICK r \in rio_readlineb(handler[c].rio, net[Down(c)].up) :
          /\ handler' = [handler EXCEPT ![c].rio = r.rio]
          /\ net' = [net EXCEPT ![Down(c)].up = r.in]
  BY DEF ProxyRead
<1>3. /\ handler[c] \in HandlerRegs /\ handler[c].rio \in Buffers
      /\ net[Down(c)] \in Conn /\ net[Down(c)].up \in Seq(Tokens)
  BY HandlerKnown
<1>4. /\ to[c] = "proxy" /\ net[Down(c)].server = "open" /\ HandlerOK(c)
      /\ Down(c) \in Connections /\ Up(c) \in Connections /\ Down(c) # Up(c)
  <2>1. handler[c].pc \in Serving
    BY <1>1 DEF Serving
  <2> QED BY <2>1, ThreadHas
<1>5. Rest(r.rio, r.in) = Rest(handler[c].rio, net[Down(c)].up)
  BY <1>3, ReadLineKeeps
<1>6. /\ net'[Down(c)].up = r.in /\ net'[Down(c)].server = net[Down(c)].server
      /\ net'[Down(c)].down = net[Down(c)].down
  BY <1>2, <1>3, <1>4 DEF TypeInv, Conn
<1>7. handler'[c] = [handler[c] EXCEPT !.rio = r.rio]
  BY <1>2 DEF TypeInv
<1>8. /\ handler'[c].pc = handler[c].pc /\ handler'[c].rio = r.rio
      /\ handler'[c].server = handler[c].server /\ handler'[c].path = handler[c].path
      /\ handler'[c].hostname = handler[c].hostname
  BY <1>3, <1>7 DEF HandlerRegs
<1>9. \A d \in Clients : d # c => /\ handler'[d] = handler[d]
                                  /\ net'[Down(d)] = net[Down(d)] /\ net'[Up(d)] = net[Up(d)]
  BY <1>2, <1>3, Ends DEF TypeInv
<1>10. ASSUME Known(c), AnswerKept(c) PROVE HandlerAnswers(c)'
  <2>1. HandlerAnswers(c)
    BY <1>10 DEF AnswerKept
  <2>2. Rest(handler'[c].rio, net'[Down(c)].up) = Rest(handler[c].rio, net[Down(c)].up)
    BY <1>5, <1>6, <1>8
  <2>3. request'[c] = request[c]
    BY <1>1
  <2> QED BY <1>1, <1>6, <1>8, <2>1, <2>2, <2>3 DEF HandlerAnswers, Fetching
<1>11. handler'[c].pc \notin Fetching /\ net'[Down(c)].server # "queued"
  BY <1>1, <1>4, <1>6, <1>8 DEF Fetching
<1> QED BY <1>1, <1>4, <1>6, <1>9, <1>10, <1>11, HeadKeeps

\* What the steps that only change the registers of a thread have in common
LEMMA ThreadOnly ==
    ASSUME TypeInv, Struct, AnswersKept, NEW c \in Clients, handler[c].pc \in Serving,
           UNCHANGED <<networkVars, tiny>>, NEW h, handler' = [handler EXCEPT ![c] = h],
           h.pc \notin Fetching,
           Known(c) /\ AnswerKept(c) => HandlerAnswers(c)'
    PROVE  AnswersKept'
<1>1. to[c] = "proxy" /\ net[Down(c)].server = "open"
  BY ThreadHas
<1>2. UNCHANGED <<request, to, net, tiny>>
  BY DEF networkVars
<1>3. \A d \in Clients : d # c => /\ handler'[d] = handler[d]
                                  /\ net'[Down(d)] = net[Down(d)] /\ net'[Up(d)] = net[Up(d)]
  BY <1>2 DEF TypeInv
<1>4. handler'[c] = h
  BY DEF TypeInv
<1>5. net'[Down(c)].down = net[Down(c)].down /\ net'[Down(c)].server # "queued"
  BY <1>1, <1>2
<1> QED BY <1>1, <1>2, <1>3, <1>4, <1>5, HeadKeeps

\* doit takes method and URI from the first line, whatever is on its stack.
LEMMA ProxyRequestLineAnswers ==
    ASSUME TypeInv, Struct, AnswersKept, NEW c \in Clients, ProxyRequestLine(c), MAXLINE > 2
    PROVE  AnswersKept'
<1>1. /\ handler[c].pc = "request" /\ HeadLineReturned(c) /\ UNCHANGED <<networkVars, tiny>>
  BY DEF ProxyRequestLine, ProxyAt
<1>2. handler[c].pc \in Serving
  BY <1>1 DEF Serving
<1>3. PICK rp, in : rp = handler[c].rio /\ in = net[Down(c)].up
  OBVIOUS
<1>4. rp \in Buffers /\ in \in Seq(Tokens) /\ handler[c] \in HandlerRegs
  BY <1>3, HandlerKnown
<1>5. PICK words \in (IF rp.line = <<>> THEN {stack.words, <<Unset>>} ELSE {Words(rp.line)}) :
      \E method \in Scanned(words, 1, stack.method), uri \in Scanned(words, 2, stack.uri) :
      \E path \in ParsedPaths(uri) :
          handler' = [handler EXCEPT ![c] =
             [@ EXCEPT !.method = method, !.uri = uri, !.path = path, !.words = words,
                       !.hostname = ParsedHost(uri), !.rio = NextLine(handler[c].rio),
                       !.pc = IF method # "GET" THEN "close" ELSE "headers"]]
  BY <1>3 DEF ProxyRequestLine
<1>6. PICK method \in Scanned(words, 1, stack.method), uri \in Scanned(words, 2, stack.uri) :
      \E path \in ParsedPaths(uri) :
          handler' = [handler EXCEPT ![c] =
             [@ EXCEPT !.method = method, !.uri = uri, !.path = path, !.words = words,
                       !.hostname = ParsedHost(uri), !.rio = NextLine(handler[c].rio),
                       !.pc = IF method # "GET" THEN "close" ELSE "headers"]]
  BY <1>5
<1>7. PICK path \in ParsedPaths(uri) :
          handler' = [handler EXCEPT ![c] =
             [@ EXCEPT !.method = method, !.uri = uri, !.path = path, !.words = words,
                       !.hostname = ParsedHost(uri), !.rio = NextLine(handler[c].rio),
                       !.pc = IF method # "GET" THEN "close" ELSE "headers"]]
  BY <1>6
<1>8. PICK h : h = [handler[c] EXCEPT !.method = method, !.uri = uri, !.path = path, !.words = words,
                       !.hostname = ParsedHost(uri), !.rio = NextLine(handler[c].rio),
                       !.pc = IF method # "GET" THEN "close" ELSE "headers"]
  OBVIOUS
<1>9. handler' = [handler EXCEPT ![c] = h] /\ handler'[c] = h
  BY <1>7, <1>8 DEF TypeInv
<1>10. /\ h.pc = IF method # "GET" THEN "close" ELSE "headers"
       /\ h.path = path /\ h.hostname = ParsedHost(uri) /\ h.server = handler[c].server
  BY <1>4, <1>8 DEF HandlerRegs
<1>11. ASSUME Known(c), AnswerKept(c) PROVE HandlerAnswers(c)'
  <2>1. PICK more : more = <<>>
    OBVIOUS
  <2>2. more \in Seq(Tokens) /\ Rest(rp, in) \o more = Rest(rp, in)
    <3>1. more \in Seq(Tokens)
      BY <2>1
    <3>2. Rest(rp, in) \in Seq(Tokens)
      BY <1>4, RestTyped
    <3> QED BY <2>1, <3>1, <3>2, CatEmpty
  <2>3. PICK s : s = Rest(rp, in) \o more
    OBVIOUS
  <2>4. Asks(s, request[c])
    BY <1>1, <1>3, <1>11, <2>2, <2>3 DEF AnswerKept, HandlerAnswers
  <2>5. /\ Len(s) >= 2 /\ s[1] = Method(request[c]) /\ s[2] = Uri(request[c])
        /\ s[1] # NL /\ s[2] # NL
    BY <2>4 DEF Asks
  <2>6. Complete(rp.line) \/ (rp.unread = <<>> /\ in = <<>> /\ more = <<>>)
    BY <1>1, <1>3, <2>1 DEF HeadLineReturned, AtEof
  <2>7. rp.line # <<>>
    <3>1. ASSUME rp.line = <<>> PROVE FALSE
      <4>1. rp.unread = <<>> /\ in = <<>>
        BY <2>6, <3>1 DEF Complete
      <4>2. Rest(rp, in) = <<>> \o (<<>> \o <<>>)
        BY <3>1, <4>1 DEF Rest
      <4>3. <<>> \o (<<>> \o <<>>) = <<>>
        BY <2>1, <2>2, CatEmpty
      <4>4. s = <<>>
        BY <2>2, <2>3, <4>2, <4>3
      <4>5. Len(s) = 0
        BY <4>4
      <4> QED BY <2>5, <4>5
    <3> QED BY <3>1
  <2>8. /\ Words(rp.line) \in Seq(Tokens) /\ Len(Words(rp.line)) >= 2
        /\ Words(rp.line)[1] = s[1] /\ Words(rp.line)[2] = s[2]
    <3>1. /\ Len(Rest(rp, in) \o more) >= 2
          /\ (Rest(rp, in) \o more)[1] # NL /\ (Rest(rp, in) \o more)[2] # NL
      BY <2>3, <2>5
    <3>2. /\ Words(rp.line) \in Seq(Tokens) /\ Len(Words(rp.line)) >= 2
          /\ Words(rp.line)[1] = (Rest(rp, in) \o more)[1]
          /\ Words(rp.line)[2] = (Rest(rp, in) \o more)[2]
      BY <1>4, <2>2, <2>6, <2>7, <3>1, LineBegins
    <3> QED BY <2>3, <3>2
  <2>9. words = Words(rp.line)
    BY <1>5, <2>7
  <2>10. 1 <= Len(words) /\ 2 <= Len(words)
    BY <2>8, <2>9
  <2>11. method = Method(request[c]) /\ uri = Uri(request[c])
    BY <2>5, <2>8, <2>9, <2>10 DEF Scanned
  <2>12. to[c] = "proxy"
    BY <1>2, ThreadHas
  <2>13. path = uri
    BY <1>7, <1>11, <2>11, <2>12 DEF ParsedPaths, Known
  <2>14. ParsedHost(uri) = Origin => uri \notin ColonUris
    BY DEF ParsedHost, Origin, Unset
  <2>15. net[Down(c)].down = <<>> /\ handler[c].server = rio_readinitb
    BY <1>1, <1>11 DEF AnswerKept, HandlerAnswers
  <2>16. request' = request /\ net' = net
    BY <1>1 DEF networkVars
  <2> QED BY <1>9, <1>10, <2>11, <2>13, <2>14, <2>15, <2>16 DEF HandlerAnswers, Fetching
<1>12. h.pc \notin Fetching
  BY <1>10 DEF Fetching
<1> QED BY <1>1, <1>2, <1>9, <1>11, <1>12, ThreadOnly

LEMMA ProxyHeaderLineAnswers ==
    ASSUME TypeInv, Struct, AnswersKept, NEW c \in Clients, ProxyHeaderLine(c)
    PROVE  AnswersKept'
<1>1. /\ handler[c].pc = "headers" /\ UNCHANGED <<networkVars, tiny>>
      /\ handler[c].pc \in Serving
  BY DEF ProxyHeaderLine, ProxyAt, Serving
<1>2. PICK h : h = [handler[c] EXCEPT !.rio = NextLine(handler[c].rio),
                    !.host = IF handler[c].rio.line[1] \in HostHeaders
                             THEN handler[c].rio.line[1] ELSE handler[c].host]
  OBVIOUS
<1>3. handler' = [handler EXCEPT ![c] = h] /\ handler'[c] = h
  BY <1>2 DEF ProxyHeaderLine, TypeInv
<1>4. /\ h.pc = "headers" /\ h.path = handler[c].path /\ h.hostname = handler[c].hostname
      /\ h.server = handler[c].server
  BY <1>1, <1>2, HandlerKnown DEF HandlerRegs
<1>5. ASSUME Known(c), AnswerKept(c) PROVE HandlerAnswers(c)'
  <2>1. HandlerAnswers(c)
    BY <1>5 DEF AnswerKept
  <2>2. request' = request /\ net' = net
    BY <1>1 DEF networkVars
  <2> QED BY <1>1, <1>3, <1>4, <2>1, <2>2 DEF HandlerAnswers, Fetching
<1>6. h.pc \notin Fetching
  BY <1>4 DEF Fetching
<1> QED BY <1>1, <1>3, <1>5, <1>6, ThreadOnly

\* The request for the origin begins with GET and the path.
LEMMA BuildAnswers ==
    ASSUME TypeInv, Struct, AnswersKept, NEW c \in Clients, build_http_header(c), Asked
    PROVE  AnswersKept'
<1>1. /\ handler[c].pc = "headers" /\ UNCHANGED <<networkVars, tiny>>
      /\ handler[c].pc \in Serving
  BY DEF build_http_header, ProxyAt, Serving
<1>2. PICK host \in HostLines(handler[c]), other \in OtherHdr :
          handler' = [handler EXCEPT ![c] =
             [@ EXCEPT !.pc = "connect", !.host = host,
                       !.out = <<"GET", handler[c].path, NL, host, NL>> \o other \o <<NL>>]]
  BY DEF build_http_header
<1>3. PICK out : out = <<"GET", handler[c].path, NL, host, NL>> \o other \o <<NL>>
  OBVIOUS
<1>4. PICK h : h = [handler[c] EXCEPT !.pc = "connect", !.host = host, !.out = out]
  OBVIOUS
<1>5. handler' = [handler EXCEPT ![c] = h] /\ handler'[c] = h
  BY <1>2, <1>3, <1>4 DEF TypeInv
<1>6. /\ h.pc = "connect" /\ h.path = handler[c].path /\ h.hostname = handler[c].hostname
      /\ h.server = handler[c].server /\ h.out = out
  BY <1>1, <1>4, HandlerKnown DEF HandlerRegs
<1>7. out[1] = "GET" /\ out[2] = handler[c].path /\ Len(out) >= 2
  <2>1. handler[c].path \in Tokens /\ host \in Tokens /\ other \in Seq(Tokens) /\ NL \in Tokens
        /\ "GET" \in Tokens
    <3>1. host \in Tokens
      <4>1. handler[c].host \in Tokens /\ handler[c].hostname \in Tokens /\ stack.host \in Tokens
        BY HandlerKnown DEF TypeInv, StackRegs
      <4> QED BY <4>1 DEF HostLines
    <3> QED BY <3>1, HandlerKnown, HeadersAssumption, TokensAssumption
  <2>2. PICK g, p : g = "GET" /\ p = handler[c].path
    OBVIOUS
  <2>3. PICK x, y : x = <<g, p, NL, host, NL>> /\ y = <<NL>>
    OBVIOUS
  <2>4. x \in Seq(Tokens) /\ y \in Seq(Tokens) /\ Len(x) = 5 /\ x[1] = g /\ x[2] = p
    BY <2>1, <2>2, <2>3
  <2>5. PICK z : z = x \o other
    OBVIOUS
  <2>6. z \in Seq(Tokens) /\ Len(z) = Len(x) + Len(other) /\ \A j \in 1 .. Len(x) : z[j] = x[j]
    BY <2>1, <2>4, <2>5, CatTyped
  <2>7. Len(z) >= 5 /\ z[1] = g /\ z[2] = p
    BY <2>1, <2>4, <2>6
  <2>8. out = z \o y
    BY <1>3, <2>2, <2>3, <2>5
  <2>9. out \in Seq(Tokens) /\ Len(out) = Len(z) + Len(y) /\ \A j \in 1 .. Len(z) : out[j] = z[j]
    BY <2>4, <2>6, <2>8, CatTyped
  <2>10. Len(out) >= 2 /\ out[1] = g /\ out[2] = p
    BY <2>4, <2>6, <2>7, <2>9
  <2> QED BY <2>2, <2>10
<1>8. ASSUME Known(c), AnswerKept(c) PROVE HandlerAnswers(c)'
  <2>1. HandlerAnswers(c)
    BY <1>8 DEF AnswerKept
  <2>2. request' = request /\ net' = net
    BY <1>1 DEF networkVars
  <2>3. Method(request[c]) = "GET" /\ handler[c].path = Uri(request[c])
    BY <1>1, <2>1 DEF HandlerAnswers
  <2>4. Method(request[c]) # NL /\ Uri(request[c]) # NL
    <3>1. PICK r \in Seq(Tokens) : r = request[c]
      BY DEF TypeInv
    <3>2. Clear(r)
      BY <1>8, <3>1 DEF Known
    <3>3. r[1] = Method(r) /\ r[2] = Uri(r) /\ r[1] # NL /\ r[2] # NL
      BY <3>1, <3>2, ClearBegins
    <3> QED BY <3>1, <3>3
  <2>5. Asks(out, request[c])
    BY <1>7, <2>3, <2>4 DEF Asks
  <2> QED BY <1>1, <1>5, <1>6, <2>1, <2>2, <2>5 DEF HandlerAnswers, Fetching
<1>9. h.pc \notin Fetching
  BY <1>6 DEF Fetching
<1> QED BY <1>1, <1>5, <1>8, <1>9, ThreadOnly

\* A new connection to the origin carries nothing yet; the request is still to be sent.
LEMMA ConnectServerAnswers ==
    ASSUME TypeInv, Struct, AnswersKept, TypeInv', NEW c \in Clients, connect_endServer(c),
           Asked, SiteReplies
    PROVE  AnswersKept'
<1>1. handler[c].pc = "connect" /\ handler[c].pc \in Serving
  BY DEF connect_endServer, ProxyAt, Serving
<1>2. CASE ProxyDies
  BY <1>2, ProxyDiesAnswers
<1>3. CASE /\ handler[c].hostname = Origin /\ alive["tiny"]
           /\ open_clientfd(c) /\ Goto(c, "send")
           /\ UNCHANGED <<request, to, alive, tiny, version, stack>>
  <2>1. /\ to[c] = "proxy" /\ net[Down(c)].server = "open" /\ HandlerOK(c)
        /\ Down(c) \in Connections /\ Up(c) \in Connections /\ Down(c) # Up(c)
    BY <1>1, ThreadHas
  <2>2. /\ net' = [net EXCEPT ![Up(c)] = Opened(<<>>, FALSE)]
        /\ handler' = [handler EXCEPT ![c].pc = "send"]
        /\ UNCHANGED <<request, to, tiny>>
    BY <1>3 DEF open_clientfd, Goto
  <2>3. net'[Up(c)] = Opened(<<>>, FALSE) /\ net'[Down(c)] = net[Down(c)]
    BY <2>1, <2>2 DEF TypeInv
  <2>4. /\ net'[Up(c)].up = <<>> /\ net'[Up(c)].down = <<>> /\ net'[Up(c)].server = "queued"
    <3>1. PICK n : n = Opened(<<>>, FALSE)
      OBVIOUS
    <3>2. n.up = <<>> /\ n.down = <<>> /\ n.server = "queued"
      <4>1. <<>> \in Seq(Tokens) /\ FALSE \in BOOLEAN
        OBVIOUS
      <4> QED BY <3>1, <4>1, OpenedTyped
    <3> QED BY <2>3, <3>1, <3>2
  <2>5. handler'[c] = [handler[c] EXCEPT !.pc = "send"]
    BY <2>2 DEF TypeInv
  <2>6. /\ handler'[c].pc = "send" /\ handler'[c].out = handler[c].out
        /\ handler'[c].server = handler[c].server /\ handler[c].out \in Seq(Tokens)
    BY <2>5, HandlerKnown DEF HandlerRegs
  <2>7. \A d \in Clients : d # c => /\ handler'[d] = handler[d]
                                    /\ net'[Down(d)] = net[Down(d)] /\ net'[Up(d)] = net[Up(d)]
    BY <2>2, Ends DEF TypeInv
  <2>8. net[Up(c)] = Closed
    BY <1>1, <2>1 DEF HandlerOK
  <2>9. ASSUME Known(c) PROVE AnswerKept(c)'
    <3>1. AnswerKept(c) /\ HandlerAnswers(c)
      BY <2>9 DEF AnswersKept, AnswerKept
    <3>2. /\ net[Down(c)].down = <<>> /\ handler[c].server = rio_readinitb
          /\ handler[c].hostname = Origin => Uri(request[c]) \notin ColonUris
          /\ Asks(handler[c].out, request[c]) /\ Method(request[c]) = "GET"
      BY <1>1, <3>1 DEF HandlerAnswers
    <3>3. Answer(c) \in Seq(Tokens) /\ Answer(c)' = Answer(c)
      BY <2>2, <2>9, AnswerIs, AnswerSame
    <3>4. HandlerAnswers(c)'
      BY <1>3, <2>2, <2>6, <3>2 DEF HandlerAnswers, Fetching
    <3>5. Left(c)' = handler[c].out /\ Due(c)' = <<>>
      BY <2>6 DEF Left, Due
    <3>6. Sent(c)' = <<>>
      <4>1. Rest(rio_readinitb, <<>>) = <<>> \o (<<>> \o <<>>)
        BY DEF Rest, rio_readinitb
      <4>2. <<>> \in Seq(Tokens)
        OBVIOUS
      <4>3. <<>> \o <<>> = <<>>
        BY <4>2, CatEmpty
      <4>4. Sent(c)' = <<>> \o (<<>> \o Rest(rio_readinitb, <<>>))
        BY <2>1, <2>2, <2>3, <2>4, <2>6, <3>2, <3>5 DEF Sent
      <4> QED BY <4>1, <4>3, <4>4
    <3>7. Prefix(Sent(c)', Answer(c)') /\ Prefix(net'[Down(c)].down, Answer(c)')
      BY <2>3, <3>2, <3>3, <3>6, PrefixEmpty
    <3>8. net'[Up(c)].up \o Left(c)' = handler[c].out
      BY <2>4, <2>6, <3>5, CatEmpty
    <3>9. \A k \in Connections : tiny'.pc # "dead" /\ tiny'.conn = k => ~Serves(c, k)'
      <4>1. tiny.pc # "dead" => tiny.conn # Up(c)
        <5>1. Up(c) # NoConnection
          BY <2>1, Ends
        <5> QED BY <2>8, <5>1 DEF Struct, TinyShape, Closed
      <4> QED BY <2>1, <2>2, <4>1 DEF Serves
    <3> QED BY <2>1, <2>2, <2>3, <3>2, <3>4, <3>6, <3>7, <3>8, <3>9 DEF AnswerKept
  <2> QED BY <2>2, <2>7, <2>9, ProxyKeeps
<1> QED BY <1>2, <1>3 DEF connect_endServer

\* What the thread has written to the origin is what it need not write any more.
LEMMA ProxySendAnswers ==
    ASSUME TypeInv, Struct, AnswersKept, TypeInv', NEW c \in Clients, ProxySend(c)
    PROVE  AnswersKept'
<1>1. /\ handler[c].pc = "send" /\ handler[c].pc \in Serving /\ handler[c].pc \in Fetching
      /\ UNCHANGED <<request, to, tiny>>
  BY DEF ProxySend, ProxyAt, Serving, Fetching
<1>2. PICK w \in rio_writen(handler[c].out) :
          /\ net' = [net EXCEPT ![Up(c)].up = @ \o w[1]]
          /\ handler' = [handler EXCEPT ![c] =
                [@ EXCEPT !.out = w[2], !.pc = IF w[2] = <<>> THEN "relay" ELSE "send"]]
  BY DEF ProxySend
<1>3. PICK u, v, p : u = w[1] /\ v = w[2] /\ p = IF v = <<>> THEN "relay" ELSE "send"
  OBVIOUS
<1>4. /\ to[c] = "proxy" /\ net[Down(c)].server = "open"
      /\ Down(c) \in Connections /\ Up(c) \in Connections /\ Down(c) # Up(c)
  BY <1>1, ThreadHas
<1>5. u \in Seq(Tokens) /\ v \in Seq(Tokens) /\ u \o v = handler[c].out
  <2>1. handler[c].out \in Written
    BY <1>1, HandlerKnown DEF TypeInv, Written
  <2> QED BY <1>2, <1>3, <2>1, WriteKeeps
<1>6. /\ net'[Up(c)].up = net[Up(c)].up \o u /\ net'[Up(c)].down = net[Up(c)].down
      /\ net'[Up(c)].server = net[Up(c)].server /\ net'[Down(c)] = net[Down(c)]
  BY <1>2, <1>3, <1>4, HandlerKnown DEF TypeInv, Conn
<1>7. handler'[c] = [handler[c] EXCEPT !.out = v, !.pc = p]
  BY <1>2, <1>3 DEF TypeInv
<1>8. handler'[c].pc = p /\ handler'[c].out = v /\ handler'[c].server = handler[c].server
  BY <1>7, HandlerKnown DEF HandlerRegs
<1>9. \A d \in Clients : d # c => /\ handler'[d] = handler[d]
                                  /\ net'[Down(d)] = net[Down(d)] /\ net'[Up(d)] = net[Up(d)]
  BY <1>2, Ends DEF TypeInv
<1>10. Left(c) = u \o v /\ Left(c)' = v
  BY <1>1, <1>3, <1>5, <1>8 DEF Left
<1>11. Sent(c)' = Sent(c)
  <2>1. Due(c)' = <<>> /\ Due(c) = <<>>
    BY <1>1, <1>3, <1>8 DEF Due
  <2> QED BY <1>1, <1>6, <1>8, <2>1 DEF Sent
<1>12. PICK in : in = net[Up(c)].up
  OBVIOUS
<1>13. in \in Seq(Tokens)
  BY <1>12, HandlerKnown
<1>14. (in \o u) \o v = in \o (u \o v)
  <2>1. in \in Seq(Tokens) /\ u \in Seq(Tokens) /\ v \in Seq(Tokens)
    BY <1>5, <1>13
  <2> QED BY ONLY <2>1, CatAssoc, SMTT(60)
<1>15. net'[Up(c)].up \o Left(c)' = net[Up(c)].up \o Left(c)
  BY <1>6, <1>10, <1>12, <1>14
<1>16. ASSUME NEW rp \in Buffers
       PROVE  Rest(rp, net'[Up(c)].up) \o Left(c)' = Rest(rp, net[Up(c)].up) \o Left(c)
  <2>1. PICK x : x = Rest(rp, in)
    OBVIOUS
  <2>2. x \in Seq(Tokens) /\ Rest(rp, in \o u) = x \o u
    BY <1>5, <1>13, <2>1, RestTyped, RestMore
  <2>3. (x \o u) \o v = x \o (u \o v)
    <3>1. x \in Seq(Tokens) /\ u \in Seq(Tokens) /\ v \in Seq(Tokens)
      BY <1>5, <2>2
    <3> QED BY ONLY <3>1, CatAssoc, SMTT(60)
  <2> QED BY <1>6, <1>10, <1>12, <2>1, <2>2, <2>3
<1>17. handler'[c].pc \in Fetching /\ net'[Down(c)].server # "queued"
  BY <1>3, <1>4, <1>6, <1>8 DEF Fetching
<1> QED BY <1>1, <1>4, <1>6, <1>9, <1>11, <1>15, <1>16, <1>17, FetchKeeps

\* rio_readlineb on the origin's connection loses nothing.
LEMMA ProxyRelayReadAnswers ==
    ASSUME TypeInv, Struct, AnswersKept, TypeInv', NEW c \in Clients, ProxyRelayRead(c)
    PROVE  AnswersKept'
<1>1. /\ handler[c].pc = "relay" /\ handler[c].pc \in Serving /\ handler[c].pc \in Fetching
      /\ UNCHANGED <<request, to, tiny>>
  BY DEF ProxyRelayRead, ProxyAt, Serving, Fetching
<1>2. PICK r \in rio_readlineb(handler[c].server, net[Up(c)].down) :
          /\ handler' = [handler EXCEPT ![c].server = r.rio]
          /\ net' = [net EXCEPT ![Up(c)].down = r.in]
  BY DEF ProxyRelayRead
<1>4. /\ to[c] = "proxy" /\ net[Down(c)].server = "open"
      /\ Down(c) \in Connections /\ Up(c) \in Connections /\ Down(c) # Up(c)
  BY <1>1, ThreadHas
<1>5. Rest(r.rio, r.in) = Rest(handler[c].server, net[Up(c)].down)
  BY HandlerKnown, ReadLineKeeps
<1>6. /\ net'[Up(c)].up = net[Up(c)].up /\ net'[Up(c)].down = r.in
      /\ net'[Up(c)].server = net[Up(c)].server /\ net'[Down(c)] = net[Down(c)]
  BY <1>2, <1>4, HandlerKnown DEF TypeInv, Conn
<1>7. handler'[c] = [handler[c] EXCEPT !.server = r.rio]
  BY <1>2 DEF TypeInv
<1>8. handler'[c].pc = "relay" /\ handler'[c].out = handler[c].out /\ handler'[c].server = r.rio
  BY <1>1, <1>7, HandlerKnown DEF HandlerRegs
<1>9. \A d \in Clients : d # c => /\ handler'[d] = handler[d]
                                  /\ net'[Down(d)] = net[Down(d)] /\ net'[Up(d)] = net[Up(d)]
  BY <1>2, Ends DEF TypeInv
<1>10. Left(c) = <<>> /\ Left(c)' = <<>> /\ Due(c) = <<>> /\ Due(c)' = <<>>
  BY <1>1, <1>8 DEF Left, Due
<1>11. Sent(c)' = Sent(c)
  BY <1>1, <1>5, <1>6, <1>8, <1>10 DEF Sent
<1>17. handler'[c].pc \in Fetching /\ net'[Down(c)].server # "queued"
  BY <1>4, <1>6, <1>8 DEF Fetching
<1> QED BY <1>1, <1>4, <1>6, <1>9, <1>10, <1>11, <1>17, FetchKeeps

\* A line of the answer waits to be written, or the origin has no more.
LEMMA ProxyRelayLineAnswers ==
    ASSUME TypeInv, Struct, AnswersKept, TypeInv', NEW c \in Clients, ProxyRelayLine(c)
    PROVE  AnswersKept'
<1>1. /\ handler[c].pc = "relay" /\ handler[c].pc \in Serving /\ handler[c].pc \in Fetching
      /\ UNCHANGED <<networkVars, tiny>> /\ UNCHANGED <<request, to, net, tiny>>
  BY DEF ProxyRelayLine, ProxyAt, Serving, Fetching, networkVars
<1>2. PICK rp, in : rp = handler[c].server /\ in = net[Up(c)].down
  OBVIOUS
<1>3. rp \in Buffers /\ in \in Seq(Tokens)
  BY <1>2, HandlerKnown
<1>4. PICK h : h = [handler[c] EXCEPT !.server = NextLine(rp), !.out = rp.line,
                    !.words = IF rp.line = <<>> THEN handler[c].words ELSE Words(rp.line),
                    !.pc = IF rp.line = <<>> THEN "closeServer" ELSE "write"]
  OBVIOUS
<1>5. handler' = [handler EXCEPT ![c] = h] /\ handler'[c] = h
  BY <1>2, <1>4 DEF ProxyRelayLine, TypeInv
<1>6. /\ h.pc = (IF rp.line = <<>> THEN "closeServer" ELSE "write")
      /\ h.out = rp.line /\ h.server = NextLine(rp)
  BY <1>4, HandlerKnown DEF HandlerRegs
<1>7. CASE rp.line = <<>>
  <2>1. h.pc \notin Fetching
    BY <1>6, <1>7 DEF Fetching
  <2>2. ASSUME Known(c), AnswerKept(c) PROVE HandlerAnswers(c)'
    <3>1. HandlerAnswers(c)
      BY <2>2 DEF AnswerKept
    <3> QED BY <1>1, <1>5, <1>6, <1>7, <3>1 DEF HandlerAnswers, Fetching
  <2> QED BY <1>1, <1>5, <2>1, <2>2, ThreadOnly
<1>8. CASE rp.line # <<>>
  <2>1. /\ to[c] = "proxy" /\ net[Down(c)].server = "open"
        /\ Down(c) \in Connections /\ Up(c) \in Connections /\ Down(c) # Up(c)
    BY <1>1, ThreadHas
  <2>2. \A d \in Clients : d # c => /\ handler'[d] = handler[d]
                                    /\ net'[Down(d)] = net[Down(d)] /\ net'[Up(d)] = net[Up(d)]
    BY <1>1, <1>5 DEF TypeInv
  <2>3. /\ Left(c) = <<>> /\ Left(c)' = <<>> /\ Due(c) = <<>> /\ Due(c)' = rp.line
        /\ handler'[c].pc \in Fetching
    BY <1>1, <1>5, <1>6, <1>8 DEF Left, Due, Fetching
  <2>4. <<>> \o Rest(rp, in) = rp.line \o Rest(NextLine(rp), in)
    <3>1. Rest(rp, in) \in Seq(Tokens) /\ Rest(rp, in) = rp.line \o (rp.unread \o in)
          /\ Rest(NextLine(rp), in) = rp.unread \o in
      BY <1>3, RestTyped
    <3>2. <<>> \o Rest(rp, in) = Rest(rp, in)
      BY <3>1, CatEmpty
    <3> QED BY <3>1, <3>2
  <2>5. Sent(c)' = Sent(c)
    <3>1. Sent(c) = net[Down(c)].down \o (<<>> \o Rest(rp, in))
      BY <1>2, <2>1, <2>3 DEF Sent
    <3>2. Sent(c)' = net[Down(c)].down \o (rp.line \o Rest(NextLine(rp), in))
      BY <1>1, <1>2, <1>5, <1>6, <2>1, <2>3 DEF Sent
    <3> QED BY <2>4, <3>1, <3>2
  <2>6. net'[Down(c)].server # "queued" /\ net'[Up(c)].server = net[Up(c)].server
        /\ net'[Up(c)].up = net[Up(c)].up
    BY <1>1, <2>1
  <2> QED BY <1>1, <2>1, <2>2, <2>3, <2>5, <2>6, FetchKeeps
<1> QED BY <1>7, <1>8

\* What the thread has written to its client is what it need not write any more.
LEMMA ProxyWriteAnswers ==
    ASSUME TypeInv, Struct, AnswersKept, TypeInv', NEW c \in Clients, ProxyWrite(c)
    PROVE  AnswersKept'
<1>1. /\ handler[c].pc = "write" /\ handler[c].pc \in Serving /\ handler[c].pc \in Fetching
      /\ UNCHANGED <<request, to, tiny>>
  BY DEF ProxyWrite, ProxyAt, Serving, Fetching
<1>2. PICK w \in rio_writen(handler[c].out) :
          /\ net' = [net EXCEPT ![Down(c)].down = @ \o w[1]]
          /\ handler' = [handler EXCEPT ![c] =
                [@ EXCEPT !.out = w[2], !.pc = IF w[2] = <<>> THEN "relay" ELSE "write"]]
  BY DEF ProxyWrite
<1>3. PICK u, v, p : u = w[1] /\ v = w[2] /\ p = IF v = <<>> THEN "relay" ELSE "write"
  OBVIOUS
<1>4. /\ to[c] = "proxy" /\ net[Down(c)].server = "open"
      /\ Down(c) \in Connections /\ Up(c) \in Connections /\ Down(c) # Up(c)
  BY <1>1, ThreadHas
<1>5. u \in Seq(Tokens) /\ v \in Seq(Tokens) /\ u \o v = handler[c].out
  <2>1. handler[c].out \in Written
    BY <1>1, HandlerKnown DEF TypeInv, Written
  <2> QED BY <1>2, <1>3, <2>1, WriteKeeps
<1>6. /\ net'[Down(c)].down = net[Down(c)].down \o u
      /\ net'[Down(c)].server = net[Down(c)].server /\ net'[Up(c)] = net[Up(c)]
  BY <1>2, <1>3, <1>4, HandlerKnown DEF TypeInv, Conn
<1>7. handler'[c] = [handler[c] EXCEPT !.out = v, !.pc = p]
  BY <1>2, <1>3 DEF TypeInv
<1>8. handler'[c].pc = p /\ handler'[c].out = v /\ handler'[c].server = handler[c].server
  BY <1>7, HandlerKnown DEF HandlerRegs
<1>9. \A d \in Clients : d # c => /\ handler'[d] = handler[d]
                                  /\ net'[Down(d)] = net[Down(d)] /\ net'[Up(d)] = net[Up(d)]
  BY <1>2, Ends DEF TypeInv
<1>10. /\ Left(c) = <<>> /\ Left(c)' = <<>> /\ Due(c) = u \o v
       /\ Due(c)' = v
  BY <1>1, <1>3, <1>5, <1>8 DEF Left, Due
<1>11. PICK a, x : a = net[Down(c)].down /\ x = Rest(handler[c].server, net[Up(c)].down)
  OBVIOUS
<1>12. a \in Seq(Tokens) /\ x \in Seq(Tokens)
  BY <1>11, HandlerKnown, StreamsTyped
<1>13. Sent(c) = a \o ((u \o v) \o x) /\ Sent(c)' = (a \o u) \o (v \o x)
  BY <1>1, <1>4, <1>6, <1>8, <1>10, <1>11 DEF Sent
<1>14. (u \o v) \o x = u \o (v \o x)
  <2>1. u \in Seq(Tokens) /\ v \in Seq(Tokens) /\ x \in Seq(Tokens)
    BY <1>5, <1>12
  <2> QED BY ONLY <2>1, CatAssoc, SMTT(60)
<1>15. PICK y : y = v \o x
  OBVIOUS
<1>16. y \in Seq(Tokens)
  BY <1>5, <1>12, <1>15, CatTyped
<1>17. (a \o u) \o y = a \o (u \o y)
  <2>1. a \in Seq(Tokens) /\ u \in Seq(Tokens) /\ y \in Seq(Tokens)
    BY <1>5, <1>12, <1>16
  <2> QED BY ONLY <2>1, CatAssoc, SMTT(60)
<1>18. Sent(c)' = Sent(c)
  BY <1>13, <1>14, <1>15, <1>17
<1>19. handler'[c].pc \in Fetching /\ net'[Down(c)].server # "queued"
  BY <1>3, <1>4, <1>6, <1>8 DEF Fetching
<1> QED BY <1>1, <1>4, <1>6, <1>9, <1>10, <1>18, <1>19, FetchKeeps

\* Close(end_serverfd), and Close(connfd)
LEMMA ProxyCloseAnswers ==
    ASSUME TypeInv, Struct, AnswersKept, NEW c \in Clients, ProxyCloseServer(c) \/ ProxyClose(c)
    PROVE  AnswersKept'
<1>1. /\ handler[c].pc \in {"closeServer", "close"} /\ handler[c].pc \in Serving
      /\ UNCHANGED <<request, to, tiny>>
  BY DEF ProxyCloseServer, ProxyClose, ProxyAt, Serving
<1>2. /\ to[c] = "proxy" /\ net[Down(c)].server = "open"
      /\ Down(c) \in Connections /\ Up(c) \in Connections /\ Down(c) # Up(c)
      /\ net[Down(c)] \in Conn
  BY <1>1, ThreadHas, HandlerKnown
<1>3. PICK h : /\ handler' = [handler EXCEPT ![c] = h] /\ h.pc \in {"close", "done"}
               /\ \/ net' = [net EXCEPT ![Up(c)].client = "gone"]
                  \/ net' = [net EXCEPT ![Down(c)] = Shut(@)]
  <2>1. CASE ProxyCloseServer(c)
    <3>1. handler' = [handler EXCEPT ![c] = [handler[c] EXCEPT !.pc = "close"]]
      BY <2>1 DEF ProxyCloseServer, Goto, TypeInv
    <3>2. [handler[c] EXCEPT !.pc = "close"].pc = "close"
      BY HandlerKnown DEF HandlerRegs
    <3> QED BY <2>1, <3>1, <3>2 DEF ProxyCloseServer
  <2>2. CASE ProxyClose(c)
    <3>1. [Idle EXCEPT !.pc = "done"].pc = "done"
      BY DEF Idle
    <3> QED BY <2>2, <3>1 DEF ProxyClose
  <2> QED BY <2>1, <2>2
<1>4. handler'[c] = h
  BY <1>3 DEF TypeInv
<1>5. net'[Down(c)].down = net[Down(c)].down /\ net'[Down(c)].server # "queued"
  <2>1. CASE net' = [net EXCEPT ![Up(c)].client = "gone"]
    BY <1>2, <2>1 DEF TypeInv
  <2>2. CASE net' = [net EXCEPT ![Down(c)] = Shut(@)]
    BY <1>2, <2>2, ShutTyped DEF TypeInv
  <2> QED BY <1>3, <2>1, <2>2
<1>6. \A d \in Clients : d # c => /\ handler'[d] = handler[d]
                                  /\ net'[Down(d)] = net[Down(d)] /\ net'[Up(d)] = net[Up(d)]
  <2>1. CASE net' = [net EXCEPT ![Up(c)].client = "gone"]
    BY <1>2, <1>3, <2>1, Ends DEF TypeInv
  <2>2. CASE net' = [net EXCEPT ![Down(c)] = Shut(@)]
    BY <1>2, <1>3, <2>2, Ends DEF TypeInv
  <2> QED BY <1>3, <2>1, <2>2
<1>7. HandlerAnswers(c)'
  <2>1. handler'[c].pc \in {"close", "done"}
    BY <1>3, <1>4
  <2> QED BY <2>1 DEF HandlerAnswers, Fetching
<1>8. handler'[c].pc \notin Fetching
  BY <1>3, <1>4 DEF Fetching
<1> QED BY <1>1, <1>2, <1>5, <1>6, <1>7, <1>8, HeadKeeps

LEMMA ProxyAnswersStep ==
    ASSUME TypeInv, Struct, AnswersKept, TypeInv', NEW c \in Clients, ProxyNext(c),
           Asked, SiteReplies, MAXLINE > 2
    PROVE  AnswersKept'
<1>1. CASE ProxyAccept(c)
  BY <1>1, ProxyAcceptAnswers
<1>2. CASE ProxyRead(c)
  BY <1>2, ProxyReadAnswers
<1>3. CASE ProxyReadFails(c) \/ OriginFails(c) \/ ProxyWriteFails(c)
  <2>1. ProxyDies
    BY <1>3 DEF ProxyReadFails, OriginFails, ProxyWriteFails
  <2> QED BY <2>1, ProxyDiesAnswers
<1>4. CASE ProxyRequestLine(c)
  BY <1>4, ProxyRequestLineAnswers
<1>5. CASE ProxyHeaderLine(c)
  BY <1>5, ProxyHeaderLineAnswers
<1>6. CASE build_http_header(c)
  BY <1>6, BuildAnswers
<1>7. CASE connect_endServer(c)
  BY <1>7, ConnectServerAnswers
<1>8. CASE ProxySend(c)
  BY <1>8, ProxySendAnswers
<1>9. CASE ProxyRelayRead(c)
  BY <1>9, ProxyRelayReadAnswers
<1>10. CASE ProxyRelayLine(c)
  BY <1>10, ProxyRelayLineAnswers
<1>11. CASE ProxyWrite(c)
  BY <1>11, ProxyWriteAnswers
<1>12. CASE ProxyCloseServer(c) \/ ProxyClose(c)
  BY <1>12, ProxyCloseAnswers
<1> QED
  BY <1>1, <1>2, <1>3, <1>4, <1>5, <1>6, <1>7, <1>8, <1>9, <1>10, <1>11, <1>12 DEF ProxyNext

\* The clients: a connection that is opened carries the request and no answer, and what
\* a client that leaves was sent stays as it is.
LEMMA ClientAnswersStep ==
    ASSUME TypeInv, Struct, AnswersKept, NEW c \in Clients, ConnectStep(c) \/ LeaveStep(c),
           Asked, SiteReplies
    PROVE  AnswersKept'
<1>1. /\ UNCHANGED <<request, to, tiny, handler>>
      /\ \A j \in Connections : j # Down(c) => net'[j] = net[j]
      /\ Down(c) \in Connections /\ Up(c) \in Connections /\ net[Down(c)] \in Conn
      /\ request[c] \in Seq(Tokens)
  <2>1. \E n : net' = [net EXCEPT ![Down(c)] = n]
    <3>1. CASE Connect(c)
      BY <3>1 DEF Connect, Down
    <3>2. CASE Leave(c)
      BY <3>2 DEF Leave, Down
    <3> QED BY <3>1, <3>2 DEF ConnectStep, LeaveStep
  <2>2. \A j \in Connections : j # Down(c) => net'[j] = net[j]
    BY <2>1 DEF TypeInv
  <2>3. UNCHANGED <<request, to, tiny, handler>>
    BY DEF ConnectStep, LeaveStep, Connect, Leave
  <2> QED BY <2>2, <2>3, Ends, HandlerKnown DEF TypeInv
<1>2. \A d \in Clients : /\ net'[Up(d)] = net[Up(d)]
                         /\ d # c => net'[Down(d)] = net[Down(d)]
  BY <1>1, Ends
<1> SUFFICES ASSUME NEW d \in Clients, Known(d)' PROVE AnswerKept(d)'
  BY DEF AnswersKept
<1>3. Known(d) /\ AnswerKept(d)
  <2>1. Known(d)
    BY <1>1, AnswerSame
  <2> QED BY <2>1 DEF AnswersKept
<1>4. CASE d # c
  BY <1>1, <1>2, <1>3, <1>4, OthersKept
<1>5. CASE d = c /\ LeaveStep(c)
  <2>1. net'[Down(c)] = [net[Down(c)] EXCEPT !.client = "gone"]
    BY <1>1, <1>5 DEF LeaveStep, Leave, Down, TypeInv
  <2>2. /\ net'[Down(c)].up = net[Down(c)].up /\ net'[Down(c)].down = net[Down(c)].down
        /\ net'[Down(c)].server = net[Down(c)].server
    BY <1>1, <2>1 DEF Conn
  <2> QED BY <1>1, <1>2, <1>3, <1>5, <2>2, OthersKept
<1>6. CASE d = c /\ ConnectStep(c)
  <2>1. net[Down(c)] = Closed /\ net'[Down(c)] = Opened(request[c], ~Whole(request[c]))
    BY <1>1, <1>6 DEF ConnectStep, Connect, Down, TypeInv
  <2>2. /\ net'[Down(c)].up = request[c] /\ net'[Down(c)].down = <<>>
        /\ net'[Down(c)].server = "queued"
    <3>1. PICK n : n = Opened(request[c], ~Whole(request[c]))
      OBVIOUS
    <3>2. n.up = request[c] /\ n.down = <<>> /\ n.server = "queued"
      <4>1. request[c] \in Seq(Tokens) /\ (~Whole(request[c])) \in BOOLEAN
        BY <1>1 DEF Whole
      <4> QED BY <3>1, <4>1, OpenedTyped
    <3> QED BY <2>1, <3>1, <3>2
  <2>3. HandlerOK(c) /\ net[Down(c)].server = "none" /\ net[Down(c)].down = <<>>
    BY <2>1 DEF Struct, HandlerShape, Closed
  <2>4. handler[c].pc \notin Serving
    BY <2>3 DEF HandlerOK
  <2>5. handler[c].pc \notin Fetching /\ HandlerAnswers(c)'
    BY <1>1, <2>4 DEF Serving, Fetching, HandlerAnswers
  <2>6. Answer(c)' \in Seq(Tokens)
    <3>1. Answer(c) \in Seq(Tokens)
      BY <1>3, <1>6, AnswerIs
    <3> QED BY <1>1, <3>1, AnswerSame
  <2>7. Prefix(net'[Down(c)].down, Answer(c)')
    BY <2>2, <2>6, PrefixEmpty
  <2>8. Asks(request[c], request[c])
    <3>1. Clear(request[c])
      BY <1>3, <1>6 DEF Known
    <3> QED BY <1>1, <3>1, ClearBegins DEF Asks
  <2>9. ASSUME NEW k \in Connections, tiny'.pc # "dead", tiny'.conn = k PROVE ~Serves(c, k)'
    <3>1. tiny.conn # Down(c)
      <4>1. Down(c) # NoConnection
        BY <1>1, Ends
      <4>2. tiny.pc # "dead" /\ (tiny.conn = Down(c) => net[Down(c)].server = "open")
        BY <1>1, <2>9, <4>1 DEF Struct, TinyShape
      <4> QED BY <2>3, <4>2
    <3> QED BY <1>1, <2>5, <2>9, <3>1 DEF Serves
  <2>10. AnswerKept(c)'
    BY <1>1, <2>2, <2>5, <2>7, <2>8, <2>9 DEF AnswerKept
  <2> QED BY <1>6, <2>10
<1> QED BY <1>4, <1>5, <1>6

LEMMA AnswersStep ==
    ASSUME TypeInv, Struct, AnswersKept, TypeInv', [Next]_webVars, Asked, SiteReplies, MAXLINE > 2
    PROVE  AnswersKept'
<1>1. CASE UNCHANGED webVars
  <2>1. UNCHANGED <<request, to, net, tiny, handler>>
    BY <1>1 DEF webVars, networkVars
  <2> SUFFICES ASSUME NEW c \in Clients, Known(c)' PROVE AnswerKept(c)'
    BY DEF AnswersKept
  <2>2. Known(c) /\ AnswerKept(c)
    BY <2>1, AnswerSame DEF AnswersKept
  <2> QED BY <2>1, <2>2, OthersKept
<1>2. CASE Next
  BY <1>2, ClientAnswersStep, TinyAnswersStep, ProxyAnswersStep DEF Next, ServerStep, TinyStep
<1> QED BY <1>1, <1>2

LEMMA AnswersInit == Asked /\ SiteReplies /\ Init => AnswersKept
<1> SUFFICES ASSUME Asked, SiteReplies, Init, NEW c \in Clients, Known(c) PROVE AnswerKept(c)
  BY DEF AnswersKept
<1>1. TypeInv
  BY TypeInit
<1>2. /\ Down(c) \in Connections /\ net[Down(c)] = Closed
      /\ handler[c] = Idle /\ tiny.conn = NoConnection
  BY Ends DEF Init, NetworkInit, ProxyInit, TinyInit
<1>3. net[Down(c)].down = <<>> /\ net[Down(c)].server = "none" /\ handler[c].pc = "idle"
  BY <1>2 DEF Closed, Idle
<1>4. Answer(c) \in Seq(Tokens)
  BY <1>1, AnswerIs
<1>5. Prefix(net[Down(c)].down, Answer(c))
  BY <1>3, <1>4, PrefixEmpty
<1>6. HandlerAnswers(c) /\ handler[c].pc \notin Fetching
  BY <1>3 DEF HandlerAnswers, Fetching
<1>7. \A k \in Connections : tiny.conn # k
  BY <1>2, Ends
<1> QED BY <1>3, <1>5, <1>6, <1>7 DEF AnswerKept

\* What a client was sent is the beginning of the answer to its own request, through the proxy
\* as well as without it, whoever else is served in between and however reads and writes
\* were cut, for any number of clients and requests and any sizes of the buffers with
\* room for a method and a URI (doit of tiny.c and proxy_Part1.c, rio_readlineb,
\* rio_writen).  SiteReplies only names the answers that the site owes.
THEOREM WebAnswers == MAXLINE > 2 /\ SiteReplies => (Spec => []AnswersMatch)
<1> SUFFICES ASSUME MAXLINE > 2, SiteReplies PROVE Spec => []AnswersMatch
  OBVIOUS
<1>1. Init => TypeInv /\ Struct /\ Asked /\ AnswersKept
  BY TypeInit, StructInit, AnswersInit DEF Init, NetworkInit, Asked
<1>2. TypeInv /\ Struct /\ Asked /\ AnswersKept /\ [Next]_webVars
        => (TypeInv /\ Struct /\ Asked /\ AnswersKept)'
  <2> SUFFICES ASSUME TypeInv, Struct, Asked, AnswersKept, [Next]_webVars
               PROVE  (TypeInv /\ Struct /\ Asked /\ AnswersKept)'
    OBVIOUS
  <2>1. TypeInv' /\ Struct'
    BY TypeStep, StructStep
  <2>2. Asked'
    BY RequestKept DEF Asked
  <2>3. AnswersKept'
    BY <2>1, AnswersStep
  <2> QED BY <2>1, <2>2, <2>3
<1>3. TypeInv /\ AnswersKept => AnswersMatch
  <2> SUFFICES ASSUME TypeInv, AnswersKept, NEW c \in Clients, Known(c)
               PROVE  IsPrefix(net[Down(c)].down, Answer(c))
    BY DEF AnswersMatch, Known
  <2>1. Prefix(net[Down(c)].down, Answer(c))
    BY DEF AnswersKept, AnswerKept
  <2>2. net[Down(c)].down \in Seq(Tokens)
    BY HandlerKnown
  <2> QED BY <2>1, <2>2, PrefixIs
<1> QED BY <1>1, <1>2, <1>3, PTL DEF Spec
=============================================================================
