--------------------------------- MODULE Rio --------------------------------
(***************************************************************************)
(* The buffered reads of the robust I/O package, src/lab7_proxy/csapp.c.   *)
(* A stream is a sequence of tokens: a word, a header or a piece of a body *)
(* stands for its bytes, and NL for the bytes that end a line.  Where a    *)
(* read() may return fewer bytes than were asked for, it may stop between  *)
(* any two tokens.  An interrupted read() (EINTR) is repeated and changes  *)
(* nothing, so it has no step of its own.                                  *)
(***************************************************************************)
EXTENDS Integers, Sequences, SequencesExt

CONSTANTS
    Tokens,         \* what streams are made of
    MAXLINE,        \* the size of a line buffer, the terminator included
    RIO_BUFSIZE     \* the size of the internal buffer

ASSUME MaxLineAssumption == MAXLINE \in Nat /\ MAXLINE > 1
ASSUME RioBufSizeAssumption == RIO_BUFSIZE \in Nat \ {0}

NL == "\r\n"

ASSUME TokensAssumption == NL \in Tokens

AtMost(a, b) == IF a <= b THEN a ELSE b

\* rio_t with the line under construction: unread is what rio_bufptr and
\* rio_cnt delimit, line what rio_readlineb copied so far.
rio_readinitb == [unread |-> <<>>, line |-> <<>>]

\* rio_readlineb stops after NL or when only the terminator fits
Complete(line) == /\ line # <<>>
                  /\ Last(line) = NL \/ Len(line) = MAXLINE - 1

\* The states of the buffer and of the stream after rio_read has made sure that
\* there is something to copy: at most one read() of any length up to RIO_BUFSIZE.
rio_read(unread, in) ==
    IF unread # <<>> THEN {<<unread, in>>}
    ELSE {<<SubSeq(in, 1, k), SubSeq(in, k + 1, Len(in))>> :
             k \in 1 .. AtMost(RIO_BUFSIZE, Len(in))}

\* VARIANT of Copied: no room is left for the terminator.
CopiedToTheEnd(line, unread) ==
    LET most == AtMost(MAXLINE - Len(line), Len(unread))
        ends == {k \in 1 .. most : unread[k] = NL}
    IN  IF ends = {} THEN most ELSE CHOOSE k \in ends : \A j \in ends : k <= j

\* How many tokens the loop of rio_readlineb copies before it stops or refills
Copied(line, unread) ==
    LET most == AtMost(MAXLINE - 1 - Len(line), Len(unread))
        ends == {k \in 1 .. most : unread[k] = NL}
    IN  IF ends = {} THEN most ELSE CHOOSE k \in ends : \A j \in ends : k <= j

\* The states after rio_readlineb has gone on up to its next read(), or returned
rio_readlineb(rp, in) ==
    {LET k == Copied(rp.line, r[1])
     IN  [rio |-> [unread |-> SubSeq(r[1], k + 1, Len(r[1])),
                   line   |-> rp.line \o SubSeq(r[1], 1, k)],
          in  |-> r[2]] : r \in rio_read(rp.unread, in)}

\* rio_writen: one write() accepts all the tokens left or only some, here the
\* first; what is cut elsewhere the reader cannot tell from a short read.
rio_writen(out) ==
    {<<SubSeq(out, 1, k), SubSeq(out, k + 1, Len(out))>> : k \in {1, Len(out)}}

\* The next call of rio_readlineb starts with an empty line
NextLine(rp) == [rp EXCEPT !.line = <<>>]
=============================================================================
