----------------------------- MODULE CommandLine ----------------------------
(***************************************************************************)
(* parseline of src/lab5_shelllab/tsh.c, one argument per step.  A line is *)
(* a sequence of characters: " ", "'", "&", "\n" and letters.              *)
(***************************************************************************)
EXTENDS Integers, Sequences, SequencesExt

CONSTANTS
    Plain,      \* arguments without blanks and quotes
    Quoted,     \* what may be between two quotes
    MaxArgs     \* bound: arguments in a line, MAXARGS = 128 in the code

VARIABLES
    meant,      \* history: the arguments of the line, as a user means them
    buf,        \* the rest of the line, or all of it at first
    argv,
    bg,
    parsing     \* "copy", "scan", "end" or "done"

pvars == <<meant, buf, argv, bg, parsing>>

\* The arguments written down with a number of blanks before each.
Written(args, gap) ==
    LET text(a) == IF a[1] = "quoted" THEN <<"'">> \o a[2] \o <<"'">> ELSE a[2]
    IN  FlattenSeq([i \in DOMAIN args |-> [b \in 1 .. gap |-> " "] \o text(args[i])])

Arguments == {<<"plain", a>> : a \in Plain} \cup {<<"quoted", a>> : a \in Quoted}

\* Lines as fgets of main reads them.
ParseInit ==
    /\ \E n \in 0 .. MaxArgs, gap, after \in 1 .. 2 : \E args \in [1 .. n -> Arguments] :
          /\ meant = [i \in 1 .. n |-> args[i][2]]
          /\ buf = Written(args, gap) \o (IF after = 2 THEN <<" ", "\n">> ELSE <<"\n">>)
    /\ argv = <<>> /\ bg = FALSE /\ parsing = "copy"

\* VARIANT of SkipBlanks: one blank at most.
SkipBlanksOnce(text) == IF text # <<>> /\ Head(text) = " " THEN Tail(text) ELSE text

SkipBlanks(text) ==
    LET rest == {i \in 1 .. Len(text) : text[i] # " "}
    IN  IF rest = {} THEN <<>>
        ELSE SubSeq(text, CHOOSE i \in rest : \A j \in rest : i <= j, Len(text))

\* strchr: the place of the first c, or 0.
strchr(text, c) == SelectInSeq(text, LAMBDA x : x = c)

\* strcpy; whatever the last character is becomes a blank.
Copy ==
    /\ parsing = "copy" /\ parsing' = "scan"
    /\ buf' = SkipBlanks([buf EXCEPT ![Len(buf)] = " "])
    /\ UNCHANGED <<meant, argv, bg>>

\* An argument ends at the next blank, or at the next quote if it begins with one;
\* without such an end the rest of the line is dropped.
NextArg ==
    LET quoted == buf # <<>> /\ Head(buf) = "'"
        text   == IF quoted THEN Tail(buf) ELSE buf
        delim  == strchr(text, IF quoted THEN "'" ELSE " ")
    IN  /\ parsing = "scan"
        /\ IF delim = 0 THEN parsing' = "end" /\ UNCHANGED <<argv, buf>>
           ELSE /\ argv' = Append(argv, SubSeq(text, 1, delim - 1))
                /\ buf' = SkipBlanks(SubSeq(text, delim + 1, Len(text)))
                /\ UNCHANGED parsing
        /\ UNCHANGED <<meant, bg>>

\* A blank line is a background job of nothing; a last argument that begins with & is
\* taken off.
Background ==
    LET amp == argv # <<>> /\ Last(argv) # <<>> /\ Head(Last(argv)) = "&"
    IN  /\ parsing = "end" /\ parsing' = "done"
        /\ bg' = (argv = <<>> \/ amp)
        /\ argv' = IF amp THEN Front(argv) ELSE argv
        /\ UNCHANGED <<meant, buf>>

ParseNext == Copy \/ NextArg \/ Background

-----------------------------------------------------------------------------
\* "Characters enclosed in single quotes are treated as a single argument": parseline
\* gives back the arguments a line was written from, whatever blanks are between and
\* after them, but for a last one that begins with &, quoted or not.
ArgumentsComeBack ==
    parsing = "done" =>
        LET amp == meant # <<>> /\ Last(meant) # <<>> /\ Head(Last(meant)) = "&"
        IN  /\ argv = IF amp THEN Front(meant) ELSE meant
            /\ bg <=> meant = <<>> \/ amp
=============================================================================
