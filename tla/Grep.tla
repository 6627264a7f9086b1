-------------------------------- MODULE Grep --------------------------------
(***************************************************************************)
(* user/grep.c: the matcher against a reference for what a pattern means,  *)
(* and the loop that finds lines in a buffer that read() fills in pieces.  *)
(***************************************************************************)
EXTENDS Integers, Sequences

CONSTANTS Inputs,     \* pairs of a pattern and the contents of the file
          BUFSIZE     \* sizeof(buf)

VARIABLES re,         \* the pattern
          file,       \* all of the file
          rest,       \* what has not been read
          buf,        \* the first m bytes of buf
          out,        \* the lines written
          ended

vars == <<re, file, rest, buf, out, ended>>

NL == "\n"
From(s, k) == SubSeq(s, k, Len(s))

Init ==
    /\ \E i \in Inputs : re = i[1] /\ file = i[2]
    /\ rest = file /\ buf = <<>> /\ out = <<>> /\ ended = FALSE

RECURSIVE matchhere(_, _), matchstar(_, _, _)
matchhere(r, text) ==
    IF r = <<>> THEN TRUE
    ELSE IF Len(r) > 1 /\ r[2] = "*" THEN matchstar(r[1], From(r, 3), text)
    ELSE IF r = <<"$">> THEN text = <<>>
    ELSE text # <<>> /\ r[1] \in {".", text[1]} /\ matchhere(Tail(r), Tail(text))

matchstar(c, r, text) ==
    \/ matchhere(r, text)
    \/ text # <<>> /\ (Head(text) = c \/ c = ".") /\ matchstar(c, r, Tail(text))

match(r, text) ==
    IF r # <<>> /\ r[1] = "^" THEN matchhere(Tail(r), text)
    ELSE \E k \in 1 .. Len(text) + 1 : matchhere(r, From(text, k))

\* Mutant: as grep() might be if it kept the bytes before p.
Kept_all(b, p) == b

\* memmove(): the incomplete line goes to the front.
Kept(b, p) == From(b, p)

RECURSIVE Lines(_, _, _)
\* The inner loop, from p: the lines to write, and the rest of the buffer.
Lines(b, p, o) ==
    IF \A k \in p .. Len(b) : b[k] # NL THEN [buf |-> Kept(b, p), out |-> o]
    ELSE LET q == CHOOSE k \in p .. Len(b) : b[k] = NL /\ \A j \in p .. k - 1 : b[j] # NL
             line == SubSeq(b, p, q - 1) IN
         Lines(b, q + 1, IF match(re, line) THEN Append(o, line) ELSE o)

\* read() returns at least one byte, if there is one and room for it.
grep ==
    LET room == BUFSIZE - Len(buf) - 1 IN
    /\ ~ended
    /\ IF rest = <<>> \/ room <= 0 THEN ended' = TRUE /\ UNCHANGED <<rest, buf, out>>
       ELSE \E n \in 1 .. (IF room < Len(rest) THEN room ELSE Len(rest)) :
               LET r == Lines(buf \o SubSeq(rest, 1, n), 1, out) IN
               buf' = r.buf /\ out' = r.out /\ rest' = From(rest, n + 1) /\ UNCHANGED ended
    /\ UNCHANGED <<re, file>>

Next == grep

Spec == Init /\ [][Next]_vars

-----------------------------------------------------------------------------
(* Properties *)

RECURSIVE Ends(_, _, _)
\* Where a match of pattern r that begins at one of the places in S may end: a
\* letter or "." is one place, with "*" any number of them; "$" is the end.
Ends(r, text, S) ==
    LET Is(c, k) == k < Len(text) /\ (c = "." \/ text[k + 1] = c) IN
    IF r = <<>> THEN S
    ELSE IF Len(r) > 1 /\ r[2] = "*"
         THEN Ends(From(r, 3), text, {e \in 0 .. Len(text) : \E k \in S : k <= e /\ \A j \in k .. e - 1 : Is(r[1], j)})
    ELSE IF r = <<"$">> THEN S \intersect {Len(text)}
    ELSE Ends(Tail(r), text, {k + 1 : k \in {j \in S : Is(r[1], j)}})
Matches(r, text) == IF r # <<>> /\ r[1] = "^" THEN Ends(Tail(r), text, {0}) # {}
                    ELSE Ends(r, text, 0 .. Len(text)) # {}

RECURSIVE Expected(_)
\* The matching lines of s, up to a line that does not fit in the buffer or has no end.
Expected(s) ==
    LET Stops == {k \in 1 .. Len(s) : s[k] = NL}
        q == CHOOSE k \in Stops : \A j \in Stops : k <= j
        line == SubSeq(s, 1, q - 1) IN
    IF Stops = {} THEN <<>>
    ELSE IF q > BUFSIZE - 1 THEN <<>>
    ELSE (IF Matches(re, line) THEN <<line>> ELSE <<>>) \o Expected(From(s, q + 1))

\* However read() cuts the file into pieces, grep() writes exactly the lines that
\* match, in order, up to the first one that does not fit in its buffer.
FindsLines == ended => out = Expected(file)
=============================================================================
