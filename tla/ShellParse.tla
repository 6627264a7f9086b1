----------------------------- MODULE ShellParse -----------------------------
(***************************************************************************)
(* The parser of the shell (user/sh.c): recursive descent over the command *)
(* line, then nulterminate(), which writes into the line.                  *)
(*                                                                         *)
(* A parsing function takes a position in the line and returns the parsed  *)
(* command, the position after it and whether it called panic().  A word   *)
(* is a pair <<q, eq>> of positions.  All letters are "a".                 *)
(***************************************************************************)
EXTENDS Integers, Sequences, FiniteSets

CONSTANTS Alphabet,    \* of the lines: "a", " " and some of the symbols
          MaxLen,
          MAXARGS

VARIABLES line,
          buf,      \* the line's buffer, in which nulterminate() writes
          cmd, phase

vars == <<line, buf, cmd, phase>>

whitespace == {" "}
symbols == {"<", "|", ">", "&", ";", "(", ")"}
NUL == "0"
Char(s) == IF s <= Len(line) THEN line[s] ELSE NUL        \* *s

Result(c, at) == [cmd |-> c, at |-> at, panic |-> FALSE]
Panic == [cmd |-> [type |-> "none"], at |-> 0, panic |-> TRUE]

execcmd(argv) == [type |-> "EXEC", argv |-> argv]
redircmd(sub, file, mode, fd) == [type |-> "REDIR", cmd |-> sub, file |-> file, mode |-> mode, fd |-> fd]
pipecmd(left, right) == [type |-> "PIPE", left |-> left, right |-> right]
listcmd(left, right) == [type |-> "LIST", left |-> left, right |-> right]
backcmd(sub) == [type |-> "BACK", cmd |-> sub]

-----------------------------------------------------------------------------
(* Tokens *)

RECURSIVE SkipWhile(_, _)
\* The first position from s on whose character is not in C.
SkipWhile(s, C) == IF s <= Len(line) /\ line[s] \in C THEN SkipWhile(s + 1, C) ELSE s

\* peek(): is the next token one of toks?  The position after the white space
\* is kept by every caller.
Next1(s) == SkipWhile(s, whitespace)
peek(s, toks) == Char(Next1(s)) \in toks

\* gettoken(): the kind of the token, the word, and the position after it.
gettoken(s0) ==
    LET s == Next1(s0)
        c == Char(s)
        end == IF c = NUL THEN s
               ELSE IF c = ">" THEN (IF Char(s + 1) = ">" THEN s + 2 ELSE s + 1)
               ELSE IF c \in symbols THEN s + 1
               ELSE SkipWhile(s, Alphabet \ (whitespace \union symbols)) IN
    [kind |-> IF c = ">" /\ Char(s + 1) = ">" THEN "+" ELSE c, word |-> <<s, end>>, at |-> Next1(end)]

-----------------------------------------------------------------------------
(* Parsing *)

\* Mutant: as parseredirs() might be if ">>" truncated.
mode_trunc(tok) == IF tok = "<" THEN "RDONLY" ELSE "TRUNC"

mode(tok) == CASE tok = "<" -> "RDONLY" [] tok = ">" -> "TRUNC" [] tok = "+" -> "CREATE"

RECURSIVE parseredirs(_, _)
parseredirs(c, s) ==
    IF ~peek(s, {"<", ">"}) THEN Result(c, Next1(s))
    ELSE LET tok == gettoken(s)
             file == gettoken(tok.at) IN
         IF file.kind # "a" THEN Panic
         ELSE parseredirs(redircmd(c, file.word, mode(tok.kind), IF tok.kind = "<" THEN 0 ELSE 1), file.at)

\* parseexec() adds words to the EXEC at the bottom of the redirections.
RECURSIVE WithWord(_, _)
WithWord(c, w) == IF c.type = "EXEC" THEN [c EXCEPT !.argv = Append(@, w)]
                  ELSE [c EXCEPT !.cmd = WithWord(@, w)]
RECURSIVE Argc(_)
Argc(c) == IF c.type = "EXEC" THEN Len(c.argv) ELSE Argc(c.cmd)

TooMany(argc) == argc >= MAXARGS

RECURSIVE parseargs(_)
\* The loop of parseexec(), from a result of parseredirs().
parseargs(r) ==
    IF r.panic \/ peek(r.at, {"|", ")", "&", ";"}) THEN r
    ELSE LET tok == gettoken(r.at) IN
         IF tok.kind = NUL THEN r
         ELSE IF tok.kind # "a" \/ TooMany(Argc(r.cmd) + 1) THEN Panic
         ELSE parseargs(parseredirs(WithWord(r.cmd, tok.word), tok.at))

RECURSIVE Backed(_)
\* while(peek(ps, es, "&"))
Backed(r) == IF ~r.panic /\ peek(r.at, {"&"}) THEN Backed(Result(backcmd(r.cmd), gettoken(r.at).at)) ELSE r

RECURSIVE parseline(_), parsepipe(_), parseblock(_)
parseexec(s) == IF peek(s, {"("}) THEN parseblock(s) ELSE parseargs(parseredirs(execcmd(<<>>), s))

\* The command c, made with the result right of the rest of the line.
Joined(c, right) == IF right.panic THEN Panic ELSE Result(c, right.at)

PipeFrom(left) ==
    IF left.panic \/ ~peek(left.at, {"|"}) THEN left
    ELSE LET right == parsepipe(gettoken(left.at).at) IN
         Joined(pipecmd(left.cmd, right.cmd), right)
parsepipe(s) == PipeFrom(parseexec(s))

LineFrom(left) ==
    IF left.panic \/ ~peek(left.at, {";"}) THEN left
    ELSE LET right == parseline(gettoken(left.at).at) IN
         Joined(listcmd(left.cmd, right.cmd), right)
parseline(s) == LineFrom(Backed(parsepipe(s)))

Closed(inner) ==
    IF inner.panic \/ ~peek(inner.at, {")"}) THEN Panic
    ELSE parseredirs(inner.cmd, gettoken(inner.at).at)
parseblock(s) == Closed(parseline(gettoken(s).at))

RECURSIVE Words(_)
\* The words of a command: argv and files.
Words(c) ==
    CASE c.type = "EXEC" -> {c.argv[k] : k \in DOMAIN c.argv}
      [] c.type = "REDIR" -> {c.file} \union Words(c.cmd)
      [] c.type = "BACK" -> Words(c.cmd)
      [] c.type \in {"PIPE", "LIST"} -> Words(c.left) \union Words(c.right)

\* Mutant: as nulterminate() might be if it wrote at the last character.
End_last(w) == w[2] - 1

End(w) == w[2]

nulterminate(c) == [k \in DOMAIN line |-> IF \E w \in Words(c) : End(w) = k THEN NUL ELSE line[k]]

parsecmd ==
    /\ phase = "read"
    /\ phase' = "parsed"
    /\ \E r \in {parseline(1)} :
          IF r.panic \/ Next1(r.at) <= Len(line)
          THEN cmd' = Panic.cmd /\ buf' = line
          ELSE cmd' = r.cmd /\ buf' = nulterminate(r.cmd)
    /\ UNCHANGED line

Lines == UNION {[1 .. n -> Alphabet] : n \in 0 .. MaxLen}
Init == line \in Lines /\ buf = line /\ cmd = Panic.cmd /\ phase = "read"
Next == parsecmd
Spec == Init /\ [][Next]_vars

-----------------------------------------------------------------------------
(* The grammar, over the tokens of the line *)

RECURSIVE Tokens(_)
Tokens(s) == LET t == gettoken(s) IN IF t.kind = NUL THEN <<>> ELSE <<t>> \o Tokens(t.at)

RECURSIVE Redirs(_, _, _, _), Execs(_, _, _), Pipes(_, _, _), Cmds(_, _, _)
\* The commands that tokens i to j of ts can be, for the grammar
\*   line ::= pipe | line' ; line    line' ::= pipe | line' &
\*   pipe ::= exec | exec "|" pipe
\*   exec ::= "(" line ")" redir* | (word | redir)*, fewer than MAXARGS words
\*   redir ::= < word | > word | >> word
Redirs(ts, i, j, base) ==
    LET file == ts[j].word
        sub == IF j - 2 < i - 1 THEN {} ELSE Redirs(ts, i, j - 2, base)
        dir == ts[j - 1].kind IN
    IF j < i THEN base
    ELSE IF ts[j].kind # "a" \/ j = i \/ dir \notin {"<", ">", "+"} THEN {}
    ELSE {redircmd(c, file, IF dir = "<" THEN "RDONLY" ELSE IF dir = ">" THEN "TRUNC" ELSE "CREATE",
                   IF dir = "<" THEN 0 ELSE 1) : c \in sub}

\* A simple command: the redirections, in order, around the other words.
IsFile(ts, k) == k > 1 /\ ts[k].kind = "a" /\ ts[k - 1].kind \in {"<", ">", "+"}
Simple(ts, i, j) ==
    LET args == {k \in i .. j : ts[k].kind = "a" /\ (k = i \/ ~IsFile(ts, k))}
        redirs == SelectSeq([k \in 1 .. j - i + 1 |-> i + k - 1], LAMBDA k : k \notin args)
        words == SelectSeq([k \in 1 .. j - i + 1 |-> i + k - 1], LAMBDA k : k \in args) IN
    IF Len(words) >= MAXARGS THEN {}
    ELSE Redirs([k \in DOMAIN redirs |-> ts[redirs[k]]], 1, Len(redirs),
                {execcmd([k \in DOMAIN words |-> ts[words[k]].word])})

Execs(ts, i, j) ==
    IF i <= j /\ ts[i].kind = "("
    THEN UNION {Redirs(ts, k + 1, j, Cmds(ts, i + 1, k - 1)) : k \in {k \in i + 1 .. j : ts[k].kind = ")"}}
    ELSE Simple(ts, i, j)

Pipes(ts, i, j) ==
    Execs(ts, i, j) \union
    UNION {{pipecmd(l, r) : l \in Execs(ts, i, k - 1), r \in Pipes(ts, k + 1, j)}
             : k \in {k \in i .. j : ts[k].kind = "|"}}

RECURSIVE Backs(_, _, _)
Backs(ts, i, j) ==
    Pipes(ts, i, j) \union
    (IF i <= j /\ ts[j].kind = "&" THEN {backcmd(c) : c \in Backs(ts, i, j - 1)} ELSE {})

Cmds(ts, i, j) ==
    Backs(ts, i, j) \union
    UNION {{listcmd(l, r) : l \in Backs(ts, i, k - 1), r \in Cmds(ts, k + 1, j)}
             : k \in {k \in i .. j : ts[k].kind = ";"}}

-----------------------------------------------------------------------------
(* Properties *)

\* The descent accepts exactly the lines of the grammar, and builds the only
\* command the line can be; every other line ends in a syntax error.
ParsesGrammar ==
    phase = "parsed" =>
        LET ts == Tokens(1) IN
        Cmds(ts, 1, Len(ts)) = {cmd} \ {Panic.cmd}

\* nulterminate() ends every word where it ends and spoils no other word, though
\* the words share the line's buffer.
WordsIntact ==
    phase = "parsed" /\ cmd # Panic.cmd =>
        \A w \in Words(cmd) :
            /\ \A k \in w[1] .. w[2] - 1 : buf[k] = line[k]
            /\ w[1] < w[2] /\ (w[2] <= Len(line) => buf[w[2]] = NUL)

\* parsecmd() is right: the tree is the one the grammar gives, and its words are
\* whole after nulterminate().
ParsesRight == ParsesGrammar /\ WordsIntact
=============================================================================
