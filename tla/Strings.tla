------------------------------ MODULE Strings -------------------------------
(***************************************************************************)
(* memmove() of kernel/string.c and of user/ulib.c, printint() of both     *)
(* printf.c, and skipelem() of kernel/fs.c as namex() calls it, as         *)
(* functions on bounded inputs.                                            *)
(*                                                                         *)
(* Memory is a function of addresses in which every byte differs; a path   *)
(* is a sequence with its zero.  INT stands for 2^32.                      *)
(***************************************************************************)
EXTENDS Integers, Sequences, FiniteSets

CONSTANTS Cells,    \* addresses are 0 .. Cells - 1
          Letters,  \* characters of a path other than "/" and 0
          MaxPath, INT, Bases, DIRSIZ

VARIABLES args, res, done

vars == <<args, res, done>>

SLASH == 9
Paths == {Append(s, 0) : s \in UNION {[1 .. n -> Letters \union {SLASH}] : n \in 0 .. MaxPath}}

Init ==
    /\ args \in [op : {"memmove", "umemmove"}, dst : 0 .. Cells - 1, src : 0 .. Cells - 1, n : 0 .. Cells]
                \union [op : {"printint"}, xx : -(INT \div 2) .. (INT \div 2) - 1, base : Bases, sign : BOOLEAN]
                \union [op : {"skipelem"}, path : Paths]
    /\ args.op \in {"memmove", "umemmove"} => args.dst + args.n <= Cells /\ args.src + args.n <= Cells
    /\ res = <<>> /\ done = FALSE

-----------------------------------------------------------------------------
(* memmove(): byte by byte, up or down. *)

Mem0 == [a \in 0 .. Cells - 1 |-> a]

RECURSIVE Up(_, _, _, _), Down(_, _, _, _)
Up(m, d, s, n) == IF n = 0 THEN m ELSE Up([m EXCEPT ![d] = m[s]], d + 1, s + 1, n - 1)
Down(m, d, s, n) == IF n = 0 THEN m ELSE Down([m EXCEPT ![d - 1] = m[s - 1]], d - 1, s - 1, n - 1)

\* Mutant: as memmove() might be if it looked for an overlap the wrong way round.
Overlaps_other(d, s, n) == d < s /\ d + n > s

Overlaps(d, s, n) == s < d /\ s + n > d

memmove(d, s, n) == IF Overlaps(d, s, n) THEN Down(Mem0, d + n, s + n, n) ELSE Up(Mem0, d, s, n)
umemmove(d, s, n) == IF s > d THEN Up(Mem0, d, s, n) ELSE Down(Mem0, d + n, s + n, n)

-----------------------------------------------------------------------------
(* printint(): the digits of a uint, and a sign. *)

RECURSIVE Digits(_, _)
Digits(x, base) == IF x < base THEN <<x>> ELSE Append(Digits(x \div base, base), x % base)

\* Mutant: as printint() might be if x were an int.
Magnitude_int(xx) == IF -xx = INT \div 2 THEN 0 ELSE -xx

\* x = -xx, converted to uint.
Magnitude(xx) == (-xx) % INT

printint(xx, base, sign) ==
    IF sign /\ xx < 0 THEN [minus |-> TRUE, digits |-> Digits(Magnitude(xx), base)]
    ELSE [minus |-> FALSE, digits |-> Digits(xx % INT, base)]

-----------------------------------------------------------------------------
(* skipelem(): the next element (cut at DIRSIZ) and the path after it. *)

Least(a, b) == IF a < b THEN a ELSE b

\* Mutant: as skipelem() might be if it skipped no more than one slash.
SkipSlashes_one(path) == IF path[1] = SLASH THEN Tail(path) ELSE path

RECURSIVE SkipSlashes(_)
SkipSlashes(path) == IF path[1] = SLASH THEN SkipSlashes(Tail(path)) ELSE path

skipelem(path) ==
    LET s == SkipSlashes(path)
        len == CHOOSE k \in 0 .. Len(s) - 1 : s[k + 1] \in {SLASH, 0} /\ \A j \in 1 .. k : s[j] \notin {SLASH, 0} IN
    IF s[1] = 0 THEN [name |-> <<>>, path |-> <<>>]
    ELSE [name |-> SubSeq(s, 1, Least(len, DIRSIZ)), path |-> SkipSlashes(SubSeq(s, len + 1, Len(s)))]

RECURSIVE Elements(_)
\* What namex() sees of a path: skipelem() until there is nothing left.
Elements(path) ==
    LET r == skipelem(path) IN IF r.path = <<>> THEN <<>> ELSE <<r.name>> \o Elements(r.path)

Next ==
    /\ ~done /\ done' = TRUE
    /\ \/ args.op = "memmove" /\ res' = memmove(args.dst, args.src, args.n)
       \/ args.op = "umemmove" /\ res' = umemmove(args.dst, args.src, args.n)
       \/ args.op = "printint" /\ res' = printint(args.xx, args.base, args.sign)
       \/ args.op = "skipelem" /\ res' = Elements(args.path)
    /\ UNCHANGED args

Spec == Init /\ [][Next]_vars

-----------------------------------------------------------------------------
(* Properties *)

\* memmove() moves: whatever the overlap, the bytes at dst are those that were
\* at src before the call, and no others have changed.
MoveExact ==
    done /\ args.op \in {"memmove", "umemmove"} =>
        res = [a \in 0 .. Cells - 1 |-> IF a \in args.dst .. args.dst + args.n - 1 THEN Mem0[args.src + (a - args.dst)] ELSE Mem0[a]]

\* What printint() writes denotes the number, as an int or as a uint, the
\* smallest int included, without leading zeros.
PrintExact ==
    done /\ args.op = "printint" =>
        LET Value[k \in 0 .. Len(res.digits)] == IF k = 0 THEN 0 ELSE Value[k - 1] * args.base + res.digits[k]
            n == Value[Len(res.digits)] IN
        /\ (IF res.minus THEN -n ELSE n) = IF args.sign THEN args.xx ELSE args.xx % INT
        /\ Len(res.digits) > 1 => res.digits[1] # 0

\* The elements namex() gets from skipelem() are the runs of characters between
\* slashes, in order, each cut to DIRSIZ.
ElementsExact ==
    done /\ args.op = "skipelem" =>
        LET p == args.path
            Runs == {ij \in (1 .. Len(p)) \X (1 .. Len(p)) :
                        /\ ij[1] < ij[2] /\ \A k \in ij[1] .. ij[2] - 1 : p[k] \in Letters
                        /\ p[ij[2]] \notin Letters /\ (ij[1] > 1 => p[ij[1] - 1] \notin Letters)}
            Nth(k) == CHOOSE ij \in Runs : Cardinality({r \in Runs : r[1] < ij[1]}) = k - 1 IN
        res = [k \in 1 .. Cardinality(Runs) |-> LET ij == Nth(k) IN SubSeq(p, ij[1], Least(ij[2] - 1, ij[1] + DIRSIZ - 1))]

\* memmove(), printint() and skipelem() compute what they should.
StringsExact == MoveExact /\ PrintExact /\ ElementsExact
=============================================================================
