------------------------------- MODULE MCPipe -------------------------------
(* A small instance of Pipe for TLC. *)
EXTENDS Pipe, TLC

CONSTANTS r1, r2, w1, w2

TwoReaders == {r1, r2}
TwoWriters == {w1, w2}
Everyone == Procs
Perms == Permutations(Readers) \union Permutations(Writers)
=============================================================================
