------------------------------- MODULE MCLog -------------------------------
(* A small instance of Log for TLC. *)
EXTENDS Log, TLC

CONSTANTS p1, p2, p3, b1, b2, b3, b4, b5, b6, v0, v1

MCImage == [b \in Blocks |-> v0]
Perms == Permutations(Procs) \union Permutations(Blocks)
=============================================================================
