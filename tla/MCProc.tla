------------------------------- MODULE MCProc -------------------------------
(* Small instances of Proc for TLC. *)
EXTENDS Proc, TLC

CONSTANTS c1, c2

MCTwoCPUs == {c1, c2}
CPUPerms == Permutations(CPUs)
=============================================================================
