------------------------------- MODULE MCDisk -------------------------------
(***************************************************************************)
(* Small instances of VirtioDisk and FileTable, side by side.              *)
(*                                                                         *)
(* Only the component named by sel takes steps, so the behaviours are      *)
(* those of the components one by one; the variables of the other one stay *)
(* as they were initialised.                                               *)
(***************************************************************************)
EXTENDS VirtioDisk, FileTable, TLC

CONSTANTS p1, p2, u1, u2

TwoProcs == {p1, p2}
TwoUsers == {u1, u2}
Perms == Permutations(Procs)

VARIABLE sel

all == <<vars, filevars, sel>>

AllInit ==
    /\ Init /\ FileInit
    /\ sel \in {"disk", "files"}
    /\ sel = "disk" => call[u1] = "user"

DiskDoes(A) == sel = "disk" /\ A /\ UNCHANGED <<filevars, sel>>
FilesDo(A) == sel = "files" /\ A /\ UNCHANGED <<vars, sel>>

AllNext ==
    \/ DiskDoes(Next)
    \/ FilesDo(FileNext)

AllSpec == AllInit /\ [][AllNext]_all
=============================================================================
