----------------------------- MODULE BlockStore -----------------------------
(***************************************************************************)
(* What the buffer cache promises to its callers: the blocks of the disk   *)
(* as variables in memory.  One process at a time holds a block; only the  *)
(* holder changes it, and it keeps its contents otherwise, whatever is     *)
(* cached or recycled in between.                                          *)
(***************************************************************************)
CONSTANTS Procs, Blocks, Vals, InitDisk, None

VARIABLES contents,   \* [Blocks -> Vals]
          holder      \* [Blocks -> Procs \union {None}]

svars == <<contents, holder>>

Init ==
    /\ contents = InitDisk
    /\ holder = [k \in Blocks |-> None]

Hold(p, k) ==
    /\ holder[k] = None
    /\ holder' = [holder EXCEPT ![k] = p]
    /\ UNCHANGED contents

Change(p, k, v) ==
    /\ holder[k] = p
    /\ contents' = [contents EXCEPT ![k] = v]
    /\ UNCHANGED holder

Release(p, k) ==
    /\ holder[k] = p
    /\ holder' = [holder EXCEPT ![k] = None]
    /\ UNCHANGED contents

Next ==
    \E p \in Procs, k \in Blocks :
        Hold(p, k) \/ Release(p, k) \/ \E v \in Vals : Change(p, k, v)

Spec == Init /\ [][Next]_svars
=============================================================================
