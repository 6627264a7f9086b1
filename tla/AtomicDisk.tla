----------------------------- MODULE AtomicDisk -----------------------------
(***************************************************************************)
(* What log.c promises to the file system calls above it.  A call brackets *)
(* its block writes with begin_op() and end_op().  The disk holds a        *)
(* durable image that only ever changes by taking over the whole current   *)
(* image at a moment when no call is between its begin_op() and its        *)
(* end_op(), and that is all that is left after a crash.  So a crash shows *)
(* all of the writes of a call or none of them.                            *)
(***************************************************************************)
CONSTANTS Procs,      \* processes that make file system calls
          Blocks,     \* home blocks of the file system
          Vals,       \* block contents, as far as they are told apart
          InitImage   \* the file system that mkfs wrote

VARIABLES durable,    \* [Blocks -> Vals]: what a crash leaves
          current,    \* [Blocks -> Vals]: what the running system reads
          active      \* processes between begin_op() and end_op()

avars == <<durable, current, active>>

Init ==
    /\ durable = InitImage
    /\ current = InitImage
    /\ active = {}

Begin(p) ==
    /\ p \notin active
    /\ active' = active \union {p}
    /\ UNCHANGED <<durable, current>>

Write(p, b, v) ==
    /\ p \in active
    /\ current' = [current EXCEPT ![b] = v]
    /\ UNCHANGED <<durable, active>>

End(p) ==
    /\ p \in active
    /\ active' = active \ {p}
    /\ UNCHANGED <<durable, current>>

Commit ==
    /\ active = {}
    /\ durable' = current
    /\ UNCHANGED <<current, active>>

Crash ==
    /\ current' = durable
    /\ active' = {}
    /\ UNCHANGED durable

Next ==
    \/ \E p \in Procs : Begin(p) \/ End(p)
    \/ \E p \in Procs, b \in Blocks, v \in Vals : Write(p, b, v)
    \/ Commit
    \/ Crash

Spec == Init /\ [][Next]_avars
=============================================================================
