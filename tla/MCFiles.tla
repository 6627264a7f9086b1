------------------------------ MODULE MCFiles -------------------------------
(***************************************************************************)
(* Small instances of Bcache and Fs, side by side.                         *)
(*                                                                         *)
(* Only the component named by sel takes steps, so the behaviours are      *)
(* those of the components one by one.  Bcache has its own variables,      *)
(* which stay as Init has them while Fs runs on the variables s1 to s11.   *)
(***************************************************************************)
EXTENDS Bcache, TLC

CONSTANTS p1, p2, b1, b2, b3, v0, v1,       \* the processes, blocks and values of Bcache
          q1, q2                            \* the processes of Fs

VARIABLES sel, s1, s2, s3, s4, s5, s6, s7, s8, s9, s10, s11

slots == <<s1, s2, s3, s4, s5, s6, s7, s8, s9, s10, s11>>
all == <<vars, sel, slots>>

MCImage == [b \in Blocks |-> v0]
Perms == Permutations({q1, q2})

\* The file systems and the calls that MCFs has for four inodes.
W == INSTANCE MCFs WITH
        p1 <- q1, p2 <- q2, Procs <- {q1, q2}, NINODES <- 4, NINODE <- 3, Worlds <- {},
        MaxEnts <- 4, MaxCalls <- 4, MaxCrashes <- 1,
        dinode <- s1, durable <- s2, inode <- s3, lock <- s4, cwd <- s5, ofile <- s6, frame <- s7,
        panic <- s8, menu <- s9, calls <- s10, crashes <- s11

F == INSTANCE Fs WITH
        Procs <- {q1, q2}, NINODES <- 4, NINODE <- 3, Worlds <- W!BothWorlds,
        MaxEnts <- 4, MaxCalls <- 4, MaxCrashes <- 1,
        dinode <- s1, durable <- s2, inode <- s3, lock <- s4, cwd <- s5, ofile <- s6, frame <- s7,
        panic <- s8, menu <- s9, calls <- s10, crashes <- s11

Zero ==
    /\ s1 = 0 /\ s2 = 0 /\ s3 = 0 /\ s4 = 0 /\ s5 = 0 /\ s6 = 0
    /\ s7 = 0 /\ s8 = 0 /\ s9 = 0 /\ s10 = 0 /\ s11 = 0

AllInit ==
    /\ Init
    /\ \/ sel = "cache" /\ Zero
       \/ sel = "fs" /\ F!Init /\ data = [b \in Bufs |-> v0]

AllNext ==
    \/ sel = "cache" /\ Next /\ UNCHANGED <<sel, slots>>
    \/ sel = "fs" /\ F!Next /\ UNCHANGED <<vars, sel>>

AllSpec == AllInit /\ [][AllNext]_all

-----------------------------------------------------------------------------
(* Properties: those of Bcache, by their own names, and those of Fs.        *)

\* On disk, a name always leads to an allocated inode that counts it: crashes
\* and races of link(), unlink() and create() never free an inode or reuse its
\* number while a directory names it.
NamesCounted == sel = "fs" => F!NamesCounted

\* The inode table is exact: every entry counts the pointers to it (idup(),
\* iget(), iput()), and its copy of an unlocked inode is the one on disk.
InodeTableExact == sel = "fs" => F!InodeTableExact

\* The inode locks cannot deadlock: no processes of namex(), create(), link()
\* and unlink() wait for each other, and iput() waits for none of them.
NoDeadlock == sel = "fs" => F!NoDeadlock

\* Of the assertions that another call could break between two locks of a call,
\* one can fail: ilock() may meet a free inode by way of a removed directory's
\* "..", and in no other way; unlink() always finds a link to remove.
PanicsOnlyAtDotdot == sel = "fs" => F!PanicsOnlyAtDotdot
=============================================================================
