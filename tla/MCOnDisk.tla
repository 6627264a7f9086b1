----------------------------- MODULE MCOnDisk -------------------------------
(***************************************************************************)
(* What is on disk: small instances of Log, FileBlocks and Mkfs, side by   *)
(* side.                                                                   *)
(*                                                                         *)
(* Only the component named by sel takes steps, so the behaviours are      *)
(* those of the components one by one.  Log has its own variables, which   *)
(* stay as Init has them while another component runs; the others share    *)
(* the variables s1 to s11.                                                *)
(***************************************************************************)
EXTENDS MCLog

VARIABLES sel, s1, s2, s3, s4, s5, s6, s7, s8, s9, s10, s11

slots1 == <<s1, s2, s3, s4, s5, s6, s7, s8>>
slots9 == <<s9, s10, s11>>
slots == <<slots1, slots9>>
all == <<vars, sel, slots>>

FB == INSTANCE FileBlocks WITH
        Procs <- {1, 2}, Inodes <- {1, 2}, Files <- {1, 2, 3}, Inode <- <<1, 2, 1>>, NBLOCKS <- 5, BPB <- 1,
        BSIZE <- 2, NDIRECT <- 1, NINDIRECT <- 2, MAXOPBLOCKS <- 6, UINT <- 16, Lengths <- {1, 4},
        MaxOps <- 3,
        bitmap <- s1, data <- s2, ip <- s3, dip <- s4, lock <- s5, off <- s6, frame <- s7, ops <- s8,
        file <- s9, torn <- s10, written <- s11

MK == INSTANCE Mkfs WITH
        FSSIZE <- 26, LOGSIZE <- 2, NINODES <- 5, IPB <- 2, BSIZE <- 4, NDIRECT <- 2, NINDIRECT <- 2,
        Dirent <- 2, BitsPerByte <- 6, Lengths <- {0, 5, 16, 17}, MaxFiles <- 3,
        pc <- s1, files <- s2, freeinode <- s3, freeblock <- s4, dinode <- s5, block <- s6, bitmap <- s7,
        todo <- s8

Zero1 == s1 = 0 /\ s2 = 0 /\ s3 = 0 /\ s4 = 0 /\ s5 = 0 /\ s6 = 0 /\ s7 = 0 /\ s8 = 0
Zero9 == s9 = 0 /\ s10 = 0 /\ s11 = 0

AllInit ==
    /\ Init
    /\ \/ sel = "log" /\ Zero1 /\ Zero9
       \/ sel = "blocks" /\ FB!Init
       \/ sel = "mkfs" /\ MK!Init /\ Zero9

LogDoes(A) == sel = "log" /\ A /\ UNCHANGED <<sel, slots>>
FileBlocksDoes(A) == sel = "blocks" /\ A /\ UNCHANGED <<vars, sel>>
MkfsDoes(A) == sel = "mkfs" /\ A /\ UNCHANGED <<vars, sel, slots9>>

AllNext ==
    \/ LogDoes(Next)
    \/ FileBlocksDoes(FB!Next)
    \/ MkfsDoes(MK!Next)
    \/ sel \in {"blocks", "mkfs"} /\ UNCHANGED all      \* these may come to an end

AllSpec == AllInit /\ [][AllNext]_all

-----------------------------------------------------------------------------
(* Properties: CrashAtomic and QuiescentDurable of Log, by their own names, *)
(* and those of the others.                                                 *)

\* The bitmap marks exactly the blocks that files use, none is used twice
\* whatever balloc() and copyin() failures writei() meets, and read(), which is
\* in no transaction, never makes bmap() allocate one.
BlocksExact == sel = "blocks" => FB!BlocksExact

\* What write() reported is what read() returns, through chunks of several
\* writers, failing copies and the loss of the inode's copy in memory.
WritesKept == sel = "blocks" => FB!WritesKept

\* One chunk of filewrite() logs at most MAXOPBLOCKS blocks, its inode
\* included.
ChunkFits == sel = "blocks" => FB!ChunkFits

\* mkfs gives every block one owner and marks it, puts every byte where bmap()
\* looks for it, and every size within the blocks, but for the block main() may
\* add to the root directory; unless it stops with an error.
ImageExact == sel = "mkfs" => MK!ImageExact
=============================================================================
