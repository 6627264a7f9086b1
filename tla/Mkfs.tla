-------------------------------- MODULE Mkfs --------------------------------
(***************************************************************************)
(* mkfs/mkfs.c: the layout of a new file system image, the inodes and      *)
(* blocks of its files, and the bitmap, written in one pass.               *)
(*                                                                         *)
(* Byte off of inode i is Byte(i, off), so that every byte can be told     *)
(* from every other; a directory entry is Dirent bytes long.  A block that *)
(* was never written holds zeroes.  An assertion that fails, and die(),    *)
(* end mkfs: what it has written until then stays in the image.            *)
(***************************************************************************)
EXTENDS Integers, Sequences, FiniteSets

CONSTANTS FSSIZE, LOGSIZE, NINODES, IPB, BSIZE, NDIRECT, NINDIRECT, Dirent,
          BitsPerByte,  \* of the bitmap (8)
          Lengths,      \* the lengths a file to be copied may have
          MaxFiles      \* files on the command line

VARIABLES pc, files,    \* files still to copy
          freeinode, freeblock,
          dinode, block, bitmap,
          todo          \* bytes of the current file still to be read

vars == <<pc, files, freeinode, freeblock, dinode, block, bitmap, todo>>

ROOTINO == 1
MAXFILE == NDIRECT + NINDIRECT
BPB == BSIZE * BitsPerByte

nbitmap == (FSSIZE \div BPB) + 1
ninodeblocks == (NINODES \div IPB) + 1
nmeta == 2 + LOGSIZE + ninodeblocks + nbitmap
sb == [size |-> FSSIZE, nblocks |-> FSSIZE - nmeta, logstart |-> 2, inodestart |-> 2 + LOGSIZE,
       bmapstart |-> 2 + LOGSIZE + ninodeblocks]

Byte(i, off) == i * 100 + off
Zeroes == [k \in 0 .. BSIZE - 1 |-> 0]
NoPtrs == [k \in 0 .. NINDIRECT - 1 |-> 0]
NoInode == [type |-> "none", size |-> 0, addrs |-> [k \in 0 .. NDIRECT |-> 0]]

Init ==
    /\ pc = "root"
    /\ files \in UNION {[1 .. n -> Lengths] : n \in 0 .. MaxFiles}
    /\ freeinode = 1 /\ freeblock = nmeta
    /\ dinode = [i \in 1 .. MaxFiles + 1 |-> NoInode]
    /\ block = <<>> /\ bitmap = {} /\ todo = 0

\* The disk and the counters, as the functions below change them, and whether
\* mkfs is still running.
Now == [dinode |-> dinode, block |-> block, freeblock |-> freeblock, ok |-> TRUE]
Stop(d) == [d EXCEPT !.ok = FALSE]

\* rsect() and wsect(): blocks of data hold bytes, indirect blocks numbers.
rsect(d, b, none) == IF b \in DOMAIN d.block THEN d.block[b] ELSE none
wsect(d, b, v) == [d EXCEPT !.block = [x \in DOMAIN @ \union {b} |-> IF x = b THEN v ELSE @[x]]]

\* Mutant: as rsect() might be if it did not look at what read() returns.
rsect_dies_never(b) == FALSE

\* There is nothing to read beyond the blocks that main() has cleared.
rsect_dies(b) == b >= FSSIZE

\* Mutant: as iappend() might be if it forgot to write the indirect block back.
Indirect_lost(d, b, ptrs) == d

Indirect(d, b, ptrs) == wsect(d, b, ptrs)

\* The block for block fbn of inode i, allocated if there is none.
Direct(d, i, k) ==
    IF d.dinode[i].addrs[k] # 0 THEN d
    ELSE [d EXCEPT !.dinode[i].addrs[k] = d.freeblock, !.freeblock = @ + 1]
BlockFor(d, i, fbn) ==
    IF fbn < NDIRECT THEN LET e == Direct(d, i, fbn) IN [d |-> e, x |-> e.dinode[i].addrs[fbn]]
    ELSE LET e == Direct(d, i, NDIRECT)
             b == e.dinode[i].addrs[NDIRECT]
             ptrs == rsect(e, b, NoPtrs)
             k == fbn - NDIRECT IN
         IF rsect_dies(b) THEN [d |-> Stop(e), x |-> b]
         ELSE IF ptrs[k] # 0 THEN [d |-> e, x |-> ptrs[k]]
         ELSE [d |-> Indirect([e EXCEPT !.freeblock = @ + 1], b, [ptrs EXCEPT ![k] = e.freeblock]), x |-> e.freeblock]

\* Mutant: as iappend() might be if it copied to the start of the buffer.
InBlock_start(off) == 0

\* Where in its block off is.
InBlock(off) == off % BSIZE

\* n1: what fits in the block of off.
Chunk(off, n) == LET room == ((off \div BSIZE) + 1) * BSIZE - off IN IF n < room THEN n ELSE room

RECURSIVE Appended(_, _, _)
\* The loop of iappend(); the offset tells which bytes they are.
Appended(d, i, n) ==
    LET off == d.dinode[i].size
        n1 == Chunk(off, n)
        r == BlockFor(d, i, off \div BSIZE)
        first == InBlock(off)
        old == rsect(r.d, r.x, Zeroes)
        new == [k \in 0 .. BSIZE - 1 |-> IF k \in first .. first + n1 - 1 THEN Byte(i, off + (k - first)) ELSE old[k]] IN
    IF n = 0 \/ ~d.ok THEN d
    ELSE IF off \div BSIZE >= MAXFILE THEN Stop(d)         \* assert(fbn < MAXFILE)
    ELSE IF ~r.d.ok \/ rsect_dies(r.x) THEN Stop(r.d)
    ELSE Appended([wsect(r.d, r.x, new) EXCEPT !.dinode[i].size = @ + n1], i, n - n1)

\* n bytes at the end of inode i, which is written only after all of them.
iappend(d, i, n) ==
    LET e == Appended(d, i, n) IN IF e.ok THEN e ELSE [e EXCEPT !.dinode[i] = d.dinode[i]]

Becomes(d) == dinode' = d.dinode /\ block' = d.block /\ freeblock' = d.freeblock

ialloc(type) == [Now EXCEPT !.dinode[freeinode] = [NoInode EXCEPT !.type = type]]

-----------------------------------------------------------------------------
(* main() *)

\* The root directory, with "." and "..".
main_root ==
    /\ pc = "root"
    /\ LET d == iappend(iappend(ialloc("DIR"), ROOTINO, Dirent), ROOTINO, Dirent) IN
          Becomes(d) /\ pc' = IF d.ok THEN "files" ELSE "failed"
    /\ freeinode' = freeinode + 1
    /\ UNCHANGED <<files, bitmap, todo>>

\* The next file: an inode, and its entry in the root directory.
main_file ==
    /\ pc = "files" /\ files # <<>>
    /\ LET d == iappend(ialloc("FILE"), ROOTINO, Dirent) IN
          Becomes(d) /\ pc' = IF d.ok THEN "copy" ELSE "failed"
    /\ freeinode' = freeinode + 1
    /\ todo' = Head(files)
    /\ files' = Tail(files)
    /\ UNCHANGED bitmap

\* read() of a buffer of BSIZE bytes, which may return less, and iappend().
main_copy ==
    /\ pc = "copy"
    /\ \/ /\ todo = 0
          /\ pc' = "files"
          /\ UNCHANGED <<dinode, block, freeblock, todo>>
       \/ \E cc \in 1 .. (IF todo < BSIZE THEN todo ELSE BSIZE) :
          \E d \in {iappend(Now, freeinode - 1, cc)} :
             /\ Becomes(d)
             /\ pc' = IF d.ok THEN pc ELSE "failed"
             /\ todo' = todo - cc
    /\ UNCHANGED <<files, freeinode, bitmap>>

\* Mutant: as main() might be if it rounded the size down.
RootSize_down(off) == (off \div BSIZE) * BSIZE

\* "fix size of root inode dir".
RootSize(off) == ((off \div BSIZE) + 1) * BSIZE

\* The bits of the first blocks.
balloc(used) == 0 .. used - 1

main_end ==
    /\ pc = "files" /\ files = <<>>
    /\ IF freeblock < BPB
       THEN bitmap' = balloc(freeblock) /\ pc' = "done"
       ELSE pc' = "failed" /\ UNCHANGED bitmap
    /\ dinode' = [dinode EXCEPT ![ROOTINO].size = RootSize(@)]
    /\ UNCHANGED <<files, freeinode, freeblock, block, todo>>

Next == main_root \/ main_file \/ main_copy \/ main_end

Spec == Init /\ [][Next]_vars

-----------------------------------------------------------------------------
(* Properties *)

Inodes == 1 .. freeinode - 1

\* The block of file block fbn as the kernel finds it (bmap()), 0 if none.
Mapped(i, fbn) ==
    LET a == dinode[i].addrs IN
    IF fbn < NDIRECT THEN a[fbn]
    ELSE IF a[NDIRECT] = 0 \/ a[NDIRECT] \notin DOMAIN block THEN 0 ELSE block[a[NDIRECT]][fbn - NDIRECT]

\* Blocks an inode has: data blocks and the indirect block.
Owns(i) == {<<"data", k, Mapped(i, k)>> : k \in 0 .. MAXFILE - 1} \union {<<"indirect", 0, dinode[i].addrs[NDIRECT]>>}

\* Every block that mkfs has handed out belongs to exactly one inode, as one of
\* its blocks, none of the blocks before is handed out and none beyond FSSIZE,
\* and in the end the bitmap has exactly these blocks, with the ones before.
BlocksOwnedOnce ==
    LET Uses(b) == {<<i, o>> \in {<<j, x>> : j \in Inodes, x \in UNION {Owns(l) : l \in Inodes}} : o \in Owns(i) /\ o[3] = b} IN
    /\ \A b \in nmeta .. freeblock - 1 : Cardinality(Uses(b)) = 1
    /\ \A i \in Inodes : \A o \in Owns(i) : o[3] \in {0} \union nmeta .. freeblock - 1
    /\ freeblock <= FSSIZE
    /\ pc = "done" => bitmap = 0 .. freeblock - 1

\* Every byte of a file, and every entry of the root directory, is read back
\* through the inode's blocks, whatever the read()s returned; what the root
\* directory has beyond its entries is zero, no entry at all.
BytesInPlace ==
    \A i \in Inodes : \A k \in 0 .. dinode[i].size - 1 :
        Mapped(i, k \div BSIZE) # 0 =>
            block[Mapped(i, k \div BSIZE)][k % BSIZE] =
                IF i = ROOTINO /\ k >= freeinode * Dirent THEN 0 ELSE Byte(i, k)

\* The root directory's size takes in all its entries, and every block below
\* the size of an inode is there, but for one: when the entries end with a
\* block, main() adds a block to the size that the directory does not have.
SizesBacked ==
    /\ pc # "root" => dinode[ROOTINO].size >= freeinode * Dirent
    /\ \A i \in Inodes :
          LET missing == {fbn \in 0 .. MAXFILE : fbn * BSIZE < dinode[i].size /\ (fbn = MAXFILE \/ Mapped(i, fbn) = 0)} IN
          missing # {} => /\ i = ROOTINO /\ pc = "done"
                          /\ missing = {(freeinode * Dirent) \div BSIZE} /\ (freeinode * Dirent) % BSIZE = 0

\* The image is one that the kernel can read: blocks have one owner and are
\* marked, bytes are where bmap() looks for them, and sizes do not go beyond the
\* blocks, but for the block main() may add to the root directory; unless mkfs
\* has stopped with an error.
ImageExact == pc # "failed" => BlocksOwnedOnce /\ BytesInPlace /\ SizesBacked
=============================================================================
