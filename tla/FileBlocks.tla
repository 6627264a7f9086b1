----------------------------- MODULE FileBlocks -----------------------------
(***************************************************************************)
(* The contents of files: the free-block bitmap, bmap(), itrunc(), readi() *)
(* and writei() of kernel/fs.c, and fileread() and filewrite() of          *)
(* kernel/file.c, which write a file in chunks that fit a transaction.     *)
(*                                                                         *)
(* Grain.  One step per block of a write or truncation, under the inode's  *)
(* sleep-lock; a read changes no shared state and is one step.  The buffer *)
(* of a bitmap block is locked while balloc() or bfree() changes it.       *)
(***************************************************************************)
EXTENDS Integers, Sequences, FiniteSets

CONSTANTS Procs,        \* a process writes its own number as the data
          Inodes,
          Files,        \* open files: Inode[f] is f->ip
          Inode,
          NBLOCKS,      \* data blocks
          BPB,          \* blocks per bitmap block
          BSIZE, NDIRECT, NINDIRECT, MAXOPBLOCKS,
          UINT,         \* 2^32 in the code: uint arithmetic is modulo UINT
          Lengths,      \* of the writes
          MaxOps        \* writes, reads and truncations

VARIABLES bitmap,  \* the blocks marked in use
          data,    \* contents of blocks, bytes or (indirect) block numbers
          ip,      \* the inodes in memory: addrs, size
          dip,     \* and on disk
          lock,    \* ip->lock
          off,     \* f->off
          frame,   \* the call each process is in
          ops,
          file,    \* the bytes each file should hold, by the promise of writei()
          torn,    \* the positions that a copyin() which failed has changed
          written  \* how many bytes of each process each file should hold

vars == <<bitmap, data, ip, dip, lock, off, frame, ops, file, torn, written>>

DataBlocks == 1 .. NBLOCKS
MAXFILE == NDIRECT + NINDIRECT
ZeroBlock == [k \in 0 .. BSIZE - 1 |-> 0]
NoInode == [addrs |-> [k \in 0 .. NDIRECT |-> 0], size |-> 0]
Idle == [pc |-> "idle", f |-> 0, n |-> 0, i |-> 0, n1 |-> 0, at |-> 0, tot |-> 0, logged |-> {}]
Least(S) == CHOOSE x \in S : \A y \in S : x <= y
Lesser(a, b) == IF a < b THEN a ELSE b

Init ==
    /\ bitmap = {}
    /\ data = [b \in DataBlocks |-> ZeroBlock]
    /\ ip = [i \in Inodes |-> NoInode]
    /\ dip = [i \in Inodes |-> NoInode]
    /\ lock = [i \in Inodes |-> 0]
    /\ off = [f \in Files |-> 0]
    /\ frame = [p \in Procs |-> Idle]
    /\ ops = 0
    /\ file = [i \in Inodes |-> <<>>]
    /\ torn = [i \in Inodes |-> {}]
    /\ written = [i \in Inodes |-> [p \in Procs |-> 0]]

-----------------------------------------------------------------------------
(* balloc(), bmap(): s is a record of bitmap, data, addrs and the blocks     *)
(* logged so far; the result has the block number in addr, 0 if none is free *)

\* Mutant: as balloc() might be if it looked one block too far.
FreeBlocks_far(s) == (1 .. NBLOCKS + 1) \ s.bitmap

FreeBlocks(s) == DataBlocks \ s.bitmap

bzero(s, b) == [s.data EXCEPT ![b] = ZeroBlock]

balloc(s) ==
    LET b == Least(FreeBlocks(s)) IN
    IF FreeBlocks(s) = {} THEN [s EXCEPT !.addr = 0]
    ELSE [s EXCEPT !.addr = b, !.bitmap = @ \union {b}, !.data = bzero(s, b),
                   !.logged = @ \union {<<"bitmap", b \div BPB>>, <<"data", b>>}]

\* The block in addrs[k], allocated if there is none.
bmap_direct(s, k) ==
    IF s.addrs[k] # 0 THEN [s EXCEPT !.addr = s.addrs[k]]
    ELSE LET t == balloc(s) IN [t EXCEPT !.addrs[k] = t.addr]

\* The block in entry bn of the indirect block s.addr.
bmap_entry(s, bn) ==
    IF s.addr = 0 \/ s.data[s.addr][bn] # 0
    THEN [s EXCEPT !.addr = IF s.addr = 0 THEN 0 ELSE s.data[s.addr][bn]]
    ELSE LET t == balloc(s) IN
         IF t.addr = 0 THEN t
         ELSE [t EXCEPT !.data[s.addr][bn] = t.addr, !.logged = @ \union {<<"data", s.addr>>}]

bmap(s, bn) ==
    IF bn < NDIRECT THEN bmap_direct(s, bn)
    ELSE bmap_entry(bmap_direct(s, NDIRECT), bn - NDIRECT)

\* What bmap() finds without allocating, 0 if there is nothing.
Mapped(i, bn) ==
    IF bn < NDIRECT THEN ip[i].addrs[bn]
    ELSE IF ip[i].addrs[NDIRECT] = 0 THEN 0
    ELSE data[ip[i].addrs[NDIRECT]][bn - NDIRECT]

-----------------------------------------------------------------------------
(* Reading *)

RECURSIVE Copyout(_, _, _)
\* The loop of readi(): n bytes from offset o, block by block.
Copyout(i, o, n) ==
    IF n = 0 THEN <<>>
    ELSE LET m == Lesser(n, BSIZE - (o % BSIZE))
             b == Mapped(i, o \div BSIZE) IN
         [k \in 1 .. m |-> data[b][(o % BSIZE) + k - 1]] \o Copyout(i, o + m, n - m)

\* The range that readi() reads, in uint arithmetic.
readi_n(i, o, n) ==
    IF o > ip[i].size \/ (o + n) % UINT < o THEN 0
    ELSE IF (o + n) % UINT > ip[i].size THEN ip[i].size - o
    ELSE n

readi(i, o, n) == Copyout(i, o, readi_n(i, o, n))

\* fileread(); copyout() may fail, and then the offset stays.
fileread(p, f, n) ==
    /\ frame[p].pc = "idle" /\ lock[Inode[f]] = 0 /\ ops < MaxOps
    /\ ops' = ops + 1
    /\ off' \in {off, [off EXCEPT ![f] = @ + Len(readi(Inode[f], @, n))]}
    /\ UNCHANGED <<bitmap, data, ip, dip, lock, frame, file, torn, written>>

-----------------------------------------------------------------------------
(* Writing *)

\* Mutant: as filewrite() might be without blocks for non-aligned writes.
ChunkMax_aligned == ((MAXOPBLOCKS - 1 - 1) \div 2) * BSIZE

\* filewrite()'s limit on what it writes in one transaction.
ChunkMax == ((MAXOPBLOCKS - 1 - 1 - 2) \div 2) * BSIZE

filewrite(p, f, n) ==
    /\ frame[p].pc = "idle" /\ ops < MaxOps
    /\ ops' = ops + 1
    /\ frame' = [frame EXCEPT ![p] = [Idle EXCEPT !.pc = "chunk", !.f = f, !.n = n]]
    /\ UNCHANGED <<bitmap, data, ip, dip, lock, off, file, torn, written>>

\* writei()'s tests, in uint arithmetic.
BadRange(i, o, n) ==
    \/ o > ip[i].size \/ (o + n) % UINT < o
    \/ (o + n) % UINT > MAXFILE * BSIZE

\* begin_op(), ilock() and the checks of writei().
writei(p) ==
    LET f == frame[p]
        i == Inode[f.f]
        n1 == Lesser(f.n - f.i, ChunkMax) IN
    /\ f.pc = "chunk" /\ lock[i] = 0
    /\ IF BadRange(i, off[f.f], n1)
       THEN /\ frame' = [frame EXCEPT ![p] = Idle]
            /\ UNCHANGED lock
       ELSE /\ frame' = [frame EXCEPT ![p] = [f EXCEPT !.pc = "block", !.n1 = n1, !.at = off[f.f],
                                                       !.tot = 0, !.logged = {}]]
            /\ lock' = [lock EXCEPT ![i] = p]
    /\ UNCHANGED <<bitmap, data, ip, dip, off, ops, file, torn, written>>

\* n bytes p from position o of a block on.
Copied(block, o, n, p) == [k \in 0 .. BSIZE - 1 |-> IF k \in o .. o + n - 1 THEN p ELSE block[k]]

\* One block: bmap(), then copyin(); both may end the loop.  A copyin() that
\* fails at a page boundary has changed the buffer, which is not logged (the
\* bytes come back if the buffer is reused: until then, or for good if the block
\* is logged later, they are torn).
writei_block(p) ==
    LET f == frame[p]
        i == Inode[f.f]
        s == bmap([bitmap |-> bitmap, data |-> data, addrs |-> ip[i].addrs,
                   logged |-> f.logged, addr |-> 0], f.at \div BSIZE)
        m == Lesser(f.n1 - f.tot, BSIZE - (f.at % BSIZE)) IN
    /\ f.pc = "block" /\ f.tot < f.n1
    /\ bitmap' = s.bitmap
    /\ ip' = [ip EXCEPT ![i].addrs = s.addrs]
    /\ \/ /\ s.addr = 0
          /\ frame' = [frame EXCEPT ![p] = [f EXCEPT !.pc = "end", !.logged = s.logged]]
          /\ data' = s.data
          /\ UNCHANGED torn
       \/ /\ s.addr # 0
          /\ frame' = [frame EXCEPT ![p] = [f EXCEPT !.pc = "end", !.logged = s.logged]]
          /\ \E j \in 0 .. m - 1 :
                /\ data' = [s.data EXCEPT ![s.addr] = Copied(@, f.at % BSIZE, j, p)]
                /\ torn' = [torn EXCEPT ![i] = @ \union (f.at + 1 .. f.at + j)]
       \/ /\ s.addr # 0
          /\ frame' = [frame EXCEPT ![p] = [f EXCEPT !.at = @ + m, !.tot = @ + m,
                            !.logged = s.logged \union {<<"data", s.addr>>}]]
          /\ data' = [s.data EXCEPT ![s.addr] = Copied(@, f.at % BSIZE, m, p)]
          /\ torn' = [torn EXCEPT ![i] = @ \ (f.at + 1 .. f.at + m)]
    /\ UNCHANGED <<dip, lock, off, ops, file, written>>

\* The bytes bs with n bytes p written from offset o on.
Splice(bs, o, n, p) ==
    [k \in 1 .. IF Len(bs) > o + n THEN Len(bs) ELSE o + n |->
        IF k > o /\ k <= o + n THEN p ELSE bs[k]]

\* Mutant: as writei() might be if it did not keep what it wrote before an error.
NewSize_whole(i, f) == IF f.tot = f.n1 /\ f.at > ip[i].size THEN f.at ELSE ip[i].size

NewSize(i, f) == IF f.at > ip[i].size THEN f.at ELSE ip[i].size

\* Mutant: as filewrite() might be if it moved the offset only after all chunks.
Advance_last(f) == IF f.i + f.tot = f.n THEN off[f.f] + f.n ELSE off[f.f]

Advance(f) == off[f.f] + f.tot

\* Mutant: as writei() might be if it called iupdate() only for a new size.
iupdate_sized(i, new) == IF new.size = ip[i].size THEN dip ELSE [dip EXCEPT ![i] = new]

iupdate(i, new) == [dip EXCEPT ![i] = new]

\* The end of writei(), the new offset, and the next chunk if there is one.
writei_end(p) ==
    LET f == frame[p]
        i == Inode[f.f] IN
    /\ f.pc = "end" \/ (f.pc = "block" /\ f.tot = f.n1)
    /\ ip' = [ip EXCEPT ![i].size = NewSize(i, f)]
    /\ dip' = iupdate(i, ip'[i])
    /\ off' = [off EXCEPT ![f.f] = Advance(f)]
    /\ lock' = [lock EXCEPT ![i] = 0]
    /\ frame' = [frame EXCEPT ![p] =
           IF f.tot = f.n1 /\ f.i + f.tot < f.n THEN [f EXCEPT !.pc = "chunk", !.i = @ + f.tot]
           ELSE Idle]
    /\ file' = [file EXCEPT ![i] = Splice(@, off[f.f], f.tot, p)]
    /\ written' = [written EXCEPT ![i][p] = @ + f.tot]
    /\ UNCHANGED <<bitmap, data, ops, torn>>

-----------------------------------------------------------------------------
(* Truncation: open() with O_TRUNC, or the last iput() of an unlinked file *)

itrunc(p, i) ==
    /\ frame[p].pc = "idle" /\ lock[i] = 0 /\ ops < MaxOps
    /\ ops' = ops + 1
    /\ lock' = [lock EXCEPT ![i] = p]
    /\ frame' = [frame EXCEPT ![p] = [Idle EXCEPT !.pc = "itrunc", !.f = i]]
    /\ UNCHANGED <<bitmap, data, ip, dip, off, file, torn, written>>

\* Mutant: as itrunc() might be if it freed the indirect block before its entries.
Doomed_first(i, j) ==
    IF \E k \in 0 .. NDIRECT : ip[i].addrs[k] # 0
    THEN Least({k \in 0 .. NDIRECT : ip[i].addrs[k] # 0}) ELSE MAXFILE + 1

\* The next block to free: a direct one, an entry of the indirect block from
\* j on, or the indirect block itself; MAXFILE + 1 when there is none left.
Doomed(i, j) ==
    LET direct == {k \in 0 .. NDIRECT - 1 : ip[i].addrs[k] # 0}
        a == ip[i].addrs[NDIRECT]
        entries == IF a = 0 THEN {} ELSE {k \in j .. NINDIRECT - 1 : data[a][k] # 0} IN
    IF direct # {} THEN Least(direct)
    ELSE IF entries # {} THEN NDIRECT + 1 + Least(entries)
    ELSE IF a # 0 THEN NDIRECT ELSE MAXFILE + 1

itrunc_block(p) ==
    LET i == frame[p].f
        k == Doomed(i, frame[p].i)
        b == IF k <= NDIRECT THEN ip[i].addrs[k] ELSE Mapped(i, k - 1) IN
    /\ frame[p].pc = "itrunc" /\ k <= MAXFILE
    /\ bitmap' = bitmap \ {b}
    /\ ip' = IF k <= NDIRECT THEN [ip EXCEPT ![i].addrs[k] = 0] ELSE ip
    /\ frame' = IF k > NDIRECT THEN [frame EXCEPT ![p].i = k - NDIRECT] ELSE frame
    /\ UNCHANGED <<data, dip, lock, off, ops, file, torn, written>>

\* Mutant: as itrunc() might be if it forgot the size.
Truncated_sized(i) == ip[i]

Truncated(i) == [ip[i] EXCEPT !.size = 0]

itrunc_end(p) ==
    LET i == frame[p].f IN
    /\ frame[p].pc = "itrunc" /\ Doomed(i, frame[p].i) > MAXFILE
    /\ ip' = [ip EXCEPT ![i] = Truncated(i)]
    /\ dip' = iupdate(i, ip'[i])
    /\ lock' = [lock EXCEPT ![i] = 0]
    /\ frame' = [frame EXCEPT ![p] = Idle]
    /\ file' = [file EXCEPT ![i] = <<>>]
    /\ torn' = [torn EXCEPT ![i] = {}]
    /\ written' = [written EXCEPT ![i] = [q \in Procs |-> 0]]
    /\ UNCHANGED <<bitmap, data, off, ops>>

Next ==
    \E p \in Procs :
        \/ \E f \in Files, n \in Lengths : filewrite(p, f, n) \/ fileread(p, f, n)
        \/ writei(p) \/ writei_block(p) \/ writei_end(p)
        \/ \E i \in Inodes : itrunc(p, i)
        \/ itrunc_block(p) \/ itrunc_end(p)

Spec == Init /\ [][Next]_vars

-----------------------------------------------------------------------------
(* Properties *)

Bytes == 0 .. 9

\* Every variable keeps its type; a file never exceeds MAXFILE blocks.
TypeOK ==
    /\ bitmap \subseteq DataBlocks
    /\ \A i \in Inodes, img \in {ip, dip} :
          /\ img[i].addrs \in [0 .. NDIRECT -> {0} \union DataBlocks]
          /\ img[i].size \in 0 .. MAXFILE * BSIZE
    /\ lock \in [Inodes -> {0} \union Procs]
    /\ off \in [Files -> 0 .. MAXFILE * BSIZE]
    /\ \A i \in Inodes : file[i] \in Seq(Bytes)

\* Block numbers of inode i: direct, the indirect block, and its entries, less
\* the entries that a truncation under way has freed.
Freed(i) == IF lock[i] # 0 /\ frame[lock[i]].pc = "itrunc" THEN frame[lock[i]].i ELSE 0
Block(i, k) == IF k <= NDIRECT THEN ip[i].addrs[k]
               ELSE IF k - NDIRECT - 1 < Freed(i) THEN 0 ELSE Mapped(i, k - 1)
Uses == {<<i, k>> \in Inodes \X (0 .. MAXFILE) : Block(i, k) # 0}

\* The bitmap marks exactly the blocks that files use, and no block has two
\* uses: whatever balloc() and copyin() failures writei() meets, nothing leaks
\* and bfree() never reaches its panic "freeing free block".
BitmapExact ==
    /\ bitmap = {Block(u[1], u[2]) : u \in Uses}
    /\ Cardinality(Uses) = Cardinality(bitmap)

\* "Returns the number of bytes successfully written" (writei()): between calls
\* a file holds those bytes, at the offsets they were written to, and readi()
\* returns them, also when off + n is out of range or n is negative.  Only bytes
\* that a failed copyin() reached without being reported may differ.
ReadsWhatWasWritten ==
    \A i \in Inodes : lock[i] = 0 =>
        /\ ip[i].size = Len(file[i])
        /\ \A o \in 0 .. MAXFILE * BSIZE, n \in {0, 1, BSIZE + 1, MAXFILE * BSIZE + 1, UINT \div 2, UINT - 1} :
              LET got == readi(i, o, n) IN
              /\ \A k \in DOMAIN got : o + k \in torn[i] \/ got[k] = file[i][o + k]
              /\ n < UINT \div 2 /\ o <= Len(file[i]) => Len(got) = Lesser(n, Len(file[i]) - o)

\* Every block below the size of an unlocked file is there, so that fileread(),
\* which is in no transaction, never makes bmap() allocate one.
ReadNeverAllocates ==
    \A i \in Inodes : lock[i] = 0 =>
        \A bn \in 0 .. MAXFILE - 1 : bn * BSIZE < ip[i].size => Mapped(i, bn) # 0

\* When an inode is unlocked its copy on disk is up to date (iupdate()).
DiskCurrent == \A i \in Inodes : lock[i] = 0 => dip[i] = ip[i]

\* One chunk of filewrite() logs at most MAXOPBLOCKS blocks, its inode included:
\* "write a few blocks at a time to avoid exceeding the maximum log transaction
\* size, including i-node, indirect block, allocation blocks, and 2 blocks of
\* slop for non-aligned writes".
ChunkFits == \A p \in Procs : Cardinality(frame[p].logged) + 1 <= MAXOPBLOCKS

\* Chunks of processes that write through one open file never overwrite each
\* other: every byte that a write reported is in the file until it is truncated.
NoLostWrite ==
    \A i \in Inodes, p \in Procs :
        Cardinality({f \in Files : Inode[f] = i}) = 1 =>
        written[i][p] = Cardinality({k \in 1 .. Len(file[i]) : file[i][k] = p})

\* The blocks are exact: the bitmap marks those in use and no others, none is
\* used twice, and an unlocked file has all the blocks below its size, so that a
\* read(), which is in no transaction, never makes bmap() allocate one.
BlocksExact == TypeOK /\ BitmapExact /\ ReadNeverAllocates

\* What write() reported is what read() returns: filewrite()'s chunks neither
\* overwrite each other nor get lost, readi() finds the bytes where they were
\* written, and so it does when the inode is read from disk again.
WritesKept == ReadsWhatWasWritten /\ NoLostWrite /\ DiskCurrent
=============================================================================
