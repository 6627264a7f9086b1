------------------------------ MODULE Umalloc -------------------------------
(***************************************************************************)
(* malloc() and free() of the user library (user/umalloc.c): a circular    *)
(* list of free blocks in address order.                                   *)
(*                                                                         *)
(* An address is a number of units (of the size of a Header); a block of   *)
(* n units has its header in the first.  base, a variable of the program,  *)
(* lies below all memory that sbrk() gives.  Requests are in units, of     *)
(* which malloc(0) takes one; they are below the 2^31 bytes from which on  *)
(* nu * sizeof(Header) is no positive int any more.                        *)
(***************************************************************************)
EXTENDS Integers, FiniteSets

CONSTANTS Requests,   \* units a program asks for, the header included
          CHUNK,      \* the least that morecore() asks for (4096)
          LIMIT       \* where sbrk() fails

VARIABLES ptr, size,  \* the fields of the header at each address
          freep, brk,
          used,       \* the blocks the program has
          mine        \* memory the program took from sbrk() by itself

vars == <<ptr, size, freep, brk, used, mine>>

base == 0
NULL == -1
Start == 2            \* where the heap begins
Addrs == 0 .. LIMIT

\* A state of the allocator, as the functions below change it.
Now == [ptr |-> ptr, size |-> size, freep |-> freep, brk |-> brk]

Init ==
    /\ ptr = [a \in Addrs |-> 0] /\ size = [a \in Addrs |-> 0]
    /\ freep = NULL
    /\ brk = Start
    /\ used = {} /\ mine = {}

RECURSIVE Place(_, _, _)
\* The loop of free(): the free block after which bp belongs, from p on.
Place(m, bp, p) ==
    IF \/ bp > p /\ bp < m.ptr[p]
       \/ p >= m.ptr[p] /\ (bp > p \/ bp < m.ptr[p])
    THEN p ELSE Place(m, bp, m.ptr[p])

\* Mutant: as free() might be if it did not join a block to the one before.
JoinLow_not(m, bp, p) == [m EXCEPT !.ptr[p] = bp]

\* The rest of free(): join bp to the block after it and to the one before it.
JoinHigh(m, bp, p) ==
    LET next == m.ptr[p] IN
    IF bp + m.size[bp] = next THEN [m EXCEPT !.size[bp] = @ + m.size[next], !.ptr[bp] = m.ptr[next]]
    ELSE [m EXCEPT !.ptr[bp] = next]
JoinLow(m, bp, p) ==
    IF p + m.size[p] = bp THEN [m EXCEPT !.size[p] = @ + m.size[bp], !.ptr[p] = m.ptr[bp]]
    ELSE [m EXCEPT !.ptr[p] = bp]

Freed(m, bp) ==
    LET p == Place(m, bp, m.freep) IN [JoinLow(JoinHigh(m, bp, p), bp, p) EXCEPT !.freep = p]

\* morecore(): at least CHUNK units from sbrk(), given to free().
Asked(nu) == IF nu < CHUNK THEN CHUNK ELSE nu
sbrk_fails(m, nu) == m.brk + Asked(nu) > LIMIT
morecore(m, nu) == Freed([m EXCEPT !.size[m.brk] = Asked(nu), !.brk = @ + Asked(nu)], m.brk)

\* Mutant: as malloc() might be if it left the size of what it cut off.
Cut_size(m, p, nunits) == [m EXCEPT !.size[p] = @ - nunits]

\* The tail of a block that is larger than asked for.
Cut(m, p, nunits) ==
    [m EXCEPT !.size = [@ EXCEPT ![p] = @ - nunits, ![p + m.size[p] - nunits] = nunits]]

Wrapped(m, p) == p = m.freep

RECURSIVE Search(_, _, _, _)
\* The loop of malloc(): what it returns and the state it leaves.
Search(m, nunits, prevp, p) ==
    IF m.size[p] >= nunits
    THEN IF m.size[p] = nunits
         THEN [ret |-> p, m |-> [m EXCEPT !.ptr[prevp] = m.ptr[p], !.freep = prevp]]
         ELSE [ret |-> p + m.size[p] - nunits, m |-> [Cut(m, p, nunits) EXCEPT !.freep = prevp]]
    ELSE IF ~Wrapped(m, p) THEN Search(m, nunits, p, m.ptr[p])
    ELSE IF sbrk_fails(m, nunits) THEN [ret |-> NULL, m |-> m]
    ELSE LET more == morecore(m, nunits) IN Search(more, nunits, more.freep, more.ptr[more.freep])

\* The first call makes a list of base alone.
Ready(m) == IF m.freep # NULL THEN m
            ELSE [m EXCEPT !.ptr[base] = base, !.size[base] = 0, !.freep = base]

RECURSIVE Listed(_, _)
\* What the list reaches from the blocks in S.
Listed(link, S) == LET T == S \union {link[a] : a \in S} IN IF T = S THEN S ELSE Listed(link, T)

\* The new state; the program overwrites with 0 every header that is neither
\* on the list nor of a block in blocks.
Becomes(m, blocks) ==
    LET list == Listed(m.ptr, {m.freep}) IN
    /\ ptr' = [a \in Addrs |-> IF a \in list THEN m.ptr[a] ELSE 0]
    /\ size' = [a \in Addrs |-> IF a \in list \union {b.at : b \in blocks} THEN m.size[a] ELSE 0]
    /\ freep' = m.freep /\ brk' = m.brk
    /\ used' = blocks

Malloc(nunits) ==
    LET m == Ready(Now)
        r == Search(m, nunits, m.freep, m.ptr[m.freep]) IN
    /\ Becomes(r.m, used \union (IF r.ret = NULL THEN {} ELSE {[at |-> r.ret, n |-> nunits]}))
    /\ UNCHANGED mine

Free(b) ==
    /\ Becomes(Freed(Now, b.at), used \ {b})
    /\ UNCHANGED mine

\* The program calls sbrk() itself: the next chunk does not follow the last.
Sbrk ==
    /\ brk < LIMIT
    /\ brk' = brk + 1
    /\ mine' = mine \union {brk}
    /\ UNCHANGED <<ptr, size, freep, used>>

Next == Sbrk \/ (\E n \in Requests : Malloc(n)) \/ (\E b \in used : Free(b))

Spec == Init /\ [][Next]_vars

-----------------------------------------------------------------------------
(* Properties *)

\* The free blocks: what is on the list, without base.
FreeBlocks == IF freep = NULL THEN {} ELSE {[at |-> a, n |-> size[a]] : a \in Listed(ptr, {freep}) \ {base}}
Units(b) == b.at .. b.at + b.n - 1

\* Every unit that malloc() got from sbrk() is in exactly one block, used or
\* free: blocks never overlap each other or the program's own memory, none is
\* lost, and the header of a used block still has the size that free() needs.
BlocksPartition ==
    LET Blocks == used \union FreeBlocks IN
    /\ \A a \in (Start .. brk - 1) \ mine : Cardinality({b \in Blocks : a \in Units(b)}) = 1
    /\ \A b \in Blocks : Units(b) \subseteq (Start .. brk - 1) \ mine
    /\ \A b \in used : size[b.at] = b.n

\* The list goes once around all free blocks in the order of their addresses,
\* from base, and no two of them touch: free() has joined them.
ListInOrder ==
    freep # NULL =>
        LET L == Listed(ptr, {freep}) IN
        /\ base \in L
        /\ \A a \in L : LET higher == {b \in L : b > a} IN
              IF higher = {} THEN ptr[a] = base
              ELSE ptr[a] \in higher /\ \A b \in higher : ptr[a] <= b
        /\ \A b, c \in FreeBlocks : c.at # b.at + b.n


\* After any sequence of malloc() and free() the heap is exact: blocks cover it
\* without overlap, and the free list has the free ones in order, joined.
HeapExact == BlocksPartition /\ ListInOrder
=============================================================================
