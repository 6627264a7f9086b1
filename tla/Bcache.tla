------------------------------- MODULE Bcache -------------------------------
(***************************************************************************)
(* The buffer cache of kernel/bio.c with the sleep-locks of                *)
(* kernel/sleeplock.c.                                                     *)
(*                                                                         *)
(* Grain.  A section under bcache.lock, or under the spin-lock inside a    *)
(* sleep-lock, is one step.  bget() drops the first before it takes the    *)
(* second, brelse() the other way round: those are two steps each.         *)
(*                                                                         *)
(* A member of Procs is one use of a buffer, from bread() to brelse(); a   *)
(* process that holds two buffers at once counts as two.  Callers keep to  *)
(* the cache's rules: what they change under the lock they either hand to  *)
(* the log, which pins it until it has written it (log_write(),            *)
(* install_trans()), or write themselves (write_log(), write_head()).  One *)
(* caller does not: writei(), when either_copyin() fails, releases a       *)
(* buffer it may have changed in part without log_write() (fs.c:522).      *)
(* That use is left out here; FileBlocks keeps track of its bytes (torn).  *)
(***************************************************************************)
EXTENDS Integers, Sequences, FiniteSets

CONSTANTS Procs, Blocks, Vals,
          InitDisk,    \* [Blocks -> Vals]
          NBUF,        \* param.h: number of buffers
          MaxPinned,   \* blocks the log pins at a time
          None

ASSUME BcacheAssumption ==
    /\ IsFiniteSet(Procs) /\ None \notin Procs \union Blocks
    /\ InitDisk \in [Blocks -> Vals]
    /\ NBUF \in Nat /\ MaxPinned \in Nat

Bufs == 1 .. NBUF

VARIABLES
    blockno, valid, refcnt, data,  \* struct buf, by buffer
    locked,   \* holder of b->lock, or None
    lru,      \* buffers in the order of the list, bcache.head.next first
    disk,     \* contents of the blocks on disk
    pinned,   \* blocks the log has pinned
    pc, bp    \* where each process is, and its b (0: none)

bufvars == <<blockno, valid, refcnt, data, lru>>
vars == <<bufvars, locked, disk, pinned, pc, bp>>

\* After binit(); static storage is zero, and device 0 is nobody's.
Init ==
    /\ blockno = [b \in Bufs |-> None]
    /\ valid = [b \in Bufs |-> 0]
    /\ refcnt = [b \in Bufs |-> 0]
    /\ data \in {[b \in Bufs |-> v] : v \in Vals}
    /\ locked = [b \in Bufs |-> None]
    /\ lru = [n \in Bufs |-> NBUF + 1 - n]
    /\ disk = InitDisk
    /\ pinned = {}
    /\ pc = [p \in Procs |-> "idle"]
    /\ bp = [p \in Procs |-> 0]

-----------------------------------------------------------------------------
(* bget() *)

\* First buffer of S from the most, and from the least, recently used end.
MostRecent(S) ==
    lru[CHOOSE n \in Bufs : lru[n] \in S /\ \A m \in 1 .. n - 1 : lru[m] \notin S]

LeastRecent(S) ==
    lru[CHOOSE n \in Bufs : lru[n] \in S /\ \A m \in n + 1 .. NBUF : lru[m] \notin S]

\* Mutant: as the code might be if it only looked at buffers that have been read.
CachedValid(k) == {b \in Bufs : blockno[b] = k /\ valid[b] = 1}

Cached(k) == {b \in Bufs : blockno[b] = k}

Unused == {b \in Bufs : refcnt[b] = 0}

bget_hit(p, k) ==
    /\ pc[p] = "idle"
    /\ Cached(k) # {}
    /\ LET b == MostRecent(Cached(k)) IN
          /\ refcnt' = [refcnt EXCEPT ![b] = @ + 1]
          /\ bp' = [bp EXCEPT ![p] = b]
    /\ pc' = [pc EXCEPT ![p] = "acquire"]
    /\ UNCHANGED <<blockno, valid, data, lru, locked, disk, pinned>>

\* Mutant: as the code might be if it trusted the old contents of the buffer.
bget_recycle_valid(p, k) ==
    /\ pc[p] = "idle"
    /\ Cached(k) = {} /\ Unused # {}
    /\ LET b == LeastRecent(Unused) IN
          /\ blockno' = [blockno EXCEPT ![b] = k]
          /\ refcnt' = [refcnt EXCEPT ![b] = 1]
          /\ bp' = [bp EXCEPT ![p] = b]
    /\ pc' = [pc EXCEPT ![p] = "acquire"]
    /\ UNCHANGED <<valid, data, lru, locked, disk, pinned>>

bget_recycle(p, k) ==
    /\ pc[p] = "idle"
    /\ Cached(k) = {} /\ Unused # {}
    /\ LET b == LeastRecent(Unused) IN
          /\ blockno' = [blockno EXCEPT ![b] = k]
          /\ valid' = [valid EXCEPT ![b] = 0]
          /\ refcnt' = [refcnt EXCEPT ![b] = 1]
          /\ bp' = [bp EXCEPT ![p] = b]
    /\ pc' = [pc EXCEPT ![p] = "acquire"]
    /\ UNCHANGED <<data, lru, locked, disk, pinned>>

\* panic("bget: no buffers")
bget_panic(p, k) ==
    /\ pc[p] = "idle"
    /\ Cached(k) = {} /\ Unused = {}
    /\ pc' = [pc EXCEPT ![p] = "panic"]
    /\ UNCHANGED <<bufvars, locked, disk, pinned, bp>>

-----------------------------------------------------------------------------
(* Sleep-locks *)

acquiresleep(p) ==
    /\ pc[p] = "acquire"
    /\ locked[bp[p]] = None
    /\ locked' = [locked EXCEPT ![bp[p]] = p]
    /\ pc' = [pc EXCEPT ![p] = "bread"]
    /\ UNCHANGED <<bufvars, disk, pinned, bp>>

acquiresleep_wait(p) ==
    /\ pc[p] = "acquire"
    /\ locked[bp[p]] # None
    /\ pc' = [pc EXCEPT ![p] = "asleep"]
    /\ UNCHANGED <<bufvars, locked, disk, pinned, bp>>

WakeAll(f, b) ==
    [q \in Procs |-> IF f[q] = "asleep" /\ bp[q] = b THEN "acquire" ELSE f[q]]

\* proc.c's kill() makes any sleeper run; acquiresleep() tests again.
kill(p) ==
    /\ pc[p] = "asleep"
    /\ pc' = [pc EXCEPT ![p] = "acquire"]
    /\ UNCHANGED <<bufvars, locked, disk, pinned, bp>>

-----------------------------------------------------------------------------
(* bread(), what the caller does with the buffer, bwrite(), brelse() *)

bread(p) ==
    /\ pc[p] = "bread"
    /\ LET b == bp[p] IN
          /\ data' = IF valid[b] = 0 THEN [data EXCEPT ![b] = disk[blockno[b]]] ELSE data
          /\ valid' = [valid EXCEPT ![b] = 1]
    /\ pc' = [pc EXCEPT ![p] = "hold"]
    /\ UNCHANGED <<blockno, refcnt, lru, locked, disk, pinned, bp>>

modify(p, v) ==
    /\ pc[p] \in {"hold", "dirty"}
    /\ data' = [data EXCEPT ![bp[p]] = v]
    /\ pc' = [pc EXCEPT ![p] = "dirty"]
    /\ UNCHANGED <<blockno, valid, refcnt, lru, locked, disk, pinned, bp>>

\* log_write(): bpin() of a block that is new to the transaction.
log_write(p) ==
    /\ pc[p] = "dirty"
    /\ LET b == bp[p]
           k == blockno[b] IN
          \/ /\ k \notin pinned /\ Cardinality(pinned) < MaxPinned
             /\ pinned' = pinned \union {k}
             /\ refcnt' = [refcnt EXCEPT ![b] = @ + 1]
          \/ /\ k \in pinned
             /\ UNCHANGED <<pinned, refcnt>>
    /\ pc' = [pc EXCEPT ![p] = "hold"]
    /\ UNCHANGED <<blockno, valid, data, lru, locked, disk, bp>>

\* bwrite() of a block of the log itself, or by recovery.
bwrite(p) ==
    /\ pc[p] = "dirty"
    /\ blockno[bp[p]] \notin pinned
    /\ disk' = [disk EXCEPT ![blockno[bp[p]]] = data[bp[p]]]
    /\ pc' = [pc EXCEPT ![p] = "hold"]
    /\ UNCHANGED <<bufvars, locked, pinned, bp>>

\* install_trans() writes a home block ...
install_trans(p) ==
    /\ pc[p] = "hold"
    /\ blockno[bp[p]] \in pinned
    /\ disk' = [disk EXCEPT ![blockno[bp[p]]] = data[bp[p]]]
    /\ pc' = [pc EXCEPT ![p] = "bunpin"]
    /\ UNCHANGED <<bufvars, locked, pinned, bp>>

\* Mutant: as install_trans() might be without bunpin().
bunpin_never(p) ==
    /\ pc[p] = "bunpin"
    /\ pinned' = pinned \ {blockno[bp[p]]}
    /\ pc' = [pc EXCEPT ![p] = "hold"]
    /\ UNCHANGED <<bufvars, locked, disk, bp>>

\* ... and lets the cache have the buffer back.
bunpin(p) ==
    /\ pc[p] = "bunpin"
    /\ refcnt' = [refcnt EXCEPT ![bp[p]] = @ - 1]
    /\ pinned' = pinned \ {blockno[bp[p]]}
    /\ pc' = [pc EXCEPT ![p] = "hold"]
    /\ UNCHANGED <<blockno, valid, data, lru, locked, disk, bp>>

\* Mutant: as releasesleep() might be without wakeup().
releasesleep_silent(p) ==
    /\ pc[p] = "hold"
    /\ locked' = [locked EXCEPT ![bp[p]] = None]
    /\ pc' = [pc EXCEPT ![p] = "brelse"]
    /\ UNCHANGED <<bufvars, disk, pinned, bp>>

\* First half of brelse().
releasesleep(p) ==
    /\ pc[p] = "hold"
    /\ locked' = [locked EXCEPT ![bp[p]] = None]
    /\ pc' = [WakeAll(pc, bp[p]) EXCEPT ![p] = "brelse"]
    /\ UNCHANGED <<bufvars, disk, pinned, bp>>

\* The list with b taken out of its place and put behind bcache.head.
MoveToFront(b) ==
    LET n == CHOOSE m \in Bufs : lru[m] = b IN
    [m \in Bufs |-> IF m = 1 THEN b ELSE IF m <= n THEN lru[m - 1] ELSE lru[m]]

\* Mutant: as brelse() might be without unlinking the buffer first.
brelse_twice(p) ==
    /\ pc[p] = "brelse"
    /\ LET b == bp[p] IN
          /\ refcnt' = [refcnt EXCEPT ![b] = @ - 1]
          /\ lru' = IF refcnt[b] = 1 THEN <<b>> \o lru ELSE lru
    /\ pc' = [pc EXCEPT ![p] = "idle"]
    /\ bp' = [bp EXCEPT ![p] = 0]
    /\ UNCHANGED <<blockno, valid, data, locked, disk, pinned>>

\* Second half: an unused buffer becomes the most recently used.
brelse(p) ==
    /\ pc[p] = "brelse"
    /\ LET b == bp[p] IN
          /\ refcnt' = [refcnt EXCEPT ![b] = @ - 1]
          /\ lru' = IF refcnt[b] = 1 THEN MoveToFront(b) ELSE lru
    /\ pc' = [pc EXCEPT ![p] = "idle"]
    /\ bp' = [bp EXCEPT ![p] = 0]
    /\ UNCHANGED <<blockno, valid, data, locked, disk, pinned>>

-----------------------------------------------------------------------------
Inside(p) ==
    \/ acquiresleep(p) \/ acquiresleep_wait(p) \/ bread(p)
    \/ log_write(p) \/ bwrite(p) \/ bunpin(p) \/ releasesleep(p) \/ brelse(p)

Next ==
    \E p \in Procs :
        \/ Inside(p) \/ install_trans(p) \/ kill(p)
        \/ \E k \in Blocks : bget_hit(p, k) \/ bget_recycle(p, k) \/ bget_panic(p, k)
        \/ \E v \in Vals : modify(p, v)

Spec == Init /\ [][Next]_vars

-----------------------------------------------------------------------------
(* Properties *)

Using == {"bread", "hold", "dirty", "bunpin"}

\* Every variable keeps its type: reference counts never go negative, and the
\* list always has every buffer once (brelse()).
TypeOK ==
    /\ blockno \in [Bufs -> Blocks \union {None}]
    /\ valid \in [Bufs -> {0, 1}]
    /\ refcnt \in [Bufs -> Nat]
    /\ data \in [Bufs -> Vals] /\ disk \in [Blocks -> Vals]
    /\ locked \in [Bufs -> Procs \union {None}]
    /\ lru \in [Bufs -> Bufs] /\ \A m, n \in Bufs : lru[m] = lru[n] => m = n
    /\ pinned \subseteq Blocks
    /\ pc \in [Procs -> {"idle", "acquire", "asleep", "brelse", "panic"} \union Using]
    /\ bp \in [Procs -> 0 .. NBUF]

\* A block is in one buffer at most, also while it is being read: two
\* processes that ask for it share the buffer (bget()).
OneBuffer ==
    \A b, c \in Bufs : blockno[b] = blockno[c] /\ blockno[b] # None => b = c

\* What a block holds for those who read it through the cache.
Contents ==
    [k \in Blocks |->
        IF \E b \in Bufs : blockno[b] = k /\ valid[b] = 1
        THEN data[CHOOSE b \in Bufs : blockno[b] = k /\ valid[b] = 1]
        ELSE disk[k]]

Holder ==
    [k \in Blocks |->
        IF \E p \in Procs : pc[p] \in Using /\ blockno[bp[p]] = k
        THEN CHOOSE p \in Procs : pc[p] \in Using /\ blockno[bp[p]] = k
        ELSE None]

Store == INSTANCE BlockStore WITH contents <- Contents, holder <- Holder

\* bread() to brelse() is exclusive use of the block asked for, and shows the
\* last contents it was given: recycling a buffer (bget()) never loses or
\* changes a block, as long as the log pins what it has yet to write.
BufferIsBlock == Store!Spec

\* Nobody sleeps in acquiresleep() on a lock that is free: releasesleep()
\* wakes all who wait for it.
SleeperHasHolder ==
    \A p \in Procs : pc[p] = "asleep" => locked[bp[p]] # None

\* A buffer's reference count is the number of its users, plus one while the
\* log has its block pinned: references are given back by brelse() and
\* bunpin() on every path, so bget() panics only when every buffer is in use.
ReferencesExact ==
    \A b \in Bufs :
        refcnt[b] = Cardinality({p \in Procs : bp[p] = b})
                    + (IF blockno[b] \in pinned THEN 1 ELSE 0)

\* The buffers are exact: one for each block in use, with a reference for each
\* use.
BuffersExact == TypeOK /\ OneBuffer /\ ReferencesExact
=============================================================================
