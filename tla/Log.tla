-------------------------------- MODULE Log --------------------------------
(***************************************************************************)
(* The write-ahead log of kernel/log.c: group commit of concurrent file    *)
(* system calls, crash and recovery.                                       *)
(*                                                                         *)
(* Grain.  Everything done while log.lock is held is one step.  commit()   *)
(* runs without the lock, so each bwrite() it makes is a step of its own   *)
(* and a crash may come between any two of them.  A block write is atomic  *)
(* (virtio completes a whole BSIZE block or nothing).                      *)
(*                                                                         *)
(* The buffer cache appears as far as the log depends on it: cache[b] is   *)
(* the valid buffer of home block b, NoBuf when b is not cached; a buffer  *)
(* that nobody pins may be recycled at any time (bget).  Buffers of the    *)
(* log's own blocks are always written through, so they equal the disk and *)
(* are left out.                                                           *)
(***************************************************************************)
EXTENDS Integers, Sequences, FiniteSets

CONSTANTS Procs,        \* processes that make file system calls
          Blocks,       \* home blocks
          Vals,         \* block contents
          InitImage,    \* what mkfs wrote to the home blocks
          Zero,         \* contents of a zeroed block
          NoBuf,        \* block is not in the buffer cache
          MAXOPBLOCKS,  \* param.h: blocks a call reserves in begin_op()
          LOGSIZE,      \* param.h: length of the block array in the header
          nlog,         \* superblock: log blocks on disk, header included
          OpBlocks      \* distinct blocks a call really writes

ASSUME ConstAssumption ==
    /\ MAXOPBLOCKS \in Nat \ {0}
    /\ LOGSIZE \in Nat /\ MAXOPBLOCKS <= LOGSIZE
    /\ nlog \in Nat \ {0}
    /\ OpBlocks \in 0 .. MAXOPBLOCKS
    /\ InitImage \in [Blocks -> Vals]
    /\ Zero \in Vals
    /\ NoBuf \notin Vals

ASSUME ProcsFinite == IsFiniteSet(Procs)

VARIABLES
    outstanding,  \* log.outstanding
    committing,   \* log.committing
    lh,           \* log.lh: block[0..n-1] as a sequence
    cache,        \* valid buffers
    pins,         \* references taken by bpin()
    home,         \* disk: home blocks
    logd,         \* disk: log data blocks, slot i at log.start+i
    hd,           \* disk: log header
    pc,           \* where each process is
    tail,         \* loop index of write_log() and install_trans()
    wrote,        \* blocks the call of each process has written
    boot,         \* progress of recover_from_log() after a (re)boot
    btail         \* loop index of its install_trans()

memvars == <<outstanding, committing, lh, cache, pins>>
diskvars == <<home, logd, hd>>
procvars == <<pc, tail, wrote>>
bootvars == <<boot, btail>>
vars == <<memvars, diskvars, procvars, bootvars>>

Slots == 1 .. nlog - 1

\* Processes inside commit(), and inside begin_op()..end_op() bookkeeping.
CommitPcs == {"commit", "write_log", "install"}
Pcs == {"idle", "asleep", "woken", "op", "finish", "panic"} \union CommitPcs

ElemsOf(s) == {s[i] : i \in DOMAIN s}

\* bread(): the cached buffer if there is one, the disk block otherwise.
BufRead(b) == IF cache[b] = NoBuf THEN home[b] ELSE cache[b]

-----------------------------------------------------------------------------
Init ==
    /\ outstanding = 0
    /\ committing = 0
    /\ lh = <<>>
    /\ cache = [b \in Blocks |-> NoBuf]
    /\ pins = [b \in Blocks |-> 0]
    /\ home = InitImage
    /\ logd = [i \in Slots |-> Zero]
    /\ hd = <<>>
    /\ pc = [p \in Procs |-> "idle"]
    /\ tail = [p \in Procs |-> 1]
    /\ wrote = [p \in Procs |-> {}]
    /\ boot = "read_head"
    /\ btail = 1

-----------------------------------------------------------------------------
(* begin_op() and end_op() *)

\* Mutant: the committing test of begin_op() is dropped.
MayBeginDuringCommit ==
    Len(lh) + (outstanding + 1) * MAXOPBLOCKS <= LOGSIZE

\* The two conditions of begin_op()'s loop under which it does not sleep.
MayBegin ==
    /\ committing = 0
    /\ Len(lh) + (outstanding + 1) * MAXOPBLOCKS <= LOGSIZE

begin_op(p) ==
    /\ boot = "done"
    /\ pc[p] \in {"idle", "woken"}
    /\ MayBegin
    /\ outstanding' = outstanding + 1
    /\ pc' = [pc EXCEPT ![p] = "op"]
    /\ UNCHANGED <<committing, lh, cache, pins, diskvars, tail, wrote, bootvars>>

begin_op_sleep(p) ==
    /\ boot = "done"
    /\ pc[p] \in {"idle", "woken"}
    /\ ~MayBegin
    /\ pc' = [pc EXCEPT ![p] = "asleep"]
    /\ UNCHANGED <<memvars, diskvars, tail, wrote, bootvars>>

\* wakeup(&log): every sleeper goes round begin_op()'s loop again.
WakeAll(f) == [q \in Procs |-> IF f[q] = "asleep" THEN "woken" ELSE f[q]]

\* Its panic("log.committing") is a violation of CommitExclusive below.
end_op(p) ==
    /\ pc[p] = "op"
    /\ committing = 0
    /\ outstanding' = outstanding - 1
    /\ \/ /\ outstanding' = 0
          /\ committing' = 1
          /\ pc' = [pc EXCEPT ![p] = "commit"]
       \/ /\ outstanding' # 0
          /\ pc' = WakeAll([pc EXCEPT ![p] = "idle"])
          /\ UNCHANGED committing
    /\ wrote' = [wrote EXCEPT ![p] = {}]
    /\ UNCHANGED <<lh, cache, pins, diskvars, tail, bootvars>>

-----------------------------------------------------------------------------
(* bread(), modify, log_write(), brelse() *)

\* log_write()'s two panics are the negation of this.
LogWriteOK ==
    /\ ~(Len(lh) >= LOGSIZE \/ Len(lh) >= nlog - 1)
    /\ outstanding >= 1

\* The call keeps to OpBlocks distinct blocks.
InBudget(p, b) == Cardinality(wrote[p] \union {b}) <= OpBlocks

log_write(p, b, v) ==
    /\ pc[p] = "op"
    /\ InBudget(p, b)
    /\ LogWriteOK
    /\ cache' = [cache EXCEPT ![b] = v]
    /\ wrote' = [wrote EXCEPT ![p] = @ \union {b}]
    /\ IF b \in ElemsOf(lh)
       THEN UNCHANGED <<lh, pins>>
       ELSE /\ lh' = Append(lh, b)
            /\ pins' = [pins EXCEPT ![b] = @ + 1]
    /\ UNCHANGED <<outstanding, committing, diskvars, pc, tail, bootvars>>

log_write_panic(p, b) ==
    /\ pc[p] = "op"
    /\ InBudget(p, b)
    /\ ~LogWriteOK
    /\ pc' = [pc EXCEPT ![p] = "panic"]
    /\ UNCHANGED <<memvars, diskvars, tail, wrote, bootvars>>

\* bget() recycles a buffer with no references.
Recycle(b) ==
    /\ cache[b] # NoBuf
    /\ pins[b] = 0
    /\ cache' = [cache EXCEPT ![b] = NoBuf]
    /\ UNCHANGED <<outstanding, committing, lh, pins, diskvars, procvars, bootvars>>

-----------------------------------------------------------------------------
(* commit() *)

\* Mutant: off by one in the test of log.lh.n.
commit_skips_one(p) ==
    /\ pc[p] = "commit"
    /\ pc' = [pc EXCEPT ![p] = IF Len(lh) > 1 THEN "write_log" ELSE "finish"]
    /\ tail' = [tail EXCEPT ![p] = 1]
    /\ UNCHANGED <<memvars, diskvars, wrote, bootvars>>

commit(p) ==
    /\ pc[p] = "commit"
    /\ pc' = [pc EXCEPT ![p] = IF Len(lh) > 0 THEN "write_log" ELSE "finish"]
    /\ tail' = [tail EXCEPT ![p] = 1]
    /\ UNCHANGED <<memvars, diskvars, wrote, bootvars>>

\* One iteration: copy the cached block to its log slot and write the slot.
write_log(p) ==
    /\ pc[p] = "write_log"
    /\ tail[p] <= Len(lh)
    /\ LET b == lh[tail[p]]
       IN /\ cache' = [cache EXCEPT ![b] = BufRead(b)]
          /\ logd' = [logd EXCEPT ![tail[p]] = BufRead(b)]
    /\ tail' = [tail EXCEPT ![p] = @ + 1]
    /\ UNCHANGED <<outstanding, committing, lh, pins, home, hd, pc, wrote, bootvars>>

\* Mutant: the header is written before the log blocks are.
write_head_early(p) ==
    /\ pc[p] = "write_log"
    /\ hd' = lh
    /\ pc' = [pc EXCEPT ![p] = "install"]
    /\ tail' = [tail EXCEPT ![p] = 1]
    /\ UNCHANGED <<memvars, home, logd, wrote, bootvars>>

\* The loop is over: the header write is the commit point.
write_head(p) ==
    /\ pc[p] = "write_log"
    /\ tail[p] > Len(lh)
    /\ hd' = lh
    /\ pc' = [pc EXCEPT ![p] = "install"]
    /\ tail' = [tail EXCEPT ![p] = 1]
    /\ UNCHANGED <<memvars, home, logd, wrote, bootvars>>

\* One iteration of install_trans(0): log slot to home block, then bunpin().
install_trans(p) ==
    /\ pc[p] = "install"
    /\ tail[p] <= Len(lh)
    /\ LET b == lh[tail[p]]
       IN /\ cache' = [cache EXCEPT ![b] = logd[tail[p]]]
          /\ home' = [home EXCEPT ![b] = logd[tail[p]]]
          /\ pins' = [pins EXCEPT ![b] = @ - 1]
    /\ tail' = [tail EXCEPT ![p] = @ + 1]
    /\ UNCHANGED <<outstanding, committing, lh, logd, hd, pc, wrote, bootvars>>

\* The loop is over: log.lh.n = 0, and the second write_head() erases the
\* transaction.  Nobody else looks at log.lh between the two.
clear_head(p) ==
    /\ pc[p] = "install"
    /\ tail[p] > Len(lh)
    /\ lh' = <<>>
    /\ hd' = <<>>
    /\ pc' = [pc EXCEPT ![p] = "finish"]
    /\ tail' = [tail EXCEPT ![p] = 1]
    /\ UNCHANGED <<outstanding, committing, cache, pins, home, logd, wrote, bootvars>>

\* Mutant: the wakeup(&log) after the commit is missing.
end_commit_silent(p) ==
    /\ pc[p] = "finish"
    /\ committing' = 0
    /\ pc' = [pc EXCEPT ![p] = "idle"]
    /\ UNCHANGED <<outstanding, lh, cache, pins, diskvars, tail, wrote, bootvars>>

\* The end of end_op() for the process that committed.
end_commit(p) ==
    /\ pc[p] = "finish"
    /\ committing' = 0
    /\ pc' = WakeAll([pc EXCEPT ![p] = "idle"])
    /\ UNCHANGED <<outstanding, lh, cache, pins, diskvars, tail, wrote, bootvars>>

-----------------------------------------------------------------------------
(* Crash and recovery.  forkret() runs fsinit() -> initlog() ->            *)
(* recover_from_log() in the first process before any user code runs.      *)

\* Power is lost: memory goes, the disk stays.
Crash ==
    /\ outstanding' = 0
    /\ committing' = 0
    /\ lh' = <<>>
    /\ cache' = [b \in Blocks |-> NoBuf]
    /\ pins' = [b \in Blocks |-> 0]
    /\ pc' = [p \in Procs |-> "idle"]
    /\ tail' = [p \in Procs |-> 1]
    /\ wrote' = [p \in Procs |-> {}]
    /\ boot' = "read_head"
    /\ btail' = 1
    /\ UNCHANGED diskvars

read_head ==
    /\ boot = "read_head"
    /\ lh' = hd
    /\ boot' = "install"
    /\ btail' = 1
    /\ UNCHANGED <<outstanding, committing, cache, pins, diskvars, procvars>>

\* One iteration of install_trans(1): no bunpin().
recover_install ==
    /\ boot = "install"
    /\ btail <= Len(lh)
    /\ LET b == lh[btail]
       IN /\ cache' = [cache EXCEPT ![b] = logd[btail]]
          /\ home' = [home EXCEPT ![b] = logd[btail]]
    /\ btail' = btail + 1
    /\ UNCHANGED <<outstanding, committing, lh, pins, logd, hd, procvars, boot>>

recover_clear_head ==
    /\ boot = "install"
    /\ btail > Len(lh)
    /\ lh' = <<>>
    /\ hd' = <<>>
    /\ boot' = "done"
    /\ btail' = 1
    /\ UNCHANGED <<outstanding, committing, cache, pins, home, logd, procvars>>

-----------------------------------------------------------------------------
ProcStep(p) ==
    \/ begin_op(p)
    \/ begin_op_sleep(p)
    \/ end_op(p)
    \/ \E b \in Blocks : log_write_panic(p, b)
    \/ \E b \in Blocks, v \in Vals : log_write(p, b, v)
    \/ commit(p)
    \/ write_log(p)
    \/ write_head(p)
    \/ install_trans(p)
    \/ clear_head(p)
    \/ end_commit(p)

Recover ==
    \/ read_head
    \/ recover_install
    \/ recover_clear_head

Next ==
    \/ \E p \in Procs : ProcStep(p)
    \/ \E b \in Blocks : Recycle(b)
    \/ Recover
    \/ Crash

Spec == Init /\ [][Next]_vars

\* The kernel is preemptive and every process is scheduled again and again:
\* a process inside the log's code keeps going, and a call that has begun
\* reaches its end_op().  Nobody is obliged to start a new call.
Progress(p) ==
    \/ pc[p] = "woken" /\ (begin_op(p) \/ begin_op_sleep(p))
    \/ end_op(p) \/ commit(p) \/ write_log(p)
    \/ write_head(p) \/ install_trans(p) \/ clear_head(p) \/ end_commit(p)

LiveSpec == Spec /\ (\A p \in Procs : WF_vars(Progress(p))) /\ WF_vars(Recover)

-----------------------------------------------------------------------------
(* Properties *)

\* Every variable keeps its type: the header, in memory and on disk, never
\* holds more entries than the log has data blocks (log_write's check).
TypeOK ==
    /\ outstanding \in Nat
    /\ committing \in {0, 1}
    /\ lh \in Seq(Blocks) /\ Len(lh) <= nlog - 1
    /\ cache \in [Blocks -> Vals \union {NoBuf}]
    /\ pins \in [Blocks -> Nat]
    /\ home \in [Blocks -> Vals]
    /\ logd \in [Slots -> Vals]
    /\ hd \in Seq(Blocks) /\ Len(hd) <= nlog - 1
    /\ pc \in [Procs -> Pcs]
    /\ tail \in [Procs -> Nat \ {0}]
    /\ wrote \in [Procs -> SUBSET Blocks]
    /\ boot \in {"read_head", "install", "done"}
    /\ btail \in Nat \ {0}

InOp == {p \in Procs : pc[p] = "op"}
Counted == {p \in Procs : pc[p] \in {"op", "panic"}}
InCommit == {p \in Procs : pc[p] \in CommitPcs \union {"finish"}}

\* Home blocks d with the log slots l written over the blocks that header h
\* names.
Overlay(h, l, d) ==
    [b \in Blocks |->
        IF \E i \in 1 .. Len(h) : h[i] = b
        THEN l[CHOOSE i \in 1 .. Len(h) : h[i] = b]
        ELSE d[b]]

\* The image that recover_from_log() would rebuild from the disk alone.
Durable == Overlay(hd, logd, home)

\* The image the running system reads; before recovery has finished nobody
\* reads anything but what recovery will produce.
Current == IF boot = "done" THEN [b \in Blocks |-> BufRead(b)] ELSE Durable

Abstract == INSTANCE AtomicDisk
                WITH durable <- Durable, current <- Current, active <- InOp

\* log.c's promise: whatever the interleaving of calls, commits, buffer
\* recycling and crashes (crashes during recovery included), the disk only
\* moves from one image without a half-done call to the next (commit(),
\* recover_from_log()).
CrashAtomic == Abstract!Spec

\* "The logging system only commits when there are no FS system calls
\* active" (head of log.c): while a process is in commit() there is no call
\* between begin_op() and end_op(), and no second committer.
CommitExclusive ==
    InCommit # {} => InOp = {} /\ Cardinality(InCommit) = 1

\* When the last call has returned from end_op() and nothing is being
\* committed, everything written so far survives a crash.
QuiescentDurable ==
    boot = "done" /\ committing = 0 /\ outstanding = 0 => Durable = Current

\* begin_op() reserves MAXOPBLOCKS slots for each call, so
\* log_write() does not panic: the log never fills up under a call.
ReservationSuffices == \A p \in Procs : pc[p] # "panic"

\* Nobody is left asleep in begin_op() with no one to wake them: there is a
\* call still to end or a commit still to finish (or a call has panicked).
NoStrandedSleeper ==
    (\E p \in Procs : pc[p] = "asleep") => Counted # {} \/ InCommit # {}

\* Every process that sleeps in begin_op() is woken to try again.
SleepersWoken ==
    \A p \in Procs : pc[p] = "asleep" ~> pc[p] # "asleep"
=============================================================================
