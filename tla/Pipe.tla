-------------------------------- MODULE Pipe --------------------------------
(***************************************************************************)
(* kernel/pipe.c: one pipe, the processes that hold its two ends, and the  *)
(* calls read(), write(), close() and kill() they make.                    *)
(*                                                                         *)
(* Grain.  pi->lock excludes the other pipe calls; an iteration of a loop  *)
(* is a step, because killed() and copyin()/copyout() may go differently   *)
(* in each.  sleep() is atomic (module Proc is about why).                 *)
(*                                                                         *)
(* nread and nwrite are C uints: they wrap at UINT, 2^32 in the code.      *)
(***************************************************************************)
EXTENDS Integers, Sequences, FiniteSets

CONSTANTS Readers, Writers,  \* processes that hold a read / a write end
          Killable,          \* processes that kill() may name
          Bytes,             \* values of a byte
          PIPESIZE,
          UINT,              \* modulus of uint arithmetic
          MaxN,              \* bound: largest n of read() and write()
          None

Procs == Readers \union Writers

ASSUME PipeAssumption ==
    /\ PIPESIZE \in Nat \ {0}
    /\ UINT \in Nat \ {0} /\ PIPESIZE < UINT /\ UINT % PIPESIZE = 0
    /\ MaxN \in Nat
    /\ Bytes # {}
    /\ Readers \intersect Writers = {}
    /\ None \notin Procs

VARIABLES
    data, nread, nwrite, readopen, writeopen,  \* struct pipe
    alloc,     \* 1 until kfree((char*)pi)
    lock,      \* holder of pi->lock, or None
    ch,        \* last byte piperead() took out
    open,      \* processes that still hold their end
    killed,
    pc, i, n   \* where a process is; loop counter and argument of its call

pipevars == <<data, nread, nwrite, readopen, writeopen, alloc>>
vars == <<pipevars, lock, ch, open, killed, pc, i, n>>

\* pipealloc(), and fork() has handed the ends out.
Init ==
    /\ data \in [0 .. PIPESIZE - 1 -> Bytes]
    /\ nread = 0 /\ nwrite = 0
    /\ readopen = 1 /\ writeopen = 1
    /\ alloc = 1
    /\ lock = None
    /\ ch \in Bytes
    /\ open = Procs
    /\ killed = [p \in Procs |-> 0]
    /\ pc = [p \in Procs |-> "user"]
    /\ i = [p \in Procs |-> 0]
    /\ n = [p \in Procs |-> 0]

Empty == nread = nwrite
\* Mutant: room for one byte too many.
FullLate == nwrite = (nread + PIPESIZE + 1) % UINT

Full == nwrite = (nread + PIPESIZE) % UINT

\* wakeup(&pi->nread), wakeup(&pi->nwrite): sleepers go on to take the lock.
WakeReaders(f) == [p \in Procs |-> IF f[p] = "r_asleep" THEN "r_lock" ELSE f[p]]
WakeWriters(f) == [p \in Procs |-> IF f[p] = "w_asleep" THEN "w_lock" ELSE f[p]]

\* sleep(), after the test of killed(): a kill() in between wakes nobody.
sleep(p) ==
    /\ pc[p] \in {"w_sleep", "r_sleep"}
    /\ pc' = [pc EXCEPT ![p] = IF @ = "w_sleep" THEN "w_asleep" ELSE "r_asleep"]
    /\ lock' = None
    /\ UNCHANGED <<pipevars, ch, open, killed, i, n>>

call(p, m) ==
    /\ pc[p] = "user" /\ p \in open /\ killed[p] = 0
    /\ pc' = [pc EXCEPT ![p] = IF p \in Readers THEN "r_lock" ELSE "w_lock"]
    /\ n' = [n EXCEPT ![p] = m]
    /\ UNCHANGED <<pipevars, lock, ch, open, killed, i>>

\* release(&pi->lock) and return to user space.
return(p) ==
    /\ lock' = None
    /\ i' = [i EXCEPT ![p] = 0]
    /\ n' = [n EXCEPT ![p] = 0]

-----------------------------------------------------------------------------
(* pipewrite() *)

w_lock(p) ==
    /\ pc[p] = "w_lock" /\ lock = None
    /\ lock' = p
    /\ pc' = [pc EXCEPT ![p] = "w_loop"]
    /\ UNCHANGED <<pipevars, ch, open, killed, i, n>>

\* Nobody will read, or the writer has been killed: -1.
w_fail(p) ==
    /\ pc[p] = "w_loop" /\ i[p] < n[p]
    /\ readopen = 0 \/ killed[p] = 1
    /\ return(p)
    /\ pc' = [pc EXCEPT ![p] = "user"]
    /\ UNCHANGED <<pipevars, ch, open, killed>>

w_full(p) ==
    /\ pc[p] = "w_loop" /\ i[p] < n[p]
    /\ readopen = 1 /\ killed[p] = 0
    /\ Full
    /\ pc' = WakeReaders([pc EXCEPT ![p] = "w_sleep"])
    /\ UNCHANGED <<pipevars, lock, ch, open, killed, i, n>>

\* Mutant: nwrite is compared and stored without the wrap of a uint.
w_byte_nowrap(p, b) ==
    /\ pc[p] = "w_loop" /\ i[p] < n[p]
    /\ readopen = 1 /\ killed[p] = 0
    /\ ~Full
    /\ data' = [data EXCEPT ![nwrite % PIPESIZE] = b]
    /\ nwrite' = nwrite + 1
    /\ i' = [i EXCEPT ![p] = @ + 1]
    /\ UNCHANGED <<nread, readopen, writeopen, alloc, lock, ch, open, killed, pc, n>>

w_byte(p, b) ==
    /\ pc[p] = "w_loop" /\ i[p] < n[p]
    /\ readopen = 1 /\ killed[p] = 0
    /\ ~Full
    /\ data' = [data EXCEPT ![nwrite % PIPESIZE] = b]
    /\ nwrite' = (nwrite + 1) % UINT
    /\ i' = [i EXCEPT ![p] = @ + 1]
    /\ UNCHANGED <<nread, readopen, writeopen, alloc, lock, ch, open, killed, pc, n>>

\* All n bytes are in the pipe, or copyin() failed.
w_done(p) ==
    /\ pc[p] = "w_loop"
    /\ i[p] < n[p] => readopen = 1 /\ killed[p] = 0 /\ ~Full
    /\ pc' = WakeReaders([pc EXCEPT ![p] = "user"])
    /\ return(p)
    /\ UNCHANGED <<pipevars, ch, open, killed>>

-----------------------------------------------------------------------------
(* piperead() *)

r_lock(p) ==
    /\ pc[p] = "r_lock" /\ lock = None
    /\ lock' = p
    /\ pc' = [pc EXCEPT ![p] = "r_loop"]
    /\ UNCHANGED <<pipevars, ch, open, killed, i, n>>

r_killed(p) ==
    /\ pc[p] = "r_loop"
    /\ Empty /\ writeopen = 1 /\ killed[p] = 1
    /\ return(p)
    /\ pc' = [pc EXCEPT ![p] = "user"]
    /\ UNCHANGED <<pipevars, ch, open, killed>>

r_empty(p) ==
    /\ pc[p] = "r_loop"
    /\ Empty /\ writeopen = 1 /\ killed[p] = 0
    /\ pc' = [pc EXCEPT ![p] = "r_sleep"]
    /\ UNCHANGED <<pipevars, lock, ch, open, killed, i, n>>

r_ready(p) ==
    /\ pc[p] = "r_loop"
    /\ ~Empty \/ writeopen = 0
    /\ pc' = [pc EXCEPT ![p] = "r_copy"]
    /\ UNCHANGED <<pipevars, lock, ch, open, killed, i, n>>

\* One byte; if copyout() fails it is gone, and the loop ends.
r_byte(p) ==
    /\ pc[p] = "r_copy" /\ i[p] < n[p] /\ ~Empty
    /\ ch' = data[nread % PIPESIZE]
    /\ nread' = (nread + 1) % UINT
    /\ \/ i' = [i EXCEPT ![p] = @ + 1] /\ UNCHANGED <<pc, lock, n>>
       \/ return(p) /\ pc' = WakeWriters([pc EXCEPT ![p] = "user"])
    /\ UNCHANGED <<data, nwrite, readopen, writeopen, alloc, open, killed>>

\* Mutant: writers are woken only when the pipe has been drained.
r_done_drained(p) ==
    /\ pc[p] = "r_copy"
    /\ i[p] = n[p] \/ Empty
    /\ pc' = IF Empty THEN WakeWriters([pc EXCEPT ![p] = "user"])
             ELSE [pc EXCEPT ![p] = "user"]
    /\ return(p)
    /\ UNCHANGED <<pipevars, ch, open, killed>>

r_done(p) ==
    /\ pc[p] = "r_copy"
    /\ i[p] = n[p] \/ Empty
    /\ pc' = WakeWriters([pc EXCEPT ![p] = "user"])
    /\ return(p)
    /\ UNCHANGED <<pipevars, ch, open, killed>>

-----------------------------------------------------------------------------
(* close(): fileclose() calls pipeclose() for the last descriptor of an end *)

End(p) == IF p \in Readers THEN Readers ELSE Writers

close(p) ==
    /\ pc[p] = "user" /\ p \in open
    /\ open' = open \ {p}
    /\ pc' = [pc EXCEPT ![p] = IF open' \intersect End(p) = {} THEN "close" ELSE "user"]
    /\ UNCHANGED <<pipevars, lock, ch, killed, i, n>>

\* Mutant: the pipe is freed when one end is closed.
pipeclose_early(p) ==
    /\ pc[p] = "close" /\ lock = None
    /\ IF p \in Writers
       THEN /\ writeopen' = 0
            /\ pc' = WakeReaders([pc EXCEPT ![p] = "user"])
            /\ UNCHANGED readopen
       ELSE /\ readopen' = 0
            /\ pc' = WakeWriters([pc EXCEPT ![p] = "user"])
            /\ UNCHANGED writeopen
    /\ alloc' = IF readopen' = 0 \/ writeopen' = 0 THEN 0 ELSE alloc
    /\ UNCHANGED <<data, nread, nwrite, lock, ch, open, killed, i, n>>

\* Mutant: the wakeup() calls are missing.
pipeclose_silent(p) ==
    /\ pc[p] = "close" /\ lock = None
    /\ IF p \in Writers
       THEN writeopen' = 0 /\ UNCHANGED readopen
       ELSE readopen' = 0 /\ UNCHANGED writeopen
    /\ pc' = [pc EXCEPT ![p] = "user"]
    /\ alloc' = IF readopen' = 0 /\ writeopen' = 0 THEN 0 ELSE alloc
    /\ UNCHANGED <<data, nread, nwrite, lock, ch, open, killed, i, n>>

pipeclose(p) ==
    /\ pc[p] = "close" /\ lock = None
    /\ IF p \in Writers
       THEN /\ writeopen' = 0
            /\ pc' = WakeReaders([pc EXCEPT ![p] = "user"])
            /\ UNCHANGED readopen
       ELSE /\ readopen' = 0
            /\ pc' = WakeWriters([pc EXCEPT ![p] = "user"])
            /\ UNCHANGED writeopen
    /\ alloc' = IF readopen' = 0 /\ writeopen' = 0 THEN 0 ELSE alloc
    /\ UNCHANGED <<data, nread, nwrite, lock, ch, open, killed, i, n>>

\* kill(): a sleeper is made runnable and finds killed() set.
kill(p) ==
    /\ killed[p] = 0 /\ p \in open
    /\ killed' = [killed EXCEPT ![p] = 1]
    /\ pc' = [pc EXCEPT ![p] = IF @ = "r_asleep" THEN "r_lock"
                               ELSE IF @ = "w_asleep" THEN "w_lock" ELSE @]
    /\ UNCHANGED <<pipevars, lock, ch, open, i, n>>

-----------------------------------------------------------------------------
PipeStep(p) ==
    \/ w_lock(p) \/ w_fail(p) \/ w_full(p) \/ w_done(p)
    \/ \E b \in Bytes : w_byte(p, b)
    \/ sleep(p) \/ r_lock(p) \/ r_killed(p) \/ r_empty(p) \/ r_ready(p) \/ r_byte(p) \/ r_done(p)
    \/ pipeclose(p)

Next ==
    \/ \E p \in Procs : PipeStep(p) \/ close(p) \/ \E m \in 0 .. MaxN : call(p, m)
    \/ \E p \in Killable : kill(p)

Spec == Init /\ [][Next]_vars

-----------------------------------------------------------------------------
(* Properties *)

\* Every variable keeps its type; the counters stay in the range of a uint.
TypeOK ==
    /\ data \in [0 .. PIPESIZE - 1 -> Bytes]
    /\ nread \in 0 .. UINT - 1 /\ nwrite \in 0 .. UINT - 1
    /\ readopen \in {0, 1} /\ writeopen \in {0, 1} /\ alloc \in {0, 1}
    /\ lock \in Procs \union {None} /\ ch \in Bytes
    /\ open \subseteq Procs /\ killed \in [Procs -> {0, 1}]
    /\ pc \in [Procs -> {"user", "close", "w_lock", "w_loop", "w_sleep", "w_asleep",
                         "r_lock", "r_loop", "r_sleep", "r_asleep", "r_copy"}]
    /\ i \in [Procs -> 0 .. MaxN] /\ n \in [Procs -> 0 .. MaxN]

\* Bytes in the pipe, oldest first.
Contents ==
    [k \in 1 .. (nwrite - nread) % UINT |-> data[(nread + k - 1) % PIPESIZE]]

Fifo == INSTANCE BoundedFifo WITH Capacity <- PIPESIZE, queue <- Contents, got <- ch

\* A pipe is a bounded FIFO of bytes whatever readers, writers, closes and
\* kills interleave, also when nread and nwrite wrap around (pipewrite(),
\* piperead()).
PipeIsFifo == Fifo!Spec

\* pipeclose() frees the pipe only when nobody can be inside a call on it.
NoUseAfterFree ==
    \A p \in Procs : pc[p] # "user" => alloc = 1

\* Nobody sleeps in pipewrite() unless the pipe is full and may be read:
\* piperead() and pipeclose() wake the writers before they release the lock.
WriterSleepsOnFull ==
    lock = None => \A p \in Procs : pc[p] = "w_asleep" => Full /\ readopen = 1

\* Nobody sleeps in piperead() unless the pipe is empty and may be written
\* (the loop condition of piperead(), "pipe-empty").
ReaderSleepsOnEmpty ==
    lock = None => \A p \in Procs : pc[p] = "r_asleep" => Empty /\ writeopen = 1

\* What holds of a sleeping reader with kill() about: the write end is open,
\* and if there is something to read, a writer has been killed (it stored the
\* bytes and returned from pipewrite() without its wakeup).
ReaderSleepsOnKill ==
    lock = None =>
        \A p \in Procs : pc[p] = "r_asleep" =>
            /\ writeopen = 1
            /\ Empty \/ \E w \in Writers : killed[w] = 1
=============================================================================
