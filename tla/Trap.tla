-------------------------------- MODULE Trap --------------------------------
(***************************************************************************)
(* Harts, traps and spin-locks: boot (kernel/start.c, kernel/main.c), the  *)
(* trap handlers of kernel/trap.c, acquire() and release() with push_off() *)
(* and pop_off() of kernel/spinlock.c, and the context switches of         *)
(* kernel/proc.c that carry them from hart to hart.                        *)
(*                                                                         *)
(* A thread (a process in the kernel, or the scheduler of a hart) has a    *)
(* stack of frames.  A frame is what is left of a function, as a sequence  *)
(* of instructions <<op, arg>> at the grain at which interrupts and other  *)
(* harts come between; an interrupt pushes a frame.  A process with no     *)
(* frame is in user space.  Kernel code is what a few system calls do with *)
(* locks: sys_uptime(), one round of sys_sleep(), and a driver that calls  *)
(* killed() with its own lock held, as consoleread() does.                 *)
(***************************************************************************)
EXTENDS Integers, Sequences, FiniteSets
LOCAL INSTANCE SequencesExt

CONSTANTS Harts, hart0,  \* hart0 runs most of main()
          Procs,
          Calls,         \* system calls: subset of {"uptime", "sleep", "driver", "fault"}
          MaxTraps       \* bound on traps from user space, timer and device interrupts

Locks == Procs \union {"ticks", "dev"}      \* p->lock has the name of p
Nil == "none"

VARIABLES csr,      \* sie, spp, spie, sepc and stvec of each hart
          cpu,      \* noff and intena of struct cpu
          run,      \* the thread on each hart: a process, or the hart's own name
          stk,      \* frames of each thread, the top one first
          locked, lkcpu,     \* struct spinlock
          state, killed, asleep, \* struct proc; asleep: p->chan = &ticks
          ticks,
          tpend,    \* sip.SSIP of each hart
          irq,      \* PLIC: "none", "raised", "claimed"
          started,  \* main.c
          inited,   \* the locks that initlock() has set up
          traps, panicked

vars == <<csr, cpu, run, stk, locked, lkcpu, state, killed, asleep, ticks, tpend, irq,
          started, inited, traps, panicked>>
locks == <<locked, lkcpu>>
procs == <<state, killed, asleep>>
world == <<ticks, tpend, irq, started, inited, traps>>

-----------------------------------------------------------------------------
(* Code *)

acquire(l) == <<<<"intr_get", l>>, <<"push_off", l>>, <<"swap", l>>, <<"set_cpu", l>>>>
release(l) == <<<<"clear_cpu", l>>, <<"unlock", l>>, <<"pop_off", l>>>>

sched(p) == <<<<"sched", p>>, <<"set_intena", p>>>>
yield(p) == acquire(p) \o <<<<"runnable", p>>>> \o sched(p) \o release(p)
sleep(p) == acquire(p) \o release("ticks") \o <<<<"sleeping", p>>>> \o sched(p)
            \o release(p) \o acquire("ticks")

\* Mutant: as usertrapret() might be if interrupts were left on.
usertrapret_on == <<<<"stvec", "uservec">>, <<"sstatus", "u">>, <<"sret", "u">>>>

usertrapret == <<<<"intr_off", Nil>>, <<"stvec", "uservec">>, <<"sstatus", "u">>, <<"sret", "u">>>>

\* What each system call does between intr_on() and the return from syscall().
syscall(p, c) ==
    CASE c = "uptime" -> acquire("ticks") \o release("ticks")
      [] c = "sleep" -> acquire("ticks") \o sleep(p) \o release("ticks")
      [] c = "driver" -> acquire("dev") \o acquire(p) \o release(p) \o release("dev")

\* A loop over some processes, in a fixed order as over proc[].
ForAll(Op(_), S) == LET ps == SetToSeq(S) IN FlattenSeq([k \in DOMAIN ps |-> Op(ps[k])])

\* wakeup() locks every process except the one that calls it.
wakeup_one(q) == acquire(q) \o <<<<"wakeup", q>>>> \o release(q)
clockintr(me) == acquire("ticks") \o <<<<"tick", Nil>>>> \o ForAll(wakeup_one, Procs \ {me}) \o release("ticks")

\* me is myproc(), or the hart.
devintr(h, me, cause) ==
    IF cause = "dev" THEN <<<<"plic_claim", Nil>>>>
    ELSE (IF h = hart0 THEN clockintr(me) ELSE <<>>) \o <<<<"ack", Nil>>>>

kerneltrap(h, me, cause) ==
    <<<<"kerneltrap", Nil>>>> \o devintr(h, me, cause)
    \o (IF cause = "timer" THEN <<<<"kyield", Nil>>>> ELSE <<>>)
    \o <<<<"restore", Nil>>, <<"sret", "s">>>>

usertrap(h, p, cause) ==
    <<<<"usertrap", Nil>>>>
    \o (IF cause = "fault" THEN <<<<"setkilled", p>>>>
        ELSE IF cause \in {"timer", "dev"} THEN devintr(h, p, cause)
        ELSE <<<<"killed", p>>, <<"intr_on", Nil>>>> \o syscall(p, cause))
    \o <<<<"killed", p>>>>
    \o (IF cause = "timer" THEN yield(p) ELSE <<>>) \o usertrapret

Turn(p) == acquire(p) \o <<<<"pick", p>>>> \o release(p)
scheduler == <<<<"intr_on", Nil>>>> \o ForAll(Turn, Procs)

\* userinit(): allocproc() returns with p->lock held.
userinit(p) == acquire(p) \o <<<<"runnable", p>>>> \o release(p)

\* consoleinit(), procinit() and trapinit(): initlock() of each lock.
initlocks == <<<<"initlock", "dev">>>> \o ForAll(LAMBDA p : <<<<"initlock", p>>>>, Procs) \o <<<<"initlock", "ticks">>>>

\* Mutant: as main() might be if the other harts did not wait for started.
main_eager(h) ==
    (IF h = hart0 THEN initlocks \o <<<<"stvec", "kernelvec">>>> \o ForAll(userinit, Procs) \o <<<<"start", Nil>>>>
     ELSE <<<<"stvec", "kernelvec">>>>)
    \o scheduler

\* Mutant: as main() might be if it made the first process before procinit().
main_early(h) ==
    (IF h = hart0 THEN ForAll(userinit, Procs) \o initlocks \o <<<<"stvec", "kernelvec">>, <<"start", Nil>>>>
     ELSE <<<<"wait", Nil>>, <<"stvec", "kernelvec">>>>)
    \o scheduler

\* start() has left every hart in main(), with interrupts off.
main(h) ==
    (IF h = hart0 THEN initlocks \o <<<<"stvec", "kernelvec">>>> \o ForAll(userinit, Procs) \o <<<<"start", Nil>>>>
     ELSE <<<<"wait", Nil>>, <<"stvec", "kernelvec">>>>)
    \o scheduler

forkret(p) == release(p) \o usertrapret

\* Locals of the functions of a frame; sepc is p->trapframe->epc in usertrap().
\* want: whether the code has interrupts on where it holds no lock, if it knows.
Frame(code, want, sepc) == [code |-> code, old |-> FALSE, intena |-> FALSE,
                            sepc |-> sepc, spp |-> Nil, spie |-> FALSE, want |-> want]

Init ==
    /\ csr = [h \in Harts |-> [sie |-> FALSE, spp |-> Nil, spie |-> FALSE, sepc |-> <<>>, stvec |-> Nil]]
    /\ cpu = [h \in Harts |-> [noff |-> 0, intena |-> FALSE]]
    /\ run = [h \in Harts |-> h]
    /\ stk = [t \in Harts \union Procs |-> <<Frame(IF t \in Harts THEN main(t) ELSE forkret(t), "any", <<t, 0>>)>>]
    /\ locked = [l \in Locks |-> FALSE]
    /\ lkcpu = [l \in Locks |-> Nil]
    /\ state = [p \in Procs |-> "UNUSED"]
    /\ killed = [p \in Procs |-> FALSE]
    /\ asleep = [p \in Procs |-> FALSE]
    /\ ticks = 0
    /\ tpend = [h \in Harts |-> FALSE]
    /\ irq = "none"
    /\ started = FALSE /\ inited = {}
    /\ traps = 0 /\ panicked = Nil

-----------------------------------------------------------------------------
(* Running an instruction *)

InKernel(h) == stk[run[h]] # <<>>
Top(h) == Head(stk[run[h]])
At(h, op) == panicked = Nil /\ InKernel(h) /\ Head(Top(h).code)[1] = op
Arg(h) == Head(Top(h).code)[2]
Put(h, frame) == stk' = [stk EXCEPT ![run[h]] = <<frame>> \o Tail(@)]

\* The frame after the instruction; the scheduler's loop starts again.
Rest(h) ==
    LET code == Tail(Top(h).code) IN
    [Top(h) EXCEPT !.code = IF code = <<>> THEN scheduler ELSE code]
Advance(h) == Put(h, Rest(h))
panic(why) == panicked' = why
NoPanic == UNCHANGED panicked
holding(h, l) == locked[l] /\ lkcpu[l] = h

-----------------------------------------------------------------------------
(* spinlock.c *)

\* push_off(): int old = intr_get()
intr_get(h) ==
    /\ At(h, "intr_get")
    /\ Put(h, [Rest(h) EXCEPT !.old = csr[h].sie])
    /\ UNCHANGED <<csr, cpu, run, locks, procs, world, panicked>>

\* Mutant: as push_off() might be if it counted twice.
Pushed_twice(h) == [noff |-> cpu[h].noff + 2, intena |-> cpu[h].intena]

Pushed(h) == [noff |-> cpu[h].noff + 1,
              intena |-> IF cpu[h].noff = 0 THEN Top(h).old ELSE cpu[h].intena]

\* The rest of push_off(), and holding().
push_off(h) ==
    /\ At(h, "push_off")
    /\ csr' = [csr EXCEPT ![h].sie = FALSE]
    /\ cpu' = [cpu EXCEPT ![h] = Pushed(h)]
    /\ IF holding(h, Arg(h)) THEN panic("acquire") ELSE NoPanic
    /\ Advance(h)
    /\ UNCHANGED <<run, locks, procs, world>>

swap(h) ==
    /\ At(h, "swap")
    /\ ~locked[Arg(h)]
    /\ locked' = [locked EXCEPT ![Arg(h)] = TRUE]
    /\ Advance(h)
    /\ UNCHANGED <<csr, cpu, run, lkcpu, procs, world, panicked>>

set_cpu(h) ==
    /\ At(h, "set_cpu")
    /\ lkcpu' = [lkcpu EXCEPT ![Arg(h)] = h]
    /\ Advance(h)
    /\ UNCHANGED <<csr, cpu, run, locked, procs, world, panicked>>

\* Mutant: as release() might be if it left lk->cpu.
Cleared_not(h) == lkcpu

Cleared(h) == [lkcpu EXCEPT ![Arg(h)] = Nil]

clear_cpu(h) ==
    /\ At(h, "clear_cpu")
    /\ IF holding(h, Arg(h)) THEN NoPanic ELSE panic("release")
    /\ lkcpu' = Cleared(h)
    /\ Advance(h)
    /\ UNCHANGED <<csr, cpu, run, locked, procs, world>>

unlock(h) ==
    /\ At(h, "unlock")
    /\ locked' = [locked EXCEPT ![Arg(h)] = FALSE]
    /\ Advance(h)
    /\ UNCHANGED <<csr, cpu, run, lkcpu, procs, world, panicked>>

\* Mutant: as pop_off() might be if it turned interrupts on too early.
Popped_early(h) == cpu[h].intena

\* Does pop_off() turn interrupts on?
Popped(h) == cpu[h].noff = 1 /\ cpu[h].intena

pop_off(h) ==
    /\ At(h, "pop_off")
    /\ IF csr[h].sie \/ cpu[h].noff < 1 THEN panic("pop_off") ELSE NoPanic
    /\ cpu' = [cpu EXCEPT ![h].noff = @ - 1]
    /\ csr' = [csr EXCEPT ![h].sie = Popped(h)]
    /\ Advance(h)
    /\ UNCHANGED <<run, locks, procs, world>>

-----------------------------------------------------------------------------
(* Context switches *)

pick(h) ==
    LET p == Arg(h) IN
    /\ At(h, "pick")
    /\ IF state[p] = "RUNNABLE"
       THEN /\ state' = [state EXCEPT ![p] = "RUNNING"]
            /\ run' = [run EXCEPT ![h] = p]
       ELSE UNCHANGED <<state, run>>
    /\ Advance(h)
    /\ UNCHANGED <<csr, cpu, locks, killed, asleep, world, panicked>>

runnable(h) ==
    /\ At(h, "runnable")
    /\ state' = [state EXCEPT ![Arg(h)] = "RUNNABLE"]
    /\ Advance(h)
    /\ UNCHANGED <<csr, cpu, run, locks, killed, asleep, world, panicked>>

sleeping(h) ==
    /\ At(h, "sleeping")
    /\ state' = [state EXCEPT ![Arg(h)] = "SLEEPING"]
    /\ asleep' = [asleep EXCEPT ![Arg(h)] = TRUE]
    /\ Advance(h)
    /\ UNCHANGED <<csr, cpu, run, locks, killed, world, panicked>>

\* sched(): its tests, intena = mycpu()->intena, and swtch().
sched_swtch(h) ==
    LET p == Arg(h) IN
    /\ At(h, "sched")
    /\ IF holding(h, p) /\ cpu[h].noff = 1 /\ state[p] # "RUNNING" /\ ~csr[h].sie
       THEN NoPanic ELSE panic("sched")
    /\ Put(h, [Rest(h) EXCEPT !.intena = cpu[h].intena])
    /\ run' = [run EXCEPT ![h] = h]
    /\ UNCHANGED <<csr, cpu, locks, procs, world>>

\* Mutant: as sched() might be if it did not restore intena.
Restored_not(h) == cpu[h].intena

Restored(h) == Top(h).intena

\* sched(): mycpu()->intena = intena, on the hart that runs the thread now.
set_intena(h) ==
    /\ At(h, "set_intena")
    /\ cpu' = [cpu EXCEPT ![h].intena = Restored(h)]
    /\ asleep' = [asleep EXCEPT ![Arg(h)] = FALSE]
    /\ Advance(h)
    /\ UNCHANGED <<csr, run, locks, state, killed, world, panicked>>

wakeup(h) ==
    /\ At(h, "wakeup")
    /\ state' = [state EXCEPT ![Arg(h)] = IF @ = "SLEEPING" /\ asleep[Arg(h)] THEN "RUNNABLE" ELSE @]
    /\ Advance(h)
    /\ UNCHANGED <<csr, cpu, run, locks, killed, asleep, world, panicked>>

-----------------------------------------------------------------------------
(* Traps.  The point a trap came from is its thread and the depth of its stack *)

Here(h) == <<run[h], Len(stk[run[h]])>>

\* What the hardware does on a trap, to the code for the cause.
trap(h, code) ==
    /\ csr' = [csr EXCEPT ![h].spie = csr[h].sie, ![h].sie = FALSE, ![h].sepc = Here(h),
                          ![h].spp = IF InKernel(h) THEN "s" ELSE "u"]
    /\ stk' = [stk EXCEPT ![run[h]] = <<Frame(code, "off", <<>>)>> \o @]

\* stvec decides which handler runs.
handler(h, cause) == IF csr[h].stvec = "uservec" THEN usertrap(h, run[h], cause)
                     ELSE kerneltrap(h, run[h], cause)

\* ecall, or an exception, in user space.
exception(h, c) ==
    /\ panicked = Nil /\ ~InKernel(h) /\ traps < MaxTraps
    /\ traps' = traps + 1
    /\ trap(h, handler(h, c))
    /\ UNCHANGED <<cpu, run, locks, procs, ticks, tpend, irq, started, inited, panicked>>

interrupt(h, cause) ==
    /\ panicked = Nil
    /\ InKernel(h) => csr[h].sie
    /\ IF cause = "timer" THEN tpend[h] ELSE irq = "raised"
    /\ trap(h, handler(h, cause))
    /\ UNCHANGED <<cpu, run, locks, procs, world, panicked>>

\* timervec: the machine-mode timer interrupt.
timervec(h) ==
    /\ panicked = Nil /\ traps < MaxTraps /\ ~tpend[h]
    /\ tpend' = [tpend EXCEPT ![h] = TRUE]
    /\ traps' = traps + 1
    /\ UNCHANGED <<csr, cpu, run, stk, locks, procs, ticks, irq, started, inited, panicked>>

device ==
    /\ panicked = Nil /\ traps < MaxTraps /\ irq = "none"
    /\ irq' = "raised"
    /\ traps' = traps + 1
    /\ UNCHANGED <<csr, cpu, run, stk, locks, procs, ticks, tpend, started, inited, panicked>>

usertrap_enter(h) ==
    /\ At(h, "usertrap")
    /\ IF csr[h].spp = "u" THEN NoPanic ELSE panic("usertrap: not from user mode")
    /\ csr' = [csr EXCEPT ![h].stvec = "kernelvec"]
    /\ Put(h, [Rest(h) EXCEPT !.sepc = csr[h].sepc])
    /\ UNCHANGED <<cpu, run, locks, procs, world>>

kerneltrap_enter(h) ==
    /\ At(h, "kerneltrap")
    /\ IF csr[h].spp = "s" /\ ~csr[h].sie THEN NoPanic ELSE panic("kerneltrap")
    /\ Put(h, [Rest(h) EXCEPT !.sepc = csr[h].sepc, !.spp = csr[h].spp, !.spie = csr[h].spie])
    /\ UNCHANGED <<csr, cpu, run, locks, procs, world>>

\* yield() unless the scheduler was interrupted.
kyield(h) ==
    /\ At(h, "kyield")
    /\ IF run[h] \in Procs /\ state[run[h]] = "RUNNING"
       THEN Put(h, [Rest(h) EXCEPT !.code = yield(run[h]) \o @])
       ELSE Advance(h)
    /\ UNCHANGED <<csr, cpu, run, locks, procs, world, panicked>>

\* Mutant: as kerneltrap() might be if it did not restore the trap registers.
Saved_not(h) == csr[h]

Saved(h) == [csr[h] EXCEPT !.sepc = Top(h).sepc, !.spp = Top(h).spp, !.spie = Top(h).spie]

restore(h) ==
    /\ At(h, "restore")
    /\ csr' = [csr EXCEPT ![h] = Saved(h)]
    /\ Advance(h)
    /\ UNCHANGED <<cpu, run, locks, procs, world, panicked>>

sstatus(h) ==
    /\ At(h, "sstatus")
    /\ csr' = [csr EXCEPT ![h].spp = "u", ![h].spie = TRUE, ![h].sepc = Top(h).sepc]
    /\ Advance(h)
    /\ UNCHANGED <<cpu, run, locks, procs, world, panicked>>

\* sret: back to where the trap came from.
sret(h) ==
    /\ At(h, "sret")
    /\ csr' = [csr EXCEPT ![h].sie = csr[h].spie]
    /\ stk' = [stk EXCEPT ![run[h]] = Tail(@)]
    /\ UNCHANGED <<cpu, run, locks, procs, world, panicked>>

intr(h) ==
    /\ At(h, "intr_on") \/ At(h, "intr_off")
    /\ csr' = [csr EXCEPT ![h].sie = At(h, "intr_on")]
    /\ Put(h, [Rest(h) EXCEPT !.want = IF run[h] \in Harts THEN "any"
                                       ELSE IF At(h, "intr_on") THEN "on" ELSE "off"])
    /\ UNCHANGED <<cpu, run, locks, procs, world, panicked>>

w_stvec(h) ==
    /\ At(h, "stvec")
    /\ csr' = [csr EXCEPT ![h].stvec = Arg(h)]
    /\ Advance(h)
    /\ UNCHANGED <<cpu, run, locks, procs, world, panicked>>

\* setkilled() and killed(), each a section of p->lock; exit() does not return.
setkilled(h) ==
    /\ At(h, "setkilled") /\ ~locked[Arg(h)]
    /\ killed' = [killed EXCEPT ![Arg(h)] = TRUE]
    /\ Advance(h)
    /\ UNCHANGED <<csr, cpu, run, locks, state, asleep, world, panicked>>

exit_if_killed(h) ==
    LET p == Arg(h) IN
    /\ At(h, "killed") /\ ~locked[p]
    /\ Put(h, IF killed[p]
              THEN [Rest(h) EXCEPT !.code = acquire(p) \o <<<<"zombie", p>>>> \o sched(p)]
              ELSE Rest(h))
    /\ UNCHANGED <<csr, cpu, run, locks, procs, world, panicked>>

zombie(h) ==
    /\ At(h, "zombie")
    /\ state' = [state EXCEPT ![Arg(h)] = "ZOMBIE"]
    /\ Advance(h)
    /\ UNCHANGED <<csr, cpu, run, locks, killed, asleep, world, panicked>>

\* clockintr(): ticks++
tick(h) ==
    /\ At(h, "tick")
    /\ ticks' = ticks + 1
    /\ Advance(h)
    /\ UNCHANGED <<csr, cpu, run, locks, procs, tpend, irq, started, inited, traps, panicked>>

\* w_sip(r_sip() & ~2)
ack(h) ==
    /\ At(h, "ack")
    /\ tpend' = [tpend EXCEPT ![h] = FALSE]
    /\ Advance(h)
    /\ UNCHANGED <<csr, cpu, run, locks, procs, ticks, irq, started, inited, traps, panicked>>

\* The device's handler if this hart is the one that gets the interrupt.
plic_claim(h) ==
    /\ At(h, "plic_claim")
    /\ irq' = IF irq = "raised" THEN "claimed" ELSE irq
    /\ IF irq = "raised"
       THEN Put(h, [Rest(h) EXCEPT !.code =
                acquire("dev") \o release("dev") \o <<<<"plic_complete", Nil>>>> \o @])
       ELSE Advance(h)
    /\ UNCHANGED <<csr, cpu, run, locks, procs, ticks, tpend, started, inited, traps, panicked>>

plic_complete(h) ==
    /\ At(h, "plic_complete")
    /\ irq' = "none"
    /\ Advance(h)
    /\ UNCHANGED <<csr, cpu, run, locks, procs, ticks, tpend, started, inited, traps, panicked>>

-----------------------------------------------------------------------------
(* Boot *)

initlock(h) ==
    /\ At(h, "initlock")
    /\ locked' = [locked EXCEPT ![Arg(h)] = FALSE]
    /\ lkcpu' = [lkcpu EXCEPT ![Arg(h)] = Nil]
    /\ inited' = inited \union {Arg(h)}
    /\ Advance(h)
    /\ UNCHANGED <<csr, cpu, run, procs, ticks, tpend, irq, started, traps, panicked>>

start(h) ==
    /\ At(h, "start")
    /\ started' = TRUE
    /\ Advance(h)
    /\ UNCHANGED <<csr, cpu, run, locks, procs, ticks, tpend, irq, inited, traps, panicked>>

wait_started(h) ==
    /\ At(h, "wait")
    /\ started
    /\ Advance(h)
    /\ UNCHANGED <<csr, cpu, run, locks, procs, world, panicked>>

lockstep(h) ==
    intr_get(h) \/ push_off(h) \/ swap(h) \/ set_cpu(h) \/ clear_cpu(h) \/ unlock(h) \/ pop_off(h)
switchstep(h) ==
    pick(h) \/ runnable(h) \/ sleeping(h) \/ sched_swtch(h) \/ set_intena(h) \/ wakeup(h)
    \/ setkilled(h) \/ exit_if_killed(h) \/ zombie(h)
trapstep(h) ==
    usertrap_enter(h) \/ kerneltrap_enter(h) \/ kyield(h) \/ restore(h) \/ sstatus(h) \/ sret(h)
    \/ intr(h) \/ w_stvec(h) \/ tick(h) \/ ack(h) \/ plic_claim(h) \/ plic_complete(h)
bootstep(h) == initlock(h) \/ start(h) \/ wait_started(h)

Next ==
    \/ \E h \in Harts :
          \/ lockstep(h) \/ switchstep(h) \/ trapstep(h) \/ bootstep(h)
          \/ \E c \in Calls : exception(h, c)
          \/ interrupt(h, "timer") \/ interrupt(h, "dev")
          \/ timervec(h)
    \/ device

Spec == Init /\ [][Next]_vars

-----------------------------------------------------------------------------
(* Properties *)

\* Every variable keeps its type.
TypeOK ==
    /\ \A h \in Harts : run[h] \in Procs \union {h} /\ cpu[h].noff \in 0 .. 2
    /\ \A l \in Locks : lkcpu[l] \in Harts \union {Nil}
    /\ state \in [Procs -> {"UNUSED", "RUNNABLE", "RUNNING", "SLEEPING", "ZOMBIE"}]
    /\ irq \in {"none", "raised", "claimed"}

\* Nil of the assertions of acquire(), release(), pop_off(), sched(), usertrap()
\* and kerneltrap() fails: in particular no interrupt handler asks for a lock
\* that the code it interrupted holds, and a thread that moved to another hart
\* finds its lock, noff and intena as it left them.
NoAssertionFails == panicked = Nil

\* A hart in any critical section takes no interrupt, and does not go back to
\* user space ("disable interrupts to avoid deadlock", acquire()).
LockedUninterrupted ==
    \A h \in Harts : cpu[h].noff > 0 => ~csr[h].sie /\ InKernel(h)

\* "it takes two pop_off()s to undo two push_off()s": a thread that holds no
\* lock has interrupts as its code set them, on in a system call and off in a
\* trap handler (so that handlers do not nest), however often it was interrupted,
\* switched or moved.  What the scheduler and forkret() have depends on whom they
\* got the hart from.
InterruptsAsSet ==
    \A h \in Harts :
        InKernel(h) /\ cpu[h].noff = 0 /\ panicked = Nil
        /\ Top(h).want # "any" => csr[h].sie = (Top(h).want = "on")

\* Traps from user space go to uservec and traps from the kernel to kernelvec,
\* also while usertrap() and usertrapret() switch between them and while booting.
VectorRight ==
    \A h \in Harts :
        /\ ~InKernel(h) => csr[h].stvec = "uservec"
        /\ InKernel(h) /\ csr[h].sie => csr[h].stvec = "kernelvec"

\* sret goes back to where the trap of this thread came from, though sepc and
\* sstatus are the hart's and other threads had traps on it meanwhile.
ReturnsHome ==
    \A h \in Harts : At(h, "sret") =>
        /\ csr[h].sepc = <<run[h], Len(stk[run[h]]) - 1>>
        /\ csr[h].spp = Arg(h)

\* No hart, hart 0 included, takes a lock before hart 0 has initialised it.
BootOrder == {l \in Locks : locked[l]} \subseteq inited

\* A trap leaves no trace in the thread it interrupts: it enters by the right
\* vector, goes back to where it came from, and interrupts are as the thread's
\* code set them, though the registers are the hart's and threads move.
TrapsReturnHome == InterruptsAsSet /\ VectorRight /\ ReturnsHome

\* Spin-locks are used as they must be: no assertion about them fails, code that
\* holds one is not interrupted, and none is used before main() initialised it.
LockDiscipline == TypeOK /\ NoAssertionFails /\ LockedUninterrupted /\ BootOrder
=============================================================================
