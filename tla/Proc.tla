-------------------------------- MODULE Proc --------------------------------
(***************************************************************************)
(* Processes of kernel/proc.c: the schedulers of several CPUs, context     *)
(* switches, fork(), exit(), wait() and kill(), with the part of           *)
(* usertrap() that calls them.                                             *)
(*                                                                         *)
(* Grain.  A section that takes and releases a p->lock without a context   *)
(* switch is one step, enabled while the lock is free.  plock[p] is set    *)
(* only where p->lock stays held from one step to the next: across         *)
(* swtch(), in either direction.  wait_lock is held through the loops of   *)
(* exit() and wait(), whose iterations are steps of their own.             *)
(*                                                                         *)
(* A process with no lock may be preempted (kerneltrap(), usertrap()).     *)
(* User programs make any sequence of these calls; init only forks and     *)
(* waits (user/init.c), and nobody kills it.                               *)
(***************************************************************************)
EXTENDS Integers, FiniteSets

CONSTANTS NPROC,     \* param.h: size of the process table
          CPUs,      \* harts
          MaxPid,    \* bound: fork() is called while nextpid <= MaxPid
          KillPids   \* arguments user programs pass to kill()

ASSUME ProcAssumption ==
    /\ NPROC \in Nat \ {0}
    /\ MaxPid \in Nat
    /\ KillPids \subseteq Nat \ {1}

Slots == 1 .. NPROC     \* proc[0] .. proc[NPROC-1]; 0 is the null pointer
initproc == 1

VARIABLES
    state, pid, parent, killed, chan,  \* fields of struct proc
    nextpid,
    plock,      \* 1: p->lock is held across steps
    wait_lock,  \* the process that holds it, or 0
    cproc,      \* c->proc of each CPU, or 0
    satp,       \* whose kernel page table the CPU uses, 0 the kernel's own
    cpc,        \* "scan": scheduler loop; "run": cproc[c] has control;
                \* "back", "release": scheduler after swtch() returned
    idx,        \* p of scheduler()'s loop
    pc,         \* where each process is, or will go on when it runs again
    ctx,        \* p->context: which function called swtch(), "none" if on a CPU
    i, j,       \* loop indices of the process and of wakeup()
    arg,        \* fork(): np; kill(): pid
    havekids    \* wait()

procvars == <<state, pid, parent, killed, chan, nextpid>>
lockvars == <<plock, wait_lock>>
cpuvars == <<cproc, satp, cpc, idx>>
ctlvars == <<pc, ctx, i, j, arg, havekids>>
vars == <<procvars, lockvars, cpuvars, ctlvars>>

\* After userinit(): init waits for its first turn.
Init ==
    /\ state = [p \in Slots |-> IF p = initproc THEN "RUNNABLE" ELSE "UNUSED"]
    /\ pid = [p \in Slots |-> IF p = initproc THEN 1 ELSE 0]
    /\ parent = [p \in Slots |-> 0]
    /\ killed = [p \in Slots |-> 0]
    /\ chan = [p \in Slots |-> 0]
    /\ nextpid = 2
    /\ plock = [p \in Slots |-> 0]
    /\ wait_lock = 0
    /\ cproc = [c \in CPUs |-> 0]
    /\ satp = [c \in CPUs |-> 0]
    /\ cpc = [c \in CPUs |-> "scan"]
    /\ idx = [c \in CPUs |-> 1]
    /\ pc = [p \in Slots |-> IF p = initproc THEN "user" ELSE "none"]
    /\ ctx = [p \in Slots |-> IF p = initproc THEN "forkret" ELSE "none"]
    /\ i = [p \in Slots |-> 1]
    /\ j = [p \in Slots |-> 1]
    /\ arg = [p \in Slots |-> 0]
    /\ havekids = [p \in Slots |-> 0]

-----------------------------------------------------------------------------
(* scheduler() *)

\* Mutant: the loop does not start over.
NextSlotNoWrap(p) == p + 1

NextSlot(p) == IF p = NPROC THEN 1 ELSE p + 1

scan_skip(c) ==
    /\ cpc[c] = "scan"
    /\ plock[idx[c]] = 0
    /\ state[idx[c]] # "RUNNABLE"
    /\ idx' = [idx EXCEPT ![c] = NextSlot(@)]
    /\ UNCHANGED <<procvars, lockvars, cproc, satp, cpc, ctlvars>>

\* Chosen: p->lock stays held until the process releases it.
scan_run(c) ==
    LET p == idx[c] IN
    /\ cpc[c] = "scan"
    /\ plock[p] = 0
    /\ state[p] = "RUNNABLE"
    /\ state' = [state EXCEPT ![p] = "RUNNING"]
    /\ plock' = [plock EXCEPT ![p] = 1]
    /\ cproc' = [cproc EXCEPT ![c] = p]
    /\ satp' = [satp EXCEPT ![c] = p]
    /\ cpc' = [cpc EXCEPT ![c] = "run"]
    /\ UNCHANGED <<pid, parent, killed, chan, nextpid, wait_lock, idx, ctlvars>>

\* Mutant: kvminithart() is forgotten.
sched_back_keeps_satp(c) ==
    /\ cpc[c] = "back"
    /\ cproc' = [cproc EXCEPT ![c] = 0]
    /\ cpc' = [cpc EXCEPT ![c] = "release"]
    /\ UNCHANGED <<procvars, lockvars, satp, idx, ctlvars>>

\* swtch() has come back: kvminithart(), c->proc = 0.
sched_back(c) ==
    /\ cpc[c] = "back"
    /\ satp' = [satp EXCEPT ![c] = 0]
    /\ cproc' = [cproc EXCEPT ![c] = 0]
    /\ cpc' = [cpc EXCEPT ![c] = "release"]
    /\ UNCHANGED <<procvars, lockvars, idx, ctlvars>>

\* Mutant: the scan starts over at the process that has just run.
sched_release_same(c) ==
    /\ cpc[c] = "release"
    /\ plock' = [plock EXCEPT ![idx[c]] = 0]
    /\ cpc' = [cpc EXCEPT ![c] = "scan"]
    /\ UNCHANGED <<procvars, wait_lock, cproc, satp, idx, ctlvars>>

sched_release(c) ==
    /\ cpc[c] = "release"
    /\ plock' = [plock EXCEPT ![idx[c]] = 0]
    /\ idx' = [idx EXCEPT ![c] = NextSlot(@)]
    /\ cpc' = [cpc EXCEPT ![c] = "scan"]
    /\ UNCHANGED <<procvars, wait_lock, cproc, satp, ctlvars>>

-----------------------------------------------------------------------------
(* Context switches of the process p on CPU c *)

On(c, p) == cpc[c] = "run" /\ cproc[c] = p
At(c, p, l) == On(c, p) /\ ctx[p] = "none" /\ pc[p] = l

\* sched(): p->lock is held and goes to the scheduler with the CPU.
sched(c, p, from) ==
    /\ cpc' = [cpc EXCEPT ![c] = "back"]
    /\ ctx' = [ctx EXCEPT ![p] = from]
    /\ UNCHANGED <<cproc, satp, idx>>

forkret(c, p) ==
    /\ On(c, p) /\ ctx[p] = "forkret"
    /\ plock' = [plock EXCEPT ![p] = 0]
    /\ ctx' = [ctx EXCEPT ![p] = "none"]
    /\ UNCHANGED <<procvars, wait_lock, cpuvars, pc, i, j, arg, havekids>>

\* Kernel code that runs with interrupts on, and usertrap()'s own yield().
Preemptible == {"yield", "fork", "fork_parent", "fork_runnable", "exit", "wait", "kill", "ret"}

\* Mutant: yield() does not keep p->lock across swtch().
yield_unlocked(c, p) ==
    /\ \E l \in Preemptible : At(c, p, l)
    /\ plock[p] = 0
    /\ state' = [state EXCEPT ![p] = "RUNNABLE"]
    /\ sched(c, p, "yield")
    /\ UNCHANGED <<pid, parent, killed, chan, nextpid, lockvars, pc, i, j, arg, havekids>>

yield(c, p) ==
    /\ \E l \in Preemptible : At(c, p, l)
    /\ plock[p] = 0
    /\ state' = [state EXCEPT ![p] = "RUNNABLE"]
    /\ plock' = [plock EXCEPT ![p] = 1]
    /\ sched(c, p, "yield")
    /\ UNCHANGED <<pid, parent, killed, chan, nextpid, wait_lock, pc, i, j, arg, havekids>>

yield_return(c, p) ==
    /\ On(c, p) /\ ctx[p] = "yield"
    /\ plock' = [plock EXCEPT ![p] = 0]
    /\ ctx' = [ctx EXCEPT ![p] = "none"]
    /\ pc' = [pc EXCEPT ![p] = IF @ = "yield" THEN "user" ELSE @]
    /\ UNCHANGED <<procvars, wait_lock, cpuvars, i, j, arg, havekids>>

\* sleep(p, &wait_lock), called from wait() only.
sleep(c, p) ==
    /\ At(c, p, "sleep")
    /\ plock[p] = 0
    /\ plock' = [plock EXCEPT ![p] = 1]
    /\ wait_lock' = 0
    /\ pc' = [pc EXCEPT ![p] = "sleep_sched"]
    /\ UNCHANGED <<procvars, cpuvars, ctx, i, j, arg, havekids>>

sleep_sched(c, p) ==
    /\ At(c, p, "sleep_sched")
    /\ chan' = [chan EXCEPT ![p] = p]
    /\ state' = [state EXCEPT ![p] = "SLEEPING"]
    /\ sched(c, p, "sleep")
    /\ UNCHANGED <<pid, parent, killed, nextpid, lockvars, pc, i, j, arg, havekids>>

\* Back in wait(), which takes wait_lock and scans again.
sleep_return(c, p) ==
    /\ On(c, p) /\ ctx[p] = "sleep"
    /\ chan' = [chan EXCEPT ![p] = 0]
    /\ plock' = [plock EXCEPT ![p] = 0]
    /\ ctx' = [ctx EXCEPT ![p] = "none"]
    /\ pc' = [pc EXCEPT ![p] = "wait"]
    /\ UNCHANGED <<state, pid, parent, killed, nextpid, wait_lock, cpuvars, i, j, arg, havekids>>

-----------------------------------------------------------------------------
(* usertrap() *)

\* A system call of a process that nobody has killed.
syscall(c, p) ==
    /\ At(c, p, "user")
    /\ plock[p] = 0 /\ killed[p] = 0
    /\ \/ /\ pc' = [pc EXCEPT ![p] = "fork"]
          /\ nextpid <= MaxPid
          /\ UNCHANGED arg
       \/ /\ pc' = [pc EXCEPT ![p] = "wait"]
          /\ UNCHANGED arg
       \/ /\ pc' = [pc EXCEPT ![p] = "exit"]
          /\ p # initproc
          /\ UNCHANGED arg
       \/ /\ pc' = [pc EXCEPT ![p] = "kill"]
          /\ p # initproc
          /\ \E k \in KillPids : arg' = [arg EXCEPT ![p] = k]
    /\ i' = [i EXCEPT ![p] = 1]
    /\ UNCHANGED <<procvars, lockvars, cpuvars, ctx, j, havekids>>

\* A timer interrupt in user space; the end of a system call.
timer(c, p) ==
    /\ At(c, p, "user")
    /\ plock[p] = 0 /\ killed[p] = 0
    /\ pc' = [pc EXCEPT ![p] = "yield"]
    /\ UNCHANGED <<procvars, lockvars, cpuvars, ctx, i, j, arg, havekids>>

usertrapret(c, p) ==
    /\ At(c, p, "ret")
    /\ plock[p] = 0 /\ killed[p] = 0
    /\ pc' = [pc EXCEPT ![p] = "user"]
    /\ i' = [i EXCEPT ![p] = 1]
    /\ j' = [j EXCEPT ![p] = 1]
    /\ arg' = [arg EXCEPT ![p] = 0]
    /\ havekids' = [havekids EXCEPT ![p] = 0]
    /\ UNCHANGED <<procvars, lockvars, cpuvars, ctx>>

\* Both tests of killed() lead to exit(-1).
usertrap_killed(c, p) ==
    /\ At(c, p, "user") \/ At(c, p, "ret")
    /\ plock[p] = 0 /\ killed[p] = 1
    /\ pc' = [pc EXCEPT ![p] = "exit"]
    /\ UNCHANGED <<procvars, lockvars, cpuvars, ctx, i, j, arg, havekids>>

-----------------------------------------------------------------------------
(* fork() *)

\* freeproc(), the fields that matter here.
freeproc(q) ==
    /\ state' = [state EXCEPT ![q] = "UNUSED"]
    /\ pid' = [pid EXCEPT ![q] = 0]
    /\ parent' = [parent EXCEPT ![q] = 0]
    /\ chan' = [chan EXCEPT ![q] = 0]
    /\ killed' = [killed EXCEPT ![q] = 0]

\* allocproc()'s loop passes a slot in use, or reaches the end.
alloc_skip(c, p) ==
    /\ At(c, p, "fork")
    /\ \/ /\ i[p] <= NPROC
          /\ plock[i[p]] = 0 /\ state[i[p]] # "UNUSED"
          /\ i' = [i EXCEPT ![p] = @ + 1]
          /\ UNCHANGED pc
       \/ /\ i[p] > NPROC
          /\ pc' = [pc EXCEPT ![p] = "ret"]
          /\ UNCHANGED i
    /\ UNCHANGED <<procvars, lockvars, cpuvars, ctx, j, arg, havekids>>

\* A free slot: the child is built under its lock, then the lock is released.
allocproc(c, p) ==
    LET np == i[p] IN
    /\ At(c, p, "fork")
    /\ np <= NPROC
    /\ plock[np] = 0 /\ state[np] = "UNUSED"
    /\ state' = [state EXCEPT ![np] = "USED"]
    /\ pid' = [pid EXCEPT ![np] = nextpid]
    /\ nextpid' = nextpid + 1
    /\ arg' = [arg EXCEPT ![p] = np]
    /\ pc' = [pc EXCEPT ![p] = "fork_parent", ![np] = "user"]
    /\ ctx' = [ctx EXCEPT ![np] = "forkret"]
    /\ UNCHANGED <<parent, killed, chan, lockvars, cpuvars, i, j, havekids>>

\* No memory for the trapframe, a page table or the copy: freeproc(np).
fork_fails(c, p) ==
    /\ At(c, p, "fork")
    /\ i[p] <= NPROC
    /\ plock[i[p]] = 0 /\ state[i[p]] = "UNUSED"
    /\ freeproc(i[p])
    /\ nextpid' = nextpid + 1
    /\ pc' = [pc EXCEPT ![p] = "ret"]
    /\ UNCHANGED <<lockvars, cpuvars, ctx, i, j, arg, havekids>>

fork_parent(c, p) ==
    /\ At(c, p, "fork_parent")
    /\ wait_lock = 0
    /\ parent' = [parent EXCEPT ![arg[p]] = p]
    /\ pc' = [pc EXCEPT ![p] = "fork_runnable"]
    /\ UNCHANGED <<state, pid, killed, chan, nextpid, lockvars, cpuvars, ctx, i, j, arg, havekids>>

fork_runnable(c, p) ==
    /\ At(c, p, "fork_runnable")
    /\ plock[arg[p]] = 0
    /\ state' = [state EXCEPT ![arg[p]] = "RUNNABLE"]
    /\ pc' = [pc EXCEPT ![p] = "ret"]
    /\ UNCHANGED <<pid, parent, killed, chan, nextpid, lockvars, cpuvars, ctx, i, j, arg, havekids>>

-----------------------------------------------------------------------------
(* exit() *)

exit(c, p) ==
    /\ At(c, p, "exit")
    /\ wait_lock = 0
    /\ wait_lock' = p
    /\ pc' = [pc EXCEPT ![p] = "reparent"]
    /\ i' = [i EXCEPT ![p] = 1]
    /\ j' = [j EXCEPT ![p] = 1]
    /\ UNCHANGED <<procvars, plock, cpuvars, ctx, arg, havekids>>

\* Mutant: the loop stops before the last slot.
reparent_short(c, p) ==
    /\ At(c, p, "reparent")
    /\ \/ /\ i[p] < NPROC /\ parent[i[p]] = p
          /\ parent' = [parent EXCEPT ![i[p]] = initproc]
          /\ pc' = [pc EXCEPT ![p] = "wake_init"]
          /\ UNCHANGED i
       \/ /\ i[p] < NPROC /\ parent[i[p]] # p
          /\ i' = [i EXCEPT ![p] = @ + 1]
          /\ UNCHANGED <<parent, pc>>
       \/ /\ i[p] >= NPROC
          /\ pc' = [pc EXCEPT ![p] = "wake_parent"]
          /\ UNCHANGED <<parent, i>>
    /\ UNCHANGED <<state, pid, killed, chan, nextpid, lockvars, cpuvars, ctx, j, arg, havekids>>

reparent(c, p) ==
    /\ At(c, p, "reparent")
    /\ \/ /\ i[p] <= NPROC /\ parent[i[p]] = p
          /\ parent' = [parent EXCEPT ![i[p]] = initproc]
          /\ pc' = [pc EXCEPT ![p] = "wake_init"]
          /\ UNCHANGED i
       \/ /\ i[p] <= NPROC /\ parent[i[p]] # p
          /\ i' = [i EXCEPT ![p] = @ + 1]
          /\ UNCHANGED <<parent, pc>>
       \/ /\ i[p] > NPROC
          /\ pc' = [pc EXCEPT ![p] = "wake_parent"]
          /\ UNCHANGED <<parent, i>>
    /\ UNCHANGED <<state, pid, killed, chan, nextpid, lockvars, cpuvars, ctx, j, arg, havekids>>

\* Mutant: the loop starts at the second slot.
wakeup_skips_first(p, ch) ==
    LET q == j[p] IN
    /\ q <= NPROC
    /\ q # p => plock[q] = 0
    /\ state' = IF q > 1 /\ q # p /\ state[q] = "SLEEPING" /\ chan[q] = ch
                THEN [state EXCEPT ![q] = "RUNNABLE"] ELSE state
    /\ j' = [j EXCEPT ![p] = @ + 1]

\* One iteration of wakeup(ch), which skips the caller itself.
wakeup(p, ch) ==
    LET q == j[p] IN
    /\ q <= NPROC
    /\ q # p => plock[q] = 0
    /\ state' = IF q # p /\ state[q] = "SLEEPING" /\ chan[q] = ch
                THEN [state EXCEPT ![q] = "RUNNABLE"] ELSE state
    /\ j' = [j EXCEPT ![p] = @ + 1]

exit_wakeup(c, p) ==
    /\ \/ At(c, p, "wake_init") /\ wakeup(p, initproc)
       \/ At(c, p, "wake_parent") /\ wakeup(p, parent[p])
    /\ UNCHANGED <<pid, parent, killed, chan, nextpid, lockvars, cpuvars, pc, ctx, i, arg, havekids>>

\* wakeup(initproc) is over: the next slot of reparent().
reparent_next(c, p) ==
    /\ At(c, p, "wake_init")
    /\ j[p] > NPROC
    /\ i' = [i EXCEPT ![p] = @ + 1]
    /\ j' = [j EXCEPT ![p] = 1]
    /\ pc' = [pc EXCEPT ![p] = "reparent"]
    /\ UNCHANGED <<procvars, lockvars, cpuvars, ctx, arg, havekids>>

exit_zombie(c, p) ==
    /\ At(c, p, "wake_parent")
    /\ j[p] > NPROC
    /\ plock[p] = 0
    /\ plock' = [plock EXCEPT ![p] = 1]
    /\ state' = [state EXCEPT ![p] = "ZOMBIE"]
    /\ wait_lock' = 0
    /\ sched(c, p, "none")
    /\ pc' = [pc EXCEPT ![p] = "none"]
    /\ i' = [i EXCEPT ![p] = 1]
    /\ j' = [j EXCEPT ![p] = 1]
    /\ arg' = [arg EXCEPT ![p] = 0]
    /\ havekids' = [havekids EXCEPT ![p] = 0]
    /\ UNCHANGED <<pid, parent, killed, chan, nextpid>>

-----------------------------------------------------------------------------
(* wait() *)

wait(c, p) ==
    /\ At(c, p, "wait")
    /\ wait_lock = 0
    /\ wait_lock' = p
    /\ pc' = [pc EXCEPT ![p] = "wait_scan"]
    /\ i' = [i EXCEPT ![p] = 1]
    /\ havekids' = [havekids EXCEPT ![p] = 0]
    /\ UNCHANGED <<procvars, plock, cpuvars, ctx, j, arg>>

wait_scan(c, p) ==
    /\ At(c, p, "wait_scan")
    /\ i[p] <= NPROC
    /\ \/ /\ parent[i[p]] # p
          /\ UNCHANGED havekids
       \/ /\ parent[i[p]] = p
          /\ plock[i[p]] = 0 /\ state[i[p]] # "ZOMBIE"
          /\ havekids' = [havekids EXCEPT ![p] = 1]
    /\ i' = [i EXCEPT ![p] = @ + 1]
    /\ UNCHANGED <<procvars, lockvars, cpuvars, pc, ctx, j, arg>>

\* An exited child: copyout() of its status may fail, then it stays a zombie;
\* init asks for no status (user/init.c).
wait_found(c, p) ==
    /\ At(c, p, "wait_scan")
    /\ i[p] <= NPROC /\ parent[i[p]] = p
    /\ plock[i[p]] = 0 /\ state[i[p]] = "ZOMBIE"
    /\ \/ freeproc(i[p])
       \/ p # initproc /\ UNCHANGED <<state, pid, parent, chan, killed>>
    /\ wait_lock' = 0
    /\ pc' = [pc EXCEPT ![p] = "ret"]
    /\ UNCHANGED <<nextpid, plock, cpuvars, ctx, i, j, arg, havekids>>

\* Mutant: wait_lock is released before sleep() has p->lock.
wait_end_unlocks(c, p) ==
    /\ At(c, p, "wait_scan")
    /\ i[p] > NPROC
    /\ plock[p] = 0
    /\ wait_lock' = 0
    /\ pc' = [pc EXCEPT ![p] = IF havekids[p] = 0 \/ killed[p] = 1 THEN "ret" ELSE "sleep"]
    /\ UNCHANGED <<procvars, plock, cpuvars, ctx, i, j, arg, havekids>>

wait_end(c, p) ==
    /\ At(c, p, "wait_scan")
    /\ i[p] > NPROC
    /\ plock[p] = 0
    /\ \/ /\ havekids[p] = 0 \/ killed[p] = 1
          /\ wait_lock' = 0
          /\ pc' = [pc EXCEPT ![p] = "ret"]
       \/ /\ havekids[p] = 1 /\ killed[p] = 0
          /\ pc' = [pc EXCEPT ![p] = "sleep"]
          /\ UNCHANGED wait_lock
    /\ UNCHANGED <<procvars, plock, cpuvars, ctx, i, j, arg, havekids>>

-----------------------------------------------------------------------------
(* kill() *)

kill(c, p) ==
    /\ At(c, p, "kill")
    /\ \/ /\ i[p] <= NPROC /\ plock[i[p]] = 0 /\ pid[i[p]] = arg[p]
          /\ killed' = [killed EXCEPT ![i[p]] = 1]
          /\ state' = [state EXCEPT ![i[p]] = IF @ = "SLEEPING" THEN "RUNNABLE" ELSE @]
          /\ pc' = [pc EXCEPT ![p] = "ret"]
          /\ UNCHANGED i
       \/ /\ i[p] <= NPROC /\ plock[i[p]] = 0 /\ pid[i[p]] # arg[p]
          /\ i' = [i EXCEPT ![p] = @ + 1]
          /\ UNCHANGED <<killed, state, pc>>
       \/ /\ i[p] > NPROC
          /\ pc' = [pc EXCEPT ![p] = "ret"]
          /\ UNCHANGED <<killed, state, i>>
    /\ UNCHANGED <<pid, parent, chan, nextpid, lockvars, cpuvars, ctx, j, arg, havekids>>

-----------------------------------------------------------------------------
Scheduler(c) == scan_skip(c) \/ scan_run(c) \/ sched_back(c) \/ sched_release(c)

Resume(c, p) == forkret(c, p) \/ yield_return(c, p) \/ sleep_return(c, p)

KernelStep(c, p) ==
    \/ sleep(c, p) \/ sleep_sched(c, p)
    \/ usertrapret(c, p) \/ usertrap_killed(c, p)
    \/ alloc_skip(c, p) \/ allocproc(c, p) \/ fork_fails(c, p)
    \/ fork_parent(c, p) \/ fork_runnable(c, p)
    \/ exit(c, p) \/ reparent(c, p) \/ exit_wakeup(c, p) \/ reparent_next(c, p)
    \/ exit_zombie(c, p)
    \/ wait(c, p) \/ wait_scan(c, p) \/ wait_found(c, p) \/ wait_end(c, p)
    \/ kill(c, p)

Preempt(c, p) == timer(c, p) \/ yield(c, p)

Next ==
    \/ \E c \in CPUs : Scheduler(c)
    \/ \E c \in CPUs, p \in Slots :
          Resume(c, p) \/ KernelStep(c, p) \/ syscall(c, p) \/ Preempt(c, p)

Spec == Init /\ [][Next]_vars

\* A CPU keeps executing the kernel code it is in.  A timer interrupt stays
\* pending while interrupts are off, so it is taken at one of the next moments
\* they are on; but time slices are long enough for a process to get on with
\* its kernel code, and for init to call wait() again (user/init.c).
InitWaits(c) == syscall(c, initproc) /\ pc'[initproc] = "wait"

LiveSpec ==
    /\ Spec
    /\ \A c \in CPUs :
          /\ WF_vars(Scheduler(c) \/ \E p \in Slots : Resume(c, p))
          /\ SF_vars(\E p \in Slots : Preempt(c, p))
    /\ \A p \in Slots : SF_vars(\E c \in CPUs : KernelStep(c, p))
    /\ SF_vars(\E c \in CPUs : InitWaits(c))

-----------------------------------------------------------------------------
(* Properties *)

States == {"UNUSED", "USED", "SLEEPING", "RUNNABLE", "RUNNING", "ZOMBIE"}
Pcs == Preemptible \union {"none", "user", "sleep", "sleep_sched", "wait_scan",
                           "reparent", "wake_init", "wake_parent"}

\* Every variable keeps its type; loop indices stop one past the table.
TypeOK ==
    /\ state \in [Slots -> States]
    /\ pid \in [Slots -> Nat] /\ nextpid \in Nat
    /\ parent \in [Slots -> 0 .. NPROC] /\ chan \in [Slots -> 0 .. NPROC]
    /\ killed \in [Slots -> {0, 1}]
    /\ plock \in [Slots -> {0, 1}] /\ wait_lock \in 0 .. NPROC
    /\ cproc \in [CPUs -> 0 .. NPROC] /\ satp \in [CPUs -> 0 .. NPROC]
    /\ cpc \in [CPUs -> {"scan", "run", "back", "release"}]
    /\ idx \in [CPUs -> Slots]
    /\ pc \in [Slots -> Pcs]
    /\ ctx \in [Slots -> {"none", "forkret", "yield", "sleep"}]
    /\ i \in [Slots -> 1 .. NPROC + 1] /\ j \in [Slots -> 1 .. NPROC + 1]
    /\ arg \in [Slots -> Nat] /\ havekids \in [Slots -> {0, 1}]

\* A process is on one CPU at most, from the moment scheduler() picks it
\* until the scheduler it came back to has left its stack: p->lock is held
\* across swtch(), so a wakeup() cannot make it run elsewhere too early.
OneCPU ==
    \A c, d \in CPUs : cproc[c] = cproc[d] /\ cproc[c] # 0 => c = d

\* No CPU runs on a kernel page table that wait() -> freeproc() has freed:
\* scheduler() is back on the kernel's own table before it releases p->lock.
PageTableLive ==
    \A c \in CPUs : satp[c] # 0 => state[satp[c]] # "UNUSED"

\* A process that sleeps in wait() has no exited child: sleep() gives up
\* wait_lock only when wakeup() can no longer miss it, and exit() wakes the
\* parent, or init for the children it hands over, before it lets go.
NoLostWakeup ==
    wait_lock = 0 =>
        \A p, q \in Slots :
            state[p] = "SLEEPING" /\ parent[q] = p => state[q] # "ZOMBIE"

\* Outside of exit() every process but init has a parent that can still
\* wait() for it: reparent() leaves no child of a dead process behind, and
\* fork() names the parent before the child can run.
ParentAlive ==
    \A p \in Slots \ {initproc} :
        state[p] \in {"RUNNABLE", "RUNNING", "SLEEPING", "ZOMBIE"} =>
            /\ parent[p] # 0
            /\ wait_lock = 0 => state[parent[p]] \in {"RUNNABLE", "RUNNING", "SLEEPING"}

\* Every zombie can be reaped: it has a parent that can still wait() for it and
\* is not asleep in wait() over it, also after exit() gave it to init.
ZombiesReapable == TypeOK /\ ParentAlive /\ NoLostWakeup

\* "Kill the process with the given pid": a process marked killed has a pid
\* that was given to kill(); the mark does not pass to the next process that
\* gets the slot.
KilledByPid ==
    \A p \in Slots : state[p] # "UNUSED" /\ killed[p] = 1 => pid[p] \in KillPids

\* scheduler()'s round-robin scan starves nobody: a process that can run is
\* run.
EveryoneRuns ==
    \A p \in Slots : state[p] = "RUNNABLE" ~> state[p] = "RUNNING"

OrphanZombie(p) == state[p] = "ZOMBIE" /\ parent[p] = initproc

\* An exited process whose parent is gone leaves the process table:
\* reparent() gives it to init and init's wait() frees it.
OrphansReaped ==
    \A p \in Slots : OrphanZombie(p) ~> state[p] = "UNUSED"
=============================================================================
