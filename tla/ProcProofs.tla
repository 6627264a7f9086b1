----------------------------- MODULE ProcProofs -----------------------------
(***************************************************************************)
(* Proofs about module Proc, for any number of processes and CPUs.         *)
(*                                                                         *)
(* Two invariants are about context switches: what a CPU's scheduler says  *)
(* of the process it holds (CpuInv) and what a saved context says of the   *)
(* process that owns it (CtxInv).  ForkInv and ParentInv are about the     *)
(* process tree, and InitInv says why init never exits.  The inductive     *)
(* invariant ProcInv adds that the loops of wait() and exit() have         *)
(* wait_lock (WaitLockInv) and why wait() misses no exited child           *)
(* (WaitInv).                                                              *)
(***************************************************************************)
EXTENDS Proc, TLAPS

Alive == {"RUNNABLE", "RUNNING", "SLEEPING"}

\* A CPU out of the scan loop is the only one that has its process: either the
\* process runs, or its lock is held until the scheduler has left its stack.
CpuInv ==
    /\ \A c \in CPUs :
          /\ cpc[c] \in {"scan", "release"} => cproc[c] = 0 /\ satp[c] = 0
          /\ cpc[c] \in {"run", "back"} => cproc[c] = idx[c] /\ satp[c] = idx[c]
          /\ cpc[c] = "run" => state[idx[c]] = "RUNNING"
          /\ cpc[c] \in {"back", "release"} =>
                /\ plock[idx[c]] = 1
                /\ state[idx[c]] \in {"RUNNABLE", "SLEEPING", "ZOMBIE"}
                /\ pc[idx[c]] = "sleep_sched" => ctx[idx[c]] = "sleep"
    /\ \A c, d \in CPUs :
          cpc[c] # "scan" /\ cpc[d] # "scan" /\ idx[c] = idx[d] => c = d

\* Where a process was when it called swtch(), and that one that is about to
\* sleep keeps its lock until it has said so.
CtxInv ==
    \A p \in Slots :
        /\ ctx[p] = "forkret" => pc[p] = "user"
        /\ ctx[p] = "yield" => pc[p] \in Preemptible
        /\ ctx[p] = "sleep" => pc[p] = "sleep_sched"
        /\ pc[p] = "sleep_sched" /\ ctx[p] = "none" => plock[p] = 1
        /\ state[p] = "SLEEPING" => ctx[p] = "sleep" /\ chan[p] = p

\* The child that fork() is building is its own, and nobody else's.
ForkInv ==
    /\ \A p \in Slots : pc[p] \in {"fork_parent", "fork_runnable"} =>
          /\ arg[p] \in Slots /\ state[arg[p]] = "USED"
          /\ pc[p] = "fork_runnable" => parent[arg[p]] # 0
    /\ \A p, q \in Slots :
          /\ pc[p] \in {"fork_parent", "fork_runnable"}
          /\ pc[q] \in {"fork_parent", "fork_runnable"}
          /\ arg[p] = arg[q]
          => p = q

Exiting == {"reparent", "wake_init", "wake_parent"}

\* init is never killed and does not exit.
InitInv ==
    /\ state[initproc] \in Alive /\ pid[initproc] = 1 /\ killed[initproc] = 0
    /\ pc[initproc] \notin Exiting \union {"exit"}
    /\ \A p \in Slots : pc[p] = "kill" => arg[p] \in KillPids

\* A process that can run, sleeps or has exited has a parent that has not
\* exited; exit() has got rid of the children in the slots it has passed.
ParentInv ==
    /\ \A q \in Slots : parent[q] # 0 => state[parent[q]] \in Alive
    /\ \A q \in Slots \ {initproc} : state[q] \in Alive \union {"ZOMBIE"} => parent[q] # 0
    /\ \A p \in Slots :
          /\ pc[p] = "reparent" => j[p] = 1 /\ \A q \in 1 .. i[p] - 1 : parent[q] # p
          /\ pc[p] = "wake_init" => i[p] \in Slots /\ \A q \in 1 .. i[p] : parent[q] # p
          /\ pc[p] = "wake_parent" => \A q \in Slots : parent[q] # p

-----------------------------------------------------------------------------
(* Types *)

USE DEF procvars, lockvars, cpuvars, ctlvars

\* The table is well typed after userinit().
LEMMA TypeInit == Init => TypeOK
BY ProcAssumption DEF Init, TypeOK, States, Pcs, Preemptible, Slots, initproc

\* Slots and loop indices.
LEMMA SlotFacts ==
    /\ initproc \in Slots /\ 1 \in Slots /\ 0 \in 0 .. NPROC /\ 1 \in 1 .. NPROC + 1
    /\ \A p \in Slots : p \in 0 .. NPROC /\ p \in Nat /\ p # 0 /\ NextSlot(p) \in Slots
    /\ \A k \in 1 .. NPROC + 1 :
          /\ k \in Int
          /\ k <= NPROC => k \in Slots
          /\ k \in Slots => k + 1 \in 1 .. NPROC + 1
BY ProcAssumption DEF Slots, initproc, NextSlot

\* Every step keeps the types: loops stop one past the table.
LEMMA TypeNext == TypeOK /\ ParentInv /\ [Next]_vars => TypeOK'
<1>0. SUFFICES ASSUME TypeOK, ParentInv, [Next]_vars PROVE TypeOK'
    OBVIOUS
<1>a. /\ "UNUSED" \in States /\ "USED" \in States /\ "SLEEPING" \in States
      /\ "RUNNABLE" \in States /\ "RUNNING" \in States /\ "ZOMBIE" \in States
    BY DEF States
<1>b. /\ "none" \in Pcs /\ "user" \in Pcs /\ "sleep" \in Pcs /\ "sleep_sched" \in Pcs
      /\ "wait_scan" \in Pcs /\ "reparent" \in Pcs /\ "wake_init" \in Pcs
      /\ "wake_parent" \in Pcs /\ "yield" \in Pcs /\ "fork" \in Pcs /\ "fork_parent" \in Pcs
      /\ "fork_runnable" \in Pcs /\ "exit" \in Pcs /\ "wait" \in Pcs /\ "kill" \in Pcs
      /\ "ret" \in Pcs
    BY DEF Pcs, Preemptible
<1>c. TypeOK
    BY <1>0
<1>1. ASSUME NEW c \in CPUs, scan_skip(c) PROVE TypeOK'
    BY <1>1, <1>c, SlotFacts DEF scan_skip, TypeOK
<1>2. ASSUME NEW c \in CPUs, scan_run(c) PROVE TypeOK'
    BY <1>2, <1>c, <1>a, SlotFacts DEF scan_run, TypeOK
<1>3. ASSUME NEW c \in CPUs, sched_back(c) PROVE TypeOK'
    BY <1>3, <1>c, SlotFacts DEF sched_back, TypeOK
<1>4. ASSUME NEW c \in CPUs, sched_release(c) PROVE TypeOK'
    BY <1>4, <1>c, SlotFacts DEF sched_release, TypeOK
<1>5. ASSUME NEW c \in CPUs, NEW p \in Slots, forkret(c, p) PROVE TypeOK'
    BY <1>5, <1>c DEF forkret, TypeOK
<1>6. ASSUME NEW c \in CPUs, NEW p \in Slots, yield_return(c, p) PROVE TypeOK'
    BY <1>6, <1>c, <1>b DEF yield_return, TypeOK
<1>7. ASSUME NEW c \in CPUs, NEW p \in Slots, sleep_return(c, p) PROVE TypeOK'
    BY <1>7, <1>c, <1>b, SlotFacts DEF sleep_return, TypeOK
<1>8. ASSUME NEW c \in CPUs, NEW p \in Slots, yield(c, p) PROVE TypeOK'
    BY <1>8, <1>c, <1>a DEF yield, sched, TypeOK
<1>9. ASSUME NEW c \in CPUs, NEW p \in Slots, timer(c, p) PROVE TypeOK'
    BY <1>9, <1>c, <1>b DEF timer, TypeOK
<1>10. ASSUME NEW c \in CPUs, NEW p \in Slots, syscall(c, p) PROVE TypeOK'
  <2>1. arg' \in [Slots -> Nat]
    BY <1>10, <1>c, ProcAssumption DEF syscall, TypeOK
  <2>2. QED
    BY <1>10, <2>1, <1>b, <1>c, SlotFacts DEF syscall, TypeOK
<1>11. ASSUME NEW c \in CPUs, NEW p \in Slots, usertrapret(c, p) PROVE TypeOK'
    BY <1>11, <1>c, <1>b, SlotFacts DEF usertrapret, TypeOK
<1>12. ASSUME NEW c \in CPUs, NEW p \in Slots, usertrap_killed(c, p) PROVE TypeOK'
    BY <1>12, <1>c, <1>b DEF usertrap_killed, TypeOK
<1>13. ASSUME NEW c \in CPUs, NEW p \in Slots, sleep(c, p) PROVE TypeOK'
    BY <1>13, <1>c, <1>b, SlotFacts DEF sleep, TypeOK
<1>14. ASSUME NEW c \in CPUs, NEW p \in Slots, sleep_sched(c, p) PROVE TypeOK'
    BY <1>14, <1>c, <1>a, SlotFacts DEF sleep_sched, sched, TypeOK
<1>15. ASSUME NEW c \in CPUs, NEW p \in Slots, alloc_skip(c, p) PROVE TypeOK'
  <2>0. i \in [Slots -> 1 .. NPROC + 1] /\ pc \in [Slots -> Pcs]
    BY <1>c DEF TypeOK
  <2>1. i' \in [Slots -> 1 .. NPROC + 1]
    BY <1>15, <2>0, SlotFacts DEF alloc_skip
  <2>2. pc' \in [Slots -> Pcs]
    BY <1>15, <2>0, <1>b DEF alloc_skip
  <2>3. QED
    BY <1>15, <2>1, <2>2, <1>c DEF alloc_skip, TypeOK
<1>16. ASSUME NEW c \in CPUs, NEW p \in Slots, allocproc(c, p) PROVE TypeOK'
  <2>1. i[p] \in Slots /\ i[p] \in Nat /\ nextpid + 1 \in Nat
    BY <1>16, <1>c, SlotFacts DEF allocproc, TypeOK
  <2>2. /\ state' \in [Slots -> States] /\ pid' \in [Slots -> Nat]
        /\ nextpid' \in Nat /\ arg' \in [Slots -> Nat]
    BY <1>16, <2>1, <1>a, <1>c DEF allocproc, TypeOK
  <2>3. /\ pc' \in [Slots -> Pcs]
        /\ ctx' \in [Slots -> {"none", "forkret", "yield", "sleep"}]
    BY <1>16, <2>1, <1>b, <1>c DEF allocproc, TypeOK
  <2>4. QED
    BY <1>16, <2>2, <2>3, <1>c DEF allocproc, TypeOK
<1>17. ASSUME NEW c \in CPUs, NEW p \in Slots, fork_fails(c, p) PROVE TypeOK'
    BY <1>17, <1>c, <1>a, <1>b, SlotFacts DEF fork_fails, freeproc, TypeOK
<1>18. ASSUME NEW c \in CPUs, NEW p \in Slots, fork_parent(c, p) PROVE TypeOK'
  <2>1. parent' \in [Slots -> 0 .. NPROC]
    BY <1>18, <1>c, SlotFacts DEF fork_parent, TypeOK
  <2>2. pc' \in [Slots -> Pcs]
    BY <1>18, <1>b, <1>c DEF fork_parent, TypeOK
  <2>3. QED
    BY <1>18, <2>1, <2>2, <1>c DEF fork_parent, TypeOK
<1>19. ASSUME NEW c \in CPUs, NEW p \in Slots, fork_runnable(c, p) PROVE TypeOK'
  <2>1. state' \in [Slots -> States] /\ pc' \in [Slots -> Pcs]
    BY <1>19, <1>a, <1>b, <1>c DEF fork_runnable, TypeOK
  <2>2. QED
    BY <1>19, <2>1, <1>c DEF fork_runnable, TypeOK
<1>20. ASSUME NEW c \in CPUs, NEW p \in Slots, exit(c, p) PROVE TypeOK'
    BY <1>20, <1>c, <1>b, SlotFacts DEF exit, TypeOK
<1>21. ASSUME NEW c \in CPUs, NEW p \in Slots, reparent(c, p) PROVE TypeOK'
  <2>1. parent' \in [Slots -> 0 .. NPROC]
    BY <1>21, <1>c, SlotFacts DEF reparent, TypeOK
  <2>2. i' \in [Slots -> 1 .. NPROC + 1] /\ pc' \in [Slots -> Pcs]
    BY <1>21, <1>b, <1>c, SlotFacts DEF reparent, TypeOK
  <2>3. QED
    BY <1>21, <2>1, <2>2, <1>c DEF reparent, TypeOK
<1>22. ASSUME NEW c \in CPUs, NEW p \in Slots, exit_wakeup(c, p) PROVE TypeOK'
    BY <1>22, <1>c, <1>a, SlotFacts DEF exit_wakeup, wakeup, TypeOK
<1>23. ASSUME NEW c \in CPUs, NEW p \in Slots, reparent_next(c, p) PROVE TypeOK'
  <2>1. i[p] \in Slots
    BY <1>23, <1>0 DEF ParentInv, reparent_next, At
  <2>2. QED
    BY <1>23, <2>1, <1>b, <1>c, SlotFacts DEF reparent_next, TypeOK
<1>24. ASSUME NEW c \in CPUs, NEW p \in Slots, exit_zombie(c, p) PROVE TypeOK'
    BY <1>24, <1>c, <1>a, <1>b, SlotFacts DEF exit_zombie, sched, TypeOK
<1>25. ASSUME NEW c \in CPUs, NEW p \in Slots, wait(c, p) PROVE TypeOK'
    BY <1>25, <1>c, <1>b, SlotFacts DEF wait, TypeOK
<1>26. ASSUME NEW c \in CPUs, NEW p \in Slots, wait_scan(c, p) PROVE TypeOK'
    BY <1>26, <1>c, SlotFacts DEF wait_scan, TypeOK
<1>27. ASSUME NEW c \in CPUs, NEW p \in Slots, wait_found(c, p) PROVE TypeOK'
  <2>1. /\ state' \in [Slots -> States] /\ pid' \in [Slots -> Nat]
        /\ killed' \in [Slots -> {0, 1}]
    BY <1>27, <1>a, <1>c DEF wait_found, freeproc, TypeOK
  <2>2. /\ parent' \in [Slots -> 0 .. NPROC] /\ chan' \in [Slots -> 0 .. NPROC]
        /\ wait_lock' \in 0 .. NPROC
    BY <1>27, <1>c, SlotFacts DEF wait_found, freeproc, TypeOK
  <2>3. pc' \in [Slots -> Pcs]
    BY <1>27, <1>b, <1>c DEF wait_found, TypeOK
  <2>4. QED
    BY <1>27, <2>1, <2>2, <2>3, <1>c DEF wait_found, TypeOK
<1>28. ASSUME NEW c \in CPUs, NEW p \in Slots, wait_end(c, p) PROVE TypeOK'
  <2>1. wait_lock' \in 0 .. NPROC
    BY <1>28, <1>c, SlotFacts DEF wait_end, TypeOK
  <2>2. pc' \in [Slots -> Pcs]
    BY <1>28, <1>b, <1>c DEF wait_end, TypeOK
  <2>3. QED
    BY <1>28, <2>1, <2>2, <1>c DEF wait_end, TypeOK
<1>29. ASSUME NEW c \in CPUs, NEW p \in Slots, kill(c, p) PROVE TypeOK'
  <2>1. i' \in [Slots -> 1 .. NPROC + 1]
    BY <1>29, <1>c, SlotFacts DEF kill, TypeOK
  <2>2. state' \in [Slots -> States] /\ killed' \in [Slots -> {0, 1}] /\ pc' \in [Slots -> Pcs]
    BY <1>29, <1>a, <1>b, <1>c DEF kill, TypeOK
  <2>3. QED
    BY <1>29, <2>1, <2>2, <1>c DEF kill, TypeOK
<1>30. CASE UNCHANGED vars
    BY <1>30, <1>c DEF vars, TypeOK
<1>31. QED
    BY <1>0, <1>1, <1>2, <1>3, <1>4, <1>5, <1>6, <1>7, <1>8, <1>9, <1>10, <1>11, <1>12,
       <1>13, <1>14, <1>15, <1>16, <1>17, <1>18, <1>19, <1>20, <1>21, <1>22, <1>23, <1>24,
       <1>25, <1>26, <1>27, <1>28, <1>29, <1>30
       DEF Next, Scheduler, Resume, KernelStep, Preempt

-----------------------------------------------------------------------------
(* Context switches *)

\* The process that has a CPU runs, and is on no other.
LEMMA OnRuns ==
    ASSUME CpuInv, NEW c \in CPUs, NEW p \in Slots, On(c, p)
    PROVE  /\ cpc[c] = "run" /\ idx[c] = p /\ state[p] = "RUNNING"
           /\ \A d \in CPUs \ {c} : cpc[d] # "scan" => idx[d] # p
BY DEF CpuInv, On

\* What a step of the process p on CPU c does to p and c: p goes on, or gives
\* the CPU back with its lock held.
Self(c, p) ==
    /\ UNCHANGED <<cproc, satp, idx>>
    /\ \/ UNCHANGED cpc /\ state'[p] = state[p]
       \/ /\ cpc' = [cpc EXCEPT ![c] = "back"]
          /\ plock'[p] = 1 /\ state'[p] \in {"RUNNABLE", "SLEEPING", "ZOMBIE"}
          /\ pc'[p] = "sleep_sched" => ctx'[p] = "sleep"

\* What it does to another process q: nothing, or with q's lock free it wakes
\* q, frees it, allocates it or completes it.
Other(q) ==
    /\ plock'[q] = plock[q]
    /\ i'[q] = i[q] /\ j'[q] = j[q] /\ arg'[q] = arg[q]
    /\ state[q] = "SLEEPING" => chan'[q] = chan[q]
    /\ \/ state'[q] = state[q]
       \/ /\ plock[q] = 0
          /\ \/ state[q] = "SLEEPING" /\ state'[q] = "RUNNABLE"
             \/ state[q] = "ZOMBIE" /\ state'[q] = "UNUSED"
             \/ state[q] = "UNUSED" /\ state'[q] = "USED"
             \/ state[q] = "USED" /\ state'[q] = "RUNNABLE"
    /\ \/ pc'[q] = pc[q] /\ ctx'[q] = ctx[q]
       \/ /\ plock[q] = 0 /\ state[q] = "UNUSED" /\ state'[q] = "USED"
          /\ pc'[q] = "user" /\ ctx'[q] = "forkret"

ProcStep(c, p) == Resume(c, p) \/ KernelStep(c, p) \/ syscall(c, p) \/ Preempt(c, p)

\* Every step of a process is of that kind.
LEMMA Frame ==
    ASSUME TypeOK, CpuInv, CtxInv, ForkInv, NEW c \in CPUs, NEW p \in Slots, ProcStep(c, p)
    PROVE  On(c, p) /\ Self(c, p) /\ \A q \in Slots \ {p} : Other(q)
<1> DEFINE Framed == On(c, p) /\ Self(c, p) /\ \A q \in Slots \ {p} : Other(q)
<1>a. /\ state \in [Slots -> States] /\ plock \in [Slots -> {0, 1}] /\ pc \in [Slots -> Pcs]
      /\ ctx \in [Slots -> {"none", "forkret", "yield", "sleep"}] /\ chan \in [Slots -> 0 .. NPROC]
      /\ i \in [Slots -> 1 .. NPROC + 1] /\ j \in [Slots -> 1 .. NPROC + 1]
      /\ arg \in [Slots -> Nat]
    BY DEF TypeOK
<1>b. On(c, p) => state[p] = "RUNNING"
    BY OnRuns
<1>1. CASE forkret(c, p)
    BY <1>1, <1>a, <1>b DEF forkret, Self, Other
<1>2. CASE yield_return(c, p)
    BY <1>2, <1>a, <1>b DEF yield_return, Self, Other
<1>3. CASE sleep_return(c, p)
    BY <1>3, <1>a, <1>b DEF sleep_return, Self, Other
<1>4. CASE yield(c, p)
  <2>1. On(c, p) /\ Self(c, p)
    BY <1>4, <1>a DEF yield, sched, At, Self, Preemptible
  <2>2. \A q \in Slots \ {p} : Other(q)
    BY <1>4, <1>a DEF yield, sched, Other
  <2>3. QED
    BY <2>1, <2>2
<1>5. CASE timer(c, p)
    BY <1>5, <1>a, <1>b DEF timer, At, Self, Other
<1>6. CASE syscall(c, p)
    BY <1>6, <1>a, <1>b DEF syscall, At, Self, Other
<1>7. CASE usertrapret(c, p)
    BY <1>7, <1>a, <1>b DEF usertrapret, At, Self, Other
<1>8. CASE usertrap_killed(c, p)
    BY <1>8, <1>a, <1>b DEF usertrap_killed, At, Self, Other
<1>9. CASE sleep(c, p)
    BY <1>9, <1>a, <1>b DEF sleep, At, Self, Other
<1>10. CASE sleep_sched(c, p)
  <2>1. On(c, p) /\ Self(c, p)
    BY <1>10, <1>a DEF sleep_sched, sched, At, Self, CtxInv
  <2>2. \A q \in Slots \ {p} : Other(q)
    BY <1>10, <1>a DEF sleep_sched, sched, Other
  <2>3. QED
    BY <2>1, <2>2
<1>11. CASE alloc_skip(c, p)
    BY <1>11, <1>a, <1>b DEF alloc_skip, At, Self, Other
<1>12. CASE allocproc(c, p)
    BY <1>12, <1>a, <1>b DEF allocproc, At, Self, Other
<1>13. CASE fork_fails(c, p)
    BY <1>13, <1>a, <1>b DEF fork_fails, freeproc, At, Self, Other
<1>14. CASE fork_parent(c, p)
    BY <1>14, <1>a, <1>b DEF fork_parent, At, Self, Other
<1>15. CASE fork_runnable(c, p)
  <2>1. arg[p] \in Slots /\ state[arg[p]] = "USED"
    BY <1>15 DEF fork_runnable, At, ForkInv
  <2>2. QED
    BY <1>15, <2>1, <1>a, <1>b DEF fork_runnable, At, Self, Other
<1>16. CASE exit(c, p)
    BY <1>16, <1>a, <1>b DEF exit, At, Self, Other
<1>17. CASE reparent(c, p)
    BY <1>17, <1>a, <1>b DEF reparent, At, Self, Other
<1>18. CASE exit_wakeup(c, p)
    BY <1>18, <1>a, <1>b DEF exit_wakeup, wakeup, At, Self, Other
<1>19. CASE reparent_next(c, p)
    BY <1>19, <1>a, <1>b DEF reparent_next, At, Self, Other
<1>20. CASE exit_zombie(c, p)
    BY <1>20, <1>a, <1>b DEF exit_zombie, sched, At, Self, Other
<1>21. CASE wait(c, p)
    BY <1>21, <1>a, <1>b DEF wait, At, Self, Other
<1>22. CASE wait_scan(c, p)
    BY <1>22, <1>a, <1>b DEF wait_scan, At, Self, Other
<1>23. CASE wait_found(c, p)
    BY <1>23, <1>a, <1>b DEF wait_found, freeproc, At, Self, Other
<1>24. CASE wait_end(c, p)
    BY <1>24, <1>a, <1>b DEF wait_end, At, Self, Other
<1>25. CASE kill(c, p)
    BY <1>25, <1>a, <1>b DEF kill, At, Self, Other
<1>26. QED
    BY <1>1, <1>2, <1>3, <1>4, <1>5, <1>6, <1>7, <1>8, <1>9, <1>10, <1>11, <1>12, <1>13,
       <1>14, <1>15, <1>16, <1>17, <1>18, <1>19, <1>20, <1>21, <1>22, <1>23, <1>24, <1>25
       DEF ProcStep, Resume, KernelStep, Preempt

\* Every step keeps the schedulers and the processes they hold together.
LEMMA CpuNext == TypeOK /\ CpuInv /\ CtxInv /\ ForkInv /\ [Next]_vars => CpuInv'
<1>0. SUFFICES ASSUME TypeOK, CpuInv, CtxInv, ForkInv, [Next]_vars PROVE CpuInv'
    OBVIOUS
<1>a. /\ cpc \in [CPUs -> {"scan", "run", "back", "release"}] /\ idx \in [CPUs -> Slots]
      /\ cproc \in [CPUs -> 0 .. NPROC] /\ satp \in [CPUs -> 0 .. NPROC]
      /\ state \in [Slots -> States] /\ plock \in [Slots -> {0, 1}]
      /\ CpuInv
    BY <1>0 DEF TypeOK
<1>1. ASSUME NEW c \in CPUs, scan_skip(c) PROVE CpuInv'
    BY <1>1, <1>a, SlotFacts DEF scan_skip, CpuInv
<1>2. ASSUME NEW c \in CPUs, scan_run(c) PROVE CpuInv'
    BY <1>2, <1>a, SlotFacts DEF scan_run, CpuInv
<1>3. ASSUME NEW c \in CPUs, sched_back(c) PROVE CpuInv'
    BY <1>3, <1>a, SlotFacts DEF sched_back, CpuInv
<1>4. ASSUME NEW c \in CPUs, sched_release(c) PROVE CpuInv'
    BY <1>4, <1>a, SlotFacts DEF sched_release, CpuInv
<1>5. ASSUME NEW c \in CPUs, NEW p \in Slots, ProcStep(c, p) PROVE CpuInv'
  <2>1. On(c, p) /\ Self(c, p) /\ \A q \in Slots \ {p} : Other(q)
    BY <1>5, <1>0, Frame
  <2>2. /\ cpc[c] = "run" /\ idx[c] = p /\ state[p] = "RUNNING" /\ cproc[c] = p /\ satp[c] = p
        /\ \A d \in CPUs \ {c} : cpc[d] # "scan" => idx[d] \in Slots \ {p}
    BY <2>1, <1>a, OnRuns DEF On, CpuInv
  <2>3. UNCHANGED <<cproc, satp, idx>> /\ \A d \in CPUs \ {c} : cpc'[d] = cpc[d]
    BY <2>1, <1>a DEF Self
  <2>4. \/ cpc'[c] = "run" /\ state'[p] = "RUNNING"
        \/ /\ cpc'[c] = "back" /\ plock'[p] = 1
           /\ state'[p] \in {"RUNNABLE", "SLEEPING", "ZOMBIE"}
           /\ pc'[p] = "sleep_sched" => ctx'[p] = "sleep"
    BY <2>1, <2>2, <1>a DEF Self
  <2>5. ASSUME NEW d \in CPUs \ {c}
        PROVE  /\ cpc[d] = "run" => state'[idx[d]] = "RUNNING"
               /\ cpc[d] \in {"back", "release"} =>
                     /\ plock'[idx[d]] = 1
                     /\ state'[idx[d]] \in {"RUNNABLE", "SLEEPING", "ZOMBIE"}
                     /\ pc'[idx[d]] = "sleep_sched" => ctx'[idx[d]] = "sleep"
    BY <2>1, <2>2, <1>a DEF Other, CpuInv
  <2>6. QED
    BY <2>2, <2>3, <2>4, <2>5, <1>a DEF CpuInv
<1>6. CASE UNCHANGED vars
    BY <1>6, <1>a DEF vars, CpuInv
<1>7. QED
    BY <1>0, <1>1, <1>2, <1>3, <1>4, <1>5, <1>6 DEF Next, Scheduler, ProcStep

\* Every step keeps saved contexts and what a process does next together.
LEMMA CtxNext == TypeOK /\ CpuInv /\ CtxInv /\ ForkInv /\ [Next]_vars => CtxInv'
<1>0. SUFFICES ASSUME TypeOK, CpuInv, CtxInv, ForkInv, [Next]_vars PROVE CtxInv'
    OBVIOUS
<1>a. /\ idx \in [CPUs -> Slots] /\ state \in [Slots -> States] /\ plock \in [Slots -> {0, 1}]
      /\ pc \in [Slots -> Pcs] /\ ctx \in [Slots -> {"none", "forkret", "yield", "sleep"}]
      /\ chan \in [Slots -> 0 .. NPROC] /\ CtxInv
    BY <1>0 DEF TypeOK
<1>1. ASSUME NEW c \in CPUs, scan_skip(c) \/ scan_run(c) \/ sched_back(c) PROVE CtxInv'
    BY <1>1, <1>a DEF scan_skip, scan_run, sched_back, CtxInv
<1>2. ASSUME NEW c \in CPUs, sched_release(c) PROVE CtxInv'
    BY <1>2, <1>0, <1>a DEF sched_release, CtxInv, CpuInv
<1>3. ASSUME NEW c \in CPUs, NEW p \in Slots, ProcStep(c, p) PROVE CtxInv'
  <2> DEFINE Own == /\ ctx'[p] = "forkret" => pc'[p] = "user"
                    /\ ctx'[p] = "yield" => pc'[p] \in Preemptible
                    /\ ctx'[p] = "sleep" => pc'[p] = "sleep_sched"
                    /\ pc'[p] = "sleep_sched" /\ ctx'[p] = "none" => plock'[p] = 1
                    /\ state'[p] = "SLEEPING" => ctx'[p] = "sleep" /\ chan'[p] = p
  <2>1. On(c, p) /\ Self(c, p) /\ \A q \in Slots \ {p} : Other(q)
    BY <1>3, <1>0, Frame
  <2>2. state[p] = "RUNNING"
    BY <2>1, <1>0, OnRuns
  <2>3. \A q \in Slots \ {p} :
           /\ ctx'[q] = "forkret" => pc'[q] = "user"
           /\ ctx'[q] = "yield" => pc'[q] \in Preemptible
           /\ ctx'[q] = "sleep" => pc'[q] = "sleep_sched"
           /\ pc'[q] = "sleep_sched" /\ ctx'[q] = "none" => plock'[q] = 1
           /\ state'[q] = "SLEEPING" => ctx'[q] = "sleep" /\ chan'[q] = q
    BY <2>1, <1>a DEF Other, CtxInv
  <2>4. forkret(c, p) => Own
    BY <2>2, <1>a DEF forkret, CtxInv
  <2>5. yield_return(c, p) => Own
    BY <2>2, <1>a DEF yield_return, CtxInv, Preemptible
  <2>6. sleep_return(c, p) => Own
    BY <2>2, <1>a DEF sleep_return, CtxInv
  <2>7. yield(c, p) => Own
    BY <2>2, <1>a DEF yield, sched, At, CtxInv, Preemptible
  <2>8. timer(c, p) => Own
    BY <2>2, <1>a DEF timer, At, CtxInv
  <2>9. syscall(c, p) => Own
    BY <2>2, <1>a DEF syscall, At, CtxInv
  <2>10. usertrapret(c, p) => Own
    BY <2>2, <1>a DEF usertrapret, At, CtxInv
  <2>11. usertrap_killed(c, p) => Own
    BY <2>2, <1>a DEF usertrap_killed, At, CtxInv
  <2>12. sleep(c, p) => Own
    BY <2>2, <1>a DEF sleep, At, CtxInv
  <2>13. sleep_sched(c, p) => Own
    BY <2>2, <1>a DEF sleep_sched, sched, At, CtxInv
  <2>14. alloc_skip(c, p) => Own
    BY <2>2, <1>a DEF alloc_skip, At, CtxInv
  <2>15. allocproc(c, p) => Own
    BY <2>2, <1>a DEF allocproc, At, CtxInv
  <2>16. fork_fails(c, p) => Own
    BY <2>2, <1>a DEF fork_fails, freeproc, At, CtxInv
  <2>17. fork_parent(c, p) => Own
    BY <2>2, <1>a DEF fork_parent, At, CtxInv
  <2>18. fork_runnable(c, p) => Own
    BY <2>2, <1>a DEF fork_runnable, At, CtxInv
  <2>19. exit(c, p) => Own
    BY <2>2, <1>a DEF exit, At, CtxInv
  <2>20. reparent(c, p) => Own
    BY <2>2, <1>a DEF reparent, At, CtxInv
  <2>21. exit_wakeup(c, p) => Own
    BY <2>2, <1>a DEF exit_wakeup, wakeup, At, CtxInv
  <2>22. reparent_next(c, p) => Own
    BY <2>2, <1>a DEF reparent_next, At, CtxInv
  <2>23. exit_zombie(c, p) => Own
    BY <2>2, <1>a DEF exit_zombie, sched, At, CtxInv
  <2>24. wait(c, p) => Own
    BY <2>2, <1>a DEF wait, At, CtxInv
  <2>25. wait_scan(c, p) => Own
    BY <2>2, <1>a DEF wait_scan, At, CtxInv
  <2>26. wait_found(c, p) => Own
    BY <2>2, <1>a DEF wait_found, freeproc, At, CtxInv
  <2>27. wait_end(c, p) => Own
    BY <2>2, <1>a DEF wait_end, At, CtxInv
  <2>28. kill(c, p) => Own
    BY <2>2, <1>a DEF kill, At, CtxInv
  <2>29. Own
    BY <1>3, <2>4, <2>5, <2>6, <2>7, <2>8, <2>9, <2>10, <2>11, <2>12, <2>13, <2>14, <2>15,
       <2>16, <2>17, <2>18, <2>19, <2>20, <2>21, <2>22, <2>23, <2>24, <2>25, <2>26, <2>27,
       <2>28 DEF ProcStep, Resume, KernelStep, Preempt
  <2>30. QED
    BY <2>3, <2>29 DEF CtxInv
<1>4. CASE UNCHANGED vars
    BY <1>4, <1>a DEF vars, CtxInv
<1>5. QED
    BY <1>0, <1>1, <1>2, <1>3, <1>4 DEF Next, Scheduler, ProcStep

-----------------------------------------------------------------------------
(* The process tree *)

\* Every step leaves a child that fork() is building to its parent.
LEMMA ForkNext == TypeOK /\ CpuInv /\ CtxInv /\ ForkInv /\ [Next]_vars => ForkInv'
<1>0. SUFFICES ASSUME TypeOK, CpuInv, CtxInv, ForkInv, [Next]_vars PROVE ForkInv'
    OBVIOUS
<1>a. /\ idx \in [CPUs -> Slots] /\ state \in [Slots -> States] /\ parent \in [Slots -> 0 .. NPROC]
      /\ pc \in [Slots -> Pcs] /\ arg \in [Slots -> Nat] /\ ForkInv
    BY <1>0, SlotFacts DEF TypeOK
<1>1. ASSUME NEW c \in CPUs, Scheduler(c) PROVE ForkInv'
    BY <1>1, <1>a DEF Scheduler, scan_skip, scan_run, sched_back, sched_release, ForkInv
<1>2. ASSUME NEW c \in CPUs, NEW p \in Slots, ProcStep(c, p) PROVE ForkInv'
  <2>1. On(c, p) /\ state[p] = "RUNNING"
    BY <1>0, <1>2, Frame, OnRuns
  <2>2. forkret(c, p) => ForkInv'
    BY <2>1, <1>a DEF forkret, ForkInv
  <2>3. yield_return(c, p) => ForkInv'
    BY <2>1, <1>a DEF yield_return, ForkInv
  <2>4. sleep_return(c, p) => ForkInv'
    BY <2>1, <1>a DEF sleep_return, ForkInv
  <2>5. yield(c, p) => ForkInv'
    BY <2>1, <1>a DEF yield, sched, At, ForkInv
  <2>6. timer(c, p) => ForkInv'
    BY <2>1, <1>a DEF timer, At, ForkInv
  <2>7. syscall(c, p) => ForkInv'
    BY <2>1, <1>a DEF syscall, At, ForkInv
  <2>8. usertrapret(c, p) => ForkInv'
    BY <2>1, <1>a DEF usertrapret, At, ForkInv
  <2>9. usertrap_killed(c, p) => ForkInv'
    BY <2>1, <1>a DEF usertrap_killed, At, ForkInv
  <2>10. sleep(c, p) => ForkInv'
    BY <2>1, <1>a DEF sleep, At, ForkInv
  <2>11. sleep_sched(c, p) => ForkInv'
    BY <2>1, <1>a DEF sleep_sched, sched, At, ForkInv
  <2>12. alloc_skip(c, p) => ForkInv'
    BY <2>1, <1>a DEF alloc_skip, At, ForkInv
  <2>13. ASSUME allocproc(c, p) PROVE ForkInv'
    <3> DEFINE np == i[p]
    <3>1. /\ np \in Slots /\ np # p /\ np \in Nat /\ pc[p] = "fork"
          /\ state[np] = "UNUSED" /\ state' = [state EXCEPT ![np] = "USED"]
          /\ arg' = [arg EXCEPT ![p] = np] /\ parent' = parent
          /\ pc' = [pc EXCEPT ![p] = "fork_parent", ![np] = "user"]
        BY <2>13, <2>1, <1>0, SlotFacts DEF allocproc, At, TypeOK
    <3> HIDE DEF np
    <3>2. ASSUME NEW q \in Slots \ {p}, pc'[q] \in {"fork_parent", "fork_runnable"}
          PROVE  pc[q] = pc'[q] /\ arg'[q] = arg[q] /\ arg[q] # np
        BY <3>1, <3>2, <1>a DEF ForkInv
    <3>3. QED
        BY <3>1, <3>2, <1>a DEF ForkInv
  <2>14. fork_fails(c, p) => ForkInv'
    BY <2>1, <1>a DEF fork_fails, freeproc, At, ForkInv
  <2>15. fork_parent(c, p) => ForkInv'
    BY <2>1, <1>a, SlotFacts DEF fork_parent, At, ForkInv
  <2>16. fork_runnable(c, p) => ForkInv'
    BY <2>1, <1>a DEF fork_runnable, At, ForkInv
  <2>17. exit(c, p) => ForkInv'
    BY <2>1, <1>a DEF exit, At, ForkInv
  <2>18. ASSUME reparent(c, p) PROVE ForkInv'
    <3>1. \A q \in Slots : parent[q] # 0 => parent'[q] # 0
        BY <2>18, <1>a, SlotFacts DEF reparent
    <3>2. /\ UNCHANGED <<state, arg>>
          /\ \A q \in Slots : pc'[q] \in {"fork_parent", "fork_runnable"} => pc'[q] = pc[q]
        BY <2>18, <1>a DEF reparent
    <3>3. QED
        BY <3>1, <3>2, <1>a DEF ForkInv
  <2>19. exit_wakeup(c, p) => ForkInv'
    BY <2>1, <1>a DEF exit_wakeup, wakeup, At, ForkInv
  <2>20. reparent_next(c, p) => ForkInv'
    BY <2>1, <1>a DEF reparent_next, At, ForkInv
  <2>21. exit_zombie(c, p) => ForkInv'
    BY <2>1, <1>a DEF exit_zombie, sched, At, ForkInv
  <2>22. wait(c, p) => ForkInv'
    BY <2>1, <1>a DEF wait, At, ForkInv
  <2>23. wait_scan(c, p) => ForkInv'
    BY <2>1, <1>a DEF wait_scan, At, ForkInv
  <2>24. wait_found(c, p) => ForkInv'
    BY <2>1, <1>a DEF wait_found, freeproc, At, ForkInv
  <2>25. wait_end(c, p) => ForkInv'
    BY <2>1, <1>a DEF wait_end, At, ForkInv
  <2>26. kill(c, p) => ForkInv'
    BY <2>1, <1>a DEF kill, At, ForkInv
  <2>27. QED
    BY <1>2, <2>2, <2>3, <2>4, <2>5, <2>6, <2>7, <2>8, <2>9, <2>10, <2>11, <2>12, <2>13,
       <2>14, <2>15, <2>16, <2>17, <2>18, <2>19, <2>20, <2>21, <2>22, <2>23, <2>24, <2>25,
       <2>26 DEF ProcStep, Resume, KernelStep, Preempt
<1>3. CASE UNCHANGED vars
    BY <1>3, <1>a DEF vars, ForkInv
<1>4. QED
    BY <1>0, <1>1, <1>2, <1>3 DEF Next, ProcStep

\* No step kills init or makes it exit.
LEMMA InitNext == TypeOK /\ CpuInv /\ CtxInv /\ ForkInv /\ InitInv /\ [Next]_vars => InitInv'
<1>0. SUFFICES ASSUME TypeOK, CpuInv, CtxInv, ForkInv, InitInv, [Next]_vars PROVE InitInv'
    OBVIOUS
<1>a. /\ idx \in [CPUs -> Slots] /\ state \in [Slots -> States] /\ pid \in [Slots -> Nat]
      /\ killed \in [Slots -> {0, 1}] /\ pc \in [Slots -> Pcs] /\ arg \in [Slots -> Nat]
      /\ initproc \in Slots /\ InitInv
    BY <1>0, SlotFacts DEF TypeOK
<1>1. ASSUME NEW c \in CPUs, Scheduler(c) PROVE InitInv'
    BY <1>1, <1>a DEF Scheduler, scan_skip, scan_run, sched_back, sched_release, InitInv,
       Exiting, Alive
<1>2. ASSUME NEW c \in CPUs, NEW p \in Slots, ProcStep(c, p) PROVE InitInv'
  <2>1. On(c, p) /\ state[p] = "RUNNING"
    BY <1>0, <1>2, Frame, OnRuns
  <2>2. forkret(c, p) => InitInv'
    BY <2>1, <1>a DEF forkret, InitInv, Exiting, Alive
  <2>3. yield_return(c, p) => InitInv'
    BY <2>1, <1>a DEF yield_return, InitInv, Exiting, Alive
  <2>4. sleep_return(c, p) => InitInv'
    BY <2>1, <1>a DEF sleep_return, InitInv, Exiting, Alive
  <2>5. yield(c, p) => InitInv'
    BY <2>1, <1>a DEF yield, sched, At, InitInv, Exiting, Alive
  <2>6. timer(c, p) => InitInv'
    BY <2>1, <1>a DEF timer, At, InitInv, Exiting, Alive
  <2>7. syscall(c, p) => InitInv'
    BY <2>1, <1>a DEF syscall, At, InitInv, Exiting, Alive
  <2>8. usertrapret(c, p) => InitInv'
    BY <2>1, <1>a DEF usertrapret, At, InitInv, Exiting, Alive
  <2>9. usertrap_killed(c, p) => InitInv'
    BY <2>1, <1>a DEF usertrap_killed, At, InitInv, Exiting, Alive
  <2>10. sleep(c, p) => InitInv'
    BY <2>1, <1>a DEF sleep, At, InitInv, Exiting, Alive
  <2>11. sleep_sched(c, p) => InitInv'
    BY <2>1, <1>a DEF sleep_sched, sched, At, InitInv, Exiting, Alive
  <2>12. alloc_skip(c, p) => InitInv'
    BY <2>1, <1>a DEF alloc_skip, At, InitInv, Exiting, Alive
  <2>13. allocproc(c, p) => InitInv'
    BY <2>1, <1>a DEF allocproc, At, InitInv, Exiting, Alive
  <2>14. fork_fails(c, p) => InitInv'
    BY <2>1, <1>a DEF fork_fails, freeproc, At, InitInv, Exiting, Alive
  <2>15. fork_parent(c, p) => InitInv'
    BY <2>1, <1>a DEF fork_parent, At, InitInv, Exiting, Alive
  <2>16. fork_runnable(c, p) => InitInv'
    BY <2>1, <1>a DEF fork_runnable, At, InitInv, Exiting, Alive
  <2>17. exit(c, p) => InitInv'
    BY <2>1, <1>a DEF exit, At, InitInv, Exiting, Alive
  <2>18. reparent(c, p) => InitInv'
    BY <2>1, <1>a DEF reparent, At, InitInv, Exiting, Alive
  <2>19. exit_wakeup(c, p) => InitInv'
    BY <2>1, <1>a DEF exit_wakeup, wakeup, At, InitInv, Exiting, Alive
  <2>20. reparent_next(c, p) => InitInv'
    BY <2>1, <1>a DEF reparent_next, At, InitInv, Exiting, Alive
  <2>21. exit_zombie(c, p) => InitInv'
    BY <2>1, <1>a DEF exit_zombie, sched, At, InitInv, Exiting, Alive
  <2>22. wait(c, p) => InitInv'
    BY <2>1, <1>a DEF wait, At, InitInv, Exiting, Alive
  <2>23. wait_scan(c, p) => InitInv'
    BY <2>1, <1>a DEF wait_scan, At, InitInv, Exiting, Alive
  <2>24. wait_found(c, p) => InitInv'
    BY <2>1, <1>a DEF wait_found, freeproc, At, InitInv, Exiting, Alive
  <2>25. wait_end(c, p) => InitInv'
    BY <2>1, <1>a DEF wait_end, At, InitInv, Exiting, Alive
  <2>26. kill(c, p) => InitInv'
    BY <2>1, <1>a, ProcAssumption DEF kill, At, InitInv, Exiting, Alive
  <2>27. QED
    BY <1>2, <2>2, <2>3, <2>4, <2>5, <2>6, <2>7, <2>8, <2>9, <2>10, <2>11, <2>12, <2>13,
       <2>14, <2>15, <2>16, <2>17, <2>18, <2>19, <2>20, <2>21, <2>22, <2>23, <2>24, <2>25,
       <2>26 DEF ProcStep, Resume, KernelStep, Preempt
<1>3. CASE UNCHANGED vars
    BY <1>3, <1>a DEF vars, InitInv, Exiting, Alive
<1>4. QED
    BY <1>0, <1>1, <1>2, <1>3 DEF Next, ProcStep

-----------------------------------------------------------------------------
(* wait() and exit() *)

WaitPcs == Exiting \union {"wait_scan", "sleep"}

\* p has let go of wait_lock to sleep, and nobody has woken it yet.
Drowsy(p) == pc[p] = "sleep_sched" /\ (ctx[p] = "none" \/ state[p] = "SLEEPING")

Unreaped(p, q) == parent[q] = p /\ state[q] = "ZOMBIE"

\* Who is in the loops of wait() and exit() has wait_lock, and is not preempted.
WaitLockInv ==
    \A p \in Slots : pc[p] \in WaitPcs => wait_lock = p /\ state[p] = "RUNNING"

\* wait() has looked at the slots it has passed, exit() has woken its parent
\* when the loop of wakeup() has passed it, and nobody sleeps over a zombie
\* but init while the exit() that hands it over is about to wake init.
WaitInv ==
    /\ \A p \in Slots :
          /\ pc[p] = "wait_scan" => \A q \in 1 .. i[p] - 1 : ~Unreaped(p, q)
          /\ pc[p] = "sleep" => \A q \in Slots : ~Unreaped(p, q)
          /\ pc[p] = "wake_parent" =>
                \A r \in Slots : parent[p] = r /\ r < j[p] => ~Drowsy(r)
    /\ \A p, q \in Slots : Drowsy(p) /\ Unreaped(p, q) =>
          /\ p = initproc
          /\ \E e \in Slots : pc[e] = "wake_init" /\ j[e] = 1

ProcInv ==
    /\ TypeOK /\ CpuInv /\ CtxInv /\ ForkInv /\ InitInv /\ ParentInv
    /\ WaitLockInv /\ WaitInv

-----------------------------------------------------------------------------
(* The process tree *)


\* No process stops being able to wait(), none starts to need a parent, a
\* parent changes to init or 0 only, and the loops of exit() stand still.
Gentle ==
    /\ \A q \in Slots : state[q] \in Alive => state'[q] \in Alive
    /\ \A q \in Slots : parent'[q] # parent[q] =>
          parent'[q] = 0 /\ state'[q] \notin Alive \union {"ZOMBIE"}
    /\ \A q \in Slots : state'[q] \in Alive \union {"ZOMBIE"} =>
          state[q] \in Alive \union {"ZOMBIE"} \/ parent'[q] # 0
    /\ \A q \in Slots : pc'[q] \in Exiting =>
          pc'[q] = pc[q] /\ i'[q] = i[q] /\ (pc[q] = "reparent" => j'[q] = j[q])

\* A null pointer or a process.
LEMMA ParentSlots ==
    ASSUME TypeOK, NEW q \in Slots
    PROVE  parent[q] \in 0 .. NPROC /\ (parent[q] # 0 => parent[q] \in Slots)
<1>1. parent[q] \in 0 .. NPROC
    BY DEF TypeOK
<1>2. QED
    BY <1>1, ProcAssumption DEF Slots

\* Such a step disturbs nobody's parent.
LEMMA ParentFrame ==
    ASSUME TypeOK, ParentInv, InitInv, Gentle
    PROVE  ParentInv'
<1>1. /\ parent \in [Slots -> 0 .. NPROC] /\ initproc \in Slots /\ initproc # 0
      /\ \A q \in Slots : parent[q] # 0 => parent[q] \in Slots
    BY ParentSlots, SlotFacts DEF TypeOK
<1>2. \A q \in Slots : parent'[q] # 0 => state'[parent'[q]] \in Alive
    BY <1>1 DEF ParentInv, InitInv, Gentle
<1>3. \A q \in Slots \ {initproc} : state'[q] \in Alive \union {"ZOMBIE"} => parent'[q] # 0
    BY <1>1 DEF ParentInv, Gentle
<1>4. ASSUME NEW p \in Slots, pc'[p] \in Exiting
      PROVE  /\ p # initproc /\ pc'[p] = pc[p] /\ i'[p] = i[p] /\ i[p] \in 1 .. NPROC + 1
             /\ \A q \in Slots : parent[q] # p => parent'[q] # p
    BY <1>1, <1>4, SlotFacts DEF InitInv, TypeOK, Gentle
<1>5. ASSUME NEW p \in Slots
      PROVE  /\ pc'[p] = "reparent" => j'[p] = 1 /\ \A q \in 1 .. i'[p] - 1 : parent'[q] # p
             /\ pc'[p] = "wake_init" => i'[p] \in Slots /\ \A q \in 1 .. i'[p] : parent'[q] # p
             /\ pc'[p] = "wake_parent" => \A q \in Slots : parent'[q] # p
  <2>1. \A k \in 1 .. NPROC + 1 : \A q \in 1 .. k - 1 : q \in Slots
    BY ProcAssumption DEF Slots
  <2>2. \A k \in Slots : \A q \in 1 .. k : q \in Slots
    BY ProcAssumption DEF Slots
  <2>3. QED
    BY <1>4, <2>1, <2>2 DEF ParentInv, Exiting, Gentle
<1>6. QED
    BY <1>2, <1>3, <1>5 DEF ParentInv

\* Every step leaves every process a parent that has not exited.
LEMMA ParentNext ==
    TypeOK /\ CpuInv /\ CtxInv /\ ForkInv /\ InitInv /\ ParentInv /\ [Next]_vars
    => ParentInv'
<1>0. SUFFICES ASSUME TypeOK, CpuInv, CtxInv, ForkInv, InitInv, ParentInv, [Next]_vars
               PROVE  ParentInv'
    OBVIOUS
<1>a. /\ idx \in [CPUs -> Slots] /\ state \in [Slots -> States] /\ parent \in [Slots -> 0 .. NPROC]
      /\ pc \in [Slots -> Pcs] /\ i \in [Slots -> 1 .. NPROC + 1] /\ j \in [Slots -> 1 .. NPROC + 1]
      /\ initproc \in Slots /\ ParentInv
    BY <1>0, SlotFacts DEF TypeOK
<1>1. ASSUME NEW c \in CPUs, Scheduler(c) PROVE ParentInv'
  <2>1. /\ \A q \in Slots : state[q] \in Alive => state'[q] \in Alive
        /\ \A q \in Slots : state'[q] \in Alive \union {"ZOMBIE"} =>
              state[q] \in Alive \union {"ZOMBIE"}
    BY <1>1, <1>a DEF Scheduler, scan_skip, scan_run, sched_back, sched_release, Alive
  <2>2. UNCHANGED <<parent, pc, i, j>>
    BY <1>1 DEF Scheduler, scan_skip, scan_run, sched_back, sched_release
  <2>3. Gentle
    BY <2>1, <2>2 DEF Gentle
  <2>4. QED
    BY <2>3, <1>0, ParentFrame
<1>2. ASSUME NEW c \in CPUs, NEW p \in Slots, ProcStep(c, p) PROVE ParentInv'
  <2>1. On(c, p) /\ state[p] = "RUNNING"
    BY <1>0, <1>2, Frame, OnRuns
  <2>2. forkret(c, p) => ParentInv'
    BY <2>1, <1>a DEF forkret, ParentInv, Alive
  <2>3. yield_return(c, p) => ParentInv'
    BY <2>1, <1>a DEF yield_return, ParentInv, Alive
  <2>4. sleep_return(c, p) => ParentInv'
    BY <2>1, <1>a DEF sleep_return, ParentInv, Alive
  <2>5. yield(c, p) => ParentInv'
    BY <2>1, <1>a DEF yield, sched, At, ParentInv, Alive
  <2>6. timer(c, p) => ParentInv'
    BY <2>1, <1>a DEF timer, At, ParentInv, Alive
  <2>7. syscall(c, p) => ParentInv'
    BY <2>1, <1>a DEF syscall, At, ParentInv, Alive
  <2>8. usertrapret(c, p) => ParentInv'
    BY <2>1, <1>a DEF usertrapret, At, ParentInv, Alive
  <2>9. usertrap_killed(c, p) => ParentInv'
    BY <2>1, <1>a DEF usertrap_killed, At, ParentInv, Alive
  <2>10. sleep(c, p) => ParentInv'
    BY <2>1, <1>a DEF sleep, At, ParentInv, Alive
  <2>11. sleep_sched(c, p) => ParentInv'
    BY <2>1, <1>a DEF sleep_sched, sched, At, ParentInv, Alive
  <2>12. alloc_skip(c, p) => ParentInv'
    BY <2>1, <1>a DEF alloc_skip, At, ParentInv, Alive
  <2>13. allocproc(c, p) => ParentInv'
    BY <2>1, <1>a DEF allocproc, At, ParentInv, Alive
  <2>14. ASSUME fork_fails(c, p) PROVE ParentInv'
    <3>1. \A q \in Slots : state[q] \in Alive => state'[q] \in Alive
        BY <2>14, <2>1, <1>a DEF fork_fails, freeproc, Alive
    <3>2. \A q \in Slots : parent'[q] # parent[q] =>
          parent'[q] = 0 /\ state'[q] \notin Alive \union {"ZOMBIE"}
        BY <2>14, <2>1, <1>a DEF fork_fails, freeproc, Alive
    <3>3. \A q \in Slots : state'[q] \in Alive \union {"ZOMBIE"} =>
              state[q] \in Alive \union {"ZOMBIE"} \/ parent'[q] # 0
        BY <2>14, <2>1, <1>a DEF fork_fails, freeproc, Alive
    <3>4. \A q \in Slots : pc'[q] \in Exiting =>
              pc'[q] = pc[q] /\ i'[q] = i[q] /\ (pc[q] = "reparent" => j'[q] = j[q])
        BY <2>14, <2>1, <1>a DEF fork_fails, freeproc, At, Exiting
    <3>5. Gentle
        BY <3>1, <3>2, <3>3, <3>4 DEF Gentle
    <3>6. QED
        BY <1>0, <3>5, ParentFrame
  <2>15. ASSUME fork_parent(c, p) PROVE ParentInv'
    <3>1. /\ arg[p] \in Slots /\ state[arg[p]] = "USED" /\ pc[p] = "fork_parent"
          /\ p \in 1 .. NPROC /\ parent' = [parent EXCEPT ![arg[p]] = p]
          /\ UNCHANGED <<state, i, j>> /\ pc' = [pc EXCEPT ![p] = "fork_runnable"]
        BY <2>15, <1>0 DEF fork_parent, At, ForkInv, Slots
    <3>2. QED
        BY <3>1, <2>1, <1>a DEF ParentInv, Alive
  <2>16. ASSUME fork_runnable(c, p) PROVE ParentInv'
    <3>0. arg[p] \in Slots /\ state[arg[p]] = "USED" /\ parent[arg[p]] # 0
        BY <2>16, <1>0 DEF fork_runnable, At, ForkInv
    <3>1. \A q \in Slots : state[q] \in Alive => state'[q] \in Alive
        BY <2>16, <3>0, <1>a DEF fork_runnable, Alive
    <3>2. UNCHANGED parent
        BY <2>16, <3>0, <1>a DEF fork_runnable, Alive
    <3>3. \A q \in Slots : state'[q] \in Alive \union {"ZOMBIE"} =>
              state[q] \in Alive \union {"ZOMBIE"} \/ parent'[q] # 0
        BY <2>16, <3>0, <1>a DEF fork_runnable, Alive
    <3>4. \A q \in Slots : pc'[q] \in Exiting =>
              pc'[q] = pc[q] /\ i'[q] = i[q] /\ (pc[q] = "reparent" => j'[q] = j[q])
        BY <2>16, <2>1, <1>a DEF fork_runnable, At, Exiting
    <3>5. Gentle
        BY <3>1, <3>2, <3>3, <3>4 DEF Gentle
    <3>6. QED
        BY <1>0, <3>5, ParentFrame
  <2>17. exit(c, p) => ParentInv'
    BY <2>1, <1>a DEF exit, At, ParentInv, Alive
  <2>18. ASSUME reparent(c, p) PROVE ParentInv'
    <3>1. /\ p # initproc /\ pc[p] = "reparent" /\ state[initproc] \in Alive /\ j[p] = 1
          /\ i[p] \in 1 .. NPROC + 1 /\ \A q \in 1 .. i[p] - 1 : parent[q] # p
        BY <2>18, <1>0, <1>a DEF reparent, At, InitInv, Exiting, ParentInv
    <3>2. CASE /\ i[p] <= NPROC /\ parent[i[p]] = p
               /\ parent' = [parent EXCEPT ![i[p]] = initproc]
               /\ pc' = [pc EXCEPT ![p] = "wake_init"] /\ UNCHANGED i
      <4>1. UNCHANGED <<state, j>> /\ i[p] \in Slots
          BY <2>18, <3>2, <3>1, <1>a, SlotFacts DEF reparent
      <4>2. QED
        <5>1. \A q \in Slots : parent'[q] # 0 => state'[parent'[q]] \in Alive
            BY <3>1, <3>2, <4>1, <1>a DEF ParentInv
        <5>2. \A q \in Slots \ {initproc} : state'[q] \in Alive \union {"ZOMBIE"} => parent'[q] # 0
            BY <3>1, <3>2, <4>1, <1>a, SlotFacts DEF ParentInv
        <5>3. \A q \in 1 .. i[p] : parent'[q] # p
            BY <3>1, <3>2, <4>1, <1>a DEF Slots
        <5>4. ASSUME NEW e \in Slots \ {p}, pc[e] \in Exiting, NEW q \in Slots, parent[q] # e
              PROVE  parent'[q] # e
            BY <5>4, <3>2, <1>0, <1>a, <4>1 DEF InitInv
        <5>5. \A k \in 1 .. NPROC + 1 : \A q \in 1 .. k - 1 : q \in Slots
            BY ProcAssumption DEF Slots
        <5>6. \A k \in Slots : \A q \in 1 .. k : q \in Slots
            BY ProcAssumption DEF Slots
        <5>7. QED
            BY <3>2, <4>1, <5>1, <5>2, <5>3, <5>4, <5>5, <5>6, <1>a DEF ParentInv, Exiting
    <3>3. CASE /\ parent[i[p]] # p /\ i[p] <= NPROC
               /\ i' = [i EXCEPT ![p] = i[p] + 1] /\ UNCHANGED <<parent, pc>>
      <4>1. UNCHANGED <<state, j>>
          BY <2>18 DEF reparent
      <4>2. QED
        <5>1. \A q \in 1 .. i'[p] - 1 : parent'[q] # p
            BY <3>1, <3>3, <1>a
        <5>2. \A q \in Slots \ {p} : i'[q] = i[q]
            BY <3>3, <1>a
        <5>3. QED
            BY <3>1, <3>3, <4>1, <5>1, <5>2, <1>a DEF ParentInv
    <3>4. CASE i[p] > NPROC /\ pc' = [pc EXCEPT ![p] = "wake_parent"] /\ UNCHANGED <<parent, i>>
      <4>1. UNCHANGED <<state, j>>
          BY <2>18 DEF reparent
      <4>2. \A q \in Slots : parent[q] # p
          BY <3>1, <3>4, ProcAssumption DEF Slots
      <4>3. QED
          BY <3>4, <4>1, <4>2, <1>a DEF ParentInv
    <3>5. QED
        BY <2>18, <3>2, <3>3, <3>4 DEF reparent
  <2>19. ASSUME exit_wakeup(c, p) PROVE ParentInv'
    <3>1. \A q \in Slots : state[q] \in Alive => state'[q] \in Alive
        BY <2>19, <2>1, <1>a DEF exit_wakeup, wakeup, Alive
    <3>2. UNCHANGED parent
        BY <2>19 DEF exit_wakeup
    <3>3. \A q \in Slots : state'[q] \in Alive \union {"ZOMBIE"} =>
              state[q] \in Alive \union {"ZOMBIE"} \/ parent'[q] # 0
        BY <2>19, <2>1, <1>a DEF exit_wakeup, wakeup, Alive
    <3>4. \A q \in Slots : pc'[q] \in Exiting =>
              pc'[q] = pc[q] /\ i'[q] = i[q] /\ (pc[q] = "reparent" => j'[q] = j[q])
        BY <2>19, <2>1, <1>a DEF exit_wakeup, wakeup, At, Exiting
    <3>5. Gentle
        BY <3>1, <3>2, <3>3, <3>4 DEF Gentle
    <3>6. QED
        BY <1>0, <3>5, ParentFrame
  <2>20. reparent_next(c, p) => ParentInv'
    BY <2>1, <1>a DEF reparent_next, At, ParentInv, Alive
  <2>21. exit_zombie(c, p) => ParentInv'
    BY <2>1, <1>a DEF exit_zombie, sched, At, ParentInv, Alive
  <2>22. wait(c, p) => ParentInv'
    BY <2>1, <1>a DEF wait, At, ParentInv, Alive
  <2>23. wait_scan(c, p) => ParentInv'
    BY <2>1, <1>a DEF wait_scan, At, ParentInv, Alive
  <2>24. ASSUME wait_found(c, p) PROVE ParentInv'
    <3>1. \A q \in Slots : state[q] \in Alive => state'[q] \in Alive
        BY <2>24, <2>1, <1>a DEF wait_found, freeproc, Alive
    <3>2. \A q \in Slots : parent'[q] # parent[q] =>
          parent'[q] = 0 /\ state'[q] \notin Alive \union {"ZOMBIE"}
        BY <2>24, <2>1, <1>a DEF wait_found, freeproc, Alive
    <3>3. \A q \in Slots : state'[q] \in Alive \union {"ZOMBIE"} =>
              state[q] \in Alive \union {"ZOMBIE"} \/ parent'[q] # 0
        BY <2>24, <2>1, <1>a DEF wait_found, freeproc, Alive
    <3>4. \A q \in Slots : pc'[q] \in Exiting =>
              pc'[q] = pc[q] /\ i'[q] = i[q] /\ (pc[q] = "reparent" => j'[q] = j[q])
        BY <2>24, <2>1, <1>a DEF wait_found, freeproc, At, Exiting
    <3>5. Gentle
        BY <3>1, <3>2, <3>3, <3>4 DEF Gentle
    <3>6. QED
        BY <1>0, <3>5, ParentFrame
  <2>25. wait_end(c, p) => ParentInv'
    BY <2>1, <1>a DEF wait_end, At, ParentInv, Alive
  <2>26. ASSUME kill(c, p) PROVE ParentInv'
    <3>1. \A q \in Slots : state[q] \in Alive => state'[q] \in Alive
        BY <2>26, <2>1, <1>a DEF kill, Alive
    <3>2. UNCHANGED parent
        BY <2>26 DEF kill
    <3>3. \A q \in Slots : state'[q] \in Alive \union {"ZOMBIE"} =>
              state[q] \in Alive \union {"ZOMBIE"} \/ parent'[q] # 0
        BY <2>26, <2>1, <1>a, SMTT(30) DEF kill, Alive
    <3>4. \A q \in Slots : pc'[q] \in Exiting =>
              pc'[q] = pc[q] /\ i'[q] = i[q] /\ (pc[q] = "reparent" => j'[q] = j[q])
        BY <2>26, <2>1, <1>a DEF kill, At, Exiting
    <3>5. Gentle
        BY <3>1, <3>2, <3>3, <3>4 DEF Gentle
    <3>6. QED
        BY <1>0, <3>5, ParentFrame
  <2>27. QED
    BY <1>2, <2>2, <2>3, <2>4, <2>5, <2>6, <2>7, <2>8, <2>9, <2>10, <2>11, <2>12, <2>13,
       <2>14, <2>15, <2>16, <2>17, <2>18, <2>19, <2>20, <2>21, <2>22, <2>23, <2>24, <2>25,
       <2>26 DEF ProcStep, Resume, KernelStep, Preempt
<1>3. CASE UNCHANGED vars
    BY <1>3, <1>a DEF vars, ParentInv, Alive
<1>4. QED
    BY <1>0, <1>1, <1>2, <1>3 DEF Next, ProcStep

-----------------------------------------------------------------------------
(* wait() and exit() *)

\* wait_lock excludes the loops of wait() and exit() from each other.
LEMMA WaitLockNext ==
    TypeOK /\ CpuInv /\ CtxInv /\ ForkInv /\ WaitLockInv /\ [Next]_vars
    => WaitLockInv'
<1>0. SUFFICES ASSUME TypeOK, CpuInv, CtxInv, ForkInv, WaitLockInv, [Next]_vars PROVE WaitLockInv'
    OBVIOUS
<1>a. /\ idx \in [CPUs -> Slots] /\ state \in [Slots -> States]
      /\ pc \in [Slots -> Pcs] /\ wait_lock \in 0 .. NPROC /\ i \in [Slots -> 1 .. NPROC + 1]
      /\ (\A q \in Slots : q # 0) /\ WaitLockInv
    BY <1>0, SlotFacts DEF TypeOK
<1>1. ASSUME NEW c \in CPUs, Scheduler(c) PROVE WaitLockInv'
    BY <1>1, <1>a DEF Scheduler, scan_skip, scan_run, sched_back, sched_release,
       WaitLockInv, WaitPcs, Exiting
<1>2. ASSUME NEW c \in CPUs, NEW p \in Slots, ProcStep(c, p) PROVE WaitLockInv'
  <2>1. On(c, p) /\ state[p] = "RUNNING"
    BY <1>0, <1>2, Frame, OnRuns
  <2>2. forkret(c, p) => WaitLockInv'
    BY <2>1, <1>a DEF forkret, WaitLockInv, WaitPcs, Exiting
  <2>3. yield_return(c, p) => WaitLockInv'
    BY <2>1, <1>a DEF yield_return, WaitLockInv, WaitPcs, Exiting
  <2>4. sleep_return(c, p) => WaitLockInv'
    BY <2>1, <1>a DEF sleep_return, WaitLockInv, WaitPcs, Exiting
  <2>5. yield(c, p) => WaitLockInv'
    BY <2>1, <1>a DEF yield, sched, At, Preemptible, WaitLockInv, WaitPcs, Exiting
  <2>6. timer(c, p) => WaitLockInv'
    BY <2>1, <1>a DEF timer, At, WaitLockInv, WaitPcs, Exiting
  <2>7. syscall(c, p) => WaitLockInv'
    BY <2>1, <1>a DEF syscall, At, WaitLockInv, WaitPcs, Exiting
  <2>8. usertrapret(c, p) => WaitLockInv'
    BY <2>1, <1>a DEF usertrapret, At, WaitLockInv, WaitPcs, Exiting
  <2>9. usertrap_killed(c, p) => WaitLockInv'
    BY <2>1, <1>a DEF usertrap_killed, At, WaitLockInv, WaitPcs, Exiting
  <2>10. sleep(c, p) => WaitLockInv'
    BY <2>1, <1>a DEF sleep, At, WaitLockInv, WaitPcs, Exiting
  <2>11. sleep_sched(c, p) => WaitLockInv'
    BY <2>1, <1>a DEF sleep_sched, sched, At, WaitLockInv, WaitPcs, Exiting
  <2>12. alloc_skip(c, p) => WaitLockInv'
    BY <2>1, <1>a DEF alloc_skip, At, WaitLockInv, WaitPcs, Exiting
  <2>13. allocproc(c, p) => WaitLockInv'
    BY <2>1, <1>a DEF allocproc, At, WaitLockInv, WaitPcs, Exiting
  <2>14. fork_fails(c, p) => WaitLockInv'
    BY <2>1, <1>a DEF fork_fails, freeproc, At, WaitLockInv, WaitPcs, Exiting
  <2>15. fork_parent(c, p) => WaitLockInv'
    BY <2>1, <1>a DEF fork_parent, At, WaitLockInv, WaitPcs, Exiting
  <2>16. fork_runnable(c, p) => WaitLockInv'
    BY <2>1, <1>0, <1>a DEF fork_runnable, At, ForkInv, WaitLockInv, WaitPcs, Exiting
  <2>17. exit(c, p) => WaitLockInv'
    BY <2>1, <1>a DEF exit, At, WaitLockInv, WaitPcs, Exiting
  <2>18. reparent(c, p) => WaitLockInv'
    BY <2>1, <1>a DEF reparent, At, WaitLockInv, WaitPcs, Exiting
  <2>19. exit_wakeup(c, p) => WaitLockInv'
    BY <2>1, <1>a DEF exit_wakeup, wakeup, At, WaitLockInv, WaitPcs, Exiting
  <2>20. reparent_next(c, p) => WaitLockInv'
    BY <2>1, <1>a DEF reparent_next, At, WaitLockInv, WaitPcs, Exiting
  <2>21. exit_zombie(c, p) => WaitLockInv'
    BY <2>1, <1>a DEF exit_zombie, sched, At, WaitLockInv, WaitPcs, Exiting
  <2>22. wait(c, p) => WaitLockInv'
    BY <2>1, <1>a DEF wait, At, WaitLockInv, WaitPcs, Exiting
  <2>23. wait_scan(c, p) => WaitLockInv'
    BY <2>1, <1>a DEF wait_scan, At, WaitLockInv, WaitPcs, Exiting
  <2>24. wait_found(c, p) => WaitLockInv'
    BY <2>1, <1>a DEF wait_found, freeproc, At, WaitLockInv, WaitPcs, Exiting
  <2>25. wait_end(c, p) => WaitLockInv'
    BY <2>1, <1>a DEF wait_end, At, WaitLockInv, WaitPcs, Exiting
  <2>26. kill(c, p) => WaitLockInv'
    BY <2>1, <1>a DEF kill, At, WaitLockInv, WaitPcs, Exiting
  <2>27. QED
    BY <1>2, <2>2, <2>3, <2>4, <2>5, <2>6, <2>7, <2>8, <2>9, <2>10, <2>11, <2>12, <2>13,
       <2>14, <2>15, <2>16, <2>17, <2>18, <2>19, <2>20, <2>21, <2>22, <2>23, <2>24, <2>25,
       <2>26 DEF ProcStep, Resume, KernelStep, Preempt
<1>3. CASE UNCHANGED vars
    BY <1>3, <1>a DEF vars, WaitLockInv, WaitPcs, Exiting
<1>4. QED
    BY <1>0, <1>1, <1>2, <1>3 DEF Next, ProcStep

\* A step after which nobody new is about to sleep, has exited or is in one of
\* the loops.
Calm ==
    /\ \A p, q \in Slots : Unreaped(p, q)' => Unreaped(p, q)
    /\ \A p \in Slots : Drowsy(p)' => Drowsy(p)
    /\ \A p \in Slots : pc'[p] \in {"wait_scan", "sleep", "wake_parent"} =>
          /\ pc'[p] = pc[p] /\ i'[p] = i[p] /\ j'[p] = j[p]
          /\ pc[p] = "wake_parent" => parent'[p] = parent[p]
    /\ \A p \in Slots : pc[p] = "wake_init" /\ j[p] = 1 => pc'[p] = "wake_init" /\ j'[p] = 1

\* Such a step makes no process miss an exited child.
LEMMA CalmWait ==
    ASSUME TypeOK, InitInv, ParentInv, WaitInv, Calm
    PROVE  WaitInv'
<1>1. ASSUME NEW p \in Slots
      PROVE  /\ pc'[p] = "wait_scan" => \A q \in 1 .. i'[p] - 1 : ~Unreaped(p, q)'
             /\ pc'[p] = "sleep" => \A q \in Slots : ~Unreaped(p, q)'
  <2>1. \A k \in 1 .. NPROC + 1 : \A q \in 1 .. k - 1 : q \in Slots
    BY ProcAssumption DEF Slots
  <2>2. i[p] \in 1 .. NPROC + 1
    BY DEF TypeOK
  <2>3. QED
    BY <2>1, <2>2 DEF Calm, WaitInv, Unreaped
<1>2. ASSUME NEW p \in Slots, pc'[p] = "wake_parent",
             NEW r \in Slots, parent'[p] = r, r < j'[p]
      PROVE  ~Drowsy(r)'
    BY <1>2 DEF Calm, WaitInv, Drowsy
<1>3. ASSUME NEW p \in Slots, NEW q \in Slots, Drowsy(p)', Unreaped(p, q)'
      PROVE  p = initproc /\ \E e \in Slots : pc'[e] = "wake_init" /\ j'[e] = 1
    BY <1>3 DEF Calm, WaitInv, Unreaped, Drowsy
<1>4. QED
    BY <1>1, <1>2, <1>3 DEF WaitInv, Unreaped, Drowsy

\* What p itself must not do in a calm step.
CalmOwn(p) ==
    /\ state'[p] # "ZOMBIE"
    /\ Drowsy(p)' => Drowsy(p)
    /\ pc'[p] \notin {"wait_scan", "sleep", "wake_parent"}
    /\ pc[p] = "wake_init" => j[p] # 1
    /\ \A q \in Slots : parent'[q] # parent[q] =>
          state'[q] # "ZOMBIE" /\ pc'[q] # "wake_parent"

\* If it does none of it, the step is calm.
LEMMA CalmStep ==
    ASSUME TypeOK, WaitLockInv, NEW p \in Slots, CalmOwn(p), \A q \in Slots \ {p} : Other(q)
    PROVE  Calm
<1>1. \A q \in Slots : state'[q] = "ZOMBIE" => state[q] = "ZOMBIE" /\ parent'[q] = parent[q]
    BY DEF CalmOwn, Other
<1>2. \A r, q \in Slots : Unreaped(r, q)' => Unreaped(r, q)
    BY <1>1 DEF Unreaped
<1>3. \A q \in Slots : Drowsy(q)' => Drowsy(q)
    BY DEF CalmOwn, Other, Drowsy
<1>4. \A q \in Slots : pc'[q] \in {"wait_scan", "sleep", "wake_parent"} =>
          /\ pc'[q] = pc[q] /\ i'[q] = i[q] /\ j'[q] = j[q]
          /\ pc[q] = "wake_parent" => parent'[q] = parent[q]
    BY DEF CalmOwn, Other
<1>5. \A q \in Slots : pc[q] = "wake_init" /\ j[q] = 1 => pc'[q] = "wake_init" /\ j'[q] = 1
    BY DEF CalmOwn, Other, WaitLockInv, WaitPcs, Exiting
<1>6. QED
    BY <1>2, <1>3, <1>4, <1>5 DEF Calm

\* Every step leaves no process asleep over an exited child that nobody is
\* about to wake it for.
LEMMA WaitNext ==
    /\ TypeOK /\ CpuInv /\ CtxInv /\ ForkInv /\ InitInv /\ ParentInv
    /\ WaitLockInv /\ WaitInv /\ [Next]_vars
    => WaitInv'
<1>0. SUFFICES ASSUME TypeOK, CpuInv, CtxInv, ForkInv, InitInv, ParentInv,
                      WaitLockInv, WaitInv, [Next]_vars
               PROVE  WaitInv'
    OBVIOUS
<1>a. /\ idx \in [CPUs -> Slots] /\ state \in [Slots -> States] /\ parent \in [Slots -> 0 .. NPROC]
      /\ pc \in [Slots -> Pcs] /\ ctx \in [Slots -> {"none", "forkret", "yield", "sleep"}]
      /\ i \in [Slots -> 1 .. NPROC + 1] /\ j \in [Slots -> 1 .. NPROC + 1]
      /\ arg \in [Slots -> Nat]
      /\ plock \in [Slots -> {0, 1}] /\ wait_lock \in 0 .. NPROC /\ NPROC \in Nat \ {0}
    BY <1>0, ProcAssumption DEF TypeOK
<1>1. ASSUME NEW c \in CPUs, Scheduler(c) PROVE WaitInv'
  <2>1. /\ \A q \in Slots : state'[q] = "ZOMBIE" => state[q] = "ZOMBIE"
        /\ \A q \in Slots : state'[q] = "SLEEPING" => state[q] = "SLEEPING"
    BY <1>1, <1>a DEF Scheduler, scan_skip, scan_run, sched_back, sched_release
  <2>2. UNCHANGED <<parent, pc, ctx, i, j>>
    BY <1>1 DEF Scheduler, scan_skip, scan_run, sched_back, sched_release
  <2>3. Calm
    BY <2>1, <2>2 DEF Calm, Unreaped, Drowsy
  <2>4. QED
    BY <2>3, <1>0, CalmWait
<1>2. ASSUME NEW c \in CPUs, NEW p \in Slots, ProcStep(c, p) PROVE WaitInv'
  <2>1. On(c, p) /\ state[p] = "RUNNING" /\ \A q \in Slots \ {p} : Other(q)
    BY <1>0, <1>2, Frame, OnRuns
  <2>2. CASE CalmOwn(p)
    BY <2>1, <2>2, <1>0, CalmStep, CalmWait
  <2>3. forkret(c, p) => CalmOwn(p)
    BY <2>1, <1>0, <1>a DEF forkret, CalmOwn, Drowsy, CtxInv
  <2>4. yield_return(c, p) => CalmOwn(p)
    BY <2>1, <1>0, <1>a DEF yield_return, CalmOwn, Drowsy, CtxInv, Preemptible
  <2>5. sleep_return(c, p) => CalmOwn(p)
    BY <2>1, <1>0, <1>a DEF sleep_return, CalmOwn, Drowsy, CtxInv
  <2>6. yield(c, p) => CalmOwn(p)
    BY <2>1, <1>a DEF yield, sched, At, CalmOwn, Drowsy, Preemptible
  <2>7. timer(c, p) => CalmOwn(p)
    BY <2>1, <1>a DEF timer, At, CalmOwn, Drowsy
  <2>8. syscall(c, p) => CalmOwn(p)
    BY <2>1, <1>a DEF syscall, At, CalmOwn, Drowsy
  <2>9. usertrapret(c, p) => CalmOwn(p)
    BY <2>1, <1>a DEF usertrapret, At, CalmOwn, Drowsy
  <2>10. usertrap_killed(c, p) => CalmOwn(p)
    BY <2>1, <1>a DEF usertrap_killed, At, CalmOwn, Drowsy
  <2>11. sleep_sched(c, p) => CalmOwn(p)
    BY <2>1, <1>a DEF sleep_sched, sched, At, CalmOwn, Drowsy
  <2>12. alloc_skip(c, p) => CalmOwn(p)
    BY <2>1, <1>a DEF alloc_skip, At, CalmOwn, Drowsy
  <2>13. allocproc(c, p) => CalmOwn(p)
    BY <2>1, <1>a DEF allocproc, At, CalmOwn, Drowsy
  <2>14. fork_fails(c, p) => CalmOwn(p)
    BY <2>1, <1>0, <1>a DEF fork_fails, freeproc, At, CalmOwn, Drowsy, WaitLockInv, WaitPcs,
       Exiting
  <2>15. fork_parent(c, p) => CalmOwn(p)
    BY <2>1, <1>0, <1>a DEF fork_parent, At, CalmOwn, Drowsy, ForkInv, WaitLockInv, WaitPcs,
       Exiting
  <2>16. fork_runnable(c, p) => CalmOwn(p)
    BY <2>1, <1>a DEF fork_runnable, At, CalmOwn, Drowsy
  <2>17. exit(c, p) => CalmOwn(p)
    BY <2>1, <1>a DEF exit, At, CalmOwn, Drowsy
  <2>18. reparent_next(c, p) => CalmOwn(p)
    BY <2>1, <1>a DEF reparent_next, At, CalmOwn, Drowsy
  <2>19. wait_found(c, p) => CalmOwn(p)
    BY <2>1, <1>0, <1>a DEF wait_found, freeproc, At, CalmOwn, Drowsy, WaitLockInv, WaitPcs,
       Exiting
  <2>20. kill(c, p) => CalmOwn(p)
    BY <2>1, <1>a DEF kill, At, CalmOwn, Drowsy
  <2>21. ASSUME pc[p] \in WaitPcs \/ wait_lock = 0, NEW q \in Slots \ {p}
        PROVE  pc[q] \notin WaitPcs /\ pc'[q] \notin WaitPcs
    <3>1. pc[q] \notin WaitPcs
        BY <2>21, <1>0, SlotFacts DEF WaitLockInv
    <3>2. pc'[q] = pc[q] \/ pc'[q] = "user"
        BY <2>21, <2>1 DEF Other
    <3>3. "user" \notin WaitPcs
        BY DEF WaitPcs, Exiting
    <3>4. QED
        BY <3>1, <3>2, <3>3
  <2>22. /\ \A q \in Slots \ {p} : Drowsy(q)' => Drowsy(q)
         /\ \A q \in Slots \ {p} : state'[q] = "ZOMBIE" => state[q] = "ZOMBIE"
    BY <2>1 DEF Other, Drowsy
  <2>23. ASSUME pc[p] \in WaitPcs \/ wait_lock = 0, pc[p] = "wake_init" => j[p] # 1
        PROVE  \A r, q \in Slots : Drowsy(r) => ~Unreaped(r, q)
    BY <2>23, <2>21, <1>0 DEF WaitInv, WaitPcs, Exiting
  <2>24. ASSUME pc[p] \in WaitPcs \/ wait_lock = 0,
               pc'[p] = "wait_scan" => \A q \in 1 .. i'[p] - 1 : ~Unreaped(p, q)',
               pc'[p] = "sleep" => \A q \in Slots : ~Unreaped(p, q)',
               pc'[p] = "wake_parent" =>
                  \A r \in Slots : parent'[p] = r /\ r < j'[p] => ~Drowsy(r)',
               \A r, q \in Slots : Drowsy(r)' /\ Unreaped(r, q)' =>
                  r = initproc /\ pc'[p] = "wake_init" /\ j'[p] = 1
        PROVE  WaitInv'
    BY <2>24, <2>21 DEF WaitInv, WaitPcs, Exiting, Unreaped, Drowsy
  <2>25. ASSUME wait(c, p) PROVE WaitInv'
    <3>1. /\ wait_lock = 0 /\ pc[p] = "wait" /\ pc'[p] = "wait_scan" /\ i'[p] = 1
          /\ UNCHANGED <<state, parent>>
        BY <2>25, <1>a DEF wait, At
    <3>2. \A r, q \in Slots : Drowsy(r)' => ~Unreaped(r, q)'
        BY <3>1, <2>22, <2>23 DEF Drowsy, Unreaped
    <3>3. QED
        BY <3>1, <3>2, <2>24
  <2>26. ASSUME wait_scan(c, p) PROVE WaitInv'
    <3>1. /\ pc[p] = "wait_scan" /\ pc'[p] = "wait_scan" /\ i'[p] = i[p] + 1 /\ i[p] \in Slots
          /\ UNCHANGED <<state, parent>> /\ ~Unreaped(p, i[p])
        BY <2>26, <1>a, SlotFacts DEF wait_scan, At, Unreaped
    <3>2. \A r, q \in Slots : Drowsy(r)' => ~Unreaped(r, q)'
        BY <3>1, <2>22, <2>23 DEF Drowsy, Unreaped, WaitPcs
    <3>3. \A q \in 1 .. i'[p] - 1 : ~Unreaped(p, q)'
      <4>1. \A q \in 1 .. i[p] - 1 : ~Unreaped(p, q)
          BY <3>1, <1>0 DEF WaitInv
      <4>2. \A q \in 1 .. i'[p] - 1 : q = i[p] \/ q \in 1 .. i[p] - 1
          BY <3>1 DEF Slots
      <4>3. QED
          BY <3>1, <4>1, <4>2 DEF Unreaped
    <3>4. QED
        BY <3>1, <3>2, <3>3, <2>24 DEF WaitPcs
  <2>27. ASSUME wait_end(c, p) PROVE WaitInv'
    <3>1. /\ pc[p] = "wait_scan" /\ pc'[p] \in {"sleep", "ret"} /\ i[p] > NPROC
          /\ i[p] \in 1 .. NPROC + 1 /\ UNCHANGED <<state, parent>>
        BY <2>27, <1>a DEF wait_end, At
    <3>2. \A r, q \in Slots : Drowsy(r)' => ~Unreaped(r, q)'
        BY <3>1, <2>22, <2>23 DEF Drowsy, Unreaped, WaitPcs
    <3>3. \A q \in Slots : ~Unreaped(p, q)'
      <4>1. \A q \in 1 .. i[p] - 1 : ~Unreaped(p, q)
          BY <3>1, <1>0 DEF WaitInv
      <4>2. \A q \in Slots : q \in 1 .. i[p] - 1
          BY <3>1, ProcAssumption DEF Slots
      <4>3. QED
          BY <3>1, <4>1, <4>2 DEF Unreaped
    <3>4. QED
        BY <3>1, <3>2, <3>3, <2>24 DEF WaitPcs
  <2>28. ASSUME sleep(c, p) PROVE WaitInv'
    <3>1. pc[p] = "sleep" /\ pc'[p] = "sleep_sched" /\ UNCHANGED <<state, parent>>
        BY <2>28, <1>a DEF sleep, At
    <3>2. \A q \in Slots : ~Unreaped(p, q)
        BY <3>1, <1>0 DEF WaitInv
    <3>3. \A r, q \in Slots : Drowsy(r)' => ~Unreaped(r, q)'
        BY <3>1, <3>2, <2>22, <2>23 DEF Unreaped, WaitPcs
    <3>4. QED
        BY <3>1, <3>3, <2>24 DEF WaitPcs
  <2>29. ASSUME reparent(c, p) PROVE WaitInv'
    <3>0. /\ pc[p] = "reparent" /\ j' = j /\ state' = state
          /\ pc'[p] \in {"reparent", "wake_init", "wake_parent"}
        BY <2>29, <1>a DEF reparent, At
    <3>1. /\ pc[p] = "reparent" /\ j[p] = 1 /\ j' = j /\ state' = state
          /\ pc'[p] \in {"reparent", "wake_init", "wake_parent"}
        BY <3>0, <1>0 DEF ParentInv
    <3>2. \A r, q \in Slots : Drowsy(r) => ~Unreaped(r, q)
        BY <3>1, <2>23 DEF WaitPcs, Exiting
    <3>3. \A r \in Slots : Drowsy(r)' => Drowsy(r)
        BY <3>1, <2>22 DEF Drowsy
    <3>4. \A q \in Slots : parent'[q] # parent[q] => parent'[q] = initproc /\ pc'[p] = "wake_init"
        BY <2>29, <1>a DEF reparent
    <3>5. \A r, q \in Slots : Drowsy(r)' /\ Unreaped(r, q)' => r = initproc /\ pc'[p] = "wake_init"
        BY <3>1, <3>2, <3>3, <3>4 DEF Unreaped
    <3>6. \A r \in Slots : ~(r < j'[p])
        BY <3>1 DEF Slots
    <3>7. QED
        BY <3>1, <3>5, <3>6, <2>24 DEF WaitPcs, Exiting
  <2>30. ASSUME exit_wakeup(c, p) PROVE WaitInv'
    <3> DEFINE
          Woken(r) ==
              /\ r = j[p]
              /\ pc[p] = "wake_init" => r = initproc
              /\ pc[p] = "wake_parent" => r = parent[p]
    <3>1. /\ pc[p] \in {"wake_init", "wake_parent"} /\ pc' = pc /\ ctx' = ctx /\ parent' = parent
          /\ j'[p] = j[p] + 1 /\ j[p] \in 1 .. NPROC
        BY <2>30, <1>a, SMTT(30) DEF exit_wakeup, At, wakeup
    <3>2. /\ \A r \in Slots : Drowsy(r)' => Drowsy(r)
          /\ \A r, q \in Slots : Unreaped(r, q)' => Unreaped(r, q)
      <4>1. state'[p] = state[p]
          BY <2>30, <1>a DEF exit_wakeup, wakeup
      <4>2. QED
          BY <3>1, <4>1, <2>22 DEF Drowsy, Unreaped
    <3>3. ASSUME NEW r \in Slots, Woken(r) PROVE ~Drowsy(r)'
      <4>1. CASE r = p
          BY <4>1, <3>1 DEF Drowsy
      <4>2. CASE r # p
        <5>1. /\ plock[r] = 0
              /\ state[r] = "SLEEPING" /\ chan[r] = r => state'[r] = "RUNNABLE"
              /\ state[r] # "SLEEPING" => state'[r] = state[r]
          <6>1. CASE At(c, p, "wake_init") /\ wakeup(p, initproc)
              BY <6>1, <3>3, <4>2, <1>a DEF At, wakeup
          <6>2. CASE At(c, p, "wake_parent") /\ wakeup(p, parent[p])
              BY <6>2, <3>3, <4>2, <1>a DEF At, wakeup
          <6>3. QED
              BY <2>30, <6>1, <6>2 DEF exit_wakeup
        <5>2. /\ pc[r] = "sleep_sched" /\ ctx[r] = "none" => plock[r] = 1
              /\ state[r] = "SLEEPING" => ctx[r] = "sleep" /\ chan[r] = r
            BY <1>0 DEF CtxInv
        <5>3. pc'[r] = pc[r] /\ ctx'[r] = ctx[r]
            BY <3>1
        <5>4. ~(pc[r] = "sleep_sched" /\ ctx[r] = "none")
            BY <5>1, <5>2
        <5>5. state'[r] # "SLEEPING"
            BY <5>1, <5>2, <5>4, <3>3, <5>3 DEF Woken
        <5>6. QED
            BY <5>3, <5>4, <5>5, Zenon DEF Drowsy
      <4>3. QED
          BY <4>1, <4>2
    <3>4. CASE pc[p] = "wake_parent"
      <4>1. \A r, q \in Slots : Drowsy(r)' => ~Unreaped(r, q)'
          BY <3>2, <3>4, <2>23 DEF WaitPcs, Exiting
      <4>2. ASSUME NEW r \in Slots, parent[p] = r, r < j'[p] PROVE ~Drowsy(r)'
        <5>1. r < j[p] \/ r = j[p]
            BY <3>1, <4>2 DEF Slots
        <5>2. r < j[p] => ~Drowsy(r)
            BY <1>0, <3>4, <4>2 DEF WaitInv
        <5>3. QED
            BY <5>1, <5>2, <3>2, <3>3, <3>4, <4>2
      <4>3. QED
          BY <3>1, <3>4, <4>1, <4>2, <2>24 DEF WaitPcs, Exiting
    <3>5. CASE pc[p] = "wake_init"
      <4>1. ASSUME NEW r \in Slots, NEW q \in Slots, Drowsy(r)', Unreaped(r, q)' PROVE FALSE
        <5>1. Drowsy(r) /\ Unreaped(r, q)
            BY <3>2, <4>1
        <5>2. j[p] = 1
            BY <3>5, <5>1, <2>23 DEF WaitPcs, Exiting
        <5>3. r = initproc
            BY <5>1, <1>0 DEF WaitInv
        <5>4. QED
            BY <3>3, <3>5, <4>1, <5>2, <5>3 DEF initproc
      <4>2. QED
          BY <3>1, <3>5, <4>1, <2>24 DEF WaitPcs, Exiting
    <3>6. QED
        BY <3>1, <3>4, <3>5
  <2>31. ASSUME exit_zombie(c, p) PROVE WaitInv'
    <3>1. /\ pc[p] = "wake_parent" /\ pc'[p] = "none" /\ parent' = parent
          /\ j[p] > NPROC /\ j[p] \in 1 .. NPROC + 1
        BY <2>31, <1>a DEF exit_zombie, At
    <3>2. \A r \in Slots : Drowsy(r)' => r # p /\ Drowsy(r)
        BY <3>1, <2>22 DEF Drowsy
    <3>3. \A r \in Slots : parent[p] = r => ~Drowsy(r)
      <4>1. \A r \in Slots : r < j[p]
          BY <3>1, <1>a DEF Slots
      <4>2. QED
          BY <3>1, <4>1, <1>0 DEF WaitInv
    <3>4. \A r, q \in Slots : Drowsy(r) => ~Unreaped(r, q)
        BY <3>1, <2>23 DEF WaitPcs, Exiting
    <3>5. \A r, q \in Slots : Drowsy(r)' => ~Unreaped(r, q)'
        BY <3>1, <3>2, <3>3, <3>4, <2>22 DEF Unreaped
    <3>6. QED
        BY <3>1, <3>5, <2>24 DEF WaitPcs, Exiting
  <2>32. QED
    BY <1>2, <2>2, <2>3, <2>4, <2>5, <2>6, <2>7, <2>8, <2>9, <2>10, <2>11, <2>12, <2>13,
       <2>14, <2>15, <2>16, <2>17, <2>18, <2>19, <2>20, <2>25, <2>26, <2>27, <2>28, <2>29,
       <2>30, <2>31 DEF ProcStep, Resume, KernelStep, Preempt
<1>3. CASE UNCHANGED vars
    BY <1>0, <1>3 DEF vars, WaitInv, Unreaped, Drowsy
<1>4. QED
    BY <1>0, <1>1, <1>2, <1>3 DEF Next, ProcStep

-----------------------------------------------------------------------------
(* Theorems *)

\* The table as userinit() leaves it satisfies the invariant.
LEMMA InvInit == Init => ProcInv
<1>0. SUFFICES ASSUME Init PROVE ProcInv
    OBVIOUS
<1>1. TypeOK
    BY <1>0, TypeInit
<1>2. /\ \A p \in Slots : /\ pc[p] \in {"user", "none"} /\ parent[p] = 0 /\ killed[p] = 0
                          /\ state[p] \in {"RUNNABLE", "UNUSED"}
                          /\ (p # initproc => state[p] = "UNUSED" /\ ctx[p] = "none")
                          /\ (p = initproc => /\ state[p] = "RUNNABLE" /\ pid[p] = 1
                                              /\ pc[p] = "user" /\ ctx[p] = "forkret")
      /\ \A c \in CPUs : cpc[c] = "scan" /\ cproc[c] = 0 /\ satp[c] = 0
      /\ initproc \in Slots
    BY <1>0, SlotFacts DEF Init
<1>3. CpuInv /\ CtxInv
    BY <1>2 DEF CpuInv, CtxInv
<1>4. ForkInv /\ InitInv
    BY <1>2 DEF ForkInv, InitInv, Alive, Exiting
<1>5. ParentInv
    BY <1>2 DEF ParentInv, Alive
<1>6. WaitLockInv /\ WaitInv
    BY <1>2 DEF WaitLockInv, WaitInv, WaitPcs, Exiting, Drowsy
<1>7. QED
    BY <1>1, <1>3, <1>4, <1>5, <1>6 DEF ProcInv

\* Every step of proc.c keeps it.
LEMMA InvNext == ProcInv /\ [Next]_vars => ProcInv'
BY TypeNext, CpuNext, CtxNext, ForkNext, InitNext, ParentNext, WaitLockNext, WaitNext
   DEF ProcInv

\* ProcInv is an invariant of the process table, for any number of slots, of
\* CPUs and of forks.
THEOREM ProcInvariant == Spec => []ProcInv
BY InvInit, InvNext, PTL DEF Spec

\* No process is on two CPUs: p->lock is held across swtch(), whatever
\* wakeup(), kill() and the schedulers do in between.
THEOREM NeverOnTwoCPUs == Spec => []OneCPU
<1>1. ProcInv => OneCPU
  <2>1. SUFFICES ASSUME ProcInv, NEW c \in CPUs, NEW d \in CPUs, cproc[c] = cproc[d], cproc[c] # 0
                 PROVE  c = d
    BY DEF OneCPU
  <2>2. /\ cpc[c] \in {"scan", "run", "back", "release"}
        /\ cpc[d] \in {"scan", "run", "back", "release"}
        /\ CpuInv
    BY <2>1 DEF ProcInv, TypeOK
  <2>3. QED
    BY <2>1, <2>2 DEF CpuInv
<1>2. QED
    BY <1>1, ProcInvariant, PTL

\* No CPU uses the kernel page table of a process that wait() has freed.
THEOREM PageTablesLive == Spec => []PageTableLive
<1>1. ProcInv => PageTableLive
  <2>1. SUFFICES ASSUME ProcInv, NEW c \in CPUs, satp[c] # 0 PROVE state[satp[c]] # "UNUSED"
    BY DEF PageTableLive
  <2>2. cpc[c] \in {"scan", "run", "back", "release"} /\ CpuInv
    BY <2>1 DEF ProcInv, TypeOK
  <2>3. QED
    BY <2>1, <2>2 DEF CpuInv
<1>2. QED
    BY <1>1, ProcInvariant, PTL

\* Every exited process has a parent that can still wait() for it and does not
\* sleep in wait() over it: exit() hands its children to init and wakes whom
\* it has to before it lets go of wait_lock.
THEOREM ZombiesAreReapable == Spec => []ZombiesReapable
<1>1. ProcInv => ZombiesReapable
  <2>1. SUFFICES ASSUME ProcInv PROVE ZombiesReapable
    OBVIOUS
  <2>2. ParentAlive
    BY <2>1 DEF ProcInv, ParentInv, ParentAlive, Alive
  <2>3. NoLostWakeup
    <3>1. SUFFICES ASSUME wait_lock = 0, NEW p \in Slots, NEW q \in Slots,
                          state[p] = "SLEEPING", parent[q] = p
                   PROVE  state[q] # "ZOMBIE"
        BY DEF NoLostWakeup
    <3>2. Drowsy(p)
        BY <2>1, <3>1 DEF ProcInv, CtxInv, Drowsy
    <3>3. \A e \in Slots : pc[e] # "wake_init"
        BY <2>1, <3>1, SlotFacts DEF ProcInv, WaitLockInv, WaitPcs, Exiting
    <3>4. QED
        BY <2>1, <3>1, <3>2, <3>3 DEF ProcInv, WaitInv, Unreaped
  <2>4. QED
    BY <2>1, <2>2, <2>3 DEF ProcInv, ZombiesReapable
<1>2. QED
    BY <1>1, ProcInvariant, PTL
=============================================================================
