----------------------------- MODULE MCProgress -----------------------------
(***************************************************************************)
(* Small instances of Console and Proc, side by side, and their liveness.  *)
(*                                                                         *)
(* Only the component named by sel takes steps, so the behaviours are      *)
(* those of the components one by one.  Console has its own variables,     *)
(* which stay as Init has them while Proc runs in s1 to s18; its input and *)
(* its output, where only "x" is typed, are looked at one after the other. *)
(***************************************************************************)
EXTENDS Console

CONSTANT c1

VARIABLES sel, s1, s2, s3, s4, s5, s6, s7, s8, s9, s10, s11, s12, s13, s14, s15, s16, s17, s18

slots == <<s1, s2, s3, s4, s5, s6, s7, s8, s9, s10, s11, s12, s13, s14, s15, s16, s17, s18>>
all == <<vars, sel, slots>>

P == INSTANCE Proc WITH NPROC <- 3, CPUs <- {c1}, MaxPid <- 3, KillPids <- {2},
        state <- s1, pid <- s2, parent <- s3, killed <- s4, chan <- s5, nextpid <- s6, plock <- s7,
        wait_lock <- s8, cproc <- s9, satp <- s10, cpc <- s11, idx <- s12, pc <- s13, ctx <- s14,
        i <- s15, j <- s16, arg <- s17, havekids <- s18

Zero ==
    /\ s1 = 0 /\ s2 = 0 /\ s3 = 0 /\ s4 = 0 /\ s5 = 0 /\ s6 = 0 /\ s7 = 0 /\ s8 = 0 /\ s9 = 0
    /\ s10 = 0 /\ s11 = 0 /\ s12 = 0 /\ s13 = 0 /\ s14 = 0 /\ s15 = 0 /\ s16 = 0 /\ s17 = 0 /\ s18 = 0

AllInit ==
    /\ Init
    /\ \/ sel = "proc" /\ P!Init
       \/ sel \in {"input", "output"} /\ Zero

InputDoes(A) == sel = "input" /\ A /\ UNCHANGED <<written, sel, slots>>
OutputDoes(A) ==
    /\ sel = "output" /\ A /\ UNCHANGED <<reader, sel, slots>>
    /\ \A k \in DOMAIN rhr' : rhr'[k] = "x"
ProcDoes(A) == sel = "proc" /\ A /\ UNCHANGED <<vars, sel>>

AllNext ==
    \/ InputDoes(Next)
    \/ OutputDoes(Next)
    \/ ProcDoes(P!Next)
    \/ sel \in {"input", "output"} /\ UNCHANGED all      \* these may come to an end

\* The fairness of each component, as its own LiveSpec has it.  Conditions of
\* different components are joined: sel does not change, so only one of the
\* joined actions can ever be enabled in a behaviour.
AllSpec ==
    /\ AllInit /\ [][AllNext]_all
    /\ WF_all(\/ OutputDoes(transmit)
              \/ ProcDoes(P!Scheduler(c1) \/ \E p \in P!Slots : P!Resume(c1, p)))
    /\ WF_all(OutputDoes(handler)) /\ WF_all(OutputDoes(uartputc))
    /\ \A a \in Actors : WF_all(OutputDoes(uartstart(a))) /\ WF_all(OutputDoes(write_thr(a)))
    /\ SF_all(ProcDoes(\E p \in P!Slots : P!Preempt(c1, p))) /\ SF_all(ProcDoes(P!InitWaits(c1)))
    /\ \A p \in P!Slots : SF_all(ProcDoes(P!KernelStep(c1, p)))

-----------------------------------------------------------------------------
(* Properties: InputEdited, OutputFifo and OutputDrains of Console, by     *)
(* their own names, and those of Proc.                                     *)

\* scheduler()'s round-robin scan starves nobody: a process that can run is run.
EveryoneRuns ==
    \A p \in P!Slots : (sel = "proc" /\ s1[p] = "RUNNABLE") ~> (sel = "proc" /\ s1[p] = "RUNNING")

\* An exited process whose parent is gone leaves the process table: reparent()
\* gives it to init and init's wait() frees it.
OrphansReaped ==
    \A p \in P!Slots \ {P!initproc} : (sel = "proc" /\ P!OrphanZombie(p)) ~> (sel = "proc" /\ s1[p] = "UNUSED")
=============================================================================
