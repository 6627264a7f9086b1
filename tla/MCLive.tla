------------------------------- MODULE MCLive -------------------------------
(***************************************************************************)
(* Liveness of Log, VirtioDisk and ShellRun, side by side.                 *)
(*                                                                         *)
(* Only the component named by sel takes steps, so the behaviours are      *)
(* those of the components one by one.  Log has its own variables, which   *)
(* stay as Init has them while another component runs; the others share    *)
(* s1 to s21.                                                              *)
(***************************************************************************)
EXTENDS Log

CONSTANT None

VARIABLES sel, s1, s2, s3, s4, s5, s6, s7, s8, s9, s10, s11, s12, s13, s14, s15,
          s16, s17, s18, s19, s20, s21

slots5 == <<s5, s6, s7, s8, s9, s10, s11, s12, s13, s14, s15, s16, s17, s18, s19, s20, s21>>
slots == <<s1, s2, s3, s4, slots5>>
all == <<vars, sel, slots>>

ThreeProcs == 1 .. 3
Image == [b \in Blocks |-> 0]

\* Commands of the shell: a | b | c     a | b & ; c     (a < i ; b) | c > o > q     (a &) | b
Exec(n) == [type |-> "EXEC", name |-> n]
Redir(c, f, fd) == [type |-> "REDIR", cmd |-> c, file |-> f, fd |-> fd]
Pipe(n, l, r) == [type |-> "PIPE", name |-> n, left |-> l, right |-> r]
List(l, r) == [type |-> "LIST", left |-> l, right |-> r]
Back(c) == [type |-> "BACK", cmd |-> c]
Commands == {Pipe("x", Exec("a"), Pipe("y", Exec("b"), Exec("c"))),
             List(Back(Pipe("x", Exec("a"), Exec("b"))), Exec("c")),
             Pipe("x", List(Redir(Exec("a"), "i", 0), Exec("b")), Redir(Redir(Exec("c"), "o", 1), "q", 1)),
             Pipe("x", Back(Exec("a")), Exec("b"))}

D == INSTANCE VirtioDisk WITH Procs <- ThreeProcs, NUM <- 4, IDX <- 8, Types <- {"IN", "OUT"}, Statuses <- {0},
        free <- s1, addr <- s2, next <- s3, ops <- s4, info <- s5, status <- s6, ring <- s7,
        avail_idx <- s8, used <- s9, used_idx_dev <- s10, used_idx <- s11, disk <- s12,
        lock <- s13, pc <- s14, type <- s15, idx0 <- s16, irq <- s17, hpc <- s18, seen <- s19,
        busy <- s20, served <- s21

S == INSTANCE ShellRun WITH NPROC <- 7, NOFILE <- 7, PIPESIZE <- 1,
        tree <- s1, proc <- s2, pipe <- s3, failed <- s4

LogDoes(A) == sel = "log" /\ A /\ UNCHANGED <<sel, slots>>
DiskDoes(A) == sel = "disk" /\ A /\ UNCHANGED <<vars, sel>>
ShellDoes(A) == sel = "shell" /\ A /\ UNCHANGED <<vars, sel, slots5>>

Zero1 == s1 = 0 /\ s2 = 0 /\ s3 = 0 /\ s4 = 0
Zero5 ==
    /\ s5 = 0 /\ s6 = 0 /\ s7 = 0 /\ s8 = 0 /\ s9 = 0 /\ s10 = 0 /\ s11 = 0 /\ s12 = 0 /\ s13 = 0
    /\ s14 = 0 /\ s15 = 0 /\ s16 = 0 /\ s17 = 0 /\ s18 = 0 /\ s19 = 0 /\ s20 = 0 /\ s21 = 0

AllInit ==
    /\ Init
    /\ \/ sel = "log" /\ Zero1 /\ Zero5
       \/ sel = "disk" /\ D!Init
       \/ sel = "shell" /\ S!Init /\ Zero5

AllNext ==
    \/ LogDoes(Next)
    \/ DiskDoes(D!Next)
    \/ ShellDoes(S!Next)
    \/ sel = "shell" /\ UNCHANGED all      \* it may come to an end

\* The fairness of each component, as its own LiveSpec has it.  Conditions of
\* different components are joined: sel does not change, so only one of the
\* joined actions can ever be enabled in a behaviour.
Weak ==
    /\ WF_all(DiskDoes(D!Handler) \/ LogDoes(Recover) \/ ShellDoes(S!main_fork))
    /\ WF_all(DiskDoes(D!dev_fetch) \/ ShellDoes(S!main_wait))
    /\ \A h \in D!Desc : WF_all(DiskDoes(D!dev_finish(h, 0)))
    /\ \A p \in Procs : WF_all(DiskDoes(D!rw_publish(p)) \/ LogDoes(Progress(p)))
    /\ \A p \in 2 .. 7 : WF_all(ShellDoes(S!shell(p))) /\ WF_all(ShellDoes(S!read(p))) /\ WF_all(ShellDoes(S!write(p)))

Strong ==
    /\ \A p \in Procs : /\ SF_all(DiskDoes(D!rw_fill(p)) \/ ShellDoes(S!ends(p + 1)))
                       /\ SF_all(DiskDoes(D!rw_return(p)) \/ ShellDoes(S!ends(p + 4)))
    /\ SF_all(DiskDoes(D!intr_ack))

AllSpec ==
    /\ AllInit /\ [][AllNext]_all
    /\ Weak /\ Strong

-----------------------------------------------------------------------------
(* Properties: SleepersWoken is Log's own. *)

\* Every program runcmd() starts has the input and output its command asks for
\* and no other descriptor, and starts when nothing it has to wait for is
\* running any more.
RunsAsWritten == sel = "shell" => S!RunsAsWritten

\* Every disk request is answered and virtio_disk_rw() returns, although failed
\* allocations keep waking each other; and none of them loses a descriptor
\* (alloc3_desc()).
DiskAnswers ==
    /\ [](sel = "disk" => D!ChainsOwned)
    /\ \A p \in ThreeProcs : (sel = "disk" /\ s14[p] # "idle") ~> (sel = "disk" /\ s14[p] = "idle")

\* The shell always gives the prompt again: no reader waits for an end of input
\* that cannot come because some process still has the pipe open for writing.
PromptReturns == (sel = "shell" /\ S!At(1, "wait")) ~> (sel = "shell" /\ S!At(1, "prompt"))
=============================================================================
