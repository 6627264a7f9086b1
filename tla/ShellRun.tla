------------------------------ MODULE ShellRun ------------------------------
(***************************************************************************)
(* The shell running a parsed command (runcmd() and main() of user/sh.c):  *)
(* processes, their file descriptors, pipes, and the programs they exec(). *)
(*                                                                         *)
(* A descriptor is <<kind, name>>; a pipe has the name of the PIPE command *)
(* that makes it.  Steps on a process's own descriptors are joined with    *)
(* the fork() before them.  A program copies its input to its output, as   *)
(* cat, grep and wc do, and may stop early.  Any fork(), open() or exec()  *)
(* may fail.                                                               *)
(***************************************************************************)
EXTENDS Integers, Sequences, FiniteSets

CONSTANTS Commands,   \* parsed command lines, with names for EXECs and PIPEs
          NPROC,      \* processes there can be; enough for every command
          NOFILE,
          PIPESIZE

VARIABLES tree,       \* the command line
          proc,       \* state, pc, command, descriptors and parent of each process
          pipe,       \* how much each pipe holds
          failed      \* a fork1() has failed that leaves children behind

vars == <<tree, proc, pipe, failed>>

Pids == 1 .. NPROC
main == 1             \* the shell itself; its parent, 0, is init
NoFd == <<"none", "">>
Console == <<"console", "">>
Unused == [state |-> "UNUSED", pc |-> "", cmd |-> [type |-> "none"], fd |-> <<>>, parent |-> 0]

RECURSIVE PipeNames(_)
PipeNames(c) ==
    CASE c.type = "EXEC" -> {}
      [] c.type \in {"REDIR", "BACK"} -> PipeNames(c.cmd)
      [] c.type = "LIST" -> PipeNames(c.left) \union PipeNames(c.right)
      [] c.type = "PIPE" -> {c.name} \union PipeNames(c.left) \union PipeNames(c.right)

\* main() has made sure that 0, 1 and 2 are open, and reads a line.
Init ==
    /\ tree \in Commands
    /\ proc = [p \in Pids |-> IF p # main THEN Unused ELSE
                 [Unused EXCEPT !.state = "RUNNING", !.pc = "getcmd",
                                !.fd = [k \in 0 .. NOFILE - 1 |-> IF k < 3 THEN Console ELSE NoFd]]]
    /\ pipe = [n \in PipeNames(tree) |-> 0]
    /\ failed = FALSE

At(p, pc) == proc[p].state = "RUNNING" /\ proc[p].pc = pc
RunsCmd(p, type) == At(p, "runcmd") /\ proc[p].cmd.type = type
Free == {p \in Pids : proc[p].state = "UNUSED"}

\* Descriptors: the kernel takes the lowest free number (fdalloc()).
Lowest(fd) == CHOOSE k \in DOMAIN fd : fd[k] = NoFd /\ \A j \in DOMAIN fd : fd[j] = NoFd => k <= j
Opened(fd, f) == [fd EXCEPT ![Lowest(fd)] = f]
Closed(fd, f) == [k \in DOMAIN fd |-> IF k > 2 /\ fd[k] = f THEN NoFd ELSE fd[k]]
Piped(fd, n) == Opened(Opened(fd, <<"r", n>>), <<"w", n>>)

\* exit(): descriptors are closed, and init takes the children (and waits for them).
Exited(ps, p) ==
    [q \in Pids |->
        IF q = p THEN IF ps[p].parent = 0 THEN Unused ELSE [Unused EXCEPT !.state = "ZOMBIE", !.parent = ps[p].parent]
        ELSE IF ps[q].state # "UNUSED" /\ ps[q].parent = p
             THEN IF ps[q].state = "ZOMBIE" THEN Unused ELSE [ps[q] EXCEPT !.parent = 0]
        ELSE ps[q]]
exit(p) == proc' = Exited(proc, p) /\ UNCHANGED <<tree, pipe, failed>>

Kids(p) == {q \in Pids : proc[q].state # "UNUSED" /\ proc[q].parent = p}

\* fork1(): the child has command c and descriptors fd, the parent goes on as
\* in after; when fork() fails it panics.
fork1(p, c, fd, after) ==
    \/ /\ proc' = Exited(proc, p)
       /\ failed' = (failed \/ Kids(p) # {})
       /\ UNCHANGED <<tree, pipe>>
    \/ \E child \in Free :
          /\ \A q \in Free : child <= q
          /\ proc' = [proc EXCEPT ![p] = after,
                         ![child] = [state |-> "RUNNING", pc |-> "runcmd", cmd |-> c, fd |-> fd, parent |-> p]]
          /\ UNCHANGED <<tree, pipe, failed>>

\* wait(0): a child that is done, or no child at all.
wait(p, after) ==
    /\ \/ \E q \in Kids(p) : proc[q].state = "ZOMBIE" /\ proc' = [proc EXCEPT ![q] = Unused, ![p] = after]
       \/ Kids(p) = {} /\ proc' = [proc EXCEPT ![p] = after]
    /\ UNCHANGED <<tree, pipe, failed>>

Self(p) == proc[p]
Goto(p, pc) == [Self(p) EXCEPT !.pc = pc]

-----------------------------------------------------------------------------
(* main() *)

main_fork ==
    /\ At(main, "getcmd")
    /\ fork1(main, tree, Self(main).fd, Goto(main, "wait"))

main_wait == At(main, "wait") /\ wait(main, Goto(main, "prompt"))

-----------------------------------------------------------------------------
(* runcmd() *)

\* exec() may fail; then, or without a word, the process exits.
runcmd_exec(p) ==
    /\ RunsCmd(p, "EXEC")
    /\ \/ exit(p)
       \/ /\ proc' = [proc EXCEPT ![p] = Goto(p, "read")]
          /\ UNCHANGED <<tree, pipe, failed>>

\* close() and open(), which may fail.
runcmd_redir(p) ==
    LET c == proc[p].cmd
        fd == Opened([proc[p].fd EXCEPT ![c.fd] = NoFd], <<"file", c.file>>) IN
    /\ RunsCmd(p, "REDIR")
    /\ \/ exit(p)
       \/ /\ proc' = [proc EXCEPT ![p] = [@ EXCEPT !.fd = fd, !.cmd = c.cmd]]
          /\ UNCHANGED <<tree, pipe, failed>>

runcmd_list(p) ==
    /\ RunsCmd(p, "LIST")
    /\ fork1(p, proc[p].cmd.left, Self(p).fd, Goto(p, "list_wait"))

runcmd_right(p) ==
    /\ At(p, "list_wait")
    /\ wait(p, [Goto(p, "runcmd") EXCEPT !.cmd = @.right])

runcmd_back(p) ==
    /\ RunsCmd(p, "BACK")
    /\ fork1(p, proc[p].cmd.cmd, Self(p).fd, Goto(p, "exit"))

\* Mutant: as runcmd() might be if the right child kept the end for writing.
RightFd_open(fd, n) == [Closed(fd, <<"r", n>>) EXCEPT ![0] = <<"r", n>>]

\* close(1); dup(p[1]); close(p[0]); close(p[1]), and the same for 0 and p[0].
LeftFd(fd, n) == Closed(Closed(Opened([fd EXCEPT ![1] = NoFd], <<"w", n>>), <<"r", n>>), <<"w", n>>)
RightFd(fd, n) == Closed(Closed(Opened([fd EXCEPT ![0] = NoFd], <<"r", n>>), <<"r", n>>), <<"w", n>>)

\* pipe() and the first fork1(); either may fail.
runcmd_pipe(p) ==
    LET c == proc[p].cmd
        fd == Piped(proc[p].fd, c.name) IN
    /\ RunsCmd(p, "PIPE")
    /\ \/ exit(p)
       \/ fork1(p, c.left, LeftFd(fd, c.name), [Goto(p, "right") EXCEPT !.fd = fd])

\* Mutant: as runcmd() might be if the parent kept the end for writing.
ParentFd_open(fd, n) == Closed(fd, <<"r", n>>)

ParentFd(fd, n) == Closed(Closed(fd, <<"r", n>>), <<"w", n>>)

\* The second fork1(), close(p[0]) and close(p[1]).
pipe_right(p) ==
    LET c == proc[p].cmd
        fd == proc[p].fd IN
    /\ At(p, "right")
    /\ fork1(p, c.right, RightFd(fd, c.name), [Goto(p, "wait1") EXCEPT !.fd = ParentFd(fd, c.name)])

\* Mutant: as runcmd() might be if it waited for one child only.
AfterWait1_exit(p) == Goto(p, "exit")

AfterWait1(p) == Goto(p, "wait2")

pipe_wait(p) ==
    \/ At(p, "wait1") /\ wait(p, AfterWait1(p))
    \/ At(p, "wait2") /\ wait(p, Goto(p, "exit"))

runcmd_exit(p) == At(p, "exit") /\ exit(p)

-----------------------------------------------------------------------------
(* The programs and the pipes between them *)

Has(f) == \E p \in Pids : proc[p].state = "RUNNING" /\ \E k \in DOMAIN proc[p].fd : proc[p].fd[k] = f

\* One item, or the end of the input: of a pipe when nobody can write to it,
\* of the console or a file at any time.
EndOfInput(f) == f[1] = "r" => pipe[f[2]] = 0 /\ ~Has(<<"w", f[2]>>)

read(p) ==
    LET f == proc[p].fd[0] IN
    /\ At(p, "read")
    /\ \/ EndOfInput(f) /\ exit(p)
       \/ /\ f[1] = "r" => pipe[f[2]] > 0
          /\ proc' = [proc EXCEPT ![p].pc = "write"]
          /\ pipe' = [n \in DOMAIN pipe |-> IF f = <<"r", n>> THEN pipe[n] - 1 ELSE pipe[n]]
          /\ UNCHANGED <<tree, failed>>

\* The program may also stop here; it does when its write() fails.
write(p) ==
    LET f == proc[p].fd[1] IN
    /\ At(p, "write")
    /\ \/ /\ f[1] = "w" => Has(<<"r", f[2]>>) /\ pipe[f[2]] < PIPESIZE
          /\ proc' = [proc EXCEPT ![p].pc = "read"]
          /\ pipe' = [n \in DOMAIN pipe |-> IF f = <<"w", n>> THEN pipe[n] + 1 ELSE pipe[n]]
          /\ UNCHANGED <<tree, failed>>
       \/ /\ f[1] = "w" => pipe[f[2]] < PIPESIZE \/ ~Has(<<"r", f[2]>>)
          /\ exit(p)

shell(p) ==
    \/ runcmd_exec(p) \/ runcmd_redir(p) \/ runcmd_list(p) \/ runcmd_right(p) \/ runcmd_back(p)
    \/ runcmd_pipe(p) \/ pipe_right(p) \/ pipe_wait(p) \/ runcmd_exit(p)

Next == main_fork \/ main_wait \/ \E p \in Pids : shell(p) \/ read(p) \/ write(p)

Spec == Init /\ [][Next]_vars

ends(p) == At(p, "read") /\ EndOfInput(proc[p].fd[0]) /\ exit(p)

\* Processes run, and the input from the console and from files ends.
Fairness ==
    /\ WF_vars(main_fork) /\ WF_vars(main_wait)
    /\ \A p \in Pids : WF_vars(shell(p)) /\ WF_vars(write(p)) /\ WF_vars(read(p)) /\ SF_vars(ends(p))

LiveSpec == Spec /\ Fairness

-----------------------------------------------------------------------------
(* Properties *)

\* Every variable keeps its type.
TypeOK ==
    /\ \A p \in Pids : proc[p].state \in {"UNUSED", "RUNNING", "ZOMBIE"} /\ proc[p].parent \in 0 .. NPROC
    /\ \A n \in DOMAIN pipe : pipe[n] \in 0 .. PIPESIZE

RECURSIVE Plumbing(_, _, _)
\* What a command means: each program with its input and output.
Plumbing(c, in, out) ==
    CASE c.type = "EXEC" -> {<<c.name, in, out>>}
      [] c.type = "REDIR" -> IF c.fd = 0 THEN Plumbing(c.cmd, <<"file", c.file>>, out)
                             ELSE Plumbing(c.cmd, in, <<"file", c.file>>)
      [] c.type = "PIPE" -> Plumbing(c.left, in, <<"w", c.name>>) \union Plumbing(c.right, <<"r", c.name>>, out)
      [] c.type = "LIST" -> Plumbing(c.left, in, out) \union Plumbing(c.right, in, out)
      [] c.type = "BACK" -> Plumbing(c.cmd, in, out)

Programs == {p \in Pids : At(p, "read") \/ At(p, "write")}

\* Every program starts with the input and output its command asks for, the
\* console as standard error, and no other descriptor: no end of a pipe is left
\* in a process that does not use it.
PlumbedAsWritten ==
    \A p \in Programs :
        LET fd == proc[p].fd IN
        /\ <<proc[p].cmd.name, fd[0], fd[1]>> \in Plumbing(tree, Console, Console)
        /\ fd[2] = Console /\ \A k \in 3 .. NOFILE - 1 : fd[k] = NoFd

RECURSIVE Names(_, _)
\* Programs of c; without those in the background if fg.
Names(c, fg) ==
    CASE c.type = "EXEC" -> {c.name}
      [] c.type = "REDIR" -> Names(c.cmd, fg)
      [] c.type = "BACK" -> IF fg THEN {} ELSE Names(c.cmd, fg)
      [] c.type \in {"PIPE", "LIST"} -> Names(c.left, fg) \union Names(c.right, fg)

RECURSIVE Lists(_)
Lists(c) ==
    CASE c.type = "EXEC" -> {}
      [] c.type \in {"REDIR", "BACK"} -> Lists(c.cmd)
      [] c.type = "PIPE" -> Lists(c.left) \union Lists(c.right)
      [] c.type = "LIST" -> {c} \union Lists(c.left) \union Lists(c.right)

Running == {proc[p].cmd.name : p \in Programs}

\* After ";" and after the prompt nothing of the command before is running,
\* except what "&" put in the background, or a second fork1() of a PIPE that
\* failed has left behind.
ForegroundWaits ==
    failed \/
    /\ At(main, "prompt") => Running \intersect Names(tree, TRUE) = {}
    /\ \A c \in Lists(tree) :
          Running \intersect Names(c.right, FALSE) # {} => Running \intersect Names(c.left, TRUE) = {}

\* The shell always gives the prompt again: no reader waits for an end of input
\* that cannot come because some process still has the pipe open for writing.
PromptReturns == At(main, "wait") ~> At(main, "prompt")

\* A command line runs as it is written: each program of it with its own input
\* and output and nothing else (the pipes, dups and closes of runcmd()), and
\* after what it has to wait for.
RunsAsWritten == TypeOK /\ PlumbedAsWritten /\ ForegroundWaits
=============================================================================
