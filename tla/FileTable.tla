----------------------------- MODULE FileTable ------------------------------
(***************************************************************************)
(* The table of open files and the descriptors of the processes            *)
(* (kernel/file.c; open, pipe, dup, close, fork, exit in sysfile.c, pipe.c *)
(* and proc.c).                                                            *)
(*                                                                         *)
(* A step is what runs under ftable.lock, or the part of a system call     *)
(* that touches only the process itself.  A file is backed by a pipe or    *)
(* by an inode; of an inode only the references to it are kept.            *)
(***************************************************************************)
EXTENDS Integers, FiniteSets

CONSTANTS Users, NFILE, NOFILE,
          NPIPE,      \* pipes there is memory for
          MaxOpens    \* references open() may hold to inodes

ASSUME FileAssumption ==
    /\ IsFiniteSet(Users)
    /\ NFILE \in Nat /\ NOFILE \in Nat /\ NPIPE \in Nat /\ MaxOpens \in Nat

VARIABLES ref,        \* ftable.file[].ref
          what,       \* the other fields of ftable.file[]
          pipe,       \* ends of each pipe that are open
          iref,       \* references to inodes
          ofile,      \* proc[].ofile[]
          call,       \* where each process is
          f0, f1,     \* files its system call has in local variables
          ff          \* what its fileclose() copied

filevars == <<ref, what, pipe, iref, ofile, call, f0, f1, ff>>
table == <<ref, what>>
local == <<f0, f1, ff>>

Files == 1 .. NFILE
NoFile == 0
Fds == 1 .. NOFILE
Ends == BOOLEAN      \* of a pipe; TRUE is the end for writing

FD_NONE == [type |-> "NONE", obj |-> 0, writable |-> FALSE]
FD_INODE == [type |-> "INODE", obj |-> 0, writable |-> TRUE]
FD_PIPE(i, w) == [type |-> "PIPE", obj |-> i, writable |-> w]

\* One process runs, without files.
FileInit ==
    /\ ref = [f \in Files |-> 0] /\ what = [f \in Files |-> FD_NONE]
    /\ pipe = [i \in 1 .. NPIPE |-> {}]
    /\ iref = 0
    /\ ofile = [p \in Users |-> [fd \in Fds |-> NoFile]]
    /\ \E init \in Users : call = [p \in Users |-> IF p = init THEN "user" ELSE "unused"]
    /\ f0 = [p \in Users |-> NoFile] /\ f1 = [p \in Users |-> NoFile]
    /\ ff = [p \in Users |-> FD_NONE]

\* p is in the call, and has nothing left to close.
In(p, c) == call[p] = c /\ f0[p] = NoFile /\ f1[p] = NoFile /\ ff[p] = FD_NONE
Open(p) == {fd \in Fds : ofile[p][fd] # NoFile}

-----------------------------------------------------------------------------
(* file.c *)

\* The first file without references; its type is left as it is.
IsFirst(f) == ref[f] = 0 /\ \A g \in Files : ref[g] = 0 => f <= g
Full == \A f \in Files : ref[f] > 0
filealloc(f) == IsFirst(f) /\ ref' = [ref EXCEPT ![f] = 1] /\ UNCHANGED what

\* Mutant: as fileclose() might be if it left the type in the table.
Cleared_not(w) == w

Cleared(w) == FD_NONE

\* fileclose(f), with the lock: the last reference frees the entry, and a copy
\* says what to close.
Drop(p, f) ==
    /\ ref' = [ref EXCEPT ![f] = @ - 1]
    /\ what' = [what EXCEPT ![f] = IF ref[f] = 1 THEN Cleared(@) ELSE @]
    /\ ff' = [ff EXCEPT ![p] = IF ref[f] = 1 THEN what[f] ELSE FD_NONE]

\* A call that is on its way out, or open() that has failed, or exit(), closes
\* the files it has.
fileclose(p) ==
    /\ call[p] \in {"user", "iput", "exit"} /\ ff[p] = FD_NONE
    /\ \/ /\ f0[p] # NoFile
          /\ Drop(p, f0[p])
          /\ f0' = [f0 EXCEPT ![p] = NoFile] /\ UNCHANGED f1
       \/ /\ f0[p] = NoFile /\ f1[p] # NoFile
          /\ Drop(p, f1[p])
          /\ f1' = [f1 EXCEPT ![p] = NoFile] /\ UNCHANGED f0
    /\ UNCHANGED <<pipe, iref, ofile, call>>

\* Mutant: as fileclose() might be if it told pipeclose() ff.readable.
End_readable(w) == ~w.writable

End(w) == w.writable

\* fileclose(), after the lock: pipeclose() or iput().
fileclose_last(p) ==
    /\ ff[p] # FD_NONE
    /\ \/ /\ ff[p].type = "PIPE"
          /\ pipe' = [pipe EXCEPT ![ff[p].obj] = @ \ {End(ff[p])}] /\ UNCHANGED iref
       \/ /\ ff[p].type = "INODE"
          /\ iref' = iref - 1 /\ UNCHANGED pipe
    /\ ff' = [ff EXCEPT ![p] = FD_NONE]
    /\ UNCHANGED <<table, ofile, call, f0, f1>>

-----------------------------------------------------------------------------
(* System calls *)

\* fdalloc(): the lowest free number.
Slot(p, fd) == ofile[p][fd] = NoFile /\ \A k \in 1 .. fd - 1 : ofile[p][k] # NoFile
FdsFull(p) == Open(p) = Fds

\* open() has an inode, and asks for a file (if there is none it puts the inode
\* and fails, and nothing has changed).
sys_open(p) ==
    /\ In(p, "user") /\ iref < MaxOpens
    /\ \E f \in Files : filealloc(f) /\ f0' = [f0 EXCEPT ![p] = f]
    /\ call' = [call EXCEPT ![p] = "open"]
    /\ iref' = iref + 1
    /\ UNCHANGED <<pipe, ofile, f1, ff>>

\* fdalloc(), and the file is set up; without a descriptor it is closed again
\* and the inode put.
open_fd(p) ==
    /\ call[p] = "open"
    /\ \/ /\ \E fd \in Fds : Slot(p, fd) /\ ofile' = [ofile EXCEPT ![p][fd] = f0[p]]
          /\ what' = [what EXCEPT ![f0[p]] = FD_INODE]
          /\ f0' = [f0 EXCEPT ![p] = NoFile]
          /\ call' = [call EXCEPT ![p] = "user"]
       \/ /\ FdsFull(p)
          /\ call' = [call EXCEPT ![p] = "iput"]
          /\ UNCHANGED <<what, ofile, f0>>
    /\ UNCHANGED <<ref, pipe, iref, f1, ff>>

open_iput(p) ==
    /\ In(p, "iput")
    /\ iref' = iref - 1
    /\ call' = [call EXCEPT ![p] = "user"]
    /\ UNCHANGED <<table, pipe, ofile, local>>

\* pipealloc(): two files, one after the other (nothing changes if there is no
\* first one) ...
pipealloc_f0(p) ==
    /\ In(p, "user")
    /\ \E f \in Files : filealloc(f) /\ f0' = [f0 EXCEPT ![p] = f]
    /\ call' = [call EXCEPT ![p] = "pipe"]
    /\ UNCHANGED <<pipe, iref, ofile, f1, ff>>

pipealloc_f1(p) ==
    /\ call[p] = "pipe" /\ f1[p] = NoFile
    /\ \/ /\ \E f \in Files : filealloc(f) /\ f1' = [f1 EXCEPT ![p] = f]
          /\ UNCHANGED call
       \/ /\ Full
          /\ call' = [call EXCEPT ![p] = "user"]
          /\ UNCHANGED <<table, f1>>
    /\ UNCHANGED <<pipe, iref, ofile, f0, ff>>

\* ... and the memory, if there is any.
pipealloc_kalloc(p) ==
    /\ call[p] = "pipe" /\ f1[p] # NoFile
    /\ \/ \E i \in 1 .. NPIPE :
             /\ pipe[i] = {}
             /\ pipe' = [pipe EXCEPT ![i] = Ends]
             /\ what' = [what EXCEPT ![f0[p]] = FD_PIPE(i, FALSE), ![f1[p]] = FD_PIPE(i, TRUE)]
             /\ call' = [call EXCEPT ![p] = "pipefds"]
       \/ /\ \A i \in 1 .. NPIPE : pipe[i] # {}
          /\ call' = [call EXCEPT ![p] = "user"]
          /\ UNCHANGED <<what, pipe>>
    /\ UNCHANGED <<ref, iref, ofile, local>>

\* Mutant: as sys_pipe() might be if it did not give the first descriptor back.
Undone_first(p) ==
    [ofile EXCEPT ![p] = [fd \in Fds |-> IF Slot(p, fd) THEN f0[p] ELSE ofile[p][fd]]]

\* The descriptors after a failure: those sys_pipe() took are free again.
Undone(p) == ofile

\* Two descriptors, and copyout() of their numbers, which may fail.
sys_pipe(p) ==
    /\ call[p] = "pipefds"
    /\ call' = [call EXCEPT ![p] = "user"]
    /\ \/ /\ \E a, b \in Fds :
                /\ Slot(p, a) /\ a < b /\ ofile[p][b] = NoFile
                /\ \A k \in a + 1 .. b - 1 : ofile[p][k] # NoFile
                /\ ofile' = [ofile EXCEPT ![p][a] = f0[p], ![p][b] = f1[p]]
          /\ f0' = [f0 EXCEPT ![p] = NoFile] /\ f1' = [f1 EXCEPT ![p] = NoFile]
       \/ ofile' = Undone(p) /\ UNCHANGED <<f0, f1>>
    /\ UNCHANGED <<table, pipe, iref, ff>>

\* fdalloc() and filedup().
sys_dup(p) ==
    /\ In(p, "user")
    /\ \E fd \in Open(p), new \in Fds :
          /\ Slot(p, new)
          /\ ofile' = [ofile EXCEPT ![p][new] = ofile[p][fd]]
          /\ ref' = [ref EXCEPT ![ofile[p][fd]] = @ + 1]
    /\ UNCHANGED <<what, pipe, iref, call, local>>

\* p gives up a descriptor, and is going to close the file.  (exit() clears the
\* entry after fileclose(); nobody else reads it meanwhile.)
Release(p, fd) ==
    /\ ofile' = [ofile EXCEPT ![p][fd] = NoFile]
    /\ f0' = [f0 EXCEPT ![p] = ofile[p][fd]]

sys_close(p) ==
    /\ In(p, "user")
    /\ \E fd \in Open(p) : Release(p, fd)
    /\ UNCHANGED <<table, pipe, iref, call, f1, ff>>

Shared(p, f) == Cardinality({fd \in Fds : ofile[p][fd] = f})

\* filedup() of every descriptor, which is the process's own while it forks.
fork(p, child) ==
    /\ In(p, "user") /\ call[child] = "unused"
    /\ ref' = [f \in Files |-> ref[f] + Shared(p, f)]
    /\ ofile' = [ofile EXCEPT ![child] = ofile[p]]
    /\ call' = [call EXCEPT ![child] = "user"]
    /\ UNCHANGED <<what, pipe, iref, local>>

exit(p) ==
    /\ In(p, "user")
    /\ call' = [call EXCEPT ![p] = "exit"]
    /\ UNCHANGED <<table, pipe, iref, ofile, local>>

\* fileclose() of every descriptor, in order.
exit_fd(p) ==
    /\ In(p, "exit")
    /\ \/ /\ \E fd \in Open(p) : (\A k \in Open(p) : fd <= k) /\ Release(p, fd)
          /\ UNCHANGED call
       \/ /\ Open(p) = {}
          /\ call' = [call EXCEPT ![p] = "unused"]
          /\ UNCHANGED <<ofile, f0>>
    /\ UNCHANGED <<table, pipe, iref, f1, ff>>

FileNext ==
    \E p \in Users :
        \/ fileclose(p) \/ fileclose_last(p) \/ sys_open(p) \/ open_fd(p) \/ open_iput(p)
        \/ pipealloc_f0(p) \/ pipealloc_f1(p) \/ pipealloc_kalloc(p) \/ sys_pipe(p)
        \/ sys_dup(p) \/ sys_close(p) \/ exit(p) \/ exit_fd(p)
        \/ \E child \in Users : fork(p, child)

FileSpec == FileInit /\ [][FileNext]_filevars

-----------------------------------------------------------------------------
(* Properties *)

Kinds == {FD_NONE, FD_INODE} \union {FD_PIPE(i, w) : i \in 1 .. NPIPE, w \in Ends}

\* Every variable keeps its type.
FileTypeOK ==
    /\ ref \in [Files -> Nat] /\ what \in [Files -> Kinds]
    /\ pipe \in [1 .. NPIPE -> SUBSET Ends]
    /\ iref \in Nat
    /\ ofile \in [Users -> [Fds -> 0 .. NFILE]]
    /\ call \in [Users -> {"unused", "user", "open", "iput", "pipe", "pipefds", "exit"}]
    /\ f0 \in [Users -> 0 .. NFILE] /\ f1 \in [Users -> 0 .. NFILE]
    /\ ff \in [Users -> Kinds]

\* A file has exactly as many references as there are descriptors for it and
\* calls that hold it, on every path of open(), pipe(), dup(), fork(), close()
\* and exit(), the failing ones included: fileclose() and filedup() never panic,
\* and no entry of the table is lost.
RefsExact ==
    \A f \in Files :
        ref[f] = Cardinality({d \in Users \X Fds : ofile[d[1]][d[2]] = f})
                 + Cardinality({p \in Users : f0[p] = f}) + Cardinality({p \in Users : f1[p] = f})

\* What is going to close x: files in use, and copies fileclose() still works from.
Closers(x) == Cardinality({f \in Files : ref[f] > 0 /\ what[f] = x})
              + Cardinality({p \in Users : ff[p] = x})

\* An end of a pipe is open as long as one file is for it, and is closed once,
\* though fileclose() closes it after it has given the entry away.
EndsClosedOnce ==
    \A i \in 1 .. NPIPE, w \in Ends : Closers(FD_PIPE(i, w)) = IF w \in pipe[i] THEN 1 ELSE 0

\* An inode is put exactly once for every open(): by the last close of the file,
\* or by open() itself when it fails.
InodesPutOnce ==
    iref = Closers(FD_INODE) + Cardinality({p \in Users : call[p] \in {"open", "iput"}})

\* What a file is for is closed exactly once, by the last fileclose() or by the
\* call that failed to open it: ends of pipes and references to inodes.
ClosedOnce == FileTypeOK /\ EndsClosedOnce /\ InodesPutOnce
=============================================================================
