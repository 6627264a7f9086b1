--------------------------------- MODULE Fs ---------------------------------
(***************************************************************************)
(* Inodes, directories and path names of kernel/fs.c, and the system calls *)
(* of kernel/sysfile.c that change the directory tree.                     *)
(*                                                                         *)
(* Grain.  A section under one inode's sleep-lock, or under itable.lock,   *)
(* is one step; a lock that the code keeps across another ilock() or       *)
(* iput() is kept across steps.  Locks are taken only when free.           *)
(*                                                                         *)
(* A file's contents are in FileBlocks.tla, a directory's are its entries; *)
(* what lies between begin_op() and end_op() becomes durable as a whole    *)
(* when the last such call ends, which is what Log.tla shows of log.c.     *)
(***************************************************************************)
EXTENDS Integers, Sequences, FiniteSets

CONSTANTS Procs,
          NINODES,   \* inodes on disk; 1 is ROOTINO
          NINODE,    \* param.h: entries of the inode table
          Worlds,    \* [image, calls]: a file system at boot, and the system
                     \* calls made in it ([op, path, new], new only for link())
          MaxEnts,   \* directory entries there are disk blocks for
          MaxCalls,  \* system calls made in a run
          MaxCrashes,
          None

ROOTINO == 1
Inums == 1 .. NINODES
Slots == 1 .. NINODE
T_NONE == "none"   \* 0 in the code
T_DIR == "dir"
T_FILE == "file"
T_DEVICE == "device"

VARIABLES
    dinode,    \* the inodes and directory blocks, as read through the log
    durable,   \* the same as of the last commit
    inode,     \* itable.inode: inum, ref, valid, and copies of type and nlink
    lock,      \* holder of each table entry's sleep-lock
    cwd,       \* p->cwd
    ofile,     \* p->ofile[0]->ip, or 0: each process has one descriptor
    frame,     \* the system call each process is in
    panic,     \* what the kernel has panicked with, or None
    menu,      \* the calls that the processes make
    calls,     \* how many they have made
    crashes

rest == <<durable, cwd, ofile, panic, calls, crashes, menu>>
vars == <<dinode, inode, lock, frame, rest>>

\* Local variables of a call: pc, the path left to walk, the inodes at (ip or
\* dp of namex()), ip and put (the argument of iput()),
\* where iput() returns to, and the element that led to at.
Idle == [pc |-> "idle", call |-> None, path |-> <<>>, at |-> 0,
         via |-> "/", ip |-> 0, put |-> 0, then |-> "idle"]

Free == [type |-> T_NONE, nlink |-> 0, ents |-> <<>>]
Entry(name, i) == [name |-> name, inum |-> i]
Dots(self, parent) == <<Entry(".", self), Entry("..", parent)>>

\* iinit(), and what main() and fork() give the processes: all are in "/".
BootTable ==
    [s \in Slots |->
        IF s = 1 THEN [inum |-> ROOTINO, ref |-> Cardinality(Procs), valid |-> 0,
                       type |-> T_NONE, nlink |-> 0]
        ELSE [inum |-> 0, ref |-> 0, valid |-> 0, type |-> T_NONE, nlink |-> 0]]

Init ==
    /\ \E w \in Worlds : dinode = w.image /\ durable = w.image /\ menu = w.calls
    /\ inode = BootTable
    /\ lock = [s \in Slots |-> None]
    /\ cwd = [p \in Procs |-> 1]
    /\ ofile = [p \in Procs |-> 0]
    /\ frame = [p \in Procs |-> Idle]
    /\ panic = None
    /\ calls = 0
    /\ crashes = 0

-----------------------------------------------------------------------------
(* Inodes *)

Least(S) == CHOOSE x \in S : \A y \in S : x <= y

InTable(t, i) == {s \in Slots : t[s].ref > 0 /\ t[s].inum = i}
Empty(t) == {s \in Slots : t[s].ref = 0}

\* The entry of table t that iget() finds or recycles for inode i; 0: panic.
Slot(t, i) ==
    IF InTable(t, i) # {} THEN Least(InTable(t, i))
    ELSE IF Empty(t) # {} THEN Least(Empty(t)) ELSE 0

\* Mutant: as iget() might be if it left valid alone.
iget_valid(t, i) ==
    IF InTable(t, i) # {} THEN [t EXCEPT ![Slot(t, i)].ref = @ + 1]
    ELSE [t EXCEPT ![Slot(t, i)].inum = i, ![Slot(t, i)].ref = 1]

iget(t, i) ==
    IF InTable(t, i) # {} THEN [t EXCEPT ![Slot(t, i)].ref = @ + 1]
    ELSE [t EXCEPT ![Slot(t, i)].inum = i, ![Slot(t, i)].ref = 1, ![Slot(t, i)].valid = 0]

idup(t, s) == [t EXCEPT ![s].ref = @ + 1]

\* Table t once ilock() has read entry s from disk.
ilock(t, s) ==
    IF t[s].valid = 1 THEN t
    ELSE [t EXCEPT ![s].valid = 1, ![s].type = dinode[t[s].inum].type,
                   ![s].nlink = dinode[t[s].inum].nlink]

\* iupdate() of the entry s of table t.
iupdate(d, t, s) ==
    [d EXCEPT ![t[s].inum].type = t[s].type, ![t[s].inum].nlink = t[s].nlink]

\* Mutant: as ialloc() might be if it looked one inode too far.
FreeInums_far == {i \in 1 .. NINODES + 1 : i > NINODES \/ dinode[i].type = T_NONE}

\* ialloc() takes the first inode on disk without a type, and gives it one.
FreeInums == {i \in Inums : dinode[i].type = T_NONE}

\* Mutant: as ialloc() might be if it only cleared the inode.
ialloc_untyped(d, i, type) == [d EXCEPT ![i] = Free]

ialloc(d, i, type) == [d EXCEPT ![i] = [Free EXCEPT !.type = type]]

-----------------------------------------------------------------------------
(* Directories *)

\* Positions of entries called name (dirlookup()), and of empty ones.
Matches(ents, name) == {n \in 1 .. Len(ents) : ents[n].inum # 0 /\ ents[n].name = name}
Holes(ents) == {n \in 1 .. Len(ents) : ents[n].inum = 0}

dirlookup(i, name) == LET m == Matches(dinode[i].ents, name) IN
    IF m = {} THEN 0 ELSE dinode[i].ents[Least(m)].inum

\* Does dirlink() of a new name succeed, and with which entries?
CanLink(ents, name) ==
    Matches(ents, name) = {} /\ (Holes(ents) # {} \/ Len(ents) < MaxEnts)

dirlink(ents, name, i) ==
    IF Holes(ents) # {} THEN [ents EXCEPT ![Least(Holes(ents))] = Entry(name, i)]
    ELSE Append(ents, Entry(name, i))

isdirempty(ents) == \A n \in 3 .. Len(ents) : ents[n].inum = 0

-----------------------------------------------------------------------------
(* Steps of a system call *)

\* iput() that finds the last reference to an inode without links.
\* Mutant: as iput() might be if it looked at the link count alone.
LastPut_nolinks(s) == inode[s].valid = 1 /\ inode[s].nlink = 0

LastPut(s) == inode[s].ref = 1 /\ inode[s].valid = 1 /\ inode[s].nlink = 0

\* The entry whose sleep-lock p's next step takes, or 0.
Wants(p) ==
    LET f == frame[p] IN
    CASE f.pc = "namex" -> IF f.path = <<>> THEN 0 ELSE f.at
      [] f.pc \in {"open", "chdir", "link", "link_entry", "unlink", "create"} -> f.at
      [] f.pc \in {"link_bad", "unlink_ip", "create_old", "create_ip"} -> f.ip
      [] f.pc = "iput" /\ LastPut(f.put) -> f.put
      [] OTHER -> 0

Blocked(p) == Wants(p) # 0 /\ lock[Wants(p)] # None

\* ilock() reads an inode that is not allocated.
NoType(p) ==
    /\ Wants(p) # 0 /\ frame[p].pc # "iput"
    /\ inode[Wants(p)].valid = 0 /\ dinode[inode[Wants(p)].inum].type = T_NONE

Running(p, pc) == panic = None /\ frame[p].pc = pc /\ ~Blocked(p) /\ ~NoType(p)

ilock_panic(p) ==
    /\ panic = None /\ ~Blocked(p) /\ NoType(p)
    /\ panic' = "ilock: no type"
    /\ UNCHANGED <<dinode, durable, inode, lock, cwd, ofile, frame, calls, crashes, menu>>

iget_panic ==
    /\ panic' = "iget: no inodes"
    /\ UNCHANGED <<durable, inode, lock, cwd, ofile, frame, crashes, menu>>

\* What to do after namex(): with the inode, with the parent, or without.
Parent(f) == f.call.op \in {"unlink", "creat", "mkdir", "mknod"} \/ (f.call.op = "link" /\ f.ip # 0)
Found(f) ==
    CASE f.call.op \in {"creat", "mkdir", "mknod"} -> "create"
      [] f.call.op = "link" /\ f.ip # 0 -> "link_entry"
      [] OTHER -> f.call.op
Failed(f) == IF f.call.op = "link" /\ f.ip # 0 THEN "link_bad" ELSE "end_op"

\* Mutant: as an error path might be that forgot its iput().
PutAt_forgotten(f, k) == [f EXCEPT !.at = 0, !.pc = k]

\* Call iput() on at or on ip, and go on at k.
PutAt(f, k) == [f EXCEPT !.pc = "iput", !.put = f.at, !.at = 0, !.then = k]
PutIp(f, k) == [f EXCEPT !.pc = "iput", !.put = f.ip, !.ip = 0, !.then = k]

\* namex() begins at the root or at the current directory: f and table t then.
namex_start(p, f, t, path) ==
    LET s == IF path.abs THEN Slot(t, ROOTINO) ELSE cwd[p] IN
    IF s = 0 THEN iget_panic
    ELSE /\ inode' = IF path.abs THEN iget(t, ROOTINO) ELSE idup(t, s)
         /\ frame' = [frame EXCEPT ![p] = [f EXCEPT !.pc = "namex", !.path = path.elems,
                                                    !.at = s, !.via = "/"]]
         /\ UNCHANGED <<lock, durable, cwd, ofile, panic, crashes, menu>>

\* A system call up to begin_op(), and the start of its walk.
call(p, c) ==
    /\ panic = None /\ frame[p].pc = "idle" /\ calls < MaxCalls
    /\ calls' = calls + 1
    /\ UNCHANGED dinode
    /\ namex_start(p, [Idle EXCEPT !.call = c], inode, c.path)

\* One element of the path.
namex(p) ==
    /\ Running(p, "namex") /\ frame[p].path # <<>>
    /\ LET f == frame[p]
           t == ilock(inode, f.at)
           dir == t[f.at].type = T_DIR
           last == Parent(f) /\ Len(f.path) = 1
           next == dirlookup(t[f.at].inum, Head(f.path)) IN
       IF dir /\ ~last /\ next # 0 /\ Slot(t, next) = 0 THEN iget_panic
       ELSE /\ inode' = IF dir /\ ~last /\ next # 0 THEN iget(t, next) ELSE t
            /\ frame' = [frame EXCEPT ![p] =
                   IF ~dir THEN PutAt(f, Failed(f))
                   ELSE IF last THEN [f EXCEPT !.pc = Found(f)]
                   ELSE IF next = 0 THEN PutAt(f, Failed(f))
                   ELSE [PutAt(f, "namex") EXCEPT !.at = Slot(t, next), !.via = Head(f.path),
                                                  !.path = Tail(f.path)]]
            /\ UNCHANGED <<lock, rest>>
    /\ UNCHANGED <<dinode, calls>>

\* The end of the path: nameiparent() fails if there was no element.
namex_end(p) ==
    /\ Running(p, "namex") /\ frame[p].path = <<>>
    /\ LET f == frame[p] IN
          frame' = [frame EXCEPT ![p] = IF Parent(f) THEN PutAt(f, Failed(f))
                                        ELSE [f EXCEPT !.pc = Found(f)]]
    /\ UNCHANGED <<dinode, inode, lock, rest>>

\* iput(): drop a reference, or begin to free the inode.
iput(p) ==
    /\ Running(p, "iput")
    /\ LET s == frame[p].put IN
       IF LastPut(s)
       THEN /\ lock' = [lock EXCEPT ![s] = p]
            /\ frame' = [frame EXCEPT ![p].pc = "itrunc"]
            /\ UNCHANGED inode
       ELSE /\ inode' = [inode EXCEPT ![s].ref = @ - 1]
            /\ frame' = [frame EXCEPT ![p].pc = frame[p].then, ![p].put = 0, ![p].then = "idle"]
            /\ UNCHANGED lock
    /\ UNCHANGED <<dinode, rest>>

\* itrunc(), type = 0, iupdate() and valid = 0 under the sleep-lock ...
iput_free(p) ==
    /\ Running(p, "itrunc")
    /\ LET s == frame[p].put IN
          /\ dinode' = [dinode EXCEPT ![inode[s].inum] = Free]
          /\ inode' = [inode EXCEPT ![s].type = T_NONE, ![s].valid = 0]
          /\ lock' = [lock EXCEPT ![s] = None]
    /\ frame' = [frame EXCEPT ![p].pc = "iput_drop"]
    /\ UNCHANGED rest

\* ... and the reference itself.
iput_drop(p) ==
    /\ Running(p, "iput_drop")
    /\ inode' = [inode EXCEPT ![frame[p].put].ref = @ - 1]
    /\ frame' = [frame EXCEPT ![p].pc = frame[p].then, ![p].put = 0, ![p].then = "idle"]
    /\ UNCHANGED <<dinode, lock, rest>>

\* Mutants: as unlink() and create() might be if they unlocked the directory
\* before they locked the inode in it, or never.
HoldIf_never(p, s, c) == lock
HoldIf_always(p, s, c) == [lock EXCEPT ![s] = p]

\* The locks after a step in which p locks entry s, and keeps it locked if c.
HoldIf(p, s, c) == IF c THEN [lock EXCEPT ![s] = p] ELSE lock

-----------------------------------------------------------------------------
(* open() without O_CREATE, chdir(), close() *)

\* The end of sys_open(), with f.ip locked: a descriptor; or none, because p
\* has no more, the file table is full, or the device has no driver.
opened(p, f) ==
    \/ /\ ofile[p] = 0
       /\ ofile' = [ofile EXCEPT ![p] = f.ip]
       /\ frame' = [frame EXCEPT ![p] = [f EXCEPT !.ip = 0, !.pc = "end_op"]]
    \/ /\ frame' = [frame EXCEPT ![p] = PutIp(f, "end_op")]
       /\ UNCHANGED ofile

\* A directory opens read-only.
open(p) ==
    /\ Running(p, "open")
    /\ LET f == frame[p]
           t == ilock(inode, f.at) IN
          /\ inode' = t
          /\ IF t[f.at].type = T_DIR /\ f.call.omode # "r"
             THEN UNCHANGED ofile /\ frame' = [frame EXCEPT ![p] = PutAt(f, "end_op")]
             ELSE opened(p, [f EXCEPT !.ip = f.at, !.at = 0])
    /\ UNCHANGED <<dinode, lock, durable, cwd, panic, calls, crashes, menu>>

\* p->cwd is dropped inside the transaction and replaced after it.
chdir(p) ==
    /\ Running(p, "chdir")
    /\ LET f == frame[p]
           t == ilock(inode, f.at) IN
          /\ inode' = t
          /\ frame' = [frame EXCEPT ![p] =
                IF t[f.at].type # T_DIR THEN PutAt(f, "end_op")
                ELSE [f EXCEPT !.pc = "iput", !.put = cwd[p], !.then = "chdir_end"]]
    /\ UNCHANGED <<dinode, lock, rest>>

\* sys_close() of a descriptor nobody shares, fileclose()
close(p) ==
    /\ panic = None /\ frame[p].pc = "idle" /\ ofile[p] # 0
    /\ ofile' = [ofile EXCEPT ![p] = 0]
    /\ frame' = [frame EXCEPT ![p] = [Idle EXCEPT !.pc = "iput", !.put = ofile[p], !.then = "end_op"]]
    /\ UNCHANGED <<dinode, inode, lock, durable, cwd, panic, calls, crashes, menu>>

\* end_op(): the last call of the group commits it.
end_op(p) ==
    /\ Running(p, "end_op") \/ Running(p, "chdir_end")
    /\ durable' = IF \A q \in Procs \ {p} : frame[q].pc = "idle" THEN dinode ELSE durable
    /\ cwd' = IF frame[p].pc = "chdir_end" THEN [cwd EXCEPT ![p] = frame[p].at] ELSE cwd
    /\ frame' = [frame EXCEPT ![p] = Idle]
    /\ UNCHANGED <<dinode, inode, lock, ofile, panic, calls, crashes, menu>>

-----------------------------------------------------------------------------
(* link(), unlink() *)

\* Mutant: as sys_link() might be if it did not count the link.
link_uncounted(p) ==
    /\ Running(p, "link")
    /\ LET f == frame[p]
           t == ilock(inode, f.at) IN
       IF t[f.at].type = T_DIR
       THEN /\ inode' = t /\ frame' = [frame EXCEPT ![p] = PutAt(f, "end_op")]
            /\ UNCHANGED <<dinode, lock, rest>>
       ELSE /\ UNCHANGED <<dinode, calls>>
            /\ namex_start(p, [f EXCEPT !.ip = f.at], t, f.call.new)

\* Count the link before there is an entry for it, then walk to the new name.
link(p) ==
    /\ Running(p, "link")
    /\ LET f == frame[p]
           t == ilock(inode, f.at)
           t1 == [t EXCEPT ![f.at].nlink = @ + 1] IN
       IF t[f.at].type = T_DIR
       THEN /\ inode' = t /\ frame' = [frame EXCEPT ![p] = PutAt(f, "end_op")]
            /\ UNCHANGED <<dinode, lock, rest>>
       ELSE /\ dinode' = iupdate(dinode, t1, f.at)
            /\ UNCHANGED calls
            /\ namex_start(p, [f EXCEPT !.ip = f.at], t1, f.call.new)

\* What the new name is called: the last element, which namex() left alone.
\* (dirlink() takes and drops a reference to what already has the name.)
link_entry(p) ==
    /\ Running(p, "link_entry")
    /\ LET f == frame[p]
           t == ilock(inode, f.at)
           d == t[f.at].inum
           old == dirlookup(d, Head(f.path))
           ok == CanLink(dinode[d].ents, Head(f.path)) IN
       IF old # 0 /\ Slot(t, old) = 0 THEN iget_panic /\ UNCHANGED dinode
       ELSE /\ inode' = t
            /\ dinode' = IF ok THEN [dinode EXCEPT ![d].ents = dirlink(@, Head(f.path), t[f.ip].inum)]
                         ELSE dinode
            /\ frame' = [frame EXCEPT ![p] = PutAt(f, IF ok THEN "put_ip" ELSE "link_bad")]
            /\ UNCHANGED <<lock, rest>>
    /\ UNCHANGED calls

link_bad(p) ==
    /\ Running(p, "link_bad")
    /\ LET f == frame[p]
           t == [ilock(inode, f.ip) EXCEPT ![f.ip].nlink = @ - 1] IN
          /\ inode' = t
          /\ dinode' = iupdate(dinode, t, f.ip)
          /\ frame' = [frame EXCEPT ![p] = PutIp(f, "end_op")]
    /\ UNCHANGED <<lock, rest>>

\* iput(ip), the last thing link() does.
put_ip(p) ==
    /\ Running(p, "put_ip")
    /\ frame' = [frame EXCEPT ![p] = PutIp(@, "end_op")]
    /\ UNCHANGED <<dinode, inode, lock, rest>>

\* Look the name up; the directory stays locked when there is one.
unlink(p) ==
    /\ Running(p, "unlink")
    /\ LET f == frame[p]
           t == ilock(inode, f.at)
           name == Head(f.path)
           i == IF name \in {".", ".."} THEN 0 ELSE dirlookup(t[f.at].inum, name) IN
       IF i # 0 /\ Slot(t, i) = 0 THEN iget_panic
       ELSE /\ inode' = IF i = 0 THEN t ELSE iget(t, i)
            /\ lock' = HoldIf(p, f.at, i # 0)
            /\ frame' = [frame EXCEPT ![p] =
                   IF i = 0 THEN PutAt(f, "end_op")
                   ELSE [f EXCEPT !.pc = "unlink_ip", !.ip = Slot(t, i)]]
            /\ UNCHANGED rest
    /\ UNCHANGED <<dinode, calls>>

\* Remove the entry, and the ".." of a directory from its parent's count; or
\* refuse because the directory is not empty.
unlink_ip(p) ==
    /\ Running(p, "unlink_ip")
    /\ LET f == frame[p]
           t == ilock(inode, f.ip)
           d == t[f.at].inum
           dir == t[f.ip].type = T_DIR
           n == Least(Matches(dinode[d].ents, Head(f.path)))
           t1 == IF dir THEN [t EXCEPT ![f.at].nlink = @ - 1] ELSE t IN
       IF dir /\ ~isdirempty(dinode[t[f.ip].inum].ents)
       THEN /\ inode' = t
            /\ frame' = [frame EXCEPT ![p] = PutIp(f, "unlock_dp")]
            /\ UNCHANGED <<dinode, lock>>
       ELSE /\ inode' = t1
            /\ dinode' = iupdate([dinode EXCEPT ![d].ents[n] = Entry("", 0)], t1, f.at)
            /\ lock' = [lock EXCEPT ![f.at] = None, ![f.ip] = p]
            /\ frame' = [frame EXCEPT ![p] = PutAt(f, "unlink_end")]
    /\ UNCHANGED rest

unlink_end(p) ==
    /\ Running(p, "unlink_end")
    /\ LET f == frame[p]
           t == [inode EXCEPT ![f.ip].nlink = @ - 1] IN
          /\ inode' = t
          /\ dinode' = iupdate(dinode, t, f.ip)
          /\ lock' = [lock EXCEPT ![f.ip] = None]
          /\ frame' = [frame EXCEPT ![p] = PutIp(f, "end_op")]
    /\ UNCHANGED rest

\* iunlockput(dp) on the error paths of unlink() and create()
unlock_dp(p) ==
    /\ Running(p, "unlock_dp")
    /\ lock' = [lock EXCEPT ![frame[p].at] = None]
    /\ frame' = [frame EXCEPT ![p] = PutAt(@, "end_op")]
    /\ UNCHANGED <<dinode, inode, rest>>

-----------------------------------------------------------------------------
(* open() with O_CREATE, mkdir(), mknod() *)

NewType(f) == CASE f.call.op = "creat" -> T_FILE
                [] f.call.op = "mkdir" -> T_DIR
                [] f.call.op = "mknod" -> T_DEVICE

\* Look the name up; ialloc() when there is none, with the parent locked.
create(p) ==
    /\ Running(p, "create")
    /\ LET f == frame[p]
           t == ilock(inode, f.at)
           old == dirlookup(t[f.at].inum, Head(f.path))
           new == IF old # 0 \/ FreeInums = {} THEN 0 ELSE Least(FreeInums)
           i == IF old # 0 THEN old ELSE new IN
       IF i # 0 /\ Slot(t, i) = 0
       THEN iget_panic /\ UNCHANGED <<dinode, calls>>
       ELSE /\ inode' = IF i = 0 THEN t ELSE iget(t, i)
            /\ dinode' = IF new = 0 THEN dinode ELSE ialloc(dinode, new, NewType(f))
            /\ lock' = HoldIf(p, f.at, new # 0)
            /\ frame' = [frame EXCEPT ![p] =
                   IF old # 0 THEN [PutAt(f, "create_old") EXCEPT !.ip = Slot(t, i)]
                   ELSE IF new = 0 THEN PutAt(f, "end_op")
                   ELSE [f EXCEPT !.pc = "create_ip", !.ip = Slot(t, i)]]
            /\ UNCHANGED rest

\* The name exists: only open() may go on, and only with a file or device.
create_old(p) ==
    /\ Running(p, "create_old")
    /\ LET f == frame[p]
           t == ilock(inode, f.ip) IN
          /\ inode' = t
          /\ IF NewType(f) = T_FILE /\ t[f.ip].type \in {T_FILE, T_DEVICE}
             THEN opened(p, f)
             ELSE UNCHANGED ofile /\ frame' = [frame EXCEPT ![p] = PutIp(f, "end_op")]
    /\ UNCHANGED <<dinode, lock, durable, cwd, panic, calls, crashes, menu>>

\* Fill the new inode in and give it its name; if a directory has no room for
\* an entry, give the inode back.
create_ip(p) ==
    /\ Running(p, "create_ip")
    /\ LET f == frame[p]
           t == [ilock(inode, f.ip) EXCEPT ![f.ip].nlink = 1]
           i == t[f.ip].inum
           d == t[f.at].inum
           dir == NewType(f) = T_DIR
           t1 == IF dir THEN [t EXCEPT ![f.at].nlink = @ + 1] ELSE t
           t0 == [t EXCEPT ![f.ip].nlink = 0]
           img == IF dir THEN [dinode EXCEPT ![i].ents = Dots(i, d)] ELSE dinode IN
       IF CanLink(dinode[d].ents, Head(f.path))
       THEN /\ inode' = t1
            /\ dinode' = iupdate(iupdate([img EXCEPT ![d].ents = dirlink(@, Head(f.path), i)],
                                         t1, f.ip), t1, f.at)
            /\ lock' = [lock EXCEPT ![f.at] = None, ![f.ip] = p]
            /\ frame' = [frame EXCEPT ![p] = PutAt(f, "create_end")]
       ELSE /\ inode' = t0
            /\ dinode' = iupdate(img, t0, f.ip)
            /\ frame' = [frame EXCEPT ![p] = PutIp(f, "unlock_dp")]
            /\ UNCHANGED lock
    /\ UNCHANGED rest

\* create() returns its inode locked, to sys_open() or to one that puts it.
create_end(p) ==
    /\ Running(p, "create_end")
    /\ lock' = [lock EXCEPT ![frame[p].ip] = None]
    /\ IF NewType(frame[p]) = T_FILE THEN opened(p, frame[p])
       ELSE UNCHANGED ofile /\ frame' = [frame EXCEPT ![p] = PutIp(@, "end_op")]
    /\ UNCHANGED <<dinode, inode, durable, cwd, panic, calls, crashes, menu>>

-----------------------------------------------------------------------------
\* The machine stops; the next boot finds what was committed.
crash ==
    /\ crashes < MaxCrashes
    /\ crashes' = crashes + 1
    /\ dinode' = durable
    /\ inode' = BootTable
    /\ lock' = [s \in Slots |-> None]
    /\ cwd' = [p \in Procs |-> 1]
    /\ ofile' = [p \in Procs |-> 0]
    /\ frame' = [p \in Procs |-> Idle]
    /\ panic' = None
    /\ UNCHANGED <<durable, menu, calls>>

Step(p) ==
    \/ ilock_panic(p) \/ namex(p) \/ namex_end(p)
    \/ iput(p) \/ iput_free(p) \/ iput_drop(p)
    \/ open(p) \/ chdir(p) \/ end_op(p)
    \/ link(p) \/ link_entry(p) \/ link_bad(p) \/ put_ip(p)
    \/ unlink(p) \/ unlink_ip(p) \/ unlink_end(p) \/ unlock_dp(p)
    \/ create(p) \/ create_old(p) \/ create_ip(p) \/ create_end(p)

Next ==
    \/ \E p \in Procs : Step(p) \/ close(p) \/ \E c \in menu : call(p, c)
    \/ crash

Spec == Init /\ [][Next]_vars

-----------------------------------------------------------------------------
(* Properties *)

\* Every variable keeps its type; counts never go negative.
TypeOK ==
    /\ \A img \in {dinode, durable} :
          img \in [Inums -> [type : {T_NONE, T_DIR, T_FILE, T_DEVICE}, nlink : Nat,
                             ents : Seq([name : STRING, inum : {0} \union Inums])]]
    /\ inode \in [Slots -> [inum : {0} \union Inums, ref : Nat, valid : {0, 1},
                            type : {T_NONE, T_DIR, T_FILE, T_DEVICE}, nlink : Nat]]
    /\ lock \in [Slots -> Procs \union {None}]
    /\ cwd \in [Procs -> Slots] /\ ofile \in [Procs -> {0} \union Slots]
    /\ panic \in {None, "ilock: no type", "iget: no inodes"}

\* The entries of image img that name inode i, not counting "." and "..".
Names(img, i) ==
    {<<d, n>> \in Inums \X (3 .. MaxEnts) :
        img[d].type = T_DIR /\ n <= Len(img[d].ents) /\ img[d].ents[n].inum = i}

\* On disk, a name always leads to an allocated inode that counts it: crashes
\* and races of link(), unlink() and create() never free an inode or reuse its
\* number while a directory names it.
NamesCounted ==
    \A i \in Inums : Names(durable, i) # {} =>
        durable[i].type # T_NONE /\ durable[i].nlink >= Cardinality(Names(durable, i))

\* Pointers to entry s that p has: of a call under way, in ofile and in cwd
\* (chdir() has dropped the old one before it sets the new).
Pointers(p, s) ==
    {x \in {"at", "ip", "put"} : frame[p][x] = s}
    \union (IF ofile[p] = s THEN {"ofile"} ELSE {})
    \union (IF cwd[p] = s /\ "chdir_end" \notin {frame[p].pc, frame[p].then} THEN {"cwd"} ELSE {})

\* "ip->ref tracks the number of in-memory pointers to the entry (open files
\* and current directories)" (fs.c's notes on inodes), those of calls under way
\* included: every path through a call, errors too, gives back what it took.
RefExact ==
    \A s \in Slots :
        inode[s].ref = Cardinality(UNION {{p} \X Pointers(p, s) : p \in Procs})

\* A valid table entry agrees with the disk unless the process that has it
\* locked is changing it (iupdate(), iget(), iput()).
CopyCurrent ==
    \A s \in Slots : inode[s].ref > 0 /\ inode[s].valid = 1 /\ lock[s] = None =>
        /\ inode[s].type = dinode[inode[s].inum].type
        /\ inode[s].nlink = dinode[inode[s].inum].nlink

\* "ip->ref == 1 means no other process can have ip locked, so this
\* acquiresleep() won't block (or deadlock)" (iput()).
PutNeverBlocks ==
    \A p \in Procs : frame[p].pc = "iput" => ~Blocked(p)

\* No set of processes waits for sleep-locks of each other: unlink() and
\* create() lock a directory before what it names, namex() one at a time.
NoLockCycle ==
    \A S \in SUBSET Procs \ {{}} :
        \E p \in S : ~Blocked(p) \/ lock[Wants(p)] \notin S

Orphan(i) == dinode[i].type # T_NONE /\ dinode[i].nlink = 0

\* An inode without links stays allocated only as long as somebody refers to
\* it: "If that was the last reference and the inode has no links to it, free
\* the inode (and its content) on disk" (iput()).  A crash may lose it.
OrphanHeld ==
    crashes = 0 => \A i \in Inums : Orphan(i) => InTable(inode, i) # {}

\* unlink() finds what it looked up still linked, so that its panic "unlink:
\* nlink < 1" is never reached.
UnlinkFindsLink ==
    \A p \in Procs : Running(p, "unlink_ip") =>
        ilock(inode, frame[p].ip)[frame[p].ip].nlink >= 1

\* ilock() panics only on the way up from a directory whose parent is gone.
NoTypeOnlyDotdot ==
    panic = "ilock: no type" => \E p \in Procs : NoType(p) /\ frame[p].via = ".."

\* ilock() never meets an inode that is not allocated (its own assertion).
NeverNoType == panic # "ilock: no type"

\* The inode table is exact: every entry counts the pointers to it (idup(),
\* iget(), iput()), and its copy of an unlocked inode is the one on disk.
InodeTableExact == TypeOK /\ RefExact /\ CopyCurrent

\* The inode locks cannot deadlock: no processes of namex(), create(), link()
\* and unlink() wait for each other, and iput(), which has itable.lock, waits
\* for none of them.
NoDeadlock == PutNeverBlocks /\ NoLockCycle

\* Of the assertions that another call could break between two locks of a call,
\* one can fail: ilock() may meet a free inode by way of a removed directory's
\* "..", and in no other way; unlink() always finds a link to remove.
PanicsOnlyAtDotdot == UnlinkFindsLink /\ NoTypeOnlyDotdot
=============================================================================
