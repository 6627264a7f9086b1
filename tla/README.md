# TLA+ verification of xv6-riscv (OS lab kernel)

TLA+ models of the kernel under `src/kernel`, of `src/mkfs` and of the parts of
`src/user` that have an algorithm or a protocol, TLC configurations that check
them on small instances, and proofs checked by TLAPS. `PROJECT.json` lists
components, runs, mutants, the source lines each definition stands for, the
hazards and the theorems.

    tlc -workers 2 -config OnDisk.cfg MCOnDisk    # one run (at most four minutes)
    tlapm PipeProofs.tla                          # one module of proofs (two to ten minutes)

## 1. The system

A Unix-like kernel for several RISC-V harts sharing memory. Processes enter the
kernel through traps; kernel code runs concurrently on every hart, is preempted
by the timer when it holds no spin-lock, and waits with `sleep`/`wakeup` on
channels. This version differs from stock xv6 in that every process has its own
kernel page table, which the scheduler loads before it runs the process.

| part | state | operations | what is hard | what should hold |
|---|---|---|---|---|
| log (`log.c`) | in-memory header, `outstanding`, `committing`; header and slots on disk | `begin_op`, `log_write`, `end_op`, `commit`, `recover_from_log` | calls share a transaction; crash at each disk write, also in recovery; sleeping for space; log full | a crash leaves whole calls; nothing is lost once idle; sleepers are woken; no panic |
| processes (`proc.c`, `trap.c`, `swtch.S`) | `proc[]`, locks, per-CPU `proc` and `satp` | `scheduler`, `sched`, `yield`, `sleep`, `wakeup`, `fork`, `exit`, `wait`, `kill` | locks held across context switches; slots reused; parents that exit; page table freed while in use | one CPU per process; no lost wakeup; every zombie is reaped; kill hits the named process only |
| pipe (`pipe.c`) | ring buffer, wrapping counters, open flags | `pipewrite`, `piperead`, `pipeclose` | several readers and writers, kills and closes in mid-call, last close frees | FIFO; no use after free; nobody asleep without reason |
| buffer cache (`bio.c`) | LRU list, refcounts, sleep-locks | `bget`, `bread`, `bwrite`, `brelse`, `bpin`, `bunpin` | lock gap in `bget`; recycling; all buffers pinned | one buffer per block; no recycling while in use |
| disk driver (`virtio_disk.c`) | descriptors, available/used rings, in-flight table | `virtio_disk_rw`, `virtio_disk_intr` | completions in any order, one interrupt for several, descriptor shortage | each request completes once; no descriptor leaks |
| inodes, directories (`fs.c`, `sysfile.c`) | inode table, on-disk inodes, entries | `iget`…`iput`, `ialloc`, `namex`, `create`, `link`, `unlink`, `open`, `chdir` | `iput` racing `iget` and `ialloc`; unlinked open files; lock order of parent and child; crashes | a name leads to an inode that counts it; references exact; no lock cycle |
| file contents (`fs.c`, `file.c`) | bitmap, block pointers, sizes, offsets | `balloc`, `bfree`, `bmap`, `itrunc`, `readi`, `writei`, `filewrite` | failure in the middle of a write; chunks interleaved; limits of the log | reads return what was written; blocks have one owner |
| files (`file.c`, `sysfile.c`) | `ftable`, descriptor tables | `filealloc`, `filedup`, `fileclose`, `fdalloc`, `pipealloc` | references shared by `fork`; error paths; closing from a copy | no leak, nothing closed twice |
| memory (`kalloc.c`, `vm.c`, `exec.c`) | free list, page tables | `kalloc`, `kfree`, `walk`, `mappages`, `uvm*`, `exec`, `growproc` | failure in the middle; two page tables per process | pages have one owner; failure undoes everything |
| copies (`vm.c`, `syscall.c`) | – | `copyin`, `copyout`, `copyinstr`, `fetchaddr`, `fetchstr` | page ends, missing pages, wrap | all or an error, never another page |
| traps, spin-locks, boot (`trap.c`, `spinlock.c`, `main.c`) | per-hart registers, `noff`, `intena` | `usertrap`, `kerneltrap`, `usertrapret`, `acquire`, `release`, `main` | interrupts anywhere; threads that change harts | interrupts as set; return to where the trap came from |
| console, uart | input and transmit rings | `consoleread`, `consoleintr`, `uartputc`, `uartstart`, `uartintr` | interrupt against process half; rings full; line editing | input is lines, output in order, nobody asleep without reason |
| ticks (`sysproc.c`, `trap.c`) | `ticks` | `clockintr`, `sys_sleep` | wrap-around, signed argument | sleepers wake after n ticks |
| mkfs | inodes, blocks, bitmap of the image | `ialloc`, `iappend`, `balloc` | odd read sizes; direct to indirect | what the kernel will read is what was put in |
| shell (`sh.c`) | command line; processes and descriptors | `parsecmd`, `runcmd` | shared buffer; pipe ends in the wrong process | grammar; each program has its own descriptors; prompt returns |
| user library (`umalloc.c`, `grep.c`, `ulib.c`) | free list; line buffer | `malloc`, `free`, `grep`, `memmove`, `printint` | joining; pieces of input; limits | functions against reference definitions |

The parts meet as follows. Files, inodes and directories bracket their block
writes with `begin_op`/`end_op`; the log pins buffers of the cache until it has
installed them; the cache calls the disk driver; everything that waits does so
through `sleep` and `wakeup` of `proc.c`; pages for pipes, page tables and
kernel stacks come from `kalloc`. The models are separate, each with what it
needs of its neighbours as the neighbour's model shows it: `Fs` takes what lies
between `begin_op` and `end_op` to become durable as a whole (`CrashAtomic`),
`Log` lets an unpinned buffer vanish at any time (`BufferIsBlock`), everybody takes
`sleep` to be atomic with the release of its lock (`ZombiesReapable`, `OneCPU` of
`Proc`) and the section under a spin-lock to be uninterrupted
(`LockDiscipline` of `Trap`).

## 2. Modules

| module | models | promise |
|---|---|---|
| `Log` | `log.c`; the buffer cache as far as the log depends on it | refines `AtomicDisk` |
| `AtomicDisk` | – | an image that changes only between calls |
| `Bcache` | `bio.c`, `sleeplock.c` | refines `BlockStore` |
| `BlockStore` | – | blocks as variables with one holder at a time |
| `VirtioDisk` | `virtio_disk.c` and, as its environment, the device | – |
| `Fs` | inodes, directories and paths of `fs.c`, calls of `sysfile.c` | – |
| `FileBlocks` | bitmap, `bmap`, `itrunc`, `readi`, `writei`, `fileread`, `filewrite` | – |
| `FileTable` | `file.c`, descriptors, `pipealloc` | – |
| `Mkfs` | `mkfs.c` | – |
| `Proc` | `proc.c`, the parts of `trap.c`, `sysproc.c` that reach it | – |
| `Trap` | `trap.c`, `spinlock.c`, `main.c`, `start.c`, context switches | – |
| `Clock` | `sys_sleep`, `clockintr` | – |
| `Mem` | `kalloc.c`, page tables, `fork`, `exec`, `sbrk`, reaping | – |
| `UserCopy` | `walkaddr`, `copyout`, `copyin`, `copyinstr`, `fetchaddr`, `fetchstr` | – |
| `Pipe` | `pipe.c`, the closing part of `file.c` | refines `BoundedFifo` |
| `BoundedFifo` | – | a queue of bytes of bounded length |
| `Console` | `console.c`, `uart.c` and, as its environment, the UART | – |
| `ShellParse`, `ShellRun` | `sh.c` | – |
| `Umalloc`, `Grep`, `Strings` | `umalloc.c`; `grep.c`; `memmove`, `printint`, `skipelem` | – |
| `MC*` | – | instances for TLC |
| `LogProofs` | – | proofs about `Log` |
| `BcacheProofs` | – | proofs about `Bcache` |
| `PipeProofs` | – | proofs about `Pipe` |
| `ProcProofs` | – | proofs about `Proc`: scheduling, the process tree, `wait` and `exit` |
| `VirtioProofs` | – | proofs about `VirtioDisk`: chains, the device and the two rings |
| `FileTableProofs` | – | proofs about `FileTable`: references, and who closes what |
| `ConsoleProofs` | – | proofs about `Console`: the input ring, the transmitter |
| `ModuloProofs` | – | lemmas about counters that wrap, for the pipe, the rings of the disk and the console |

### Log

Everything done under `log.lock` is one action. `commit` runs without the lock,
so `write_log`, `write_head`, `install_trans` and the final `clear_head` take one
step per `bwrite`, and `Crash` may come between any two; after a crash `boot`
goes through `read_head`, `recover_install`, `recover_clear_head`, which may be
cut by another crash. `lh` is `log.lh` (a sequence of block numbers), `hd` and
`logd` the header and the slots on disk, `home` the home blocks, `cache` and
`pins` the buffers. `Recycle` is `bget` reusing a buffer nobody holds. A panic in
`log_write` is a control state, so a property can speak about it. A single
block write is taken as atomic. Wakeups by `kill` are left out: a `begin_op`
sleeper that is woken early tests again and goes back to sleep.

### Bcache

A section under `bcache.lock` or under a sleep-lock's spin-lock is one step, so
the gaps in `bget` (reference taken, lock not yet) and in `brelse` (lock given
back, reference not yet) are visible. The list is `lru`, a function from
positions to buffers; `MoveToFront` is what `brelse` does to it. A member of
`Procs` is one use of a buffer from `bread` to `brelse`. The callers' side is what
`log.c` does: a changed buffer is pinned by `log_write` until `install_trans` has
written it, or written at once. One caller breaks this rule and is left out:
`writei`, when `either_copyin` fails after part of a block (`fs.c:522`), releases the
changed buffer without `log_write`, so that its bytes stay only as long as the buffer
is not recycled. `BufferIsBlock` therefore speaks of all other uses; what such a
write may leave in a file is in `FileBlocks` (`torn`).

### VirtioDisk

The device shares memory with the driver and is not kept out by `vdisk_lock`:
filling the descriptors, moving `avail->idx` and every test of `used->idx` are
separate steps. The device (external) fetches requests in order, finishes them
in any order, follows the descriptor chain as it finds it, and raises an
interrupt that may cover several completions. `served` records what it did to
each buffer. When `alloc3_desc` does not find three descriptors it gives back those
it took, clearing them and waking every other process that waits for one
(`rw_no_desc`, `GivenBack`). Ring indices wrap at `IDX`. `kill` wakes sleepers at any time. An
error status leads to the handler's panic.

### Fs

A process has a frame: the call it makes, where it is, the pointers it holds
(`at` while walking a path, `ip`, and `put`, what `iput` is dropping) and how it
came to the inode it is about to lock (`via`, a name). One step per inode lock
section; `iput` has its two halves, between which the inode is free on disk and
still in the table. Directories are sequences of entries. Paths are sequences of
names, split by `skipelem` in `Strings`. `dinode` is what calls see on disk,
`durable` what a crash leaves. The two `Worlds` are start images with a menu of
calls: files with two names in the root, and directories two deep.

### FileBlocks

Blocks have `BSIZE` bytes, an inode `NDIRECT` block numbers and an indirect block of
`NINDIRECT`. Each process writes its own byte value, so the file tells who wrote
what. A write goes block by block under the inode's lock, each step allocating
what `bmap` needs and then copying, and may end because the disk is full or
because `either_copyin` fails, having copied part of the block (`torn` remembers
these bytes: they are in the buffer, but not reported). `file` is what the file
should hold according to the counts `writei` returned. `logged` collects the
blocks of a chunk, each block having a bitmap block of its own as it may have on a
large disk.

### FileTable

An entry of the table is its reference count (`ref`) and what it is for (`what`): a
pipe end, an inode, or nothing. Of pipes the open ends are kept (`pipe`), of inodes
the references (`iref`). `call` says where a process is: in `open` or `pipe` with
one or two files in the local variables `f0` and `f1`, in `exit`, or in user mode;
a call that has failed or is closing also has its files there until `fileclose`
has taken them. `ff` is the copy that `fileclose` works from when it has given up
the entry, so `filealloc` of another process may come before `pipeclose` or `iput`.
Every allocation and `copyout` may fail. The module's names are its own (`FileInit`,
`Users`), so that `MCDisk` can extend it together with `VirtioDisk`.

### Proc

A section that takes and releases one `p->lock` is one action; `plock[p]` is a
variable because the lock is held across `swtch` in both directions. The loops
of `exit`, `wait` and `wakeup` take one step per slot. `pc` is where a process
is in the kernel, `ctx` which function called `swtch`. Every place without a lock
may be preempted (`timer`, `yield`). `wait_lock` is held over several steps by
name of its holder. `satp[c]` is the kernel page table the hart is using.
User programs make any sequence of `fork`, `exit`, `wait`, `kill`.

### Trap

A thread is a process in the kernel or the scheduler of a hart; it has a stack of
frames, each the instructions a function has still to do, at the grain at which
interrupts and other harts come between. A hart has `sie`, `spie`, `spp`, `sepc`,
`stvec` (in `csr`) and `noff`, `intena` (in `cpu`). Timer and device interrupts
arrive at any instruction with interrupts on. The kernel code is what a few system
calls do with locks: `sys_uptime`, one round of `sys_sleep`, a driver that calls
`killed` with its own lock held as `consoleread` does, and a user fault. `main` boots
in steps: hart 0 makes each lock with `initlock`, sets `stvec`, makes the first
process and only then sets `started`, for which the other harts wait; `inited` is the
set of locks that `initlock` has seen. Assertions of the code set `panicked`.

### Mem

A system call is one step: the free list is all it shares, and it starts with any
of several lengths, so that memory runs out at every place. Operators are named
for the functions and pass a record with the free list and the page table on.
User page tables have the code's three levels. `mem` is what each page holds, a
number for the whole page, `view` what each process should find. The kernel page
table of a process is the list of pages it is made of. A panic stops everything.

### Pipe, Clock, Console

`Pipe`: `pi->lock` is a variable; each iteration of the loops is a step.
`copyin`/`copyout` may fail at each byte. `nread` and `nwrite` are taken modulo
`UINT`, which stands for 2^32; `PIPESIZE` divides it as 512 divides 2^32. `Clock`:
everything under `tickslock` is one step. `Console`: one hart takes the
interrupts while processes write and read. The test of `LSR` and the
write to `THR` are separate steps, because `uartputc_sync` echoes without the lock.
What is written is numbered, so that order and loss can be seen; an echo is `Echo`.
`line` and `ready` are what the user means by the line under edit and the input
typed so far. `^P` makes `procdump` print, for which one character stands, and a 0 is
dropped. In all three, `killed()` and `sleep` are separate steps: a `kill` in
between is seen only at the next wakeup.

### Sequential code

`UserCopy`, `Strings`, `Grep`, `ShellParse`, `Umalloc` and `Mkfs` have no
concurrency. Their operators follow the functions' loops, and the properties
compare the result with a definition of what is wanted that does not use them:
memory as a function of addresses, runs of characters between slashes, the set of
commands a grammar allows for a line, the set of places a match can end. `ShellRun` runs the
tree that `ShellParse` builds, with processes, descriptors and pipes of its own;
programs copy input to output and may stop early, any `fork`, `open` or `exec` may
fail. When `fork1` fails, or a call to `pipe`, the process ends; `failed` remembers that
it left children of its own behind, which nobody then waits for: only then may the
prompt come early. `Mkfs` has the `assert` of `iappend` for every block of a
file, and `rsect` of a block past the image ends the program: input that does not fit
leaves no image to speak about. In `Umalloc` a request is a number of units of the size of a
header, so 1 is `malloc(0)`; requests stay below the 2^31 bytes that `sbrk`, which
takes an `int`, could be asked for.

## 3. Runs

Several runs check more than one component. Their MC module has a variable `sel`
that `Init` chooses and no step changes; only the component named by it takes
steps, the others' variables stay as they are. The behaviours are those of the
components one by one, and each property is guarded by `sel`. This is a way of
running them together, not a composition: what the components rely on from each
other is in section 1.

| run | instance | shows |
|---|---|---|
| `ondisk` | `Log`: 3 processes, 3 blocks, 2 values, 3 slots; `FileBlocks`: 2 processes, 2 inodes, 3 open files, 5 blocks, 3 calls; `Mkfs`: up to 3 files | every step of the log is a step of `AtomicDisk` or a stutter (`CrashAtomic`); an idle log is durable (`QuiescentDurable`); reads return what was written and no write is lost (`WritesKept`), bitmap exact (`BlocksExact`), a chunk fits its reservation (`ChunkFits`); the image is what the kernel will read (`ImageExact`) |
| `log_full` (violation) | 3 calls that use their whole reservation | `log_write` panics, see section 5 |
| `procs` | `Proc`: 2 CPUs, 3 slots, pids up to 3, `kill(2)` | one CPU per process (`OneCPU`), page tables live while loaded (`PageTableLive`), parents can wait and no wakeup is lost when zombies change parent (`ZombiesReapable`) |
| `progress` | `Console`: rings of 2, indices modulo 4, every kind of key but 0, 2 typed characters and reads, or 2 typed and 3 written; `Proc`: 1 CPU, 3 slots | input is lines under edit and nobody sleeps over one (`InputEdited`), output leaves in order (`OutputFifo`), and all of it (`OutputDrains`); every runnable process runs (`EveryoneRuns`); init reaps orphans (`OrphansReaped`) |
| `proc_kill0` (violation) | as `procs`, `kill(0)` | `kill(0)` marks a free slot |
| `pipe_kill` (violation) | calls of up to 3 bytes on a 2-byte pipe | a killed writer leaves a reader asleep on data |
| `files` | `Bcache`: 2 users, 3 blocks, 2 buffers, 1 pinned; `Fs`: 2 processes, 4 inodes, 3 table entries, 4 calls, 1 crash | recycling is invisible (`BufferIsBlock`), one buffer per block and reference counts exact (`BuffersExact`), no sleeper on a free lock (`SleeperHasHolder`); names are counted on disk (`NamesCounted`), references exact and cached copies current (`InodeTableExact`), no cycle of locks (`NoDeadlock`), one known panic only (`PanicsOnlyAtDotdot`) |
| `fs_orphan` (violation) | `Fs` | a reused inode is never freed |
| `fs_notype` (violation) | `Fs` | `ilock` meets a free inode |
| `disk` | `VirtioDisk`: 2 processes, 6 descriptors, device errors, indices modulo 12; `FileTable`: 2 processes, 3 files, 2 descriptors each, 2 pipes | every caller returns after its own transfer (`RequestServed`), no descriptor is lost (`DescriptorsOwned`); references exact (`RefsExact`), ends closed and inodes put once (`ClosedOnce`) |
| `live` | `Log`: 3 processes, calls that use half their reservation; `VirtioDisk`: 3 processes, 4 descriptors; `ShellRun`: 4 command lines | every `begin_op` sleeper is woken (`SleepersWoken`); every disk request returns, and failed allocations lose no descriptor (`DiskAnswers`); the prompt returns (`PromptReturns`), and each program has the descriptors it should, at its time (`RunsAsWritten`) |
| `machine` | `Pipe`: 1 reader, 2 writers, 2-byte pipe, counters modulo 4; `Mem`: 2 processes, 11 to 24 pages, 4 calls, programs of up to 2 segments and one of size 0; `Trap`: 2 harts, 1 process, 2 traps; `Clock`: modulo 8; `Console`: 5 typed characters, 0 among them, reads of 1 and 2; `Umalloc`: requests of 1, 2, 3 and 5 units, 10 units of heap; the sequential modules | FIFO refinement (`PipeIsFifo`), no use of a freed pipe (`NoUseAfterFree`), no sleep over what is there (`NoLostWakeup`: pipe, clock), pages conserved and memory one's own (`MemoryExact`), failed calls leave no trace (`OutOfMemorySafe`), traps and interrupts (`TrapsReturnHome`, `LockDiscipline`), sleeps of the right length (`SleepsLongEnough`), the parser against the grammar (`ParsesRight`), the free list (`HeapExact`), and functions against their references, console input among them (`FunctionsExact`) |

Where one idea has several sides, the component's module states each as a definition
of its own and joins them: `MemoryExact` is `PagesConserved`, `SizeMapped` and
`MemoryIsOwn`, `LockDiscipline` is `NoAssertionFails`, `LockedUninterrupted` and
`BootOrder`, and so on; the module's type invariant is a conjunct of one of its
properties, or proved (`Log`'s). Each side has its own mutant in
`PROJECT.json`.

**Bounds.** Log: three processes are two calls in one transaction and a third
that waits; three blocks fill the three slots and make absorption, eviction and
a waiting call happen. Crashes are not bounded. Bcache: more blocks than buffers,
and two users that with a pinned block can want more buffers than there are, so
hits, recycling, waiting and the panic all happen. Proc: three slots are init, a child and a grandchild or a second child,
with every slot but init's reused while pids last; a zombie handed from an
exiting parent whose own parent is not init needs a fourth, which `ProcProofs`
covers, as it does every other number. `MaxPid` bounds the number of forks. Pipe: two writers
contend for room; counters modulo 4 with a pipe of 2 wrap all the time.
VirtioDisk: two chains in flight for completion order, one chain and a spare
descriptor for shortage. Fs: a table entry fewer than inodes, so that entries are
reused and run out; four calls are enough for a create and an unlink on each
side of an `iput`, and both violations need no more. FileBlocks: one direct and
two indirect blocks for each of two files on a disk of five, so every write can
hit the end of the direct blocks, of the file and of the disk; two open files
share an inode. FileTable: as many files as a pipe and one more, so that `pipe` fails at each
of its files, pipes and descriptors. Mkfs: one length is above `MAXFILE`
blocks and three files can need more than the image has, so that both ways of not
fitting happen. Mem: the sizes
start just above what boot needs, so that each allocation of `fork`, `exec` and
`sbrk` fails in some instance; tables of two entries make new tables necessary all
the time. Trap: two traps let an interrupt come inside another trap's handler on
either hart. Clock: ticks wrap, and every `int` is an argument. Console: more keys than
the ring has room for, in `machine` enough to go around its indices. Strings, ShellParse, Grep, UserCopy: all inputs up to the
size given in the MC module.

**Deadlock** is checked, except where the system may really stop: in `files`
(the number of calls is bounded, and a panic stops the machine or the cache), `disk` (panic after
an error; all processes may have exited), `pipe_kill` (all ends closed), `fs_orphan`
and `fs_notype`. In `ondisk`, `progress`, `live` and `machine` the components that may come to
an end (file contents, the console and the shell by their bounds, the sequential
functions when they have returned) have a stuttering step of their own,
so that deadlock stays checked for the log, the processes, the driver, the clock and the allocator.

**Fairness.** Log: weak fairness for each process inside log code (the
scheduler runs everybody, `EveryoneRuns`) and for recovery; calls need not be
made, but a call that was begun ends. Proc: weak fairness per CPU; strong fairness
of preemption, because a timer interrupt that comes while interrupts are off stays
pending; strong fairness per process for its kernel steps, that is, time
slices long enough to do something; init keeps calling `wait` (`user/init.c`).
VirtioDisk: the device answers and its interrupt is taken; a process that keeps
asking gets `vdisk_lock` and, in its turn, descriptors (strong fairness). Console:
the transmitter sends what it holds and its interrupt is taken (weak); a process in
`uartputc` runs. Nothing is assumed of typing. ShellRun: processes run (weak); the
input that comes from the console or a file ends at some time, so a program that
can meet the end again and again does meet it (strong fairness of `ends`). `MCLive` and `MCProgress` join
conditions of different components in one `WF` or `SF`: since `sel` never changes,
only one of the joined actions can ever be enabled in a behaviour.

## 4. What is proved

Each theorem holds for every value of the constants that the named assumption of
the component's module allows; TLC evaluates the assumptions in the runs.

| theorem | says | its property in a run |
|---|---|---|
| `LogImplementsAtomicDisk` | every step of the log, crashes and recovery included, is a step of `AtomicDisk` or a stutter | `CrashAtomic` in `ondisk` |
| `IdleIsDurable` | an idle log has nothing to lose; `AtomicDisk` alone would allow a log that never commits | `QuiescentDurable` in `ondisk` |
| `CommitIsExclusive` | while a commit runs no call is open and no second commit runs | – |
| `SleepersHaveWaker` | whoever sleeps in `begin_op` has a call or a commit whose end wakes them | – (the safety half of `SleepersWoken`) |
| `TypeCorrect` | types of `Log`; the header never outgrows the log | – |
| `CacheImplementsStore` | every step of the cache is a step of `BlockStore` or a stutter | `BufferIsBlock` in `files` |
| `BuffersAreExact` | one buffer per block, `refcnt` exact | `BuffersExact` in `files` |
| `SleepersHaveHolder` | nobody sleeps on a free sleep-lock | `SleeperHasHolder` in `files` |
| `NeverOnTwoCPUs` | no process is on two CPUs | `OneCPU` in `procs` |
| `PageTablesLive` | no CPU uses a freed kernel page table | `PageTableLive` in `procs` |
| `ZombiesAreReapable` | an exited process has a parent that can wait for it and does not sleep over it | `ZombiesReapable` in `procs` |
| `PipeImplementsFifo` | every step of the pipe is a step of `BoundedFifo` or a stutter | `PipeIsFifo` in `machine` |
| `NeverUsedAfterFree` | no call works on a freed pipe | `NoUseAfterFree` in `machine` |
| `SleepersJustified` | with the lock free, writers sleep on a full pipe, and readers on an empty one unless a writer was killed | – (two of the parts of `NoLostWakeup` in `machine`) |
| `ReadersJustified` | without `kill`, readers sleep on an empty pipe only: the violation of `pipe_kill` needs one | – |
| `ChainsAreOwned` | descriptors are free or in one chain of one request | `DescriptorsOwned` in `disk` |
| `TransfersAreExact` | `virtio_disk_rw` returns after its own transfer, made once | `RequestServed` in `disk` |
| `SleepersAreServed` | a waiting request is in the available ring, with the device, or in the used ring with an interrupt pending or being handled | – |
| `RefsAreExact` | a file has as many references as descriptors and calls that hold it | `RefsExact` in `disk` |
| `FilesClosedOnce` | ends of pipes are closed and inodes put exactly once | `ClosedOnce` in `disk` |
| `InputIsEdited` | the ring buffer is the queue of lines under edit; a full one can be read; nobody sleeps over input | `InputEdited` in `progress` |
| `OutputIsFifo` | what is written leaves in order, nothing lost or sent twice, although the echo passes it | `OutputFifo` in `progress` |

`ProcInvariant`, `PipeInvariant`, `CacheInvariant`, `VirtioInvariant`,
`FileInvariant` and `ConsoleInvariant` state the inductive invariants the others follow from. Each invariant is a conjunction with
one lemma per conjunct, and that lemma has one step per action. None of the run's
properties is inductive alone; what had to be added is the following.

**Log** (`LogInv`; any finite set of processes, any blocks, values and sizes).
`ControlInv`: `outstanding` is the number of processes in a call (a cardinality,
hence `ProcsFinite`), and a committer is alone. `HeaderInv`: no duplicates in the
header, the disk header is empty except while installing, and exactly the logged
blocks not yet installed are pinned; without it, neither recycling nor a crash
before `write_head` could be shown harmless. `DataInv`: an unpinned buffer equals
its home block, and slots and home blocks are up to date as far as the loops have
come; without it the overlay that recovery computes could not be compared with
the image before. The refinement maps `durable` to that overlay, `current` to
what a reader sees, `active` to the processes in a call; `write_head` is the
abstract commit.

**Bcache** (`CacheInv`; any finite set of users, any blocks, values and number of
buffers). `ListInv`: every buffer is on the list, so the two loops of `bget` find
what there is; which one they find is settled by a least element, as the list is
searched from an end. `ReferencesExact`: `refcnt` is the number of users plus the
log's pin. It makes `refcnt == 0` mean what `bget` takes it to mean. `DataInv`: a
buffer that has been read, is not pinned and not being changed equals its block.
It is why `bget` may recycle without looking. The refinement maps `holder` to the
process that has the buffer's lock and `contents` to the buffer if there is one
and to the disk otherwise.

**Proc** (`ProcInv`; any number of slots, CPUs and forks; nobody kills pid 1, as
`KillPids` says, since `exit` of init is a panic). `CpuInv` and `CtxInv` are about
`swtch`: a CPU outside the scan loop is the only one that has its process, and
the process runs or its lock is held until the scheduler has left its stack; a
saved context says where the process was. `ForkInv`: a child under construction
has one constructor. `InitInv` and `ParentInv`: init does not exit, and everybody
else has a parent that has not exited, also in the middle of `reparent`.
`WaitLockInv` and `WaitInv`: the loops of `wait` and `exit` exclude each other, and
nobody is between `release(&wait_lock)` and being woken while it has a zombie,
except init while the `exit` that hands the zombie over is about to wake it. A step
of one process is first shown to do one of a few things to every other (`Frame`), so
that the lemmas need not go through all actions for each pair of processes.

**Pipe** (`PipeInv`; any disjoint sets of readers and writers, any `PIPESIZE`, any
counter width it divides). `EndsInv`: who is in a call has its end open, and an end
is closed once. `CountInv`: the counters are at most `PIPESIZE` apart, modulo the
width. `SleepInv`: `NoLostWakeup` while the lock is held, when a sleeper may be
sleeping on a condition that no longer holds because its waker has not yet come to
its `wakeup`. The refinement maps the queue to the bytes from `nread` on; `PutStep`
and `GetStep` show that their places agree although index and counter wrap at
different times. They and the lemmas on the disk's rings rest on `ModuloProofs`,
which is where the divisibility is used.

**VirtioDisk** (`VirtioInv`; any processes, any `NUM` from 3 on, any index width
above it that it divides, any statuses). `ChainInv`: the descriptors of each
request are as `virtio_disk_rw` left them, free descriptors are clear (which is why
giving them back changes nothing but who is awake) and chains share nothing, so the device
and `free_chain`, which follow `next`, stay inside. `AvailInv` and `UsedInv`: the
unread part of the available ring together with what the device has is the set of
heads of the requests not carried out, the unread part of the used ring is that of
the others, each head once. Neither ring overflows, because heads are descriptors
that are taken and a chain has more than its head (`RoomLeft`, by counting).
`ServedInv`: a request has been carried out once or not at all, and `b->disk` is 0
only in the first case. `IrqInv`: what is unread has been announced.

**FileTable** (`FileInv`; any finite set of processes, any numbers of files,
descriptors and pipes). `RefsExact` and the two halves of `ClosedOnce` count sets;
`OneMore` and its kin say how a cardinality changes when a function is updated at
one place, and each action's lemma names the place. The counts alone are not
inductive: `open` and `pipealloc` overwrite what an entry is for, which would lose
a pipe end if it still was for one. `FreeInv` says that a free entry is for
nothing, which is what `f->type = FD_NONE` in `fileclose` is needed for, and
`CallInv` that a file which `open` or `pipe` has got and not set up has one
reference, theirs, and is for nothing.

**Console** (`ConInv`; any buffer sizes, any index width that `INPUT_BUF_SIZE`
divides, any receiver, a transmitter that holds at least two characters, which a
16550 with its FIFO on does). Input: `IndexInv` says that `r`, `w` and `e` are as
far apart, modulo the width, as the finished input and the line are long, and that
a line which fills the buffer is finished; `TextInv` that each character is where
the index of its place leads. What one moving index does to the others comes from
`ModuloProofs`, as for the pipe. Output: `LockInv` says that `uart_tx_lock` is held in
`uartstart` and nowhere else; `RoomInv` that the transmitter's contents, the
handler's echo and the driver's character in hand are together at most two, since
each of the two found it idle before: so no write to `THR` is lost, and this is
where the assumption on `FIFO` is needed. `SendInv` says that at most one written
character is past the buffer, and which. With a transmitter that holds one
character `OutputFifo` is false: both sides may see `LSR_TX_IDLE` at once.

**Only model-checked**: all liveness (fairness and `ENABLED` are outside the
prover); `Fs`, `FileBlocks`, `Mem`, `Trap`, `Clock` and `ShellRun`, of which no
invariant is proved; and what the recursive operators of
`ShellParse`, `ShellRun`, `Umalloc`, `Grep`, `Strings`, `UserCopy` and `Mkfs` compute
(induction over data and `RECURSIVE` are outside the prover too). `BuffersExact`
shows that `bget` panics only when every buffer has a user or is pinned; that there
are enough buffers does not follow from the sizes in `param.h`.

## 5. Findings

* `log_full`: mkfs makes the log `LOGSIZE` blocks long with the header, so it holds one data block fewer than `begin_op` counts on; calls that use all they reserve make `log_write` panic.
* `proc_kill0`: `kill(0)` matches a free slot, whose pid is 0, and the next process in it starts killed.
* `pipe_kill`: a writer killed in mid-call returns without waking readers of the bytes it stored. `ReaderSleepsOnKill`, a part of `NoLostWakeup` in `machine`, says that this is the only way.
* `fs_orphan`: between the two halves of `iput` the inode is free on disk and still in the table; if it is allocated again, unlinked and put in that gap, nobody frees it.
* `fs_notype`: a removed directory keeps its `..`; when the parent is removed too, `open("..")` from inside locks a free inode and `ilock` panics. `PanicsOnlyAtDotdot` in `files` says that this is the only way.

Met while modelling, without a run of its own: the comment on `allocproc` promises
0 when a memory allocation fails, but a failing allocation for the kernel stack or the
kernel page table panics (`proc.c:146`). `OutOfMemorySafe` in `machine` says that no
other call of the model can be stopped by lack of memory.

## 6. Not modelled, and the plan

* Register saving (`trampoline.S`, `kernelvec.S`, `swtch.S` except for which thread runs next), `entry.S`, the machine-mode timer set-up, PLIC priorities: straight-line code without a state the properties tell apart.
* The dispatch of system calls, `getpid`, `uptime`, `trace`, `sysinfo`, `filestat`: they read or copy single values.
* The formats of `printf`, `procdump` and `vmprint`: output.
* `virtio_disk_init`: a fixed sequence of register accesses.
* The ELF header (`exec` takes a list of segment sizes and any read may fail), argument strings (pages only), permission bits other than `PTE_U`.
* The shell's `cd` and reading of the line; user programs that are a loop around one system call; `memset`, `strncmp` and their like.
* The RAM disk (not compiled in) and the test programs, which were read for what they expect.
* Weak memory: the code's `__sync_synchronize` are taken to order what they should.

Next: proofs of `LockDiscipline`, of `BlocksExact` and of `InodeTableExact`, whose
invariant has to follow `iput` through its two halves. Then a composition of `Log`
with `Bcache` that bounds the buffers in use by the calls in progress.
