--------------------------------- MODULE Mem --------------------------------
(***************************************************************************)
(* Physical pages (kernel/kalloc.c), page tables (kernel/vm.c), and the    *)
(* system calls that allocate and free them: fork(), exec(), sbrk() and    *)
(* the wait() that reaps a process (kernel/proc.c, exec.c, sysproc.c).     *)
(*                                                                         *)
(* Grain.  A system call is one step: the free list, which kmem.lock       *)
(* protects, is all it shares with others, and Init varies how much of it  *)
(* there is.  Page tables have the code's three levels, of PTES entries.   *)
(***************************************************************************)
EXTENDS Integers, Sequences, FiniteSets, SequencesExt

CONSTANTS NPROC,
          MemSizes,   \* how many pages kinit() may find
          PGSIZE,     \* bytes in a page
          PTES,       \* 512 in the code
          KTABLES,    \* tables that vmmake() needs below the root
          Programs,   \* sizes in bytes of the segments of program files
          Increments, \* arguments of sbrk()
          PLIC,       \* where exec() stops; above all memory, as in the code
          MaxArgs,    \* arguments of exec()
          MaxCalls    \* system calls made in a run

VARIABLES free,   \* kmem.freelist
          mem,    \* what each page holds: a number for the whole page
          proc,   \* the process table
          ret,    \* the last system call, whether it succeeded, and their number
          panic,  \* "" or what the kernel has panicked with
          view    \* what each process should find in its memory

vars == <<free, mem, proc, ret, panic, view>>

Slots == 1 .. NPROC
VAs == 0 .. PTES * PTES * PTES - 1       \* virtual page numbers below MAXVA
TRAMPOLINE == PTES * PTES * PTES - 1
TRAPFRAME == TRAMPOLINE - 1
TrampolinePage == -1                     \* kernel text, not from kalloc()

L1(va) == <<1, va \div (PTES * PTES)>>
L0(va) == <<0, va \div PTES>>
Keys == {L1(va) : va \in VAs} \union {L0(va) : va \in VAs}

NoTable == [root |-> 0, tab |-> [k \in Keys |-> 0], leaf |-> [va \in VAs |-> 0]]
NoProc == [used |-> FALSE, trapframe |-> 0, kpagetable |-> <<>>, kstack |-> 0,
           pagetable |-> NoTable, sz |-> 0]

\* A bound for the sizes: in the code user memory never reaches the trap
\* frame, because there are 128 megabytes of it and 256 gigabytes of room.
MaxUser == TRAPFRAME * PGSIZE

PGROUNDUP(sz) == (sz + PGSIZE - 1) \div PGSIZE   \* in pages
Pages(from, to) == [k \in 1 .. (IF to > from THEN to - from ELSE 0) |-> from + k - 1]

-----------------------------------------------------------------------------
(* Pages.  The operators below take and return s, a record of free, mem and  *)
(* panic, of the page table pt they work on and the page they allocated, and *)
(* of whether they succeeded.                                                *)

Start == [free |-> free, mem |-> mem, panic |-> panic, pt |-> NoTable, page |-> 0, ok |-> TRUE]

kalloc(s) ==
    IF s.free = <<>> THEN [s EXCEPT !.page = 0, !.ok = FALSE]
    ELSE [s EXCEPT !.page = Head(s.free), !.free = Tail(@), !.mem[Head(s.free)] = 5]

\* Mutant: as kfree() might be if a page could be freed twice.
kfree_twice(s, pa) == [s EXCEPT !.free = <<pa, pa>> \o @, !.mem[pa] = 1]

\* The list is kept in the order of addresses, not of calls: which free page
\* kalloc() returns makes no difference to anything that follows.
kfree(s, pa) ==
    IF pa \notin DOMAIN s.mem THEN [s EXCEPT !.panic = "kfree"]
    ELSE [s EXCEPT !.free = SelectSeq(@, LAMBDA x : x < pa) \o <<pa>> \o SelectSeq(@, LAMBDA x : x >= pa),
                   !.mem[pa] = 1]

kfree_all(s, pas) == FoldLeft(kfree, s, pas)

-----------------------------------------------------------------------------
(* Page tables *)

AddTable(s, key) ==
    IF ~s.ok \/ s.pt.tab[key] # 0 THEN s
    ELSE LET t == kalloc(s) IN
         IF t.ok THEN [t EXCEPT !.pt.tab[key] = t.page, !.mem[t.page] = 0] ELSE t

\* walk() with alloc; a table it made stays when it fails further down.
walk(s, va) == AddTable(AddTable(s, L1(va)), L0(va))

mappages(s, va, pa) ==
    LET t == walk(s, va) IN
    IF ~t.ok THEN t
    ELSE IF t.pt.leaf[va] # 0 THEN [t EXCEPT !.panic = "mappages: remap"]
    ELSE [t EXCEPT !.pt.leaf[va] = pa]

Unmap(s, va, do_free) ==
    IF s.pt.leaf[va] = 0 THEN [s EXCEPT !.panic = "uvmunmap: not mapped"]
    ELSE LET t == IF do_free THEN kfree(s, s.pt.leaf[va]) ELSE s IN [t EXCEPT !.pt.leaf[va] = 0]

uvmunmap(s, vas, do_free) ==
    FoldLeft(LAMBDA t, va : Unmap(t, va, do_free), s, vas)

uvmcreate(s) ==
    LET t == kalloc(s) IN
    IF t.ok THEN [t EXCEPT !.pt = [NoTable EXCEPT !.root = t.page], !.mem[t.page] = 0] ELSE t

\* Mutant: as uvmalloc() might be if it forgot the page that it cannot map.
MapNew_leak(s, va, val) ==
    LET t == kalloc(s) IN
    IF ~t.ok THEN t ELSE mappages([t EXCEPT !.mem[t.page] = val], va, t.page)

\* Mutant: as uvmalloc() might be if it did not clear the page.
MapNew_junk(s, va, val) ==
    LET t == kalloc(s)
        u == mappages([t EXCEPT !.mem[t.page] = IF val = 0 THEN @ ELSE val], va, t.page) IN
    IF ~t.ok THEN t ELSE IF u.ok THEN u ELSE kfree(u, t.page)

\* A new page that holds val, mapped at va: the loops of uvmalloc(), uvmcopy().
MapNew(s, va, val) ==
    LET t == kalloc(s)
        u == mappages([t EXCEPT !.mem[t.page] = val], va, t.page) IN
    IF ~t.ok THEN t ELSE IF u.ok THEN u ELSE kfree(u, t.page)

\* The pages of vas, with their vals, mapped until one fails, and how far that
\* was: at.
MapRun(s, vas, vals) ==
    FoldLeft(LAMBDA t, va : IF ~t.s.ok THEN t
                            ELSE LET u == MapNew(t.s, va, vals[va]) IN
                                 [s |-> u, at |-> IF u.ok THEN va + 1 ELSE va],
             [s |-> s, at |-> IF vas = <<>> THEN 0 ELSE Head(vas)], vas)

\* Mutant: as uvmdealloc() might be if it rounded the new size down.
uvmdealloc_down(s, oldsz, newsz) ==
    IF newsz >= oldsz THEN s
    ELSE uvmunmap(s, Pages(newsz \div PGSIZE, PGROUNDUP(oldsz)), TRUE)

uvmdealloc(s, oldsz, newsz) ==
    IF newsz >= oldsz THEN s
    ELSE uvmunmap(s, Pages(PGROUNDUP(newsz), PGROUNDUP(oldsz)), TRUE)

uvmalloc(s, oldsz, newsz) ==
    LET first == PGROUNDUP(oldsz)
        end == PGROUNDUP(newsz)
        r == MapRun(s, Pages(first, end), [va \in first .. end - 1 |-> 0]) IN
    IF r.s.ok THEN r.s
    ELSE uvmdealloc(r.s, r.at * PGSIZE, first * PGSIZE)

\* Mutant: as uvmcopy() might be if it kept what it copied before it failed.
uvmcopy_err_keep(s, n) == s

uvmcopy_err(s, n) == uvmunmap(s, Pages(0, n), TRUE)

\* Copy sz bytes of page table old into s.pt.
uvmcopy(s, old, sz) ==
    LET end == PGROUNDUP(sz)
        r == MapRun(s, Pages(0, end), [va \in 0 .. end - 1 |-> s.mem[old.leaf[va]]]) IN
    IF r.s.ok THEN r.s ELSE uvmcopy_err(r.s, r.at)

Tables(pt) == SetToSeq({pt.tab[k] : k \in Keys} \ {0})

\* The tables, and the root last; a leaf that is left is a panic.
freewalk(s) ==
    IF \E va \in VAs : s.pt.leaf[va] # 0 THEN [s EXCEPT !.panic = "freewalk: leaf"]
    ELSE [kfree_all(s, Tables(s.pt) \o <<s.pt.root>>) EXCEPT !.pt = NoTable]

uvmfree(s, sz) == freewalk(uvmunmap(s, Pages(0, PGROUNDUP(sz)), TRUE))

proc_freepagetable(s, sz) == uvmfree(uvmunmap(s, <<TRAMPOLINE, TRAPFRAME>>, FALSE), sz)

\* A page table without user memory, or none (root = 0).
proc_pagetable(s, trapframe) ==
    LET c == uvmcreate(s)
        t == mappages(c, TRAMPOLINE, TrampolinePage)
        u == mappages(t, TRAPFRAME, trapframe) IN
    IF ~c.ok THEN c
    ELSE IF ~t.ok THEN uvmfree(t, 0)
    ELSE IF ~u.ok THEN uvmfree(uvmunmap(u, <<TRAMPOLINE>>, FALSE), 0)
    ELSE u

-----------------------------------------------------------------------------
(* Processes *)

\* A kernel page table: kalloc() of its root goes unchecked, so that memset()
\* writes to address 0; a table that is missing is a panic in kvmmap2().
vmmake(s) ==
    FoldLeft(LAMBDA t, k :
                IF t.s.panic # "" THEN t
                ELSE LET u == kalloc(t.s) IN
                     IF u.ok THEN [s |-> u, pages |-> Append(t.pages, u.page)]
                     ELSE [t EXCEPT !.s.panic = IF k = 0 THEN "kerneltrap" ELSE "kvmmap2"],
             [s |-> s, pages |-> <<>>], Pages(0, 1 + KTABLES))

\* freeproc(): of a process np of which each part may be missing.
freeproc(s, np) ==
    LET a == IF np.trapframe # 0 THEN kfree(s, np.trapframe) ELSE s
        b == IF np.pagetable.root # 0
             THEN proc_freepagetable([a EXCEPT !.pt = np.pagetable], np.sz) ELSE a
        c == IF np.kstack # 0 THEN kfree(b, np.kstack) ELSE b IN
    kfree_all(c, np.kpagetable)

\* allocproc(): memory s and the process np, or s with ok = FALSE.
allocproc(s) ==
    LET t == kalloc(s)
        v == vmmake(t)
        k == kalloc(v.s)
        np == [NoProc EXCEPT !.used = TRUE, !.trapframe = t.page,
                             !.kpagetable = v.pages, !.kstack = k.page]
        u == proc_pagetable(k, t.page) IN
    IF ~t.ok THEN [s |-> t, np |-> NoProc]
    ELSE IF v.s.panic # "" THEN [s |-> v.s, np |-> NoProc]
    ELSE IF ~k.ok THEN [s |-> [k EXCEPT !.panic = "allocproc: alloc kstack"], np |-> NoProc]
    ELSE IF ~u.ok THEN [s |-> [freeproc(u, np) EXCEPT !.ok = FALSE], np |-> NoProc]
    ELSE [s |-> u, np |-> [np EXCEPT !.pagetable = u.pt]]

\* The state after a call by p that leaves memory s and, for processes in who,
\* what new says.
Leave(op, s, new) ==
    /\ free' = s.free
    /\ mem' = s.mem
    /\ panic' = s.panic
    /\ ret' = [op |-> op, ok |-> s.ok, n |-> ret.n + 1]
    /\ proc' = new

\* kinit() and userinit()
Init ==
    \E n \in MemSizes :
        LET s == [free |-> Pages(1, n + 1), mem |-> [k \in 1 .. n |-> 1], panic |-> "",
                  pt |-> NoTable, page |-> 0, ok |-> TRUE]
            a == allocproc(s)
            u == MapNew(a.s, 0, 7) IN
        /\ u.ok /\ u.panic = ""
        /\ free = u.free /\ mem = u.mem /\ panic = ""
        /\ ret = [op |-> "userinit", ok |-> TRUE, n |-> 0]
        /\ proc = [q \in Slots |-> IF q = 1 THEN [a.np EXCEPT !.pagetable = u.pt, !.sz = PGSIZE]
                                   ELSE NoProc]
        /\ view = [q \in Slots |-> IF q = 1 THEN <<7>> ELSE <<>>]

Live(p) == panic = "" /\ proc[p].used
Calls(p) == Live(p) /\ ret.n < MaxCalls

\* A user program writes to page va.
store(p, va) ==
    /\ Live(p) /\ va < PGROUNDUP(proc[p].sz)
    /\ mem' = [mem EXCEPT ![proc[p].pagetable.leaf[va]] = 10 + p]
    /\ view' = [view EXCEPT ![p][va + 1] = 10 + p]
    /\ UNCHANGED <<free, proc, ret, panic>>

fork(p) ==
    LET unused == {q \in Slots : ~proc[q].used}
        q == CHOOSE x \in unused : \A y \in unused : x <= y IN
    /\ Calls(p)
    /\ \E a \in {allocproc(Start)} : \E u \in {uvmcopy(a.s, proc[p].pagetable, proc[p].sz)} :
          IF unused = {} \/ ~a.s.ok \/ a.s.panic # ""
          THEN /\ Leave("fork", IF unused = {} THEN [Start EXCEPT !.ok = FALSE] ELSE a.s, proc)
               /\ UNCHANGED view
          ELSE IF ~u.ok
          THEN /\ Leave("fork", freeproc(u, [a.np EXCEPT !.pagetable = u.pt]), proc)
               /\ UNCHANGED view
          ELSE /\ Leave("fork", u, [proc EXCEPT ![q] = [a.np EXCEPT !.pagetable = u.pt, !.sz = proc[p].sz]])
               /\ view' = [view EXCEPT ![q] = view[p]]

\* exit(), and freeproc() in the parent's wait(); init never exits.
reap(p) ==
    /\ Calls(p) /\ p # 1
    /\ Leave("wait", freeproc(Start, proc[p]), [proc EXCEPT ![p] = NoProc])
    /\ view' = [view EXCEPT ![p] = <<>>]

\* growproc(): a new size below zero wraps around, and leaves the old one.
NewSize(sz, n) == IF sz + n < 0 THEN sz ELSE sz + n

sbrk(p, n) ==
    LET s == [Start EXCEPT !.pt = proc[p].pagetable]
        sz == NewSize(proc[p].sz, n) IN
    /\ Calls(p) /\ sz <= MaxUser
    /\ \E u \in {IF n > 0 THEN uvmalloc(s, proc[p].sz, sz) ELSE uvmdealloc(s, proc[p].sz, sz)} :
          /\ Leave("sbrk", u, [proc EXCEPT ![p].pagetable = u.pt, ![p].sz = IF u.ok THEN sz ELSE @])
          /\ view' = [view EXCEPT ![p] = IF u.ok
                         THEN [k \in 1 .. PGROUNDUP(sz) |-> IF k <= Len(@) THEN @[k] ELSE 0] ELSE @]

-----------------------------------------------------------------------------
(* exec() *)

\* One segment after another: memory s and the size sz so far.  uvmalloc() also
\* returns 0 for a new size of 0; a size of PLIC or more is given up as it stands.
LoadSegments(s, segs) ==
    FoldLeft(LAMBDA t, seg :
                IF ~t.s.ok THEN t
                ELSE LET u == uvmalloc(t.s, t.sz, seg)
                         sz1 == IF seg < t.sz THEN t.sz ELSE seg IN
                     IF u.ok /\ sz1 # 0 /\ sz1 < PLIC THEN [s |-> u, sz |-> sz1]
                     ELSE [t EXCEPT !.s = [u EXCEPT !.ok = FALSE]],
             [s |-> s, sz |-> 0], segs)

\* The pages sys_exec() copies the arguments to; fewer if memory runs out.
ArgPages(s, n) ==
    FoldLeft(LAMBDA t, k : LET u == kalloc(t.s) IN
                 IF ~t.s.ok \/ ~u.ok THEN [t EXCEPT !.s.ok = FALSE]
                 ELSE [s |-> u, pages |-> Append(t.pages, u.page)],
             [s |-> s, pages |-> <<>>], Pages(0, n))

\* Mutant: as exec() might be if it changed to the new image too early.
Commits_early(bad) == bad \in {"", "args"}

Commits(bad) == bad = ""

\* sys_exec(), exec(): segs end where the program file says; bad says what is
\* wrong with the file or with the arguments.  The new image is built beside
\* the old one, and freed from where it has got to when something fails.
exec(p, segs, n, bad) ==
    /\ Calls(p)
    /\ \E args \in {ArgPages(Start, n)} :
       \E t \in {proc_pagetable(args.s, proc[p].trapframe)} :
       \E l \in {LoadSegments(t, segs)} :
       LET top == PGROUNDUP(l.sz) * PGSIZE IN
       \E u \in {uvmalloc(l.s, top, top + 2 * PGSIZE)} :
       LET old == proc_freepagetable([u EXCEPT !.pt = proc[p].pagetable], proc[p].sz)
           failed == IF ~args.s.ok THEN args.s
                     ELSE IF ~t.ok \/ bad = "elf" THEN IF bad = "elf" THEN args.s ELSE t
                     ELSE IF ~l.s.ok \/ bad = "segment" THEN proc_freepagetable(l.s, l.sz)
                     ELSE IF ~u.ok THEN proc_freepagetable(u, top)
                     ELSE proc_freepagetable(u, top + 2 * PGSIZE) IN
       IF args.s.ok /\ t.ok /\ l.s.ok /\ u.ok /\ Commits(bad)
       THEN /\ Leave("exec", [kfree_all(old, args.pages) EXCEPT !.ok = bad = ""],
                     [proc EXCEPT ![p].pagetable = u.pt, ![p].sz = top + 2 * PGSIZE])
            /\ view' = [view EXCEPT ![p] = [k \in 1 .. top \div PGSIZE + 2 |-> 0]]
       ELSE /\ Leave("exec", [kfree_all(failed, args.pages) EXCEPT !.ok = FALSE], proc)
            /\ UNCHANGED view

Next ==
    \E p \in Slots :
        \/ store(p, 0)
        \/ fork(p) \/ reap(p)
        \/ \E n \in Increments : sbrk(p, n)
        \/ \E segs \in Programs, n \in 0 .. MaxArgs, bad \in {"", "elf", "segment", "args"} :
              exec(p, segs, n, bad)

Spec == Init /\ [][Next]_vars

-----------------------------------------------------------------------------
(* Properties *)

\* Every variable keeps its type; a page is on the free list at most once.
TypeOK ==
    /\ IsInjective(free) /\ \A k \in DOMAIN free : free[k] \in DOMAIN mem
    /\ \A p \in Slots : proc[p].sz \in Nat /\ Len(view[p]) = PGROUNDUP(proc[p].sz)

\* The pages of process p: <<what for, page>>.
Owned(p) ==
    LET q == proc[p] IN
    ({<<<<"trapframe", 0>>, q.trapframe>>, <<<<"kstack", 0>>, q.kstack>>, <<<<"root", 0>>, q.pagetable.root>>}
     \union {<<<<"kernel", k>>, q.kpagetable[k]>> : k \in DOMAIN q.kpagetable}
     \union {<<<<"table", k>>, q.pagetable.tab[k]>> : k \in Keys}
     \union {<<<<"user", va>>, q.pagetable.leaf[va]>> : va \in VAs \ {TRAMPOLINE, TRAPFRAME}})
Uses == {<<p, o>> \in UNION {{p} \X Owned(p) : p \in Slots} : o[2] # 0}

\* Every page is free or has exactly one use: kalloc() failing anywhere inside
\* fork(), exec(), sbrk() or allocproc() neither leaks a page nor lets two
\* processes, or a process and the free list, have the same one.
PagesConserved ==
    panic = "" =>
        /\ {u[2][2] : u \in Uses} \union Range(free) = DOMAIN mem
        /\ Cardinality(Uses) + Len(free) = Cardinality(DOMAIN mem)

\* Exactly the pages below p->sz are mapped, with the trampoline and the trap
\* frame: what uvmunmap() and uvmcopy() assume when they panic otherwise.
SizeMapped ==
    panic = "" => \A p \in Slots : proc[p].used =>
        /\ {va \in VAs : proc[p].pagetable.leaf[va] # 0}
              = {va \in VAs : va < PGROUNDUP(proc[p].sz)} \union {TRAMPOLINE, TRAPFRAME}
        /\ proc[p].pagetable.leaf[TRAPFRAME] = proc[p].trapframe

\* A process finds in its memory what it wrote there, or its parent before the
\* fork(), and zeroes in what sbrk() and exec() added; never kalloc()'s junk or
\* a page of another.
MemoryIsOwn ==
    panic = "" => \A p \in Slots : proc[p].used =>
        \A va \in 0 .. PGROUNDUP(proc[p].sz) - 1 :
            mem[proc[p].pagetable.leaf[va]] = view[p][va + 1]

\* A fork(), exec() or sbrk() that fails leaves every process its memory, and,
\* but for page-table pages that sbrk() may have added, the free pages free.
FailureUndone ==
    panic' = "" /\ ret' # ret /\ ~ret'.ok =>
        /\ view' = view
        /\ ret'.op # "sbrk" => Range(free') = Range(free)

\* When memory runs out the kernel panics nowhere but in allocproc().
OnlyAllocprocPanics ==
    panic \in {"", "kerneltrap", "kvmmap2", "allocproc: alloc kstack"}

\* Memory is exact: every page has one owner or is free, the page tables map
\* what p->sz says, and each process finds its own data.
MemoryExact == TypeOK /\ PagesConserved /\ SizeMapped /\ MemoryIsOwn

RunsOutSafely == FailureUndone /\ OnlyAllocprocPanics'

\* When memory runs out at any place, fork(), exec() and sbrk() fail without a
\* trace, and nothing panics but allocproc().
OutOfMemorySafe == [][RunsOutSafely]_vars
=============================================================================
