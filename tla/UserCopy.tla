------------------------------ MODULE UserCopy ------------------------------
(***************************************************************************)
(* Copies between the kernel and user memory (walkaddr(), copyout(),       *)
(* copyin(), copyinstr() of kernel/vm.c; fetchaddr(), fetchstr() of        *)
(* kernel/syscall.c), page by page, with addresses that wrap as a uint64   *)
(* does, against what their comments promise for any address and length.   *)
(***************************************************************************)
EXTENDS Integers, Sequences

CONSTANTS PGSIZE, NPAGES,   \* MAXVA is NPAGES * PGSIZE
          UINT64,           \* addresses and lengths are below it
          WORD              \* sizeof(uint64)

VARIABLES args,             \* the function and its arguments
          pte,              \* each page: "U", "kernel" (no PTE_U) or "none"
          mem,              \* user memory
          out               \* what the call returned, and the kernel's buffer

vars == <<args, pte, mem, out>>

MAXVA == NPAGES * PGSIZE
UserAddrs == 0 .. MAXVA - 1
Numbers == 0 .. UINT64 - 1
Pending == -2               \* the call has not returned
Source == MAXVA             \* the first byte the kernel copies out; the next is one more
U64(n) == n % UINT64
PGROUNDDOWN(a) == (a \div PGSIZE) * PGSIZE
Least(a, b) == IF a < b THEN a ELSE b

\* Memory that strings are read from has zeros anywhere; sz is the size of the
\* process, whose memory is mapped up to it with a page for the kernel perhaps.
Init ==
    /\ args \in [op : {"copyout", "copyin", "fetchstr", "fetchaddr"}, va : Numbers, len : Numbers]
    /\ pte \in [0 .. NPAGES - 1 -> {"U", "kernel", "none"}]
    /\ mem \in IF args.op = "fetchstr" THEN [UserAddrs -> {0, 1}] ELSE {[a \in UserAddrs |-> a]}
    /\ args.op = "fetchstr" => \A p \in DOMAIN pte : pte[p] # "kernel"
    /\ args.op = "fetchaddr" => args.len <= MAXVA /\ \A p \in DOMAIN pte : (pte[p] # "none") <=> (p * PGSIZE < args.len)
    /\ out = [ret |-> Pending, buf |-> <<>>]

\* Mutant: as walkaddr() might be if it looked up any address.
walkaddr_any(va) == pte[(va \div PGSIZE) % NPAGES] = "U"

\* Whether there is a user page at va; walk() then goes by the low bits of va.
walkaddr(va) == va < MAXVA /\ pte[va \div PGSIZE] = "U"

\* How much of the page of va is left, and where the next one begins.
InPage(va, len) == Least(PGSIZE - (va - PGROUNDDOWN(va)), len)
Byte(va) == mem[va % MAXVA]
NextPage(va) == U64(PGROUNDDOWN(va) + PGSIZE)

RECURSIVE copyout(_, _, _, _)
copyout(m, va, src, len) ==
    IF len = 0 THEN [ret |-> 0, mem |-> m]
    ELSE IF ~walkaddr(PGROUNDDOWN(va)) THEN [ret |-> -1, mem |-> m]
    ELSE LET n == InPage(va, len) IN
         copyout([a \in UserAddrs |-> IF a \in va .. va + n - 1 THEN src + (a - va) ELSE m[a]], NextPage(va), src + n, len - n)

RECURSIVE copyin(_, _, _)
copyin(dst, va, len) ==
    IF len = 0 THEN [ret |-> 0, buf |-> dst]
    ELSE IF ~walkaddr(PGROUNDDOWN(va)) THEN [ret |-> -1, buf |-> dst]
    ELSE LET n == InPage(va, len) IN
         copyin(dst \o [k \in 1 .. n |-> Byte(va + k - 1)], NextPage(va), len - n)

\* Mutant: as copyinstr() might be if it took a full buffer for a string.
AtMax_ok(dst) == [ret |-> 0, buf |-> dst]

\* max bytes without a zero.
AtMax(dst) == [ret |-> -1, buf |-> dst]

\* The bytes before the first zero among the n at va.
UpToNull(va, n) ==
    LET k == CHOOSE k \in 0 .. n : (k = n \/ Byte(va + k) = 0) /\ \A j \in 0 .. k - 1 : Byte(va + j) # 0
    IN  [j \in 1 .. k |-> Byte(va + j - 1)]

RECURSIVE copyinstr(_, _, _)
copyinstr(dst, va, max) ==
    IF max = 0 THEN AtMax(dst)
    ELSE IF ~walkaddr(PGROUNDDOWN(va)) THEN [ret |-> -1, buf |-> dst]
    ELSE LET n == InPage(va, max)
             s == UpToNull(va, n) IN
         IF Len(s) < n THEN [ret |-> 0, buf |-> Append(dst \o s, 0)]
         ELSE copyinstr(dst \o s, NextPage(va), max - n)

\* Mutant: as fetchaddr() might be with the first test alone.
InSize_start(addr, sz) == addr < sz

\* "both tests needed, in case of overflow".
InSize(addr, sz) == ~(addr >= sz \/ U64(addr + WORD) > sz)

fetchaddr(addr, sz) == IF InSize(addr, sz) THEN copyin(<<>>, addr, WORD) ELSE [ret |-> -1, buf |-> <<>>]

\* The bytes before the first zero.
strlen(s) == CHOOSE k \in 0 .. Len(s) : (k = Len(s) \/ s[k + 1] = 0) /\ \A j \in 1 .. k : s[j] # 0

\* argstr() calls it with the address and the size of the kernel's buffer.
fetchstr(addr, max) ==
    LET r == copyinstr(<<>>, addr, max) IN IF r.ret < 0 THEN r ELSE [r EXCEPT !.ret = strlen(r.buf)]

Return(r) == out' = [ret |-> r.ret, buf |-> IF r.ret >= 0 THEN r.buf ELSE <<>>] /\ UNCHANGED mem

Next ==
    /\ out.ret = Pending
    /\ \/ /\ args.op = "copyout"
          /\ LET r == copyout(mem, args.va, Source, args.len) IN mem' = r.mem /\ out' = [out EXCEPT !.ret = r.ret]
       \/ args.op = "copyin" /\ Return(copyin(<<>>, args.va, args.len))
       \/ args.op = "fetchstr" /\ Return(fetchstr(args.va, args.len))
       \/ args.op = "fetchaddr" /\ Return(fetchaddr(args.va, args.len))
    /\ UNCHANGED <<args, pte>>

Spec == Init /\ [][Next]_vars

-----------------------------------------------------------------------------
(* Properties *)

\* The bytes from va on, as far as they are user memory: what a copy may touch.
Reach(va, len) == {a \in va .. va + len - 1 : \A b \in va .. a : b < MAXVA /\ pte[b \div PGSIZE] = "U"}
AllUser(va, len) == Reach(va, len) = va .. va + len - 1

\* copyout() succeeds exactly when all len bytes from va on are user memory, and
\* changes these and no others; when it fails it has changed at most the ones
\* before the first that is not, never a page without PTE_U.
CopyoutExact ==
    out.ret # Pending /\ args.op = "copyout" =>
        /\ (out.ret = 0) <=> AllUser(args.va, args.len)
        /\ \A a \in UserAddrs : mem[a] = IF a \in Reach(args.va, args.len) THEN Source + (a - args.va) ELSE a

\* copyin(), which fetchaddr() uses too, succeeds exactly when all bytes are
\* user memory (and below the size of the process), and returns these bytes.
CopyinExact ==
    LET n == IF args.op = "fetchaddr" THEN WORD ELSE args.len IN
    out.ret # Pending /\ args.op \in {"copyin", "fetchaddr"} =>
        /\ (out.ret = 0) <=> (AllUser(args.va, n) /\ (args.op = "fetchaddr" => args.va + WORD <= args.len))
        /\ out.ret = 0 => out.buf = [k \in 1 .. n |-> mem[args.va + k - 1]]

\* fetchstr() gets the string at va from copyinstr(), with its zero, and returns
\* its length, exactly when the zero is among the first max bytes and nothing
\* before it is outside user memory.
CopyinstrExact ==
    LET Nulls == {a \in Reach(args.va, args.len) : mem[a] = 0}
        end == CHOOSE a \in Nulls : \A b \in Nulls : a <= b IN
    out.ret # Pending /\ args.op = "fetchstr" =>
        /\ (out.ret >= 0) <=> (Nulls # {})
        /\ out.ret >= 0 => /\ out.ret = end - args.va
                           /\ out.buf = [k \in 1 .. end - args.va + 1 |-> mem[args.va + k - 1]]

\* Copies between kernel and user memory are all or an error, and never touch a
\* byte that is not the user's: copyout(), copyin(), fetchaddr(), fetchstr().
CopiesExact == CopyoutExact /\ CopyinExact /\ CopyinstrExact
=============================================================================
