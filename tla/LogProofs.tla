----------------------------- MODULE LogProofs -----------------------------
(***************************************************************************)
(* Proofs about Log for any number of processes, blocks and log slots.     *)
(*                                                                         *)
(* LogInv is inductive.  Its parts say who may be where (ControlInv), what *)
(* the log header holds (HeaderInv), and how the buffer cache, the log     *)
(* slots and the home blocks agree at each point of commit() and of        *)
(* recover_from_log() (DataInv).                                           *)
(***************************************************************************)
EXTENDS Log, FiniteSetTheorems, TLAPS

\* log.outstanding counts the calls in progress, a commit is made by one
\* process with no call in progress, and nothing runs before recovery ends.
ControlInv ==
    /\ outstanding = Cardinality(Counted)
    /\ committing = 1 <=> InCommit # {}
    /\ \A p, q \in InCommit : p = q
    /\ committing = 1 => Counted = {}
    /\ (\E p \in Procs : pc[p] = "asleep") => Counted # {} \/ InCommit # {}
    /\ boot # "done" => \A p \in Procs : pc[p] = "idle"

NoDup(s) == \A i, j \in 1 .. Len(s) : s[i] = s[j] => i = j

\* No block is logged twice (absorption), the disk header is empty except
\* while a committed transaction is being installed, and bpin()/bunpin()
\* balance: exactly the logged blocks still to install are pinned.
HeaderInv ==
    /\ NoDup(lh)
    /\ NoDup(hd)
    /\ boot = "read_head" => lh = <<>>
    /\ boot = "install" => lh = hd
    /\ boot # "done" => \A b \in Blocks : pins[b] = 0
    /\ \A p \in Procs : pc[p] = "finish" => lh = <<>>
    /\ boot = "done" /\ Counted = {} /\ InCommit = {} => lh = <<>>
    /\ (\E p \in Procs : pc[p] = "install") => hd = lh
    /\ boot = "done" /\ (\A p \in Procs : pc[p] # "install") => hd = <<>>
    /\ boot = "done" =>
          \A b \in Blocks : pins[b] > 0 => \E i \in 1 .. Len(lh) : lh[i] = b
    /\ boot = "done" =>
          \A i \in 1 .. Len(lh) :
             IF \E p \in Procs : pc[p] = "install" /\ i < tail[p]
             THEN pins[lh[i]] = 0
             ELSE pins[lh[i]] = 1

\* A buffer that may be recycled equals its home block, a pinned one is in
\* the cache; log slots and home blocks are up to date as far as the loops
\* of write_log() and install_trans() have come.
DataInv ==
    /\ \A b \in Blocks : pins[b] = 0 /\ cache[b] # NoBuf => cache[b] = home[b]
    /\ \A b \in Blocks : pins[b] > 0 => cache[b] # NoBuf
    /\ \A p \in Procs : pc[p] = "write_log" =>
          \A i \in 1 .. Len(lh) : i < tail[p] => logd[i] = cache[lh[i]]
    /\ \A p \in Procs : pc[p] = "install" =>
          \A i \in 1 .. Len(lh) :
             /\ logd[i] = BufRead(lh[i])
             /\ i < tail[p] => logd[i] = home[lh[i]]
    /\ boot = "install" =>
          \A i \in 1 .. Len(lh) : i < btail => logd[i] = home[lh[i]]

LogInv == TypeOK /\ ControlInv /\ HeaderInv /\ DataInv

-----------------------------------------------------------------------------
(* Type correctness *)

\* A machine that has just been powered on, whatever its disk holds.
LEMMA EmptyHeader == <<>> \in Seq(Blocks) /\ Len(<<>>) = 0 /\ Len(<<>>) <= nlog - 1
BY ConstAssumption

\* The first state is well typed: the log that mkfs wrote has an empty header.
LEMMA TypeInit == Init => TypeOK
<1> SUFFICES ASSUME Init PROVE TypeOK
    OBVIOUS
<1>1. pc \in [Procs -> Pcs] /\ tail \in [Procs -> Nat \ {0}]
    BY DEF Init, Pcs
<1>2. wrote \in [Procs -> SUBSET Blocks]
    BY Zenon DEF Init
<1>3. cache \in [Blocks -> Vals \union {NoBuf}] /\ pins \in [Blocks -> Nat]
    BY DEF Init
<1>4. home \in [Blocks -> Vals] /\ logd \in [Slots -> Vals]
    BY ConstAssumption DEF Init
<1>5. QED
    BY <1>1, <1>2, <1>3, <1>4, EmptyHeader DEF Init, TypeOK

\* The calls that log.outstanding counts are finitely many.
LEMMA CountedFinite == IsFiniteSet(Counted)
BY ProcsFinite, FS_Subset DEF Counted

\* Every step of log.c keeps the types; end_op() finds outstanding > 0, and
\* log_write() extends the header only within its bound.
LEMMA TypeNext == LogInv /\ [Next]_vars => TypeOK'
<1> SUFFICES ASSUME LogInv, [Next]_vars PROVE TypeOK'
    OBVIOUS
<1> USE ConstAssumption DEF LogInv, TypeOK, Pcs, CommitPcs, Slots, memvars, diskvars,
                            procvars, bootvars, BufRead
<1>1. ASSUME NEW p \in Procs, begin_op(p) PROVE TypeOK'
    BY <1>1 DEF begin_op
<1>2. ASSUME NEW p \in Procs, begin_op_sleep(p) PROVE TypeOK'
    BY <1>2 DEF begin_op_sleep
<1>3. ASSUME NEW p \in Procs, end_op(p) PROVE TypeOK'
  <2>1. p \in Counted
    BY <1>3 DEF end_op, Counted
  <2>2. outstanding # 0
    BY <2>1, CountedFinite, FS_EmptySet DEF ControlInv
  <2>3. pc' \in [Procs -> Pcs]
    BY <1>3, Zenon DEF end_op, WakeAll
  <2>4. wrote' \in [Procs -> SUBSET Blocks]
    BY <1>3 DEF end_op
  <2>5. outstanding' \in Nat /\ committing' \in {0, 1}
    BY <1>3, <2>2 DEF end_op
  <2>6. QED
    BY <1>3, <2>3, <2>4, <2>5 DEF end_op
<1>4. ASSUME NEW p \in Procs, NEW b \in Blocks, log_write_panic(p, b) PROVE TypeOK'
    BY <1>4 DEF log_write_panic
<1>5. ASSUME NEW p \in Procs, NEW b \in Blocks, NEW v \in Vals, log_write(p, b, v)
      PROVE TypeOK'
  <2>1. lh' \in Seq(Blocks) /\ Len(lh') <= nlog - 1
    <3>1. CASE lh' = lh
        BY <3>1
    <3>2. CASE lh' = Append(lh, b)
      <4>1. ~(Len(lh) >= nlog - 1)
        BY <1>5 DEF log_write, LogWriteOK
      <4>2. QED
        BY <3>2, <4>1
    <3>3. QED
        BY <1>5, <3>1, <3>2 DEF log_write
  <2>2. pins' \in [Blocks -> Nat] /\ cache' \in [Blocks -> Vals \union {NoBuf}]
    BY <1>5 DEF log_write
  <2>3. wrote' \in [Procs -> SUBSET Blocks]
    BY <1>5 DEF log_write
  <2>4. QED
    BY <1>5, <2>1, <2>2, <2>3 DEF log_write
<1>6. ASSUME NEW p \in Procs, commit(p) PROVE TypeOK'
    BY <1>6 DEF commit
<1>7. ASSUME NEW p \in Procs, write_log(p) PROVE TypeOK'
    BY <1>7 DEF write_log
<1>8. ASSUME NEW p \in Procs, write_head(p) PROVE TypeOK'
    BY <1>8 DEF write_head
<1>9. ASSUME NEW p \in Procs, install_trans(p) PROVE TypeOK'
  <2> DEFINE b == lh[tail[p]]
  <2>1. b \in Blocks /\ pins[b] \in Nat /\ logd[tail[p]] \in Vals
    BY <1>9 DEF install_trans
  <2>2. boot = "done"
    BY <1>9 DEF install_trans, ControlInv
  <2>3. pins[b] = 1
    <3>1. ASSUME NEW q \in Procs, pc[q] = "install" PROVE q = p
        BY <1>9, <3>1 DEF install_trans, ControlInv, InCommit
    <3>2. ~ \E q \in Procs : pc[q] = "install" /\ tail[p] < tail[q]
        BY <3>1
    <3>3. tail[p] \in 1 .. Len(lh)
        BY <1>9 DEF install_trans
    <3>4. QED
        BY <2>2, <3>2, <3>3 DEF HeaderInv
  <2>4. pins' \in [Blocks -> Nat]
    BY <1>9, <2>1, <2>3 DEF install_trans
  <2>5. home' \in [Blocks -> Vals] /\ cache' \in [Blocks -> Vals \union {NoBuf}]
    BY <1>9, <2>1 DEF install_trans
  <2>6. tail' \in [Procs -> Nat \ {0}]
    BY <1>9 DEF install_trans
  <2>7. QED
    BY <1>9, <2>4, <2>5, <2>6 DEF install_trans
<1>10. ASSUME NEW p \in Procs, clear_head(p) PROVE TypeOK'
    BY <1>10 DEF clear_head
<1>11. ASSUME NEW p \in Procs, end_commit(p) PROVE TypeOK'
    BY <1>11 DEF end_commit, WakeAll
<1>12. ASSUME NEW b \in Blocks, Recycle(b) PROVE TypeOK'
    BY <1>12 DEF Recycle
<1>13. CASE read_head
    BY <1>13 DEF read_head
<1>14. CASE recover_install
    BY <1>14 DEF recover_install
<1>15. CASE recover_clear_head
    BY <1>15 DEF recover_clear_head
<1>16. CASE Crash
  <2>1. pc' \in [Procs -> Pcs] /\ tail' \in [Procs -> Nat \ {0}]
    BY <1>16 DEF Crash
  <2>2. wrote' \in [Procs -> SUBSET Blocks]
    BY <1>16, Zenon DEF Crash
  <2>3. cache' \in [Blocks -> Vals \union {NoBuf}] /\ pins' \in [Blocks -> Nat]
    BY <1>16 DEF Crash
  <2>4. QED
    BY <1>16, <2>1, <2>2, <2>3, EmptyHeader DEF Crash
<1>17. CASE UNCHANGED vars
    BY <1>17 DEF vars
<1>18. QED
    BY <1>1, <1>2, <1>3, <1>4, <1>5, <1>6, <1>7, <1>8, <1>9, <1>10, <1>11,
       <1>12, <1>13, <1>14, <1>15, <1>16, <1>17, Zenon DEF Next, ProcStep, Recover

-----------------------------------------------------------------------------
(* Who is where *)

\* Steps that move no process in or out of a call or a commit.
LEMMA ControlStutter ==
    ASSUME ControlInv, Counted' = Counted, InCommit' = InCommit,
           outstanding' = outstanding, committing' = committing,
           \A p \in Procs : pc'[p] = "asleep" => pc[p] = "asleep" \/ committing = 1
                                                  \/ outstanding # 0,
           boot' # "done" => \A p \in Procs : pc'[p] = "idle"
    PROVE  ControlInv'
<1>1. (\E p \in Procs : pc'[p] = "asleep") => Counted # {} \/ InCommit # {}
    BY FS_EmptySet DEF ControlInv
<1>2. QED
    BY <1>1 DEF ControlInv

\* Every step keeps the count of calls exact and a committer alone.
LEMMA ControlNext == LogInv /\ [Next]_vars => ControlInv'
<1> SUFFICES ASSUME LogInv, [Next]_vars PROVE ControlInv'
    OBVIOUS
<1> USE DEF LogInv, TypeOK, memvars, diskvars, procvars, bootvars
<1>1. ASSUME NEW p \in Procs, begin_op(p) PROVE ControlInv'
  <2>1. Counted' = Counted \union {p} /\ p \notin Counted
    BY <1>1 DEF begin_op, Counted
  <2>2. InCommit' = InCommit /\ InCommit = {}
    BY <1>1 DEF begin_op, MayBegin, InCommit, CommitPcs, ControlInv
  <2>3. outstanding' = Cardinality(Counted')
    BY <1>1, <2>1, CountedFinite, FS_AddElement, Zenon DEF begin_op, ControlInv
  <2>4. QED
    BY <1>1, <2>1, <2>2, <2>3 DEF begin_op, MayBegin, ControlInv
<1>2. ASSUME NEW p \in Procs, begin_op_sleep(p) PROVE ControlInv'
  <2>1. Counted' = Counted /\ InCommit' = InCommit
    BY <1>2 DEF begin_op_sleep, Counted, InCommit, CommitPcs
  \* With the log idle the header is empty and a first call fits.
  <2>2. committing = 1 \/ outstanding # 0
    <3> SUFFICES ASSUME committing = 0, outstanding = 0 PROVE FALSE
        OBVIOUS
    <3>a. Counted = {}
        BY CountedFinite, FS_EmptySet, Zenon DEF ControlInv
    <3>b. InCommit = {}
        BY DEF ControlInv
    <3>1. Counted = {} /\ InCommit = {}
        BY <3>a, <3>b
    <3>2. Len(lh) = 0
        BY <1>2, <3>1 DEF begin_op_sleep, HeaderInv
    <3>3. (outstanding + 1) * MAXOPBLOCKS = MAXOPBLOCKS
        BY ConstAssumption
    <3>4. QED
        BY <1>2, <3>2, <3>3, ConstAssumption DEF begin_op_sleep, MayBegin
  <2>3. QED
    BY <1>2, <2>1, <2>2, ControlStutter DEF begin_op_sleep
<1>3. ASSUME NEW p \in Procs, end_op(p) PROVE ControlInv'
  <2>1. p \in Counted /\ Counted' = Counted \ {p}
    BY <1>3 DEF end_op, Counted, WakeAll
  <2>2. outstanding' = Cardinality(Counted') /\ IsFiniteSet(Counted')
    BY <1>3, <2>1, CountedFinite, FS_RemoveElement DEF end_op, ControlInv
  <2>3. InCommit = {}
    BY <1>3 DEF end_op, ControlInv
  <2>4. CASE outstanding' = 0
    <3>1. Counted' = {}
        BY <2>2, <2>4, FS_EmptySet, Zenon
    <3>2. InCommit' = {p} /\ committing' = 1
        BY <1>3, <2>3, <2>4 DEF end_op, InCommit, CommitPcs
    <3>3. QED
        BY <1>3, <2>2, <3>1, <3>2 DEF end_op, ControlInv
  <2>5. CASE outstanding' # 0
    <3>1. Counted' # {}
        BY <2>2, <2>5, FS_EmptySet
    <3>2. InCommit' = {} /\ committing' = 0
        BY <1>3, <2>3, <2>5, Zenon DEF end_op, InCommit, CommitPcs, WakeAll
    <3>3. boot' = "done"
        BY <1>3 DEF end_op, ControlInv
    <3>4. QED
        BY <2>2, <3>1, <3>2, <3>3 DEF ControlInv
  <2>6. QED
    BY <2>4, <2>5
<1>4. ASSUME NEW p \in Procs, NEW b \in Blocks, log_write_panic(p, b)
      PROVE ControlInv'
  <2>1. Counted' = Counted /\ InCommit' = InCommit
    BY <1>4 DEF log_write_panic, Counted, InCommit, CommitPcs
  <2>2. boot' = "done"
    BY <1>4 DEF log_write_panic, ControlInv
  <2>3. QED
    BY <1>4, <2>1, <2>2, ControlStutter DEF log_write_panic
<1>5. ASSUME NEW p \in Procs, commit(p) \/ write_head(p) \/ clear_head(p)
      PROVE ControlInv'
  <2>1. Counted' = Counted /\ InCommit' = InCommit
    BY <1>5 DEF commit, write_head, clear_head, Counted, InCommit, CommitPcs
  <2>2. boot' = "done"
    BY <1>5 DEF commit, write_head, clear_head, ControlInv
  <2>3. outstanding' = outstanding /\ committing' = committing
    BY <1>5 DEF commit, write_head, clear_head
  <2>4. \A q \in Procs : pc'[q] = "asleep" => pc[q] = "asleep"
    BY <1>5 DEF commit, write_head, clear_head
  <2>5. QED
    BY <2>1, <2>2, <2>3, <2>4, ControlStutter
<1>6. ASSUME NEW p \in Procs, end_commit(p) PROVE ControlInv'
  <2>1. p \in InCommit
    BY <1>6 DEF end_commit, InCommit
  <2>2. Counted' = Counted /\ Counted = {}
    BY <1>6, <2>1 DEF end_commit, Counted, WakeAll, ControlInv
  <2>3. InCommit' = {}
    BY <1>6, <2>1 DEF end_commit, InCommit, WakeAll, CommitPcs, ControlInv
  <2>4. \A q \in Procs : pc'[q] # "asleep"
    BY <1>6 DEF end_commit, WakeAll
  <2>5. boot' = "done"
    BY <1>6 DEF end_commit, ControlInv
  <2>6. outstanding' = Cardinality(Counted') /\ committing' = 0
    BY <1>6, <2>2 DEF end_commit, ControlInv
  <2>7. ~ \E q \in Procs : pc'[q] = "asleep"
    BY <2>4
  <2>8. committing' # 1
    BY <2>6
  <2>9. QED
    BY <2>3, <2>5, <2>6, <2>7, <2>8 DEF ControlInv
<1>7. CASE Crash
  <2>1. Counted' = {} /\ InCommit' = {}
    BY <1>7 DEF Crash, Counted, InCommit, CommitPcs
  <2>2. QED
    BY <1>7, <2>1, FS_EmptySet DEF Crash, ControlInv
<1>8. ASSUME UNCHANGED <<pc, outstanding, committing>>,
             boot' = boot \/ boot' = "done" \/ boot # "done"
      PROVE ControlInv'
    BY <1>8, ControlStutter DEF Counted, InCommit, ControlInv
<1>9. ASSUME NEW p \in Procs,
             \/ \E b \in Blocks, v \in Vals : log_write(p, b, v)
             \/ write_log(p) \/ install_trans(p)
      PROVE ControlInv'
    BY <1>8, <1>9 DEF log_write, write_log, install_trans
<1>10. ASSUME NEW b \in Blocks, Recycle(b) PROVE ControlInv'
    BY <1>8, <1>10 DEF Recycle
<1>11. CASE Recover
    BY <1>8, <1>11 DEF Recover, read_head, recover_install, recover_clear_head
<1>12. CASE UNCHANGED vars
    BY <1>8, <1>12 DEF vars
<1>13. QED
    BY <1>1, <1>2, <1>3, <1>4, <1>5, <1>6, <1>7, <1>9, <1>10, <1>11, <1>12
    DEF Next, ProcStep

-----------------------------------------------------------------------------
(* The header and the pins *)

\* Steps that touch neither the header nor the pins, nor any install_trans().
LEMMA HeaderStutter ==
    ASSUME HeaderInv, UNCHANGED <<lh, hd, pins, boot>>,
           \A p \in Procs : pc'[p] = "install" <=> pc[p] = "install",
           \A p \in Procs : pc[p] = "install" => tail'[p] = tail[p],
           \A p \in Procs : pc'[p] = "finish" => lh = <<>>,
           boot = "done" /\ Counted' = {} /\ InCommit' = {} => lh = <<>>
    PROVE  HeaderInv'
<1>1. NoDup(lh)' /\ NoDup(hd)'
    BY DEF HeaderInv, NoDup
<1>2. \A i : (\E p \in Procs : pc'[p] = "install" /\ i < tail'[p])
              <=> (\E p \in Procs : pc[p] = "install" /\ i < tail[p])
    OBVIOUS
<1>3. QED
    BY <1>1, <1>2 DEF HeaderInv

\* An index of a sequence that has grown by one is old or the new one.
LEMMA OldOrNew == ASSUME NEW m \in Nat, NEW k \in 1 .. m + 1
                  PROVE  k \in 1 .. m \/ k = m + 1
OBVIOUS

\* There is one process at most in install_trans().
LEMMA OneInstaller ==
    ASSUME ControlInv, NEW p \in Procs, pc[p] = "install"
    PROVE  /\ \A q \in Procs : pc[q] = "install" => q = p
           /\ boot = "done" /\ Counted = {} /\ InCommit # {} /\ committing = 1
BY DEF ControlInv, InCommit, CommitPcs

\* Every step keeps header and pins in step: log_write() pins what it adds,
\* install_trans() unpins what it installs, a crash forgets both.
LEMMA HeaderNext == LogInv /\ [Next]_vars => HeaderInv'
<1> SUFFICES ASSUME LogInv, [Next]_vars PROVE HeaderInv'
    OBVIOUS
<1> USE DEF LogInv, TypeOK, memvars, diskvars, procvars, bootvars
<1>1. ASSUME NEW p \in Procs,
             \/ begin_op(p)
             \/ end_op(p)
             \/ \E b \in Blocks : log_write_panic(p, b)
      PROVE HeaderInv'
  <2>1. pc'[p] \notin {"install", "finish"} /\ pc[p] \notin {"install", "finish"}
    BY <1>1 DEF begin_op, end_op, log_write_panic, WakeAll
  <2>2. \A q \in Procs \ {p} : pc'[q] = pc[q] \/ (pc'[q] = "woken" /\ pc[q] = "asleep")
    <3>1. CASE end_op(p)
        BY <3>1 DEF end_op, WakeAll
    <3>2. CASE begin_op(p)
        BY <3>2 DEF begin_op
    <3>3. CASE \E b \in Blocks : log_write_panic(p, b)
        BY <3>3 DEF log_write_panic
    <3>4. QED
        BY <1>1, <3>1, <3>2, <3>3
  <2>3. UNCHANGED <<lh, hd, pins, boot, tail>>
    BY <1>1 DEF begin_op, end_op, log_write_panic
  <2>4. Counted' # {} \/ InCommit' # {}
    <3>1. CASE end_op(p)
        <4>1. ControlInv'
            BY ControlNext
        <4>2. committing' = 1 \/ outstanding' # 0
            BY <3>1 DEF end_op
        <4>3. QED
            BY <4>1, <4>2, FS_EmptySet, Zenon DEF ControlInv
    <3>2. CASE ~end_op(p)
        BY <1>1, <3>2 DEF begin_op, log_write_panic, Counted
    <3>3. QED
        BY <3>1, <3>2
  <2>5. \A q \in Procs : pc'[q] = "finish" => lh = <<>>
    BY <2>1, <2>2 DEF HeaderInv
  <2>6. QED
    BY <2>1, <2>2, <2>3, <2>4, <2>5, HeaderStutter
<1>2. ASSUME NEW p \in Procs, begin_op_sleep(p) PROVE HeaderInv'
  <2>1. Counted' = Counted /\ InCommit' = InCommit
    BY <1>2 DEF begin_op_sleep, Counted, InCommit, CommitPcs
  <2>2. \A q \in Procs : pc'[q] = "finish" => lh = <<>>
    BY <1>2 DEF begin_op_sleep, HeaderInv
  <2>3. \A q \in Procs : pc'[q] = "install" <=> pc[q] = "install"
    BY <1>2 DEF begin_op_sleep
  <2>4. boot = "done" /\ Counted' = {} /\ InCommit' = {} => lh = <<>>
    BY <2>1 DEF HeaderInv
  <2>5. QED
    BY <1>2, <2>2, <2>3, <2>4, HeaderStutter DEF begin_op_sleep
<1>3. ASSUME NEW p \in Procs, commit(p) PROVE HeaderInv'
  <2>1. p \in InCommit'
    BY <1>3 DEF commit, InCommit, CommitPcs
  <2>2. \A q \in Procs : pc'[q] = "finish" => lh = <<>>
    BY <1>3 DEF commit, HeaderInv
  <2>3. \A q \in Procs : pc'[q] = "install" <=> pc[q] = "install"
    BY <1>3 DEF commit
  <2>4. \A q \in Procs : pc[q] = "install" => tail'[q] = tail[q]
    BY <1>3 DEF commit
  <2>5. QED
    BY <1>3, <2>1, <2>2, <2>3, <2>4, HeaderStutter DEF commit
<1>4. ASSUME NEW p \in Procs, end_commit(p) PROVE HeaderInv'
  <2>1. lh = <<>>
    BY <1>4 DEF end_commit, HeaderInv
  <2>2. \A q \in Procs : pc'[q] = "install" <=> pc[q] = "install"
    BY <1>4 DEF end_commit, WakeAll
  <2>3. QED
    BY <1>4, <2>1, <2>2, HeaderStutter, Zenon DEF end_commit
<1>5. ASSUME NEW p \in Procs, write_log(p) PROVE HeaderInv'
  <2>1. pc[p] # "install" /\ UNCHANGED <<lh, hd, pins, boot, pc>>
    BY <1>5 DEF write_log
  <2>2. \A q \in Procs : pc[q] = "install" => tail'[q] = tail[q]
    BY <1>5 DEF write_log
  <2>3. Counted' = Counted /\ InCommit' = InCommit
    BY <2>1 DEF Counted, InCommit
  <2>4. (\A q \in Procs : pc[q] = "finish" => lh = <<>>)
        /\ (boot = "done" /\ Counted = {} /\ InCommit = {} => lh = <<>>)
    BY DEF HeaderInv
  <2>5. QED
    BY <2>1, <2>2, <2>3, <2>4, HeaderStutter
<1>6. ASSUME NEW p \in Procs, NEW b \in Blocks, NEW v \in Vals, log_write(p, b, v)
      PROVE HeaderInv'
  <2>1. boot = "done" /\ p \in Counted /\ Counted' = Counted
    BY <1>6 DEF log_write, ControlInv, Counted
  <2>2. \A q \in Procs : pc[q] \notin {"install", "finish"}
    BY <2>1 DEF ControlInv, InCommit, CommitPcs
  <2>3. CASE b \in ElemsOf(lh)
    <3>1. UNCHANGED <<lh, hd, pins, boot, pc, tail>>
        BY <1>6, <2>3 DEF log_write
    <3>2. QED
        BY <2>1, <2>2, <3>1, HeaderStutter
  <2>4. CASE b \notin ElemsOf(lh)
    <3>1. lh' = Append(lh, b) /\ pins' = [pins EXCEPT ![b] = @ + 1]
        BY <1>6, <2>4 DEF log_write
    <3>2. UNCHANGED <<hd, boot, pc, tail>>
        BY <1>6 DEF log_write
    <3>3. \A i \in 1 .. Len(lh) : lh[i] # b
        BY <2>4 DEF ElemsOf
    <3>4. Len(lh') = Len(lh) + 1 /\ lh'[Len(lh) + 1] = b
        BY <3>1
    <3>5. \A i \in 1 .. Len(lh) : lh'[i] = lh[i]
        BY <3>1
    <3>6. NoDup(lh)'
        <4>0. Len(lh) \in Nat /\ NoDup(lh)
            BY DEF HeaderInv
        <4> HIDE DEF LogInv, TypeOK
        <4> SUFFICES ASSUME NEW i \in 1 .. Len(lh'), NEW j \in 1 .. Len(lh'),
                            lh'[i] = lh'[j]
                     PROVE  i = j
            BY DEF NoDup
        <4>1. CASE i \in 1 .. Len(lh) /\ j \in 1 .. Len(lh)
            BY <4>0, <3>5, <4>1, Zenon DEF NoDup
        <4>2. CASE i = Len(lh) + 1 /\ j \in 1 .. Len(lh)
            BY <3>3, <3>4, <3>5, <4>2, Zenon
        <4>3. CASE j = Len(lh) + 1 /\ i \in 1 .. Len(lh)
            BY <3>3, <3>4, <3>5, <4>3, Zenon
        <4>4. i \in 1 .. Len(lh) \/ i = Len(lh) + 1
            BY <3>4, <4>0, OldOrNew, Zenon
        <4>5. j \in 1 .. Len(lh) \/ j = Len(lh) + 1
            BY <3>4, <4>0, OldOrNew, Zenon
        <4>6. QED
            BY <4>1, <4>2, <4>3, <4>4, <4>5
    <3>7. pins[b] = 0
        <4>1. ~ pins[b] > 0
            BY <2>1, <3>3, Zenon DEF HeaderInv
        <4>2. pins[b] \in Nat
            OBVIOUS
        <4>3. QED
            BY <4>1, <4>2
    <3>8. \A i \in 1 .. Len(lh') : pins'[lh'[i]] = 1
        <4> SUFFICES ASSUME NEW i \in 1 .. Len(lh') PROVE pins'[lh'[i]] = 1
            BY Zenon
        <4>1. CASE i = Len(lh) + 1
            BY <3>1, <3>4, <3>7, <4>1
        <4>2. CASE i \in 1 .. Len(lh)
            <5>1. pins[lh[i]] = 1
                BY <2>1, <2>2, <4>2 DEF HeaderInv
            <5>2. QED
                BY <3>1, <3>3, <3>5, <4>2, <5>1
        <4>3. QED
            BY <3>4, <4>1, <4>2
    <3>9. \A c \in Blocks : pins'[c] > 0 => \E i \in 1 .. Len(lh') : lh'[i] = c
        <4> SUFFICES ASSUME NEW c \in Blocks, pins'[c] > 0
                     PROVE  \E i \in 1 .. Len(lh') : lh'[i] = c
            OBVIOUS
        <4>1. CASE c = b
            <5>1. Len(lh) + 1 \in 1 .. Len(lh') /\ lh'[Len(lh) + 1] = b
                BY <3>3, <3>4
            <5>2. QED
                BY <4>1, <5>1, Zenon
        <4>2. CASE c # b
            <5>1. PICK i \in 1 .. Len(lh) : lh[i] = c
                BY <2>1, <3>1, <4>2 DEF HeaderInv
            <5>2. i \in 1 .. Len(lh') /\ lh'[i] = c
                BY <3>4, <3>5, <5>1, SMTT(30)
            <5>3. QED
                BY <5>2
        <4>3. QED
            BY <4>1, <4>2
    <3>10. hd' = <<>> /\ NoDup(hd)'
        BY <2>1, <2>2, <3>2 DEF HeaderInv, NoDup
    <3>11. QED
        BY <2>1, <2>2, <3>2, <3>6, <3>8, <3>9, <3>10 DEF HeaderInv
  <2>5. QED
    BY <2>3, <2>4
<1>7. ASSUME NEW p \in Procs, write_head(p) PROVE HeaderInv'
  <2>1. p \in InCommit /\ p \in InCommit' /\ boot = "done"
    BY <1>7 DEF write_head, InCommit, CommitPcs, ControlInv
  <2>2. \A q \in Procs : pc[q] \notin {"install", "finish"}
    BY <1>7, <2>1 DEF write_head, ControlInv, InCommit, CommitPcs
  <2>3. \A q \in Procs : pc'[q] = "install" <=> q = p
    BY <1>7, <2>2 DEF write_head
  <2>4. tail'[p] = 1 /\ hd' = lh /\ lh' = lh /\ pins' = pins /\ boot' = boot
    BY <1>7 DEF write_head
  <2>5. \A i \in 1 .. Len(lh) : pins[lh[i]] = 1
    BY <2>1, <2>2 DEF HeaderInv
  <2>6. \A i \in 1 .. Len(lh') : ~ \E q \in Procs : pc'[q] = "install" /\ i < tail'[q]
    BY <2>3, <2>4
  <2>7. NoDup(lh)' /\ NoDup(hd)'
    BY <2>4 DEF HeaderInv, NoDup
  <2>8. \A q \in Procs : pc'[q] # "finish"
    BY <1>7, <2>2 DEF write_head
  <2>9. QED
    BY <2>1, <2>3, <2>4, <2>5, <2>6, <2>7, <2>8 DEF HeaderInv
<1>8. ASSUME NEW p \in Procs, install_trans(p) PROVE HeaderInv'
  <2> DEFINE t == tail[p]
             b == lh[t]
  <2>1. /\ boot = "done" /\ InCommit # {}
        /\ \A q \in Procs : pc[q] = "install" <=> q = p
    BY <1>8, OneInstaller DEF install_trans
  <2>2. t \in 1 .. Len(lh) /\ b \in Blocks
    BY <1>8 DEF install_trans
  <2>3. UNCHANGED <<lh, hd, boot, pc>> /\ pins' = [pins EXCEPT ![b] = @ - 1]
        /\ tail'[p] = t + 1
    BY <1>8 DEF install_trans
  <2>4. \A i \in 1 .. Len(lh) :
            (\E q \in Procs : pc[q] = "install" /\ i < tail[q]) <=> i < t
    BY <2>1
  <2>5. \A i \in 1 .. Len(lh) :
            (\E q \in Procs : pc'[q] = "install" /\ i < tail'[q]) <=> i < t + 1
    BY <2>1, <2>3
  <2>6. \A i \in 1 .. Len(lh) : pins[lh[i]] = IF i < t THEN 0 ELSE 1
    BY <2>1, <2>4 DEF HeaderInv
  <2>7. \A i \in 1 .. Len(lh) : i # t => lh[i] # b
    BY <2>2 DEF HeaderInv, NoDup
  <2>8. \A i \in 1 .. Len(lh) : pins'[lh[i]] = IF i < t + 1 THEN 0 ELSE 1
    BY <2>2, <2>3, <2>6, <2>7
  <2>9. \A c \in Blocks : pins'[c] > 0 => pins[c] > 0
    BY <2>2, <2>3
  <2>10. NoDup(lh)' /\ NoDup(hd)'
    BY <2>3 DEF HeaderInv, NoDup
  <2>11. Counted' = Counted /\ InCommit' = InCommit
    BY <2>3 DEF Counted, InCommit
  <2>12. QED
    BY <2>1, <2>3, <2>5, <2>8, <2>9, <2>10, <2>11 DEF HeaderInv
<1>9. ASSUME NEW p \in Procs, clear_head(p) PROVE HeaderInv'
  <2>1. boot = "done" /\ \A q \in Procs : pc[q] = "install" <=> q = p
    BY <1>9, OneInstaller DEF clear_head
  <2>2. \A i \in 1 .. Len(lh) : pins[lh[i]] = 0
    <3> SUFFICES ASSUME NEW i \in 1 .. Len(lh) PROVE pins[lh[i]] = 0
        OBVIOUS
    <3>1. pc[p] = "install" /\ i < tail[p]
        BY <1>9 DEF clear_head
    <3>2. QED
        BY <2>1, <3>1 DEF HeaderInv
  <2>3. \A c \in Blocks : ~ pins[c] > 0
    BY <2>1, <2>2 DEF HeaderInv
  <2>4. lh' = <<>> /\ hd' = <<>> /\ pins' = pins /\ boot' = boot
    BY <1>9 DEF clear_head
  <2>5. \A q \in Procs : pc'[q] # "install"
    BY <1>9, <2>1 DEF clear_head
  <2>6. NoDup(lh)' /\ NoDup(hd)' /\ \A i \in 1 .. Len(lh') : FALSE
    BY <2>4 DEF NoDup
  <2>7. QED
    BY <2>1, <2>3, <2>4, <2>5, <2>6 DEF HeaderInv
<1>10. ASSUME UNCHANGED <<lh, hd, pins, boot, pc, tail>> PROVE HeaderInv'
  <2>1. Counted' = Counted /\ InCommit' = InCommit
    BY <1>10 DEF Counted, InCommit
  <2>2. (\A q \in Procs : pc[q] = "finish" => lh = <<>>)
        /\ (boot = "done" /\ Counted = {} /\ InCommit = {} => lh = <<>>)
    BY DEF HeaderInv
  <2>3. QED
    BY <1>10, <2>1, <2>2, HeaderStutter
<1>11. ASSUME NEW b \in Blocks, Recycle(b) PROVE HeaderInv'
    BY <1>10, <1>11 DEF Recycle
<1>12. CASE read_head
  <2>1. lh' = hd /\ UNCHANGED <<hd, pins, pc>> /\ boot = "read_head" /\ boot' = "install"
    BY <1>12 DEF read_head
  <2>2. \A q \in Procs : pc'[q] = "idle"
    BY <2>1 DEF ControlInv
  <2>3. NoDup(lh)' /\ NoDup(hd)'
    BY <2>1 DEF HeaderInv, NoDup
  <2>4. \A c \in Blocks : pins'[c] = 0
    BY <2>1 DEF HeaderInv
  <2>5. QED
    BY <2>1, <2>2, <2>3, <2>4 DEF HeaderInv
<1>13. CASE recover_install
    BY <1>10, <1>13 DEF recover_install
<1>14. CASE recover_clear_head
  <2>1. lh' = <<>> /\ hd' = <<>> /\ UNCHANGED <<pins, pc>> /\ boot' = "done"
    BY <1>14 DEF recover_clear_head
  <2>2. (\A q \in Procs : pc'[q] = "idle") /\ \A c \in Blocks : pins'[c] = 0
    BY <1>14, <2>1 DEF recover_clear_head, ControlInv, HeaderInv
  <2>3. NoDup(lh)' /\ NoDup(hd)' /\ \A i \in 1 .. Len(lh') : FALSE
    BY <2>1 DEF NoDup
  <2>4. QED
    BY <2>1, <2>2, <2>3 DEF HeaderInv
<1>15. CASE Crash
  <2>1. lh' = <<>> /\ hd' = hd /\ boot' = "read_head"
    BY <1>15 DEF Crash
  <2>2. (\A q \in Procs : pc'[q] = "idle") /\ \A c \in Blocks : pins'[c] = 0
    BY <1>15 DEF Crash
  <2>3. NoDup(lh)' /\ NoDup(hd)'
    BY <2>1 DEF NoDup, HeaderInv
  <2>4. QED
    BY <2>1, <2>2, <2>3 DEF HeaderInv
<1>16. CASE UNCHANGED vars
    BY <1>10, <1>16 DEF vars
<1>17. QED
    BY <1>1, <1>2, <1>3, <1>4, <1>5, <1>6, <1>7, <1>8, <1>9, <1>11, <1>12,
       <1>13, <1>14, <1>15, <1>16 DEF Next, ProcStep, Recover

-----------------------------------------------------------------------------
(* Buffers, log slots and home blocks *)

\* Steps that change no block anywhere and start no loop in the middle.
LEMMA DataStutter ==
    ASSUME DataInv, UNCHANGED <<cache, home, logd, pins, lh>>,
           \A p \in Procs : pc'[p] = "write_log" =>
               tail'[p] = 1 \/ (pc[p] = "write_log" /\ tail'[p] = tail[p]),
           \A p \in Procs : pc'[p] = "install" =>
               pc[p] = "install" /\ tail'[p] = tail[p],
           boot' = "install" => boot = "install" /\ btail' = btail
    PROVE  DataInv'
<1>1. \A p \in Procs : pc'[p] = "write_log" =>
          \A i \in 1 .. Len(lh) : i < tail'[p] => logd[i] = cache[lh[i]]
  <2> SUFFICES ASSUME NEW p \in Procs, pc'[p] = "write_log",
                      NEW i \in 1 .. Len(lh), i < tail'[p]
               PROVE  logd[i] = cache[lh[i]]
    BY Zenon
  <2>1. tail'[p] # 1
    OBVIOUS
  <2>2. QED
    BY <2>1, Zenon DEF DataInv
<1>2. \A b : BufRead(b)' = BufRead(b)
    BY DEF BufRead
<1>3. \A b \in Blocks : /\ pins'[b] = 0 /\ cache'[b] # NoBuf => cache'[b] = home'[b]
                        /\ pins'[b] > 0 => cache'[b] # NoBuf
    BY DEF DataInv
<1>4. \A p \in Procs : pc'[p] = "install" =>
          \A i \in 1 .. Len(lh') :
             /\ logd'[i] = BufRead(lh[i])'
             /\ i < tail'[p] => logd'[i] = home'[lh'[i]]
  <2> SUFFICES ASSUME NEW p \in Procs, pc'[p] = "install", NEW i \in 1 .. Len(lh')
               PROVE  /\ logd'[i] = BufRead(lh[i])'
                      /\ i < tail'[p] => logd'[i] = home'[lh'[i]]
    BY Zenon
  <2>1. i \in 1 .. Len(lh) /\ pc[p] = "install" /\ tail'[p] = tail[p] /\ lh' = lh
    BY Zenon
  <2>2. logd[i] = BufRead(lh[i]) /\ (i < tail[p] => logd[i] = home[lh[i]])
    BY <2>1, Zenon DEF DataInv
  <2>3. BufRead(lh[i])' = BufRead(lh[i])
    BY <2>1, Zenon DEF BufRead
  <2>4. QED
    BY <2>1, <2>2, <2>3, Zenon
<1>5. boot' = "install" =>
          \A i \in 1 .. Len(lh') : i < btail' => logd'[i] = home'[lh'[i]]
    BY Zenon DEF DataInv
<1>6. \A p \in Procs : pc'[p] = "write_log" =>
          \A i \in 1 .. Len(lh') : i < tail'[p] => logd'[i] = cache'[lh'[i]]
    BY <1>1
<1>7. QED
    BY <1>3, <1>4, <1>5, <1>6, Zenon DEF DataInv

\* Every step keeps buffers, log slots and home blocks in agreement.
LEMMA DataNext == LogInv /\ [Next]_vars => DataInv'
<1> SUFFICES ASSUME LogInv, [Next]_vars PROVE DataInv'
    OBVIOUS
<1> USE DEF LogInv, TypeOK, memvars, diskvars, procvars, bootvars
<1>1. ASSUME NEW p \in Procs, begin_op(p) \/ begin_op_sleep(p) PROVE DataInv'
    BY <1>1, DataStutter DEF begin_op, begin_op_sleep
<1>2. ASSUME NEW p \in Procs, end_op(p) PROVE DataInv'
    BY <1>2, DataStutter, Zenon DEF end_op, WakeAll
<1>3. ASSUME NEW p \in Procs, NEW b \in Blocks, log_write_panic(p, b) PROVE DataInv'
    BY <1>3, DataStutter DEF log_write_panic
<1>4. ASSUME NEW p \in Procs, commit(p) PROVE DataInv'
    BY <1>4, DataStutter DEF commit
<1>5. ASSUME NEW p \in Procs, end_commit(p) PROVE DataInv'
    BY <1>5, DataStutter DEF end_commit, WakeAll
<1>6. ASSUME NEW p \in Procs, NEW b \in Blocks, NEW v \in Vals, log_write(p, b, v)
      PROVE DataInv'
  <2>1. boot = "done" /\ p \in Counted
    BY <1>6 DEF log_write, ControlInv, Counted
  <2>2. \A q \in Procs : pc[q] \notin {"install", "write_log"}
    BY <2>1 DEF ControlInv, InCommit, CommitPcs
  <2>3. cache' = [cache EXCEPT ![b] = v] /\ v # NoBuf
    BY <1>6, ConstAssumption DEF log_write
  <2>4. UNCHANGED <<home, logd, pc, boot>>
    BY <1>6 DEF log_write
  <2>5. pins'[b] > 0
    <3>1. CASE b \in ElemsOf(lh)
      <4>1. PICK i \in 1 .. Len(lh) : lh[i] = b
        BY <3>1, SMTT(30) DEF ElemsOf
      <4>2. pins[b] = 1
        BY <2>1, <2>2, <4>1 DEF HeaderInv
      <4>3. QED
        BY <1>6, <3>1, <4>2 DEF log_write
    <3>2. CASE b \notin ElemsOf(lh)
        BY <1>6, <3>2 DEF log_write
    <3>3. QED
        BY <3>1, <3>2
  <2>6. \A c \in Blocks : c # b => pins'[c] = pins[c]
    BY <1>6 DEF log_write
  <2>7. DataInv /\ cache \in [Blocks -> Vals \union {NoBuf}]
    OBVIOUS
  <2> HIDE DEF LogInv, TypeOK
  <2>8. \A c \in Blocks : /\ pins'[c] = 0 /\ cache'[c] # NoBuf => cache'[c] = home'[c]
                          /\ pins'[c] > 0 => cache'[c] # NoBuf
    BY <2>3, <2>4, <2>5, <2>6, <2>7, SMTT(30) DEF DataInv
  <2>9. QED
    BY <2>1, <2>2, <2>4, <2>8, Zenon DEF DataInv
<1>7. ASSUME NEW p \in Procs, write_log(p) PROVE DataInv'
  <2> DEFINE t == tail[p]
             b == lh[t]
  <2>1. /\ boot = "done"
        /\ \A q \in Procs : pc[q] # "install"
        /\ \A q \in Procs : pc[q] = "write_log" <=> q = p
    BY <1>7 DEF write_log, ControlInv, InCommit, CommitPcs
  <2>2. t \in 1 .. Len(lh) /\ b \in Blocks /\ t \in Slots
    BY <1>7, ConstAssumption DEF write_log, Slots
  <2>3. pins[b] = 1
    BY <2>1, <2>2 DEF HeaderInv
  <2>4. cache[b] # NoBuf
    BY <2>2, <2>3 DEF DataInv
  <2>5. cache' = cache /\ logd' = [logd EXCEPT ![t] = cache[b]]
    BY <1>7, <2>2, <2>4 DEF write_log, BufRead
  <2>6. UNCHANGED <<lh, pins, home, pc, boot>> /\ tail'[p] = t + 1
    BY <1>7 DEF write_log
  <2>7. \A i \in 1 .. Len(lh) : i < t + 1 => logd'[i] = cache[lh[i]]
    <3> SUFFICES ASSUME NEW i \in 1 .. Len(lh), i < t + 1
                 PROVE  logd'[i] = cache[lh[i]]
        OBVIOUS
    <3>1. CASE i = t
        BY <2>2, <2>5, <3>1
    <3>2. CASE i < t
      <4>1. logd[i] = cache[lh[i]]
        BY <2>1, <3>2 DEF DataInv
      <4>2. logd'[i] = logd[i]
        BY <2>5, <3>2, ConstAssumption DEF Slots
      <4>3. QED
        BY <4>1, <4>2
    <3>3. QED
        BY <2>2, <3>1, <3>2
  <2>8. QED
    BY <2>1, <2>5, <2>6, <2>7 DEF DataInv
<1>8. ASSUME NEW p \in Procs, write_head(p) PROVE DataInv'
  <2>1. /\ boot = "done"
        /\ \A q \in Procs : pc[q] # "install"
        /\ \A q \in Procs : pc[q] = "write_log" <=> q = p
    BY <1>8 DEF write_head, ControlInv, InCommit, CommitPcs
  <2>2. UNCHANGED <<lh, pins, home, cache, logd, boot>> /\ tail'[p] = 1
    BY <1>8 DEF write_head
  <2>3. /\ \A q \in Procs : pc'[q] = "install" <=> q = p
        /\ \A q \in Procs : pc'[q] # "write_log"
    BY <1>8, <2>1 DEF write_head
  <2>4. \A i \in 1 .. Len(lh) : logd[i] = BufRead(lh[i])
    <3> SUFFICES ASSUME NEW i \in 1 .. Len(lh) PROVE logd[i] = BufRead(lh[i])
        OBVIOUS
    <3>1. i < tail[p] /\ lh[i] \in Blocks
        BY <1>8 DEF write_head
    <3>2. logd[i] = cache[lh[i]]
        BY <2>1, <3>1 DEF DataInv
    <3>3. pins[lh[i]] = 1
        BY <2>1 DEF HeaderInv
    <3>4. cache[lh[i]] # NoBuf
        BY <3>1, <3>3 DEF DataInv
    <3>5. QED
        BY <3>2, <3>4 DEF BufRead
  <2>5. \A c : BufRead(c)' = BufRead(c)
    BY <2>2 DEF BufRead
  <2>6. DataInv /\ tail'[p] = 1
    BY <1>8 DEF write_head
  <2> HIDE DEF LogInv, TypeOK
  <2>7. \A i \in 1 .. Len(lh) : ~(i < 1)
    OBVIOUS
  <2>8. QED
    BY <2>1, <2>2, <2>3, <2>4, <2>5, <2>6, <2>7, Zenon DEF DataInv
<1>9. ASSUME NEW p \in Procs, install_trans(p) PROVE DataInv'
  <2> DEFINE t == tail[p]
             b == lh[t]
  <2>1. boot = "done" /\ \A q \in Procs : pc[q] = "install" <=> q = p
    BY <1>9, OneInstaller DEF install_trans
  <2>2. \A q \in Procs : pc[q] # "write_log"
    BY <1>9, <2>1 DEF install_trans, ControlInv, InCommit, CommitPcs
  <2>3. t \in 1 .. Len(lh) /\ b \in Blocks /\ logd[t] \in Vals /\ logd[t] # NoBuf
    BY <1>9, ConstAssumption DEF install_trans, Slots
  <2>4. /\ cache' = [cache EXCEPT ![b] = logd[t]]
        /\ home' = [home EXCEPT ![b] = logd[t]]
        /\ pins' = [pins EXCEPT ![b] = @ - 1]
        /\ UNCHANGED <<lh, logd, pc, boot>>
        /\ tail'[p] = t + 1
    BY <1>9 DEF install_trans
  <2>5. \A i \in 1 .. Len(lh) : i # t => lh[i] # b
    BY <2>3 DEF HeaderInv, NoDup
  <2>6. \A i \in 1 .. Len(lh) :
            logd[i] = BufRead(lh[i])' /\ (i < t + 1 => logd[i] = home'[lh[i]])
    <3> SUFFICES ASSUME NEW i \in 1 .. Len(lh)
                 PROVE  logd[i] = BufRead(lh[i])'
                        /\ (i < t + 1 => logd[i] = home'[lh[i]])
        OBVIOUS
    <3>0. lh[i] \in Blocks /\ lh' = lh
        BY <2>4
    <3>1. CASE i = t
        BY <2>3, <2>4, <3>0, <3>1 DEF BufRead
    <3>2. CASE i # t
      <4>1. logd[i] = BufRead(lh[i]) /\ (i < t => logd[i] = home[lh[i]])
        BY <2>1 DEF DataInv
      <4>2. cache'[lh[i]] = cache[lh[i]] /\ home'[lh[i]] = home[lh[i]]
        BY <2>4, <2>5, <3>0, <3>2
      <4>3. QED
        <5>1. BufRead(lh[i])' = BufRead(lh[i])
            BY <3>0, <4>2, Zenon DEF BufRead
        <5>2. t \in Nat
            BY <2>3
        <5> HIDE DEF LogInv, TypeOK, t
        <5>3. i < t + 1 => i < t
            BY <3>2, <5>2
        <5>4. QED
            BY <4>1, <4>2, <5>1, <5>3, Zenon
    <3>3. QED
        BY <3>1, <3>2, Zenon
  <2>7. \A c \in Blocks : /\ pins'[c] = 0 /\ cache'[c] # NoBuf => cache'[c] = home'[c]
                          /\ pins'[c] > 0 => cache'[c] # NoBuf
    BY <2>3, <2>4 DEF DataInv
  <2> HIDE DEF LogInv, TypeOK, t, b
  <2>8. \A q \in Procs : pc'[q] = "install" =>
            \A i \in 1 .. Len(lh') :
               /\ logd'[i] = BufRead(lh[i])'
               /\ i < tail'[q] => logd'[i] = home'[lh'[i]]
    BY <2>1, <2>4, <2>6, Zenon
  <2>9. (\A q \in Procs : pc'[q] # "write_log") /\ boot' # "install"
    BY <2>1, <2>2, <2>4
  <2>10. QED
    BY <2>7, <2>8, <2>9, Zenon DEF DataInv
<1>10. ASSUME NEW p \in Procs, clear_head(p) PROVE DataInv'
  <2>1. boot = "done" /\ \A q \in Procs : pc[q] = "install" <=> q = p
    BY <1>10, OneInstaller DEF clear_head
  <2>2. \A q \in Procs : pc[q] # "write_log"
    BY <1>10, <2>1 DEF clear_head, ControlInv, InCommit, CommitPcs
  <2>3. UNCHANGED <<cache, home, pins, boot>>
    BY <1>10 DEF clear_head
  <2>4. \A q \in Procs : pc'[q] \notin {"write_log", "install"}
    BY <1>10, <2>1, <2>2 DEF clear_head
  <2>5. QED
    BY <2>1, <2>3, <2>4, Zenon DEF DataInv
<1>11. ASSUME NEW b \in Blocks, Recycle(b) PROVE DataInv'
  <2>1. cache' = [cache EXCEPT ![b] = NoBuf] /\ pins[b] = 0 /\ cache[b] = home[b]
    BY <1>11 DEF Recycle, DataInv
  <2>2. UNCHANGED <<lh, pins, home, logd, pc, tail, boot, btail>>
    BY <1>11 DEF Recycle
  <2>3. \A c \in Blocks : BufRead(c)' = BufRead(c)
    BY <2>1, <2>2 DEF BufRead
  <2>4. ASSUME NEW q \in Procs, pc[q] = "write_log", NEW i \in 1 .. Len(lh)
        PROVE  cache'[lh[i]] = cache[lh[i]]
    <3>1. boot = "done" /\ \A r \in Procs : pc[r] # "install"
        BY <2>4 DEF ControlInv, InCommit, CommitPcs
    <3>2. pins[lh[i]] = 1
        BY <3>1 DEF HeaderInv
    <3>3. QED
        BY <2>1, <3>2
  <2>5. \A q \in Procs : pc'[q] = "write_log" =>
            \A i \in 1 .. Len(lh') : i < tail'[q] => logd'[i] = cache'[lh'[i]]
    BY <2>2, <2>4 DEF DataInv
  <2>6. \A q \in Procs : pc'[q] = "install" =>
            \A i \in 1 .. Len(lh') :
               logd'[i] = BufRead(lh[i])' /\ (i < tail'[q] => logd'[i] = home'[lh'[i]])
    BY <2>2, <2>3 DEF DataInv
  <2>7. \A c \in Blocks : /\ pins'[c] = 0 /\ cache'[c] # NoBuf => cache'[c] = home'[c]
                          /\ pins'[c] > 0 => cache'[c] # NoBuf
    BY <2>1, <2>2 DEF DataInv
  <2>8. QED
    BY <2>2, <2>5, <2>6, <2>7 DEF DataInv
<1>12. CASE read_head
  <2>1. UNCHANGED <<cache, home, pins, logd, pc>> /\ boot' = "install" /\ btail' = 1
    BY <1>12 DEF read_head
  <2>2. \A q \in Procs : pc'[q] = "idle"
    BY <1>12, <2>1 DEF read_head, ControlInv
  <2>3. \A i \in 1 .. Len(lh') : ~(i < btail')
    BY <2>1
  <2>4. QED
    BY <2>1, <2>2, <2>3, Zenon DEF DataInv
<1>13. CASE recover_install
  <2> DEFINE b == lh[btail]
  <2>1. btail \in 1 .. Len(lh) /\ b \in Blocks /\ logd[btail] \in Vals
    BY <1>13, ConstAssumption DEF recover_install, Slots
  <2>2. /\ cache' = [cache EXCEPT ![b] = logd[btail]]
        /\ home' = [home EXCEPT ![b] = logd[btail]]
        /\ UNCHANGED <<lh, logd, pc, pins>>
        /\ btail' = btail + 1
    BY <1>13 DEF recover_install
  <2>3. (\A q \in Procs : pc'[q] = "idle") /\ \A c \in Blocks : pins'[c] = 0
    BY <1>13, <2>2 DEF recover_install, ControlInv, HeaderInv
  <2>4. \A i \in 1 .. Len(lh) : i < btail + 1 => logd[i] = home'[lh[i]]
    <3> SUFFICES ASSUME NEW i \in 1 .. Len(lh), i < btail + 1
                 PROVE  logd[i] = home'[lh[i]]
        OBVIOUS
    <3>1. CASE i = btail
        BY <2>1, <2>2, <3>1
    <3>2. CASE i < btail
      <4>1. lh[i] # b /\ lh[i] \in Blocks
        BY <2>1, <3>2 DEF HeaderInv, NoDup
      <4>2. logd[i] = home[lh[i]]
        BY <1>13, <3>2 DEF DataInv, recover_install
      <4>3. QED
        BY <2>2, <4>1, <4>2
    <3>3. btail \in Nat
        OBVIOUS
    <3> HIDE DEF LogInv, TypeOK
    <3>4. QED
        BY <3>1, <3>2, <3>3
  <2>5. \A c \in Blocks : cache'[c] # NoBuf => cache'[c] = home'[c]
    BY <2>1, <2>2, <2>3 DEF DataInv
  <2> HIDE DEF LogInv, TypeOK
  <2>6. \A c \in Blocks : ~(pins'[c] > 0)
    BY <2>3
  <2>7. QED
    BY <2>2, <2>3, <2>4, <2>5, <2>6, Zenon DEF DataInv
<1>14. CASE recover_clear_head
  <2>1. UNCHANGED <<cache, home, pins, logd, pc>> /\ boot' = "done"
    BY <1>14 DEF recover_clear_head
  <2>2. \A q \in Procs : pc'[q] = "idle"
    BY <1>14, <2>1 DEF recover_clear_head, ControlInv
  <2>3. QED
    BY <2>1, <2>2, Zenon DEF DataInv
<1>15. CASE Crash
  <2>1. \A q \in Procs : pc'[q] = "idle"
    BY <1>15 DEF Crash
  <2>2. \A c \in Blocks : cache'[c] = NoBuf /\ pins'[c] = 0
    BY <1>15 DEF Crash
  <2>3. QED
    BY <1>15, <2>1, <2>2 DEF Crash, DataInv
<1>16. CASE UNCHANGED vars
    BY <1>16, DataStutter DEF vars
<1>17. QED
    BY <1>1, <1>2, <1>3, <1>4, <1>5, <1>6, <1>7, <1>8, <1>9, <1>10, <1>11,
       <1>12, <1>13, <1>14, <1>15, <1>16 DEF Next, ProcStep, Recover

-----------------------------------------------------------------------------
(* The invariants *)

\* The invariant holds when the machine is first switched on.
LEMMA InitInv == Init => LogInv
<1> SUFFICES ASSUME Init PROVE LogInv
    OBVIOUS
<1>1. TypeOK
    BY TypeInit
<1>2. Counted = {} /\ InCommit = {}
    BY DEF Init, Counted, InCommit, CommitPcs
<1>3. ControlInv
    BY <1>2, FS_EmptySet DEF Init, ControlInv
<1>4. NoDup(lh) /\ NoDup(hd)
    BY DEF Init, NoDup
<1>5. HeaderInv
    BY <1>4 DEF Init, HeaderInv
<1>6. DataInv
    BY DEF Init, DataInv
<1>7. QED
    BY <1>1, <1>3, <1>5, <1>6 DEF LogInv

\* The invariant holds throughout every behaviour of log.c.
LEMMA Invariance == Spec => []LogInv
<1>1. LogInv /\ [Next]_vars => LogInv'
    BY TypeNext, ControlNext, HeaderNext, DataNext DEF LogInv
<1>2. QED
    BY <1>1, InitInv, PTL DEF Spec

\* log.c keeps its types: in particular the header never outgrows the log's
\* data blocks and no buffer is unpinned more often than it was pinned.
THEOREM TypeCorrect == Spec => []TypeOK
<1>1. LogInv => TypeOK
    BY DEF LogInv
<1>2. QED
    BY <1>1, Invariance, PTL

\* "The logging system only commits when there are no FS system calls
\* active", and only one process commits.
THEOREM CommitIsExclusive == Spec => []CommitExclusive
<1>1. LogInv => CommitExclusive
  <2> SUFFICES ASSUME LogInv, InCommit # {} PROVE InOp = {} /\ Cardinality(InCommit) = 1
    BY DEF CommitExclusive
  <2>1. InOp = {}
    BY DEF LogInv, ControlInv, InOp, Counted
  <2>2. PICK p \in InCommit : InCommit = {p}
    BY DEF LogInv, ControlInv
  <2>3. QED
    BY <2>1, <2>2, FS_Singleton
<1>2. QED
    BY <1>1, Invariance, PTL

\* Whoever sleeps in begin_op() can still be woken by a call that has to end
\* or by a commit that has to finish.
THEOREM SleepersHaveWaker == Spec => []NoStrandedSleeper
<1>1. LogInv => NoStrandedSleeper
    BY DEF LogInv, ControlInv, NoStrandedSleeper
<1>2. QED
    BY <1>1, Invariance, PTL

-----------------------------------------------------------------------------
(* Crash atomicity: Log implements AtomicDisk *)

\* What Overlay computes when no block is named twice.
LEMMA OverlayValue ==
    ASSUME NEW h \in Seq(Blocks), NoDup(h), NEW l, NEW d
    PROVE  /\ \A i \in 1 .. Len(h) : Overlay(h, l, d)[h[i]] = l[i]
           /\ \A b \in Blocks : (\A i \in 1 .. Len(h) : h[i] # b)
                                   => Overlay(h, l, d)[b] = d[b]
<1>1. ASSUME NEW i \in 1 .. Len(h) PROVE Overlay(h, l, d)[h[i]] = l[i]
  <2>1. h[i] \in Blocks /\ \E j \in 1 .. Len(h) : h[j] = h[i]
    OBVIOUS
  <2>2. (CHOOSE j \in 1 .. Len(h) : h[j] = h[i]) = i
    BY <2>1 DEF NoDup
  <2>3. QED
    BY <2>1, <2>2, Zenon DEF Overlay
<1>2. QED
    BY <1>1, Zenon DEF Overlay

\* Two overlays are equal when they agree block by block.
LEMMA OverlayEqual ==
    ASSUME NEW h, NEW l, NEW d, NEW f,
           f = [b \in Blocks |-> f[b]],
           \A b \in Blocks : Overlay(h, l, d)[b] = f[b]
    PROVE  Overlay(h, l, d) = f
BY Zenon DEF Overlay

\* An image that agrees with the log slots on the blocks the header names and
\* with the home blocks elsewhere is the overlay.
LEMMA OverlayIs ==
    ASSUME NEW h \in Seq(Blocks), NoDup(h), NEW l, NEW d, NEW f,
           f = [b \in Blocks |-> f[b]],
           \A i \in 1 .. Len(h) : l[i] = f[h[i]],
           \A b \in Blocks : (\A i \in 1 .. Len(h) : h[i] # b) => d[b] = f[b]
    PROVE  Overlay(h, l, d) = f
<1>1. \A b \in Blocks : Overlay(h, l, d)[b] = f[b]
  <2> SUFFICES ASSUME NEW b \in Blocks PROVE Overlay(h, l, d)[b] = f[b]
    OBVIOUS
  <2>1. CASE \E i \in 1 .. Len(h) : h[i] = b
    <3>1. PICK i \in 1 .. Len(h) : h[i] = b
        BY <2>1
    <3>2. Overlay(h, l, d)[h[i]] = l[i]
        BY OverlayValue
    <3>3. QED
        BY <3>1, <3>2
  <2>2. CASE \A i \in 1 .. Len(h) : h[i] # b
    BY <2>2, OverlayValue
  <2>3. QED
    BY <2>1, <2>2
<1>2. QED
    BY <1>1, OverlayEqual

\* Once every log slot has reached its home block the overlay adds nothing.
LEMMA OverlayDone ==
    ASSUME NEW h \in Seq(Blocks), NoDup(h), NEW l, NEW d \in [Blocks -> Vals],
           \A i \in 1 .. Len(h) : l[i] = d[h[i]]
    PROVE  Overlay(h, l, d) = d
<1>1. d = [b \in Blocks |-> d[b]]
    OBVIOUS
<1>2. ASSUME NEW b \in Blocks PROVE Overlay(h, l, d)[b] = d[b]
  <2>1. ASSUME NEW i \in 1 .. Len(h), h[i] = b PROVE Overlay(h, l, d)[b] = d[b]
    <3>1. Overlay(h, l, d)[h[i]] = l[i]
        BY OverlayValue
    <3>2. QED
        BY <2>1, <3>1
  <2>2. CASE \A i \in 1 .. Len(h) : h[i] # b
    BY <2>2, OverlayValue
  <2>3. QED
    BY <2>1, <2>2
<1>3. QED
    BY <1>1, <1>2, Zenon DEF Overlay

\* With an empty header the disk is what its home blocks say.
LEMMA OverlayEmpty ==
    ASSUME NEW l, NEW d \in [Blocks -> Vals]
    PROVE  Overlay(<<>>, l, d) = d
BY DEF Overlay

\* A log that is idle has nothing left to lose in a crash.
THEOREM IdleIsDurable == Spec => []QuiescentDurable
<1>1. LogInv => QuiescentDurable
  <2> SUFFICES ASSUME LogInv, boot = "done", committing = 0, outstanding = 0
               PROVE  Durable = Current
    BY DEF QuiescentDurable
  <2> USE DEF LogInv, TypeOK
  <2>1. Counted = {}
    BY CountedFinite, FS_EmptySet, Zenon DEF ControlInv
  <2>2. InCommit = {}
    BY DEF ControlInv
  <2>3. lh = <<>> /\ hd = <<>>
    BY <2>1, <2>2 DEF HeaderInv, InCommit, CommitPcs
  <2>4. \A b \in Blocks : pins[b] = 0
    <3> SUFFICES ASSUME NEW b \in Blocks PROVE pins[b] = 0
        OBVIOUS
    <3>1. ~ pins[b] > 0
        BY <2>3 DEF HeaderInv
    <3>2. QED
        BY <3>1
  <2>5. \A b \in Blocks : BufRead(b) = home[b]
    BY <2>4 DEF BufRead, DataInv
  <2>6. Durable = home
    BY <2>3, OverlayEmpty DEF Durable
  <2>7. QED
    BY <2>5, <2>6 DEF Current
<1>2. QED
    BY <1>1, Invariance, PTL

\* A machine just switched on is an atomic disk with mkfs's image.
LEMMA AbstractInit == Init => Abstract!Init
<1> SUFFICES ASSUME Init PROVE Abstract!Init
    OBVIOUS
<1>1. Durable = InitImage /\ Current = InitImage
    BY OverlayEmpty, ConstAssumption DEF Init, Durable, Current
<1>2. InOp = {}
    BY DEF Init, InOp
<1>3. QED
    BY <1>1, <1>2 DEF Abstract!Init

\* Steps that leave the disk and every readable block as they are.
LEMMA SameImages ==
    ASSUME UNCHANGED <<hd, logd, home, boot, cache>>
    PROVE  Durable' = Durable /\ Current' = Current
<1>1. Durable' = Durable
    BY DEF Durable
<1>2. QED
    BY <1>1 DEF Current, BufRead

\* Every step of log.c is a step of the atomic disk or leaves it alone;
\* write_head() is the moment of its Commit.
LEMMA AbstractNext ==
    LogInv /\ LogInv' /\ [Next]_vars => [Abstract!Next]_(Abstract!avars)
<1>0. SUFFICES ASSUME LogInv, LogInv', [Next]_vars
               PROVE  Abstract!Next \/ UNCHANGED <<Durable, Current, InOp>>
    BY DEF Abstract!avars
<1> USE DEF memvars, diskvars, procvars, bootvars
<1>a. /\ lh \in Seq(Blocks) /\ hd \in Seq(Blocks) /\ pc \in [Procs -> Pcs]
      /\ cache \in [Blocks -> Vals \union {NoBuf}]
      /\ home \in [Blocks -> Vals] /\ logd \in [Slots -> Vals]
    BY <1>0 DEF LogInv, TypeOK
<1>c. /\ Len(lh) \in Nat /\ Len(lh) <= nlog - 1 /\ pins \in [Blocks -> Nat]
      /\ tail \in [Procs -> Nat \ {0}] /\ btail \in Nat \ {0}
    BY <1>0 DEF LogInv, TypeOK
<1>b. ControlInv /\ HeaderInv /\ DataInv /\ HeaderInv' /\ DataInv'
    BY <1>0 DEF LogInv
<1>1. ASSUME NEW p \in Procs, begin_op(p)
      PROVE Abstract!Begin(p)
  <2>1. InOp' = InOp \union {p} /\ p \notin InOp
    BY <1>1, <1>a DEF begin_op, InOp
  <2>2. QED
    BY <1>1, <2>1, SameImages DEF begin_op, Abstract!Begin
<1>2. ASSUME NEW p \in Procs, begin_op_sleep(p) \/ commit(p) \/ end_commit(p)
      PROVE UNCHANGED <<Durable, Current, InOp>>
  <2>1. InOp' = InOp
    BY <1>2, <1>a DEF begin_op_sleep, commit, end_commit, WakeAll, InOp
  <2>2. QED
    BY <1>2, <2>1, SameImages DEF begin_op_sleep, commit, end_commit
<1>3. ASSUME NEW p \in Procs, end_op(p) \/ \E b \in Blocks : log_write_panic(p, b)
      PROVE Abstract!End(p)
  <2>1. p \in InOp /\ InOp' = InOp \ {p}
    BY <1>3, <1>a DEF end_op, log_write_panic, WakeAll, InOp
  <2>2. QED
    BY <1>3, <2>1, SameImages DEF end_op, log_write_panic, Abstract!End
<1>4. ASSUME NEW p \in Procs, NEW b \in Blocks, NEW v \in Vals, log_write(p, b, v)
      PROVE Abstract!Write(p, b, v)
  <2>1. p \in InOp /\ InOp' = InOp /\ boot = "done" /\ boot' = "done"
    BY <1>4, <1>b DEF log_write, InOp, ControlInv
  <2>2. Durable' = Durable
    BY <1>4 DEF log_write, Durable
  <2>3. cache' = [cache EXCEPT ![b] = v] /\ home' = home /\ v # NoBuf
    BY <1>4, ConstAssumption DEF log_write
  <2>4. \A c \in Blocks : BufRead(c)' = IF c = b THEN v ELSE BufRead(c)
    BY <2>3, <1>a DEF BufRead
  <2>5. Current' = [Current EXCEPT ![b] = v]
    BY <2>1, <2>4, Zenon DEF Current
  <2>6. QED
    BY <2>1, <2>2, <2>5 DEF Abstract!Write
<1>5. ASSUME NEW p \in Procs, write_log(p)
      PROVE UNCHANGED <<Durable, Current, InOp>>
  <2>1. boot = "done" /\ boot' = "done" /\ \A q \in Procs : pc[q] # "install"
    BY <1>5, <1>b DEF write_log, ControlInv, InCommit, CommitPcs
  <2>2. hd = <<>> /\ hd' = <<>> /\ home' = home /\ InOp' = InOp
    BY <1>5, <2>1, <1>b, Zenon DEF write_log, HeaderInv, InOp
  <2>3. Durable = home /\ Durable' = home
    BY <2>2, <1>a, OverlayEmpty DEF Durable
  <2>4. lh[tail[p]] \in Blocks
    <3>1. tail[p] \in 1 .. Len(lh)
        BY <1>5, <1>c DEF write_log
    <3>2. QED
        BY <3>1, <1>a
  <2>5. \A c \in Blocks : BufRead(c)' = BufRead(c)
    BY <1>5, <2>2, <2>4, <1>a DEF write_log, BufRead
  <2>6. QED
    BY <2>1, <2>2, <2>3, <2>5 DEF Current
<1>6. ASSUME NEW p \in Procs, write_head(p)
      PROVE Abstract!Commit
  <2>1. p \in InCommit /\ boot = "done" /\ \A q \in Procs : pc[q] # "install"
    BY <1>6, <1>b DEF write_head, ControlInv, InCommit, CommitPcs
  <2>2. InOp = {} /\ InOp' = {}
    BY <1>6, <2>1, <1>a, <1>b DEF write_head, ControlInv, InOp, Counted
  <2>3. UNCHANGED <<cache, home, boot, logd>> /\ hd' = lh /\ lh' = lh
    BY <1>6 DEF write_head
  <2>4. Current' = Current
    BY <2>1, <2>3 DEF Current, BufRead
  <2>5. \A i \in 1 .. Len(lh) : logd[i] = BufRead(lh[i])
    <3>1. pc'[p] = "install"
        BY <1>6, <1>a DEF write_head
    <3>2. \A c : BufRead(c)' = BufRead(c)
        BY <2>3 DEF BufRead
    <3>3. QED
        BY <2>3, <3>1, <3>2, <1>b DEF DataInv
  <2>6. \A b \in Blocks : (\A i \in 1 .. Len(lh) : lh[i] # b) => BufRead(b) = home[b]
    <3> SUFFICES ASSUME NEW b \in Blocks, \A i \in 1 .. Len(lh) : lh[i] # b
                 PROVE  BufRead(b) = home[b]
        OBVIOUS
    <3>1. ~ pins[b] > 0
        BY <2>1, <1>b DEF HeaderInv
    <3>2. pins[b] = 0
        BY <3>1, <1>c
    <3>3. QED
        BY <3>2, <1>b, Zenon DEF DataInv, BufRead
  <2>7. Current = [b \in Blocks |-> BufRead(b)]
    BY <2>1 DEF Current
  <2>8. Overlay(lh, logd, home) = Current
    <3>1. lh \in Seq(Blocks) /\ NoDup(lh)
        BY <1>a, <1>b DEF HeaderInv
    <3>2. \A i \in 1 .. Len(lh) : logd[i] = Current[lh[i]]
        BY <2>5, <2>7, <3>1
    <3>3. \A b \in Blocks : (\A i \in 1 .. Len(lh) : lh[i] # b) => home[b] = Current[b]
        BY <2>6, <2>7
    <3>4. Current = [b \in Blocks |-> Current[b]]
        BY <2>7
    <3>5. QED
        BY <3>1, <3>2, <3>3, <3>4, OverlayIs
  <2>9. Durable' = Current
    BY <2>3, <2>8 DEF Durable
  <2>10. QED
    BY <2>2, <2>4, <2>9 DEF Abstract!Commit
<1>7. ASSUME NEW p \in Procs, install_trans(p)
      PROVE UNCHANGED <<Durable, Current, InOp>>
  <2> DEFINE t == tail[p]
             b == lh[t]
  <2>1. boot = "done" /\ hd = lh
    BY <1>7, <1>b, OneInstaller DEF install_trans, HeaderInv
  <2>2. t \in 1 .. Len(lh) /\ b \in Blocks /\ logd[t] # NoBuf
    <3>1. t \in 1 .. Len(lh) /\ t \in Slots
        BY <1>7, <1>c, ConstAssumption DEF install_trans, Slots
    <3>2. QED
        BY <3>1, <1>a, ConstAssumption
  <2>3. /\ cache' = [cache EXCEPT ![b] = logd[t]]
        /\ home' = [home EXCEPT ![b] = logd[t]]
        /\ UNCHANGED <<hd, logd, pc, boot>>
    BY <1>7 DEF install_trans
  <2>4. logd[t] = BufRead(b)
    <3>1. pc[p] = "install"
        BY <1>7 DEF install_trans
    <3>2. QED
        BY <3>1, <2>2, <1>b, Zenon DEF DataInv
  <2> HIDE DEF t, b
  <2>5. \A c \in Blocks : BufRead(c)' = BufRead(c)
    BY <2>2, <2>3, <2>4, <1>a DEF BufRead
  <2>6. Durable' = Durable
    BY <2>1, <2>2, <2>3, <1>a DEF Durable, Overlay, b
  <2>7. QED
    BY <2>1, <2>3, <2>5, <2>6 DEF Current, InOp
<1>8. ASSUME NEW p \in Procs, clear_head(p)
      PROVE UNCHANGED <<Durable, Current, InOp>>
  <2>1. boot = "done" /\ hd = lh /\ \A i \in 1 .. Len(lh) : logd[i] = home[lh[i]]
    <3>1. boot = "done" /\ hd = lh
        BY <1>8, <1>b, OneInstaller DEF clear_head, HeaderInv
    <3>2. \A i \in 1 .. Len(lh) : i < tail[p]
        BY <1>8, <1>c DEF clear_head
    <3>3. QED
        BY <1>8, <3>1, <3>2, <1>b DEF clear_head, DataInv
  <2>2. UNCHANGED <<cache, home, boot>> /\ hd' = <<>>
    BY <1>8 DEF clear_head
  <2>3. NoDup(hd) /\ hd \in Seq(Blocks)
    BY <1>a, <1>b DEF HeaderInv
  <2>4. home \in [Blocks -> Vals] /\ \A i \in 1 .. Len(hd) : logd[i] = home[hd[i]]
    BY <2>1, <1>a
  <2>5. Durable = home /\ Durable' = home
    <3>1. Overlay(hd, logd, home) = home
        BY <2>3, <2>4, OverlayDone, Zenon
    <3>2. QED
        BY <2>2, <2>4, <3>1, OverlayEmpty DEF Durable
  <2>6. InOp' = InOp
    BY <1>8, <1>a DEF clear_head, InOp
  <2>7. QED
    BY <2>1, <2>2, <2>5, <2>6 DEF Current, BufRead
<1>9. ASSUME NEW b \in Blocks, Recycle(b)
      PROVE UNCHANGED <<Durable, Current, InOp>>
  <2>1. cache[b] = home[b] /\ cache' = [cache EXCEPT ![b] = NoBuf]
    BY <1>9, <1>b DEF Recycle, DataInv
  <2>2. UNCHANGED <<home, hd, logd, boot, pc>>
    BY <1>9 DEF Recycle
  <2>3. \A c \in Blocks : BufRead(c)' = BufRead(c)
    BY <2>1, <2>2, <1>a DEF BufRead
  <2>4. Durable' = Durable /\ InOp' = InOp
    BY <2>2 DEF Durable, InOp
  <2>5. QED
    BY <2>2, <2>3, <2>4 DEF Current
<1>10. CASE read_head
    BY <1>10 DEF read_head, Durable, Current, InOp
<1>11. CASE recover_install
  <2>1. btail \in 1 .. Len(lh) /\ lh = hd
    <3>1. btail \in 1 .. Len(lh)
        BY <1>11, <1>c DEF recover_install
    <3>2. lh = hd
        BY <1>11, <1>b, Zenon DEF recover_install, HeaderInv
    <3>3. QED
        BY <3>1, <3>2
  <2>2. home' = [home EXCEPT ![hd[btail]] = logd[btail]] /\ UNCHANGED <<hd, logd>>
    BY <1>11, <2>1 DEF recover_install
  <2>3. Durable' = Durable
    BY <2>1, <2>2, <1>a DEF Durable, Overlay
  <2>4. QED
    BY <1>11, <2>3 DEF recover_install, Current, InOp
<1>12. CASE recover_clear_head
  <2>1. lh = hd /\ \A i \in 1 .. Len(hd) : logd[i] = home[hd[i]]
    <3>1. \A i \in 1 .. Len(lh) : i < btail
        BY <1>12, <1>c DEF recover_clear_head
    <3>2. boot = "install" /\ lh = hd
        BY <1>12, <1>b DEF recover_clear_head, HeaderInv
    <3>3. \A i \in 1 .. Len(lh) : i < btail => logd[i] = home[lh[i]]
        BY <3>2, <1>b, Zenon DEF DataInv
    <3>4. QED
        BY <3>1, <3>2, <3>3, Zenon
  <2>2. UNCHANGED <<cache, home, pins, pc>> /\ hd' = <<>> /\ boot' = "done" /\ boot # "done"
    BY <1>12 DEF recover_clear_head
  <2>3. NoDup(hd) /\ hd \in Seq(Blocks)
    BY <1>a, <1>b DEF HeaderInv
  <2>4. home \in [Blocks -> Vals] /\ \A i \in 1 .. Len(hd) : logd[i] = home[hd[i]]
    BY <2>1, <1>a
  <2>5. Durable = home /\ Durable' = home
    <3>1. Overlay(hd, logd, home) = home
        BY <2>3, <2>4, OverlayDone, Zenon
    <3>2. QED
        BY <2>2, <2>4, <3>1, OverlayEmpty DEF Durable
  <2>6. \A b \in Blocks : BufRead(b)' = home[b]
    BY <2>2, <1>b, Zenon DEF BufRead, DataInv, HeaderInv
  <2>7. Current = home /\ Current' = home
    BY <2>2, <2>5, <2>6, <1>a DEF Current
  <2>8. QED
    BY <2>2, <2>5, <2>7 DEF InOp
<1>13. CASE Crash
  <2>1. Durable' = Durable /\ InOp' = {}
    BY <1>13 DEF Crash, Durable, InOp
  <2>2. Current' = Durable
    BY <1>13, <2>1 DEF Crash, Current
  <2>3. QED
    BY <2>1, <2>2 DEF Abstract!Crash, Abstract!Next
<1>14. CASE UNCHANGED vars
    BY <1>14, SameImages DEF vars, InOp
<1>15. QED
    BY <1>0, <1>1, <1>2, <1>3, <1>4, <1>5, <1>6, <1>7, <1>8, <1>9, <1>10, <1>11,
       <1>12, <1>13, <1>14 DEF Next, ProcStep, Recover, Abstract!Next

\* log.c implements the atomic disk: for any number of processes, blocks and
\* log slots, a crash at any point of any interleaving leaves the writes of
\* whole calls only.
THEOREM LogImplementsAtomicDisk == Spec => CrashAtomic
<1>1. Spec => Abstract!Init
    BY AbstractInit DEF Spec
<1>2. Spec => [][Abstract!Next]_(Abstract!avars)
    BY Invariance, AbstractNext, PTL DEF Spec
<1>3. QED
    BY <1>1, <1>2, PTL DEF CrashAtomic, Abstract!Spec
=============================================================================
