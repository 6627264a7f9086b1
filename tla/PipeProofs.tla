----------------------------- MODULE PipeProofs -----------------------------
(***************************************************************************)
(* Proofs about Pipe for any readers, writers, sizes of the buffer and     *)
(* width of the counters (any multiple of the size).                       *)
(*                                                                         *)
(* PipeInv is inductive.  Its parts say who holds pi->lock (LockInv), who  *)
(* may still use an end (EndsInv), how full the pipe is (CountInv) and     *)
(* what a sleeper sleeps on while the lock may be held (SleepInv).         *)
(***************************************************************************)
EXTENDS Pipe, ModuloProofs

Writing == {"w_lock", "w_loop", "w_sleep", "w_asleep"}
Reading == {"r_lock", "r_loop", "r_sleep", "r_asleep", "r_copy"}
Holding == {"w_loop", "w_sleep", "r_loop", "r_sleep", "r_copy"}

\* pi->lock is held exactly by the process between acquire() and release().
LockInv == \A p \in Procs : pc[p] \in Holding <=> lock = p

\* A process inside a call has its end open; the last close() of an end is
\* made once, when nobody has that end open any more; the pipe is freed when
\* both ends have been closed.
EndsInv ==
    /\ \A p \in Procs : pc[p] \in Writing => p \in Writers /\ p \in open
    /\ \A p \in Procs : pc[p] \in Reading => p \in Readers /\ p \in open
    /\ \A p \in Procs : pc[p] = "close" => open \intersect End(p) = {}
    /\ \A p, q \in Procs : pc[p] = "close" /\ pc[q] = "close" /\ End(p) = End(q) => p = q
    /\ readopen = 0 => \A p \in Readers : p \notin open /\ pc[p] = "user"
    /\ writeopen = 0 => \A p \in Writers : p \notin open /\ pc[p] = "user"
    /\ alloc = 0 => readopen = 0 /\ writeopen = 0

\* The counters are never further apart than the buffer is long.
CountInv == (nwrite - nread) % UINT <= PIPESIZE

\* While the lock is held a sleeper may be about to be woken: a writer by a
\* reader that copies, a reader by a writer that has stored something.
SleepInv ==
    /\ \A p \in Procs : pc[p] = "w_sleep" => Full /\ readopen = 1
    /\ \A p \in Procs : pc[p] = "r_sleep" => Empty /\ writeopen = 1
    /\ \A p \in Procs : pc[p] = "w_asleep" =>
          readopen = 1 /\ (Full \/ \E q \in Procs : pc[q] = "r_copy")
    /\ \A p \in Procs : pc[p] = "r_asleep" =>
          /\ writeopen = 1
          /\ \/ Empty
             \/ \E q \in Writers : pc[q] = "w_loop" \/ killed[q] = 1

PipeInv == TypeOK /\ LockInv /\ EndsInv /\ CountInv /\ SleepInv

-----------------------------------------------------------------------------
(* Types and the lock *)

\* Indices of the buffer, and counters, stay in range when they wrap.
LEMMA Wraps ==
    ASSUME NEW x \in Int
    PROVE  x % UINT \in 0 .. UINT - 1 /\ x % PIPESIZE \in 0 .. PIPESIZE - 1
<1>1. UINT \in Int /\ UINT > 0 /\ PIPESIZE \in Int /\ PIPESIZE > 0
    BY PipeAssumption
<1>2. QED
    BY <1>1

\* The first state is well typed (pipealloc()).
LEMMA TypeInit == Init => TypeOK
BY PipeAssumption DEF Init, TypeOK

\* A process that leaves a call.
LEMMA ReturnTypes ==
    ASSUME TypeOK, NEW p \in Procs, return(p)
    PROVE  /\ lock' \in Procs \union {None}
           /\ i' \in [Procs -> 0 .. MaxN] /\ n' \in [Procs -> 0 .. MaxN]
BY PipeAssumption DEF TypeOK, return

\* Every step keeps the types: counters wrap, loops stop at n.
LEMMA TypeNext == TypeOK /\ [Next]_vars => TypeOK'
<1> SUFFICES ASSUME TypeOK, [Next]_vars PROVE TypeOK'
    OBVIOUS
<1> USE DEF TypeOK, pipevars, WakeReaders, WakeWriters
<1>1. ASSUME NEW p \in Procs, w_lock(p) \/ r_lock(p) \/ sleep(p) PROVE TypeOK'
    BY <1>1 DEF w_lock, r_lock, sleep
<1>2. ASSUME NEW p \in Procs, w_fail(p) \/ r_killed(p) PROVE TypeOK'
    BY <1>2, ReturnTypes DEF w_fail, r_killed
<1>3. ASSUME NEW p \in Procs, w_full(p) \/ r_empty(p) \/ r_ready(p) PROVE TypeOK'
    BY <1>3 DEF w_full, r_empty, r_ready
<1>4. ASSUME NEW p \in Procs, w_done(p) \/ r_done(p) PROVE TypeOK'
    BY <1>4, ReturnTypes DEF w_done, r_done
<1>5. ASSUME NEW p \in Procs, NEW b \in Bytes, w_byte(p, b) PROVE TypeOK'
  <2>1. nwrite' \in 0 .. UINT - 1 /\ data' \in [0 .. PIPESIZE - 1 -> Bytes]
    BY <1>5, Wraps DEF w_byte
  <2>2. i' \in [Procs -> 0 .. MaxN]
    BY <1>5, PipeAssumption DEF w_byte
  <2>3. QED
    BY <1>5, <2>1, <2>2 DEF w_byte
<1>6. ASSUME NEW p \in Procs, r_byte(p) PROVE TypeOK'
  <2>1. nread' \in 0 .. UINT - 1 /\ ch' \in Bytes
    BY <1>6, Wraps DEF r_byte
  <2>2. i' \in [Procs -> 0 .. MaxN] /\ n' \in [Procs -> 0 .. MaxN]
    <3>1. CASE i' = [i EXCEPT ![p] = @ + 1] /\ UNCHANGED n
        BY <1>6, <3>1, PipeAssumption DEF r_byte
    <3>2. CASE return(p)
        BY <3>2, ReturnTypes
    <3>3. QED
        BY <1>6, <3>1, <3>2 DEF r_byte
  <2>3. lock' \in Procs \union {None}
    BY <1>6 DEF r_byte, return
  <2>4. pc' \in [Procs -> {"user", "close", "w_lock", "w_loop", "w_sleep", "w_asleep",
                           "r_lock", "r_loop", "r_sleep", "r_asleep", "r_copy"}]
    BY <1>6 DEF r_byte
  <2>5. QED
    BY <1>6, <2>1, <2>2, <2>3, <2>4 DEF r_byte
<1>7. ASSUME NEW p \in Procs, pipeclose(p) PROVE TypeOK'
    BY <1>7 DEF pipeclose
<1>8. ASSUME NEW p \in Procs, close(p) PROVE TypeOK'
    BY <1>8 DEF close
<1>9. ASSUME NEW p \in Procs, NEW m \in 0 .. MaxN, call(p, m) PROVE TypeOK'
    BY <1>9 DEF call
<1>10. ASSUME NEW p \in Killable, kill(p) PROVE TypeOK'
    BY <1>10 DEF kill
<1>11. CASE UNCHANGED vars
    BY <1>11 DEF vars
<1>12. QED
    BY <1>1, <1>2, <1>3, <1>4, <1>5, <1>6, <1>7, <1>8, <1>9, <1>10, <1>11 DEF Next, PipeStep

\* Every step keeps the lock with the process that is in its critical section.
LEMMA LockNext == TypeOK /\ LockInv /\ [Next]_vars => LockInv'
<1> SUFFICES ASSUME TypeOK, LockInv, [Next]_vars PROVE LockInv'
    OBVIOUS
<1>a. /\ pc \in [Procs -> Writing \union Reading \union {"user", "close"}]
      /\ open \subseteq Procs /\ None \notin Procs
    BY PipeAssumption DEF TypeOK, Writing, Reading
<1> USE DEF LockInv, Holding, pipevars, return, WakeReaders, WakeWriters
<1>1. ASSUME NEW p \in Procs, w_lock(p) \/ r_lock(p) \/ sleep(p) PROVE LockInv'
    BY <1>1, <1>a DEF w_lock, r_lock, sleep
<1>2. ASSUME NEW p \in Procs, w_fail(p) \/ r_killed(p) PROVE LockInv'
    BY <1>2, <1>a DEF w_fail, r_killed
<1>3. ASSUME NEW p \in Procs, w_full(p) \/ r_empty(p) \/ r_ready(p) PROVE LockInv'
    BY <1>3, <1>a DEF w_full, r_empty, r_ready
<1>4. ASSUME NEW p \in Procs, w_done(p) \/ r_done(p) PROVE LockInv'
    BY <1>4, <1>a DEF w_done, r_done
<1>5. ASSUME NEW p \in Procs, NEW b \in Bytes, w_byte(p, b) PROVE LockInv'
    BY <1>5 DEF w_byte
<1>6. ASSUME NEW p \in Procs, r_byte(p) PROVE LockInv'
    BY <1>6, <1>a DEF r_byte
<1>7. ASSUME NEW p \in Procs, pipeclose(p) PROVE LockInv'
    BY <1>7, <1>a DEF pipeclose
<1>8. ASSUME NEW p \in Procs, close(p) PROVE LockInv'
    BY <1>8, <1>a DEF close
<1>9. ASSUME NEW p \in Procs, NEW m \in 0 .. MaxN, call(p, m) PROVE LockInv'
    BY <1>9, <1>a DEF call
<1>10. ASSUME NEW p \in Killable, kill(p) PROVE LockInv'
    BY <1>10, <1>a DEF kill
<1>11. CASE UNCHANGED vars
    BY <1>11 DEF vars
<1>12. QED
    BY <1>1, <1>2, <1>3, <1>4, <1>5, <1>6, <1>7, <1>8, <1>9, <1>10, <1>11 DEF Next, PipeStep

-----------------------------------------------------------------------------
(* The ends *)

\* Steps of a call: nobody opens or closes an end, and a process that is at
\* work stays inside or returns.
LEMMA EndsStutter ==
    ASSUME EndsInv, UNCHANGED <<open, readopen, writeopen, alloc>>,
           \A p \in Procs : \/ pc'[p] = pc[p]
                            \/ pc[p] \in Writing /\ pc'[p] \in Writing \union {"user"}
                            \/ pc[p] \in Reading /\ pc'[p] \in Reading \union {"user"}
    PROVE  EndsInv'
<1>1. \A p \in Procs : /\ pc'[p] \in Writing => pc[p] \in Writing
                       /\ pc'[p] \in Reading => pc[p] \in Reading
                       /\ pc'[p] = "close" => pc[p] = "close"
                       /\ pc[p] = "user" => pc'[p] = "user"
    BY DEF Writing, Reading
<1>2. Readers \subseteq Procs /\ Writers \subseteq Procs
    BY DEF Procs
<1>3. QED
    BY <1>1, <1>2 DEF EndsInv, End

\* Every step keeps the ends in order: fileclose() calls pipeclose() once for
\* each of them, after the last descriptor is gone.
LEMMA EndsNext == TypeOK /\ EndsInv /\ [Next]_vars => EndsInv'
<1> SUFFICES ASSUME TypeOK, EndsInv, [Next]_vars PROVE EndsInv'
    OBVIOUS
<1>a. /\ pc \in [Procs -> Writing \union Reading \union {"user", "close"}]
      /\ open \subseteq Procs
    BY DEF TypeOK, Writing, Reading
<1>b. readopen \in {0, 1} /\ writeopen \in {0, 1} /\ alloc \in {0, 1}
    BY DEF TypeOK
<1>c. Readers \subseteq Procs /\ Writers \subseteq Procs
    BY DEF Procs
<1>d. Readers \intersect Writers = {}
    BY PipeAssumption
<1> USE DEF pipevars, return, WakeReaders, WakeWriters
<1>1. ASSUME NEW p \in Procs, w_lock(p) \/ r_lock(p) \/ sleep(p) PROVE EndsInv'
    BY <1>1, <1>a, EndsStutter DEF w_lock, r_lock, sleep, Writing, Reading
<1>2. ASSUME NEW p \in Procs, w_fail(p) \/ r_killed(p) PROVE EndsInv'
    BY <1>2, <1>a, EndsStutter DEF w_fail, r_killed, Writing, Reading
<1>3. ASSUME NEW p \in Procs, w_full(p) \/ r_empty(p) \/ r_ready(p) PROVE EndsInv'
    BY <1>3, <1>a, EndsStutter DEF w_full, r_empty, r_ready, Writing, Reading
<1>4. ASSUME NEW p \in Procs, w_done(p) \/ r_done(p) PROVE EndsInv'
    BY <1>4, <1>a, EndsStutter DEF w_done, r_done, Writing, Reading
<1>5. ASSUME NEW p \in Procs, NEW b \in Bytes, w_byte(p, b) PROVE EndsInv'
    BY <1>5, EndsStutter DEF w_byte
<1>6. ASSUME NEW p \in Procs, r_byte(p) PROVE EndsInv'
    BY <1>6, <1>a, EndsStutter DEF r_byte, Writing, Reading
<1>7. ASSUME NEW p \in Procs, pipeclose(p) PROVE EndsInv'
  <2>1. \A q \in Procs : q # p => /\ pc'[q] \in Writing => pc[q] \in Writing
                                  /\ pc'[q] \in Reading => pc[q] \in Reading
                                  /\ pc'[q] = "close" => pc[q] = "close"
                                  /\ pc[q] = "user" => pc'[q] = "user"
    BY <1>7, <1>a DEF pipeclose, Writing, Reading
  <2>2. pc'[p] = "user" /\ open' = open /\ pc[p] = "close" /\ open \intersect End(p) = {}
    BY <1>7, <1>a DEF pipeclose, EndsInv
  <2>3. \A q \in End(p) : q # p => pc[q] = "user"
    <3> SUFFICES ASSUME NEW q \in End(p), q # p PROVE pc[q] = "user"
        OBVIOUS
    <3>1. q \in Procs /\ End(q) = End(p) /\ q \notin open
        BY <2>2, <1>c, <1>d DEF End, Procs
    <3>2. pc[q] # "close"
        BY <2>2, <3>1 DEF EndsInv
    <3>3. pc[q] \notin Writing /\ pc[q] \notin Reading
        BY <3>1 DEF EndsInv
    <3>4. QED
        BY <3>1, <3>2, <3>3, <1>a
  <2>4. \A q \in End(p) : q \notin open /\ pc'[q] = "user"
    BY <2>1, <2>2, <2>3, <1>c DEF End
  <2>5. CASE p \in Writers
    <3>1. End(p) = Writers
        BY <2>5, <1>d DEF End
    <3>2. /\ writeopen' = 0 /\ readopen' = readopen
          /\ alloc' = 0 => readopen' = 0 /\ writeopen' = 0
        BY <1>7, <2>5 DEF pipeclose, EndsInv
    <3>3. QED
        BY <2>1, <2>2, <2>4, <3>1, <3>2, <1>c DEF EndsInv, End, Writing, Reading
  <2>6. CASE p \notin Writers
    <3>1. End(p) = Readers
        BY <2>6 DEF End, Procs
    <3>2. /\ readopen' = 0 /\ writeopen' = writeopen
          /\ alloc' = 0 => readopen' = 0 /\ writeopen' = 0
        BY <1>7, <2>6 DEF pipeclose, EndsInv
    <3>3. QED
        BY <2>1, <2>2, <2>4, <3>1, <3>2, <1>c DEF EndsInv, End, Writing, Reading
  <2>7. QED
    BY <2>5, <2>6
<1>8. ASSUME NEW p \in Procs, close(p) PROVE EndsInv'
  <2>1. /\ pc[p] = "user" /\ p \in open /\ open' = open \ {p}
        /\ UNCHANGED <<readopen, writeopen, alloc>>
        /\ \A q \in Procs : q # p => pc'[q] = pc[q]
    BY <1>8, <1>a DEF close
  <2>2. /\ pc'[p] \in {"user", "close"}
        /\ pc'[p] = "close" => open' \intersect End(p) = {}
    BY <1>8, <1>a DEF close
  <2>3. \A q \in Procs : pc[q] = "close" => End(q) # End(p)
    BY <2>1 DEF EndsInv, End, Procs
  <2>4. /\ p \in Readers => readopen # 0
        /\ p \in Writers => writeopen # 0
    BY <2>1 DEF EndsInv
  <2>5. /\ \A q \in Procs : pc'[q] \in Writing => q \in Writers /\ q \in open'
        /\ \A q \in Procs : pc'[q] \in Reading => q \in Readers /\ q \in open'
    BY <2>1, <2>2 DEF EndsInv, Writing, Reading
  <2>6. \A q \in Procs : pc'[q] = "close" => open' \intersect End(q) = {}
    BY <2>1, <2>2 DEF EndsInv
  <2>7. \A q, u \in Procs : pc'[q] = "close" /\ pc'[u] = "close" /\ End(q) = End(u) => q = u
    BY <2>1, <2>2, <2>3 DEF EndsInv
  <2>8. /\ readopen' = 0 => \A q \in Readers : q \notin open' /\ pc'[q] = "user"
        /\ writeopen' = 0 => \A q \in Writers : q \notin open' /\ pc'[q] = "user"
    BY <2>1, <2>4, <1>c DEF EndsInv
  <2>9. alloc' = 0 => readopen' = 0 /\ writeopen' = 0
    BY <2>1 DEF EndsInv
  <2>10. QED
    BY <2>5, <2>6, <2>7, <2>8, <2>9 DEF EndsInv, End
<1>9. ASSUME NEW p \in Procs, NEW m \in 0 .. MaxN, call(p, m) PROVE EndsInv'
  <2>1. /\ pc[p] = "user" /\ p \in open
        /\ UNCHANGED <<open, readopen, writeopen, alloc>>
        /\ \A q \in Procs : q # p => pc'[q] = pc[q]
        /\ pc'[p] = IF p \in Readers THEN "r_lock" ELSE "w_lock"
    BY <1>9, <1>a DEF call
  <2>2. /\ p \in Readers => readopen # 0
        /\ p \in Writers => writeopen # 0
    BY <2>1 DEF EndsInv
  <2>3. QED
    BY <2>1, <2>2, <1>c, <1>d DEF EndsInv, End, Writing, Reading, Procs
<1>10. ASSUME NEW p \in Killable, kill(p) PROVE EndsInv'
    BY <1>10, <1>a, EndsStutter DEF kill, Writing, Reading
<1>11. CASE UNCHANGED vars
    BY <1>11, EndsStutter DEF vars
<1>12. QED
    BY <1>1, <1>2, <1>3, <1>4, <1>5, <1>6, <1>7, <1>8, <1>9, <1>10, <1>11 DEF Next, PipeStep

-----------------------------------------------------------------------------
(* How full the pipe is *)

Count == (nwrite - nread) % UINT

\* What the assumptions and the types say about the counters.
LEMMA Counters == ASSUME TypeOK PROVE Ring(UINT, PIPESIZE, nread, nwrite)
BY PipeAssumption DEF TypeOK, Ring

\* The test in pipewrite() is for PIPESIZE bytes, the one in piperead() for none.
LEMMA FullEmpty ==
    ASSUME TypeOK
    PROVE  Count \in Nat /\ (Full <=> Count = PIPESIZE) /\ (Empty <=> Count = 0)
BY Counters, RingCount DEF Count, Full, Empty

\* A byte stored and a byte taken out.
LEMMA CountPut ==
    ASSUME TypeOK, CountInv, NEW p \in Procs, NEW b, w_byte(p, b)
    PROVE  Count < PIPESIZE /\ Count' = Count + 1
<1>1. Count <= PIPESIZE /\ Count # PIPESIZE /\ Count \in Nat
    BY FullEmpty DEF CountInv, Count, w_byte
<1>2. Count + 1 < UINT /\ Count < PIPESIZE
    BY <1>1, PipeAssumption
<1>3. (((nwrite + 1) % UINT) - nread) % UINT = ((nwrite - nread) % UINT) + 1
    BY <1>2, Counters, RingPut DEF Count
<1>4. nwrite' = (nwrite + 1) % UINT /\ nread' = nread
    BY DEF w_byte
<1>5. QED
    BY <1>2, <1>3, <1>4, Zenon DEF Count

\* piperead() takes one byte out.
LEMMA CountGet ==
    ASSUME TypeOK, NEW p \in Procs, r_byte(p)
    PROVE  Count > 0 /\ Count' = Count - 1
<1>1. nread # nwrite
    BY DEF r_byte, Empty
<1>2. (nwrite - nread) % UINT > 0
      /\ (nwrite - ((nread + 1) % UINT)) % UINT = ((nwrite - nread) % UINT) - 1
    BY <1>1, Counters, RingGet
<1>3. nread' = (nread + 1) % UINT /\ nwrite' = nwrite
    BY DEF r_byte
<1>4. QED
    BY <1>2, <1>3, Zenon DEF Count

\* Steps other than these leave buffer and counters alone.
LEMMA OthersKeep ==
    ASSUME [Next]_vars,
           \A p \in Procs : ~r_byte(p) /\ \A b \in Bytes : ~w_byte(p, b)
    PROVE  UNCHANGED <<data, nread, nwrite, ch>>
<1> USE DEF pipevars
<1>1. ASSUME NEW p \in Procs, w_lock(p) \/ r_lock(p) \/ sleep(p) \/ w_fail(p) \/ r_killed(p)
      PROVE UNCHANGED <<data, nread, nwrite, ch>>
    BY <1>1 DEF w_lock, r_lock, sleep, w_fail, r_killed
<1>2. ASSUME NEW p \in Procs, w_full(p) \/ r_empty(p) \/ r_ready(p) \/ w_done(p) \/ r_done(p)
      PROVE UNCHANGED <<data, nread, nwrite, ch>>
    BY <1>2 DEF w_full, r_empty, r_ready, w_done, r_done
<1>3. ASSUME NEW p \in Procs, pipeclose(p) \/ close(p)
      PROVE UNCHANGED <<data, nread, nwrite, ch>>
    BY <1>3 DEF pipeclose, close
<1>4. ASSUME NEW p \in Procs, NEW m \in 0 .. MaxN, call(p, m)
      PROVE UNCHANGED <<data, nread, nwrite, ch>>
    BY <1>4 DEF call
<1>5. ASSUME NEW p \in Killable, kill(p) PROVE UNCHANGED <<data, nread, nwrite, ch>>
    BY <1>5 DEF kill
<1>6. CASE UNCHANGED vars
    BY <1>6 DEF vars
<1>7. QED
    BY <1>1, <1>2, <1>3, <1>4, <1>5, <1>6 DEF Next, PipeStep

\* Every step keeps the counters within PIPESIZE of each other.
LEMMA CountNext == TypeOK /\ CountInv /\ [Next]_vars => CountInv'
<1> SUFFICES ASSUME TypeOK, CountInv, [Next]_vars PROVE Count' <= PIPESIZE
    BY DEF CountInv, Count
<1>1. ASSUME NEW p \in Procs, NEW b \in Bytes, w_byte(p, b) PROVE Count' <= PIPESIZE
    BY <1>1, CountPut, FullEmpty, PipeAssumption
<1>2. ASSUME NEW p \in Procs, r_byte(p) PROVE Count' <= PIPESIZE
    BY <1>2, CountGet, FullEmpty, PipeAssumption DEF CountInv, Count
<1>3. CASE UNCHANGED <<data, nread, nwrite, ch>>
    BY <1>3 DEF CountInv, Count
<1>4. QED
    BY <1>1, <1>2, <1>3, OthersKeep

-----------------------------------------------------------------------------
(* Sleepers *)

\* Steps that leave the counters and the ends alone, and wake the other side
\* if they end a loop that may have changed something.
LEMMA SleepStutter ==
    ASSUME SleepInv, Full' <=> Full, Empty' <=> Empty, UNCHANGED <<readopen, writeopen>>,
           \A q \in Writers : killed[q] = 1 => killed'[q] = 1,
           \A p \in Procs : pc'[p] = "w_sleep" => pc[p] = "w_sleep" \/ (Full /\ readopen = 1),
           \A p \in Procs : pc'[p] = "r_sleep" => pc[p] = "r_sleep" \/ (Empty /\ writeopen = 1),
           \A p \in Procs : pc'[p] = "w_asleep" => pc[p] \in {"w_asleep", "w_sleep"},
           \A p \in Procs : pc'[p] = "r_asleep" => pc[p] \in {"r_asleep", "r_sleep"},
           \/ \A q \in Procs : pc[q] = "r_copy" => pc'[q] = "r_copy"
           \/ \A p \in Procs : pc'[p] # "w_asleep",
           \/ \A q \in Writers : pc[q] = "w_loop" => pc'[q] = "w_loop" \/ killed'[q] = 1
           \/ \A p \in Procs : pc'[p] # "r_asleep"
    PROVE  SleepInv'
<1>1. \A p \in Procs : pc'[p] = "w_asleep" =>
          readopen' = 1 /\ (Full' \/ \E q \in Procs : pc'[q] = "r_copy")
    BY DEF SleepInv
<1>2. \A p \in Procs : pc'[p] = "r_asleep" =>
          /\ writeopen' = 1
          /\ Empty' \/ \E q \in Writers : pc'[q] = "w_loop" \/ killed'[q] = 1
    BY DEF SleepInv
<1>3. QED
    BY <1>1, <1>2 DEF SleepInv

\* Only the two counters say whether the pipe is full or empty.
LEMMA SameCounters ==
    UNCHANGED <<nread, nwrite>> => (Full' <=> Full) /\ (Empty' <=> Empty)
BY DEF Full, Empty

\* Every step keeps sleepers on their condition, or on a process that will
\* wake them before it releases the lock.
LEMMA SleepNext ==
    TypeOK /\ LockInv /\ EndsInv /\ SleepInv /\ [Next]_vars => SleepInv'
<1> SUFFICES ASSUME TypeOK, LockInv, EndsInv, SleepInv, [Next]_vars PROVE SleepInv'
    OBVIOUS
<1>a. /\ pc \in [Procs -> Writing \union Reading \union {"user", "close"}]
      /\ open \subseteq Procs /\ killed \in [Procs -> {0, 1}] /\ None \notin Procs
    BY PipeAssumption DEF TypeOK, Writing, Reading
<1>b. Readers \subseteq Procs /\ Writers \subseteq Procs /\ Readers \intersect Writers = {}
    BY PipeAssumption DEF Procs
<1>c. /\ \A p, q \in Procs : pc[p] \in Holding /\ pc[q] \in Holding => p = q
      /\ lock = None => \A p \in Procs : pc[p] \notin Holding
    BY <1>a DEF LockInv
<1> USE DEF Holding, pipevars, return, WakeReaders, WakeWriters
<1>1. ASSUME NEW p \in Procs, w_lock(p) \/ r_lock(p) PROVE SleepInv'
    BY <1>1, <1>a, <1>b, SleepStutter, SameCounters DEF w_lock, r_lock
<1>2. ASSUME NEW p \in Procs, sleep(p) PROVE SleepInv'
    BY <1>2, <1>a, <1>b, SleepStutter, SameCounters DEF sleep
<1>3. ASSUME NEW p \in Procs, w_fail(p) PROVE SleepInv'
  <2>1. killed[p] = 1 \/ \A q \in Procs : pc[q] # "r_asleep"
    BY <1>3, <1>b DEF w_fail, EndsInv, Reading
  <2>2. QED
    BY <1>3, <2>1, <1>a, <1>b, SleepStutter, SameCounters DEF w_fail
<1>4. ASSUME NEW p \in Procs, r_killed(p) \/ r_empty(p) \/ r_ready(p) PROVE SleepInv'
    BY <1>4, <1>a, <1>b, SleepStutter, SameCounters DEF r_killed, r_empty, r_ready
<1>5. ASSUME NEW p \in Procs, w_full(p) \/ w_done(p) PROVE SleepInv'
  <2>1. \A q \in Procs : pc'[q] # "r_asleep"
    BY <1>5, <1>a DEF w_full, w_done
  <2>2. QED
    BY <1>5, <2>1, <1>a, <1>b, SleepStutter, SameCounters DEF w_full, w_done
<1>6. ASSUME NEW p \in Procs, r_done(p) PROVE SleepInv'
  <2>1. \A q \in Procs : pc'[q] # "w_asleep"
    BY <1>6, <1>a DEF r_done
  <2>2. QED
    BY <1>6, <2>1, <1>a, <1>b, SleepStutter, SameCounters DEF r_done
<1>7. ASSUME NEW p \in Procs, NEW b \in Bytes, w_byte(p, b) PROVE SleepInv'
  <2>1. p \in Writers /\ pc[p] = "w_loop" /\ UNCHANGED <<pc, readopen, writeopen>>
    BY <1>7 DEF w_byte, EndsInv, Writing
  <2>2. \A q \in Procs : pc[q] \notin {"w_sleep", "r_sleep", "w_asleep"}
    BY <1>7, <2>1, <1>c DEF w_byte, SleepInv
  <2>3. QED
    BY <2>1, <2>2 DEF SleepInv
<1>8. ASSUME NEW p \in Procs, r_byte(p) PROVE SleepInv'
  <2>1. pc[p] = "r_copy" /\ ~Empty /\ UNCHANGED <<readopen, writeopen, killed>>
    BY <1>8 DEF r_byte
  <2>2. \A q \in Procs : pc[q] \notin {"w_sleep", "r_sleep", "w_loop"}
    BY <2>1, <1>c
  <2>3. \A q \in Procs : pc'[q] \in {"w_sleep", "r_sleep", "w_asleep", "r_asleep"} => pc'[q] = pc[q]
    BY <1>8, <1>a DEF r_byte
  <2>4. pc'[p] = "r_copy" \/ \A q \in Procs : pc'[q] # "w_asleep"
    BY <1>8, <2>1, <1>a DEF r_byte
  <2>5. \A q \in Procs : pc[q] = "r_asleep" => writeopen = 1 /\ \E u \in Writers : killed[u] = 1
    BY <2>1, <2>2, <1>b DEF SleepInv
  <2>6. QED
    BY <2>1, <2>2, <2>3, <2>4, <2>5 DEF SleepInv
<1>9. ASSUME NEW p \in Procs, pipeclose(p) PROVE SleepInv'
  <2>1. pc[p] = "close" /\ UNCHANGED <<nread, nwrite, killed>>
    BY <1>9 DEF pipeclose
  <2>2. \A q \in Procs : pc[q] \notin Holding
    BY <1>9, <1>c DEF pipeclose
  <2>3. \A q \in Procs : /\ pc'[q] \notin {"w_sleep", "r_sleep"}
                         /\ pc'[q] \in {"w_asleep", "r_asleep"} => pc'[q] = pc[q]
    BY <1>9, <2>2, <1>a DEF pipeclose
  <2>4. /\ readopen' = readopen \/ \A q \in Procs : pc'[q] # "w_asleep"
        /\ writeopen' = writeopen \/ \A q \in Procs : pc'[q] # "r_asleep"
    BY <1>9, <1>a DEF pipeclose
  <2>5. QED
    BY <2>1, <2>2, <2>3, <2>4, <1>b, SameCounters DEF SleepInv
<1>10. ASSUME NEW p \in Procs, close(p) PROVE SleepInv'
    BY <1>10, <1>a, <1>b, SleepStutter, SameCounters DEF close
<1>11. ASSUME NEW p \in Procs, NEW m \in 0 .. MaxN, call(p, m) PROVE SleepInv'
    BY <1>11, <1>a, <1>b, SleepStutter, SameCounters DEF call
<1>12. ASSUME NEW p \in Killable, kill(p) PROVE SleepInv'
    BY <1>12, <1>a, <1>b, SleepStutter, SameCounters DEF kill
<1>13. CASE UNCHANGED vars
    BY <1>13, SleepStutter, SameCounters DEF vars
<1>14. QED
    BY <1>1, <1>2, <1>3, <1>4, <1>5, <1>6, <1>7, <1>8, <1>9, <1>10, <1>11, <1>12, <1>13
    DEF Next, PipeStep

-----------------------------------------------------------------------------
(* The pipe as a queue *)

\* What is in the pipe is a sequence of bytes.
IsContents ==
    /\ Contents \in Seq(Bytes) /\ Len(Contents) = Count
    /\ \A k \in 1 .. Count : Contents[k] = data[(nread + k - 1) % PIPESIZE]

\* The contents are the Count bytes of the ring from nread on.
LEMMA ContentsIs == TypeOK => IsContents
<1> SUFFICES ASSUME TypeOK PROVE IsContents
    OBVIOUS
<1>1. Contents = [k \in 1 .. Count |-> data[(nread + k - 1) % PIPESIZE]]
    BY DEF Contents, Count
<1>2. Count \in Nat /\ nread \in Int
    BY FullEmpty, Counters DEF Ring
<1>3. ASSUME NEW k \in 1 .. Count PROVE data[(nread + k - 1) % PIPESIZE] \in Bytes
  <2>1. (nread + k - 1) % PIPESIZE \in 0 .. PIPESIZE - 1
    BY <1>2, Wraps
  <2>2. QED
    BY <2>1 DEF TypeOK
<1> HIDE DEF Contents, Count
<1>4. QED
    BY <1>1, <1>2, <1>3 DEF IsContents

\* pipewrite() stores a byte behind the others: the place is not in use, also
\* when the index has wrapped.
LEMMA PutStep ==
    ASSUME TypeOK, TypeOK', CountInv, NEW p \in Procs, NEW b \in Bytes, w_byte(p, b)
    PROVE  Fifo!Put(b)
<1> DEFINE pos(k) == (nread + k - 1) % PIPESIZE
<1>1. Count < PIPESIZE /\ Count' = Count + 1 /\ Count \in Nat /\ nread \in Int
    BY CountPut, FullEmpty, Counters DEF Ring
<1>2. nread' = nread /\ ch' = ch /\ data' = [data EXCEPT ![nwrite % PIPESIZE] = b]
    BY DEF w_byte
<1>3. nwrite % PIPESIZE = pos(Count + 1)
  <2>1. nwrite % PIPESIZE = (nread + Count) % PIPESIZE
    BY Counters, RingPlace DEF Count
  <2>2. nread + (Count + 1) - 1 = nread + Count
    BY <1>1
  <2>3. QED
    BY <2>1, <2>2
<1>4. ASSUME NEW k \in 1 .. Count PROVE pos(k) # pos(Count + 1)
  <2> DEFINE x == nread + k - 1
             y == nread + (Count + 1) - 1
  <2>1. x \in Int /\ y \in Int /\ x <= y /\ y < x + PIPESIZE /\ x # y
    BY <1>1, PipeAssumption
  <2>2. PIPESIZE \in Int /\ PIPESIZE > 0
    BY PipeAssumption
  <2> HIDE DEF x, y
  <2>3. x % PIPESIZE # y % PIPESIZE
    BY <2>1, <2>2, ModDistinct
  <2>4. QED
    BY <2>3 DEF x, y
<1>5. \A k \in 1 .. Count + 1 : pos(k) \in 0 .. PIPESIZE - 1
  <2> SUFFICES ASSUME NEW k \in 1 .. Count + 1 PROVE pos(k) \in 0 .. PIPESIZE - 1
    OBVIOUS
  <2>1. nread + k - 1 \in Int
    BY <1>1
  <2>2. QED
    BY <2>1, Wraps
<1> HIDE DEF pos
<1>6. data'[pos(Count + 1)] = b /\ \A k \in 1 .. Count : data'[pos(k)] = data[pos(k)]
    BY <1>1, <1>2, <1>3, <1>4, <1>5 DEF TypeOK
<1>7. /\ Contents \in Seq(Bytes) /\ Len(Contents) = Count
      /\ \A k \in 1 .. Count : Contents[k] = data[pos(k)]
    BY ContentsIs DEF pos, IsContents
<1>8. /\ Contents' \in Seq(Bytes) /\ Len(Contents') = Count + 1
      /\ \A k \in 1 .. Count + 1 : Contents'[k] = data'[pos(k)]
  <2>1. IsContents'
    BY ContentsIs, PTL
  <2>2. QED
    BY <1>1, <1>2, <2>1 DEF pos, IsContents
<1>9. Contents' = Append(Contents, b)
    BY <1>1, <1>6, <1>7, <1>8
<1>10. QED
    BY <1>1, <1>2, <1>7, <1>9 DEF Fifo!Put

\* piperead() takes out the oldest byte; the others keep their places though
\* the index they are counted from may have wrapped.
LEMMA GetStep ==
    ASSUME TypeOK, TypeOK', NEW p \in Procs, r_byte(p)
    PROVE  Fifo!Get
<1> DEFINE pos(k) == (nread + k - 1) % PIPESIZE
<1>1. Count > 0 /\ Count' = Count - 1 /\ Count \in Nat /\ nread \in Int
    BY CountGet, FullEmpty, Counters DEF Ring
<1>2. /\ ch' = data[nread % PIPESIZE] /\ nread' = (nread + 1) % UINT /\ data' = data
    BY DEF r_byte
<1>3. ASSUME NEW k \in Int PROVE (nread' + k - 1) % PIPESIZE = pos(k + 1)
  <2>1. (((nread + 1) % UINT) + (k - 1)) % PIPESIZE = (nread + 1 + (k - 1)) % PIPESIZE
    BY Counters, RingNext
  <2>2. nread + 1 + (k - 1) = nread + (k + 1) - 1
    BY <1>1
  <2>3. ((nread + 1) % UINT) + (k - 1) = nread' + k - 1
    BY <1>1, <1>2, Counters DEF Ring
  <2>4. QED
    BY <2>1, <2>2, <2>3, Zenon
<1>4. pos(1) = nread % PIPESIZE
  <2>1. nread + 1 - 1 = nread
    BY <1>1
  <2>2. QED
    BY <2>1
<1>5. /\ Contents \in Seq(Bytes) /\ Len(Contents) = Count
      /\ \A k \in 1 .. Count : Contents[k] = data[pos(k)]
    BY ContentsIs DEF pos, IsContents
<1>6. /\ Contents' \in Seq(Bytes) /\ Len(Contents') = Count - 1
      /\ \A k \in 1 .. Count - 1 : Contents'[k] = data[pos(k + 1)]
  <2>1. IsContents'
    BY ContentsIs, PTL
  <2>2. /\ Contents' \in Seq(Bytes) /\ Len(Contents') = Count'
        /\ \A k \in 1 .. Count' : Contents'[k] = data'[(nread' + k - 1) % PIPESIZE]
    BY <2>1 DEF IsContents
  <2> HIDE DEF pos
  <2>3. QED
    BY <1>1, <1>2, <1>3, <2>2
<1> HIDE DEF pos
<1>7. Contents # <<>> /\ ch' = Head(Contents)
    BY <1>1, <1>2, <1>4, <1>5
<1>8. Contents' = Tail(Contents)
  <2>1. Tail(Contents) \in Seq(Bytes) /\ Len(Tail(Contents)) = Count - 1
    BY <1>1, <1>5
  <2>2. \A k \in 1 .. Count - 1 : Tail(Contents)[k] = Contents[k + 1] /\ k + 1 \in 1 .. Count
    BY <1>1, <1>5
  <2>3. QED
    BY <1>5, <1>6, <2>1, <2>2
<1>9. QED
    BY <1>7, <1>8 DEF Fifo!Get

-----------------------------------------------------------------------------
(* Theorems *)

\* pipealloc() establishes the invariant.
LEMMA InvInit == Init => PipeInv
<1> SUFFICES ASSUME Init PROVE PipeInv
    OBVIOUS
<1>1. LockInv /\ EndsInv /\ SleepInv
    BY PipeAssumption DEF Init, LockInv, EndsInv, SleepInv, Holding, Writing, Reading, Procs
<1>2. CountInv
  <2>1. TypeOK /\ Empty
    BY TypeInit DEF Init, Empty
  <2>2. QED
    BY <2>1, FullEmpty, PipeAssumption DEF CountInv, Count
<1>3. QED
    BY <1>1, <1>2, TypeInit DEF PipeInv

\* Every step of pipe.c keeps it.
LEMMA InvNext == PipeInv /\ [Next]_vars => PipeInv'
BY TypeNext, LockNext, EndsNext, CountNext, SleepNext DEF PipeInv

\* PipeInv is an invariant of the pipe, whoever reads, writes, closes and is
\* killed.
THEOREM PipeInvariant == Spec => []PipeInv
BY InvInit, InvNext, PTL DEF Spec

\* pipeclose() frees the pipe only when nobody can be inside a call on it, for
\* any number of readers and writers.
THEOREM NeverUsedAfterFree == Spec => []NoUseAfterFree
<1>1. PipeInv => NoUseAfterFree
  <2> SUFFICES ASSUME PipeInv, NEW p \in Procs, pc[p] # "user" PROVE alloc = 1
    BY DEF NoUseAfterFree
  <2>1. alloc \in {0, 1} /\ EndsInv
    BY DEF PipeInv, TypeOK
  <2>2. QED
    BY <2>1 DEF EndsInv, Procs
<1>2. QED
    BY <1>1, PipeInvariant, PTL

\* No wakeup of piperead(), pipewrite() or pipeclose() is lost: with the lock
\* free a writer sleeps only on a full pipe that can be read, and a reader
\* only on an empty one that can be written, unless a writer has been killed
\* (then it returned without its wakeup).
THEOREM SleepersJustified == Spec => [](WriterSleepsOnFull /\ ReaderSleepsOnKill)
<1>1. PipeInv => WriterSleepsOnFull /\ ReaderSleepsOnKill
  <2> SUFFICES ASSUME PipeInv PROVE WriterSleepsOnFull /\ ReaderSleepsOnKill
    OBVIOUS
  <2>1. lock = None => \A p \in Procs : pc[p] \notin {"r_copy", "w_loop"}
    BY PipeAssumption DEF PipeInv, LockInv, Holding
  <2>2. Writers \subseteq Procs
    BY DEF Procs
  <2>3. QED
    BY <2>1, <2>2 DEF PipeInv, SleepInv, WriterSleepsOnFull, ReaderSleepsOnKill
<1>2. QED
    BY <1>1, PipeInvariant, PTL

\* A step of the pipe is a step of the queue or none.
LEMMA FifoNext ==
    PipeInv /\ PipeInv' /\ [Next]_vars => [Fifo!Next]_<<Contents, ch>>
<1> SUFFICES ASSUME PipeInv, PipeInv', [Next]_vars PROVE [Fifo!Next]_<<Contents, ch>>
    OBVIOUS
<1>a. TypeOK /\ TypeOK' /\ CountInv
    BY DEF PipeInv
<1>1. ASSUME NEW p \in Procs, NEW b \in Bytes, w_byte(p, b) PROVE Fifo!Next
    BY <1>1, <1>a, PutStep DEF Fifo!Next
<1>2. ASSUME NEW p \in Procs, r_byte(p) PROVE Fifo!Next
    BY <1>2, <1>a, GetStep DEF Fifo!Next
<1>3. CASE UNCHANGED <<data, nread, nwrite, ch>>
    BY <1>3 DEF Contents
<1>4. QED
    BY <1>1, <1>2, <1>3, OthersKeep

\* A pipe implements a bounded FIFO of bytes: what piperead() takes out is what
\* pipewrite() put in, in order, for every size of the buffer and every width
\* of the counters it divides.
THEOREM PipeImplementsFifo == Spec => PipeIsFifo
<1>1. Init => Fifo!Init
  <2> SUFFICES ASSUME Init PROVE Fifo!Init
    OBVIOUS
  <2>1. TypeOK /\ Empty /\ ch \in Bytes
    BY TypeInit DEF Init, Empty
  <2>2. Contents \in Seq(Bytes) /\ Len(Contents) = 0
    BY <2>1, FullEmpty, ContentsIs DEF IsContents
  <2>3. QED
    BY <2>1, <2>2 DEF Fifo!Init
<1>2. PipeInv /\ PipeInv' /\ [Next]_vars => [Fifo!Next]_<<Contents, ch>>
    BY FifoNext
<1>3. QED
    BY <1>1, <1>2, PipeInvariant, PTL DEF Spec, PipeIsFifo, Fifo!Spec

\* Without kill() the wakeup of pipewrite() is never skipped: a reader sleeps
\* only on an empty pipe, which is what the loop of piperead() says of itself.
THEOREM ReadersJustified ==
    ASSUME Killable = {}
    PROVE  Spec => []ReaderSleepsOnEmpty
<1> DEFINE Alive == killed = [p \in Procs |-> 0]
<1>1. Init => Alive
    BY DEF Init
<1>2. Alive /\ [Next]_vars => Alive'
    BY DEF Next, PipeStep, vars, w_lock, w_fail, w_full, w_done, w_byte, sleep, r_lock,
           r_killed, r_empty, r_ready, r_byte, r_done, pipeclose, close, call
<1>3. Alive /\ WriterSleepsOnFull /\ ReaderSleepsOnKill => ReaderSleepsOnEmpty
    BY DEF ReaderSleepsOnKill, ReaderSleepsOnEmpty, Procs
<1> HIDE DEF Alive
<1>4. QED
    BY <1>1, <1>2, <1>3, SleepersJustified, PTL DEF Spec
=============================================================================
