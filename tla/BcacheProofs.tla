---------------------------- MODULE BcacheProofs ----------------------------
(***************************************************************************)
(* Proofs about module Bcache, for any number of processes, blocks, values *)
(* and buffers.                                                            *)
(*                                                                         *)
(* The inductive invariant CacheInv says, besides the types, that the list *)
(* has every buffer, that references and locks are what their users are    *)
(* entitled to, and that a buffer nobody is changing and the log has not   *)
(* pinned is the same as its block on disk: it is what lets bget() recycle *)
(* a buffer without looking at its contents.                               *)
(***************************************************************************)
EXTENDS Bcache, FiniteSetTheorems, WellFoundedInduction, TLAPS

\* Every buffer is on the list.
ListInv == \A b \in Bufs : \E n \in Bufs : lru[n] = b

\* A process inside bread() ... brelse() has a buffer with a block in it.
UserInv ==
    \A p \in Procs :
        /\ pc[p] \in {"idle", "panic"} <=> bp[p] = 0
        /\ bp[p] # 0 => blockno[bp[p]] \in Blocks

\* b->lock is held by the one process that uses b.
LockInv ==
    /\ \A p \in Procs : pc[p] \in Using => locked[bp[p]] = p
    /\ \A b \in Bufs : locked[b] # None => pc[locked[b]] \in Using /\ bp[locked[b]] = b

\* What is in a buffer that has been read, and which blocks are in buffers.
DataInv ==
    /\ \A p \in Procs : pc[p] \in {"hold", "dirty", "bunpin"} => valid[bp[p]] = 1
    /\ \A k \in pinned : \E b \in Bufs : blockno[b] = k
    /\ \A b \in Bufs : valid[b] = 1 =>
          /\ blockno[b] \in Blocks
          /\ \/ blockno[b] \in pinned
             \/ \E p \in Procs : pc[p] = "dirty" /\ bp[p] = b
             \/ data[b] = disk[blockno[b]]
    /\ \A p \in Procs : pc[p] = "bunpin" =>
          blockno[bp[p]] \in pinned /\ data[bp[p]] = disk[blockno[bp[p]]]

CacheInv ==
    /\ TypeOK /\ ListInv /\ UserInv /\ LockInv /\ OneBuffer /\ ReferencesExact
    /\ DataInv /\ SleeperHasHolder

-----------------------------------------------------------------------------
(* The list *)

\* A set of numbers has a least one.
LEMMA Least ==
    ASSUME NEW S \in SUBSET Nat, S # {}
    PROVE  \E n \in S : \A m \in S : n <= m
<1> DEFINE Less == {ss \in Nat \X Nat : ss[1] < ss[2]}
<1>1. IsWellFoundedOn(Less, Nat)
    BY NatLessThanWellFounded DEF OpToRel
<1> HIDE DEF Less
<1>2. PICK n \in S : \A m \in S : ~(<<m, n>> \in Less)
    BY <1>1, WFMin, Zenon
<1>3. ASSUME NEW m \in S PROVE n <= m
  <2>1. m \in Nat /\ n \in Nat /\ ~(<<m, n>> \in Less)
    BY <1>2
  <2>2. m < n => <<m, n>> \in Less
    BY <2>1 DEF Less
  <2>3. QED
    BY <2>1, <2>2
<1>4. QED
    BY <1>3

\* bget()'s first loop finds a buffer if there is one.
LEMMA MostRecentIn ==
    ASSUME TypeOK, ListInv, NEW S \in SUBSET Bufs, S # {}
    PROVE  MostRecent(S) \in S
<1> DEFINE N == {n \in Bufs : lru[n] \in S}
<1>1. N \in SUBSET Nat
    BY BcacheAssumption DEF Bufs
<1>2. N # {}
    BY DEF ListInv
<1>3. PICK n \in N : \A m \in N : n <= m
    BY <1>1, <1>2, Least, Zenon
<1>4. \A m \in 1 .. n - 1 : m \notin N
    BY <1>1, <1>3
<1>5. \A m \in 1 .. n - 1 : lru[m] \notin S
    BY <1>3, <1>4, BcacheAssumption DEF Bufs
<1>6. QED
    BY <1>3, <1>5 DEF MostRecent

\* ... and so does its second.
LEMMA LeastRecentIn ==
    ASSUME TypeOK, ListInv, NEW S \in SUBSET Bufs, S # {}
    PROVE  LeastRecent(S) \in S
<1> DEFINE N == {n \in Bufs : lru[n] \in S}
           D == {d \in Nat : NBUF - d \in N}
<1>1. D # {}
  <2>1. PICK n \in Bufs : lru[n] \in S
    BY DEF ListInv
  <2>2. NBUF - n \in Nat /\ NBUF - (NBUF - n) = n
    BY <2>1, BcacheAssumption DEF Bufs
  <2>3. QED
    BY <2>1, <2>2
<1>2. PICK d \in D : \A e \in D : d <= e
    BY <1>1, Least, Zenon
<1> DEFINE n == NBUF - d
<1>3. n \in Bufs /\ lru[n] \in S /\ d \in Nat
    BY <1>2
<1>4. ASSUME NEW m \in n + 1 .. NBUF PROVE lru[m] \notin S
  <2>1. m \in Bufs /\ NBUF - m \in Nat /\ NBUF - (NBUF - m) = m /\ ~(d <= NBUF - m)
    BY <1>3, <1>4, BcacheAssumption DEF Bufs
  <2>2. NBUF - m \notin D
    BY <1>2, <2>1
  <2>3. QED
    BY <2>1, <2>2
<1>5. QED
    BY <1>3, <1>4 DEF LeastRecent

\* brelse() leaves every buffer on the list once.
LEMMA ListMoved ==
    ASSUME TypeOK, ListInv, NEW b \in Bufs, NEW l, l = MoveToFront(b)
    PROVE  /\ l \in [Bufs -> Bufs]
           /\ \A m, n \in Bufs : l[m] = l[n] => m = n
           /\ \A c \in Bufs : \E n \in Bufs : l[n] = c
<1> DEFINE k == CHOOSE m \in Bufs : lru[m] = b
<1>1. k \in Bufs /\ lru[k] = b
    BY DEF ListInv
<1>2. l = [m \in Bufs |-> IF m = 1 THEN b ELSE IF m <= k THEN lru[m - 1] ELSE lru[m]]
    BY DEF MoveToFront
<1> HIDE DEF k
<1>3. /\ lru \in [Bufs -> Bufs] /\ \A m, n \in Bufs : lru[m] = lru[n] => m = n
      /\ NBUF \in Nat
    BY BcacheAssumption DEF TypeOK
<1>4. ASSUME NEW m \in Bufs
      PROVE  /\ l[m] = IF m = 1 THEN b ELSE IF m <= k THEN lru[m - 1] ELSE lru[m]
             /\ m # 1 => m - 1 \in Bufs
    BY <1>2, <1>3 DEF Bufs
<1>5. l \in [Bufs -> Bufs]
    BY <1>2, <1>3, <1>4
<1>6. ASSUME NEW m \in Bufs, NEW n \in Bufs, l[m] = l[n] PROVE m = n
  <2>1. m \in Nat /\ n \in Nat /\ k \in Nat
    BY <1>1, <1>3 DEF Bufs
  <2>2. CASE m = 1 \/ n = 1
    BY <1>1, <1>3, <1>4, <1>6, <2>1, <2>2
  <2>3. CASE m # 1 /\ n # 1
    BY <1>3, <1>4, <1>6, <2>1, <2>3
  <2>4. QED
    BY <2>2, <2>3
<1>7. ASSUME NEW c \in Bufs PROVE \E n \in Bufs : l[n] = c
  <2>1. PICK n \in Bufs : lru[n] = c
    BY DEF ListInv
  <2>2. CASE n = k
    BY <1>1, <1>2, <1>3, <2>1, <2>2 DEF Bufs
  <2>3. CASE n < k
    <3>1. n + 1 \in Bufs /\ n + 1 # 1 /\ n + 1 <= k /\ (n + 1) - 1 = n
        BY <1>1, <1>3, <2>3 DEF Bufs
    <3>2. l[n + 1] = c
        BY <1>2, <2>1, <3>1
    <3>3. QED
        BY <3>1, <3>2
  <2>4. CASE n > k
    <3>1. n # 1 /\ ~(n <= k)
        BY <1>1, <1>3, <2>4 DEF Bufs
    <3>2. QED
        BY <1>2, <2>1, <3>1
  <2>5. QED
    BY <1>1, <1>3, <2>2, <2>3, <2>4 DEF Bufs
<1>8. QED
    BY <1>5, <1>6, <1>7

-----------------------------------------------------------------------------
(* References *)

USE DEF bufvars

Users(b) == {p \in Procs : bp[p] = b}

\* What bget() does with the buffer b that it finds, ...
Hit(p, k, b) ==
    /\ b \in Bufs /\ blockno[b] = k /\ pc[p] = "idle"
    /\ refcnt' = [refcnt EXCEPT ![b] = @ + 1]
    /\ bp' = [bp EXCEPT ![p] = b]
    /\ pc' = [pc EXCEPT ![p] = "acquire"]
    /\ UNCHANGED <<blockno, valid, data, lru, locked, disk, pinned>>

\* ... or with the one that it recycles.
Recycle(p, k, b) ==
    /\ b \in Bufs /\ refcnt[b] = 0 /\ pc[p] = "idle"
    /\ \A c \in Bufs : blockno[c] # k
    /\ blockno' = [blockno EXCEPT ![b] = k]
    /\ valid' = [valid EXCEPT ![b] = 0]
    /\ refcnt' = [refcnt EXCEPT ![b] = 1]
    /\ bp' = [bp EXCEPT ![p] = b]
    /\ pc' = [pc EXCEPT ![p] = "acquire"]
    /\ UNCHANGED <<data, lru, locked, disk, pinned>>

\* bget() finds a buffer with the block.
LEMMA HitStep ==
    ASSUME TypeOK, ListInv, NEW p \in Procs, NEW k \in Blocks, bget_hit(p, k)
    PROVE  \E b \in Bufs : Hit(p, k, b)
<1> DEFINE b == MostRecent(Cached(k))
<1>1. Cached(k) \in SUBSET Bufs /\ Cached(k) # {}
    BY DEF bget_hit, Cached
<1>2. b \in Cached(k)
    BY <1>1, MostRecentIn
<1>3. b \in Bufs /\ blockno[b] = k
    BY <1>2 DEF Cached
<1>4. QED
    BY <1>3, Zenon DEF Hit, bget_hit

\* bget() recycles a buffer without references.
LEMMA RecycleStep ==
    ASSUME TypeOK, ListInv, NEW p \in Procs, NEW k \in Blocks, bget_recycle(p, k)
    PROVE  \E b \in Bufs : Recycle(p, k, b)
<1> DEFINE b == LeastRecent(Unused)
<1>1. Unused \in SUBSET Bufs /\ Unused # {}
    BY DEF bget_recycle, Unused
<1>2. b \in Unused
    BY <1>1, LeastRecentIn
<1>3. b \in Bufs /\ refcnt[b] = 0
    BY <1>2 DEF Unused
<1>4. \A c \in Bufs : blockno[c] # k
    BY DEF bget_recycle, Cached
<1>5. QED
    BY <1>3, <1>4, Zenon DEF Recycle, bget_recycle

\* Buffers and the null pointer.
LEMMA BufFacts ==
    /\ \A b \in Bufs : b \in 0 .. NBUF /\ b # 0
    /\ 0 \in 0 .. NBUF /\ 0 \notin Bufs
    /\ \A b \in 0 .. NBUF : b # 0 => b \in Bufs
BY BcacheAssumption DEF Bufs

\* There are finitely many users of a buffer.
LEMMA UsersFinite ==
    \A b \in Bufs : IsFiniteSet(Users(b)) /\ Cardinality(Users(b)) \in Nat
<1>1. SUFFICES ASSUME NEW b \in Bufs
               PROVE  IsFiniteSet(Users(b)) /\ Cardinality(Users(b)) \in Nat
    OBVIOUS
<1>2. Users(b) \in SUBSET Procs
    BY DEF Users
<1>3. IsFiniteSet(Users(b))
    BY <1>2, BcacheAssumption, FS_Subset
<1>4. QED
    BY <1>3, FS_CardinalityType

\* A buffer without references is nobody's, and the log has not pinned it.
LEMMA Unreferenced ==
    ASSUME ReferencesExact, NEW b \in Bufs, refcnt[b] = 0
    PROVE  blockno[b] \notin pinned /\ \A p \in Procs : bp[p] # b
<1>1. refcnt[b] = Cardinality(Users(b)) + (IF blockno[b] \in pinned THEN 1 ELSE 0)
    BY DEF ReferencesExact, Users
<1>2. Cardinality(Users(b)) \in Nat /\ IsFiniteSet(Users(b))
    BY UsersFinite
<1>3. Cardinality(Users(b)) = 0 /\ blockno[b] \notin pinned
    BY <1>1, <1>2
<1>4. Users(b) = {}
    BY <1>2, <1>3, FS_EmptySet
<1>5. QED
    BY <1>3, <1>4 DEF Users

\* The users of a buffer after a process has changed its own.
LEMMA UsersStep ==
    ASSUME TypeOK, NEW p \in Procs, NEW x \in 0 .. NBUF, bp[p] # x,
           bp' = [bp EXCEPT ![p] = x], NEW b \in Bufs
    PROVE  Cardinality(Users(b)') =
               IF x = b THEN Cardinality(Users(b)) + 1
               ELSE IF bp[p] = b THEN Cardinality(Users(b)) - 1
               ELSE Cardinality(Users(b))
<1>1. IsFiniteSet(Users(b))
    BY UsersFinite
<1>2. CASE x = b
  <2>1. Users(b)' = Users(b) \union {p} /\ p \notin Users(b)
    BY <1>2 DEF Users, TypeOK
  <2>2. QED
    BY <1>1, <1>2, <2>1, FS_AddElement
<1>3. CASE x # b /\ bp[p] = b
  <2>1. Users(b)' = Users(b) \ {p} /\ p \in Users(b)
    BY <1>3 DEF Users, TypeOK
  <2>2. QED
    BY <1>1, <1>3, <2>1, FS_RemoveElement, Zenon
<1>4. CASE x # b /\ bp[p] # b
  <2>1. Users(b)' = Users(b)
    BY <1>4 DEF Users, TypeOK
  <2>2. QED
    BY <1>4, <2>1
<1>5. QED
    BY <1>2, <1>3, <1>4

\* A buffer with a user has a reference.
LEMMA Referenced ==
    ASSUME TypeOK, UserInv, ReferencesExact, NEW p \in Procs, pc[p] \notin {"idle", "panic"}
    PROVE  bp[p] \in Bufs /\ blockno[bp[p]] \in Blocks /\ refcnt[bp[p]] - 1 \in Nat
<1>1. bp[p] \in Bufs /\ blockno[bp[p]] \in Blocks
    BY BufFacts DEF TypeOK, UserInv
<1> DEFINE b == bp[p]
<1>2. p \in Users(b)
    BY DEF Users
<1>3. IsFiniteSet(Users(b)) /\ Cardinality(Users(b)) \in Nat
    BY <1>1, UsersFinite
<1>4. Cardinality(Users(b)) # 0
    BY <1>2, <1>3, FS_EmptySet
<1>5. refcnt[b] = Cardinality(Users(b)) + (IF blockno[b] \in pinned THEN 1 ELSE 0)
    BY <1>1 DEF ReferencesExact, Users
<1>6. QED
    BY <1>1, <1>3, <1>4, <1>5

-----------------------------------------------------------------------------
(* Types and the list *)

\* The cache is well typed after binit().
LEMMA TypeInit == Init => TypeOK /\ ListInv
<1>1. SUFFICES ASSUME Init PROVE TypeOK /\ ListInv
    OBVIOUS
<1>2. lru \in [Bufs -> Bufs] /\ \A m, n \in Bufs : lru[m] = lru[n] => m = n
    BY <1>1, BcacheAssumption DEF Init, Bufs
<1>3. ASSUME NEW b \in Bufs PROVE \E n \in Bufs : lru[n] = b
  <2>1. NBUF + 1 - b \in Bufs /\ lru[NBUF + 1 - b] = b
    BY <1>1, <1>3, BcacheAssumption DEF Init, Bufs
  <2>2. QED
    BY <2>1
<1>4. QED
    BY <1>1, <1>2, <1>3, BufFacts, BcacheAssumption DEF Init, TypeOK, ListInv, Using

Pcs == {"idle", "acquire", "asleep", "brelse", "panic"} \union Using

Types ==
    /\ blockno \in [Bufs -> Blocks \union {None}] /\ valid \in [Bufs -> {0, 1}]
    /\ refcnt \in [Bufs -> Nat] /\ data \in [Bufs -> Vals] /\ disk \in [Blocks -> Vals]
    /\ locked \in [Bufs -> Procs \union {None}] /\ pinned \subseteq Blocks
    /\ pc \in [Procs -> Pcs]
    /\ bp \in [Procs -> 0 .. NBUF]

\* Every step keeps every buffer on the list, once.
LEMMA ListNext ==
    ASSUME TypeOK, ListInv, UserInv, ReferencesExact, [Next]_vars
    PROVE  /\ lru' \in [Bufs -> Bufs] /\ \A m, n \in Bufs : lru'[m] = lru'[n] => m = n
           /\ \A c \in Bufs : \E n \in Bufs : lru'[n] = c
<1>1. CASE UNCHANGED lru
    BY <1>1 DEF TypeOK, ListInv
<1>2. ASSUME NEW p \in Procs, brelse(p), lru' # lru
      PROVE  \E b \in Bufs : lru' = MoveToFront(b)
  <2>1. bp[p] \in Bufs
    BY <1>2, Referenced DEF brelse
  <2>2. QED
    BY <1>2, <2>1 DEF brelse
<1>3. UNCHANGED lru \/ \E b \in Bufs : lru' = MoveToFront(b)
    BY <1>2 DEF Next, Inside, vars, bget_hit, bget_recycle, bget_panic, acquiresleep,
       acquiresleep_wait, kill, bread, modify, log_write, bwrite, install_trans, bunpin,
       releasesleep
<1>4. ASSUME NEW b \in Bufs, lru' = MoveToFront(b)
      PROVE  /\ lru' \in [Bufs -> Bufs] /\ \A m, n \in Bufs : lru'[m] = lru'[n] => m = n
             /\ \A c \in Bufs : \E n \in Bufs : lru'[n] = c
    BY <1>4, ListMoved, ZenonT(30)
<1>5. QED
    BY <1>1, <1>3, <1>4

\* Every step keeps the types.
LEMMA TypesNext ==
    ASSUME TypeOK, ListInv, UserInv, ReferencesExact, [Next]_vars
    PROVE  Types'
<1>0. Types
    BY DEF Types, TypeOK, Pcs
<1>a. /\ "idle" \in Pcs /\ "acquire" \in Pcs /\ "asleep" \in Pcs /\ "brelse" \in Pcs
      /\ "panic" \in Pcs /\ "bread" \in Pcs /\ "hold" \in Pcs /\ "dirty" \in Pcs
      /\ "bunpin" \in Pcs
    BY DEF Pcs, Using
<1>1. CASE UNCHANGED vars
    BY <1>0, <1>1 DEF vars, Types
<1>2. ASSUME NEW p \in Procs, NEW k \in Blocks, NEW b \in Bufs, Hit(p, k, b)
      PROVE  Types'
    BY <1>0, <1>2, <1>a, BufFacts DEF Hit, Types
<1>3. ASSUME NEW p \in Procs, NEW k \in Blocks, NEW b \in Bufs, Recycle(p, k, b)
      PROVE  Types'
    BY <1>0, <1>3, <1>a, BufFacts DEF Recycle, Types
<1>4. ASSUME NEW p \in Procs, NEW k \in Blocks, bget_panic(p, k) PROVE Types'
    BY <1>0, <1>4, <1>a DEF bget_panic, Types
<1>5. ASSUME NEW p \in Procs, acquiresleep(p) PROVE Types'
  <2>1. bp[p] \in Bufs
    BY <1>5, Referenced DEF acquiresleep
  <2>2. QED
    BY <1>0, <1>5, <2>1, <1>a DEF acquiresleep, Types
<1>6. ASSUME NEW p \in Procs, acquiresleep_wait(p) PROVE Types'
    BY <1>0, <1>6, <1>a DEF acquiresleep_wait, Types
<1>7. ASSUME NEW p \in Procs, kill(p) PROVE Types'
    BY <1>0, <1>7, <1>a DEF kill, Types
<1>8. ASSUME NEW p \in Procs, bread(p) PROVE Types'
  <2>1. bp[p] \in Bufs /\ blockno[bp[p]] \in Blocks
    BY <1>8, Referenced DEF bread
  <2>2. data' \in [Bufs -> Vals]
    BY <1>0, <1>8, <2>1 DEF bread, Types
  <2>3. QED
    BY <1>0, <1>8, <1>a, <2>2, Zenon DEF bread, Types
<1>9. ASSUME NEW p \in Procs, NEW v \in Vals, modify(p, v) PROVE Types'
  <2>1. bp[p] \in Bufs
    BY <1>9, Referenced DEF modify
  <2>2. QED
    BY <1>0, <1>9, <2>1, <1>a DEF modify, Types
<1>10. ASSUME NEW p \in Procs, log_write(p) PROVE Types'
  <2>1. bp[p] \in Bufs /\ blockno[bp[p]] \in Blocks
    BY <1>10, Referenced DEF log_write
  <2>2. pinned' \subseteq Blocks /\ refcnt' \in [Bufs -> Nat]
    BY <1>0, <1>10, <2>1 DEF log_write, Types
  <2>3. QED
    BY <1>0, <1>10, <1>a, <2>2 DEF log_write, Types
<1>11. ASSUME NEW p \in Procs, bwrite(p) \/ install_trans(p) PROVE Types'
  <2>1. bp[p] \in Bufs /\ blockno[bp[p]] \in Blocks
    BY <1>11, Referenced DEF bwrite, install_trans
  <2>2. disk' \in [Blocks -> Vals]
    BY <1>0, <1>11, <2>1 DEF bwrite, install_trans, Types
  <2>3. QED
    BY <1>0, <1>11, <1>a, <2>2 DEF bwrite, install_trans, Types
<1>12. ASSUME NEW p \in Procs, bunpin(p) PROVE Types'
  <2>1. bp[p] \in Bufs /\ refcnt[bp[p]] - 1 \in Nat
    BY <1>12, Referenced DEF bunpin
  <2>2. QED
    BY <1>0, <1>12, <1>a, <2>1 DEF bunpin, Types
<1>13. ASSUME NEW p \in Procs, releasesleep(p) PROVE Types'
  <2>1. bp[p] \in Bufs
    BY <1>13, Referenced DEF releasesleep
  <2>2. QED
    BY <1>0, <1>13, <2>1, <1>a DEF releasesleep, WakeAll, Types
<1>14. ASSUME NEW p \in Procs, brelse(p) PROVE Types'
  <2>1. bp[p] \in Bufs /\ refcnt[bp[p]] - 1 \in Nat
    BY <1>14, Referenced DEF brelse
  <2>2. refcnt' \in [Bufs -> Nat] /\ bp' \in [Procs -> 0 .. NBUF]
    BY <1>0, <1>14, <2>1, BufFacts DEF brelse, Types
  <2>3. QED
    BY <1>0, <1>14, <1>a, <2>2 DEF brelse, Types
<1>15. QED
  <2>1. ASSUME NEW p \in Procs, NEW k \in Blocks, bget_hit(p, k) PROVE Types'
    BY <1>2, <2>1, HitStep
  <2>2. ASSUME NEW p \in Procs, NEW k \in Blocks, bget_recycle(p, k) PROVE Types'
    BY <1>3, <2>2, RecycleStep
  <2>3. QED
    BY <1>1, <2>1, <2>2, <1>4, <1>5, <1>6, <1>7, <1>8, <1>9, <1>10, <1>11, <1>12,
       <1>13, <1>14 DEF Next, Inside

\* Both together.
LEMMA TypeNext ==
    TypeOK /\ ListInv /\ UserInv /\ ReferencesExact /\ [Next]_vars => TypeOK' /\ ListInv'
<1>1. SUFFICES ASSUME TypeOK, ListInv, UserInv, ReferencesExact, [Next]_vars
               PROVE  TypeOK' /\ ListInv'
    OBVIOUS
<1>2. Types'
    BY <1>1, TypesNext
<1>3. QED
    BY <1>1, <1>2, ListNext, Zenon DEF Types, TypeOK, ListInv, Pcs

-----------------------------------------------------------------------------
(* Users and references *)

\* Every step keeps UserInv: a buffer in use is not recycled.
LEMMA UserNext ==
    ASSUME TypeOK, ListInv, UserInv, ReferencesExact, [Next]_vars
    PROVE  UserInv'
<1>0. /\ pc \in [Procs -> Pcs] /\ bp \in [Procs -> 0 .. NBUF]
      /\ blockno \in [Bufs -> Blocks \union {None}] /\ UserInv
    BY DEF TypeOK, Pcs
<1>1. ASSUME NEW p \in Procs, NEW k \in Blocks, NEW b \in Bufs, Hit(p, k, b) PROVE UserInv'
    BY <1>0, <1>1, BufFacts DEF Hit, UserInv
<1>2. ASSUME NEW p \in Procs, NEW k \in Blocks, NEW b \in Bufs, Recycle(p, k, b) PROVE UserInv'
  <2>1. \A q \in Procs : bp[q] # b
    BY <1>2, Unreferenced DEF Recycle
  <2>2. \A q \in Procs \ {p} : bp[q] # 0 => bp[q] \in Bufs /\ blockno'[bp[q]] = blockno[bp[q]]
    BY <1>0, <1>2, <2>1, BufFacts DEF Recycle
  <2>3. QED
    BY <1>0, <1>2, <2>2, BufFacts DEF Recycle, UserInv
<1>3. ASSUME NEW p \in Procs, NEW k \in Blocks, bget_panic(p, k) PROVE UserInv'
    BY <1>0, <1>3 DEF bget_panic, UserInv
<1>4. ASSUME NEW p \in Procs, releasesleep(p) PROVE UserInv'
    BY <1>0, <1>4 DEF releasesleep, WakeAll, UserInv
<1>5. ASSUME NEW p \in Procs, brelse(p) PROVE UserInv'
    BY <1>0, <1>5 DEF brelse, UserInv
<1>6. ASSUME NEW p \in Procs, UNCHANGED <<bp, blockno>>, pc[p] \notin {"idle", "panic"},
             NEW s, s \notin {"idle", "panic"}, pc' = [pc EXCEPT ![p] = s]
      PROVE  UserInv'
    BY <1>0, <1>6 DEF UserInv
<1>7. ASSUME NEW p \in Procs,
             \/ acquiresleep(p) \/ acquiresleep_wait(p) \/ kill(p) \/ bread(p) \/ log_write(p)
             \/ bwrite(p) \/ install_trans(p) \/ bunpin(p) \/ \E v \in Vals : modify(p, v)
      PROVE  UserInv'
    BY <1>6, <1>7 DEF acquiresleep, acquiresleep_wait, kill, bread, log_write, bwrite,
       install_trans, bunpin, modify
<1>8. CASE UNCHANGED vars
    BY <1>0, <1>8 DEF vars, UserInv
<1>9. ASSUME NEW p \in Procs, NEW k \in Blocks, bget_hit(p, k) \/ bget_recycle(p, k)
      PROVE  UserInv'
    BY <1>1, <1>2, <1>9, HitStep, RecycleStep
<1>10. QED
    BY <1>3, <1>4, <1>5, <1>7, <1>8, <1>9 DEF Next, Inside

\* The log's reference to b.
Pin(b) == IF blockno[b] \in pinned THEN 1 ELSE 0

\* Every step keeps the references: bget() and brelse() count the user, log_write()
\* and bunpin() the pin.
LEMMA ReferencesNext ==
    ASSUME TypeOK, ListInv, UserInv, ReferencesExact, OneBuffer, DataInv, [Next]_vars
    PROVE  ReferencesExact'
<1>0. /\ bp \in [Procs -> 0 .. NBUF] /\ refcnt \in [Bufs -> Nat]
      /\ blockno \in [Bufs -> Blocks \union {None}]
    BY DEF TypeOK
<1>a. \A b \in Bufs : refcnt[b] = Cardinality(Users(b)) + Pin(b)
    BY DEF ReferencesExact, Users, Pin
<1>b. \A b \in Bufs : Cardinality(Users(b)) \in Nat /\ Pin(b) \in Nat
    BY UsersFinite DEF Pin
<1>c. SUFFICES \A b \in Bufs : refcnt'[b] = Cardinality(Users(b)') + Pin(b)'
    BY DEF ReferencesExact, Users, Pin
<1>1. ASSUME NEW p \in Procs, NEW k \in Blocks, NEW b \in Bufs, Hit(p, k, b), NEW c \in Bufs
      PROVE  refcnt'[c] = Cardinality(Users(c)') + Pin(c)'
  <2>1. bp[p] = 0 /\ bp' = [bp EXCEPT ![p] = b] /\ b # 0 /\ b \in 0 .. NBUF
    BY <1>1, BufFacts DEF Hit, UserInv
  <2>2. Cardinality(Users(c)') = IF c = b THEN Cardinality(Users(c)) + 1 ELSE Cardinality(Users(c))
    BY <1>1, <2>1, UsersStep, BufFacts, Zenon
  <2>3. Pin(c)' = Pin(c)
    BY <1>1 DEF Hit, Pin
  <2>4. refcnt'[c] = IF c = b THEN refcnt[c] + 1 ELSE refcnt[c]
    BY <1>0, <1>1 DEF Hit
  <2>5. QED
    BY <1>a, <1>b, <2>2, <2>3, <2>4
<1>2. ASSUME NEW p \in Procs, NEW k \in Blocks, NEW b \in Bufs, Recycle(p, k, b), NEW c \in Bufs
      PROVE  refcnt'[c] = Cardinality(Users(c)') + Pin(c)'
  <2>1. bp[p] = 0 /\ bp' = [bp EXCEPT ![p] = b] /\ b # 0 /\ b \in 0 .. NBUF
    BY <1>2, BufFacts DEF Recycle, UserInv
  <2>2. Cardinality(Users(c)') = IF c = b THEN Cardinality(Users(c)) + 1 ELSE Cardinality(Users(c))
    BY <1>2, <2>1, UsersStep, BufFacts, Zenon
  <2>3. Pin(c)' = IF c = b THEN 0 ELSE Pin(c)
    BY <1>0, <1>2 DEF Recycle, Pin, DataInv
  <2>4. refcnt'[c] = IF c = b THEN 1 ELSE refcnt[c]
    BY <1>0, <1>2 DEF Recycle
  <2>5. refcnt[b] = 0
    BY <1>2 DEF Recycle
  <2>6. QED
    BY <1>a, <1>b, <2>2, <2>3, <2>4, <2>5
<1>3. ASSUME NEW p \in Procs, log_write(p), NEW c \in Bufs
      PROVE  refcnt'[c] = Cardinality(Users(c)') + Pin(c)'
  <2>1. bp[p] \in Bufs /\ blockno[bp[p]] \in Blocks
    BY <1>3, Referenced DEF log_write
  <2>2. Users(c)' = Users(c)
    BY <1>3 DEF log_write, Users
  <2>3. Pin(c)' = IF c = bp[p] THEN 1 ELSE Pin(c)
    BY <1>3, <2>1, BcacheAssumption DEF log_write, Pin, OneBuffer
  <2>4. refcnt'[c] = IF c = bp[p] /\ Pin(c) = 0 THEN refcnt[c] + 1 ELSE refcnt[c]
    BY <1>0, <1>3, <2>1 DEF log_write, Pin
  <2>5. Pin(c) \in {0, 1}
    BY DEF Pin
  <2>6. QED
    BY <1>a, <1>b, <2>2, <2>3, <2>4, <2>5
<1>4. ASSUME NEW p \in Procs, bunpin(p), NEW c \in Bufs
      PROVE  refcnt'[c] = Cardinality(Users(c)') + Pin(c)'
  <2>1. bp[p] \in Bufs /\ blockno[bp[p]] \in Blocks /\ blockno[bp[p]] \in pinned
    BY <1>4, Referenced DEF bunpin, DataInv
  <2>2. Users(c)' = Users(c)
    BY <1>4 DEF bunpin, Users
  <2>3. Pin(c)' = IF c = bp[p] THEN 0 ELSE Pin(c)
    BY <1>4, <2>1, BcacheAssumption DEF bunpin, Pin, OneBuffer
  <2>4. refcnt'[c] = IF c = bp[p] THEN refcnt[c] - 1 ELSE refcnt[c]
    BY <1>0, <1>4, <2>1 DEF bunpin
  <2>5. Pin(bp[p]) = 1
    BY <2>1 DEF Pin
  <2>6. QED
    BY <1>a, <1>b, <2>2, <2>3, <2>4, <2>5
<1>5. ASSUME NEW p \in Procs, brelse(p), NEW c \in Bufs
      PROVE  refcnt'[c] = Cardinality(Users(c)') + Pin(c)'
  <2>1. bp[p] \in Bufs /\ bp[p] # 0 /\ bp' = [bp EXCEPT ![p] = 0] /\ 0 \in 0 .. NBUF /\ c # 0
    BY <1>5, Referenced, BufFacts DEF brelse
  <2>2. Cardinality(Users(c)') = IF c = bp[p] THEN Cardinality(Users(c)) - 1 ELSE Cardinality(Users(c))
    BY <2>1, UsersStep, Zenon
  <2>3. Pin(c)' = Pin(c)
    BY <1>5 DEF brelse, Pin
  <2>4. refcnt'[c] = IF c = bp[p] THEN refcnt[c] - 1 ELSE refcnt[c]
    BY <1>0, <1>5, <2>1 DEF brelse
  <2>5. QED
    BY <1>a, <1>b, <2>2, <2>3, <2>4
<1>6. ASSUME UNCHANGED <<bp, refcnt, blockno, pinned>>, NEW c \in Bufs
      PROVE  refcnt'[c] = Cardinality(Users(c)') + Pin(c)'
    BY <1>a, <1>6 DEF Users, Pin
<1>7. \/ UNCHANGED <<bp, refcnt, blockno, pinned>>
      \/ \E p \in Procs : log_write(p) \/ bunpin(p) \/ brelse(p)
      \/ \E p \in Procs, k \in Blocks, b \in Bufs : Hit(p, k, b) \/ Recycle(p, k, b)
    BY HitStep, RecycleStep DEF Next, Inside, vars, bget_panic, acquiresleep,
       acquiresleep_wait, kill, bread, modify, bwrite, install_trans, releasesleep
<1>8. QED
    BY <1>1, <1>2, <1>3, <1>4, <1>5, <1>6, <1>7

-----------------------------------------------------------------------------
(* Locks and contents *)

\* The steps, with the buffer that bget() settles on.
LEMMA Steps ==
    ASSUME TypeOK, ListInv, [Next]_vars
    PROVE  \/ UNCHANGED vars
           \/ \E p \in Procs : Inside(p) \/ install_trans(p) \/ kill(p)
           \/ \E p \in Procs, k \in Blocks : bget_panic(p, k)
           \/ \E p \in Procs, k \in Blocks, b \in Bufs : Hit(p, k, b) \/ Recycle(p, k, b)
           \/ \E p \in Procs, v \in Vals : modify(p, v)
BY HitStep, RecycleStep DEF Next

\* Every step keeps locks and their holders together, and nobody asleep on a
\* free lock.
LEMMA LockNext ==
    ASSUME TypeOK, ListInv, UserInv, ReferencesExact, LockInv, SleeperHasHolder, [Next]_vars
    PROVE  LockInv' /\ SleeperHasHolder'
<1>0. /\ pc \in [Procs -> Pcs] /\ bp \in [Procs -> 0 .. NBUF]
      /\ locked \in [Bufs -> Procs \union {None}]
      /\ LockInv /\ SleeperHasHolder /\ None \notin Procs
    BY BcacheAssumption DEF TypeOK, Pcs
<1>a. \A q \in Procs : pc[q] \in Using \union {"asleep"} => bp[q] \in Bufs
    BY Referenced DEF Using
<1>1. ASSUME NEW p \in Procs, NEW x, UNCHANGED locked, pc[p] = "idle",
             bp' = [bp EXCEPT ![p] = x], pc' = [pc EXCEPT ![p] = "acquire"]
      PROVE  LockInv' /\ SleeperHasHolder'
    BY <1>0, <1>1 DEF LockInv, SleeperHasHolder, Using
<1>2. ASSUME NEW p \in Procs, NEW s \in Using, UNCHANGED <<locked, bp>>, pc[p] \in Using,
             pc' = [pc EXCEPT ![p] = s]
      PROVE  LockInv' /\ SleeperHasHolder'
    BY <1>0, <1>2 DEF LockInv, SleeperHasHolder, Using
<1>3. ASSUME NEW p \in Procs, acquiresleep(p) PROVE LockInv' /\ SleeperHasHolder'
  <2>1. bp[p] \in Bufs
    BY <1>3, Referenced DEF acquiresleep
  <2>2. LockInv'
    BY <1>0, <1>3, <1>a, <2>1 DEF acquiresleep, LockInv, Using
  <2>3. SleeperHasHolder'
    BY <1>0, <1>3, <1>a, <2>1 DEF acquiresleep, SleeperHasHolder
  <2>4. QED
    BY <2>2, <2>3
<1>4. ASSUME NEW p \in Procs, acquiresleep_wait(p) \/ kill(p)
      PROVE  LockInv' /\ SleeperHasHolder'
    BY <1>0, <1>4 DEF acquiresleep_wait, kill, LockInv, SleeperHasHolder, Using
<1>5. ASSUME NEW p \in Procs, releasesleep(p) PROVE LockInv' /\ SleeperHasHolder'
  <2>1. bp[p] \in Bufs /\ locked[bp[p]] = p
    BY <1>0, <1>5, <1>a DEF releasesleep, LockInv, Using
  <2>2. \A q \in Procs \ {p} : /\ pc'[q] \in Using <=> pc[q] \in Using
                               /\ pc'[q] = "asleep" => pc[q] = "asleep" /\ bp[q] # bp[p]
    BY <1>0, <1>5 DEF releasesleep, WakeAll, Using
  <2>3. pc'[p] = "brelse" /\ bp' = bp /\ locked' = [locked EXCEPT ![bp[p]] = None]
    BY <1>0, <1>5 DEF releasesleep, WakeAll
  <2>4. LockInv'
    BY <1>0, <1>a, <2>1, <2>2, <2>3 DEF LockInv, Using
  <2>5. SleeperHasHolder'
    BY <1>0, <1>a, <2>1, <2>2, <2>3 DEF SleeperHasHolder
  <2>6. QED
    BY <2>4, <2>5
<1>6. ASSUME NEW p \in Procs, brelse(p) PROVE LockInv' /\ SleeperHasHolder'
    BY <1>0, <1>6 DEF brelse, LockInv, SleeperHasHolder, Using
<1>7. ASSUME NEW p \in Procs, NEW k \in Blocks, bget_panic(p, k)
      PROVE  LockInv' /\ SleeperHasHolder'
    BY <1>0, <1>7 DEF bget_panic, LockInv, SleeperHasHolder, Using
<1>8. CASE UNCHANGED vars
    BY <1>0, <1>8 DEF vars, LockInv, SleeperHasHolder
<1>9. ASSUME NEW p \in Procs,
             \/ bread(p) \/ log_write(p) \/ bwrite(p) \/ install_trans(p) \/ bunpin(p)
             \/ \E v \in Vals : modify(p, v)
      PROVE  LockInv' /\ SleeperHasHolder'
    BY <1>2, <1>9 DEF bread, log_write, bwrite, install_trans, bunpin, modify, Using
<1>10. ASSUME NEW p \in Procs, NEW k \in Blocks, NEW b \in Bufs, Hit(p, k, b) \/ Recycle(p, k, b)
       PROVE  LockInv' /\ SleeperHasHolder'
    BY <1>1, <1>10 DEF Hit, Recycle
<1>11. QED
    BY <1>3, <1>4, <1>5, <1>6, <1>7, <1>8, <1>9, <1>10, Steps DEF Inside

\* Every step keeps a block in one buffer: bget() recycles only when no buffer
\* has the block.
LEMMA OneBufferNext ==
    ASSUME TypeOK, ListInv, OneBuffer, [Next]_vars
    PROVE  OneBuffer'
<1>1. ASSUME NEW p \in Procs, NEW k \in Blocks, NEW b \in Bufs, Recycle(p, k, b)
      PROVE  OneBuffer'
    BY <1>1 DEF Recycle, OneBuffer, TypeOK
<1>2. UNCHANGED blockno => OneBuffer'
    BY DEF OneBuffer
<1>3. \/ UNCHANGED blockno
      \/ \E p \in Procs, k \in Blocks, b \in Bufs : Recycle(p, k, b)
    BY Steps DEF Inside, vars, Hit, bget_panic, acquiresleep, acquiresleep_wait, kill, bread,
       modify, log_write, bwrite, install_trans, bunpin, releasesleep, brelse
<1>4. QED
    BY <1>1, <1>2, <1>3

\* Only one process uses a buffer.
LEMMA OneUser ==
    ASSUME LockInv, NEW p \in Procs, NEW q \in Procs,
           pc[p] \in Using, pc[q] \in Using, bp[p] = bp[q]
    PROVE  p = q
BY DEF LockInv

\* Every step keeps DataInv: what is changed under the lock is pinned by the
\* log, or written, before the lock is given back.
LEMMA DataNext ==
    ASSUME TypeOK, ListInv, UserInv, ReferencesExact, LockInv, OneBuffer, DataInv, [Next]_vars
    PROVE  DataInv'
<1>0. /\ pc \in [Procs -> Pcs] /\ bp \in [Procs -> 0 .. NBUF]
      /\ blockno \in [Bufs -> Blocks \union {None}] /\ valid \in [Bufs -> {0, 1}]
      /\ data \in [Bufs -> Vals] /\ disk \in [Blocks -> Vals]
      /\ None \notin Blocks /\ DataInv
    BY BcacheAssumption DEF TypeOK, Pcs
<1>a. \A q \in Procs : pc[q] \in Using => bp[q] \in Bufs /\ blockno[bp[q]] \in Blocks
    BY Referenced DEF Using
<1>b. \A p, q \in Procs : pc[p] \in Using /\ pc[q] \in Using /\ p # q =>
          bp[p] # bp[q] /\ blockno[bp[p]] # blockno[bp[q]]
    BY <1>0, <1>a, OneUser DEF OneBuffer
<1>1. ASSUME NEW p \in Procs, NEW k \in Blocks, NEW b \in Bufs, Hit(p, k, b) PROVE DataInv'
    BY <1>0, <1>1 DEF Hit, DataInv
<1>2. ASSUME NEW p \in Procs, NEW k \in Blocks, NEW b \in Bufs, Recycle(p, k, b) PROVE DataInv'
  <2>1. blockno[b] \notin pinned /\ \A q \in Procs : bp[q] # b
    BY <1>2, Unreferenced DEF Recycle
  <2>2. /\ \A c \in Bufs \ {b} : blockno'[c] = blockno[c] /\ valid'[c] = valid[c]
        /\ valid'[b] = 0 /\ UNCHANGED <<data, disk, pinned>>
        /\ \A q \in Procs \ {p} : pc'[q] = pc[q] /\ bp'[q] = bp[q]
        /\ pc[p] = "idle" /\ pc'[p] = "acquire"
    BY <1>0, <1>2 DEF Recycle
  <2>3. \A q \in Procs : pc'[q] \in Using => q # p /\ bp'[q] \in Bufs \ {b}
    BY <1>a, <2>1, <2>2 DEF Using
  <2>4. \A q \in Procs : pc'[q] \in {"hold", "dirty", "bunpin"} => valid'[bp'[q]] = 1
    BY <1>0, <2>2, <2>3 DEF DataInv, Using
  <2>5. \A x \in pinned' : \E c \in Bufs : blockno'[c] = x
    BY <1>0, <2>1, <2>2 DEF DataInv
  <2>6. ASSUME NEW c \in Bufs, valid'[c] = 1
        PROVE  /\ blockno'[c] \in Blocks
               /\ \/ blockno'[c] \in pinned'
                  \/ \E q \in Procs : pc'[q] = "dirty" /\ bp'[q] = c
                  \/ data'[c] = disk'[blockno'[c]]
    BY <1>0, <2>2, <2>6 DEF DataInv
  <2>7. \A q \in Procs : pc'[q] = "bunpin" =>
            blockno'[bp'[q]] \in pinned' /\ data'[bp'[q]] = disk'[blockno'[bp'[q]]]
    BY <1>0, <2>2, <2>3 DEF DataInv, Using
  <2>8. QED
    BY <2>4, <2>5, <2>6, <2>7 DEF DataInv
<1>3. ASSUME UNCHANGED <<blockno, valid, data, disk, pinned>>,
             \A q \in Procs :
                pc'[q] \in {"hold", "dirty", "bunpin"} => pc'[q] = pc[q] /\ bp'[q] = bp[q],
             \A q \in Procs : pc[q] = "dirty" => pc'[q] = "dirty"
      PROVE  DataInv'
    BY <1>0, <1>3 DEF DataInv
<1>4. ASSUME NEW p \in Procs,
             \/ acquiresleep(p) \/ acquiresleep_wait(p) \/ kill(p) \/ brelse(p)
             \/ \E k \in Blocks : bget_panic(p, k)
      PROVE  DataInv'
    BY <1>0, <1>3, <1>4 DEF acquiresleep, acquiresleep_wait, kill, brelse, bget_panic
<1>5. ASSUME NEW p \in Procs, releasesleep(p) PROVE DataInv'
    BY <1>0, <1>3, <1>5 DEF releasesleep, WakeAll
<1>6. ASSUME NEW p \in Procs, bread(p) PROVE DataInv'
  <2>1. bp[p] \in Bufs /\ blockno[bp[p]] \in Blocks
    BY <1>6, <1>a DEF bread, Using
  <2>2. QED
    BY <1>0, <1>6, <2>1 DEF bread, DataInv
<1>7. ASSUME NEW p \in Procs, NEW v \in Vals, modify(p, v) PROVE DataInv'
  <2>1. bp[p] \in Bufs /\ pc[p] \in Using
    BY <1>7, <1>a DEF modify, Using
  <2>2. \A q \in Procs \ {p} : pc[q] = "bunpin" => bp[q] # bp[p]
    BY <2>1, <1>b DEF Using
  <2>3. QED
    BY <1>0, <1>7, <2>1, <2>2 DEF modify, DataInv
<1>8. ASSUME NEW p \in Procs, log_write(p) PROVE DataInv'
  <2>1. bp[p] \in Bufs /\ blockno[bp[p]] \in pinned' /\ pinned \subseteq pinned'
    BY <1>8, <1>a DEF log_write, Using
  <2>2. \A x \in pinned' : x \in pinned \/ x = blockno[bp[p]]
    BY <1>8 DEF log_write
  <2>3. QED
    BY <1>0, <1>8, <2>1, <2>2 DEF log_write, DataInv
<1>9. ASSUME NEW p \in Procs, bwrite(p) \/ install_trans(p) PROVE DataInv'
  <2>1. bp[p] \in Bufs /\ blockno[bp[p]] \in Blocks /\ pc[p] \in Using
    BY <1>9, <1>a DEF bwrite, install_trans, Using
  <2>2. \A c \in Bufs \ {bp[p]} : blockno[c] # blockno[bp[p]]
    BY <1>0, <2>1 DEF OneBuffer
  <2>3. \A q \in Procs \ {p} : pc[q] = "bunpin" => bp[q] # bp[p] /\ bp[q] \in Bufs
    BY <2>1, <1>a, <1>b DEF Using
  <2>4. /\ UNCHANGED <<blockno, valid, data, pinned, bp>>
        /\ disk' = [disk EXCEPT ![blockno[bp[p]]] = data[bp[p]]]
        /\ \A q \in Procs \ {p} : pc'[q] = pc[q]
        /\ pc[p] \in {"hold", "dirty"} /\ pc'[p] \in {"hold", "bunpin"}
        /\ pc'[p] = "bunpin" => blockno[bp[p]] \in pinned
    BY <1>0, <1>9 DEF bwrite, install_trans
  <2>5. \A c \in Bufs : blockno[c] \in Blocks =>
            disk'[blockno[c]] = IF c = bp[p] THEN data[c] ELSE disk[blockno[c]]
    BY <1>0, <2>1, <2>2, <2>4
  <2>6. QED
    BY <1>0, <1>a, <2>1, <2>3, <2>4, <2>5 DEF DataInv, Using
<1>10. ASSUME NEW p \in Procs, bunpin(p) PROVE DataInv'
  <2>1. bp[p] \in Bufs /\ blockno[bp[p]] \in Blocks /\ pc[p] \in Using
    BY <1>10, <1>a DEF bunpin, Using
  <2>2. \A c \in Bufs \ {bp[p]} : blockno[c] \in pinned => blockno[c] \in pinned'
    BY <1>0, <1>10, <2>1 DEF bunpin, OneBuffer
  <2>3. \A q \in Procs \ {p} : pc[q] = "bunpin" => bp[q] # bp[p] /\ bp[q] \in Bufs
    BY <2>1, <1>a, <1>b DEF Using
  <2>4. QED
    BY <1>0, <1>10, <2>1, <2>2, <2>3 DEF bunpin, DataInv
<1>11. CASE UNCHANGED vars
    BY <1>0, <1>11 DEF vars, DataInv
<1>12. QED
    BY <1>1, <1>2, <1>4, <1>5, <1>6, <1>7, <1>8, <1>9, <1>10, <1>11, Steps DEF Inside

-----------------------------------------------------------------------------
(* The cache as a store of blocks *)

\* p has block k for itself; buffer b has the contents of block k.
Uses(p, k) == pc[p] \in Using /\ blockno[bp[p]] = k
Has(b, k) == blockno[b] = k /\ valid[b] = 1

\* Holder and Contents by what they say, without a choice.
IsHolder ==
    \A k \in Blocks :
        /\ \A p \in Procs : Uses(p, k) => Holder[k] = p
        /\ (\A p \in Procs : ~Uses(p, k)) => Holder[k] = None

IsContents ==
    \A k \in Blocks :
        /\ \A b \in Bufs : Has(b, k) => Contents[k] = data[b]
        /\ (\A b \in Bufs : ~Has(b, k)) => Contents[k] = disk[k]

\* Locks have one holder, so a block has.
LEMMA HolderIs == CacheInv => IsHolder
<1>1. SUFFICES ASSUME CacheInv, NEW k \in Blocks
               PROVE  /\ \A p \in Procs : Uses(p, k) => Holder[k] = p
                      /\ (\A p \in Procs : ~Uses(p, k)) => Holder[k] = None
    BY DEF IsHolder
<1>2. ASSUME NEW p \in Procs, Uses(p, k) PROVE Holder[k] = p
  <2>1. ASSUME NEW q \in Procs, Uses(q, k) PROVE q = p
    <3>1. bp[p] \in Bufs /\ bp[q] \in Bufs
        BY <1>1, <1>2, <2>1, Referenced DEF CacheInv, Uses, Using
    <3>2. bp[p] = bp[q]
        BY <1>1, <1>2, <2>1, <3>1, BcacheAssumption DEF CacheInv, OneBuffer, Uses
    <3>3. QED
        BY <1>1, <1>2, <2>1, <3>2, OneUser DEF CacheInv, Uses
  <2>2. Holder[k] = CHOOSE q \in Procs : pc[q] \in Using /\ blockno[bp[q]] = k
    BY <1>1, <1>2 DEF Holder, Uses
  <2>3. QED
    BY <1>2, <2>1, <2>2 DEF Uses
<1>3. (\A p \in Procs : ~Uses(p, k)) => Holder[k] = None
    BY <1>1 DEF Holder, Uses
<1>4. QED
    BY <1>2, <1>3

\* A block is in one buffer, so it has one contents.
LEMMA ContentsIs == CacheInv => IsContents
<1>1. SUFFICES ASSUME CacheInv, NEW k \in Blocks
               PROVE  /\ \A b \in Bufs : Has(b, k) => Contents[k] = data[b]
                      /\ (\A b \in Bufs : ~Has(b, k)) => Contents[k] = disk[k]
    BY DEF IsContents
<1>2. ASSUME NEW b \in Bufs, Has(b, k) PROVE Contents[k] = data[b]
  <2>1. ASSUME NEW c \in Bufs, Has(c, k) PROVE c = b
    BY <1>1, <1>2, <2>1, BcacheAssumption DEF CacheInv, OneBuffer, Has
  <2>2. Contents[k] = data[CHOOSE c \in Bufs : blockno[c] = k /\ valid[c] = 1]
    BY <1>1, <1>2 DEF Contents, Has
  <2>3. (CHOOSE c \in Bufs : blockno[c] = k /\ valid[c] = 1) = b
    BY <1>2, <2>1 DEF Has
  <2>4. QED
    BY <2>2, <2>3, Zenon
<1>3. (\A b \in Bufs : ~Has(b, k)) => Contents[k] = disk[k]
    BY <1>1 DEF Contents, Has
<1>4. QED
    BY <1>2, <1>3

\* What does not change who uses which block does not change the holders.
LEMMA HolderSame ==
    ASSUME IsHolder, IsHolder', \A p \in Procs, k \in Blocks : Uses(p, k)' <=> Uses(p, k)
    PROVE  Holder' = Holder
<1>1. \A k \in Blocks : Holder'[k] = Holder[k]
    BY DEF IsHolder
<1>2. Holder = [k \in Blocks |-> Holder[k]] /\ Holder' = [k \in Blocks |-> Holder'[k]]
    BY DEF Holder
<1>3. QED
    BY <1>1, <1>2

\* ... and the contents of a block are the same if its buffer, or the disk, is.
LEMMA ContentsSame ==
    ASSUME IsContents, IsContents', NEW S \in SUBSET Blocks,
           \A k \in S : \A b \in Bufs : Has(b, k)' <=> Has(b, k),
           \A k \in S : disk'[k] = disk[k] \/ \E b \in Bufs : Has(b, k),
           \A k \in S : \A b \in Bufs : Has(b, k) => data'[b] = data[b]
    PROVE  \A k \in S : Contents'[k] = Contents[k]
BY DEF IsContents

\* Steps of one process inside its use of a block leave the holders alone.
LEMMA HolderKept ==
    ASSUME CacheInv, IsHolder, IsHolder', [Next]_vars,
           ~\E p \in Procs : acquiresleep(p) \/ releasesleep(p)
    PROVE  Holder' = Holder
<1>0. /\ pc \in [Procs -> Pcs] /\ bp \in [Procs -> 0 .. NBUF]
      /\ blockno \in [Bufs -> Blocks \union {None}]
    BY DEF CacheInv, TypeOK, Pcs
<1>a. \A q \in Procs : pc[q] \in Using => bp[q] \in Bufs
    BY Referenced DEF CacheInv, Using
<1>1. ASSUME \A q \in Procs : pc'[q] \in Using <=> pc[q] \in Using,
             \A q \in Procs : pc[q] \in Using =>
                 bp'[q] = bp[q] /\ blockno'[bp[q]] = blockno[bp[q]]
      PROVE  Holder' = Holder
    BY <1>1, HolderSame DEF Uses
<1>2. ASSUME NEW p \in Procs, NEW k \in Blocks, NEW b \in Bufs, Hit(p, k, b)
      PROVE  Holder' = Holder
    BY <1>0, <1>1, <1>2 DEF Hit, Using
<1>3. ASSUME NEW p \in Procs, NEW k \in Blocks, NEW b \in Bufs, Recycle(p, k, b)
      PROVE  Holder' = Holder
  <2>1. \A q \in Procs : bp[q] # b
    BY <1>3, Unreferenced DEF Recycle, CacheInv
  <2>2. QED
    BY <1>0, <1>1, <1>3, <1>a, <2>1 DEF Recycle, Using
<1>4. ASSUME NEW p \in Procs, NEW k \in Blocks, bget_panic(p, k) PROVE Holder' = Holder
    BY <1>0, <1>1, <1>4 DEF bget_panic, Using
<1>5. ASSUME NEW p \in Procs, acquiresleep_wait(p) \/ kill(p) PROVE Holder' = Holder
    BY <1>0, <1>1, <1>5 DEF acquiresleep_wait, kill, Using
<1>6. ASSUME NEW p \in Procs, NEW s \in Using, UNCHANGED <<bp, blockno>>, pc[p] \in Using,
             pc' = [pc EXCEPT ![p] = s]
      PROVE  Holder' = Holder
    BY <1>0, <1>1, <1>6
<1>7. ASSUME NEW p \in Procs,
             \/ bread(p) \/ log_write(p) \/ bwrite(p) \/ install_trans(p) \/ bunpin(p)
             \/ \E v \in Vals : modify(p, v)
      PROVE  Holder' = Holder
    BY <1>6, <1>7 DEF bread, log_write, bwrite, install_trans, bunpin, modify, Using
<1>8. ASSUME NEW p \in Procs, brelse(p) PROVE Holder' = Holder
    BY <1>0, <1>1, <1>8 DEF brelse, Using
<1>9. CASE UNCHANGED vars
    BY <1>1, <1>9 DEF vars
<1>10. QED
    BY <1>2, <1>3, <1>4, <1>5, <1>7, <1>8, <1>9, Steps DEF Inside, CacheInv

\* Only modify() changes what a block holds.
LEMMA ContentsKept ==
    ASSUME CacheInv, IsContents, IsContents', [Next]_vars,
           ~\E p \in Procs, v \in Vals : modify(p, v)
    PROVE  Contents' = Contents
<1>0. /\ blockno \in [Bufs -> Blocks \union {None}] /\ valid \in [Bufs -> {0, 1}]
      /\ data \in [Bufs -> Vals] /\ disk \in [Blocks -> Vals]
      /\ pc \in [Procs -> Pcs] /\ bp \in [Procs -> 0 .. NBUF]
      /\ OneBuffer /\ DataInv /\ LockInv /\ None \notin Blocks
    BY BcacheAssumption DEF CacheInv, TypeOK, Pcs
<1>a. SUFFICES \A k \in Blocks : Contents'[k] = Contents[k]
  <2>1. Contents = [k \in Blocks |-> Contents[k]] /\ Contents' = [k \in Blocks |-> Contents'[k]]
    BY DEF Contents
  <2>2. QED
    BY <2>1
<1>b. \A q \in Procs : pc[q] \in Using => bp[q] \in Bufs /\ blockno[bp[q]] \in Blocks
    BY Referenced DEF CacheInv, Using
<1>1. ASSUME UNCHANGED <<blockno, valid, data, disk>> PROVE \A k \in Blocks : Contents'[k] = Contents[k]
    BY <1>1, ContentsSame DEF Has
<1>2. ASSUME NEW p \in Procs, NEW x \in Blocks, NEW b \in Bufs, Recycle(p, x, b), NEW k \in Blocks
      PROVE  Contents'[k] = Contents[k]
  <2>1. blockno[b] \notin pinned /\ \A q \in Procs : bp[q] # b
    BY <1>2, Unreferenced DEF Recycle, CacheInv
  <2>2. Has(b, k) => data[b] = disk[k]
    BY <1>0, <2>1 DEF DataInv, Has
  <2>3. \A c \in Bufs : c # b => (Has(c, k)' <=> Has(c, k))
    BY <1>0, <1>2 DEF Recycle, Has
  <2>4. ~Has(b, k)' /\ UNCHANGED <<data, disk>>
    BY <1>0, <1>2 DEF Recycle, Has
  <2>5. CASE \E c \in Bufs : c # b /\ Has(c, k)
    <3>1. PICK c \in Bufs : c # b /\ Has(c, k)
        BY <2>5
    <3>2. Contents[k] = data[c] /\ Contents'[k] = data'[c]
        BY <2>3, <3>1 DEF IsContents
    <3>3. QED
        BY <2>4, <3>2
  <2>6. CASE \A c \in Bufs : c # b => ~Has(c, k)
    <3>1. Contents'[k] = disk[k]
        BY <2>3, <2>4, <2>6 DEF IsContents
    <3>2. Contents[k] = disk[k]
        BY <2>2, <2>6 DEF IsContents
    <3>3. QED
        BY <3>1, <3>2
  <2>7. QED
    BY <2>5, <2>6
<1>3. ASSUME NEW p \in Procs, bread(p), NEW k \in Blocks PROVE Contents'[k] = Contents[k]
  <2>0. PICK b \in Bufs : b = bp[p]
    BY <1>3, <1>b DEF bread, Using
  <2>1. blockno[b] \in Blocks
    BY <1>3, <1>b, <2>0 DEF bread, Using
  <2>2. CASE valid[b] = 1
    BY <1>0, <1>1, <1>3, <2>0, <2>1, <2>2 DEF bread
  <2>3. CASE valid[b] = 0 /\ blockno[b] = k
    <3>1. \A c \in Bufs : ~Has(c, k)
        BY <1>0, <2>1, <2>3 DEF Has, OneBuffer
    <3>2. Has(b, k)' /\ data'[b] = disk[k]
        BY <1>0, <1>3, <2>0, <2>1, <2>3 DEF bread, Has
    <3>3. QED
        BY <2>1, <3>1, <3>2 DEF IsContents
  <2>4. CASE valid[b] = 0 /\ blockno[b] # k
    <3>1. \A c \in Bufs : (Has(c, k)' <=> Has(c, k)) /\ (Has(c, k) => data'[c] = data[c])
        BY <1>0, <1>3, <2>0, <2>1, <2>4 DEF bread, Has
    <3>2. disk' = disk
        BY <1>3 DEF bread
    <3>3. CASE \E c \in Bufs : Has(c, k)
        BY <3>1, <3>3 DEF IsContents
    <3>4. CASE \A c \in Bufs : ~Has(c, k)
        BY <3>1, <3>2, <3>4 DEF IsContents
    <3>5. QED
        BY <3>3, <3>4
  <2>5. QED
    BY <1>0, <2>1, <2>2, <2>3, <2>4
<1>4. ASSUME NEW p \in Procs, bwrite(p) \/ install_trans(p), NEW k \in Blocks
      PROVE  Contents'[k] = Contents[k]
  <2>0. PICK b \in Bufs : b = bp[p]
    BY <1>4, <1>b DEF bwrite, install_trans, Using
  <2>1. blockno[b] \in Blocks /\ valid[b] = 1
    BY <1>4, <1>b, <1>0, <2>0 DEF bwrite, install_trans, Using, DataInv
  <2>2. /\ \A c \in Bufs : Has(c, k)' <=> Has(c, k)
        /\ UNCHANGED data
        /\ k # blockno[b] => disk'[k] = disk[k]
    BY <1>0, <1>4, <2>0, <2>1 DEF bwrite, install_trans, Has
  <2>3. k = blockno[b] => Has(b, k)
    BY <2>1 DEF Has
  <2>4. QED
    BY <2>1, <2>2, <2>3 DEF IsContents
<1>5. \/ UNCHANGED <<blockno, valid, data, disk>>
      \/ \E p \in Procs : bread(p) \/ bwrite(p) \/ install_trans(p)
      \/ \E p \in Procs, x \in Blocks, b \in Bufs : Recycle(p, x, b)
    BY Steps DEF CacheInv, Inside, vars, Hit, bget_panic, acquiresleep, acquiresleep_wait, kill,
       log_write, bunpin, releasesleep, brelse
<1>6. QED
    BY <1>1, <1>2, <1>3, <1>4, <1>5

-----------------------------------------------------------------------------
(* Theorems *)

\* After binit() no buffer has a block.
LEMMA InvInit == Init => CacheInv
<1>1. SUFFICES ASSUME Init PROVE CacheInv
    OBVIOUS
<1>2. TypeOK /\ ListInv
    BY <1>1, TypeInit
<1>3. UserInv /\ LockInv /\ OneBuffer /\ SleeperHasHolder
    BY <1>1 DEF Init, UserInv, LockInv, OneBuffer, SleeperHasHolder, Using
<1>4. DataInv
    BY <1>1 DEF Init, DataInv
<1>5. ASSUME NEW b \in Bufs
      PROVE  refcnt[b] = Cardinality({p \in Procs : bp[p] = b})
                         + (IF blockno[b] \in pinned THEN 1 ELSE 0)
  <2>1. {p \in Procs : bp[p] = b} = {} /\ refcnt[b] = 0 /\ blockno[b] \notin pinned
    BY <1>1, <1>5, BufFacts DEF Init
  <2>2. QED
    BY <2>1, FS_EmptySet
<1>6. ReferencesExact
    BY <1>5 DEF ReferencesExact
<1>7. QED
    BY <1>2, <1>3, <1>4, <1>6 DEF CacheInv

\* Every step keeps it.
LEMMA InvNext == CacheInv /\ [Next]_vars => CacheInv'
BY TypeNext, UserNext, ReferencesNext, LockNext, OneBufferNext, DataNext DEF CacheInv

\* The inductive invariant of bio.c and sleeplock.c.
THEOREM CacheInvariant == Spec => []CacheInv
BY InvInit, InvNext, PTL DEF Spec

\* Every block is in one buffer at most, and b->refcnt is the number of its
\* users plus the log's pin: bget(), brelse(), bpin() and bunpin() lose no
\* reference and give none twice, whatever they interleave with.
THEOREM BuffersAreExact == Spec => []BuffersExact
<1>1. CacheInv => BuffersExact
    BY DEF CacheInv, BuffersExact
<1>2. QED
    BY <1>1, CacheInvariant, PTL

\* Who sleeps in acquiresleep() sleeps on a lock that somebody holds.
THEOREM SleepersHaveHolder == Spec => []SleeperHasHolder
<1>1. CacheInv => SleeperHasHolder
    BY DEF CacheInv
<1>2. QED
    BY <1>1, CacheInvariant, PTL

\* Every step of the cache is a step of BlockStore, or none.
LEMMA StoreStep ==
    ASSUME CacheInv, CacheInv', [Next]_vars
    PROVE  [Store!Next]_(Store!svars)
<1>0. IsHolder /\ IsHolder' /\ IsContents /\ IsContents'
  <2>1. (CacheInv => IsHolder)' /\ (CacheInv => IsContents)'
    BY HolderIs, ContentsIs, PTL
  <2>2. QED
    BY <2>1, HolderIs, ContentsIs
<1>a. /\ pc \in [Procs -> Pcs] /\ bp \in [Procs -> 0 .. NBUF]
      /\ locked \in [Bufs -> Procs \union {None}]
      /\ blockno \in [Bufs -> Blocks \union {None}] /\ data \in [Bufs -> Vals]
      /\ None \notin Procs \union Blocks /\ LockInv /\ OneBuffer
    BY BcacheAssumption DEF CacheInv, TypeOK, Pcs
<1>b. \A q \in Procs : pc[q] \notin {"idle", "panic"} => bp[q] \in Bufs /\ blockno[bp[q]] \in Blocks
    BY Referenced DEF CacheInv
<1>c. /\ Holder = [k \in Blocks |-> Holder[k]] /\ Holder' = [k \in Blocks |-> Holder'[k]]
      /\ Contents = [k \in Blocks |-> Contents[k]] /\ Contents' = [k \in Blocks |-> Contents'[k]]
    BY DEF Holder, Contents
<1>1. ASSUME NEW p \in Procs, acquiresleep(p) PROVE \E k \in Blocks : Store!Hold(p, k)
  <2>0. PICK k \in Blocks : k = blockno[bp[p]]
    BY <1>1, <1>b DEF acquiresleep
  <2>1. bp[p] \in Bufs /\ locked[bp[p]] = None
    BY <1>1, <1>b DEF acquiresleep
  <2>2. \A q \in Procs : ~Uses(q, k)
    BY <1>a, <1>b, <2>0, <2>1 DEF Uses, Using, LockInv, OneBuffer
  <2>3. Uses(p, k)' /\ \A q \in Procs, x \in Blocks : q # p => (Uses(q, x)' <=> Uses(q, x))
    BY <1>1, <1>a, <2>0 DEF acquiresleep, Uses, Using
  <2>4. \A x \in Blocks : x # k => ~Uses(p, x)' /\ ~Uses(p, x)
    BY <1>1, <1>a, <2>0 DEF acquiresleep, Uses, Using
  <2>5. Holder[k] = None /\ Holder'[k] = p
    BY <1>0, <2>2, <2>3 DEF IsHolder
  <2>6. ASSUME NEW x \in Blocks, x # k PROVE Holder'[x] = Holder[x]
    <3>1. \A q \in Procs : Uses(q, x)' <=> Uses(q, x)
        BY <2>3, <2>4, <2>6
    <3>2. QED
        BY <1>0, <3>1 DEF IsHolder
  <2>7. Contents' = Contents
    BY <1>1 DEF acquiresleep, Contents
  <2>8. Holder' = [Holder EXCEPT ![k] = p]
    BY <1>c, <2>5, <2>6
  <2>9. QED
    BY <2>5, <2>7, <2>8, Zenon DEF Store!Hold
<1>2. ASSUME NEW p \in Procs, releasesleep(p) PROVE \E k \in Blocks : Store!Release(p, k)
  <2>1. PICK k \in Blocks : k = blockno[bp[p]]
    BY <1>2, <1>b DEF releasesleep
  <2>2. Uses(p, k) /\ \A x \in Blocks : ~Uses(p, x)'
    BY <1>2, <1>a, <2>1 DEF releasesleep, WakeAll, Uses, Using
  <2>3. \A q \in Procs, x \in Blocks : q # p => (Uses(q, x)' <=> Uses(q, x))
    BY <1>2, <1>a DEF releasesleep, WakeAll, Uses, Using
  <2>4. \A q \in Procs : q # p => ~Uses(q, k)
    BY <1>0, <2>1, <2>2 DEF IsHolder
  <2>5. Holder[k] = p /\ Holder'[k] = None
    BY <1>0, <2>1, <2>2, <2>3, <2>4 DEF IsHolder
  <2>6. ASSUME NEW x \in Blocks, x # k PROVE Holder'[x] = Holder[x]
    <3>1. ~Uses(p, x)
        BY <2>1, <2>6 DEF Uses
    <3>2. \A q \in Procs : Uses(q, x)' <=> Uses(q, x)
        BY <2>2, <2>3, <3>1
    <3>3. QED
        BY <1>0, <3>2 DEF IsHolder
  <2>7. Contents' = Contents
    BY <1>2 DEF releasesleep, Contents
  <2>8. Holder' = [Holder EXCEPT ![k] = None]
    BY <1>c, <2>5, <2>6
  <2>9. QED
    BY <2>1, <2>5, <2>7, <2>8, Zenon DEF Store!Release
<1>3. ASSUME NEW p \in Procs, NEW v \in Vals, modify(p, v)
      PROVE  \E k \in Blocks : Store!Change(p, k, v)
  <2>0. PICK b \in Bufs, k \in Blocks : b = bp[p] /\ k = blockno[b]
    BY <1>3, <1>b DEF modify
  <2>1. valid[b] = 1 /\ pc[p] \in Using
    BY <1>3, <2>0 DEF modify, CacheInv, DataInv, Using
  <2>2. Holder[k] = p
    BY <1>0, <2>0, <2>1 DEF IsHolder, Uses
  <2>3. \A q \in Procs, x \in Blocks : Uses(q, x)' <=> Uses(q, x)
    BY <1>3, <1>a DEF modify, Uses, Using
  <2>4. Holder' = Holder
    BY <1>0, <2>3, HolderSame
  <2>5. \A c \in Bufs, x \in Blocks : Has(c, x)' <=> Has(c, x)
    BY <1>3 DEF modify, Has
  <2>6. Contents'[k] = v
    BY <1>0, <1>3, <1>a, <2>0, <2>1, <2>5 DEF modify, IsContents, Has
  <2>7. ASSUME NEW x \in Blocks, x # k PROVE Contents'[x] = Contents[x]
    <3>1. \A c \in Bufs : Has(c, x) => data'[c] = data[c]
        BY <1>3, <1>a, <2>0, <2>7 DEF modify, Has
    <3>2. disk' = disk
        BY <1>3 DEF modify
    <3>3. CASE \E c \in Bufs : Has(c, x)
        BY <1>0, <2>5, <3>1, <3>3 DEF IsContents
    <3>4. CASE \A c \in Bufs : ~Has(c, x)
        BY <1>0, <2>5, <3>2, <3>4 DEF IsContents
    <3>5. QED
        BY <3>3, <3>4
  <2>8. Contents' = [Contents EXCEPT ![k] = v]
    BY <1>c, <2>6, <2>7
  <2>9. QED
    BY <2>2, <2>4, <2>8, Zenon DEF Store!Change
<1>4. CASE ~\E p \in Procs : \/ acquiresleep(p) \/ releasesleep(p)
                             \/ \E v \in Vals : modify(p, v)
    BY <1>0, <1>4, HolderKept, ContentsKept DEF Store!svars
<1>5. QED
    BY <1>1, <1>2, <1>3, <1>4 DEF Store!Next

\* The cache implements the store of blocks: whatever is cached, recycled or
\* written behind it, a block reads as it was last changed, and one process has
\* it at a time.
THEOREM CacheImplementsStore == Spec => BufferIsBlock
<1>1. Init => Store!Init
  <2>1. SUFFICES ASSUME Init PROVE Store!Init
    OBVIOUS
  <2>2. Contents = InitDisk
    BY <2>1, BcacheAssumption DEF Init, Contents
  <2>3. Holder = [k \in Blocks |-> None]
    BY <2>1 DEF Init, Holder, Using
  <2>4. QED
    BY <2>2, <2>3 DEF Store!Init
<1>2. CacheInv /\ CacheInv' /\ [Next]_vars => [Store!Next]_(Store!svars)
    BY StoreStep
<1>3. QED
    BY <1>1, <1>2, CacheInvariant, PTL DEF Spec, BufferIsBlock, Store!Spec
=============================================================================
