--------------------------- MODULE FileTableProofs ---------------------------
(***************************************************************************)
(* Proofs about module FileTable, for any number of processes, files,      *)
(* descriptors and pipes.                                                  *)
(*                                                                         *)
(* References are counted by cardinalities, and a step changes each of the *)
(* sets that are counted at one element (OneMore).  To RefsExact and       *)
(* ClosedOnce the inductive invariant FileInv adds that a free entry is    *)
(* for nothing (FreeInv) and that the files open() and pipe() have just    *)
(* got are theirs alone and for nothing yet (CallInv), so that setting one *)
(* up overwrites nothing that had to be closed.                            *)
(***************************************************************************)
EXTENDS FileTable, FiniteSetTheorems, TLAPS

\* A file that a call has got from filealloc() and not set up.
Fresh(f) == f \in Files /\ ref[f] = 1 /\ what[f] = FD_NONE

\* What a process has in its variables at each point of a call.
CallOf(p) ==
    /\ call[p] \in {"open", "pipe", "pipefds"} => ff[p] = FD_NONE
    /\ call[p] \in {"open", "pipe"} => Fresh(f0[p])
    /\ call[p] = "open" => f1[p] = NoFile
    /\ call[p] = "pipe" /\ f1[p] # NoFile => Fresh(f1[p])
    /\ call[p] = "pipefds" => f0[p] \in Files /\ f1[p] \in Files
    /\ call[p] = "unused" => /\ f0[p] = NoFile /\ f1[p] = NoFile /\ ff[p] = FD_NONE
                             /\ \A fd \in Fds : ofile[p][fd] = NoFile

CallInv == \A p \in Users : CallOf(p)

\* filealloc() leaves the type alone, and finds it cleared.
FreeInv == \A f \in Files : ref[f] = 0 => what[f] = FD_NONE

FileInv == FileTypeOK /\ RefsExact /\ FreeInv /\ CallInv /\ EndsClosedOnce /\ InodesPutOnce

\* The sets that RefsExact and ClosedOnce count.
Held(f) == {d \in Users \X Fds : ofile[d[1]][d[2]] = f}
First(f) == {p \in Users : f0[p] = f}
Second(f) == {p \in Users : f1[p] = f}
Table(x) == {f \in Files : ref[f] > 0 /\ what[f] = x}
Copies(x) == {p \in Users : ff[p] = x}
Opening == {p \in Users : call[p] \in {"open", "iput"}}

\* A step that sets a descriptor.
Put(p, fd, v) == ofile' = [ofile EXCEPT ![p][fd] = v]

One(b) == IF b THEN 1 ELSE 0
Is(u, v) == IF u = v THEN 1 ELSE 0

-----------------------------------------------------------------------------
(* Counting *)

\* Sets that differ at most at a differ in size by what they say of a.
LEMMA OneMore ==
    ASSUME NEW A, NEW B, NEW a, IsFiniteSet(A), A \ {a} = B \ {a}
    PROVE  /\ IsFiniteSet(B)
           /\ Cardinality(B) = Cardinality(A) + One(a \in B) - One(a \in A)
<1>1. IsFiniteSet(A \ {a}) /\ IsFiniteSet(B \ {a})
    BY FS_RemoveElement
<1>2. IsFiniteSet(B)
  <2>1. CASE a \in B
    <3>1. B = (B \ {a}) \union {a}
        BY <2>1
    <3>2. QED
        BY <1>1, <3>1, FS_AddElement
  <2>2. CASE a \notin B
    <3>1. B = B \ {a}
        BY <2>2
    <3>2. QED
        BY <1>1, <3>1
  <2>3. QED
      BY <2>1, <2>2
<1>3. ASSUME NEW S, IsFiniteSet(S)
      PROVE  /\ Cardinality(S) \in Nat
             /\ Cardinality(S \ {a}) = Cardinality(S) - One(a \in S)
  <2>1. Cardinality(S) \in Nat
      BY <1>3, FS_CardinalityType
  <2>2. Cardinality(S \ {a}) = IF a \in S THEN Cardinality(S) - 1 ELSE Cardinality(S)
      BY <1>3, FS_RemoveElement, Zenon
  <2>3. QED
      BY <2>1, <2>2 DEF One
<1>4. Cardinality(B \ {a}) = Cardinality(B) - One(a \in B) /\ Cardinality(B) \in Nat
    BY <1>2, <1>3
<1>5. Cardinality(A \ {a}) = Cardinality(A) - One(a \in A) /\ Cardinality(A) \in Nat
    BY <1>3
<1>6. One(a \in A) \in {0, 1} /\ One(a \in B) \in {0, 1}
    BY DEF One
<1>7. QED
    BY <1>2, <1>4, <1>5, <1>6

\* A set is as large as another it has been put in step with: its image under
\* pairing with a fixed element.
LEMMA PairCount ==
    ASSUME NEW c, NEW S, IsFiniteSet(S)
    PROVE  /\ IsFiniteSet({<<c, s>> : s \in S})
           /\ Cardinality({<<c, s>> : s \in S}) = Cardinality(S)
<1> DEFINE P == {<<c, s>> : s \in S}
           f == [s \in S |-> <<c, s>>]
<1>1. f \in Bijection(S, P)
  <2>1. f \in [S -> P]
      OBVIOUS
  <2>2. \A a, b \in S : f[a] = f[b] => a = b
      OBVIOUS
  <2>3. \A t \in P : \E s \in S : f[s] = t
      OBVIOUS
  <2>4. QED
      BY <2>1, <2>2, <2>3, Zenon DEF Bijection, Injection, Surjection, IsInjective
<1>2. ExistsBijection(S, P)
    BY <1>1, Zenon DEF ExistsBijection
<1>3. QED
    BY <1>2, FS_Bijection

\* What is counted is finite.
LEMMA Finite ==
    ASSUME FileTypeOK
    PROVE  /\ \A f : IsFiniteSet(Held(f)) /\ IsFiniteSet(First(f)) /\ IsFiniteSet(Second(f))
           /\ \A x : IsFiniteSet(Table(x)) /\ IsFiniteSet(Copies(x))
           /\ IsFiniteSet(Opening)
           /\ IsFiniteSet(Fds)
<1>1. IsFiniteSet(Users) /\ IsFiniteSet(Files) /\ IsFiniteSet(Fds)
    BY FileAssumption, FS_Interval DEF Files, Fds
<1>2. IsFiniteSet(Users \X Fds)
    BY <1>1, FS_Product
<1>3. \A f : Held(f) \subseteq Users \X Fds /\ First(f) \subseteq Users /\ Second(f) \subseteq Users
    BY DEF Held, First, Second
<1>4. \A x : Table(x) \subseteq Files /\ Copies(x) \subseteq Users
    BY DEF Table, Copies
<1>5. Opening \subseteq Users
    BY DEF Opening
<1>6. QED
    BY <1>1, <1>2, <1>3, <1>4, <1>5, FS_Subset

\* The kinds of files are told apart by their fields.
LEMMA KindsApart ==
    /\ FD_NONE # FD_INODE
    /\ FD_INODE.type = "INODE"
    /\ \A i, w : /\ FD_PIPE(i, w) # FD_NONE /\ FD_PIPE(i, w) # FD_INODE
                 /\ FD_PIPE(i, w).type = "PIPE" /\ FD_PIPE(i, w).obj = i /\ FD_PIPE(i, w).writable = w
    BY DEF FD_NONE, FD_INODE, FD_PIPE

-----------------------------------------------------------------------------
(* What a step does to each count *)

\* A descriptor is set.
LEMMA HeldStep ==
    ASSUME FileTypeOK, NEW p \in Users, NEW fd \in Fds, NEW v, NEW f, Put(p, fd, v)
    PROVE  Cardinality(Held(f)') = Cardinality(Held(f)) + Is(v, f) - Is(ofile[p][fd], f)
<1>1. \A q \in Users, k \in Fds :
          ofile'[q][k] = IF q = p /\ k = fd THEN v ELSE ofile[q][k]
    BY DEF FileTypeOK, Put
<1>2. \A d \in Users \X Fds : d[1] \in Users /\ d[2] \in Fds /\ d = <<d[1], d[2]>>
    OBVIOUS
<1>3. \A d \in Users \X Fds : d # <<p, fd>> => ofile'[d[1]][d[2]] = ofile[d[1]][d[2]]
    BY <1>1, <1>2
<1>4. Held(f) \ {<<p, fd>>} = Held(f)' \ {<<p, fd>>}
    BY <1>3 DEF Held
<1>5. (<<p, fd>> \in Held(f)' <=> v = f) /\ (<<p, fd>> \in Held(f) <=> ofile[p][fd] = f)
    BY <1>1 DEF Held
<1>6. Cardinality(Held(f)') =
          Cardinality(Held(f)) + One(<<p, fd>> \in Held(f)') - One(<<p, fd>> \in Held(f))
    BY <1>4, Finite, OneMore
<1>7. QED
    BY <1>5, <1>6 DEF One, Is

\* A call's variable f0 is set.
LEMMA FirstStep ==
    ASSUME FileTypeOK, NEW p \in Users, NEW v, NEW f, f0' = [f0 EXCEPT ![p] = v]
    PROVE  Cardinality(First(f)') = Cardinality(First(f)) + Is(v, f) - Is(f0[p], f)
<1>1. First(f) \ {p} = First(f)' \ {p}
    BY DEF First, FileTypeOK
<1>2. (p \in First(f)' <=> v = f) /\ (p \in First(f) <=> f0[p] = f)
    BY DEF First, FileTypeOK
<1>3. Cardinality(First(f)') = Cardinality(First(f)) + One(p \in First(f)') - One(p \in First(f))
    BY <1>1, Finite, OneMore
<1>4. QED
    BY <1>2, <1>3 DEF One, Is

\* A call's variable f1 is set.
LEMMA SecondStep ==
    ASSUME FileTypeOK, NEW p \in Users, NEW v, NEW f, f1' = [f1 EXCEPT ![p] = v]
    PROVE  Cardinality(Second(f)') = Cardinality(Second(f)) + Is(v, f) - Is(f1[p], f)
<1>1. Second(f) \ {p} = Second(f)' \ {p}
    BY DEF Second, FileTypeOK
<1>2. (p \in Second(f)' <=> v = f) /\ (p \in Second(f) <=> f1[p] = f)
    BY DEF Second, FileTypeOK
<1>3. Cardinality(Second(f)') = Cardinality(Second(f)) + One(p \in Second(f)') - One(p \in Second(f))
    BY <1>1, Finite, OneMore
<1>4. QED
    BY <1>2, <1>3 DEF One, Is

\* fileclose() copies a file, or has worked from its copy.
LEMMA CopiesStep ==
    ASSUME FileTypeOK, NEW p \in Users, NEW v, NEW x, ff' = [ff EXCEPT ![p] = v]
    PROVE  Cardinality(Copies(x)') = Cardinality(Copies(x)) + Is(v, x) - Is(ff[p], x)
<1>1. Copies(x) \ {p} = Copies(x)' \ {p}
    BY DEF Copies, FileTypeOK
<1>2. (p \in Copies(x)' <=> v = x) /\ (p \in Copies(x) <=> ff[p] = x)
    BY DEF Copies, FileTypeOK
<1>3. Cardinality(Copies(x)') = Cardinality(Copies(x)) + One(p \in Copies(x)') - One(p \in Copies(x))
    BY <1>1, Finite, OneMore
<1>4. QED
    BY <1>2, <1>3 DEF One, Is

\* One entry of the table changes.
LEMMA TableStep ==
    ASSUME FileTypeOK, NEW f \in Files, NEW x,
           \A g \in Files \ {f} : ref'[g] = ref[g] /\ what'[g] = what[g]
    PROVE  Cardinality(Table(x)') =
               Cardinality(Table(x)) + One(f \in Table(x)') - One(f \in Table(x))
<1>1. Table(x) \ {f} = Table(x)' \ {f}
    BY DEF Table
<1>2. QED
    BY <1>1, Finite, OneMore

\* A process goes on in its call.
LEMMA OpeningStep ==
    ASSUME FileTypeOK, NEW p \in Users, NEW v, call' = [call EXCEPT ![p] = v]
    PROVE  Cardinality(Opening') = Cardinality(Opening)
               + One(v \in {"open", "iput"}) - One(call[p] \in {"open", "iput"})
<1>1. Opening \ {p} = Opening' \ {p}
    BY DEF Opening, FileTypeOK
<1>2. (p \in Opening' <=> v \in {"open", "iput"}) /\ (p \in Opening <=> call[p] \in {"open", "iput"})
    BY DEF Opening, FileTypeOK
<1>3. Cardinality(Opening') = Cardinality(Opening) + One(p \in Opening') - One(p \in Opening)
    BY <1>1, Finite, OneMore
<1>4. QED
    BY <1>2, <1>3 DEF One

\* The counts are numbers, and not zero where there is something to count.
LEMMA Counts ==
    ASSUME FileTypeOK
    PROVE  /\ \A f : /\ Cardinality(Held(f)) \in Nat
                     /\ Cardinality(First(f)) \in Nat
                     /\ Cardinality(Second(f)) \in Nat
           /\ \A f : \A p \in Users, fd \in Fds : ofile[p][fd] = f => Cardinality(Held(f)) > 0
           /\ \A f : \A p \in Users : f0[p] = f => Cardinality(First(f)) > 0
           /\ \A f : \A p \in Users : f1[p] = f => Cardinality(Second(f)) > 0
           /\ \A x : Cardinality(Table(x)) \in Nat /\ Cardinality(Copies(x)) \in Nat
           /\ \A x : \A p \in Users : ff[p] = x => Cardinality(Copies(x)) > 0
           /\ \A x : \A f \in Files : ref[f] > 0 /\ what[f] = x => Cardinality(Table(x)) > 0
           /\ Cardinality(Opening) \in Nat
           /\ \A p \in Users : call[p] \in {"open", "iput"} => Cardinality(Opening) > 0
<1>1. \A S : IsFiniteSet(S) => Cardinality(S) \in Nat
    BY FS_CardinalityType
<1>2. ASSUME NEW S, NEW s \in S, IsFiniteSet(S) PROVE Cardinality(S) > 0
    BY <1>1, <1>2, FS_EmptySet
<1>3. \A f, p, fd : p \in Users /\ fd \in Fds /\ ofile[p][fd] = f => <<p, fd>> \in Held(f)
    BY DEF Held
<1>4. \A f : \A p \in Users : (f0[p] = f => p \in First(f)) /\ (f1[p] = f => p \in Second(f))
    BY DEF First, Second
<1>5. \A x : \A p \in Users : ff[p] = x => p \in Copies(x)
    BY DEF Copies
<1>6. \A x : \A f \in Files : ref[f] > 0 /\ what[f] = x => f \in Table(x)
    BY DEF Table
<1>7. \A p \in Users : call[p] \in {"open", "iput"} => p \in Opening
    BY DEF Opening
<1>8. QED
    BY <1>1, <1>2, <1>3, <1>4, <1>5, <1>6, <1>7, Finite, Zenon

-----------------------------------------------------------------------------
(* Who has a file *)

\* RefsExact in terms of the sets it counts.
LEMMA RefsCount ==
    RefsExact <=> \A f \in Files : ref[f] = Cardinality(Held(f)) + Cardinality(First(f))
                                            + Cardinality(Second(f))
    BY DEF RefsExact, Held, First, Second

\* Who has the only reference to a file is alone.
LEMMA Sole ==
    ASSUME FileTypeOK, RefsExact, NEW f \in Files, ref[f] = 1, NEW p \in Users, f0[p] = f \/ f1[p] = f
    PROVE  /\ \A q \in Users, fd \in Fds : ofile[q][fd] # f
           /\ \A q \in Users : q # p => f0[q] # f /\ f1[q] # f
           /\ f0[p] # f1[p]
<1>1. 1 = Cardinality(Held(f)) + Cardinality(First(f)) + Cardinality(Second(f))
    BY RefsCount
<1>2. Cardinality(Held(f)) = 0
    BY <1>1, Counts
<1>3. \A q \in Users, fd \in Fds : ofile[q][fd] # f
    BY <1>2, Counts
<1>4. ASSUME NEW S, IsFiniteSet(S), Cardinality(S) = 1, p \in S PROVE \A q \in S : q = p
  <2>1. IsFiniteSet(S \ {p}) /\ Cardinality(S \ {p}) = 0
      BY <1>4, FS_RemoveElement
  <2>2. S \ {p} = {}
      BY <2>1, FS_EmptySet
  <2>3. QED
      BY <2>2
<1>5. CASE f0[p] = f
  <2>1. Cardinality(First(f)) = 1 /\ Cardinality(Second(f)) = 0
      BY <1>1, <1>5, Counts
  <2>2. p \in First(f) /\ \A q \in Users : f0[q] = f => q \in First(f)
      BY <1>5 DEF First
  <2>3. \A q \in Users : q # p => f0[q] # f
      BY <1>4, <2>1, <2>2, Finite
  <2>4. \A q \in Users : f1[q] # f
      BY <2>1, Counts
  <2>5. QED
      BY <1>3, <1>5, <2>3, <2>4
<1>6. CASE f1[p] = f
  <2>1. Cardinality(Second(f)) = 1 /\ Cardinality(First(f)) = 0
      BY <1>1, <1>6, Counts
  <2>2. p \in Second(f) /\ \A q \in Users : f1[q] = f => q \in Second(f)
      BY <1>6 DEF Second
  <2>3. \A q \in Users : q # p => f1[q] # f
      BY <1>4, <2>1, <2>2, Finite
  <2>4. \A q \in Users : f0[q] # f
      BY <2>1, Counts
  <2>5. QED
      BY <1>3, <1>6, <2>3, <2>4
<1>7. QED
    BY <1>5, <1>6

\* Whoever has a file has a reference to it.
LEMMA HasRef ==
    ASSUME FileTypeOK, RefsExact, NEW p \in Users
    PROVE  /\ f0[p] # NoFile => f0[p] \in Files /\ ref[f0[p]] > 0
           /\ f1[p] # NoFile => f1[p] \in Files /\ ref[f1[p]] > 0
           /\ \A fd \in Fds : ofile[p][fd] # NoFile => ofile[p][fd] \in Files /\ ref[ofile[p][fd]] > 0
<1>1. \A f \in Files : /\ f0[p] = f => ref[f] > 0
                       /\ f1[p] = f => ref[f] > 0
                       /\ \A fd \in Fds : ofile[p][fd] = f => ref[f] > 0
    BY RefsCount, Counts
<1>2. QED
    BY <1>1, FileAssumption DEF FileTypeOK, Files, NoFile

\* A step of p leaves what another process has in its variables as it is, if
\* it changes no entry that only that process has.
LEMMA OthersKeep ==
    ASSUME FileTypeOK, RefsExact, NEW q \in Users, CallOf(q),
           call'[q] = call[q], f0'[q] = f0[q], f1'[q] = f1[q], ff'[q] = ff[q], ofile'[q] = ofile[q],
           \A f \in Files : /\ Fresh(f) /\ (f0[q] = f \/ f1[q] = f)
                            => ref'[f] = ref[f] /\ what'[f] = what[f]
    PROVE  CallOf(q)'
    BY DEF CallOf, Fresh, NoFile

-----------------------------------------------------------------------------
(* Every step keeps the types, and free entries cleared *)

\* Every step keeps the types.
LEMMA TypeNext == FileInv /\ [FileNext]_filevars => FileTypeOK'
<1> SUFFICES ASSUME FileInv, [FileNext]_filevars PROVE FileTypeOK'
    OBVIOUS
<1>0. FileTypeOK /\ RefsExact /\ InodesPutOnce
    BY DEF FileInv
<1>r. ref \in [Files -> Nat] /\ iref \in Nat
    BY <1>0 DEF FileTypeOK
<1>w. what \in [Files -> Kinds]
    BY <1>0 DEF FileTypeOK
<1>p. pipe \in [1 .. NPIPE -> SUBSET Ends]
    BY <1>0 DEF FileTypeOK
<1>o. ofile \in [Users -> [Fds -> 0 .. NFILE]]
    BY <1>0 DEF FileTypeOK
<1>c. call \in [Users -> {"unused", "user", "open", "iput", "pipe", "pipefds", "exit"}]
    BY <1>0 DEF FileTypeOK
<1>f. f0 \in [Users -> 0 .. NFILE] /\ f1 \in [Users -> 0 .. NFILE]
    BY <1>0 DEF FileTypeOK
<1>g. ff \in [Users -> Kinds]
    BY <1>0 DEF FileTypeOK
<1>z. NoFile \in 0 .. NFILE /\ \A f \in Files : f \in 0 .. NFILE
    BY FileAssumption DEF NoFile, Files
<1>k. FD_NONE \in Kinds /\ FD_INODE \in Kinds /\ \A i \in 1 .. NPIPE, w \in Ends : FD_PIPE(i, w) \in Kinds
    BY DEF Kinds
<1>h. \A x \in Kinds : x.type = "PIPE" => x.obj \in 1 .. NPIPE
    BY KindsApart DEF Kinds, FD_NONE, FD_INODE
<1>j. \A x \in Kinds : x.type = "INODE" => x = FD_INODE
    BY KindsApart DEF Kinds, FD_NONE
<1>i. iref = Cardinality(Table(FD_INODE)) + Cardinality(Copies(FD_INODE)) + Cardinality(Opening)
    BY <1>0 DEF InodesPutOnce, Closers, Table, Copies, Opening
<1>1. ASSUME NEW p \in Users, NEW f \in Files, Drop(p, f), ref[f] > 0
      PROVE  ref' \in [Files -> Nat] /\ what' \in [Files -> Kinds] /\ ff' \in [Users -> Kinds]
  <2>1. ref' \in [Files -> Nat]
      BY <1>1, <1>r DEF Drop
  <2>2. what' \in [Files -> Kinds]
      BY <1>1, <1>w, <1>k DEF Drop, Cleared
  <2>3. ff' \in [Users -> Kinds]
      BY <1>1, <1>w, <1>g, <1>k DEF Drop
  <2>4. QED
      BY <2>1, <2>2, <2>3
<1>2. CASE UNCHANGED filevars
    BY <1>0, <1>2 DEF filevars, FileTypeOK
<1>3. ASSUME NEW p \in Users, fileclose(p) PROVE FileTypeOK'
  <2>1. ref' \in [Files -> Nat] /\ what' \in [Files -> Kinds] /\ ff' \in [Users -> Kinds]
    <3>1. CASE f0[p] # NoFile
        BY <1>0, <1>1, <1>3, <3>1, HasRef DEF fileclose
    <3>2. CASE f0[p] = NoFile
        BY <1>0, <1>1, <1>3, <3>2, HasRef DEF fileclose
    <3>3. QED
        BY <3>1, <3>2
  <2>2. ref' \in [Files -> Nat] /\ iref' \in Nat
      BY <1>3, <2>1, <1>r DEF fileclose
  <2>3. what' \in [Files -> Kinds]
      BY <2>1
  <2>4. ff' \in [Users -> Kinds]
      BY <2>1
  <2>5. f0' \in [Users -> 0 .. NFILE] /\ f1' \in [Users -> 0 .. NFILE]
      BY <1>3, <1>f, <1>z DEF fileclose
  <2>6. UNCHANGED <<pipe, ofile, call>>
      BY <1>3 DEF fileclose
  <2>7. QED
      BY <2>2, <2>3, <2>4, <2>5, <2>6, <1>p, <1>o, <1>c, Zenon DEF FileTypeOK
<1>4. ASSUME NEW p \in Users, fileclose_last(p) PROVE FileTypeOK'
  <2>1. pipe' \in [1 .. NPIPE -> SUBSET Ends]
      BY <1>4, <1>p, <1>g, <1>h DEF fileclose_last
  <2>2. ref' \in [Files -> Nat] /\ iref' \in Nat
    <3>1. ff[p].type = "INODE" => iref > 0
        BY <1>0, <1>g, <1>i, <1>j, Counts
    <3>2. iref' = iref \/ (ff[p].type = "INODE" /\ iref' = iref - 1)
        BY <1>4 DEF fileclose_last
    <3>3. ref' = ref
        BY <1>4 DEF fileclose_last, table
    <3>4. QED
        BY <3>1, <3>2, <3>3, <1>r
  <2>3. ff' \in [Users -> Kinds]
      BY <1>4, <1>g, <1>k DEF fileclose_last
  <2>4. UNCHANGED <<what, ofile, call, f0, f1>>
      BY <1>4 DEF fileclose_last, table
  <2>5. QED
      BY <2>1, <2>2, <2>3, <2>4, <1>w, <1>o, <1>c, <1>f, Zenon DEF FileTypeOK
<1>5. ASSUME NEW p \in Users, sys_open(p) PROVE FileTypeOK'
  <2>1. ref' \in [Files -> Nat] /\ iref' \in Nat
      BY <1>5, <1>r DEF sys_open, filealloc
  <2>2. f0' \in [Users -> 0 .. NFILE] /\ f1' \in [Users -> 0 .. NFILE]
      BY <1>5, <1>f, <1>z DEF sys_open
  <2>3. call' \in [Users -> {"unused", "user", "open", "iput", "pipe", "pipefds", "exit"}]
      BY <1>5, <1>c DEF sys_open
  <2>4. UNCHANGED <<what, pipe, ofile, ff>>
      BY <1>5 DEF sys_open, filealloc
  <2>5. QED
      BY <2>1, <2>2, <2>3, <2>4, <1>w, <1>p, <1>o, <1>g, Zenon DEF FileTypeOK
<1>6. ASSUME NEW p \in Users, open_fd(p) PROVE FileTypeOK'
  <2>1. ofile' \in [Users -> [Fds -> 0 .. NFILE]]
    <3>1. CASE \E fd \in Fds : ofile' = [ofile EXCEPT ![p][fd] = f0[p]]
        BY <3>1, <1>o, <1>f
    <3>2. QED
        BY <1>6, <3>1, <1>o DEF open_fd
  <2>2. what' \in [Files -> Kinds]
      BY <1>6, <1>w, <1>k DEF open_fd
  <2>3. f0' \in [Users -> 0 .. NFILE] /\ f1' \in [Users -> 0 .. NFILE]
      BY <1>6, <1>f, <1>z DEF open_fd
  <2>4. call' \in [Users -> {"unused", "user", "open", "iput", "pipe", "pipefds", "exit"}]
      BY <1>6, <1>c DEF open_fd
  <2>5. UNCHANGED <<ref, iref, pipe, ff>>
      BY <1>6 DEF open_fd
  <2>6. QED
      BY <2>1, <2>2, <2>3, <2>4, <2>5, <1>r, <1>p, <1>g, Zenon DEF FileTypeOK
<1>7. ASSUME NEW p \in Users, open_iput(p) PROVE FileTypeOK'
  <2>1. ref' \in [Files -> Nat] /\ iref' \in Nat
    <3>1. iref > 0
        BY <1>0, <1>7, <1>i, Counts DEF open_iput, In
    <3>2. iref' = iref - 1 /\ ref' = ref
        BY <1>7 DEF open_iput, table
    <3>3. QED
        BY <3>1, <3>2, <1>r
  <2>2. call' \in [Users -> {"unused", "user", "open", "iput", "pipe", "pipefds", "exit"}]
      BY <1>7, <1>c DEF open_iput
  <2>3. UNCHANGED <<what, pipe, ofile, f0, f1, ff>>
      BY <1>7 DEF open_iput, table, local
  <2>4. QED
      BY <2>1, <2>2, <2>3, <1>w, <1>p, <1>o, <1>f, <1>g, Zenon DEF FileTypeOK
<1>8. ASSUME NEW p \in Users, pipealloc_f0(p) PROVE FileTypeOK'
  <2>1. ref' \in [Files -> Nat] /\ iref' \in Nat
      BY <1>8, <1>r DEF pipealloc_f0, filealloc
  <2>2. f0' \in [Users -> 0 .. NFILE] /\ f1' \in [Users -> 0 .. NFILE]
      BY <1>8, <1>f, <1>z DEF pipealloc_f0
  <2>3. call' \in [Users -> {"unused", "user", "open", "iput", "pipe", "pipefds", "exit"}]
      BY <1>8, <1>c DEF pipealloc_f0
  <2>4. UNCHANGED <<what, pipe, ofile, ff>>
      BY <1>8 DEF pipealloc_f0, filealloc
  <2>5. QED
      BY <2>1, <2>2, <2>3, <2>4, <1>w, <1>p, <1>o, <1>g, Zenon DEF FileTypeOK
<1>9. ASSUME NEW p \in Users, pipealloc_f1(p) PROVE FileTypeOK'
  <2>1. ref' \in [Files -> Nat] /\ iref' \in Nat
      BY <1>9, <1>r DEF pipealloc_f1, filealloc, table
  <2>2. f0' \in [Users -> 0 .. NFILE] /\ f1' \in [Users -> 0 .. NFILE]
      BY <1>9, <1>f, <1>z DEF pipealloc_f1
  <2>3. call' \in [Users -> {"unused", "user", "open", "iput", "pipe", "pipefds", "exit"}]
      BY <1>9, <1>c DEF pipealloc_f1
  <2>4. UNCHANGED <<what, pipe, ofile, ff>>
      BY <1>9 DEF pipealloc_f1, filealloc, table
  <2>5. QED
      BY <2>1, <2>2, <2>3, <2>4, <1>w, <1>p, <1>o, <1>g, Zenon DEF FileTypeOK
<1>10. ASSUME NEW p \in Users, pipealloc_kalloc(p) PROVE FileTypeOK'
  <2>1. what' \in [Files -> Kinds]
    <3>1. CASE \E i \in 1 .. NPIPE :
                 what' = [what EXCEPT ![f0[p]] = FD_PIPE(i, FALSE), ![f1[p]] = FD_PIPE(i, TRUE)]
      <4>1. TRUE \in Ends /\ FALSE \in Ends
          BY DEF Ends
      <4>2. PICK i \in 1 .. NPIPE :
                 what' = [what EXCEPT ![f0[p]] = FD_PIPE(i, FALSE), ![f1[p]] = FD_PIPE(i, TRUE)]
          BY <3>1, Zenon
      <4>3. FD_PIPE(i, FALSE) \in Kinds /\ FD_PIPE(i, TRUE) \in Kinds
          BY <4>1, <1>k, Zenon
      <4>4. QED
          BY <1>w, <4>2, <4>3, Zenon
    <3>2. QED
        BY <1>10, <3>1, <1>w, Zenon DEF pipealloc_kalloc
  <2>2. pipe' \in [1 .. NPIPE -> SUBSET Ends]
    <3>1. CASE \E i \in 1 .. NPIPE : pipe' = [pipe EXCEPT ![i] = Ends]
        BY <3>1, <1>p
    <3>2. QED
        BY <1>10, <3>1, <1>p, Zenon DEF pipealloc_kalloc
  <2>3. call' \in [Users -> {"unused", "user", "open", "iput", "pipe", "pipefds", "exit"}]
      BY <1>10, <1>c, Zenon DEF pipealloc_kalloc
  <2>4. UNCHANGED <<ref, iref, ofile, f0, f1, ff>>
      BY <1>10 DEF pipealloc_kalloc, local
  <2>5. QED
      BY <2>1, <2>2, <2>3, <2>4, <1>r, <1>o, <1>f, <1>g, Zenon DEF FileTypeOK
<1>11. ASSUME NEW p \in Users, sys_pipe(p) PROVE FileTypeOK'
  <2>1. ofile' \in [Users -> [Fds -> 0 .. NFILE]]
    <3>1. CASE \E a, b \in Fds : ofile' = [ofile EXCEPT ![p][a] = f0[p], ![p][b] = f1[p]]
      <4>1. PICK a \in Fds, b \in Fds : ofile' = [ofile EXCEPT ![p][a] = f0[p], ![p][b] = f1[p]]
          BY <3>1, Zenon
      <4>2. f0[p] \in 0 .. NFILE /\ f1[p] \in 0 .. NFILE
          BY <1>f
      <4>3. QED
          BY <1>o, <4>1, <4>2
    <3>2. QED
        BY <1>11, <3>1, <1>o, Zenon DEF sys_pipe, Undone
  <2>2. f0' \in [Users -> 0 .. NFILE] /\ f1' \in [Users -> 0 .. NFILE]
      BY <1>11, <1>f, <1>z DEF sys_pipe
  <2>3. call' \in [Users -> {"unused", "user", "open", "iput", "pipe", "pipefds", "exit"}]
      BY <1>11, <1>c DEF sys_pipe
  <2>4. UNCHANGED <<ref, iref, what, pipe, ff>>
      BY <1>11 DEF sys_pipe, table
  <2>5. QED
      BY <2>1, <2>2, <2>3, <2>4, <1>r, <1>w, <1>p, <1>g, Zenon DEF FileTypeOK
<1>12. ASSUME NEW p \in Users, sys_dup(p) PROVE FileTypeOK'
  <2>1. PICK fd \in Fds, new \in Fds :
            /\ ofile[p][fd] # NoFile
            /\ ofile' = [ofile EXCEPT ![p][new] = ofile[p][fd]]
            /\ ref' = [ref EXCEPT ![ofile[p][fd]] = ref[ofile[p][fd]] + 1]
      BY <1>12, Zenon DEF sys_dup, Open
  <2>2. ofile' \in [Users -> [Fds -> 0 .. NFILE]]
      BY <2>1, <1>o
  <2>3. ref' \in [Files -> Nat] /\ iref' \in Nat
    <3>1. PICK g \in Files : g = ofile[p][fd]
        BY <1>0, <2>1, HasRef
    <3>2. ref' = [ref EXCEPT ![g] = ref[g] + 1]
        BY <2>1, <3>1
    <3>3. ref' \in [Files -> Nat]
        BY <3>2, <1>r
    <3>4. QED
        BY <1>12, <3>3, <1>r DEF sys_dup
  <2>4. UNCHANGED <<what, pipe, call, f0, f1, ff>>
      BY <1>12 DEF sys_dup, local
  <2>5. QED
      BY <2>2, <2>3, <2>4, <1>w, <1>p, <1>c, <1>f, <1>g, Zenon DEF FileTypeOK
<1>13. ASSUME NEW p \in Users, sys_close(p) PROVE FileTypeOK'
  <2>1. (ofile' = ofile /\ f0' = f0) \/ \E fd \in Fds : Release(p, fd)
      BY <1>13 DEF sys_close, Open
  <2>2. ofile' \in [Users -> [Fds -> 0 .. NFILE]]
      BY <2>1, <1>o, <1>z DEF Release
  <2>3. f0' \in [Users -> 0 .. NFILE] /\ f1' \in [Users -> 0 .. NFILE]
    <3>1. \A fd \in Fds : ofile[p][fd] \in 0 .. NFILE
        BY <1>o
    <3>2. f0' \in [Users -> 0 .. NFILE]
        BY <2>1, <3>1, <1>f DEF Release
    <3>3. QED
        BY <1>13, <3>2, <1>f DEF sys_close
  <2>4. UNCHANGED <<ref, iref, what, pipe, call, ff>>
      BY <1>13 DEF sys_close, table
  <2>5. QED
      BY <2>2, <2>3, <2>4, <1>r, <1>w, <1>p, <1>c, <1>g, Zenon DEF FileTypeOK
<1>14. ASSUME NEW p \in Users, NEW child \in Users, fork(p, child) PROVE FileTypeOK'
  <2>1. ref' \in [Files -> Nat] /\ iref' \in Nat
    <3>1. \A f : {fd \in Fds : ofile[p][fd] = f} \subseteq Fds
        OBVIOUS
    <3>2. \A f \in Files : Shared(p, f) \in Nat
        BY <1>0, <3>1, Finite, FS_Subset, FS_CardinalityType DEF Shared
    <3>3. QED
        BY <1>14, <3>2, <1>r DEF fork
  <2>2. ofile' \in [Users -> [Fds -> 0 .. NFILE]]
      BY <1>14, <1>o DEF fork
  <2>3. call' \in [Users -> {"unused", "user", "open", "iput", "pipe", "pipefds", "exit"}]
      BY <1>14, <1>c DEF fork
  <2>4. UNCHANGED <<what, pipe, f0, f1, ff>>
      BY <1>14 DEF fork, local
  <2>5. QED
      BY <2>1, <2>2, <2>3, <2>4, <1>w, <1>p, <1>f, <1>g, Zenon DEF FileTypeOK
<1>15. ASSUME NEW p \in Users, exit(p) PROVE FileTypeOK'
  <2>1. call' \in [Users -> {"unused", "user", "open", "iput", "pipe", "pipefds", "exit"}]
      BY <1>15, <1>c DEF exit
  <2>2. UNCHANGED <<ref, iref, what, pipe, ofile, f0, f1, ff>>
      BY <1>15 DEF exit, table, local
  <2>3. QED
      BY <2>1, <2>2, <1>r, <1>w, <1>p, <1>o, <1>f, <1>g, Zenon DEF FileTypeOK
<1>16. ASSUME NEW p \in Users, exit_fd(p) PROVE FileTypeOK'
  <2>1. (ofile' = ofile /\ f0' = f0) \/ \E fd \in Fds : Release(p, fd)
      BY <1>16 DEF exit_fd, Open
  <2>2. ofile' \in [Users -> [Fds -> 0 .. NFILE]]
      BY <2>1, <1>o, <1>z DEF Release
  <2>3. f0' \in [Users -> 0 .. NFILE] /\ f1' \in [Users -> 0 .. NFILE]
    <3>1. \A fd \in Fds : ofile[p][fd] \in 0 .. NFILE
        BY <1>o
    <3>2. f0' \in [Users -> 0 .. NFILE]
        BY <2>1, <3>1, <1>f DEF Release
    <3>3. QED
        BY <1>16, <3>2, <1>f DEF exit_fd
  <2>4. call' \in [Users -> {"unused", "user", "open", "iput", "pipe", "pipefds", "exit"}]
      BY <1>16, <1>c DEF exit_fd
  <2>5. UNCHANGED <<ref, iref, what, pipe, ff>>
      BY <1>16 DEF exit_fd, table
  <2>6. QED
      BY <2>2, <2>3, <2>4, <2>5, <1>r, <1>w, <1>p, <1>g, Zenon DEF FileTypeOK
<1>17. QED
    BY <1>2, <1>3, <1>4, <1>5, <1>6, <1>7, <1>8, <1>9, <1>10, <1>11, <1>12, <1>13, <1>14,
       <1>15, <1>16, Zenon DEF FileNext

\* A free entry of the table stays cleared until filealloc() takes it.
LEMMA FreeNext == FileInv /\ [FileNext]_filevars => FreeInv'
<1> SUFFICES ASSUME FileInv, [FileNext]_filevars PROVE FreeInv'
    OBVIOUS
<1>0. FileTypeOK /\ RefsExact /\ FreeInv /\ CallInv
    BY DEF FileInv
<1>1. CASE UNCHANGED table
    BY <1>0, <1>1 DEF table, FreeInv
<1>2. ASSUME NEW p \in Users, NEW f \in Files, Drop(p, f), ref[f] > 0 PROVE FreeInv'
    BY <1>0, <1>2 DEF Drop, FileTypeOK, FreeInv, Cleared
<1>3. ASSUME NEW p \in Users, fileclose(p) PROVE FreeInv'
    BY <1>0, <1>2, <1>3, HasRef DEF fileclose
<1>4. ASSUME NEW f \in Files, filealloc(f) PROVE FreeInv'
    BY <1>0, <1>4 DEF filealloc, FreeInv, FileTypeOK
<1>5. ASSUME NEW p \in Users, open_fd(p) PROVE FreeInv'
  <2>1. ref[f0[p]] # 0
      BY <1>0, <1>5 DEF open_fd, CallInv, CallOf, Fresh
  <2>2. QED
      BY <1>0, <1>5, <2>1 DEF open_fd, FreeInv, FileTypeOK
<1>6. ASSUME NEW p \in Users, pipealloc_kalloc(p) PROVE FreeInv'
  <2>1. ref[f0[p]] # 0 /\ ref[f1[p]] # 0
      BY <1>0, <1>6 DEF pipealloc_kalloc, CallInv, CallOf, Fresh
  <2>2. \A f \in Files : what'[f] # what[f] => f = f0[p] \/ f = f1[p]
      BY <1>0, <1>6, Zenon DEF pipealloc_kalloc, FileTypeOK
  <2>3. ref' = ref
      BY <1>6 DEF pipealloc_kalloc
  <2>4. QED
      BY <1>0, <2>1, <2>2, <2>3 DEF FreeInv
<1>7. ASSUME NEW p \in Users, sys_dup(p) PROVE FreeInv'
    BY <1>0, <1>7, HasRef DEF sys_dup, FreeInv, FileTypeOK, Open
<1>8. ASSUME NEW p \in Users, NEW child \in Users, fork(p, child) PROVE FreeInv'
  <2>1. \A f \in Files : Shared(p, f) \in Nat
    <3>1. \A f : {fd \in Fds : ofile[p][fd] = f} \subseteq Fds
        OBVIOUS
    <3>2. QED
        BY <1>0, <3>1, Finite, FS_Subset, FS_CardinalityType DEF Shared
  <2>2. QED
      BY <1>0, <1>8, <2>1 DEF fork, FreeInv, FileTypeOK
<1>9. CASE UNCHANGED filevars
    BY <1>1, <1>9 DEF filevars, table
<1>10. ASSUME NEW p \in Users, sys_open(p) \/ pipealloc_f0(p) \/ pipealloc_f1(p) PROVE FreeInv'
    BY <1>1, <1>4, <1>10 DEF sys_open, pipealloc_f0, pipealloc_f1
<1>11. ASSUME NEW p \in Users, fileclose_last(p) \/ open_iput(p) \/ sys_pipe(p) \/ sys_close(p)
                               \/ exit(p) \/ exit_fd(p)
       PROVE  FreeInv'
    BY <1>1, <1>11 DEF fileclose_last, open_iput, sys_pipe, sys_close, exit, exit_fd
<1>12. QED
    BY <1>3, <1>5, <1>6, <1>7, <1>8, <1>9, <1>10, <1>11, Zenon DEF FileNext

-----------------------------------------------------------------------------
(* Every step keeps the references exact *)

\* Only files are files.
LEMMA NotAFile == NoFile \notin Files
    BY DEF NoFile, Files

\* What is not set is not counted anew.
LEMMA SameCount ==
    /\ ofile' = ofile => \A f : Cardinality(Held(f)') = Cardinality(Held(f))
    /\ f0' = f0 => \A f : Cardinality(First(f)') = Cardinality(First(f))
    /\ f1' = f1 => \A f : Cardinality(Second(f)') = Cardinality(Second(f))
    /\ ff' = ff => \A x : Cardinality(Copies(x)') = Cardinality(Copies(x))
    /\ ref' = ref /\ what' = what => \A x : Cardinality(Table(x)') = Cardinality(Table(x))
    /\ call' = call => Cardinality(Opening') = Cardinality(Opening)
    BY Zenon DEF Held, First, Second, Copies, Table, Opening

\* fork() gives the child, which has none, a copy of every descriptor.
LEMMA ForkCount ==
    ASSUME FileTypeOK, NEW p \in Users, NEW child \in Users, p # child, NEW f \in Files,
           \A fd \in Fds : ofile[child][fd] = NoFile,
           ofile' = [ofile EXCEPT ![child] = ofile[p]]
    PROVE  Cardinality(Held(f)') = Cardinality(Held(f)) + Shared(p, f)
<1> DEFINE S == {fd \in Fds : ofile[p][fd] = f}
           N == {<<child, fd>> : fd \in S}
<1>1. IsFiniteSet(S)
    BY Finite, FS_Subset
<1>2. IsFiniteSet(N) /\ Cardinality(N) = Cardinality(S)
    BY <1>1, PairCount, Zenon
<1>3. \A d \in Users \X Fds : d[1] \in Users /\ d[2] \in Fds /\ d = <<d[1], d[2]>>
    OBVIOUS
<1>4. \A q \in Users : ofile'[q] = IF q = child THEN ofile[p] ELSE ofile[q]
    BY DEF FileTypeOK
<1>5. Held(f)' = Held(f) \union N
  <2>1. ASSUME NEW d \in Users \X Fds PROVE d \in Held(f)' <=> d \in Held(f) \/ d \in N
    <3>1. CASE d[1] = child
      <4>1. d \notin Held(f)
          BY <1>3, <3>1, NotAFile DEF Held
      <4>2. d \in N <=> d[2] \in S
          BY <1>3, <3>1
      <4>3. QED
          BY <1>3, <1>4, <3>1, <4>1, <4>2 DEF Held
    <3>2. CASE d[1] # child
      <4>1. d \notin N
          BY <3>2
      <4>2. QED
          BY <1>3, <1>4, <3>2, <4>1 DEF Held
    <3>3. QED
        BY <3>1, <3>2
  <2>2. N \subseteq Users \X Fds
      OBVIOUS
  <2>3. Held(f)' \subseteq Users \X Fds /\ Held(f) \subseteq Users \X Fds
      BY DEF Held
  <2>4. QED
      BY <2>1, <2>2, <2>3
<1>6. Held(f) \intersect N = {}
    BY NotAFile DEF Held
<1>7. Cardinality(Held(f) \union N) =
          Cardinality(Held(f)) + Cardinality(N) - Cardinality(Held(f) \intersect N)
    BY <1>2, Finite, FS_Union
<1>8. Cardinality(Held(f) \intersect N) = 0
    BY <1>6, FS_EmptySet
<1>9. Cardinality(Held(f)) \in Nat /\ Cardinality(N) \in Nat
    BY <1>2, Counts, FS_CardinalityType
<1>10. QED
    BY <1>2, <1>5, <1>7, <1>8, <1>9 DEF Shared

\* sys_pipe() sets two descriptors that were free.
LEMMA TwoHeldStep ==
    ASSUME FileTypeOK, NEW p \in Users, NEW a \in Fds, NEW b \in Fds, NEW f \in Files, Slot(p, a), a < b,
           ofile[p][b] = NoFile, ofile' = [ofile EXCEPT ![p][a] = f0[p], ![p][b] = f1[p]]
    PROVE  Cardinality(Held(f)') = Cardinality(Held(f)) + Is(f0[p], f) + Is(f1[p], f)
<1>1. a # b /\ ofile[p][a] = NoFile /\ NoFile # f
    BY NotAFile DEF Slot, Fds
<1>2. \A q \in Users, k \in Fds :
          ofile'[q][k] = IF q = p /\ k = b THEN f1[p] ELSE IF q = p /\ k = a THEN f0[p] ELSE ofile[q][k]
    BY <1>1 DEF FileTypeOK
<1>3. \A d \in Users \X Fds : d[1] \in Users /\ d[2] \in Fds /\ d = <<d[1], d[2]>>
    OBVIOUS
<1> DEFINE M == {d \in Users \X Fds : IF d = <<p, a>> THEN f0[p] = f ELSE d \in Held(f)}
<1>4. Held(f) \ {<<p, a>>} = M \ {<<p, a>>}
    BY DEF Held
<1>5. (<<p, a>> \in M <=> f0[p] = f) /\ <<p, a>> \notin Held(f)
    BY <1>1 DEF Held
<1>6. IsFiniteSet(M) /\ Cardinality(M) = Cardinality(Held(f)) + Is(f0[p], f)
  <2>1. IsFiniteSet(M)
        /\ Cardinality(M) = Cardinality(Held(f)) + One(<<p, a>> \in M) - One(<<p, a>> \in Held(f))
      BY <1>4, Finite, OneMore, Zenon
  <2>2. QED
      BY <2>1, <1>5, Counts DEF One, Is
<1>7. M \ {<<p, b>>} = Held(f)' \ {<<p, b>>}
  <2>1. ASSUME NEW d \in Users \X Fds, d # <<p, b>> PROVE d \in M <=> d \in Held(f)'
    <3>1. CASE d = <<p, a>>
      <4>1. ofile'[p][a] = f0[p] /\ d[1] = p /\ d[2] = a
          BY <1>1, <1>2, <3>1, Zenon
      <4>2. d \in Held(f)' <=> f0[p] = f
          BY <4>1, Zenon DEF Held
      <4>3. QED
          BY <3>1, <4>2
    <3>2. CASE d # <<p, a>>
      <4>1. ofile'[d[1]][d[2]] = ofile[d[1]][d[2]]
        <5>1. PICK q \in Users, k \in Fds : d = <<q, k>>
            BY <1>3
        <5>2. ~(q = p /\ k = a) /\ ~(q = p /\ k = b)
            BY <2>1, <3>2, <5>1
        <5>3. ofile'[q][k] = ofile[q][k]
            BY <1>2, <5>2, Zenon
        <5>4. QED
            BY <5>1, <5>3
      <4>2. QED
          BY <3>2, <4>1 DEF Held
    <3>3. QED
        BY <3>1, <3>2
  <2>2. M \subseteq Users \X Fds /\ Held(f)' \subseteq Users \X Fds
      BY DEF Held
  <2>3. QED
      BY <2>1, <2>2
<1>8. (<<p, b>> \in Held(f)' <=> f1[p] = f) /\ <<p, b>> \notin M
    BY <1>1, <1>2, Zenon DEF Held
<1>9. Cardinality(Held(f)') = Cardinality(M) + One(<<p, b>> \in Held(f)') - One(<<p, b>> \in M)
    BY <1>6, <1>7, OneMore, Zenon
<1>10. Cardinality(M) \in Nat
    BY <1>6, FS_CardinalityType
<1>11. QED
  <2>1. One(<<p, b>> \in Held(f)') = Is(f1[p], f) /\ One(<<p, b>> \in M) = 0
      BY <1>8 DEF One, Is
  <2>2. Is(f1[p], f) \in {0, 1}
      BY DEF Is
  <2>3. QED
      BY <2>1, <2>2, <1>6, <1>9, <1>10

\* Every step keeps the reference counts exact.
LEMMA RefsNext == FileInv /\ [FileNext]_filevars => RefsExact'
<1> SUFFICES ASSUME FileInv, [FileNext]_filevars, NEW f \in Files
             PROVE  ref'[f] = Cardinality(Held(f)') + Cardinality(First(f)') + Cardinality(Second(f)')
    BY DEF RefsExact, Held, First, Second
<1> DEFINE Exact == ref'[f] = Cardinality(Held(f)') + Cardinality(First(f)') + Cardinality(Second(f)')
<1>0. FileTypeOK /\ RefsExact /\ CallInv
    BY DEF FileInv
<1>r. ref[f] = Cardinality(Held(f)) + Cardinality(First(f)) + Cardinality(Second(f))
    BY <1>0, RefsCount
<1>n. Cardinality(Held(f)) \in Nat /\ Cardinality(First(f)) \in Nat /\ Cardinality(Second(f)) \in Nat
    BY <1>0, Counts
<1>t. ref \in [Files -> Nat]
    BY <1>0 DEF FileTypeOK
<1>z. Is(NoFile, f) = 0
    BY NotAFile DEF Is
<1>i. \A u : Is(u, f) \in {0, 1}
    BY DEF Is
<1>1. CASE UNCHANGED <<ref, ofile, f0, f1>>
    BY <1>1, <1>r, SameCount
<1>2. ASSUME NEW p \in Users, NEW g \in Files, filealloc(g), f0[p] = NoFile,
             f0' = [f0 EXCEPT ![p] = g], UNCHANGED <<ofile, f1>>
      PROVE  Exact
  <2>1. Cardinality(First(f)') = Cardinality(First(f)) + Is(g, f) - Is(NoFile, f)
      BY <1>0, <1>2, FirstStep, Zenon
  <2>2. Cardinality(Held(f)') = Cardinality(Held(f)) /\ Cardinality(Second(f)') = Cardinality(Second(f))
      BY <1>2, SameCount
  <2>3. ref'[f] = ref[f] + Is(g, f)
      BY <1>2, <1>t DEF filealloc, IsFirst, Is
  <2>4. Is(g, f) \in {0, 1}
      BY <1>i
  <2>5. QED
      BY <2>1, <2>2, <2>3, <2>4, <1>r, <1>n, <1>z
<1>3. ASSUME NEW p \in Users, NEW g \in Files, filealloc(g), f1[p] = NoFile,
             f1' = [f1 EXCEPT ![p] = g], UNCHANGED <<ofile, f0>>
      PROVE  Exact
  <2>1. Cardinality(Second(f)') = Cardinality(Second(f)) + Is(g, f) - Is(NoFile, f)
      BY <1>0, <1>3, SecondStep, Zenon
  <2>2. Cardinality(Held(f)') = Cardinality(Held(f)) /\ Cardinality(First(f)') = Cardinality(First(f))
      BY <1>3, SameCount
  <2>3. ref'[f] = ref[f] + Is(g, f)
      BY <1>3, <1>t DEF filealloc, IsFirst, Is
  <2>4. Is(g, f) \in {0, 1}
      BY <1>i
  <2>5. QED
      BY <2>1, <2>2, <2>3, <2>4, <1>r, <1>n, <1>z
<1>4. ASSUME NEW p \in Users, fileclose(p) PROVE Exact
  <2>1. Cardinality(Held(f)') = Cardinality(Held(f))
      BY <1>4, SameCount DEF fileclose
  <2>2. CASE f0[p] # NoFile
    <3>1. Drop(p, f0[p]) /\ f0' = [f0 EXCEPT ![p] = NoFile] /\ f1' = f1
        BY <1>4, <2>2 DEF fileclose
    <3>2. Cardinality(First(f)') = Cardinality(First(f)) + Is(NoFile, f) - Is(f0[p], f)
        BY <1>0, <3>1, FirstStep, Zenon
    <3>3. Cardinality(Second(f)') = Cardinality(Second(f))
        BY <3>1, SameCount
    <3>4. ref'[f] = ref[f] - Is(f0[p], f)
        BY <1>t, <3>1 DEF Drop, Is
    <3>5. Is(f0[p], f) \in {0, 1}
        BY <1>i
    <3>6. QED
        BY <2>1, <3>2, <3>3, <3>4, <3>5, <1>r, <1>n, <1>z
  <2>3. CASE f0[p] = NoFile
    <3>1. Drop(p, f1[p]) /\ f1' = [f1 EXCEPT ![p] = NoFile] /\ f0' = f0
        BY <1>4, <2>3 DEF fileclose
    <3>2. Cardinality(Second(f)') = Cardinality(Second(f)) + Is(NoFile, f) - Is(f1[p], f)
        BY <1>0, <3>1, SecondStep, Zenon
    <3>3. Cardinality(First(f)') = Cardinality(First(f))
        BY <3>1, SameCount
    <3>4. ref'[f] = ref[f] - Is(f1[p], f)
        BY <1>t, <3>1 DEF Drop, Is
    <3>5. Is(f1[p], f) \in {0, 1}
        BY <1>i
    <3>6. QED
        BY <2>1, <3>2, <3>3, <3>4, <3>5, <1>r, <1>n, <1>z
  <2>4. QED
      BY <2>2, <2>3
<1>5. ASSUME NEW p \in Users, open_fd(p) PROVE Exact
  <2>1. CASE f0' = [f0 EXCEPT ![p] = NoFile]
             /\ \E fd \in Fds : Slot(p, fd) /\ ofile' = [ofile EXCEPT ![p][fd] = f0[p]]
    <3>1. PICK fd \in Fds : ofile[p][fd] = NoFile /\ Put(p, fd, f0[p])
        BY <2>1, Zenon DEF Slot, Put
    <3>2. Cardinality(Held(f)') = Cardinality(Held(f)) + Is(f0[p], f) - Is(NoFile, f)
        BY <1>0, <3>1, HeldStep
    <3>3. Cardinality(First(f)') = Cardinality(First(f)) + Is(NoFile, f) - Is(f0[p], f)
        BY <1>0, <2>1, FirstStep, Zenon
    <3>4. ref' = ref /\ Cardinality(Second(f)') = Cardinality(Second(f))
        BY <1>5, SameCount DEF open_fd
    <3>5. Is(f0[p], f) \in {0, 1}
        BY <1>i
    <3>6. QED
        BY <3>2, <3>3, <3>4, <3>5, <1>r, <1>n, <1>z
  <2>2. QED
      BY <1>1, <1>5, <2>1 DEF open_fd
<1>6. ASSUME NEW p \in Users, sys_dup(p) PROVE Exact
  <2>1. PICK fd \in Fds, new \in Fds :
            /\ ofile[p][fd] # NoFile /\ Slot(p, new)
            /\ ofile' = [ofile EXCEPT ![p][new] = ofile[p][fd]]
            /\ ref' = [ref EXCEPT ![ofile[p][fd]] = ref[ofile[p][fd]] + 1]
      BY <1>6, Zenon DEF sys_dup, Open
  <2>2. PICK g \in Files : g = ofile[p][fd]
      BY <1>0, <2>1, HasRef
  <2>3. ofile[p][new] = NoFile /\ Put(p, new, g)
      BY <2>1, <2>2 DEF Slot, Put
  <2>4. Cardinality(Held(f)') = Cardinality(Held(f)) + Is(g, f) - Is(NoFile, f)
      BY <1>0, <2>3, HeldStep
  <2>5. Cardinality(First(f)') = Cardinality(First(f)) /\ Cardinality(Second(f)') = Cardinality(Second(f))
      BY <1>6, SameCount DEF sys_dup, local
  <2>6. ref'[f] = ref[f] + Is(g, f)
    <3>1. ref' = [ref EXCEPT ![g] = ref[g] + 1]
        BY <2>1, <2>2
    <3>2. QED
        BY <1>t, <3>1 DEF Is
  <2>7. Is(g, f) \in {0, 1}
      BY <1>i
  <2>8. QED
      BY <2>4, <2>5, <2>6, <2>7, <1>r, <1>n, <1>z
<1>7. ASSUME NEW p \in Users, NEW fd \in Fds, Release(p, fd), f0[p] = NoFile, UNCHANGED <<ref, f1>>
      PROVE  Exact
  <2>1. PICK g : g = ofile[p][fd]
      OBVIOUS
  <2>2. Put(p, fd, NoFile) /\ f0' = [f0 EXCEPT ![p] = g]
      BY <1>7, <2>1 DEF Release, Put
  <2>3. Cardinality(Held(f)') = Cardinality(Held(f)) + Is(NoFile, f) - Is(g, f)
      BY <1>0, <2>1, <2>2, HeldStep
  <2>4. Cardinality(First(f)') = Cardinality(First(f)) + Is(g, f) - Is(NoFile, f)
      BY <1>0, <1>7, <2>2, FirstStep, Zenon
  <2>5. ref' = ref /\ Cardinality(Second(f)') = Cardinality(Second(f))
      BY <1>7, SameCount
  <2>6. Is(g, f) \in {0, 1}
      BY <1>i
  <2>7. QED
      BY <2>3, <2>4, <2>5, <2>6, <1>r, <1>n, <1>z
<1>8. ASSUME NEW p \in Users, NEW child \in Users, fork(p, child) PROVE Exact
  <2>1. p # child
      BY <1>8 DEF fork, In
  <2>2. \A fd \in Fds : ofile[child][fd] = NoFile
      BY <1>0, <1>8 DEF fork, CallInv, CallOf
  <2>3. Cardinality(Held(f)') = Cardinality(Held(f)) + Shared(p, f)
      BY <1>0, <1>8, <2>1, <2>2, ForkCount, Zenon DEF fork
  <2>4. Cardinality(First(f)') = Cardinality(First(f)) /\ Cardinality(Second(f)') = Cardinality(Second(f))
      BY <1>8, SameCount DEF fork, local
  <2>5. ref'[f] = ref[f] + Shared(p, f)
      BY <1>8 DEF fork
  <2>6. Shared(p, f) \in Nat
    <3>1. {fd \in Fds : ofile[p][fd] = f} \subseteq Fds
        OBVIOUS
    <3>2. QED
        BY <1>0, <3>1, Finite, FS_Subset, FS_CardinalityType DEF Shared
  <2>7. QED
      BY <2>3, <2>4, <2>5, <2>6, <1>r, <1>n
<1>9. ASSUME NEW p \in Users, sys_pipe(p) PROVE Exact
  <2>1. CASE UNCHANGED <<ofile, f0, f1>>
      BY <1>1, <1>9, <2>1 DEF sys_pipe, table
  <2>2. CASE f0' = [f0 EXCEPT ![p] = NoFile] /\ f1' = [f1 EXCEPT ![p] = NoFile]
             /\ \E a, b \in Fds : /\ Slot(p, a) /\ a < b /\ ofile[p][b] = NoFile
                                  /\ ofile' = [ofile EXCEPT ![p][a] = f0[p], ![p][b] = f1[p]]
    <3>1. PICK a \in Fds, b \in Fds : /\ Slot(p, a) /\ a < b /\ ofile[p][b] = NoFile
                                      /\ ofile' = [ofile EXCEPT ![p][a] = f0[p], ![p][b] = f1[p]]
        BY <2>2, Zenon
    <3>2. Cardinality(Held(f)') = Cardinality(Held(f)) + Is(f0[p], f) + Is(f1[p], f)
        BY <1>0, <3>1, TwoHeldStep, Zenon
    <3>3. Cardinality(First(f)') = Cardinality(First(f)) + Is(NoFile, f) - Is(f0[p], f)
        BY <1>0, <2>2, FirstStep, Zenon
    <3>4. Cardinality(Second(f)') = Cardinality(Second(f)) + Is(NoFile, f) - Is(f1[p], f)
        BY <1>0, <2>2, SecondStep, Zenon
    <3>5. ref' = ref
        BY <1>9 DEF sys_pipe, table
    <3>6. Is(f0[p], f) \in {0, 1} /\ Is(f1[p], f) \in {0, 1}
        BY <1>i
    <3>7. QED
        BY <3>2, <3>3, <3>4, <3>5, <3>6, <1>r, <1>n, <1>z
  <2>3. QED
      BY <1>9, <2>1, <2>2, Zenon DEF sys_pipe, Undone
<1>10. CASE UNCHANGED filevars
    BY <1>1, <1>10 DEF filevars
<1>11. ASSUME NEW p \in Users, sys_open(p) \/ pipealloc_f0(p) PROVE Exact
    BY <1>2, <1>11, Zenon DEF sys_open, pipealloc_f0, In
<1>12. ASSUME NEW p \in Users, pipealloc_f1(p) PROVE Exact
    BY <1>1, <1>3, <1>12, Zenon DEF pipealloc_f1, table
<1>13. ASSUME NEW p \in Users, sys_close(p) \/ exit_fd(p) PROVE Exact
    BY <1>1, <1>7, <1>13, Zenon DEF sys_close, exit_fd, In, Open, table
<1>14. ASSUME NEW p \in Users, fileclose_last(p) \/ open_iput(p) \/ pipealloc_kalloc(p) \/ exit(p)
       PROVE  Exact
    BY <1>1, <1>14, Zenon DEF fileclose_last, open_iput, pipealloc_kalloc, exit, table, local
<1>15. QED
    BY <1>4, <1>5, <1>6, <1>8, <1>9, <1>10, <1>11, <1>12, <1>13, <1>14, Zenon DEF FileNext

-----------------------------------------------------------------------------
(* Every step keeps what calls have in their variables *)

\* What a step of p must leave alone for the others: their variables, and the
\* files that neither p nor a descriptor of p refers to.
Local(p) ==
    /\ \A q \in Users \ {p} : /\ call'[q] = call[q] /\ ofile'[q] = ofile[q]
                              /\ f0'[q] = f0[q] /\ f1'[q] = f1[q] /\ ff'[q] = ff[q]
    /\ \A f \in Files : /\ ref[f] = 1 /\ what[f] = FD_NONE /\ f0[p] # f /\ f1[p] # f
                        /\ \A fd \in Fds : ofile[p][fd] # f
                        => ref'[f] = ref[f] /\ what'[f] = what[f]

\* A step of one process does not take what another has in hand.
LEMMA OthersNext ==
    ASSUME FileTypeOK, RefsExact, CallInv, NEW p \in Users, NEW q \in Users, q # p, Local(p)
    PROVE  CallOf(q)'
<1>1. /\ call'[q] = call[q] /\ f0'[q] = f0[q] /\ f1'[q] = f1[q] /\ ff'[q] = ff[q]
      /\ ofile'[q] = ofile[q]
    BY DEF Local
<1>2. ASSUME NEW f \in Files, Fresh(f), f0[q] = f \/ f1[q] = f
      PROVE  ref'[f] = ref[f] /\ what'[f] = what[f]
  <2>1. ref[f] = 1 /\ what[f] = FD_NONE
      BY <1>2 DEF Fresh
  <2>2. f0[p] # f /\ f1[p] # f /\ \A fd \in Fds : ofile[p][fd] # f
      BY <1>2, <2>1, Sole
  <2>3. QED
      BY <2>1, <2>2 DEF Local
<1>3. CallOf(q)
    BY DEF CallInv
<1>4. QED
    BY <1>1, <1>2, <1>3, OthersKeep, Zenon

\* Outside open() and pipe() nothing is asked of a process's variables.
LEMMA IdleNext ==
    ASSUME NEW p \in Users, call'[p] \in {"user", "iput", "exit"}
    PROVE  CallOf(p)'
    BY DEF CallOf

\* What a process in open() or pipe() has in hand stays its own.
LEMMA CallNext == FileInv /\ [FileNext]_filevars => CallInv'
<1> SUFFICES ASSUME FileInv, [FileNext]_filevars PROVE CallInv'
    OBVIOUS
<1>0. FileTypeOK /\ RefsExact /\ FreeInv /\ CallInv
    BY DEF FileInv
<1>r. ref \in [Files -> Nat]
    BY <1>0 DEF FileTypeOK
<1>w. DOMAIN what = Files /\ what = [f \in Files |-> what[f]]
    BY <1>0 DEF FileTypeOK
<1>v. /\ call = [q \in Users |-> call[q]] /\ ofile = [q \in Users |-> ofile[q]]
      /\ f0 = [q \in Users |-> f0[q]] /\ f1 = [q \in Users |-> f1[q]] /\ ff = [q \in Users |-> ff[q]]
    BY <1>0 DEF FileTypeOK
<1>c. ASSUME NEW p \in Users PROVE CallOf(p)
    BY <1>0 DEF CallInv
<1>s. ASSUME NEW p \in Users, Local(p), CallOf(p)' PROVE CallInv'
    BY <1>0, <1>s, OthersNext DEF CallInv
<1>1. CASE UNCHANGED filevars
    BY <1>0, <1>1 DEF filevars, CallInv, CallOf, Fresh
<1>2. ASSUME NEW f \in Files, filealloc(f)
      PROVE  /\ Fresh(f)'
             /\ \A g \in Files : Fresh(g) => Fresh(g)'
             /\ \A g \in Files : ref[g] = 1 => ref'[g] = ref[g] /\ what'[g] = what[g]
    BY <1>0, <1>r, <1>2 DEF filealloc, IsFirst, FreeInv, Fresh
<1>3. ASSUME NEW p \in Users, fileclose(p) PROVE CallInv'
  <2>1. Local(p)
      BY <1>3, <1>v, <1>r, <1>w DEF fileclose, Drop, Local
  <2>2. CallOf(p)'
      BY <1>3, IdleNext DEF fileclose
  <2>3. QED
      BY <1>s, <2>1, <2>2
<1>4. ASSUME NEW p \in Users, fileclose_last(p) PROVE CallInv'
  <2>1. Local(p)
      BY <1>4, <1>v DEF fileclose_last, Local, table
  <2>2. CallOf(p)'
      BY <1>4, <1>c, <1>v DEF fileclose_last, CallOf, Fresh, table
  <2>3. QED
      BY <1>s, <2>1, <2>2
<1>5. ASSUME NEW p \in Users, sys_open(p) PROVE CallInv'
  <2>1. PICK f \in Files : filealloc(f) /\ f0' = [f0 EXCEPT ![p] = f]
      BY <1>5, Zenon DEF sys_open
  <2>2. Local(p)
      BY <1>2, <1>5, <1>v, <2>1 DEF sys_open, Local
  <2>3. CallOf(p)'
      BY <1>2, <1>5, <1>v, <2>1 DEF sys_open, CallOf, In
  <2>4. QED
      BY <1>s, <2>2, <2>3
<1>6. ASSUME NEW p \in Users, open_fd(p) PROVE CallInv'
  <2>1. Local(p)
      BY <1>6, <1>v, <1>w DEF open_fd, Local
  <2>2. CallOf(p)'
      BY <1>6, <1>v, IdleNext DEF open_fd
  <2>3. QED
      BY <1>s, <2>1, <2>2
<1>7. ASSUME NEW p \in Users, open_iput(p) PROVE CallInv'
  <2>1. Local(p)
      BY <1>7, <1>v DEF open_iput, Local, table, local
  <2>2. CallOf(p)'
      BY <1>7, <1>v, IdleNext DEF open_iput
  <2>3. QED
      BY <1>s, <2>1, <2>2
<1>8. ASSUME NEW p \in Users, pipealloc_f0(p) PROVE CallInv'
  <2>1. PICK f \in Files : filealloc(f) /\ f0' = [f0 EXCEPT ![p] = f]
      BY <1>8, Zenon DEF pipealloc_f0
  <2>2. Local(p)
      BY <1>2, <1>8, <1>v, <2>1 DEF pipealloc_f0, Local
  <2>3. CallOf(p)'
      BY <1>2, <1>8, <1>v, <2>1 DEF pipealloc_f0, CallOf, In
  <2>4. QED
      BY <1>s, <2>2, <2>3
<1>9. ASSUME NEW p \in Users, pipealloc_f1(p) PROVE CallInv'
  <2>1. CASE \E f \in Files : filealloc(f) /\ f1' = [f1 EXCEPT ![p] = f] /\ call' = call
    <3>1. PICK f \in Files : filealloc(f) /\ f1' = [f1 EXCEPT ![p] = f] /\ call' = call
        BY <2>1, Zenon
    <3>2. Local(p)
        BY <1>2, <1>9, <1>v, <3>1 DEF pipealloc_f1, Local
    <3>3. CallOf(p)'
      <4>1. Fresh(f)' /\ Fresh(f0[p])' /\ f0' = f0 /\ ff' = ff /\ f1'[p] = f
          BY <1>2, <1>9, <1>c, <1>v, <3>1 DEF pipealloc_f1, CallOf, Fresh
      <4>2. call'[p] = "pipe" /\ ff[p] = FD_NONE
          BY <1>9, <1>c, <3>1 DEF pipealloc_f1, CallOf
      <4>3. QED
          BY <4>1, <4>2 DEF CallOf
    <3>4. QED
        BY <1>s, <3>2, <3>3
  <2>2. CASE call' = [call EXCEPT ![p] = "user"] /\ UNCHANGED <<table, f1>>
    <3>1. Local(p)
        BY <1>9, <2>2, <1>v DEF pipealloc_f1, Local, table
    <3>2. CallOf(p)'
        BY <2>2, <1>v, IdleNext
    <3>3. QED
        BY <1>s, <3>1, <3>2
  <2>3. QED
      BY <1>9, <2>1, <2>2, Zenon DEF pipealloc_f1
<1>10. ASSUME NEW p \in Users, pipealloc_kalloc(p) PROVE CallInv'
  <2>1. Local(p)
      BY <1>10, <1>v, <1>w, Zenon DEF pipealloc_kalloc, Local, local
  <2>2. CallOf(p)'
    <3>1. f0[p] \in Files /\ f1[p] \in Files /\ ff[p] = FD_NONE
        BY <1>10, <1>c DEF pipealloc_kalloc, CallOf, Fresh
    <3>2. call'[p] = "pipefds" \/ call'[p] = "user"
        BY <1>10, <1>v, Zenon DEF pipealloc_kalloc
    <3>3. f0' = f0 /\ f1' = f1 /\ ff' = ff
        BY <1>10 DEF pipealloc_kalloc, local
    <3>4. QED
        BY <3>1, <3>2, <3>3 DEF CallOf
  <2>3. QED
      BY <1>s, <2>1, <2>2
<1>11. ASSUME NEW p \in Users, sys_pipe(p) PROVE CallInv'
  <2>1. Local(p)
      BY <1>11, <1>v DEF sys_pipe, Undone, Local, table
  <2>2. CallOf(p)'
      BY <1>11, <1>v, IdleNext DEF sys_pipe
  <2>3. QED
      BY <1>s, <2>1, <2>2
<1>12. ASSUME NEW p \in Users, sys_dup(p) PROVE CallInv'
  <2>1. Local(p)
      BY <1>12, <1>v, <1>r DEF sys_dup, Open, Local, local
  <2>2. CallOf(p)'
      BY <1>12, <1>v, IdleNext DEF sys_dup, In
  <2>3. QED
      BY <1>s, <2>1, <2>2
<1>13. ASSUME NEW p \in Users, sys_close(p) PROVE CallInv'
  <2>1. Local(p)
      BY <1>13, <1>v DEF sys_close, Release, Local, table
  <2>2. CallOf(p)'
      BY <1>13, <1>v, IdleNext DEF sys_close, In
  <2>3. QED
      BY <1>s, <2>1, <2>2
<1>14. ASSUME NEW p \in Users, NEW child \in Users, fork(p, child) PROVE CallInv'
  <2>1. p # child /\ call'[child] = "user" /\ call'[p] = "user"
      BY <1>14, <1>v DEF fork, In
  <2>2. CallOf(p)' /\ CallOf(child)'
      BY <2>1, IdleNext
  <2>3. ASSUME NEW q \in Users, q # p, q # child PROVE CallOf(q)'
    <3>1. /\ call'[q] = call[q] /\ f0'[q] = f0[q] /\ f1'[q] = f1[q] /\ ff'[q] = ff[q]
          /\ ofile'[q] = ofile[q]
        BY <1>14, <1>v, <2>3, Zenon DEF fork, local
    <3>2. ASSUME NEW f \in Files, Fresh(f), f0[q] = f \/ f1[q] = f
          PROVE  ref'[f] = ref[f] /\ what'[f] = what[f]
      <4>1. \A fd \in Fds : ofile[p][fd] # f
          BY <1>0, <3>2, Sole DEF Fresh
      <4>2. Shared(p, f) = 0
          BY <4>1, FS_EmptySet DEF Shared
      <4>3. QED
          BY <1>14, <1>r, <4>2 DEF fork
    <3>3. QED
        BY <1>0, <1>c, <3>1, <3>2, OthersKeep, Zenon
  <2>4. QED
      BY <2>2, <2>3 DEF CallInv
<1>15. ASSUME NEW p \in Users, exit(p) PROVE CallInv'
  <2>1. Local(p)
      BY <1>15, <1>v DEF exit, Local, table, local
  <2>2. CallOf(p)'
      BY <1>15, <1>v, IdleNext DEF exit
  <2>3. QED
      BY <1>s, <2>1, <2>2
<1>16. ASSUME NEW p \in Users, exit_fd(p) PROVE CallInv'
  <2>1. Local(p)
      BY <1>16, <1>v DEF exit_fd, Release, Local, table
  <2>2. ASSUME call' = call PROVE CallOf(p)'
      BY <1>16, <2>2, IdleNext DEF exit_fd, In
  <2>3. ASSUME Open(p) = {} /\ call' = [call EXCEPT ![p] = "unused"] /\ UNCHANGED <<ofile, f0>> PROVE CallOf(p)'
      BY <1>16, <2>3, <1>v DEF exit_fd, In, Open, CallOf
  <2>4. CallOf(p)'
      BY <1>16, <2>2, <2>3 DEF exit_fd, CallOf
  <2>5. QED
      BY <1>s, <2>1, <2>4
<1>17. QED
    BY <1>1, <1>3, <1>4, <1>5, <1>6, <1>7, <1>8, <1>9, <1>10, <1>11, <1>12, <1>13, <1>14,
       <1>15, <1>16, Zenon DEF FileNext

-----------------------------------------------------------------------------
(* Every step keeps what is closed once *)

\* What is going to close x, in terms of the sets that are counted.
LEMMA ClosersCount ==
    /\ \A x : Closers(x) = Cardinality(Table(x)) + Cardinality(Copies(x))
    /\ \A x : Closers(x)' = Cardinality(Table(x)') + Cardinality(Copies(x)')
    BY DEF Closers, Table, Copies

\* Entries that are for x before and after a step.
LEMMA TableKept ==
    ASSUME NEW x, \A f \in Files : ref'[f] > 0 /\ what'[f] = x <=> ref[f] > 0 /\ what[f] = x
    PROVE  Cardinality(Table(x)') = Cardinality(Table(x))
<1>1. Table(x)' = Table(x)
    BY DEF Table
<1>2. QED
    BY <1>1

\* filealloc() gives out a cleared entry, so what is in use stays as it was.
LEMMA AllocKeeps ==
    ASSUME FileTypeOK, FreeInv, NEW f \in Files, filealloc(f), NEW x, x # FD_NONE
    PROVE  Cardinality(Table(x)') = Cardinality(Table(x))
<1>1. what' = what /\ what[f] = FD_NONE /\ \A g \in Files : g # f => ref'[g] = ref[g]
    BY DEF filealloc, IsFirst, FreeInv, FileTypeOK
<1>2. \A g \in Files : ref'[g] > 0 /\ what'[g] = x <=> ref[g] > 0 /\ what[g] = x
    BY <1>1
<1>3. QED
    BY <1>2, TableKept

\* fileclose() hands on what it takes out of the table.
LEMMA DropKeeps ==
    ASSUME FileTypeOK, NEW p \in Users, NEW f \in Files, ref[f] > 0, ff[p] = FD_NONE, Drop(p, f),
           NEW x, x # FD_NONE
    PROVE  Closers(x)' = Closers(x)
<1>1. ref \in [Files -> Nat] /\ what = [g \in Files |-> what[g]]
    BY DEF FileTypeOK
<1>2. Is(FD_NONE, x) = 0 /\ Is(what[f], x) \in {0, 1}
    BY DEF Is
<1>3. CASE ref[f] = 1
  <2>1. Cardinality(Copies(x)') = Cardinality(Copies(x)) + Is(what[f], x) - Is(FD_NONE, x)
    <3>1. ff' = [ff EXCEPT ![p] = what[f]]
        BY <1>3 DEF Drop
    <3>2. QED
        BY <3>1, CopiesStep, Zenon
  <2>2. Cardinality(Table(x)') = Cardinality(Table(x)) + One(f \in Table(x)') - One(f \in Table(x))
    <3>1. \A g \in Files \ {f} : ref'[g] = ref[g] /\ what'[g] = what[g]
        BY <1>1 DEF Drop
    <3>2. QED
        BY <3>1, TableStep
  <2>3. One(f \in Table(x)') = 0 /\ One(f \in Table(x)) = Is(what[f], x)
    <3>1. f \notin Table(x)'
        BY <1>1, <1>3 DEF Drop, Table
    <3>2. f \in Table(x) <=> what[f] = x
        BY <1>3 DEF Table
    <3>3. QED
        BY <3>1, <3>2 DEF One, Is
  <2>4. Cardinality(Table(x)) \in Nat /\ Cardinality(Copies(x)) \in Nat
      BY Counts
  <2>5. QED
      BY <1>2, <2>1, <2>2, <2>3, <2>4, ClosersCount
<1>4. CASE ref[f] # 1
  <2>1. ff' = [ff EXCEPT ![p] = FD_NONE] /\ what' = [what EXCEPT ![f] = what[f]]
      BY <1>4 DEF Drop
  <2>2. ff' = ff /\ what' = what
      BY <1>1, <2>1 DEF FileTypeOK
  <2>3. \A g \in Files : ref'[g] > 0 <=> ref[g] > 0
      BY <1>1, <1>4 DEF Drop
  <2>4. Cardinality(Table(x)') = Cardinality(Table(x)) /\ Cardinality(Copies(x)') = Cardinality(Copies(x))
      BY <2>2, <2>3, TableKept, SameCount
  <2>5. QED
      BY <2>4, ClosersCount
<1>5. QED
    BY <1>3, <1>4

\* Most steps leave alone what is going to be closed.
LEMMA ClosersKept ==
    ASSUME FileInv, NEW p \in Users, NEW x, x # FD_NONE,
           \/ fileclose(p) \/ sys_open(p) \/ open_iput(p) \/ pipealloc_f0(p) \/ pipealloc_f1(p)
           \/ sys_pipe(p) \/ sys_dup(p) \/ sys_close(p) \/ exit(p) \/ exit_fd(p)
           \/ (\E child \in Users : fork(p, child))
           \/ UNCHANGED <<ref, what, ff>>
    PROVE  Closers(x)' = Closers(x)
<1>0. FileTypeOK /\ RefsExact /\ FreeInv
    BY DEF FileInv
<1>1. CASE UNCHANGED <<ref, what, ff>>
    BY <1>1, SameCount, ClosersCount
<1>2. ASSUME NEW f \in Files, filealloc(f), ff' = ff PROVE Closers(x)' = Closers(x)
    BY <1>0, <1>2, AllocKeeps, SameCount, ClosersCount
<1>3. CASE sys_open(p) \/ pipealloc_f0(p) \/ pipealloc_f1(p)
    BY <1>1, <1>2, <1>3, Zenon DEF sys_open, pipealloc_f0, pipealloc_f1, table
<1>4. CASE fileclose(p)
  <2>1. PICK f \in Files : ref[f] > 0 /\ Drop(p, f)
      BY <1>0, <1>4, HasRef, Zenon DEF fileclose
  <2>2. ff[p] = FD_NONE
      BY <1>4, Zenon DEF fileclose
  <2>3. QED
      BY <1>0, <2>1, <2>2, DropKeeps
<1>5. CASE sys_dup(p)
  <2>1. PICK f \in Files : ref[f] > 0 /\ ref' = [ref EXCEPT ![f] = ref[f] + 1]
    <3>1. PICK fd \in Fds : /\ ofile[p][fd] # NoFile
                            /\ ref' = [ref EXCEPT ![ofile[p][fd]] = ref[ofile[p][fd]] + 1]
        BY <1>5, Zenon DEF sys_dup, Open
    <3>2. ofile[p][fd] \in Files /\ ref[ofile[p][fd]] > 0
        BY <1>0, <3>1, HasRef
    <3>3. QED
        BY <3>1, <3>2, Zenon
  <2>2. what' = what /\ ff' = ff /\ ref \in [Files -> Nat]
      BY <1>0, <1>5 DEF sys_dup, local, FileTypeOK
  <2>3. \A g \in Files : ref'[g] > 0 <=> ref[g] > 0
      BY <2>1, <2>2
  <2>4. Cardinality(Table(x)') = Cardinality(Table(x)) /\ Cardinality(Copies(x)') = Cardinality(Copies(x))
      BY <2>2, <2>3, TableKept, SameCount, Zenon
  <2>5. QED
      BY <2>4, ClosersCount
<1>6. ASSUME NEW child \in Users, fork(p, child) PROVE Closers(x)' = Closers(x)
  <2>1. \A f \in Files : Shared(p, f) \in Nat
    <3>1. \A f : {fd \in Fds : ofile[p][fd] = f} \subseteq Fds
        OBVIOUS
    <3>2. QED
        BY <1>0, <3>1, Finite, FS_Subset, FS_CardinalityType DEF Shared
  <2>2. what' = what /\ ff' = ff /\ \A f \in Files : ref'[f] = ref[f] + Shared(p, f)
      BY <1>6 DEF fork, local
  <2>3. ref \in [Files -> Nat]
      BY <1>0 DEF FileTypeOK
  <2>4. \A f \in Files : ref[f] > 0 => ref'[f] > 0
      BY <2>1, <2>2, <2>3
  <2>5. \A f \in Files : what[f] = x => ref[f] > 0
      BY <1>0, <2>3 DEF FreeInv
  <2>6. \A f \in Files : ref'[f] > 0 /\ what'[f] = x <=> ref[f] > 0 /\ what[f] = x
      BY <2>2, <2>4, <2>5
  <2>7. Cardinality(Table(x)') = Cardinality(Table(x)) /\ Cardinality(Copies(x)') = Cardinality(Copies(x))
      BY <2>2, <2>6, TableKept, SameCount, Zenon
  <2>8. QED
      BY <2>7, ClosersCount
<1>7. CASE open_iput(p) \/ sys_pipe(p) \/ sys_close(p) \/ exit(p) \/ exit_fd(p)
    BY <1>1, <1>7, Zenon DEF open_iput, sys_pipe, sys_close, exit, exit_fd, table, local
<1>8. QED
    BY <1>1, <1>3, <1>4, <1>5, <1>6, <1>7

\* The last step of fileclose() is the end of one closer.
LEMMA ClosersLast ==
    ASSUME FileInv, NEW p \in Users, NEW x, x # FD_NONE, fileclose_last(p)
    PROVE  /\ Closers(x)' = Closers(x) - Is(ff[p], x)
           /\ ff[p] = x => Closers(x) > 0
<1>0. FileTypeOK
    BY DEF FileInv
<1>1. Cardinality(Copies(x)') = Cardinality(Copies(x)) + Is(FD_NONE, x) - Is(ff[p], x)
  <2>1. ff' = [ff EXCEPT ![p] = FD_NONE]
      BY DEF fileclose_last
  <2>2. QED
      BY <1>0, <2>1, CopiesStep, Zenon
<1>2. Is(FD_NONE, x) = 0 /\ Is(ff[p], x) \in {0, 1}
    BY DEF Is
<1>3. Cardinality(Table(x)') = Cardinality(Table(x))
    BY SameCount DEF fileclose_last, table
<1>4. Cardinality(Table(x)) \in Nat /\ Cardinality(Copies(x)) \in Nat
    BY <1>0, Counts
<1>5. ff[p] = x => Cardinality(Copies(x)) > 0
    BY <1>0, Counts
<1>6. QED
    BY <1>1, <1>2, <1>3, <1>4, <1>5, ClosersCount

\* A fresh file is set up for y: that closes nothing, and y has one closer more.
LEMMA SetUp ==
    ASSUME FileTypeOK, NEW f \in Files, Fresh(f), NEW x, x # FD_NONE, NEW y,
           ref' = ref, what' = [what EXCEPT ![f] = y]
    PROVE  Cardinality(Table(x)') = Cardinality(Table(x)) + Is(y, x)
<1>1. \A g \in Files \ {f} : ref'[g] = ref[g] /\ what'[g] = what[g]
    BY DEF FileTypeOK
<1>2. Cardinality(Table(x)') = Cardinality(Table(x)) + One(f \in Table(x)') - One(f \in Table(x))
    BY <1>1, TableStep
<1>3. f \notin Table(x)
    BY DEF Table, Fresh
<1>4. f \in Table(x)' <=> y = x
  <2>1. what'[f] = y /\ ref'[f] = 1
      BY DEF FileTypeOK, Fresh
  <2>2. QED
      BY <2>1 DEF Table
<1>5. Cardinality(Table(x)) \in Nat
    BY Counts
<1>6. QED
    BY <1>2, <1>3, <1>4, <1>5 DEF One, Is

\* pipealloc() sets up both ends.
Both(f, y, g, z) == what' = [what EXCEPT ![f] = y, ![g] = z]

\* Each of them has one closer more.
LEMMA SetUpTwo ==
    ASSUME FileTypeOK, NEW f \in Files, NEW g \in Files, Fresh(f), Fresh(g), f # g, NEW x, x # FD_NONE,
           NEW y, NEW z, ref' = ref, Both(f, y, g, z)
    PROVE  Cardinality(Table(x)') = Cardinality(Table(x)) + Is(y, x) + Is(z, x)
<1> DEFINE M == {h \in Files : IF h = f THEN y = x ELSE h \in Table(x)}
<1>1. \A h \in Files : what'[h] = IF h = g THEN z ELSE IF h = f THEN y ELSE what[h]
    BY DEF FileTypeOK, Both
<1>2. ref[f] = 1 /\ ref[g] = 1 /\ what[f] = FD_NONE /\ what[g] = FD_NONE
    BY DEF Fresh
<1>3. f \notin Table(x) /\ g \notin Table(x)
    BY <1>2 DEF Table
<1>4. Table(x) \ {f} = M \ {f}
    BY DEF Table
<1>5. IsFiniteSet(M) /\ Cardinality(M) = Cardinality(Table(x)) + One(f \in M) - One(f \in Table(x))
    BY <1>4, Finite, OneMore
<1>6. M \ {g} = Table(x)' \ {g}
  <2>1. ASSUME NEW h \in Files, h # g PROVE h \in M <=> h \in Table(x)'
    <3>1. CASE h = f
      <4>1. ref'[h] = 1 /\ what'[h] = y
          BY <1>1, <1>2, <2>1, <3>1
      <4>2. h \in Table(x)' <=> y = x
          BY <4>1 DEF Table
      <4>3. QED
          BY <3>1, <4>2
    <3>2. CASE h # f
      <4>1. ref'[h] = ref[h] /\ what'[h] = what[h]
          BY <1>1, <2>1, <3>2
      <4>2. h \in Table(x)' <=> h \in Table(x)
          BY <4>1 DEF Table
      <4>3. QED
          BY <3>2, <4>2
    <3>3. QED
        BY <3>1, <3>2
  <2>2. M \subseteq Files /\ Table(x)' \subseteq Files
      BY DEF Table
  <2>3. QED
      BY <2>1, <2>2
<1>7. Cardinality(Table(x)') = Cardinality(M) + One(g \in Table(x)') - One(g \in M)
    BY <1>5, <1>6, OneMore, Zenon
<1>8. One(f \in M) = Is(y, x) /\ One(f \in Table(x)) = 0
    BY <1>3 DEF One, Is
<1>9. One(g \in Table(x)') = Is(z, x) /\ One(g \in M) = 0
  <2>1. g \in Table(x)' <=> z = x
    <3>1. what'[g] = z /\ ref'[g] = 1
        BY <1>1, <1>2
    <3>2. QED
        BY <3>1 DEF Table
  <2>2. g \notin M
      BY <1>3
  <2>3. QED
      BY <2>1, <2>2 DEF One, Is
<1>10. Is(y, x) \in {0, 1} /\ Is(z, x) \in {0, 1} /\ Cardinality(Table(x)) \in Nat
    BY Counts DEF Is
<1>11. QED
    BY <1>5, <1>7, <1>8, <1>9, <1>10

\* open() sets its file up for the inode, or fails.
LEMMA ClosersOpen ==
    ASSUME FileInv, NEW p \in Users, NEW x, x # FD_NONE, open_fd(p)
    PROVE  \/ call' = [call EXCEPT ![p] = "user"] /\ Closers(x)' = Closers(x) + Is(FD_INODE, x)
           \/ call' = [call EXCEPT ![p] = "iput"] /\ Closers(x)' = Closers(x)
<1>0. FileTypeOK /\ CallInv
    BY DEF FileInv
<1>1. f0[p] \in Files /\ Fresh(f0[p]) /\ ref' = ref /\ ff' = ff
    BY <1>0 DEF open_fd, CallInv, CallOf, Fresh
<1>2. CASE what' = [what EXCEPT ![f0[p]] = FD_INODE] /\ call' = [call EXCEPT ![p] = "user"]
  <2>1. PICK f \in Files : f = f0[p]
      BY <1>1
  <2>2. what' = [what EXCEPT ![f] = FD_INODE] /\ Fresh(f)
      BY <1>1, <1>2, <2>1
  <2>3. Cardinality(Table(x)') = Cardinality(Table(x)) + Is(FD_INODE, x)
      BY <1>0, <1>1, <2>2, SetUp, Zenon
  <2>4. Cardinality(Copies(x)') = Cardinality(Copies(x))
      BY <1>1, SameCount
  <2>5. Cardinality(Table(x)) \in Nat /\ Cardinality(Copies(x)) \in Nat /\ Is(FD_INODE, x) \in {0, 1}
      BY <1>0, Counts DEF Is
  <2>6. Closers(x)' = Closers(x) + Is(FD_INODE, x)
      BY <2>3, <2>4, <2>5, ClosersCount
  <2>7. QED
      BY <1>2, <2>6
<1>3. CASE what' = what /\ call' = [call EXCEPT ![p] = "iput"]
  <2>1. Closers(x)' = Closers(x)
      BY <1>1, <1>3, SameCount, ClosersCount
  <2>2. QED
      BY <1>3, <2>1
<1>4. QED
    BY <1>2, <1>3 DEF open_fd

\* pipealloc() sets its two files up for the ends of a free pipe, or fails.
LEMMA ClosersPipe ==
    ASSUME FileInv, NEW p \in Users, NEW x, x # FD_NONE, pipealloc_kalloc(p)
    PROVE  \/ \E i \in 1 .. NPIPE :
                 /\ pipe[i] = {} /\ pipe' = [pipe EXCEPT ![i] = Ends]
                 /\ Closers(x)' = Closers(x) + Is(FD_PIPE(i, FALSE), x) + Is(FD_PIPE(i, TRUE), x)
           \/ pipe' = pipe /\ Closers(x)' = Closers(x)
<1>0. FileTypeOK /\ CallInv /\ RefsExact
    BY DEF FileInv
<1>1. Fresh(f0[p]) /\ Fresh(f1[p]) /\ ref' = ref /\ ff' = ff
    BY <1>0 DEF pipealloc_kalloc, CallInv, CallOf, local
<1>2. PICK f \in Files, g \in Files : f = f0[p] /\ g = f1[p] /\ Fresh(f) /\ Fresh(g)
    BY <1>1 DEF Fresh
<1>3. f # g
  <2>1. ref[f] = 1
      BY <1>2 DEF Fresh
  <2>2. f0[p] # f1[p]
      BY <1>0, <1>2, <2>1, Sole
  <2>3. QED
      BY <1>2, <2>2
<1>4. Cardinality(Copies(x)') = Cardinality(Copies(x))
    BY <1>1, SameCount
<1>5. ASSUME NEW i \in 1 .. NPIPE, pipe[i] = {}, pipe' = [pipe EXCEPT ![i] = Ends],
             what' = [what EXCEPT ![f0[p]] = FD_PIPE(i, FALSE), ![f1[p]] = FD_PIPE(i, TRUE)]
      PROVE  Closers(x)' = Closers(x) + Is(FD_PIPE(i, FALSE), x) + Is(FD_PIPE(i, TRUE), x)
  <2>1. PICK y, z : y = FD_PIPE(i, FALSE) /\ z = FD_PIPE(i, TRUE)
      BY Zenon
  <2>2. Both(f, y, g, z)
      BY <1>2, <1>5, <2>1 DEF Both
  <2>3. Cardinality(Table(x)') = Cardinality(Table(x)) + Is(y, x) + Is(z, x)
      BY <1>0, <1>1, <1>2, <1>3, <2>2, SetUpTwo
  <2>4. /\ Cardinality(Table(x)) \in Nat /\ Cardinality(Copies(x)) \in Nat
        /\ Is(y, x) \in {0, 1} /\ Is(z, x) \in {0, 1}
      BY <1>0, Counts DEF Is
  <2>5. Closers(x)' = Closers(x) + Is(y, x) + Is(z, x)
      BY <1>4, <2>3, <2>4, ClosersCount
  <2>6. QED
      BY <2>1, <2>5
<1>6. CASE pipe' = pipe /\ what' = what
    BY <1>1, <1>6, SameCount, ClosersCount, Zenon
<1>7. QED
    BY <1>5, <1>6, Zenon DEF pipealloc_kalloc

\* How many processes are opening a file, when a call goes from one point to another.
Moves(p, u, v) == call[p] = u /\ call' = [call EXCEPT ![p] = v]

\* A process that goes from u to v begins or ends an open(), or neither.
LEMMA OpeningMove ==
    ASSUME FileTypeOK, NEW p \in Users, NEW u, NEW v, Moves(p, u, v)
    PROVE  /\ v \in {"open", "iput"} /\ u \notin {"open", "iput"}
                  => Cardinality(Opening') = Cardinality(Opening) + 1
           /\ v \notin {"open", "iput"} /\ u \in {"open", "iput"}
                  => Cardinality(Opening') = Cardinality(Opening) - 1
           /\ (v \in {"open", "iput"} <=> u \in {"open", "iput"})
                  => Cardinality(Opening') = Cardinality(Opening)
<1> DEFINE O == {"open", "iput"}
<1>1. PICK a, b : a = One(v \in O) /\ b = One(u \in O)
    BY Zenon
<1>2. Cardinality(Opening') = Cardinality(Opening) + a - b
    BY <1>1, OpeningStep, Zenon DEF Moves
<1>3. /\ v \in O => a = 1
      /\ v \notin O => a = 0
      /\ u \in O => b = 1
      /\ u \notin O => b = 0
    BY <1>1, Zenon DEF One
<1>n. Cardinality(Opening) \in Nat
    BY Counts, Zenon
<1>4. v \in O /\ u \notin O => Cardinality(Opening') = Cardinality(Opening) + 1
    BY <1>n, <1>2, <1>3
<1>5. v \notin O /\ u \in O => Cardinality(Opening') = Cardinality(Opening) - 1
    BY <1>n, <1>2, <1>3
<1>6. (v \in O <=> u \in O) => Cardinality(Opening') = Cardinality(Opening)
    BY <1>n, <1>2, <1>3
<1>7. QED
    BY <1>4, <1>5, <1>6, Zenon

\* A step that touches neither the table nor the copies closes nothing.
LEMMA ClosersSame == UNCHANGED <<ref, what, ff>> => \A x : Closers(x)' = Closers(x)
    BY DEF Closers

\* Ends of pipes are closed once.
LEMMA EndsNext == FileInv /\ [FileNext]_filevars => EndsClosedOnce'
<1> SUFFICES ASSUME FileInv, [FileNext]_filevars, NEW i \in 1 .. NPIPE, NEW w \in Ends
             PROVE  Closers(FD_PIPE(i, w))' = IF w \in pipe'[i] THEN 1 ELSE 0
    BY DEF EndsClosedOnce
<1>x. PICK x : x = FD_PIPE(i, w)
    OBVIOUS
<1> DEFINE Once == Closers(x)' = IF w \in pipe'[i] THEN 1 ELSE 0
<1>0. FileTypeOK /\ EndsClosedOnce
    BY DEF FileInv
<1>e. Closers(x) = IF w \in pipe[i] THEN 1 ELSE 0
    BY <1>0, <1>x DEF EndsClosedOnce
<1>n. x # FD_NONE
    BY <1>x, KindsApart
<1>t. pipe = [j \in 1 .. NPIPE |-> pipe[j]]
    BY <1>0 DEF FileTypeOK
<1>k. \A j, v : Is(FD_PIPE(j, v), x) = IF j = i /\ v = w THEN 1 ELSE 0
  <2>1. \A j, v : FD_PIPE(j, v) = x <=> j = i /\ v = w
      BY <1>x, KindsApart
  <2>2. QED
      BY <2>1 DEF Is
<1>1. ASSUME pipe' = pipe, Closers(x)' = Closers(x) PROVE Once
    BY <1>1, <1>e
<1>2. ASSUME NEW p \in Users,
             \/ fileclose(p) \/ sys_open(p) \/ open_iput(p) \/ pipealloc_f0(p) \/ pipealloc_f1(p)
             \/ sys_pipe(p) \/ sys_dup(p) \/ sys_close(p) \/ exit(p) \/ exit_fd(p)
             \/ (\E child \in Users : fork(p, child))
      PROVE  Once
  <2>1. pipe' = pipe
      BY <1>2, Zenon DEF fileclose, sys_open, open_iput, pipealloc_f0, pipealloc_f1, sys_pipe, sys_dup,
                         sys_close, exit, exit_fd, fork
  <2>2. Closers(x)' = Closers(x)
      BY <1>2, <1>n, ClosersKept, Zenon
  <2>3. QED
      BY <1>1, <2>1, <2>2
<1>3. ASSUME NEW p \in Users, fileclose_last(p) PROVE Once
  <2>1. Closers(x)' = Closers(x) - Is(ff[p], x) /\ (ff[p] = x => Closers(x) > 0)
      BY <1>3, <1>n, ClosersLast
  <2>2. CASE ff[p].type = "INODE"
    <3>1. ff[p] # x
        BY <1>x, <2>2, KindsApart
    <3>2. pipe' = pipe
        BY <1>3, <2>2 DEF fileclose_last
    <3>3. Is(ff[p], x) = 0
        BY <3>1 DEF Is
    <3>4. Closers(x)' = Closers(x)
        BY <2>1, <3>3, <1>e
    <3>5. QED
        BY <1>1, <3>2, <3>4
  <2>3. CASE ff[p].type = "PIPE"
    <3>1. PICK j \in 1 .. NPIPE, v \in Ends : ff[p] = FD_PIPE(j, v)
      <4>1. ff[p] \in Kinds
          BY <1>0 DEF FileTypeOK
      <4>2. ff[p] # FD_NONE /\ ff[p] # FD_INODE
          BY <2>3 DEF FD_NONE, FD_INODE
      <4>3. QED
          BY <4>1, <4>2 DEF Kinds
    <3>2. pipe' = [pipe EXCEPT ![j] = pipe[j] \ {v}]
        BY <1>3, <2>3, <3>1, KindsApart DEF fileclose_last, End
    <3>3. CASE j = i /\ v = w
      <4>1. ff[p] = x /\ Is(ff[p], x) = 1
          BY <1>x, <3>1, <3>3 DEF Is
      <4>2. Closers(x) = 1
          BY <1>e, <2>1, <4>1
      <4>3. w \notin pipe'[i]
          BY <1>t, <3>2, <3>3
      <4>4. QED
          BY <2>1, <4>1, <4>2, <4>3
    <3>4. CASE ~(j = i /\ v = w)
      <4>1. Is(ff[p], x) = 0
          BY <1>k, <3>1, <3>4
      <4>2. w \in pipe'[i] <=> w \in pipe[i]
          BY <1>t, <3>2, <3>4
      <4>3. QED
          BY <1>e, <2>1, <4>1, <4>2
    <3>5. QED
        BY <3>3, <3>4
  <2>4. QED
      BY <1>3, <2>2, <2>3 DEF fileclose_last
<1>4. ASSUME NEW p \in Users, open_fd(p) PROVE Once
  <2>1. Is(FD_INODE, x) = 0
      BY <1>x, KindsApart DEF Is
  <2>2. Closers(x)' = Closers(x) + Is(FD_INODE, x) \/ Closers(x)' = Closers(x)
      BY <1>4, <1>n, ClosersOpen
  <2>3. pipe' = pipe
      BY <1>4 DEF open_fd
  <2>4. QED
      BY <1>1, <1>e, <2>1, <2>2, <2>3
<1>5. ASSUME NEW p \in Users, pipealloc_kalloc(p) PROVE Once
  <2>1. ASSUME NEW j \in 1 .. NPIPE, pipe[j] = {}, pipe' = [pipe EXCEPT ![j] = Ends],
               Closers(x)' = Closers(x) + Is(FD_PIPE(j, FALSE), x) + Is(FD_PIPE(j, TRUE), x)
        PROVE  Once
    <3>0. PICK r, s : r = Is(FD_PIPE(j, FALSE), x) /\ s = Is(FD_PIPE(j, TRUE), x)
        BY Zenon
    <3>c. Closers(x)' = Closers(x) + r + s
        BY <2>1, <3>0, Zenon
    <3>1. CASE j = i
      <4>1. Closers(x) = 0 /\ w \in pipe'[i]
        <5>1. pipe'[i] = Ends /\ pipe[i] = {}
            BY <1>t, <2>1, <3>1
        <5>2. QED
            BY <1>e, <5>1
      <4>2. (r = 0 /\ s = 1) \/ (r = 1 /\ s = 0)
        <5>1. w = TRUE \/ w = FALSE
            BY DEF Ends
        <5>2. QED
            BY <1>k, <3>0, <3>1, <5>1, Zenon
      <4>3. Closers(x)' = 1
          BY <3>c, <4>1, <4>2
      <4>4. QED
          BY <4>1, <4>3
    <3>2. CASE j # i
      <4>1. r = 0 /\ s = 0
          BY <1>k, <3>0, <3>2, Zenon
      <4>2. pipe'[i] = pipe[i]
          BY <1>t, <2>1, <3>2
      <4>3. Closers(x)' = Closers(x)
          BY <1>e, <3>c, <4>1
      <4>4. QED
          BY <1>e, <4>2, <4>3
    <3>3. QED
        BY <3>1, <3>2, Zenon
  <2>2. CASE pipe' = pipe /\ Closers(x)' = Closers(x)
      BY <1>1, <2>2
  <2>3. QED
      BY <1>5, <1>n, <2>1, <2>2, ClosersPipe, Zenon
<1>6. ASSUME UNCHANGED filevars PROVE Once
  <2>1. pipe' = pipe /\ UNCHANGED <<ref, what, ff>>
      BY <1>6 DEF filevars
  <2>2. Closers(x)' = Closers(x)
      BY <2>1, ClosersSame
  <2>3. QED
      BY <1>1, <2>1, <2>2
<1>7. Once
    BY <1>2, <1>3, <1>4, <1>5, <1>6, Zenon DEF FileNext
<1>8. QED
    BY <1>x, <1>7

\* Inodes are put once.
LEMMA InodesNext == FileInv /\ [FileNext]_filevars => InodesPutOnce'
<1> SUFFICES ASSUME FileInv, [FileNext]_filevars
             PROVE  iref' = Closers(FD_INODE)' + Cardinality(Opening')
    BY DEF InodesPutOnce, Opening
<1> DEFINE Once == iref' = Closers(FD_INODE)' + Cardinality(Opening')
<1>0. FileTypeOK /\ InodesPutOnce
    BY DEF FileInv
<1>e. iref = Closers(FD_INODE) + Cardinality(Opening)
    BY <1>0 DEF InodesPutOnce, Opening
<1>n. /\ FD_INODE # FD_NONE /\ iref \in Nat /\ Closers(FD_INODE) \in Nat /\ Cardinality(Opening) \in Nat
  <2>1. Cardinality(Table(FD_INODE)) \in Nat /\ Cardinality(Copies(FD_INODE)) \in Nat
      BY <1>0, Counts
  <2>2. Closers(FD_INODE) \in Nat
      BY <2>1, ClosersCount
  <2>3. FD_INODE # FD_NONE
      BY KindsApart
  <2>4. iref \in Nat
      BY <1>0 DEF FileTypeOK
  <2>5. Cardinality(Opening) \in Nat
      BY <1>0, Counts
  <2>6. QED
      BY <2>2, <2>3, <2>4, <2>5
<1>1. ASSUME NEW p \in Users, NEW u, NEW v, Moves(p, u, v), u \notin {"open", "iput"},
             v \notin {"open", "iput"}
      PROVE  Cardinality(Opening') = Cardinality(Opening)
    BY <1>0, <1>1, OpeningMove, Zenon
<1>2. ASSUME iref' = iref, Closers(FD_INODE)' = Closers(FD_INODE),
             Cardinality(Opening') = Cardinality(Opening)
      PROVE  Once
    BY <1>2, <1>e
<1>3. ASSUME NEW p \in Users, \/ fileclose(p) \/ pipealloc_f0(p) \/ pipealloc_f1(p) \/ sys_pipe(p)
                              \/ sys_dup(p) \/ sys_close(p) \/ exit(p) \/ exit_fd(p)
                              \/ (\E child \in Users : fork(p, child))
      PROVE  Once
  <2>1. Closers(FD_INODE)' = Closers(FD_INODE)
      BY <1>3, <1>n, ClosersKept, Zenon
  <2>2. iref' = iref
      BY <1>3, Zenon DEF fileclose, pipealloc_f0, pipealloc_f1, sys_pipe, sys_dup, sys_close, exit,
                         exit_fd, fork
  <2>3. Cardinality(Opening') = Cardinality(Opening)
    <3>1. CASE call' = call
        BY <3>1, SameCount
    <3>2. CASE pipealloc_f0(p)
      <4>1. Moves(p, "user", "pipe")
          BY <3>2 DEF Moves, pipealloc_f0, In
      <4>2. QED
          BY <1>1, <4>1, Zenon
    <3>3. CASE pipealloc_f1(p)
      <4>1. call' = call \/ Moves(p, "pipe", "user")
          BY <3>3 DEF Moves, pipealloc_f1
      <4>2. QED
          BY <1>1, <3>1, <4>1, Zenon
    <3>4. CASE sys_pipe(p)
      <4>1. Moves(p, "pipefds", "user")
          BY <3>4 DEF Moves, sys_pipe
      <4>2. QED
          BY <1>1, <4>1, Zenon
    <3>5. CASE exit(p)
      <4>1. Moves(p, "user", "exit")
          BY <3>5 DEF Moves, exit, In
      <4>2. QED
          BY <1>1, <4>1, Zenon
    <3>6. CASE exit_fd(p)
      <4>1. call' = call \/ Moves(p, "exit", "unused")
          BY <3>6 DEF Moves, exit_fd, In
      <4>2. QED
          BY <1>1, <3>1, <4>1, Zenon
    <3>7. ASSUME NEW child \in Users, fork(p, child)
          PROVE  Cardinality(Opening') = Cardinality(Opening)
      <4>1. Moves(child, "unused", "user")
          BY <3>7 DEF Moves, fork
      <4>2. QED
          BY <1>1, <4>1, Zenon
    <3>8. CASE fileclose(p) \/ sys_dup(p) \/ sys_close(p)
        BY <3>1, <3>8, Zenon DEF fileclose, sys_dup, sys_close
    <3>9. QED
        BY <1>3, <3>2, <3>3, <3>4, <3>5, <3>6, <3>7, <3>8
  <2>4. QED
      BY <1>2, <2>1, <2>2, <2>3
<1>4. ASSUME NEW p \in Users, sys_open(p) PROVE Once
  <2>1. Closers(FD_INODE)' = Closers(FD_INODE)
      BY <1>4, <1>n, ClosersKept, Zenon
  <2>2. Cardinality(Opening') = Cardinality(Opening) + 1
    <3>1. Moves(p, "user", "open")
        BY <1>4 DEF Moves, sys_open, In
    <3>2. QED
        BY <1>0, <3>1, OpeningMove
  <2>3. iref' = iref + 1
      BY <1>4 DEF sys_open
  <2>4. QED
      BY <1>e, <1>n, <2>1, <2>2, <2>3
<1>5. ASSUME NEW p \in Users, open_iput(p) PROVE Once
  <2>1. Closers(FD_INODE)' = Closers(FD_INODE)
      BY <1>5, <1>n, ClosersKept, Zenon
  <2>2. Cardinality(Opening') = Cardinality(Opening) - 1
    <3>1. Moves(p, "iput", "user")
        BY <1>5 DEF Moves, open_iput, In
    <3>2. QED
        BY <1>0, <3>1, OpeningMove
  <2>3. iref' = iref - 1
      BY <1>5 DEF open_iput
  <2>4. QED
      BY <1>e, <1>n, <2>1, <2>2, <2>3
<1>6. ASSUME NEW p \in Users, open_fd(p) PROVE Once
  <2>1. iref' = iref /\ call[p] = "open"
      BY <1>6 DEF open_fd
  <2>2. CASE call' = [call EXCEPT ![p] = "user"]
             /\ Closers(FD_INODE)' = Closers(FD_INODE) + Is(FD_INODE, FD_INODE)
    <3>1. Cardinality(Opening') = Cardinality(Opening) - 1
      <4>1. Moves(p, "open", "user")
          BY <2>1, <2>2 DEF Moves
      <4>2. QED
          BY <1>0, <4>1, OpeningMove
    <3>2. Is(FD_INODE, FD_INODE) = 1
        BY DEF Is
    <3>3. Closers(FD_INODE)' = Closers(FD_INODE) + 1
        BY <2>2, <3>2
    <3>4. QED
        BY <1>e, <1>n, <2>1, <3>1, <3>3
  <2>3. CASE call' = [call EXCEPT ![p] = "iput"] /\ Closers(FD_INODE)' = Closers(FD_INODE)
    <3>1. Cardinality(Opening') = Cardinality(Opening)
      <4>1. Moves(p, "open", "iput")
          BY <2>1, <2>3 DEF Moves
      <4>2. QED
          BY <1>0, <4>1, OpeningMove, Zenon
    <3>2. QED
        BY <1>2, <2>1, <2>3, <3>1
  <2>4. QED
      BY <1>6, <1>n, <2>2, <2>3, ClosersOpen
<1>7. ASSUME NEW p \in Users, fileclose_last(p) PROVE Once
  <2>1. Closers(FD_INODE)' = Closers(FD_INODE) - Is(ff[p], FD_INODE)
      BY <1>7, <1>n, ClosersLast
  <2>2. Cardinality(Opening') = Cardinality(Opening)
      BY <1>7, SameCount DEF fileclose_last
  <2>3. CASE ff[p].type = "PIPE"
    <3>1. Is(ff[p], FD_INODE) = 0
        BY <2>3, KindsApart DEF Is
    <3>2. iref' = iref
        BY <1>7, <2>3 DEF fileclose_last
    <3>3. Closers(FD_INODE)' = Closers(FD_INODE)
        BY <1>n, <2>1, <3>1
    <3>4. QED
        BY <1>2, <2>2, <3>2, <3>3
  <2>4. CASE ff[p].type = "INODE"
    <3>1. ff[p] = FD_INODE
      <4>1. ff[p] \in Kinds
          BY <1>0 DEF FileTypeOK
      <4>2. QED
          BY <2>4, <4>1, KindsApart DEF Kinds, FD_NONE
    <3>2. iref' = iref - 1
        BY <1>7, <2>4 DEF fileclose_last
    <3>3. Is(ff[p], FD_INODE) = 1
        BY <3>1 DEF Is
    <3>4. Closers(FD_INODE)' = Closers(FD_INODE) - 1
        BY <2>1, <3>3
    <3>5. QED
        BY <1>e, <1>n, <2>2, <3>2, <3>4
  <2>5. QED
      BY <1>7, <2>3, <2>4 DEF fileclose_last
<1>8. ASSUME NEW p \in Users, pipealloc_kalloc(p) PROVE Once
  <2>1. Closers(FD_INODE)' = Closers(FD_INODE)
    <3>1. \A i : Is(FD_PIPE(i, FALSE), FD_INODE) = 0 /\ Is(FD_PIPE(i, TRUE), FD_INODE) = 0
      <4>1. \A i : FD_PIPE(i, FALSE) # FD_INODE /\ FD_PIPE(i, TRUE) # FD_INODE
          BY KindsApart, Zenon
      <4>2. QED
          BY <4>1, Zenon DEF Is
    <3>2. ASSUME NEW i \in 1 .. NPIPE,
                 Closers(FD_INODE)' = Closers(FD_INODE) + Is(FD_PIPE(i, FALSE), FD_INODE)
                                      + Is(FD_PIPE(i, TRUE), FD_INODE)
          PROVE  Closers(FD_INODE)' = Closers(FD_INODE)
      <4>1. Closers(FD_INODE)' = Closers(FD_INODE) + 0 + 0
          BY <3>1, <3>2, Zenon
      <4>2. QED
          BY <4>1, <1>n
    <3>3. QED
        BY <1>8, <1>n, <3>2, ClosersPipe, Zenon
  <2>2. iref' = iref
      BY <1>8 DEF pipealloc_kalloc
  <2>3. Cardinality(Opening') = Cardinality(Opening)
    <3>1. Moves(p, "pipe", "pipefds") \/ Moves(p, "pipe", "user")
        BY <1>8, Zenon DEF Moves, pipealloc_kalloc
    <3>2. QED
        BY <1>1, <3>1, Zenon
  <2>4. QED
      BY <1>2, <2>1, <2>2, <2>3
<1>9. ASSUME UNCHANGED filevars PROVE Once
  <2>1. iref' = iref /\ call' = call /\ UNCHANGED <<ref, what, ff>>
      BY <1>9 DEF filevars
  <2>2. QED
      BY <1>2, <2>1, SameCount, ClosersSame
<1>10. QED
    BY <1>3, <1>4, <1>5, <1>6, <1>7, <1>8, <1>9, Zenon DEF FileNext

-----------------------------------------------------------------------------
(* The invariant *)

\* At boot nothing is open.
LEMMA InvInit == FileInit => FileInv
<1> SUFFICES ASSUME FileInit PROVE FileInv
    OBVIOUS
<1>1. FileTypeOK
  <2>1. FD_NONE \in Kinds /\ NoFile \in 0 .. NFILE
      BY FileAssumption DEF Kinds, NoFile
  <2>2. QED
      BY <2>1 DEF FileInit, FileTypeOK
<1>z. Cardinality({}) = 0
    BY FS_EmptySet
<1>2. RefsExact
  <2> SUFFICES ASSUME NEW f \in Files
               PROVE  ref[f] = Cardinality(Held(f)) + Cardinality(First(f)) + Cardinality(Second(f))
      BY DEF RefsExact, Held, First, Second
  <2>1. f # NoFile /\ ref[f] = 0
      BY NotAFile DEF FileInit
  <2>2. Held(f) = {} /\ First(f) = {} /\ Second(f) = {}
    <3>1. \A d \in Users \X Fds : ofile[d[1]][d[2]] # f
        BY <2>1 DEF FileInit
    <3>2. QED
        BY <2>1, <3>1 DEF FileInit, Held, First, Second
  <2>3. QED
      BY <1>z, <2>1, <2>2
<1>c. ASSUME NEW x, x # FD_NONE PROVE Closers(x) = 0
  <2>1. Table(x) = {} /\ Copies(x) = {}
      BY <1>c DEF FileInit, Table, Copies
  <2>2. QED
      BY <1>z, <2>1, ClosersCount
<1>3. FreeInv
    BY DEF FileInit, FreeInv
<1>4. CallInv
    BY DEF FileInit, CallInv, CallOf
<1>5. EndsClosedOnce
  <2> SUFFICES ASSUME NEW i \in 1 .. NPIPE, NEW w \in Ends
               PROVE  Closers(FD_PIPE(i, w)) = IF w \in pipe[i] THEN 1 ELSE 0
      BY DEF EndsClosedOnce
  <2>1. w \notin pipe[i]
      BY DEF FileInit
  <2>2. Closers(FD_PIPE(i, w)) = 0
      BY <1>c, KindsApart, Zenon
  <2>3. QED
      BY <2>1, <2>2
<1>6. InodesPutOnce
  <2>1. Opening = {} /\ iref = 0
      BY DEF FileInit, Opening
  <2>2. Closers(FD_INODE) = 0
      BY <1>c, KindsApart
  <2>3. QED
      BY <1>z, <2>1, <2>2 DEF InodesPutOnce, Opening
<1>7. QED
    BY <1>1, <1>2, <1>3, <1>4, <1>5, <1>6 DEF FileInv

\* No step of any process breaks it.
LEMMA InvNext == FileInv /\ [FileNext]_filevars => FileInv'
    BY TypeNext, RefsNext, FreeNext, CallNext, EndsNext, InodesNext, Zenon DEF FileInv

\* The inductive invariant of the file table: file.c, and the system calls that
\* allocate, share and close files.
THEOREM FileInvariant == FileSpec => []FileInv
    BY InvInit, InvNext, PTL DEF FileSpec

\* ref of a file, which filealloc(), filedup() and fileclose() keep, is the
\* number of descriptors and local variables of system calls that name it,
\* however many processes open, duplicate, fork, close and exit at once.
THEOREM RefsAreExact == FileSpec => []RefsExact
<1>1. FileInv => RefsExact
    BY DEF FileInv
<1>2. QED
    BY <1>1, FileInvariant, PTL

\* The copy that fileclose() takes before it clears the entry is closed exactly
\* once, although filealloc() may give the entry away in between: each end of a
\* pipe by pipeclose(), each reference to an inode by iput().
THEOREM FilesClosedOnce == FileSpec => []ClosedOnce
<1>1. FileInv => ClosedOnce
    BY DEF FileInv, ClosedOnce
<1>2. QED
    BY <1>1, FileInvariant, PTL
=============================================================================
