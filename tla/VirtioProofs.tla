---------------------------- MODULE VirtioProofs ----------------------------
(***************************************************************************)
(* Proofs about module VirtioDisk, for any number of descriptors,          *)
(* processes and kinds of request: every step keeps what the invariant     *)
(* says of types, locks, descriptor chains and the requests they stand     *)
(* for, and keeps both rings right.                                        *)
(***************************************************************************)
EXTENDS VirtioDisk, ModuloProofs, FiniteSetTheorems

\* Requests the device has not carried out, and those it has carried out but
\* virtio_disk_intr() has not seen, each by the head of its chain.
Unserved == {p \in InFlight : disk[p] = 1 /\ served[p] = <<>>}
Served == {p \in InFlight : disk[p] = 1 /\ served[p] # <<>>}
Heads(S) == {idx0[p] : p \in S}

\* The part of the available ring that the device has not read, counted from
\* seen; the entry rw_fill() has written is in it before avail->idx moves.
Pending == (avail_idx - seen) % IDX
Publishing == \E p \in Procs : pc[p] = "publish"
Waiting == {k \in Desc : k < Pending \/ (k = Pending /\ Publishing)}
Avail(k) == ring[(seen + k) % NUM]

\* The part of the used ring that virtio_disk_intr() has not read.
Reported == (used_idx_dev - used_idx) % IDX
Unread == {k \in Desc : k < Reported}
Used(k) == used[(used_idx + k) % NUM]

\* vdisk_lock is held by the process that fills the ring, or the handler.
LockInv ==
    /\ \A p \in Procs : lock = p <=> pc[p] = "publish"
    /\ lock = Intr <=> hpc # "off"

\* The descriptors of a request say what its caller asked for.
Formatted(p) ==
    LET h == idx0[p] IN
    /\ next[h] \in Desc /\ next[next[h]] \in Desc
    /\ addr[h] = <<"ops", h>> /\ addr[next[h]] = <<"data", p>>
    /\ addr[next[next[h]]] = <<"status", h>>
    /\ ops[h] = <<type[p], p>>
    /\ info[h] = p

\* Chains are as virtio_disk_rw() left them, and share nothing; free descriptors
\* are as free_desc() left them.
ChainInv ==
    /\ addr = [i \in Desc |-> addr[i]]
    /\ ops = [i \in Desc |-> ops[i]]
    /\ \A p \in InFlight : Formatted(p)
    /\ \A p, q \in InFlight : p # q => Chain(idx0[p]) \intersect Chain(idx0[q]) = {}
    /\ Desc \ Free = UNION {Chain(idx0[p]) : p \in InFlight}
    /\ \A i \in Free : addr[i] = None /\ next[i] = None

\* What has been done for each process.
ServedInv ==
    /\ served \in [Procs -> Seq(Types \X Procs)]
    /\ \A p \in Procs \ InFlight : disk[p] = 0 /\ served[p] = <<>>
    /\ \A p \in InFlight :
          /\ served[p] \in {<<>>, << <<type[p], p>> >>}
          /\ disk[p] = 0 => served[p] # <<>>
          /\ pc[p] = "publish" => disk[p] = 1 /\ served[p] = <<>>
          /\ pc[p] = "wait" => disk[p] = 1

\* The unread part of the available ring and the device between them have every
\* request not carried out, each once.
AvailInv ==
    /\ Pending <= NUM /\ (Publishing => Pending < NUM)
    /\ \A p \in Procs : pc[p] = "publish" => Avail(Pending) = idx0[p]
    /\ \A j, k \in Waiting : Avail(j) = Avail(k) => j = k
    /\ {Avail(k) : k \in Waiting} \intersect busy = {}
    /\ {Avail(k) : k \in Waiting} \union busy = Heads(Unserved)

\* The unread part of the used ring has every other one, each once.
UsedInv ==
    /\ Reported <= NUM
    /\ \A j, k \in Unread : Used(j) = Used(k) => j = k
    /\ {Used(k) : k \in Unread} = Heads(Served)

\* The device has asked for an interrupt if there is something to see.
IrqInv == used_idx # used_idx_dev => irq = 1 \/ hpc # "off"

VirtioInv ==
    TypeOK /\ LockInv /\ ChainInv /\ ServedInv /\ AvailInv /\ UsedInv /\ IrqInv

-----------------------------------------------------------------------------
(* Types *)

\* virtio_disk_init() gives every variable its type.
LEMMA TypeInit == Init => TypeOK
BY VirtioAssumption DEF Init, TypeOK, Desc

\* Ring indices stay indices.
LEMMA Wraps ==
    ASSUME NEW i \in 0 .. IDX - 1
    PROVE  /\ (i + 1) % IDX \in 0 .. IDX - 1
           /\ i % NUM \in Desc
BY VirtioAssumption DEF Desc

\* Every action of the driver, the handler and the device keeps the types.
LEMMA TypeNext ==
    ASSUME TypeOK, [Next]_vars
    PROVE  TypeOK'
<1> USE DEF TypeOK
<1>1. ASSUME NEW p \in Procs, NEW t \in Types, rw_call(p, t) PROVE TypeOK'
    BY <1>1 DEF rw_call, drivervars, devvars
<1>2. ASSUME NEW p \in Procs, rw_fill(p) PROVE TypeOK'
  <2>1. PICK i, j, k \in Free : Format(p, i, j, k)
    BY <1>2 DEF rw_fill
  <2>2. i \in Desc /\ j \in Desc /\ k \in Desc
    BY DEF Free
  <2>3. free' \in [Desc -> {0, 1}] /\ next' \in [Desc -> Desc \union {None}]
    BY <2>1, <2>2 DEF Format
  <2>4. /\ info' \in [Desc -> Procs \union {None}]
        /\ ring' \in [Desc -> Desc] /\ idx0' \in [Procs -> Desc]
    BY <2>1, <2>2, Zenon DEF Format
  <2>5. status' \in [Desc -> 0 .. 255]
    BY <2>1, <2>2 DEF Format
  <2>6. QED
    BY <1>2, <2>3, <2>4, <2>5, Zenon DEF rw_fill, devvars
<1>3. ASSUME NEW p \in Procs, rw_no_desc(p) PROVE TypeOK'
    BY <1>3 DEF rw_no_desc, GivenBack, devvars, WakeAlloc
<1>4. ASSUME NEW p \in Procs, rw_publish(p) PROVE TypeOK'
    BY <1>4, Wraps DEF rw_publish, devvars
<1>5. ASSUME NEW p \in Procs, rw_again(p) PROVE TypeOK'
    BY <1>5 DEF rw_again, drivervars, devvars
<1>6. ASSUME NEW p \in Procs, rw_return(p) PROVE TypeOK'
  <2>1. "IN" \in Types /\ 0 \in Desc
    BY VirtioAssumption DEF Desc
  <2>2. QED
    BY <1>6, <2>1 DEF rw_return, WakeAlloc
<1>7. ASSUME NEW p \in Procs, kill(p) PROVE TypeOK'
    BY <1>7 DEF kill, drivervars, devvars
<1>8. CASE intr_ack
    BY <1>8 DEF intr_ack, drivervars, procvars, devvars
<1>9. CASE intr_entry
  <2>1. disk' \in [Procs -> {0, 1}]
    BY <1>9, Zenon DEF intr_entry
  <2>2. pc' \in [Procs -> {"idle", "alloc", "no_desc", "publish", "wait", "woken"}]
    BY <1>9, Zenon DEF intr_entry
  <2>3. used_idx' \in 0 .. IDX - 1
    BY <1>9, Wraps DEF intr_entry
  <2>4. /\ UNCHANGED <<free, next, info, status, ring, used, avail_idx, used_idx_dev, seen>>
        /\ UNCHANGED <<lock, type, idx0, irq, hpc, busy>>
    BY <1>9 DEF intr_entry, drivervars, devvars
  <2>5. QED
    BY <2>1, <2>2, <2>3, <2>4
<1>10. CASE intr_panic
    BY <1>10 DEF intr_panic, drivervars, procvars, devvars
<1>11. CASE intr_done
    BY <1>11 DEF intr_done, drivervars, procvars, devvars
<1>12. CASE dev_fetch
  <2>1. ring[seen % NUM] \in Desc
    BY Wraps
  <2>2. QED
    BY <1>12, <2>1, Wraps DEF dev_fetch, drivervars, procvars
<1>13. ASSUME NEW h \in Desc, NEW s \in Statuses, dev_finish(h, s) PROVE TypeOK'
  <2>1. s \in 0 .. 255
    BY VirtioAssumption
  <2>2. status' \in [Desc -> 0 .. 255]
    BY <1>13, <2>1, Zenon DEF dev_finish
  <2>3. used' \in [Desc -> Desc] /\ used_idx_dev' \in 0 .. IDX - 1
    BY <1>13, Wraps DEF dev_finish
  <2>4. QED
    BY <1>13, <2>2, <2>3, SMTT(30) DEF dev_finish, drivervars, procvars
<1>14. CASE UNCHANGED vars
    BY <1>14 DEF vars, drivervars, procvars, devvars
<1>15. QED
    BY <1>1, <1>2, <1>3, <1>4, <1>5, <1>6, <1>7, <1>8, <1>9, <1>10, <1>11, <1>12, <1>13, <1>14, Zenon
    DEF Next, Driver, Handler, Device

-----------------------------------------------------------------------------
(* The lock, the interrupt, and steps that concern no request *)

\* vdisk_lock has one holder, and sleep() gives it up.
LEMMA LockNext ==
    ASSUME TypeOK, LockInv, [Next]_vars
    PROVE  LockInv'
<1> USE DEF TypeOK, LockInv
<1>0. None \notin Procs /\ Intr \notin Procs /\ Intr # None
    BY VirtioAssumption
<1>1. ASSUME NEW p \in Procs, NEW t \in Types, rw_call(p, t) PROVE LockInv'
    BY <1>1 DEF rw_call
<1>2. ASSUME NEW p \in Procs, rw_fill(p) PROVE LockInv'
    BY <1>0, <1>2 DEF rw_fill
<1>3. ASSUME NEW p \in Procs, rw_no_desc(p) PROVE LockInv'
    BY <1>0, <1>3 DEF rw_no_desc, WakeAlloc
<1>4. ASSUME NEW p \in Procs, rw_publish(p) PROVE LockInv'
    BY <1>0, <1>4 DEF rw_publish
<1>5. ASSUME NEW p \in Procs, rw_again(p) PROVE LockInv'
    BY <1>5 DEF rw_again
<1>6. ASSUME NEW p \in Procs, rw_return(p) PROVE LockInv'
    BY <1>6 DEF rw_return, WakeAlloc
<1>7. ASSUME NEW p \in Procs, kill(p) PROVE LockInv'
    BY <1>7 DEF kill
<1>8. CASE intr_ack
    BY <1>0, <1>8 DEF intr_ack, procvars
<1>9. CASE intr_entry
    BY <1>9 DEF intr_entry
<1>10. CASE intr_panic
    BY <1>10 DEF intr_panic, procvars
<1>11. CASE intr_done
    BY <1>0, <1>11 DEF intr_done, procvars
<1>12. CASE dev_fetch
    BY <1>12 DEF dev_fetch, procvars
<1>13. ASSUME NEW h \in Desc, NEW s \in Statuses, dev_finish(h, s) PROVE LockInv'
    BY <1>13 DEF dev_finish, procvars
<1>14. CASE UNCHANGED vars
    BY <1>14 DEF vars, procvars
<1>15. QED
    BY <1>1, <1>2, <1>3, <1>4, <1>5, <1>6, <1>7, <1>8, <1>9, <1>10, <1>11, <1>12, <1>13, <1>14
    DEF Next, Driver, Handler, Device

\* virtio_disk_intr() acknowledges the interrupt before it looks at used->idx,
\* so what the device adds later raises another.
LEMMA IrqNext ==
    ASSUME TypeOK, IrqInv, [Next]_vars
    PROVE  IrqInv'
<1> USE DEF TypeOK, IrqInv
<1>1. ASSUME NEW p \in Procs, Driver(p) \/ kill(p) \/ \E t \in Types : rw_call(p, t) PROVE IrqInv'
    BY <1>1
    DEF Driver, rw_call, rw_fill, rw_no_desc, rw_publish, rw_again, rw_return, kill, devvars
<1>2. CASE Handler
    BY <1>2 DEF Handler, intr_ack, intr_entry, intr_panic, intr_done, devvars
<1>3. CASE Device
    BY <1>3, Zenon DEF Device, dev_fetch, dev_finish
<1>4. CASE UNCHANGED vars
    BY <1>4 DEF vars, devvars
<1>5. QED
    BY <1>1, <1>2, <1>3, <1>4 DEF Next

\* A step that concerns no request in flight.
Quiet ==
    /\ UNCHANGED <<free, addr, next, ops, info, ring, avail_idx, used_idx, disk, idx0>>
    /\ UNCHANGED <<used, used_idx_dev, seen, busy, served>>
    /\ InFlight' = InFlight
    /\ \A p \in Procs :
          /\ pc'[p] = "publish" <=> pc[p] = "publish"
          /\ p \in InFlight => type'[p] = type[p]
          /\ pc'[p] = "wait" => pc[p] = "wait" \/ disk[p] = 1

\* The steps that do concern one.
LEMMA Steps ==
    ASSUME TypeOK, ChainInv, [Next]_vars
    PROVE  \/ Quiet
           \/ \E p \in Procs : rw_fill(p) \/ rw_publish(p) \/ rw_return(p)
           \/ intr_entry \/ dev_fetch
           \/ \E h \in Desc, s \in Statuses : dev_finish(h, s)
<1> USE DEF TypeOK, InFlight, drivervars, procvars, devvars
<1>1. ASSUME NEW p \in Procs, NEW t \in Types, rw_call(p, t) PROVE Quiet
    BY <1>1 DEF rw_call, Quiet
<1>2. ASSUME NEW p \in Procs, rw_no_desc(p) PROVE Quiet
  <2>1. UNCHANGED <<free, addr, next>>
    BY <1>2 DEF rw_no_desc, GivenBack, Free, ChainInv
  <2>2. QED
    BY <1>2, <2>1 DEF rw_no_desc, WakeAlloc, Quiet
<1>3. ASSUME NEW p \in Procs, rw_again(p) PROVE Quiet
    BY <1>3 DEF rw_again, Quiet
<1>4. ASSUME NEW p \in Procs, kill(p) PROVE Quiet
    BY <1>4 DEF kill, Quiet
<1>5. CASE intr_ack \/ intr_panic \/ intr_done
    BY <1>5 DEF intr_ack, intr_panic, intr_done, Quiet
<1>6. CASE UNCHANGED vars
    BY <1>6 DEF vars, Quiet
<1>7. QED
    BY <1>1, <1>2, <1>3, <1>4, <1>5, <1>6 DEF Next, Driver, Handler, Device

-----------------------------------------------------------------------------
(* Chains *)

\* The descriptors of a request are descriptors, and none of them is free.
LEMMA ChainTaken ==
    ASSUME TypeOK, ChainInv, NEW p \in InFlight
    PROVE  /\ p \in Procs /\ idx0[p] \in Desc
           /\ Chain(idx0[p]) \subseteq Desc \ Free
<1>1. p \in Procs /\ idx0[p] \in Desc
    BY DEF InFlight, TypeOK
<1>2. Chain(idx0[p]) \subseteq Desc \ Free
    BY DEF ChainInv
<1>3. QED
    BY <1>1, <1>2

\* A chain of which nothing is written stays as it is.
LEMMA ChainKept ==
    ASSUME TypeOK, ChainInv, NEW q \in InFlight, NEW D,
           Chain(idx0[q]) \intersect D = {},
           \A i \in Desc \ D : /\ next'[i] = next[i] /\ addr'[i] = addr[i]
                               /\ ops'[i] = ops[i] /\ info'[i] = info[i],
           idx0'[q] = idx0[q], type'[q] = type[q]
    PROVE  Formatted(q)' /\ Chain(idx0[q])' = Chain(idx0[q])
<1> DEFINE h == idx0[q]
           j == next[h]
           k == next[j]
<1>1. h \in Desc /\ j \in Desc /\ k \in Desc
    BY ChainTaken, Zenon DEF ChainInv, Formatted
<1>2. h \notin D /\ j \notin D /\ k \notin D
    BY DEF Chain
<1>3. idx0'[q] = h /\ next'[h] = j /\ next'[j] = k
    BY <1>1, <1>2
<1>4. addr'[h] = addr[h] /\ addr'[j] = addr[j] /\ addr'[k] = addr[k]
    BY <1>1, <1>2
<1>5. ops'[h] = ops[h] /\ info'[h] = info[h]
    BY <1>1, <1>2
<1>6. /\ addr[h] = <<"ops", h>> /\ addr[j] = <<"data", q>> /\ addr[k] = <<"status", h>>
      /\ ops[h] = <<type[q], q>> /\ info[h] = q
    BY Zenon DEF ChainInv, Formatted
<1>7. Chain(idx0[q])' = {h, j, k}
    BY <1>3 DEF Chain
<1>8. Chain(idx0[q]) = {h, j, k}
    BY DEF Chain
<1> HIDE DEF h, j, k
<1>9. Formatted(q)'
    BY <1>1, <1>3, <1>4, <1>5, <1>6 DEF Formatted
<1>10. QED
    BY <1>7, <1>8, <1>9

\* rw_fill() takes free descriptors for a new chain.
LEMMA FillChain ==
    ASSUME TypeOK, ChainInv, NEW p \in Procs, rw_fill(p)
    PROVE  /\ ChainInv' /\ InFlight' = InFlight \union {p} /\ p \notin InFlight
           /\ idx0'[p] \in Free
           /\ \A q \in InFlight : idx0'[q] = idx0[q]
<1>1. PICK i, j, k \in Free : Format(p, i, j, k) /\ i < j /\ j < k
    BY DEF rw_fill
<1>2. i \in Desc /\ j \in Desc /\ k \in Desc /\ i # j /\ j # k /\ i # k
    BY <1>1 DEF Free, Desc
<1>3. InFlight' = InFlight \union {p} /\ p \notin InFlight
    BY DEF rw_fill, InFlight, TypeOK
<1>4. type' = type /\ idx0'[p] = i /\ \A q \in InFlight : idx0'[q] = idx0[q]
    BY <1>1, <1>3 DEF rw_fill, Format, TypeOK, InFlight
<1> DEFINE D == {i, j, k}
<1>5. /\ next'[i] = j /\ next'[j] = k
      /\ addr'[i] = <<"ops", i>> /\ addr'[j] = <<"data", p>> /\ addr'[k] = <<"status", i>>
      /\ ops'[i] = <<type[p], p>> /\ info'[i] = p
    BY <1>1, <1>2 DEF Format, ChainInv, TypeOK
<1>6. \A l \in Desc \ D : /\ next'[l] = next[l] /\ addr'[l] = addr[l]
                          /\ ops'[l] = ops[l] /\ info'[l] = info[l]
    BY <1>1, <1>2 DEF Format, ChainInv, TypeOK
<1>7. Free' = Free \ D
    BY <1>1, <1>2 DEF Format, Free, TypeOK
<1>8. Formatted(p)' /\ Chain(idx0[p])' = D
    BY <1>2, <1>4, <1>5 DEF Formatted, Chain
<1>9. ASSUME NEW q \in InFlight
      PROVE  Formatted(q)' /\ Chain(idx0[q])' = Chain(idx0[q]) /\ Chain(idx0[q]) \intersect D = {}
  <2>1. Chain(idx0[q]) \intersect D = {}
    BY ChainTaken, <1>1
  <2> HIDE DEF D
  <2>2. QED
    BY <1>4, <1>6, <2>1, ChainKept, Zenon
<1>10. addr' = [l \in Desc |-> addr'[l]] /\ ops' = [l \in Desc |-> ops'[l]]
    BY <1>1, Zenon DEF Format, ChainInv
<1>11. Desc \ Free' = (UNION {Chain(idx0[q]) : q \in InFlight}) \union D
    BY <1>2, <1>7 DEF ChainInv
<1> HIDE DEF D
<1>12. (UNION {Chain(idx0[q]) : q \in InFlight})' = (UNION {Chain(idx0[q]) : q \in InFlight}) \union D
    BY <1>3, <1>8, <1>9
<1>13. (\A q, r \in InFlight : q # r => Chain(idx0[q]) \intersect Chain(idx0[r]) = {})'
    BY <1>3, <1>8, <1>9 DEF ChainInv
<1>14. (\A l \in Free : addr[l] = None /\ next[l] = None)'
    BY <1>6, <1>7 DEF ChainInv, Free, D
<1>15. QED
    BY <1>1, <1>3, <1>4, <1>8, <1>9, <1>10, <1>11, <1>12, <1>13, <1>14, Zenon DEF ChainInv

\* free_chain() gives back the chain of the request and no other descriptor.
LEMMA ReturnChain ==
    ASSUME TypeOK, ChainInv, NEW p \in Procs, rw_return(p)
    PROVE  /\ ChainInv' /\ InFlight' = InFlight \ {p} /\ p \in InFlight
           /\ \A q \in InFlight' : idx0'[q] = idx0[q] /\ type'[q] = type[q]
<1> DEFINE D == Chain(idx0[p])
<1>1. InFlight' = InFlight \ {p} /\ p \in InFlight
    BY DEF rw_return, InFlight, TypeOK, WakeAlloc
<1>2. \A q \in InFlight \ {p} : idx0'[q] = idx0[q] /\ type'[q] = type[q]
    BY DEF rw_return, TypeOK, InFlight
<1>3. /\ free' = [i \in Desc |-> IF i \in D THEN 1 ELSE free[i]]
      /\ addr' = [i \in Desc |-> IF i \in D THEN None ELSE addr[i]]
      /\ next' = [i \in Desc |-> IF i \in D THEN None ELSE next[i]]
      /\ info' = [info EXCEPT ![idx0[p]] = None] /\ ops' = ops
    BY DEF rw_return
<1>4. D \subseteq Desc \ Free /\ idx0[p] \in D
    BY <1>1, ChainTaken DEF Chain
<1> HIDE DEF D
<1>5. \A l \in Desc \ D : /\ next'[l] = next[l] /\ addr'[l] = addr[l]
                          /\ ops'[l] = ops[l] /\ info'[l] = info[l]
    BY <1>3, <1>4 DEF TypeOK
<1>6. Free' = Free \union D
    BY <1>3, <1>4 DEF Free
<1>7. ASSUME NEW q \in InFlight, q # p
      PROVE  Formatted(q)' /\ Chain(idx0[q])' = Chain(idx0[q]) /\ Chain(idx0[q]) \intersect D = {}
  <2>1. Chain(idx0[q]) \intersect D = {}
    BY <1>1, <1>7 DEF ChainInv, D
  <2>2. QED
    BY <1>2, <1>5, <1>7, <2>1, ChainKept, Zenon
<1>8. addr' = [l \in Desc |-> addr'[l]] /\ ops' = [l \in Desc |-> ops'[l]]
    BY <1>3 DEF ChainInv
<1>9. UNION {Chain(idx0[q]) : q \in InFlight} = (UNION {Chain(idx0[q]) : q \in InFlight \ {p}}) \union D
    BY <1>1 DEF D
<1>10. (UNION {Chain(idx0[q]) : q \in InFlight})' = UNION {Chain(idx0[q]) : q \in InFlight \ {p}}
    BY <1>1, <1>7
<1>11. Desc \ Free' = (Desc \ Free) \ D
    BY <1>6
<1>12. \A q \in InFlight \ {p} : Chain(idx0[q]) \intersect D = {}
    BY <1>7
<1>13. Desc \ Free' = UNION {Chain(idx0[q]) : q \in InFlight \ {p}}
    BY <1>9, <1>11, <1>12 DEF ChainInv
<1>14. (\A q, r \in InFlight : q # r => Chain(idx0[q]) \intersect Chain(idx0[r]) = {})'
    BY <1>1, <1>7 DEF ChainInv
<1>15. (\A l \in Free : addr[l] = None /\ next[l] = None)'
    BY <1>3, <1>5, <1>6 DEF ChainInv, Free
<1>16. QED
    BY <1>1, <1>2, <1>7, <1>8, <1>10, <1>13, <1>14, <1>15, Zenon DEF ChainInv

\* The other steps leave the chains alone.
LEMMA ChainSame ==
    ASSUME TypeOK, ChainInv, UNCHANGED <<free, addr, next, ops, info, idx0>>, InFlight' = InFlight,
           \A p \in InFlight : type'[p] = type[p]
    PROVE  ChainInv'
<1>1. ASSUME NEW q \in InFlight PROVE Formatted(q)' /\ Chain(idx0[q])' = Chain(idx0[q])
    BY Zenon DEF ChainInv, Formatted, Chain
<1>2. Free' = Free
    BY DEF Free
<1>3. (UNION {Chain(idx0[q]) : q \in InFlight})' = UNION {Chain(idx0[q]) : q \in InFlight}
    BY <1>1
<1>4. (\A q, r \in InFlight : q # r => Chain(idx0[q]) \intersect Chain(idx0[r]) = {})'
    BY <1>1 DEF ChainInv
<1>5. QED
    BY <1>1, <1>2, <1>3, <1>4 DEF ChainInv

\* What the steps between rw_fill() and rw_return() leave of a request.
LEMMA Carried ==
    ASSUME TypeOK,
           \/ \E p \in Procs : rw_publish(p)
           \/ intr_entry \/ dev_fetch
           \/ \E h \in Desc, s \in Statuses : dev_finish(h, s)
    PROVE  /\ UNCHANGED <<free, addr, next, ops, info, idx0, type, ring>>
           /\ InFlight' = InFlight
<1> USE DEF TypeOK, InFlight, drivervars, procvars, devvars
<1>1. ASSUME NEW p \in Procs, rw_publish(p) PROVE InFlight' = InFlight
    BY <1>1 DEF rw_publish
<1>2. CASE intr_entry
  <2>1. \A p \in Procs : pc'[p] = pc[p] \/ (pc[p] = "wait" /\ pc'[p] = "woken")
    BY <1>2 DEF intr_entry
  <2>2. UNCHANGED <<free, addr, next, ops, info, idx0, type, ring>>
    BY <1>2 DEF intr_entry
  <2>3. QED
    BY <2>1, <2>2
<1>3. CASE dev_fetch \/ \E h \in Desc, s \in Statuses : dev_finish(h, s)
    BY <1>3, Zenon DEF dev_fetch, dev_finish
<1>4. ASSUME NEW p \in Procs, rw_publish(p)
      PROVE  UNCHANGED <<free, addr, next, ops, info, idx0, type, ring>>
    BY <1>4 DEF rw_publish
<1>5. QED
    BY <1>1, <1>2, <1>3, <1>4

\* Every step keeps the chains apart.
LEMMA ChainNext ==
    ASSUME TypeOK, ChainInv, [Next]_vars
    PROVE  ChainInv'
<1>1. CASE Quiet
    BY <1>1, ChainSame, Zenon DEF Quiet, InFlight
<1>2. CASE \/ \E p \in Procs : rw_publish(p)
           \/ intr_entry \/ dev_fetch
           \/ \E h \in Desc, s \in Statuses : dev_finish(h, s)
    BY <1>2, Carried, ChainSame
<1>3. QED
    BY <1>1, <1>2, Steps, FillChain, ReturnChain

\* Two requests have two heads.
LEMMA HeadsDistinct ==
    ASSUME TypeOK, ChainInv, NEW p \in InFlight, NEW q \in InFlight, idx0[p] = idx0[q]
    PROVE  p = q
BY Zenon DEF ChainInv, Chain

-----------------------------------------------------------------------------
(* The rings *)

\* A ring of P places has them all apart.
LEMMA PlacesApart ==
    ASSUME NEW P \in Int, P > 0, NEW r \in Int, NEW c \in Nat, c < P
    PROVE  /\ (r + c) % P \in 0 .. P - 1
           /\ \A k \in Nat : k < c => /\ (r + k) % P \in 0 .. P - 1
                                      /\ (r + k) % P # (r + c) % P
<1>1. ASSUME NEW k \in Nat PROVE (r + k) % P \in 0 .. P - 1
  <2>1. r + k \in Int
    OBVIOUS
  <2>2. (r + k) % P \in Int /\ 0 <= (r + k) % P /\ (r + k) % P < P
    BY <2>1, DivMod, Zenon
  <2>3. QED
    BY <2>2
<1>2. ASSUME NEW k \in Nat, k < c PROVE (r + k) % P # (r + c) % P
  <2>1. r + k \in Int /\ r + c \in Int /\ r + k <= r + c /\ r + c < r + k + P /\ r + k # r + c
    BY <1>2
  <2>2. QED
    BY <2>1, ModDistinct, Zenon
<1>3. QED
    BY <1>1, <1>2, Zenon

\* Of a ring that is not full, the place after the last entry is not in use.
LEMMA RingFree ==
    ASSUME NEW U, NEW P, NEW r, NEW w, Ring(U, P, r, w), (w - r) % U < P
    PROVE  /\ w % P = (r + ((w - r) % U)) % P /\ w % P \in 0 .. P - 1
           /\ \A k \in Nat : k < (w - r) % U => /\ (r + k) % P \in 0 .. P - 1
                                               /\ (r + k) % P # w % P
<1> DEFINE c == (w - r) % U
<1>1. c \in Nat /\ c < P /\ w % P = (r + c) % P
    BY RingCount, RingPlace
<1>2. P \in Int /\ P > 0 /\ r \in Int
    BY DEF Ring
<1> HIDE DEF c
<1>3. /\ (r + c) % P \in 0 .. P - 1
      /\ \A k \in Nat : k < c => /\ (r + k) % P \in 0 .. P - 1
                                 /\ (r + k) % P # (r + c) % P
    BY <1>1, <1>2, PlacesApart, Zenon
<1>4. QED
    BY <1>1, <1>3, Zenon DEF c

\* Both rings are rings in the sense of ModuloProofs.
LEMMA Rings ==
    ASSUME TypeOK
    PROVE  Ring(IDX, NUM, seen, avail_idx) /\ Ring(IDX, NUM, used_idx, used_idx_dev)
BY VirtioAssumption DEF TypeOK, Ring

\* Places of the rings are entries of the arrays.
LEMMA Places ==
    ASSUME TypeOK, NEW k \in Nat
    PROVE  (seen + k) % NUM \in Desc /\ (used_idx + k) % NUM \in Desc
<1>1. NUM \in Int /\ NUM > 0 /\ seen + k \in Int /\ used_idx + k \in Int
    BY VirtioAssumption DEF TypeOK
<1>2. \A x \in Int : x % NUM \in Desc
    BY <1>1, DivMod DEF Desc
<1>3. QED
    BY <1>1, <1>2

\* The entries in use of the available ring, by their places.
LEMMA WaitingIs ==
    ASSUME TypeOK, AvailInv
    PROVE  /\ Pending \in Nat
           /\ ~Publishing => Waiting = 0 .. Pending - 1
           /\ Publishing => Waiting = 0 .. Pending
           /\ \A k \in Waiting : Avail(k) \in Desc
<1>1. Pending \in Nat
    BY Rings, RingCount DEF Pending
<1>2. \A k \in Waiting : Avail(k) \in Desc
  <2>1. Waiting \subseteq Nat
    BY VirtioAssumption DEF Waiting, Desc
  <2>2. QED
    BY <2>1, Places DEF Avail, TypeOK
<1>3. QED
    BY <1>1, <1>2, VirtioAssumption DEF Waiting, AvailInv, Desc

\* ... and those of the used ring.
LEMMA UnreadIs ==
    ASSUME TypeOK, UsedInv
    PROVE  /\ Reported \in Nat
           /\ Unread = 0 .. Reported - 1
           /\ \A k \in Unread : Used(k) \in Desc
<1>1. Reported \in Nat
    BY Rings, RingCount DEF Reported
<1>2. \A k \in Unread : Used(k) \in Desc
  <2>1. Unread \subseteq Nat
    BY VirtioAssumption DEF Unread, Desc
  <2>2. QED
    BY <2>1, Places DEF Used, TypeOK
<1>3. QED
    BY <1>1, <1>2, VirtioAssumption DEF Unread, UsedInv, Desc

-----------------------------------------------------------------------------
(* What has been done *)

\* The entry virtio_disk_intr() reads is a request that was carried out.
LEMMA EntryIs ==
    ASSUME TypeOK, ChainInv, UsedInv, intr_entry
    PROVE  /\ Reported > 0
           /\ \E p \in Served :
                 /\ Used(0) = idx0[p]
                 /\ disk' = [disk EXCEPT ![p] = 0]
                 /\ pc' = [pc EXCEPT ![p] = IF @ = "wait" THEN "woken" ELSE @]
<1>1. Reported > 0 /\ 0 \in Unread
  <2>1. used_idx # used_idx_dev
    BY DEF intr_entry
  <2>2. Reported # 0
    BY <2>1, Rings, RingCount DEF Reported
  <2>3. QED
    BY <2>2, UnreadIs
<1>2. PICK p \in Served : Used(0) = idx0[p]
    BY <1>1 DEF UsedInv, Heads
<1>3. used[used_idx % NUM] = idx0[p]
    BY <1>2 DEF Used, TypeOK
<1>4. info[idx0[p]] = p
    BY DEF ChainInv, Formatted, Served
<1>5. QED
    BY <1>1, <1>2, <1>3, <1>4, Zenon DEF intr_entry

\* What the device finishes is a request it has not carried out before.
LEMMA FinishIs ==
    ASSUME TypeOK, ChainInv, AvailInv, NEW h \in Desc, NEW s \in Statuses, dev_finish(h, s)
    PROVE  \E p \in Unserved :
              /\ h = idx0[p] /\ pc[p] # "publish"
              /\ served' = [served EXCEPT ![p] = Append(@, <<type[p], p>>)]
<1>1. h \in busy
    BY DEF dev_finish
<1>2. PICK p \in Unserved : h = idx0[p]
    BY <1>1 DEF AvailInv, Heads
<1>3. p \in InFlight /\ p \in Procs
    BY DEF Unserved, InFlight
<1>4. pc[p] # "publish"
  <2>1. ASSUME pc[p] = "publish" PROVE Pending \in Waiting /\ Avail(Pending) = h
    BY <1>2, <1>3, <2>1, WaitingIs DEF AvailInv, Publishing
  <2>2. QED
    BY <1>1, <2>1 DEF AvailInv
<1>5. addr[h] = <<"ops", h>> /\ addr[next[h]] = <<"data", p>> /\ ops[h] = <<type[p], p>>
    BY <1>2, <1>3 DEF ChainInv, Formatted
<1>6. ops[addr[h][2]] = <<type[p], p>> /\ addr[next[h]][2] = p
  <2>1. <<"ops", h>>[2] = h /\ <<"data", p>>[2] = p
    OBVIOUS
  <2>2. QED
    BY <1>5, <2>1, Zenon
<1>7. served' = [served EXCEPT ![p] = Append(@, <<type[p], p>>)]
    BY <1>6, Zenon DEF dev_finish
<1>8. QED
    BY <1>2, <1>4, <1>7, Zenon

\* b->disk is cleared, and the caller runs, only after the transfer.
LEMMA ServedNext ==
    ASSUME TypeOK, TypeOK', LockInv, ChainInv, ServedInv, AvailInv, UsedInv, [Next]_vars
    PROVE  ServedInv'
<1>0. \A p \in Procs \ InFlight : pc[p] \in {"idle", "alloc", "no_desc"}
    BY DEF InFlight, TypeOK
<1>1. CASE Quiet
    BY <1>1 DEF Quiet, ServedInv, InFlight, TypeOK
<1>2. ASSUME NEW p \in Procs, rw_fill(p) PROVE ServedInv'
  <2>1. InFlight' = InFlight \union {p} /\ p \notin InFlight
    BY <1>2, FillChain
  <2>2. served' = served /\ type' = type
    BY <1>2 DEF rw_fill, devvars
  <2>3. /\ pc' = [pc EXCEPT ![p] = "publish"] /\ disk' = [disk EXCEPT ![p] = 1]
    BY <1>2 DEF rw_fill
  <2>4. served'[p] = <<>> /\ disk'[p] = 1 /\ pc'[p] = "publish"
    BY <2>1, <2>2, <2>3 DEF ServedInv, TypeOK
  <2>5. \A q \in Procs \ {p} : pc'[q] = pc[q] /\ disk'[q] = disk[q]
    BY <2>3 DEF TypeOK
  <2>6. \A q \in InFlight : q # p /\ q \in Procs
    BY <2>1 DEF InFlight
  <2>7. \A q \in Procs : q \notin InFlight' => q \notin InFlight /\ q # p
    BY <2>1
  <2>8. \A q \in Procs : q \notin InFlight' => disk'[q] = 0 /\ served'[q] = <<>>
    BY <2>2, <2>5, <2>7 DEF ServedInv
  <2>9. \A q \in InFlight :
           /\ served'[q] \in {<<>>, << <<type'[q], q>> >>}
           /\ disk'[q] = 0 => served'[q] # <<>>
           /\ pc'[q] = "publish" => disk'[q] = 1 /\ served'[q] = <<>>
           /\ pc'[q] = "wait" => disk'[q] = 1
    BY <2>2, <2>5, <2>6 DEF ServedInv
  <2>10. QED
    BY <2>1, <2>2, <2>4, <2>8, <2>9, SMTT(30) DEF ServedInv
<1>3. ASSUME NEW p \in Procs, rw_publish(p) PROVE ServedInv'
  <2>1. InFlight' = InFlight /\ type' = type
    BY <1>3, Carried
  <2>2. served' = served /\ disk' = disk /\ pc' = [pc EXCEPT ![p] = "wait"]
    BY <1>3 DEF rw_publish, devvars
  <2>3. p \in InFlight /\ disk[p] = 1 /\ pc'[p] = "wait"
    BY <1>3, <2>2 DEF rw_publish, InFlight, ServedInv, TypeOK
  <2>4. \A q \in Procs \ {p} : pc'[q] = pc[q]
    BY <2>2 DEF TypeOK
  <2>5. QED
    BY <2>1, <2>2, <2>3, <2>4 DEF ServedInv, InFlight
<1>4. ASSUME NEW p \in Procs, rw_return(p) PROVE ServedInv'
  <2>1. /\ InFlight' = InFlight \ {p} /\ p \in InFlight
        /\ \A q \in InFlight' : type'[q] = type[q]
    BY <1>4, ReturnChain
  <2>2. disk' = disk /\ disk[p] = 0 /\ served' = [served EXCEPT ![p] = <<>>]
    BY <1>4 DEF rw_return
  <2>3. \A q \in InFlight \ {p} : pc'[q] = pc[q]
    BY <1>4, Zenon DEF rw_return, WakeAlloc, InFlight, TypeOK
  <2>4. served'[p] = <<>> /\ \A q \in Procs \ {p} : served'[q] = served[q]
    BY <2>2 DEF ServedInv
  <2>5. served' \in [Procs -> Seq(Types \X Procs)]
    BY <2>2 DEF ServedInv
  <2>6. QED
    BY <2>1, <2>2, <2>3, <2>4, <2>5 DEF ServedInv
<1>5. CASE intr_entry
  <2>1. InFlight' = InFlight /\ type' = type
    BY <1>5, Carried
  <2>2. served' = served
    BY <1>5 DEF intr_entry, devvars
  <2>3. PICK p \in Served :
           /\ disk' = [disk EXCEPT ![p] = 0]
           /\ pc' = [pc EXCEPT ![p] = IF @ = "wait" THEN "woken" ELSE @]
    BY <1>5, EntryIs
  <2>4. p \in InFlight /\ p \in Procs /\ served[p] # <<>>
    BY DEF Served, InFlight
  <2>5. disk'[p] = 0 /\ pc'[p] # "wait" /\ pc'[p] # "publish"
    BY <2>3, <2>4 DEF TypeOK, ServedInv
  <2>6. \A q \in Procs \ {p} : pc'[q] = pc[q] /\ disk'[q] = disk[q]
    BY <2>3 DEF TypeOK
  <2>7. QED
    BY <2>1, <2>2, <2>4, <2>5, <2>6, Zenon DEF ServedInv, InFlight
<1>6. CASE dev_fetch
  <2>1. InFlight' = InFlight /\ type' = type
    BY <1>6, Carried
  <2>2. served' = served /\ disk' = disk /\ pc' = pc
    BY <1>6 DEF dev_fetch, procvars
  <2>3. QED
    BY <2>1, <2>2 DEF ServedInv
<1>7. ASSUME NEW h \in Desc, NEW s \in Statuses, dev_finish(h, s) PROVE ServedInv'
  <2>1. InFlight' = InFlight /\ type' = type
    BY <1>7, Carried
  <2>2. disk' = disk /\ pc' = pc
    BY <1>7 DEF dev_finish, procvars
  <2>3. PICK p \in Unserved :
           pc[p] # "publish" /\ served' = [served EXCEPT ![p] = Append(@, <<type[p], p>>)]
    BY <1>7, FinishIs, Zenon
  <2>4. p \in InFlight /\ p \in Procs /\ served[p] = <<>> /\ type[p] \in Types
    BY DEF Unserved, InFlight, TypeOK
  <2>5. Append(<<>>, <<type[p], p>>) = << <<type[p], p>> >> /\ << <<type[p], p>> >> # <<>>
    OBVIOUS
  <2>6. served'[p] = << <<type[p], p>> >> /\ served'[p] # <<>>
    <3>1. served'[p] = Append(served[p], <<type[p], p>>)
      BY <2>3, <2>4, Zenon DEF ServedInv
    <3>2. QED
      BY <2>4, <2>5, <3>1, Zenon
  <2>7. \A q \in Procs \ {p} : served'[q] = served[q]
    BY <2>3, Zenon DEF ServedInv
  <2>8. served' \in [Procs -> Seq(Types \X Procs)]
    <3>1. <<type[p], p>> \in Types \X Procs
      BY <2>4, Zenon
    <3>2. Append(served[p], <<type[p], p>>) \in Seq(Types \X Procs)
      BY <3>1, <2>4
    <3>3. served \in [Procs -> Seq(Types \X Procs)]
      BY DEF ServedInv
    <3>4. QED
      BY <2>3, <2>4, <3>2, <3>3, Zenon
  <2>9. QED
    BY <2>1, <2>2, <2>3, <2>4, <2>6, <2>7, <2>8 DEF ServedInv, InFlight
<1>8. QED
    BY <1>1, <1>2, <1>3, <1>4, <1>5, <1>6, <1>7, Steps


-----------------------------------------------------------------------------
(* How requests move on *)

\* No head is free.
LEMMA HeadsTaken ==
    ASSUME TypeOK, ChainInv
    PROVE  Heads(Unserved) \union Heads(Served) \subseteq Desc \ Free
<1>1. ASSUME NEW p \in InFlight PROVE idx0[p] \in Desc \ Free
    BY ChainTaken DEF Chain
<1>2. QED
    BY <1>1 DEF Heads, Unserved, Served

\* A request is carried out or not.
LEMMA HeadsApart ==
    ASSUME TypeOK, ChainInv
    PROVE  Heads(Unserved) \intersect Heads(Served) = {}
<1>1. \A p \in Unserved, q \in Served : p \in InFlight /\ q \in InFlight /\ p # q
    BY DEF Unserved, Served
<1>2. \A p \in Unserved, q \in Served : idx0[p] # idx0[q]
    BY <1>1, HeadsDistinct
<1>3. QED
    BY <1>2 DEF Heads

\* Steps that carry nothing out and report nothing.
LEMMA HeadsSame ==
    ASSUME TypeOK, ChainInv, ServedInv,
           Quiet \/ dev_fetch \/ \E p \in Procs : rw_publish(p) \/ rw_return(p)
    PROVE  Heads(Unserved)' = Heads(Unserved) /\ Heads(Served)' = Heads(Served)
<1>1. CASE Quiet \/ dev_fetch \/ \E p \in Procs : rw_publish(p)
  <2>1. InFlight' = InFlight /\ idx0' = idx0
    BY <1>1, Carried DEF Quiet
  <2>2. disk' = disk /\ served' = served
    BY <1>1 DEF Quiet, dev_fetch, rw_publish, devvars
  <2>3. QED
    BY <2>1, <2>2 DEF Heads, Unserved, Served
<1>2. ASSUME NEW p \in Procs, rw_return(p)
      PROVE  Heads(Unserved)' = Heads(Unserved) /\ Heads(Served)' = Heads(Served)
  <2>1. InFlight' = InFlight \ {p} /\ \A q \in InFlight' : idx0'[q] = idx0[q]
    BY <1>2, ReturnChain
  <2>2. disk' = disk /\ disk[p] = 0 /\ \A q \in InFlight \ {p} : served'[q] = served[q]
    BY <1>2 DEF rw_return, ServedInv, InFlight
  <2>3. /\ Unserved' = Unserved /\ Served' = Served
        /\ Unserved \subseteq InFlight' /\ Served \subseteq InFlight'
    BY <2>1, <2>2, SMTT(30) DEF Unserved, Served
  <2>4. QED
    BY <2>1, <2>3 DEF Heads
<1>3. QED
    BY <1>1, <1>2

\* A new request.
LEMMA HeadsFill ==
    ASSUME TypeOK, ChainInv, ServedInv, NEW p \in Procs, rw_fill(p)
    PROVE  /\ Heads(Unserved)' = Heads(Unserved) \union {idx0'[p]}
           /\ Heads(Served)' = Heads(Served)
<1>1. /\ InFlight' = InFlight \union {p} /\ p \notin InFlight
      /\ \A q \in InFlight : idx0'[q] = idx0[q]
    BY FillChain
<1>2. served' = served /\ disk' = [disk EXCEPT ![p] = 1] /\ served[p] = <<>>
    BY <1>1 DEF rw_fill, devvars, ServedInv
<1>3. \A q \in InFlight : disk'[q] = disk[q]
    BY <1>1, <1>2 DEF TypeOK, InFlight
<1>4. disk'[p] = 1
    BY <1>2 DEF TypeOK
<1>5. Unserved' = Unserved \union {p} /\ Served' = Served
    BY <1>1, <1>2, <1>3, <1>4 DEF Unserved, Served
<1>6. \A q \in Unserved \union Served : idx0'[q] = idx0[q]
    BY <1>1 DEF Unserved, Served
<1>7. QED
    BY <1>5, <1>6 DEF Heads

\* A request carried out.
LEMMA HeadsFinish ==
    ASSUME TypeOK, ChainInv, ServedInv, AvailInv, NEW h \in Desc, NEW s \in Statuses, dev_finish(h, s)
    PROVE  /\ Heads(Unserved)' = Heads(Unserved) \ {h}
           /\ Heads(Served)' = Heads(Served) \union {h}
<1>1. InFlight' = InFlight /\ idx0' = idx0
    BY Carried
<1>2. disk' = disk
    BY DEF dev_finish
<1>3. PICK p \in Unserved :
         h = idx0[p] /\ served' = [served EXCEPT ![p] = Append(@, <<type[p], p>>)]
    BY FinishIs, Zenon
<1>4. p \in InFlight /\ p \in Procs /\ disk[p] = 1 /\ served[p] = <<>>
    BY DEF Unserved, InFlight
<1>5. Append(<<>>, <<type[p], p>>) # <<>>
    OBVIOUS
<1>6. served'[p] # <<>> /\ \A q \in Procs \ {p} : served'[q] = served[q]
    BY <1>3, <1>4, <1>5 DEF ServedInv
<1>7. Unserved' = Unserved \ {p} /\ Served' = Served \union {p}
    BY <1>1, <1>2, <1>4, <1>6 DEF Unserved, Served, InFlight
<1>8. \A q \in Unserved : idx0[q] = h => q = p
    BY <1>3, <1>4, HeadsDistinct DEF Unserved
<1>9. QED
    BY <1>1, <1>3, <1>7, <1>8 DEF Heads

\* A completion seen.
LEMMA HeadsEntry ==
    ASSUME TypeOK, ChainInv, ServedInv, UsedInv, intr_entry
    PROVE  /\ Heads(Unserved)' = Heads(Unserved)
           /\ Heads(Served)' = Heads(Served) \ {Used(0)}
<1>1. InFlight' = InFlight /\ idx0' = idx0
    BY Carried
<1>2. served' = served
    BY DEF intr_entry, devvars
<1>3. PICK p \in Served : Used(0) = idx0[p] /\ disk' = [disk EXCEPT ![p] = 0]
    BY EntryIs
<1>4. p \in InFlight /\ p \in Procs /\ served[p] # <<>>
    BY DEF Served, InFlight
<1>5. disk'[p] = 0 /\ \A q \in Procs \ {p} : disk'[q] = disk[q]
    BY <1>3, <1>4 DEF TypeOK
<1>6. Unserved' = Unserved /\ Served' = Served \ {p}
    BY <1>1, <1>2, <1>4, <1>5 DEF Unserved, Served, InFlight
<1>7. \A q \in Served : idx0[q] = Used(0) => q = p
    BY <1>3, <1>4, HeadsDistinct DEF Served
<1>8. QED
    BY <1>1, <1>3, <1>6, <1>7 DEF Heads

-----------------------------------------------------------------------------
(* The available ring *)

\* Places that many numbers go to without meeting, none to i, are more.
LEMMA RoomLeft ==
    ASSUME NEW n \in Nat, NEW f \in [0 .. n - 1 -> Desc], NEW i \in Desc,
           \A j, k \in 0 .. n - 1 : f[j] = f[k] => j = k,
           \A k \in 0 .. n - 1 : f[k] # i
    PROVE  n < NUM
<1> DEFINE S == 0 .. n - 1
           T == Desc \ {i}
<1>1. IsFiniteSet(S) /\ Cardinality(S) = n
    BY FS_Interval
<1>2. IsFiniteSet(Desc) /\ Cardinality(Desc) = NUM
    BY FS_Interval, VirtioAssumption DEF Desc
<1>3. IsFiniteSet(T) /\ Cardinality(T) = NUM - 1
    BY <1>2, FS_RemoveElement
<1>4. f \in Injection(S, T)
    BY DEF Injection, IsInjective
<1>5. Cardinality(S) <= Cardinality(T)
    BY <1>1, <1>3, <1>4, FS_Injection
<1>6. QED
    BY <1>1, <1>3, <1>5, VirtioAssumption

\* Steps that leave the ring and its indices alone.
LEMMA AvailFrame ==
    ASSUME UNCHANGED <<ring, avail_idx, seen>>,
           \A p \in Procs : pc'[p] = "publish" <=> pc[p] = "publish"
    PROVE  /\ Pending' = Pending /\ Publishing' = Publishing /\ Waiting' = Waiting
           /\ \A k \in Nat : Avail(k)' = Avail(k)
BY DEF Pending, Publishing, Waiting, Avail

\* ... and the requests in it.
LEMMA AvailSame ==
    ASSUME TypeOK, AvailInv, UNCHANGED <<ring, avail_idx, seen, busy>>,
           \A p \in Procs : pc'[p] = "publish" <=> pc[p] = "publish",
           \A p \in Procs : pc[p] = "publish" => idx0'[p] = idx0[p],
           Heads(Unserved)' = Heads(Unserved)
    PROVE  AvailInv'
<1>1. Pending' = Pending /\ Publishing' = Publishing /\ Waiting' = Waiting
    BY AvailFrame
<1>2. Pending \in Nat /\ Waiting \subseteq Nat
    BY WaitingIs DEF Waiting, Desc
<1>3. Avail(Pending)' = Avail(Pending) /\ \A k \in Waiting : Avail(k)' = Avail(k)
    BY <1>1, <1>2, AvailFrame DEF Avail
<1>4. {Avail(k) : k \in Waiting}' = {Avail(k) : k \in Waiting}
    BY <1>1, <1>3
<1>5. Pending' <= NUM /\ (Publishing' => Pending' < NUM)
    BY <1>1 DEF AvailInv
<1>6. \A p \in Procs : pc'[p] = "publish" => Avail(Pending)' = idx0'[p]
    BY <1>3 DEF AvailInv
<1>7. (\A j, k \in Waiting : Avail(j) = Avail(k) => j = k)'
    BY <1>1, <1>3 DEF AvailInv
<1>8. QED
    BY <1>4, <1>5, <1>6, <1>7 DEF AvailInv

\* The ring has room for the request rw_fill() puts in.
LEMMA AvailFill ==
    ASSUME TypeOK, TypeOK', LockInv, ChainInv, ServedInv, AvailInv, NEW p \in Procs, rw_fill(p)
    PROVE  AvailInv'
<1>1. lock = None /\ None \notin Procs
    BY VirtioAssumption DEF rw_fill
<1>2. ~Publishing
    BY <1>1 DEF Publishing, LockInv
<1>3. Pending \in Nat /\ Waiting = 0 .. Pending - 1 /\ \A k \in Waiting : Avail(k) \in Desc
    BY <1>2, WaitingIs
<1>4. PICK i \in Free : ring' = [ring EXCEPT ![avail_idx % NUM] = i] /\ idx0'[p] = i
  <2>1. PICK i, j, k \in Free : Format(p, i, j, k)
    BY DEF rw_fill
  <2>2. ring' = [ring EXCEPT ![avail_idx % NUM] = i] /\ idx0' = [idx0 EXCEPT ![p] = i]
    BY <2>1, Zenon DEF Format
  <2>3. idx0'[p] = i
    BY <2>2 DEF TypeOK
  <2>4. QED
    BY <2>2, <2>3, Zenon
<1>5. /\ {Avail(k) : k \in Waiting} \subseteq Desc \ Free /\ busy \subseteq Desc \ Free
    BY HeadsTaken DEF AvailInv
<1>6. i \in Desc /\ i \notin busy /\ \A k \in Waiting : Avail(k) # i
    BY <1>5 DEF Free
<1>7. Pending < NUM
  <2> DEFINE f == [k \in Waiting |-> Avail(k)]
  <2>1. f \in [0 .. Pending - 1 -> Desc]
    BY <1>3
  <2>2. \A j, k \in 0 .. Pending - 1 : f[j] = f[k] => j = k
    BY <1>3 DEF AvailInv
  <2>3. \A k \in 0 .. Pending - 1 : f[k] # i
    BY <1>3, <1>6
  <2> HIDE DEF f
  <2>4. QED
    BY <1>3, <1>6, <2>1, <2>2, <2>3, RoomLeft
<1>8. seen' = seen /\ avail_idx' = avail_idx /\ busy' = busy
    BY DEF rw_fill, devvars
<1>9. Pending' = Pending
    BY <1>8 DEF Pending
<1>10. Avail(Pending)' = i /\ \A k \in Waiting : Avail(k)' = Avail(k)
  <2>1. (avail_idx - seen) % IDX < NUM
    BY <1>7 DEF Pending
  <2>2. /\ avail_idx % NUM = (seen + Pending) % NUM /\ avail_idx % NUM \in Desc
        /\ \A k \in Nat : k < Pending => /\ (seen + k) % NUM \in Desc
                                        /\ (seen + k) % NUM # avail_idx % NUM
    BY <2>1, Rings, RingFree DEF Pending, Desc
  <2>3. \A k \in Waiting : k \in Nat /\ k < Pending
    BY <1>3
  <2>4. /\ ring'[(seen + Pending) % NUM] = i
        /\ \A k \in Waiting : ring'[(seen + k) % NUM] = ring[(seen + k) % NUM]
    BY <1>4, <2>2, <2>3 DEF TypeOK
  <2>5. QED
    BY <1>8, <1>9, <2>4, Zenon DEF Avail
<1>11. pc'[p] = "publish" /\ \A q \in Procs \ {p} : pc'[q] # "publish"
    BY <1>1, SMTT(30) DEF rw_fill, TypeOK, LockInv
<1>12. Publishing' /\ Waiting' = Waiting \union {Pending} /\ Pending \notin Waiting
  <2>1. Publishing'
    BY <1>11 DEF Publishing
  <2>2. Waiting' = {k \in Desc : k < Pending \/ k = Pending}
    BY <1>9, <2>1 DEF Waiting
  <2>3. QED
    BY <1>3, <1>7, <2>1, <2>2, VirtioAssumption DEF Desc
<1>13. {Avail(k) : k \in Waiting}' = {Avail(k) : k \in Waiting} \union {i}
    BY <1>9, <1>10, <1>12
<1>14. Heads(Unserved)' = Heads(Unserved) \union {i}
    BY <1>4, HeadsFill
<1>15. (\A j, k \in Waiting : Avail(j) = Avail(k) => j = k)'
    BY <1>6, <1>9, <1>10, <1>12 DEF AvailInv
<1>16. (\A q \in Procs : pc[q] = "publish" => Avail(Pending) = idx0[q])'
    BY <1>4, <1>10, <1>11
<1>17. (Pending <= NUM /\ (Publishing => Pending < NUM))'
    BY <1>7, <1>9 DEF AvailInv
<1>18. ({Avail(k) : k \in Waiting} \intersect busy = {})'
    BY <1>6, <1>8, <1>13 DEF AvailInv
<1>19. ({Avail(k) : k \in Waiting} \union busy = Heads(Unserved))'
    BY <1>8, <1>13, <1>14 DEF AvailInv
<1>20. QED
    BY <1>15, <1>16, <1>17, <1>18, <1>19 DEF AvailInv

\* avail->idx moves over the entry that is there.
LEMMA AvailPublish ==
    ASSUME TypeOK, TypeOK', LockInv, ChainInv, ServedInv, AvailInv, NEW p \in Procs, rw_publish(p)
    PROVE  AvailInv'
<1>1. Publishing /\ \A q \in Procs : pc'[q] # "publish"
    BY DEF rw_publish, Publishing, LockInv, TypeOK
<1>2. Pending \in Nat /\ Pending < NUM /\ Waiting = 0 .. Pending
    BY <1>1, WaitingIs DEF AvailInv
<1>3. seen' = seen /\ busy' = busy /\ ring' = ring /\ avail_idx' = (avail_idx + 1) % IDX
    BY DEF rw_publish, devvars
<1>4. Pending' = Pending + 1
  <2>1. Pending + 1 < IDX
    BY <1>2, VirtioAssumption
  <2>2. QED
    BY <1>3, <2>1, Rings, RingPut DEF Pending
<1>5. ~Publishing' /\ Waiting' = Waiting
    BY <1>1, <1>2, <1>4 DEF Publishing, Waiting, Desc
<1>6. \A k \in Waiting : Avail(k)' = Avail(k)
    BY <1>3 DEF Avail
<1>7. {Avail(k) : k \in Waiting}' = {Avail(k) : k \in Waiting}
    BY <1>5, <1>6
<1>8. Heads(Unserved)' = Heads(Unserved)
    BY HeadsSame
<1>9. (Pending <= NUM)'
    BY <1>2, <1>4, VirtioAssumption
<1>10. (\A j, k \in Waiting : Avail(j) = Avail(k) => j = k)'
    BY <1>5, <1>6 DEF AvailInv
<1>11. QED
    BY <1>1, <1>3, <1>5, <1>7, <1>8, <1>9, <1>10, Zenon DEF AvailInv

\* The device takes the first entry.
LEMMA AvailFetch ==
    ASSUME TypeOK, TypeOK', ChainInv, ServedInv, AvailInv, dev_fetch
    PROVE  AvailInv'
<1>1. /\ avail_idx' = avail_idx /\ ring' = ring /\ pc' = pc /\ idx0' = idx0
      /\ seen' = (seen + 1) % IDX /\ busy' = busy \union {ring[seen % NUM]}
      /\ seen # avail_idx
    BY DEF dev_fetch, drivervars, procvars
<1>2. Publishing' = Publishing
    BY <1>1 DEF Publishing
<1>3. Pending \in Nat /\ Pending > 0 /\ Pending' = Pending - 1
    BY <1>1, WaitingIs, Rings, RingGet DEF Pending
<1>4. Pending <= NUM /\ (Publishing => Pending < NUM)
    BY DEF AvailInv
<1>5. ring[seen % NUM] = Avail(0)
    BY SMTT(30) DEF Avail, TypeOK
<1>6. ASSUME NEW k \in Nat PROVE Avail(k)' = Avail(k + 1)
  <2>1. (((seen + 1) % IDX) + k) % NUM = (seen + 1 + k) % NUM
    BY Rings, RingNext
  <2>2. seen + 1 + k = seen + (k + 1)
    <3>1. seen \in Int
      BY DEF TypeOK
    <3>2. QED
      BY <3>1
  <2>3. QED
    BY <1>1, <2>1, <2>2 DEF Avail
<1>7. 0 \in Waiting /\ Waiting \subseteq Nat /\ Waiting' \subseteq Nat
    BY <1>3, VirtioAssumption DEF Waiting, Desc
<1>8. ASSUME NEW k \in Nat PROVE k \in Waiting' <=> k + 1 \in Waiting
    BY <1>2, <1>3, <1>4, VirtioAssumption DEF Waiting, Desc
<1>9. \A k \in Waiting : k # 0 => k - 1 \in Nat /\ (k - 1) + 1 = k
    BY <1>7
<1>10. {Avail(k) : k \in Waiting}' = {Avail(k) : k \in Waiting \ {0}}
  <2>1. ASSUME NEW k \in Waiting' PROVE \E j \in Waiting \ {0} : Avail(k)' = Avail(j)
    BY <1>6, <1>7, <1>8
  <2>2. ASSUME NEW j \in Waiting \ {0} PROVE \E k \in Waiting' : Avail(k)' = Avail(j)
    <3>1. j - 1 \in Waiting' /\ j - 1 \in Nat /\ (j - 1) + 1 = j
      BY <1>8, <1>9
    <3>2. QED
      BY <1>6, <3>1
  <2>3. QED
    BY <2>1, <2>2
<1>11. {Avail(k) : k \in Waiting} = {Avail(k) : k \in Waiting \ {0}} \union {Avail(0)}
    BY <1>7
<1>12. Avail(0) \notin {Avail(k) : k \in Waiting \ {0}}
    BY <1>7 DEF AvailInv
<1>13. Heads(Unserved)' = Heads(Unserved)
    BY HeadsSame
<1>14. (\A j, k \in Waiting : Avail(j) = Avail(k) => j = k)'
  <2>1. ASSUME NEW j \in Waiting', NEW k \in Waiting', Avail(j)' = Avail(k)' PROVE j = k
    <3>1. j \in Nat /\ k \in Nat /\ j + 1 \in Waiting /\ k + 1 \in Waiting
      BY <1>7, <1>8
    <3>2. Avail(j + 1) = Avail(k + 1)
      BY <1>6, <2>1, <3>1
    <3>3. j + 1 = k + 1
      BY <3>1, <3>2 DEF AvailInv
    <3>4. QED
      BY <3>1, <3>3
  <2>2. QED
    BY <2>1
<1>15. (\A q \in Procs : pc[q] = "publish" => Avail(Pending) = idx0[q])'
  <2>1. Avail(Pending)' = Avail(Pending)
    <3>1. Pending - 1 \in Nat /\ (Pending - 1) + 1 = Pending
      BY <1>3
    <3>2. QED
      BY <1>1, <1>3, <1>6, <3>1 DEF Avail
  <2>2. QED
    BY <1>1, <2>1 DEF AvailInv
<1>16. (Pending <= NUM /\ (Publishing => Pending < NUM))'
    BY <1>2, <1>3, <1>4, VirtioAssumption
<1>17. ({Avail(k) : k \in Waiting} \intersect busy = {})'
    BY <1>1, <1>5, <1>10, <1>11, <1>12 DEF AvailInv
<1>18. ({Avail(k) : k \in Waiting} \union busy = Heads(Unserved))'
    BY <1>1, <1>5, <1>10, <1>11, <1>13 DEF AvailInv
<1>19. QED
    BY <1>14, <1>15, <1>16, <1>17, <1>18 DEF AvailInv

\* The device is done with a request.
LEMMA AvailFinish ==
    ASSUME TypeOK, ChainInv, ServedInv, AvailInv, NEW h \in Desc, NEW s \in Statuses, dev_finish(h, s)
    PROVE  AvailInv'
<1>1. /\ UNCHANGED <<avail_idx, ring, seen, pc, idx0>> /\ busy' = busy \ {h} /\ h \in busy
    BY DEF dev_finish, drivervars, procvars
<1>2. Pending' = Pending /\ Publishing' = Publishing /\ Waiting' = Waiting
    BY <1>1, AvailFrame
<1>3. Pending \in Nat /\ Waiting \subseteq Nat
    BY WaitingIs DEF Waiting, Desc
<1>4. Avail(Pending)' = Avail(Pending) /\ \A k \in Waiting : Avail(k)' = Avail(k)
    BY <1>1, <1>2, <1>3 DEF Avail
<1>5. {Avail(k) : k \in Waiting}' = {Avail(k) : k \in Waiting}
    BY <1>2, <1>4
<1>6. Heads(Unserved)' = Heads(Unserved) \ {h}
    BY HeadsFinish
<1>7. QED
    BY <1>1, <1>2, <1>4, <1>5, <1>6, SMTT(30) DEF AvailInv

\* Every step keeps the available ring right.
LEMMA AvailNext ==
    ASSUME TypeOK, TypeOK', LockInv, ChainInv, ServedInv, AvailInv, UsedInv, [Next]_vars
    PROVE  AvailInv'
<1>1. CASE Quiet
    BY <1>1, AvailSame, HeadsSame DEF Quiet
<1>2. ASSUME NEW p \in Procs, rw_return(p) PROVE AvailInv'
  <2>1. UNCHANGED <<ring, avail_idx, seen, busy>>
    BY <1>2 DEF rw_return
  <2>2. \A q \in Procs : pc'[q] = "publish" <=> pc[q] = "publish"
    BY <1>2 DEF rw_return, WakeAlloc, TypeOK
  <2>3. \A q \in Procs : pc[q] = "publish" => idx0'[q] = idx0[q]
    BY <1>2 DEF rw_return, TypeOK
  <2>4. QED
    BY <1>2, <2>1, <2>2, <2>3, AvailSame, HeadsSame, Zenon
<1>3. CASE intr_entry
  <2>1. UNCHANGED <<ring, avail_idx, seen, busy, idx0>>
    BY <1>3 DEF intr_entry, drivervars, devvars
  <2>2. \A q \in Procs : pc'[q] = "publish" <=> pc[q] = "publish"
    BY <1>3, Zenon DEF intr_entry, TypeOK
  <2>3. QED
    BY <1>3, <2>1, <2>2, AvailSame, HeadsEntry
<1>4. QED
    BY <1>1, <1>2, <1>3, Steps, AvailFill, AvailPublish, AvailFetch, AvailFinish

-----------------------------------------------------------------------------
(* The used ring *)

\* Steps that leave the ring and the requests in it alone.
LEMMA UsedSame ==
    ASSUME UsedInv, UNCHANGED <<used, used_idx, used_idx_dev>>, Heads(Served)' = Heads(Served)
    PROVE  UsedInv'
<1>1. Reported' = Reported /\ Unread' = Unread
    BY DEF Reported, Unread
<1>2. \A k \in Unread : Used(k)' = Used(k)
    BY DEF Used
<1>3. {Used(k) : k \in Unread}' = {Used(k) : k \in Unread}
    BY <1>1, <1>2
<1>4. QED
    BY <1>1, <1>2, <1>3 DEF UsedInv

\* The ring has room for what the device reports.
LEMMA UsedFinish ==
    ASSUME TypeOK, TypeOK', ChainInv, ServedInv, AvailInv, UsedInv,
           NEW h \in Desc, NEW s \in Statuses, dev_finish(h, s)
    PROVE  UsedInv'
<1>1. /\ used' = [used EXCEPT ![used_idx_dev % NUM] = h] /\ used_idx' = used_idx
      /\ used_idx_dev' = (used_idx_dev + 1) % IDX /\ h \in busy
    BY DEF dev_finish
<1>2. Reported \in Nat /\ Unread = 0 .. Reported - 1 /\ \A k \in Unread : Used(k) \in Desc
    BY UnreadIs
<1>3. h \notin Heads(Served)
    BY <1>1, HeadsApart DEF AvailInv
<1>4. \A k \in Unread : Used(k) # h
    BY <1>3 DEF UsedInv
<1>5. Reported < NUM
  <2> DEFINE f == [k \in Unread |-> Used(k)]
  <2>1. f \in [0 .. Reported - 1 -> Desc]
    BY <1>2
  <2>2. \A j, k \in 0 .. Reported - 1 : f[j] = f[k] => j = k
    BY <1>2 DEF UsedInv
  <2>3. \A k \in 0 .. Reported - 1 : f[k] # h
    BY <1>2, <1>4
  <2> HIDE DEF f
  <2>4. QED
    BY <1>2, <2>1, <2>2, <2>3, RoomLeft
<1>6. Reported' = Reported + 1
  <2>1. Reported + 1 < IDX
    BY <1>2, <1>5, VirtioAssumption
  <2>2. QED
    BY <1>1, <2>1, Rings, RingPut DEF Reported
<1> PICK n \in Nat : n = Reported
    BY <1>2
<1>7. Unread' = Unread \union {n} /\ n \notin Unread
    BY <1>2, <1>5, <1>6, VirtioAssumption DEF Unread, Desc
<1>8. Used(n)' = h /\ \A k \in Unread : Used(k)' = Used(k)
  <2>1. (used_idx_dev - used_idx) % IDX < NUM
    BY <1>5 DEF Reported
  <2>2. /\ used_idx_dev % NUM = (used_idx + Reported) % NUM /\ used_idx_dev % NUM \in Desc
        /\ \A k \in Nat : k < Reported => /\ (used_idx + k) % NUM \in Desc
                                         /\ (used_idx + k) % NUM # used_idx_dev % NUM
    BY <2>1, Rings, RingFree DEF Reported, Desc
  <2>3. \A k \in Unread : k \in Nat /\ k < Reported
    BY <1>2
  <2>4. /\ used'[(used_idx + n) % NUM] = h
        /\ \A k \in Unread : used'[(used_idx + k) % NUM] = used[(used_idx + k) % NUM]
    BY <1>1, <2>2, <2>3 DEF TypeOK
  <2>5. QED
    BY <1>1, <2>4 DEF Used
<1>9. {Used(k) : k \in Unread}' = {Used(k) : k \in Unread} \union {h}
    BY <1>7, <1>8
<1>10. Heads(Served)' = Heads(Served) \union {h}
    BY HeadsFinish
<1>11. (\A j, k \in Unread : Used(j) = Used(k) => j = k)'
    BY <1>4, <1>7, <1>8 DEF UsedInv
<1>12. (Reported <= NUM)'
    BY <1>2, <1>5, <1>6, VirtioAssumption
<1>13. QED
    BY <1>9, <1>10, <1>11, <1>12 DEF UsedInv

\* The handler goes on to the next entry.
LEMMA UsedEntry ==
    ASSUME TypeOK, TypeOK', ChainInv, ServedInv, UsedInv, intr_entry
    PROVE  UsedInv'
<1>1. used' = used /\ used_idx_dev' = used_idx_dev /\ used_idx' = (used_idx + 1) % IDX
    BY DEF intr_entry, devvars
<1>2. Reported \in Nat /\ Reported > 0 /\ Unread = 0 .. Reported - 1
    BY UnreadIs, EntryIs
<1>3. Reported' = Reported - 1 /\ Reported <= NUM
  <2>1. used_idx # used_idx_dev
    BY DEF intr_entry
  <2>2. QED
    BY <1>1, <2>1, Rings, RingGet DEF Reported, UsedInv
<1>4. ASSUME NEW k \in Nat PROVE Used(k)' = Used(k + 1)
  <2>1. (((used_idx + 1) % IDX) + k) % NUM = (used_idx + 1 + k) % NUM
    BY Rings, RingNext
  <2>2. used_idx + 1 + k = used_idx + (k + 1)
    <3>1. used_idx \in Int
      BY DEF TypeOK
    <3>2. QED
      BY <3>1
  <2>3. QED
    BY <1>1, <2>1, <2>2 DEF Used
<1>5. 0 \in Unread /\ Unread \subseteq Nat /\ Unread' \subseteq Nat
    BY <1>2 DEF Unread, Desc
<1>6. ASSUME NEW k \in Nat PROVE k \in Unread' <=> k + 1 \in Unread
    BY <1>2, <1>3, VirtioAssumption DEF Unread, Desc
<1>7. \A k \in Unread : k # 0 => k - 1 \in Nat /\ (k - 1) + 1 = k
    BY <1>5
<1>8. {Used(k) : k \in Unread}' = {Used(k) : k \in Unread \ {0}}
  <2>1. ASSUME NEW k \in Unread' PROVE \E j \in Unread \ {0} : Used(k)' = Used(j)
    BY <1>4, <1>5, <1>6
  <2>2. ASSUME NEW j \in Unread \ {0} PROVE \E k \in Unread' : Used(k)' = Used(j)
    <3>1. j - 1 \in Unread' /\ j - 1 \in Nat /\ (j - 1) + 1 = j
      BY <1>6, <1>7
    <3>2. QED
      BY <1>4, <3>1
  <2>3. QED
    BY <2>1, <2>2
<1>9. {Used(k) : k \in Unread \ {0}} = {Used(k) : k \in Unread} \ {Used(0)}
    BY <1>5 DEF UsedInv
<1>10. Heads(Served)' = Heads(Served) \ {Used(0)}
    BY HeadsEntry
<1>11. (\A j, k \in Unread : Used(j) = Used(k) => j = k)'
  <2>1. ASSUME NEW j \in Unread', NEW k \in Unread', Used(j)' = Used(k)' PROVE j = k
    <3>1. j \in Nat /\ k \in Nat /\ j + 1 \in Unread /\ k + 1 \in Unread
      BY <1>5, <1>6
    <3>2. Used(j + 1) = Used(k + 1)
      BY <1>4, <2>1, <3>1
    <3>3. j + 1 = k + 1
      BY <3>1, <3>2 DEF UsedInv
    <3>4. QED
      BY <3>1, <3>3
  <2>2. QED
    BY <2>1
<1>12. (Reported <= NUM)'
    BY <1>2, <1>3, VirtioAssumption
<1>13. QED
    BY <1>8, <1>9, <1>10, <1>11, <1>12 DEF UsedInv

\* Every step keeps the used ring right.
LEMMA UsedNext ==
    ASSUME TypeOK, TypeOK', LockInv, ChainInv, ServedInv, AvailInv, UsedInv, [Next]_vars
    PROVE  UsedInv'
<1>1. CASE Quiet \/ dev_fetch \/ \E p \in Procs : rw_publish(p) \/ rw_return(p)
  <2>1. UNCHANGED <<used, used_idx, used_idx_dev>>
    BY <1>1 DEF Quiet, dev_fetch, rw_publish, rw_return, devvars
  <2>2. QED
    BY <1>1, <2>1, UsedSame, HeadsSame
<1>2. ASSUME NEW p \in Procs, rw_fill(p) PROVE UsedInv'
  <2>1. UNCHANGED <<used, used_idx, used_idx_dev>>
    BY <1>2 DEF rw_fill, devvars
  <2>2. QED
    BY <1>2, <2>1, UsedSame, HeadsFill
<1>3. QED
    BY <1>1, <1>2, Steps, UsedEntry, UsedFinish

-----------------------------------------------------------------------------
(* Theorems *)

\* With no request there is nothing to get wrong.
LEMMA InvInit == Init => VirtioInv
<1> SUFFICES ASSUME Init PROVE VirtioInv
    OBVIOUS
<1>1. TypeOK
    BY TypeInit
<1>2. InFlight = {} /\ Free = Desc
    BY DEF Init, InFlight, Free
<1>3. LockInv /\ IrqInv
    BY VirtioAssumption DEF Init, LockInv, IrqInv
<1>4. ChainInv
    BY <1>2 DEF Init, ChainInv
<1>5. ServedInv
    BY <1>2 DEF Init, ServedInv
<1>6. Unserved = {} /\ Served = {}
    BY <1>2 DEF Unserved, Served
<1>7. Pending = 0 /\ Reported = 0
  <2>1. seen = avail_idx /\ used_idx = used_idx_dev
    BY DEF Init
  <2>2. QED
    BY <1>1, <2>1, Rings, RingCount DEF Pending, Reported
<1>8. ~Publishing
    BY DEF Init, Publishing
<1>9. Waiting = {} /\ Unread = {}
    BY <1>7, <1>8 DEF Waiting, Unread, Desc
<1>10. AvailInv
    BY <1>6, <1>7, <1>8, <1>9, VirtioAssumption DEF Init, AvailInv, Heads, Publishing
<1>11. UsedInv
    BY <1>6, <1>7, <1>9, VirtioAssumption, SMTT(30) DEF UsedInv, Heads
<1>12. QED
    BY <1>1, <1>3, <1>4, <1>5, <1>10, <1>11 DEF VirtioInv

\* The conjuncts of the invariant support each other.
LEMMA InvNext == VirtioInv /\ [Next]_vars => VirtioInv'
<1> SUFFICES ASSUME VirtioInv, [Next]_vars PROVE VirtioInv'
    OBVIOUS
<1> USE DEF VirtioInv
<1>1. TypeOK'
    BY TypeNext
<1>2. LockInv' /\ IrqInv' /\ ChainInv'
    BY LockNext, IrqNext, ChainNext
<1>3. ServedInv'
    BY <1>1, ServedNext
<1>4. AvailInv'
    BY <1>1, AvailNext
<1>5. UsedInv'
    BY <1>1, UsedNext
<1>6. QED
    BY <1>1, <1>2, <1>3, <1>4, <1>5

\* The invariant of virtio_disk.c and its device: every request in flight has
\* three descriptors of its own, formatted as its caller asked, and its head is
\* in one place, the available ring, the device or the used ring, neither of
\* which overflows although the indices wrap.
THEOREM VirtioInvariant == Spec => []VirtioInv
BY InvInit, InvNext, PTL DEF Spec

\* No descriptor is lost or in two chains: alloc3_desc() hands out what nobody
\* has, and free_chain() gives back all of it, once.
THEOREM ChainsAreOwned == Spec => []DescriptorsOwned
<1>1. VirtioInv => DescriptorsOwned
    BY DEF VirtioInv, ChainInv, DescriptorsOwned, ChainsOwned
<1>2. QED
    BY <1>1, VirtioInvariant, PTL

\* virtio_disk_rw() returns after exactly the transfer that was asked for,
\* whatever the order of completions, shared interrupts and stray wakeups.
THEOREM TransfersAreExact == Spec => RequestServed
<1> DEFINE Returns == \A p \in Procs :
                         pc[p] = "woken" /\ pc'[p] = "idle" => served[p] = << <<type[p], p>> >>
<1>1. ASSUME VirtioInv, [Next]_vars PROVE [Returns]_vars
  <2> USE <1>1 DEF VirtioInv
  <2>1. SUFFICES ASSUME NEW p \in Procs, pc[p] = "woken", pc'[p] = "idle"
                 PROVE  served[p] = << <<type[p], p>> >>
    OBVIOUS
  <2>2. p \in InFlight
    BY <2>1 DEF InFlight
  <2>3. disk[p] = 0
    <3>1. p \notin InFlight'
      BY <2>1 DEF InFlight
    <3>2. CASE Quiet
      BY <2>2, <3>1, <3>2 DEF Quiet
    <3>3. ASSUME NEW q \in Procs, rw_fill(q) PROVE disk[p] = 0
      BY <2>2, <3>1, <3>3, FillChain
    <3>4. ASSUME NEW q \in Procs, rw_return(q) PROVE disk[p] = 0
      <4>1. p = q
        BY <2>2, <3>1, <3>4, ReturnChain
      <4>2. QED
        BY <3>4, <4>1 DEF rw_return
    <3>5. QED
      BY <2>2, <3>1, <3>2, <3>3, <3>4, Steps, Carried
  <2>4. QED
    BY <2>2, <2>3 DEF ServedInv
<1>2. QED
    BY <1>1, VirtioInvariant, PTL DEF Spec, RequestServed

\* A process that sleeps on its buffer will hear of it: its request is still to
\* be read by the device, with the device, or reported, and then an interrupt
\* is pending or being handled.
NoRequestLost ==
    \A p \in Procs : pc[p] = "wait" =>
       \/ \E k \in Waiting : Avail(k) = idx0[p]
       \/ idx0[p] \in busy
       \/ (\E k \in Unread : Used(k) = idx0[p]) /\ (irq = 1 \/ hpc # "off")

\* virtio_disk_intr() acknowledges the interrupt before it reads used->idx, and
\* wakes the owner of each entry before it goes on: no sleeper is forgotten.
THEOREM SleepersAreServed == Spec => []NoRequestLost
<1>1. ASSUME VirtioInv PROVE NoRequestLost
  <2> USE <1>1 DEF VirtioInv
  <2>1. SUFFICES ASSUME NEW p \in Procs, pc[p] = "wait"
                 PROVE  \/ \E k \in Waiting : Avail(k) = idx0[p]
                        \/ idx0[p] \in busy
                        \/ (\E k \in Unread : Used(k) = idx0[p]) /\ (irq = 1 \/ hpc # "off")
    BY DEF NoRequestLost
  <2>2. p \in Unserved \/ p \in Served
    BY <2>1 DEF InFlight, ServedInv, Unserved, Served
  <2>3. CASE p \in Unserved
    BY <2>3 DEF AvailInv, Heads
  <2>4. CASE p \in Served
    <3>1. PICK k \in Unread : Used(k) = idx0[p]
      BY <2>4 DEF UsedInv, Heads
    <3>2. Reported # 0
      BY <3>1, UnreadIs
    <3>3. used_idx # used_idx_dev
      BY <3>2, Rings, RingCount DEF Reported
    <3>4. QED
      BY <3>1, <3>3 DEF IrqInv
  <2>5. QED
    BY <2>2, <2>3, <2>4
<1>2. QED
    BY <1>1, VirtioInvariant, PTL
=============================================================================
