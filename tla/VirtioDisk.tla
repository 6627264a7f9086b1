----------------------------- MODULE VirtioDisk -----------------------------
(***************************************************************************)
(* The disk driver kernel/virtio_disk.c and the device it talks to through *)
(* shared memory: descriptors, the available ring and the used ring.       *)
(*                                                                         *)
(* Grain.  vdisk_lock excludes the other parts of the driver, not the      *)
(* device, so a section under the lock is cut where the device could see   *)
(* the difference: before avail->idx moves, and at each test of used->idx. *)
(*                                                                         *)
(* Process p makes requests for buffer p, whose sleep-lock it holds; the   *)
(* sector is p's too.  Ring indices are uint16: they wrap at IDX.  The     *)
(* device fetches requests in order and finishes them in any order.        *)
(***************************************************************************)
EXTENDS Integers, Sequences, FiniteSets

CONSTANTS Procs,
          NUM,       \* virtio.h: descriptors, and entries of each ring
          IDX,       \* modulus of the ring indices, 2^16
          Types,     \* kinds of request: "IN" reads, "OUT" writes
          Statuses,  \* what the device may write: 0 is success
          None

Desc == 0 .. NUM - 1
Intr == "virtio_disk_intr"

ASSUME VirtioAssumption ==
    /\ NUM \in Nat /\ NUM >= 3
    /\ IDX \in Nat /\ IDX > NUM /\ IDX % NUM = 0
    /\ "IN" \in Types /\ Types \subseteq {"IN", "OUT"}
    /\ 0 \in Statuses /\ Statuses \subseteq 0 .. 254
    /\ None \notin Procs \union Desc /\ Intr \notin Procs \union {None}

VARIABLES
    free,                \* disk.free
    addr, next,          \* disk.desc; next is None without VRING_DESC_F_NEXT
    ops,                 \* disk.ops: <<type, sector>>
    info,                \* disk.info[].b
    status,              \* disk.info[].status
    ring, avail_idx,     \* disk.avail
    used, used_idx_dev,  \* disk.used, and its idx
    used_idx,            \* disk.used_idx
    disk,                \* b->disk of each buffer
    lock,                \* holder of vdisk_lock: a process, Intr or None
    pc, type, idx0,      \* each process; its arguments and idx[0]
    irq,                 \* 1: the device asks for an interrupt
    hpc,                 \* the handler: "off", "loop" or "panic"
    seen, busy,          \* device: how far it has read avail, requests it works on
    served               \* transfers made on each buffer in its current request

drivervars == <<free, addr, next, ops, info, ring, avail_idx>>
procvars == <<pc, type, idx0>>
devvars == <<used, used_idx_dev, seen, busy, served>>
vars == <<drivervars, status, used_idx, disk, lock, procvars, irq, hpc, devvars>>

Init ==
    /\ free = [i \in Desc |-> 1]
    /\ addr = [i \in Desc |-> None] /\ next = [i \in Desc |-> None]
    /\ ops = [i \in Desc |-> None]
    /\ info = [i \in Desc |-> None] /\ status = [i \in Desc |-> 0]
    /\ ring = [i \in Desc |-> 0] /\ avail_idx = 0
    /\ used = [i \in Desc |-> 0] /\ used_idx_dev = 0 /\ used_idx = 0
    /\ disk = [p \in Procs |-> 0]
    /\ lock = None
    /\ pc = [p \in Procs |-> "idle"] /\ type = [p \in Procs |-> "IN"]
    /\ idx0 = [p \in Procs |-> 0]
    /\ irq = 0 /\ hpc = "off"
    /\ seen = 0 /\ busy = {}
    /\ served = [p \in Procs |-> <<>>]

-----------------------------------------------------------------------------
(* virtio_disk_rw() *)

Free == {i \in Desc : free[i] = 1}

\* wakeup(&disk.free[0])
WakeAlloc(f) == [q \in Procs |-> IF f[q] = "no_desc" THEN "alloc" ELSE f[q]]

rw_call(p, t) ==
    /\ pc[p] = "idle"
    /\ pc' = [pc EXCEPT ![p] = "alloc"]
    /\ type' = [type EXCEPT ![p] = t]
    /\ UNCHANGED <<drivervars, status, used_idx, disk, lock, idx0, irq, hpc, devvars>>

\* Format the three descriptors and put the first into the ring.
Format(p, i, j, k) ==
    /\ free' = [free EXCEPT ![i] = 0, ![j] = 0, ![k] = 0]
    /\ ops' = [ops EXCEPT ![i] = <<type[p], p>>]
    /\ addr' = [addr EXCEPT ![i] = <<"ops", i>>, ![j] = <<"data", p>>, ![k] = <<"status", i>>]
    /\ next' = [next EXCEPT ![i] = j, ![j] = k, ![k] = None]
    /\ status' = [status EXCEPT ![i] = 255]
    /\ info' = [info EXCEPT ![i] = p]
    /\ ring' = [ring EXCEPT ![avail_idx % NUM] = i]
    /\ idx0' = [idx0 EXCEPT ![p] = i]

\* alloc3_desc() succeeds with the three lowest free descriptors.
rw_fill(p) ==
    /\ pc[p] = "alloc" /\ lock = None
    /\ \E i, j, k \in Free :
          /\ i < j /\ j < k /\ \A l \in Free : l < k => l \in {i, j}
          /\ Format(p, i, j, k)
    /\ disk' = [disk EXCEPT ![p] = 1]
    /\ lock' = p
    /\ pc' = [pc EXCEPT ![p] = "publish"]
    /\ UNCHANGED <<avail_idx, used_idx, type, irq, hpc, devvars>>

\* Mutant: as alloc3_desc() might be if it gave back one descriptor too few.
GivenBack_short == {i \in Free : \E j \in Free : i < j}

\* What alloc3_desc() gives back when it fails: all it took.
GivenBack == Free

\* alloc3_desc() takes the last descriptors, too few, and calls free_desc() for
\* each, which also wakes the other waiters.
rw_no_desc(p) ==
    /\ pc[p] = "alloc" /\ lock = None
    /\ Cardinality(Free) < 3
    /\ free' = [i \in Desc |-> IF i \in GivenBack THEN 1 ELSE 0]
    /\ addr' = [i \in Desc |-> IF i \in GivenBack THEN None ELSE addr[i]]
    /\ next' = [i \in Desc |-> IF i \in GivenBack THEN None ELSE next[i]]
    /\ pc' = [(IF GivenBack = {} THEN pc ELSE WakeAlloc(pc)) EXCEPT ![p] = "no_desc"]
    /\ UNCHANGED <<ops, info, ring, avail_idx, status, used_idx, disk, lock, type, idx0,
                   irq, hpc, devvars>>

\* Let the device see the request, notify it, and wait.
rw_publish(p) ==
    /\ pc[p] = "publish"
    /\ avail_idx' = (avail_idx + 1) % IDX
    /\ lock' = None
    /\ pc' = [pc EXCEPT ![p] = "wait"]
    /\ UNCHANGED <<free, addr, next, ops, info, ring, status, used_idx, disk, type, idx0,
                   irq, hpc, devvars>>

\* Woken, but not by virtio_disk_intr().
rw_again(p) ==
    /\ pc[p] = "woken" /\ lock = None
    /\ disk[p] = 1
    /\ pc' = [pc EXCEPT ![p] = "wait"]
    /\ UNCHANGED <<drivervars, status, used_idx, disk, lock, type, idx0, irq, hpc, devvars>>

\* The descriptors free_chain() visits.
Chain(h) == {h, next[h], next[next[h]]}

\* Mutant: as free_desc() might be without its wakeup().
rw_return_silent(p) ==
    /\ pc[p] = "woken" /\ lock = None
    /\ disk[p] = 0
    /\ LET c == Chain(idx0[p]) IN
          /\ free' = [i \in Desc |-> IF i \in c THEN 1 ELSE free[i]]
          /\ addr' = [i \in Desc |-> IF i \in c THEN None ELSE addr[i]]
          /\ next' = [i \in Desc |-> IF i \in c THEN None ELSE next[i]]
    /\ info' = [info EXCEPT ![idx0[p]] = None]
    /\ pc' = [pc EXCEPT ![p] = "idle"]
    /\ idx0' = [idx0 EXCEPT ![p] = 0] /\ type' = [type EXCEPT ![p] = "IN"]
    /\ served' = [served EXCEPT ![p] = <<>>]
    /\ UNCHANGED <<ops, ring, avail_idx, status, used_idx, disk, lock, irq, hpc,
                   used, used_idx_dev, seen, busy>>

\* Mutant: as the wait might be with `if' in place of `while'.
rw_return_if(p) ==
    /\ pc[p] = "woken" /\ lock = None
    /\ LET c == Chain(idx0[p]) IN
          /\ free' = [i \in Desc |-> IF i \in c THEN 1 ELSE free[i]]
          /\ addr' = [i \in Desc |-> IF i \in c THEN None ELSE addr[i]]
          /\ next' = [i \in Desc |-> IF i \in c THEN None ELSE next[i]]
    /\ info' = [info EXCEPT ![idx0[p]] = None]
    /\ pc' = [WakeAlloc(pc) EXCEPT ![p] = "idle"]
    /\ idx0' = [idx0 EXCEPT ![p] = 0] /\ type' = [type EXCEPT ![p] = "IN"]
    /\ served' = [served EXCEPT ![p] = <<>>]
    /\ UNCHANGED <<ops, ring, avail_idx, status, used_idx, disk, lock, irq, hpc,
                   used, used_idx_dev, seen, busy>>

\* Mutant: as free_chain() might be if it stopped at the data descriptor.
rw_return_short(p) ==
    /\ pc[p] = "woken" /\ lock = None
    /\ disk[p] = 0
    /\ LET c == {idx0[p], next[idx0[p]]} IN
          /\ free' = [i \in Desc |-> IF i \in c THEN 1 ELSE free[i]]
          /\ addr' = [i \in Desc |-> IF i \in c THEN None ELSE addr[i]]
          /\ next' = [i \in Desc |-> IF i \in c THEN None ELSE next[i]]
    /\ info' = [info EXCEPT ![idx0[p]] = None]
    /\ pc' = [WakeAlloc(pc) EXCEPT ![p] = "idle"]
    /\ idx0' = [idx0 EXCEPT ![p] = 0] /\ type' = [type EXCEPT ![p] = "IN"]
    /\ served' = [served EXCEPT ![p] = <<>>]
    /\ UNCHANGED <<ops, ring, avail_idx, status, used_idx, disk, lock, irq, hpc,
                   used, used_idx_dev, seen, busy>>

\* b->disk is 0: give the chain back; the locals are gone.
rw_return(p) ==
    /\ pc[p] = "woken" /\ lock = None
    /\ disk[p] = 0
    /\ LET c == Chain(idx0[p]) IN
          /\ free' = [i \in Desc |-> IF i \in c THEN 1 ELSE free[i]]
          /\ addr' = [i \in Desc |-> IF i \in c THEN None ELSE addr[i]]
          /\ next' = [i \in Desc |-> IF i \in c THEN None ELSE next[i]]
    /\ info' = [info EXCEPT ![idx0[p]] = None]
    /\ pc' = [WakeAlloc(pc) EXCEPT ![p] = "idle"]
    /\ idx0' = [idx0 EXCEPT ![p] = 0] /\ type' = [type EXCEPT ![p] = "IN"]
    /\ served' = [served EXCEPT ![p] = <<>>]
    /\ UNCHANGED <<ops, ring, avail_idx, status, used_idx, disk, lock, irq, hpc,
                   used, used_idx_dev, seen, busy>>

\* proc.c's kill() makes any sleeper run; the loops above test again.
kill(p) ==
    /\ pc[p] \in {"wait", "no_desc"}
    /\ pc' = [pc EXCEPT ![p] = IF @ = "wait" THEN "woken" ELSE "alloc"]
    /\ UNCHANGED <<drivervars, status, used_idx, disk, lock, type, idx0, irq, hpc, devvars>>

-----------------------------------------------------------------------------
(* virtio_disk_intr() *)

intr_ack ==
    /\ irq = 1 /\ hpc = "off" /\ lock = None
    /\ irq' = 0
    /\ lock' = Intr
    /\ hpc' = "loop"
    /\ UNCHANGED <<drivervars, status, used_idx, disk, procvars, devvars>>

\* Mutant: as it might be with a wider used_idx.
intr_entry_nowrap ==
    /\ hpc = "loop"
    /\ used_idx # used_idx_dev
    /\ LET id == used[used_idx % NUM]
           b == info[id] IN
          /\ status[id] = 0
          /\ disk' = [disk EXCEPT ![b] = 0]
          /\ pc' = [pc EXCEPT ![b] = IF @ = "wait" THEN "woken" ELSE @]
    /\ used_idx' = used_idx + 1
    /\ UNCHANGED <<drivervars, status, lock, type, idx0, irq, hpc, devvars>>

\* Mutant: as it might be without wakeup(b).
intr_entry_silent ==
    /\ hpc = "loop"
    /\ used_idx # used_idx_dev
    /\ LET id == used[used_idx % NUM]
           b == info[id] IN
          /\ status[id] = 0
          /\ disk' = [disk EXCEPT ![b] = 0]
    /\ used_idx' = (used_idx + 1) % IDX
    /\ UNCHANGED <<drivervars, status, lock, procvars, irq, hpc, devvars>>

\* One entry of the used ring.
intr_entry ==
    /\ hpc = "loop"
    /\ used_idx # used_idx_dev
    /\ LET id == used[used_idx % NUM]
           b == info[id] IN
          /\ status[id] = 0
          /\ disk' = [disk EXCEPT ![b] = 0]
          /\ pc' = [pc EXCEPT ![b] = IF @ = "wait" THEN "woken" ELSE @]
    /\ used_idx' = (used_idx + 1) % IDX
    /\ UNCHANGED <<drivervars, status, lock, type, idx0, irq, hpc, devvars>>

\* panic("virtio_disk_intr status")
intr_panic ==
    /\ hpc = "loop"
    /\ used_idx # used_idx_dev
    /\ status[used[used_idx % NUM]] # 0
    /\ hpc' = "panic"
    /\ UNCHANGED <<drivervars, status, used_idx, disk, lock, procvars, irq, devvars>>

intr_done ==
    /\ hpc = "loop"
    /\ used_idx = used_idx_dev
    /\ hpc' = "off"
    /\ lock' = None
    /\ UNCHANGED <<drivervars, status, used_idx, disk, procvars, irq, devvars>>

-----------------------------------------------------------------------------
(* The device *)

dev_fetch ==
    /\ seen # avail_idx
    /\ busy' = busy \union {ring[seen % NUM]}
    /\ seen' = (seen + 1) % IDX
    /\ UNCHANGED <<drivervars, status, used_idx, disk, lock, procvars, irq, hpc,
                   used, used_idx_dev, served>>

\* Do what the chain that starts at h says, report, and ask for an interrupt.
dev_finish(h, s) ==
    /\ h \in busy
    /\ LET op == ops[addr[h][2]]
           b == addr[next[h]][2]
           st == addr[next[next[h]]][2] IN
          /\ served' = [served EXCEPT ![b] = Append(@, op)]
          /\ status' = [status EXCEPT ![st] = s]
    /\ used' = [used EXCEPT ![used_idx_dev % NUM] = h]
    /\ used_idx_dev' = (used_idx_dev + 1) % IDX
    /\ busy' = busy \ {h}
    /\ irq' = 1
    /\ UNCHANGED <<drivervars, used_idx, disk, lock, procvars, hpc, seen>>

-----------------------------------------------------------------------------
Driver(p) ==
    rw_fill(p) \/ rw_no_desc(p) \/ rw_publish(p) \/ rw_again(p) \/ rw_return(p)

Handler == intr_ack \/ intr_entry \/ intr_panic \/ intr_done

Device == dev_fetch \/ \E h \in Desc, s \in Statuses : dev_finish(h, s)

Next ==
    \/ \E p \in Procs : Driver(p) \/ kill(p) \/ \E t \in Types : rw_call(p, t)
    \/ Handler
    \/ Device

Spec == Init /\ [][Next]_vars

\* The device works off what it is given and its interrupt is taken; a process
\* gets vdisk_lock, held for a bounded time, whenever it keeps asking for it.
Fairness ==
    /\ WF_vars(Handler) /\ WF_vars(dev_fetch) /\ SF_vars(intr_ack)
    /\ \A h \in Desc : WF_vars(\E s \in Statuses : dev_finish(h, s))
    /\ \A p \in Procs : SF_vars(rw_fill(p)) /\ SF_vars(rw_return(p)) /\ WF_vars(rw_publish(p))

LiveSpec == Spec /\ Fairness

-----------------------------------------------------------------------------
(* Properties *)

InFlight == {p \in Procs : pc[p] \in {"publish", "wait", "woken"}}

\* Every variable keeps its type; indices stay in the range of a uint16.
TypeOK ==
    /\ free \in [Desc -> {0, 1}]
    /\ next \in [Desc -> Desc \union {None}]
    /\ info \in [Desc -> Procs \union {None}] /\ status \in [Desc -> 0 .. 255]
    /\ ring \in [Desc -> Desc] /\ used \in [Desc -> Desc]
    /\ {avail_idx, used_idx_dev, used_idx, seen} \subseteq 0 .. IDX - 1
    /\ disk \in [Procs -> {0, 1}]
    /\ lock \in Procs \union {Intr, None}
    /\ pc \in [Procs -> {"idle", "alloc", "no_desc", "publish", "wait", "woken"}]
    /\ type \in [Procs -> Types] /\ idx0 \in [Procs -> Desc]
    /\ irq \in {0, 1} /\ hpc \in {"off", "loop", "panic"} /\ busy \subseteq Desc

\* When virtio_disk_rw() returns, the device has made exactly the transfer that
\* was asked for on the caller's buffer, whatever the order of completions,
\* shared interrupts and stray wakeups.
RequestServed ==
    [][\A p \in Procs :
          pc[p] = "woken" /\ pc'[p] = "idle" => served[p] = << <<type[p], p>> >>]_vars

\* No descriptor is lost or in two chains: what is not free belongs to one
\* request in progress (alloc3_desc(), free_chain()).
ChainsOwned ==
    /\ \A p, q \in InFlight : p # q => Chain(idx0[p]) \intersect Chain(idx0[q]) = {}
    /\ Desc \ Free = UNION {Chain(idx0[p]) : p \in InFlight}

\* That, and every variable keeps its type.
DescriptorsOwned == TypeOK /\ ChainsOwned

\* Every disk request is answered and virtio_disk_rw() returns.
DiskAnswers ==
    \A p \in Procs : pc[p] # "idle" ~> pc[p] = "idle"
=============================================================================
