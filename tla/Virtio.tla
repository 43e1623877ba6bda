------------------------------- MODULE Virtio -------------------------------
(***************************************************************************)
(* kernel/virtio_disk.c: the disk driver, its descriptors and rings, and   *)
(* the device on the other side of them.  The device takes no lock: it may *)
(* move between any two steps of the driver, finishes requests in any      *)
(* order, and raises one interrupt for one or for several of them.         *)
(***************************************************************************)
EXTENDS Integers, FiniteSets, FiniteSetsExt

CONSTANTS
    Proc,    \* the callers of virtio_disk_rw(), each with a buffer of its own
    Block, Val,
    None,    \* no process
    NUM,     \* the number of descriptors, and the size of the rings
    UINT16   \* the number of values of a uint16

Desc == 0..(NUM - 1)
Idx  == 0..(UINT16 - 1)
Intr == "virtio_disk_intr"   \* the interrupt handler, as a holder of the lock

ASSUME VirtioAssumption ==
    /\ NUM \in Nat \ {0} /\ UINT16 \in Nat
    /\ \E k \in 2..UINT16 : UINT16 = k * NUM
    /\ None \notin Proc /\ Intr \notin Proc \cup {None}

VARIABLES
    lock,         \* the holder of disk.vdisk_lock
    free,         \* the free descriptors
    next,         \* [Desc -> Desc]: desc[].next of the chained descriptors
    addr,         \* [Desc -> Proc \cup {None}]: desc[].addr, where it is a buffer
    ops,          \* [Desc -> the type and sector of the request]
    info,         \* [Desc -> Proc \cup {None}]: info[].b
    status,       \* [Desc -> {0, 255}]: info[].status
    avail, avail_idx,  \* the avail ring: written by the driver
    used, dev_used,    \* the used ring and its idx: written by the device
    used_idx,     \* disk.used_idx: how far the driver has looked
    disk_owns,    \* [Proc -> BOOLEAN]: b->disk
    pc,           \* [Proc -> where the caller is in virtio_disk_rw()]
    idx,          \* [Proc -> Desc]: its idx[0]
    \* The device.
    dev_avail,    \* how far it has looked in the avail ring
    inflight,     \* the heads of the chains it works on
    interrupt,    \* its interrupt is pending
    \* The transfers.
    disk, data, req,
    phase         \* AtomicDisk's view of each caller; not in the code

descs   == <<free, next, addr, ops, info, status>>
rings   == <<avail, avail_idx, used, dev_used, used_idx>>
device  == <<dev_avail, inflight, interrupt>>
content == <<disk, data, req>>
vars    == <<lock, descs, rings, disk_owns, pc, idx, device, content, phase>>

inc(i) == (i + 1) % UINT16

----------------------------------------------------------------------------
(* virtio_disk_rw() *)

Goto(p, l) == pc' = [pc EXCEPT ![p] = l]

\* free_desc(): wakeup of the callers that wait for descriptors, by p on its way
\* to l.
wakeup_free_lost(p, l) == Goto(p, l)
wakeup_free(p, l) ==
    pc' = [q \in Proc |-> IF q = p THEN l ELSE IF pc[q] = "wait_free" THEN "alloc" ELSE pc[q]]

call(p, v, r) ==
    /\ pc[p] = "idle"
    /\ data' = [data EXCEPT ![p] = v]
    /\ req' = [req EXCEPT ![p] = r]
    /\ Goto(p, "alloc")
    /\ phase' = [phase EXCEPT ![p] = "called"]
    /\ UNCHANGED <<lock, descs, rings, disk_owns, idx, device, disk>>

\* alloc3_desc() fails: what it took it gives back, with a wakeup each.
alloc3_fails(p) ==
    /\ pc[p] = "alloc" /\ lock = None
    /\ Cardinality(free) < 3
    /\ IF free = {} THEN Goto(p, "wait_free") ELSE wakeup_free(p, "wait_free")
    /\ UNCHANGED <<lock, descs, rings, disk_owns, idx, device, content, phase>>

\* alloc3_desc() takes the three lowest; the request is put into them.
format(p) ==
    /\ pc[p] = "alloc" /\ lock = None
    /\ Cardinality(free) >= 3
    /\ LET i == Min(free)
           j == Min(free \ {i})
           k == Min(free \ {i, j})
       IN /\ free' = free \ {i, j, k}
          /\ next' = [next EXCEPT ![i] = j, ![j] = k]
          /\ addr' = [addr EXCEPT ![j] = p]
          /\ ops' = [ops EXCEPT ![i] = req[p]]
          /\ status' = [status EXCEPT ![i] = 255]
          /\ info' = [info EXCEPT ![i] = p]
          /\ idx' = [idx EXCEPT ![p] = i]
    /\ disk_owns' = [disk_owns EXCEPT ![p] = TRUE]
    /\ lock' = p
    /\ Goto(p, "publish")
    /\ UNCHANGED <<rings, device, content, phase>>

\* The ring entry first ...
publish(p) ==
    /\ pc[p] = "publish"
    /\ avail' = [avail EXCEPT ![avail_idx % NUM] = idx[p]]
    /\ Goto(p, "notify")
    /\ UNCHANGED <<lock, descs, avail_idx, used, dev_used, used_idx, disk_owns, idx, device,
                   content, phase>>

\* ... then the index that tells the device of it; and sleep().
notify(p) ==
    /\ pc[p] = "notify"
    /\ avail_idx' = inc(avail_idx)
    /\ lock' = None
    /\ Goto(p, "wait_disk")
    /\ UNCHANGED <<descs, avail, used, dev_used, used_idx, disk_owns, idx, device, content, phase>>

\* Woken up while the disk still owns the buffer.
done_assumed(p) == TRUE
done(p) == ~disk_owns[p]

sleep_again(p) ==
    /\ pc[p] = "check" /\ lock = None /\ ~done(p)
    /\ Goto(p, "wait_disk")
    /\ UNCHANGED <<lock, descs, rings, disk_owns, idx, device, content, phase>>

Chain(h) == {h, next[h], next[next[h]]}

\* free_chain(): the descriptors it passes to free_desc(): the flags of a request say
\* that its third is the last.  Free_desc() panics at one that is free already, which
\* DescriptorsAccounted excludes.
free_chain_head_only(h) == {h}
free_chain(h) == Chain(h)

finish(p) ==
    /\ pc[p] = "check" /\ lock = None /\ done(p)
    /\ info' = [info EXCEPT ![idx[p]] = None]
    /\ free' = free \cup free_chain(idx[p])
    /\ next' = [d \in Desc |-> IF d \in free_chain(idx[p]) THEN 0 ELSE next[d]]
    /\ addr' = [d \in Desc |-> IF d \in free_chain(idx[p]) THEN None ELSE addr[d]]
    /\ idx' = [idx EXCEPT ![p] = 0]
    /\ wakeup_free(p, "idle")
    /\ phase' = [phase EXCEPT ![p] = "idle"]
    /\ UNCHANGED <<lock, ops, status, rings, disk_owns, device, content>>

\* kkill() wakes up whoever sleeps.
kkill(p) ==
    /\ \/ pc[p] = "wait_free" /\ Goto(p, "alloc")
       \/ pc[p] = "wait_disk" /\ Goto(p, "check")
    /\ UNCHANGED <<lock, descs, rings, disk_owns, idx, device, content, phase>>

----------------------------------------------------------------------------
(* virtio_disk_intr() *)

intr_ack ==
    /\ interrupt /\ lock = None
    /\ interrupt' = FALSE
    /\ lock' = Intr
    /\ UNCHANGED <<descs, rings, disk_owns, pc, idx, dev_avail, inflight, content, phase>>

\* One entry of the used ring, and the wakeup of its caller.
intr_entry ==
    /\ lock = Intr /\ used_idx # dev_used
    /\ LET h == used[used_idx % NUM]
           b == info[h]
       IN IF status[h] # 0
          THEN /\ lock' = "panic"
               /\ UNCHANGED <<disk_owns, pc, used_idx>>
          ELSE /\ disk_owns' = [disk_owns EXCEPT ![b] = FALSE]
               /\ pc' = IF pc[b] = "wait_disk" THEN [pc EXCEPT ![b] = "check"] ELSE pc
               /\ used_idx' = inc(used_idx)
               /\ UNCHANGED lock
    /\ UNCHANGED <<descs, avail, avail_idx, used, dev_used, idx, device, content, phase>>

intr_seen_all_after_one == TRUE
intr_seen_all == used_idx = dev_used

intr_end ==
    /\ lock = Intr /\ intr_seen_all
    /\ lock' = None
    /\ UNCHANGED <<descs, rings, disk_owns, pc, idx, device, content, phase>>

----------------------------------------------------------------------------
(* The device, as the virtio rings let it behave. *)

dev_fetch ==
    /\ dev_avail # avail_idx
    /\ inflight' = inflight \cup {avail[dev_avail % NUM]}
    /\ dev_avail' = inc(dev_avail)
    /\ UNCHANGED <<lock, descs, rings, disk_owns, pc, idx, interrupt, content, phase>>

\* The transfer of the request with head h, as its descriptors say.
dev_complete(h) ==
    LET b == addr[next[h]] IN
    /\ h \in inflight
    /\ inflight' = inflight \ {h}
    /\ IF ops[h].write
       THEN disk' = [disk EXCEPT ![ops[h].block] = data[b]] /\ UNCHANGED data
       ELSE data' = [data EXCEPT ![b] = disk[ops[h].block]] /\ UNCHANGED disk
    /\ status' = [status EXCEPT ![h] = 0]
    /\ used' = [used EXCEPT ![dev_used % NUM] = h]
    /\ dev_used' = inc(dev_used)
    /\ interrupt' = TRUE
    /\ phase' = [phase EXCEPT ![b] = "done"]
    /\ UNCHANGED <<lock, free, next, addr, ops, info, avail, avail_idx, used_idx, disk_owns, pc,
                   idx, dev_avail, req>>

----------------------------------------------------------------------------
Request == [write : BOOLEAN, block : Block]

\* virtio_disk_init()
Init ==
    /\ lock = None
    /\ free = Desc
    /\ next = [d \in Desc |-> 0]
    /\ addr = [d \in Desc |-> None]
    /\ \E r \in Request : ops = [d \in Desc |-> r] /\ req = [p \in Proc |-> r]
    /\ info = [d \in Desc |-> None]
    /\ status = [d \in Desc |-> 0]
    /\ avail = [i \in Desc |-> 0] /\ avail_idx = 0
    /\ used = [i \in Desc |-> 0] /\ dev_used = 0
    /\ used_idx = 0
    /\ disk_owns = [p \in Proc |-> FALSE]
    /\ pc = [p \in Proc |-> "idle"]
    /\ idx = [p \in Proc |-> 0]
    /\ dev_avail = 0 /\ inflight = {} /\ interrupt = FALSE
    /\ disk \in [Block -> Val]
    /\ \E v \in Val : data = [p \in Proc |-> v]
    /\ phase = [p \in Proc |-> "idle"]

Driver(p) == alloc3_fails(p) \/ format(p) \/ publish(p) \/ notify(p) \/ sleep_again(p) \/ finish(p)

Handler == intr_ack \/ intr_entry \/ intr_end

Device == dev_fetch \/ \E h \in Desc : dev_complete(h)

Next ==
    \/ \E p \in Proc : Driver(p) \/ kkill(p) \/ \E v \in Val, r \in Request : call(p, v, r)
    \/ Handler
    \/ Device

Spec == Init /\ [][Next]_vars

\* The device finishes what it is given, the interrupt is delivered, and whoever
\* spins for the lock gets it, though not necessarily at a time when descriptors
\* are free.
Fairness ==
    /\ \A p \in Proc : /\ SF_vars(alloc3_fails(p) \/ format(p))
                       /\ SF_vars(sleep_again(p) \/ finish(p))
                       /\ WF_vars(publish(p) \/ notify(p))
    /\ SF_vars(intr_ack) /\ WF_vars(intr_entry \/ intr_end)
    /\ WF_vars(dev_fetch) /\ \A h \in Desc : WF_vars(dev_complete(h))

FairSpec == Spec /\ Fairness

----------------------------------------------------------------------------
(* Properties *)

Disk == INSTANCE AtomicDisk

\* virtio_disk_rw(): whatever the order in which requests finish and interrupts
\* arrive, across the wrap of the 16-bit indices, and although kill() may wake
\* the caller early, it returns after its own transfer has happened once.
TransferOnce == Disk!Spec

\* The requests between alloc3_desc() and free_chain().
Active == {p \in Proc : pc[p] \in {"publish", "notify", "wait_disk", "check"}}

TypeOK ==
    /\ lock \in Proc \cup {None, Intr}
    /\ free \in SUBSET Desc
    /\ next \in [Desc -> Desc]
    /\ addr \in [Desc -> Proc \cup {None}]
    /\ ops \in [Desc -> Request]
    /\ info \in [Desc -> Proc \cup {None}]
    /\ status \in [Desc -> {0, 255}]
    /\ avail \in [Desc -> Desc] /\ avail_idx \in Idx
    /\ used \in [Desc -> Desc] /\ dev_used \in Idx
    /\ used_idx \in Idx
    /\ disk_owns \in [Proc -> BOOLEAN]
    /\ pc \in [Proc -> {"idle", "alloc", "wait_free", "publish", "notify", "wait_disk", "check"}]
    /\ idx \in [Proc -> Desc]
    /\ dev_avail \in Idx /\ inflight \in SUBSET Desc /\ interrupt \in BOOLEAN
    /\ disk \in [Block -> Val] /\ data \in [Proc -> Val] /\ req \in [Proc -> Request]
    /\ phase \in [Proc -> {"idle", "called", "done"}]

\* The entries of a ring from one index up to another, and that they are all different.
Pending(from, to)        == (to + UINT16 - from) % UINT16
Entry(ring, from, i)     == ring[((from + i) % UINT16) % NUM]
Entries(ring, from, to)  == {Entry(ring, from, i) : i \in 0..(Pending(from, to) - 1)}
Distinct(ring, from, to) ==
    \A i, j \in 0..(Pending(from, to) - 1) : i # j => Entry(ring, from, i) # Entry(ring, from, j)

\* Every request has three descriptors of its own that describe it; the others are free.
Chains ==
    /\ \A p, q \in Active : p # q => Chain(idx[p]) \cap Chain(idx[q]) = {}
    /\ \A p \in Active : LET h == idx[p] IN
          /\ h # next[h] /\ h # next[next[h]] /\ next[h] # next[next[h]]
          /\ info[h] = p /\ addr[next[h]] = p /\ ops[h] = req[p]
    /\ free = Desc \ UNION {Chain(idx[p]) : p \in Active}

\* Where a caller is, and what the disk has done for it.
Waiting == {p \in Proc : pc[p] \in {"wait_disk", "check"}}
Stages ==
    /\ \A p \in Proc : pc[p] \in {"publish", "notify"} <=> lock = p
    /\ \A p \in Proc : phase[p] = "idle" <=> pc[p] = "idle"
    /\ \A p \in Proc : phase[p] = "done" => p \in Waiting
    /\ \A p \in Proc : pc[p] = "wait_disk" \/ (p \in Active /\ phase[p] = "called") => disk_owns[p]
    /\ \A p \in Proc : disk_owns[p] => p \in Active

\* A request handed to the disk is in the avail ring, at the device or in the used ring,
\* and nowhere twice; the interrupt for what is in the used ring is still to come.
Handed ==
    /\ \A p \in Proc : pc[p] = "notify" => avail[avail_idx % NUM] = idx[p]
    /\ Distinct(avail, dev_avail, avail_idx) /\ Distinct(used, used_idx, dev_used)
    /\ Entries(avail, dev_avail, avail_idx) \cap inflight = {}
    /\ Entries(avail, dev_avail, avail_idx) \cup inflight
          = {idx[p] : p \in {q \in Waiting : phase[q] = "called"}}
    /\ Entries(used, used_idx, dev_used)
          = {idx[p] : p \in {q \in Waiting : phase[q] = "done" /\ disk_owns[q]}}
    /\ \A h \in Entries(used, used_idx, dev_used) : status[h] = 0
    /\ used_idx # dev_used => interrupt \/ lock = Intr

\* The invariant behind the properties.
IInv == TypeOK /\ Chains /\ Stages /\ Handed

\* alloc3_desc(), free_chain(): the chains of the requests are disjoint, and a
\* descriptor is free exactly when no request has it: none is leaked or freed
\* twice, and the device never follows a chain that is not a request's.
DescriptorsAccounted ==
    /\ IInv
    /\ \A p \in Active : Cardinality(Chain(idx[p])) = 3
    /\ inflight \subseteq {idx[p] : p \in Active}

\* virtio_disk_intr(): no completion is lost: a caller asleep with its request
\* finished has an entry of the used ring and an interrupt still to come.
CompletionPending ==
    \A p \in Proc : pc[p] = "wait_disk" /\ phase[p] = "done"
        => /\ disk_owns[p] /\ used_idx # dev_used
           /\ interrupt \/ lock = Intr

\* virtio_disk_rw(): a caller that has its descriptors returns; one that waits
\* for them also does, unless others take them again and again.
RequestsFinish ==
    \A p \in Proc :
        /\ p \in Active ~> p \notin Active
        /\ \/ pc[p] # "idle" ~> pc[p] = "idle"
           \/ []<><<\E q \in Proc \ {p} : format(q)>>_vars
=============================================================================
