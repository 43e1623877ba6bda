---------------------------- MODULE VirtioProofs ----------------------------
(***************************************************************************)
(* The disk driver with any number of callers and descriptors and any      *)
(* width of the ring indices: the invariant of kernel/virtio_disk.c, that  *)
(* no descriptor and no completion is lost, and that every call implements *)
(* the one transfer of AtomicDisk.                                         *)
(***************************************************************************)
EXTENDS Virtio, TLAPS



(* Remainders. *)

LEMMA ModRange ==
    ASSUME NEW u \in Nat \ {0}, NEW x \in Nat
    PROVE  x % u \in 0..(u - 1)
OBVIOUS

\* A counter wraps at most once in a step.
LEMMA ModWrap ==
    ASSUME NEW u \in Nat \ {0}, NEW x \in 0..(2 * u - 1)
    PROVE  x % u = IF x < u THEN x ELSE x - u
OBVIOUS

LEMMA Quotient ==
    ASSUME NEW u \in Nat \ {0}, NEW x \in Nat
    PROVE  \E q \in Int : x % u = x - u * q
<1>1. x \div u \in Int
  OBVIOUS
<1>2. x % u = x - u * (x \div u)
  OBVIOUS
<1> QED BY Zenon, <1>1, <1>2

\* Two positions less than m apart have different places in a ring of m.
LEMMA ModDistinct ==
    ASSUME NEW m \in Nat \ {0}, NEW x \in Nat, NEW y \in Nat, x < y, y < x + m
    PROVE  x % m # y % m
<1>1. PICK a \in Int : x % m = x - m * a
  BY Zenon, Quotient
<1>2. PICK b \in Int : y % m = y - m * b
  BY Zenon, Quotient
<1>3. ASSUME x - m * a = y - m * b PROVE FALSE
  <2>1. y - x = m * (b - a)
    BY ONLY <1>3, a \in Int, b \in Int, x \in Nat, y \in Nat, m \in Nat \ {0}
  <2>2. b - a >= 1
    BY <2>1
  <2>3. m * (b - a) >= m
    BY <2>2
  <2> QED BY <2>1, <2>3
<1> QED BY Zenon, <1>1, <1>2, <1>3

LEMMA Remainder ==
    ASSUME NEW m \in Nat \ {0}, NEW q \in Int, NEW r \in 0..(m - 1)
    PROVE  (m * q + r) % m = r
OBVIOUS

\* The place in the ring does not depend on the wrap of the counter.
LEMMA ModOfMultiple ==
    ASSUME NEW m \in Nat \ {0}, NEW k \in Nat, NEW x \in Nat
    PROVE  (x - k * m) % m = x % m
<1>1. PICK a \in Int : x % m = x - m * a
  BY Zenon, Quotient
<1> DEFINE r == x % m
<1>2. r \in 0..(m - 1)
  BY Zenon, ModRange
<1>3. r = x - m * a
  BY Zenon, <1>1
<1> HIDE DEF r
<1>4. x - k * m = m * (a - k) + r
  BY <1>2, <1>3
<1>5. (m * (a - k) + r) % m = r
  BY <1>2, Remainder
<1> QED BY Zenon, <1>4, <1>5 DEF r

(* The rings. *)

LEMMA Sizes ==
    /\ NUM \in Nat \ {0} /\ UINT16 \in Nat \ {0} /\ NUM < UINT16
    /\ \E k \in Nat : UINT16 = k * NUM
<1>1. PICK k \in 2..UINT16 : UINT16 = k * NUM
  BY Zenon, VirtioAssumption
<1>2. k * NUM >= 2 * NUM
  BY <1>1, VirtioAssumption
<1>3. k \in Nat /\ NUM \in Nat \ {0}
  BY <1>1, VirtioAssumption
<1> QED BY ONLY <1>1, <1>2, <1>3

LEMMA Place ==
    ASSUME NEW x \in 0..(2 * UINT16 - 1)
    PROVE  (x % UINT16) % NUM = x % NUM
<1>1. PICK k \in Nat : UINT16 = k * NUM
  BY Zenon, Sizes
<1>2. x % UINT16 = IF x < UINT16 THEN x ELSE x - UINT16
  BY Zenon, Sizes, ModWrap
<1>3. (x - k * NUM) % NUM = x % NUM
  <2>1. NUM \in Nat \ {0} /\ x \in Nat
    BY Sizes
  <2> QED BY ONLY Zenon, <2>1, k \in Nat, ModOfMultiple
<1> QED BY ONLY Zenon, <1>1, <1>2, <1>3

LEMMA IncValue ==
    ASSUME NEW t \in Idx
    PROVE  /\ inc(t) = IF t + 1 < UINT16 THEN t + 1 ELSE 0
           /\ inc(t) \in Idx
<1>1. PICK x \in 0..(2 * UINT16 - 1) : x = t + 1
  BY Sizes DEF Idx
<1>2. x % UINT16 = IF x < UINT16 THEN x ELSE x - UINT16
  BY Zenon, Sizes, ModWrap
<1> QED BY <1>1, <1>2, Sizes DEF inc, Idx

LEMMA PendingValue ==
    ASSUME NEW f \in Idx, NEW t \in Idx
    PROVE  /\ Pending(f, t) = IF f <= t THEN t - f ELSE t + UINT16 - f
           /\ Pending(f, t) \in 0..(UINT16 - 1)
           /\ Pending(f, t) = 0 <=> f = t
<1>1. PICK x \in 0..(2 * UINT16 - 1) : x = t + UINT16 - f
  BY Sizes DEF Idx
<1>2. x % UINT16 = IF x < UINT16 THEN x ELSE x - UINT16
  BY Zenon, Sizes, ModWrap
<1> QED BY <1>1, <1>2, Sizes DEF Pending, Idx

\* virtio_disk.c:272, 314: UINT16 is a multiple of NUM, so an entry's place in the ring
\* does not depend on the wrap of the index.
LEMMA EntryPlace ==
    ASSUME NEW r, NEW f \in Idx, NEW i \in 0..(UINT16 - 1)
    PROVE  Entry(r, f, i) = r[(f + i) % NUM] /\ (f + i) % NUM \in Desc
<1>1. PICK x \in 0..(2 * UINT16 - 1) : x = f + i
  BY Sizes DEF Idx
<1>2. (x % UINT16) % NUM = x % NUM
  BY Zenon, Place
<1>3. x % NUM \in 0..(NUM - 1)
  BY Sizes, ModRange
<1> QED BY Zenon, <1>1, <1>2, <1>3 DEF Entry, Desc

\* The entry that the next index is for.
LEMMA LastPlace ==
    ASSUME NEW f \in Idx, NEW t \in Idx
    PROVE  (f + Pending(f, t)) % NUM = t % NUM
<1>1. CASE f <= t
  <2>1. f + Pending(f, t) = t
    BY <1>1, PendingValue DEF Idx
  <2> QED BY Zenon, <2>1
<1>2. CASE ~(f <= t)
  <2>1. PICK x \in 0..(2 * UINT16 - 1) : x = t + UINT16
    BY Sizes DEF Idx
  <2>2. f + Pending(f, t) = x
    BY <1>2, <2>1, PendingValue, Sizes DEF Idx
  <2>3. x % UINT16 = t
    <3>1. x % UINT16 = IF x < UINT16 THEN x ELSE x - UINT16
      BY Zenon, Sizes, ModWrap
    <3> QED BY <2>1, <3>1, Sizes DEF Idx
  <2>4. t % NUM = x % NUM
    BY ONLY Zenon, <2>3, Place
  <2> QED BY Zenon, <2>2, <2>4
<1> QED BY Zenon, <1>1, <1>2

IsRing(r, f, t)  == r \in [Desc -> Desc] /\ f \in Idx /\ t \in Idx /\ Distinct(r, f, t)
SameBut(r, s, i) == s \in [Desc -> Desc] /\ \A d \in Desc \ {i} : s[d] = r[d]

\* virtio_disk.c:312-323: looking at an entry takes it, and no other, out of the ring.
LEMMA TakeEntry ==
    ASSUME NEW r \in [Desc -> Desc], NEW f \in Idx, NEW t \in Idx, Distinct(r, f, t), f # t
    PROVE  /\ inc(f) \in Idx /\ r[f % NUM] \in Entries(r, f, t)
           /\ Entries(r, inc(f), t) = Entries(r, f, t) \ {r[f % NUM]}
           /\ Distinct(r, inc(f), t)
<1> DEFINE n == Pending(f, t)
<1>1. n \in 1..(UINT16 - 1) /\ NUM \in Nat \ {0} /\ UINT16 \in Nat /\ NUM < UINT16
  BY PendingValue, Sizes
<1>2. inc(f) \in Idx /\ inc(f) = IF f + 1 < UINT16 THEN f + 1 ELSE 0
  BY Zenon, IncValue
<1>3. Pending(inc(f), t) = n - 1
  <2>1. n = IF f <= t THEN t - f ELSE t + UINT16 - f
    BY Zenon, PendingValue
  <2>2. Pending(inc(f), t) = IF inc(f) <= t THEN t - inc(f) ELSE t + UINT16 - inc(f)
    BY Zenon, <1>2, PendingValue
  <2> QED BY <1>1, <1>2, <2>1, <2>2 DEF Idx
<1>4. ASSUME NEW i \in 0..((n - 1) - 1) PROVE Entry(r, inc(f), i) = Entry(r, f, i + 1)
  <2>1. CASE f + 1 < UINT16
    <3>1. inc(f) + i = f + (i + 1)
      BY <1>2, <2>1 DEF Idx
    <3> QED BY Zenon, <3>1 DEF Entry
  <2>2. CASE ~(f + 1 < UINT16)
    <3>1. inc(f) + i = i /\ f + (i + 1) = UINT16 + i
      BY <1>1, <1>2, <2>2 DEF Idx
    <3>2. PICK x \in 0..(2 * UINT16 - 1) : x = UINT16 + i
      BY <1>1
    <3>3. PICK y \in 0..(2 * UINT16 - 1) : y = i
      BY <1>1
    <3>4. x % UINT16 = IF x < UINT16 THEN x ELSE x - UINT16
      BY Zenon, Sizes, ModWrap
    <3>5. y % UINT16 = IF y < UINT16 THEN y ELSE y - UINT16
      BY Zenon, Sizes, ModWrap
    <3>6. x % UINT16 = y % UINT16
      BY <1>1, <3>2, <3>3, <3>4, <3>5
    <3> QED BY Zenon, <3>1, <3>2, <3>3, <3>6 DEF Entry
  <2> QED BY Zenon, <2>1, <2>2
<1>5. Entry(r, f, 0) = r[f % NUM]
  <2>1. f + 0 = f /\ 0 \in 0..(UINT16 - 1)
    BY <1>1 DEF Idx
  <2> QED BY Zenon, <2>1, EntryPlace
<1>6. r[f % NUM] \in Entries(r, f, t)
  BY <1>1, <1>5 DEF Entries
<1>7. Entries(r, inc(f), t) = Entries(r, f, t) \ {r[f % NUM]}
  <2>1. \A i \in 0..((n - 1) - 1) : i + 1 \in 0..(n - 1) /\ i + 1 # 0
    BY <1>1
  <2>2. \A j \in 0..(n - 1) : j = 0 \/ (j - 1 \in 0..((n - 1) - 1) /\ (j - 1) + 1 = j)
    BY <1>1
  <2>3. 0 \in 0..(n - 1)
    BY <1>1
  <2>4. \A x \in Entries(r, inc(f), t) : x \in Entries(r, f, t) \ {r[f % NUM]}
    BY <1>3, <1>4, <1>5, <2>1, <2>3 DEF Entries, Distinct
  <2>5. \A x \in Entries(r, f, t) \ {r[f % NUM]} : x \in Entries(r, inc(f), t)
    BY <1>3, <1>4, <1>5, <2>2 DEF Entries
  <2> QED BY Zenon, <2>4, <2>5
<1>8. Distinct(r, inc(f), t)
  <2>1. \A i, j \in 0..((n - 1) - 1) : i + 1 \in 0..(n - 1) /\ (i # j => i + 1 # j + 1)
    BY <1>1
  <2> QED BY <1>3, <1>4, <2>1 DEF Distinct
<1> QED BY Zenon, <1>2, <1>6, <1>7, <1>8

LEMMA InitInv == Init => IInv
<1> SUFFICES ASSUME Init PROVE IInv
  BY Zenon
<1> USE VirtioAssumption, Sizes
<1>1. TypeOK
  <2>1. 0 \in Desc /\ 0 \in Idx
    BY DEF Desc, Idx
  <2>2. ops \in [Desc -> Request] /\ req \in [Proc -> Request] /\ data \in [Proc -> Val]
    BY Zenon DEF Init
  <2> QED BY Zenon, <2>1, <2>2 DEF Init, TypeOK
<1>2. Active = {} /\ Waiting = {}
  BY Zenon DEF Init, Active, Waiting
<1>3. Chains
  BY Zenon, <1>2 DEF Init, Chains
<1>4. Stages
  BY Zenon, <1>2 DEF Init, Stages
<1>5. Handed
  <2>1. 0 \in Idx
    BY DEF Idx
  <2>2. Pending(0, 0) = 0
    BY Zenon, <2>1, PendingValue
  <2>3. Entries(avail, 0, 0) = {} /\ Entries(used, 0, 0) = {}
        /\ Distinct(avail, 0, 0) /\ Distinct(used, 0, 0)
    BY <2>2 DEF Entries, Distinct
  <2> QED BY Zenon, <1>2, <2>3 DEF Init, Handed
<1> QED BY Zenon, <1>1, <1>3, <1>4, <1>5 DEF IInv

\* The chains of the requests, in a step that leaves the descriptors alone.
LEMMA ChainsKept ==
    ASSUME Chains, Active' = Active, UNCHANGED <<free, next, addr, ops, info, idx, req>>
    PROVE  Chains'
<1>1. \A h : Chain(h)' = Chain(h)
  BY ONLY Zenon, UNCHANGED <<free, next, addr, ops, info, idx, req>> DEF Chain
<1>2. {Chain(idx[p]) : p \in Active}' = {Chain(idx[p]) : p \in Active}
  BY ONLY Zenon, Active' = Active, UNCHANGED <<free, next, addr, ops, info, idx, req>>, <1>1
<1> QED BY Zenon, <1>1, <1>2 DEF Chains

\* virtio_disk_rw(): the call.
LEMMA CallInv ==
    ASSUME IInv, NEW p \in Proc, NEW v \in Val, NEW r \in Request, call(p, v, r)
    PROVE  IInv'
<1> USE VirtioAssumption DEF IInv, descs, rings, device, content
<1>1. TypeOK'
  BY Zenon DEF TypeOK, call, Goto
<1>2. Active' = Active /\ Waiting' = Waiting
  BY DEF TypeOK, Active, Waiting, call, Goto
<1>3. Chains'
  BY <1>2 DEF TypeOK, Chains, Chain, Active, call, Goto
<1>4. Stages'
  BY <1>2 DEF TypeOK, Stages, Active, Waiting, call, Goto
<1>5. Handed'
  BY <1>2 DEF TypeOK, Stages, Handed, Waiting, call, Goto
<1> QED BY Zenon, <1>1, <1>3, <1>4, <1>5

\* virtio_disk.c:228-232: too few descriptors are free.
LEMMA AllocFailsInv ==
    ASSUME IInv, NEW p \in Proc, alloc3_fails(p)
    PROVE  IInv'
<1> USE VirtioAssumption DEF IInv, descs, rings, device, content
<1>1. TypeOK'
  BY DEF TypeOK, alloc3_fails, Goto, wakeup_free
<1>2. Active' = Active /\ Waiting' = Waiting
  BY DEF TypeOK, Active, Waiting, alloc3_fails, Goto, wakeup_free
<1>3. Chains'
  BY Zenon, <1>2, ChainsKept DEF alloc3_fails
<1>4. Stages'
  BY <1>2 DEF TypeOK, Stages, Active, Waiting, alloc3_fails, Goto, wakeup_free
<1>5. Handed'
  BY <1>2 DEF TypeOK, Stages, Handed, Waiting, alloc3_fails, Goto, wakeup_free
<1> QED BY Zenon, <1>1, <1>3, <1>4, <1>5

\* virtio_disk.c:284-286: woken up too early.
LEMMA SleepAgainInv ==
    ASSUME IInv, NEW p \in Proc, sleep_again(p)
    PROVE  IInv'
<1> USE VirtioAssumption DEF IInv, descs, rings, device, content
<1>1. TypeOK'
  BY Zenon DEF TypeOK, sleep_again, Goto, done
<1>2. Active' = Active /\ Waiting' = Waiting
  BY DEF TypeOK, Active, Waiting, sleep_again, Goto, done
<1>3. Chains'
  BY Zenon, <1>2, ChainsKept DEF sleep_again
<1>4. Stages'
  BY <1>2 DEF TypeOK, Stages, Active, Waiting, sleep_again, Goto, done
<1>5. Handed'
  BY <1>2 DEF TypeOK, Stages, Handed, Waiting, sleep_again, Goto, done
<1> QED BY Zenon, <1>1, <1>3, <1>4, <1>5

\* kkill() of a sleeping caller.
LEMMA KillInv ==
    ASSUME IInv, NEW p \in Proc, kkill(p)
    PROVE  IInv'
<1> USE VirtioAssumption DEF IInv, descs, rings, device, content
<1>1. TypeOK'
  BY DEF TypeOK, kkill, Goto
<1>2. Active' = Active /\ Waiting' = Waiting
  BY DEF TypeOK, Active, Waiting, kkill, Goto
<1>3. Chains'
  BY Zenon, <1>2, ChainsKept DEF kkill
<1>4. Stages'
  BY <1>2 DEF TypeOK, Stages, Active, Waiting, kkill, Goto
<1>5. Handed'
  BY <1>2 DEF TypeOK, Stages, Handed, Waiting, kkill, Goto
<1> QED BY Zenon, <1>1, <1>3, <1>4, <1>5

\* virtio_disk.c:297-305: the interrupt is taken.
LEMMA IntrAckInv ==
    ASSUME IInv, intr_ack
    PROVE  IInv'
<1> USE VirtioAssumption DEF IInv, descs, rings, device, content
<1>1. TypeOK'
  BY Zenon DEF TypeOK, intr_ack
<1>2. Active' = Active /\ Waiting' = Waiting
  BY DEF TypeOK, Active, Waiting, intr_ack
<1>3. Chains'
  BY Zenon, <1>2, ChainsKept DEF intr_ack
<1>4. Stages'
  BY <1>2 DEF TypeOK, Stages, Active, Waiting, intr_ack
<1>5. Handed'
  BY <1>2 DEF TypeOK, Stages, Handed, Waiting, intr_ack
<1> QED BY Zenon, <1>1, <1>3, <1>4, <1>5

\* virtio_disk.c:312: the used ring has been seen to its end.
LEMMA IntrEndInv ==
    ASSUME IInv, intr_end
    PROVE  IInv'
<1> USE VirtioAssumption DEF IInv, descs, rings, device, content
<1>1. TypeOK'
  BY Zenon DEF TypeOK, intr_end, intr_seen_all
<1>2. Active' = Active /\ Waiting' = Waiting
  BY DEF TypeOK, Active, Waiting, intr_end, intr_seen_all
<1>3. Chains'
  BY Zenon, <1>2, ChainsKept DEF intr_end
<1>4. Stages'
  BY <1>2 DEF TypeOK, Stages, Active, Waiting, intr_end, intr_seen_all
<1>5. Handed'
  BY <1>2 DEF TypeOK, Stages, Handed, Waiting, intr_end, intr_seen_all
<1> QED BY Zenon, <1>1, <1>3, <1>4, <1>5

\* No two requests have the same head, and the heads are not free.
LEMMA Heads ==
    ASSUME IInv
    PROVE  /\ \A p, q \in Active : idx[p] = idx[q] => p = q
           /\ \A p \in Active : idx[p] \in Desc /\ idx[p] \notin free
           /\ Waiting \subseteq Active /\ Active \subseteq Proc
BY DEF IInv, TypeOK, Chains, Chain, Active, Waiting

\* The device takes a request from the avail ring.
LEMMA DevFetchInv ==
    ASSUME IInv, dev_fetch
    PROVE  IInv'
<1> DEFINE h == avail[dev_avail % NUM]
<1>1. /\ dev_avail' \in Idx /\ h \in Entries(avail, dev_avail, avail_idx)
      /\ Entries(avail, dev_avail', avail_idx) = Entries(avail, dev_avail, avail_idx) \ {h}
      /\ Distinct(avail, dev_avail', avail_idx)
  BY Zenon, TakeEntry DEF IInv, TypeOK, Handed, dev_fetch
<1>2. h \in Desc
  BY <1>1, Heads DEF IInv, Handed
<1>3. inflight' = inflight \cup {h}
  BY Zenon DEF dev_fetch
<1> HIDE DEF h
<1> USE VirtioAssumption DEF IInv, descs, rings, device, content
<1>4. TypeOK'
  BY <1>1, <1>2, <1>3 DEF TypeOK, dev_fetch
<1>5. Active' = Active /\ Waiting' = Waiting
  BY Zenon DEF Active, Waiting, dev_fetch
<1>6. Chains'
  BY Zenon, <1>5, ChainsKept DEF dev_fetch
<1>7. Stages'
  BY Zenon, <1>5 DEF Stages, dev_fetch
<1>8. Handed'
  <2>1. Entries(avail, dev_avail', avail_idx) \cap inflight' = {}
    BY Zenon, <1>1, <1>3 DEF Handed
  <2>2. Entries(avail, dev_avail', avail_idx) \cup inflight'
          = Entries(avail, dev_avail, avail_idx) \cup inflight
    BY Zenon, <1>1, <1>3
  <2> QED BY <1>1, <1>5, <2>1, <2>2 DEF Handed, dev_fetch
<1> QED BY Zenon, <1>4, <1>6, <1>7, <1>8

\* virtio_disk.c:312-323: one entry of the used ring; its status is 0.
LEMMA IntrEntryInv ==
    ASSUME IInv, intr_entry
    PROVE  IInv'
<1> DEFINE h == used[used_idx % NUM]
<1>1. /\ inc(used_idx) \in Idx /\ h \in Entries(used, used_idx, dev_used)
      /\ Entries(used, inc(used_idx), dev_used) = Entries(used, used_idx, dev_used) \ {h}
      /\ Distinct(used, inc(used_idx), dev_used)
  BY Zenon, TakeEntry DEF IInv, TypeOK, Handed, intr_entry
<1>2. PICK p \in Waiting : phase[p] = "done" /\ disk_owns[p] /\ idx[p] = h
  BY Zenon, <1>1 DEF IInv, Handed
<1>3. p \in Active /\ p \in Proc /\ info[h] = p /\ status[h] = 0
  BY ZenonT(60), <1>1, <1>2, Heads DEF IInv, Handed, Chains
<1>4. /\ disk_owns' = [disk_owns EXCEPT ![p] = FALSE]
      /\ pc' = (IF pc[p] = "wait_disk" THEN [pc EXCEPT ![p] = "check"] ELSE pc)
      /\ used_idx' = inc(used_idx)
      /\ UNCHANGED <<lock, descs, avail, avail_idx, used, dev_used, idx, device, content, phase>>
      /\ lock = Intr
  BY Zenon, <1>3 DEF intr_entry
<1> HIDE DEF h
<1> USE VirtioAssumption DEF IInv, descs, rings, device, content
<1>5. TypeOK'
  BY Zenon, <1>1, <1>3, <1>4 DEF TypeOK
<1>6. Active' = Active /\ Waiting' = Waiting
  BY <1>4 DEF TypeOK, Active, Waiting
<1>7. Chains'
  BY Zenon, <1>4, <1>6, ChainsKept
<1>8. Stages'
  BY <1>2, <1>3, <1>4, <1>6 DEF TypeOK, Stages, Active, Waiting
<1>9. Handed'
  <2>1. {idx[q] : q \in {q \in Waiting : phase[q] = "done" /\ disk_owns[q]}}'
          = {idx[q] : q \in {q \in Waiting : phase[q] = "done" /\ disk_owns[q]}} \ {h}
    <3>1. \A q \in Waiting : idx[q] = h <=> q = p
      BY Zenon, <1>2, <1>3, Heads
    <3>2. \A q \in Waiting : disk_owns'[q] <=> disk_owns[q] /\ q # p
      BY <1>3, <1>4, Heads DEF TypeOK
    <3> QED BY Zenon, <1>4, <1>6, <3>1, <3>2
  <2>2. {idx[q] : q \in {q \in Waiting : phase[q] = "called"}}'
          = {idx[q] : q \in {q \in Waiting : phase[q] = "called"}}
    BY Zenon, <1>4, <1>6
  <2>3. \A q \in Proc : pc'[q] = "notify" => pc[q] = "notify"
    BY <1>3, <1>4 DEF TypeOK
  <2>4. Entries(used, used_idx', dev_used)
          = {idx[q] : q \in {q \in Waiting : phase[q] = "done" /\ disk_owns[q]}} \ {h}
    BY Zenon, <1>1, <1>4 DEF Handed
  <2>5. \A d \in Entries(used, used_idx', dev_used) : status[d] = 0
    BY Zenon, <1>1, <1>4 DEF Handed
  <2>6. Distinct(used, used_idx', dev_used)
    BY Zenon, <1>1, <1>4
  <2>7. UNCHANGED <<lock, avail, avail_idx, dev_avail, inflight, used, dev_used, idx, status>>
        /\ lock = Intr
    BY Zenon, <1>4
  <2>8. Distinct(avail, dev_avail, avail_idx)
        /\ Entries(avail, dev_avail, avail_idx) \cap inflight = {}
        /\ Entries(avail, dev_avail, avail_idx) \cup inflight
              = {idx[q] : q \in {q \in Waiting : phase[q] = "called"}}
        /\ \A q \in Proc : pc[q] = "notify" => avail[avail_idx % NUM] = idx[q]
    BY Zenon DEF Handed
  <2> QED BY ONLY Zenon, <2>1, <2>2, <2>3, <2>4, <2>5, <2>6, <2>7, <2>8 DEF Handed
<1> QED BY Zenon, <1>5, <1>7, <1>8, <1>9

\* What the device works on is a request of exactly one caller, not yet done.
LEMMA InFlight ==
    ASSUME IInv, NEW h \in inflight
    PROVE  \E p \in Waiting : /\ p \in Active /\ p \in Proc /\ phase[p] = "called" /\ idx[p] = h
                             /\ h \in Desc /\ addr[next[h]] = p /\ ops[h] = req[p]
<1>1. PICK p \in Waiting : phase[p] = "called" /\ idx[p] = h
  BY ZenonT(60) DEF IInv, Handed
<1> QED BY Zenon, <1>1, Heads DEF IInv, Chains

\* The descriptors of a request are those that no step for another request touches.
LEMMA ChainIn ==
    ASSUME IInv, NEW q \in Active
    PROVE  LET h == idx[q] IN
           /\ h \in Desc /\ next[h] \in Desc /\ next[next[h]] \in Desc
           /\ h \notin free /\ next[h] \notin free /\ next[next[h]] \notin free
           /\ h # next[h] /\ h # next[next[h]] /\ next[h] # next[next[h]]
           /\ info[h] = q /\ addr[next[h]] = q /\ ops[h] = req[q]
<1>1. q \in Proc
  BY Zenon DEF Active
<1>2. idx[q] \in Desc /\ next[idx[q]] \in Desc /\ next[next[idx[q]]] \in Desc
  BY Zenon, <1>1 DEF IInv, TypeOK
<1>3. \A d \in Chain(idx[q]) : d \notin free
  BY Zenon DEF IInv, Chains
<1> QED BY Zenon, <1>2, <1>3 DEF IInv, Chains, Chain

\* virtio_disk.c:284-289: the request is done; free_chain() frees its descriptors and no
\* others.
LEMMA FinishInv ==
    ASSUME IInv, NEW p \in Proc, finish(p)
    PROVE  IInv' /\ phase[p] = "done"
<1> DEFINE h == idx[p]
           C == Chain(h)
<1>1. /\ info' = [info EXCEPT ![h] = None] /\ free' = free \cup C
      /\ next' = [d \in Desc |-> IF d \in C THEN 0 ELSE next[d]]
      /\ addr' = [d \in Desc |-> IF d \in C THEN None ELSE addr[d]]
      /\ idx' = [idx EXCEPT ![p] = 0]
      /\ pc[p] = "check" /\ ~disk_owns[p] /\ lock = None
      /\ pc' = [q \in Proc |-> IF q = p THEN "idle"
                               ELSE IF pc[q] = "wait_free" THEN "alloc" ELSE pc[q]]
      /\ phase' = [phase EXCEPT ![p] = "idle"]
      /\ UNCHANGED <<lock, ops, status, avail, avail_idx, used, dev_used, used_idx, disk_owns,
                     dev_avail, inflight, interrupt, disk, data, req>>
  BY Zenon DEF finish, free_chain, done, wakeup_free, rings, device, content
<1>2. p \in Active /\ p \in Waiting /\ phase[p] = "done"
  BY Zenon, <1>1 DEF IInv, TypeOK, Stages, Active, Waiting
<1>3. h \in C /\ C \subseteq Desc
  BY Zenon, <1>2, ChainIn DEF Chain
<1>4. Active' = Active \ {p} /\ Waiting' = Waiting \ {p}
  BY <1>1 DEF IInv, TypeOK, Active, Waiting
<1>5. \A q \in Active' : q # p /\ Chain(idx[q]) \cap C = {}
  BY Zenon, <1>2, <1>4 DEF IInv, Chains
<1> HIDE DEF C, h
<1>6. TypeOK'
  <2>1. 0 \in Desc
    BY Sizes DEF Desc
  <2> QED BY <1>1, <1>3, <2>1 DEF IInv, TypeOK
<1>7. ASSUME NEW q \in Active'
      PROVE  /\ q \in Active /\ q # p /\ idx'[q] = idx[q] /\ next'[idx[q]] = next[idx[q]]
             /\ next'[next[idx[q]]] = next[next[idx[q]]]
             /\ info'[idx[q]] = q /\ addr'[next[idx[q]]] = q /\ ops'[idx[q]] = req'[q]
             /\ Chain(idx[q])' = Chain(idx[q])
  <2>1. q \in Active /\ q # p /\ q \in Proc
    BY Zenon, <1>4 DEF Active
  <2>2. idx[q] \notin C /\ next[idx[q]] \notin C /\ next[next[idx[q]]] \notin C
    BY Zenon, <1>5 DEF Chain
  <2>3. idx'[q] = idx[q]
    BY Zenon, <1>1, <2>1 DEF IInv, TypeOK
  <2>4. /\ next'[idx[q]] = next[idx[q]] /\ next'[next[idx[q]]] = next[next[idx[q]]]
        /\ addr'[next[idx[q]]] = q /\ ops'[idx[q]] = req'[q]
    BY Zenon, <1>1, <2>1, <2>2, ChainIn
  <2>5. info'[idx[q]] = q
    BY Zenon, <1>1, <1>3, <2>1, <2>2, ChainIn DEF IInv, TypeOK
  <2> QED BY Zenon, <2>1, <2>3, <2>4, <2>5 DEF Chain
<1>8. Chains'
  <2>1. (\A q, s \in Active : q # s => Chain(idx[q]) \cap Chain(idx[s]) = {})'
    BY ZenonT(60), <1>7 DEF IInv, Chains
  <2>2. (\A q \in Active : LET g == idx[q] IN
          /\ g # next[g] /\ g # next[next[g]] /\ next[g] # next[next[g]]
          /\ info[g] = q /\ addr[next[g]] = q /\ ops[g] = req[q])'
    <3>1. ASSUME NEW q \in Active'
          PROVE  LET g == idx'[q] IN
                 /\ g # next'[g] /\ g # next'[next'[g]] /\ next'[g] # next'[next'[g]]
                 /\ info'[g] = q /\ addr'[next'[g]] = q /\ ops'[g] = req'[q]
      <4>1. /\ idx[q] # next[idx[q]] /\ idx[q] # next[next[idx[q]]]
            /\ next[idx[q]] # next[next[idx[q]]]
        BY Zenon, <1>7, ChainIn
      <4> QED BY Zenon, <1>7, <4>1
    <3> QED BY Zenon, <3>1
  <2>3. \A d : d \in free <=> d \in Desc /\ \A q \in Active : d \notin Chain(idx[q])
    BY DEF IInv, Chains
  <2>4. \A d : d \in free' <=> d \in Desc /\ \A q \in Active' : d \notin Chain(idx[q])'
    <3>1. \A d : d \in free' <=> d \in free \/ d \in C
      BY Zenon, <1>1
    <3>2. \A q \in Active' : Chain(idx[q])' = Chain(idx[q]) /\ Chain(idx[q]) \cap C = {}
      BY Zenon, <1>5, <1>7
    <3>3. C = Chain(idx[p])
      BY Zenon DEF C, h
    <3> QED BY ONLY <1>2, <1>3, <1>4, <2>3, <3>1, <3>2, <3>3
  <2>5. free' = (Desc \ UNION {Chain(idx[q]) : q \in Active})'
    BY ONLY Zenon, <2>4
  <2> QED BY Zenon, <2>1, <2>2, <2>5 DEF Chains
<1>9. Stages'
  BY <1>1, <1>2, <1>4, VirtioAssumption DEF IInv, TypeOK, Stages, Active, Waiting
<1>10. Handed'
  <2>1. \A q \in Waiting' : q # p /\ idx'[q] = idx[q] /\ phase'[q] = phase[q]
    <3>1. \A q \in Waiting' : q \in Proc /\ q # p
      BY Zenon, <1>4, Heads
    <3>2. idx \in [Proc -> Desc] /\ phase \in [Proc -> {"idle", "called", "done"}]
      BY Zenon DEF IInv, TypeOK
    <3> QED BY ONLY Zenon, <1>1, <3>1, <3>2
  <2>2. {idx[q] : q \in {q \in Waiting : phase[q] = "called"}}'
          = {idx[q] : q \in {q \in Waiting : phase[q] = "called"}}
    BY Zenon, <1>2, <1>4, <2>1
  <2>3. {idx[q] : q \in {q \in Waiting : phase[q] = "done" /\ disk_owns[q]}}'
          = {idx[q] : q \in {q \in Waiting : phase[q] = "done" /\ disk_owns[q]}}
    BY ZenonT(60), <1>1, <1>4, <2>1
  <2>4. \A q \in Proc : pc'[q] # "notify"
    BY Zenon, <1>1, VirtioAssumption DEF IInv, TypeOK, Stages
  <2> QED BY Zenon, <1>1, <2>2, <2>3, <2>4 DEF IInv, Handed
<1> QED BY Zenon, <1>2, <1>6, <1>8, <1>9, <1>10 DEF IInv

INSTANCE FiniteSetTheorems

\* A ring whose entries are different descriptors has room for one that is not among them.
LEMMA Room ==
    ASSUME NEW r \in [Desc -> Desc], NEW f \in Idx, NEW t \in Idx, Distinct(r, f, t),
           NEW h \in Desc, h \notin Entries(r, f, t)
    PROVE  Pending(f, t) < NUM
<1> DEFINE n == Pending(f, t)
           g == [i \in 0..n |-> IF i = n THEN h ELSE Entry(r, f, i)]
<1>1. n \in 0..(UINT16 - 1) /\ NUM \in Nat \ {0} /\ UINT16 \in Nat
  BY Zenon, PendingValue, Sizes
<1>2. \A i \in 0..(n - 1) : Entry(r, f, i) \in Desc
  <2> SUFFICES ASSUME NEW i \in 0..(n - 1) PROVE Entry(r, f, i) \in Desc
    BY Zenon
  <2>1. i \in 0..(UINT16 - 1)
    BY <1>1
  <2> QED BY <2>1, EntryPlace
<1>3. g \in [0..n -> Desc]
  BY <1>1, <1>2
<1>4. \A i, j \in 0..n : i # j => g[i] # g[j]
  <2>1. \A i \in 0..(n - 1) : Entry(r, f, i) # h
    BY Zenon DEF Entries
  <2> QED BY <1>1, <2>1 DEF Distinct
<1>5. IsFiniteSet(0..n) /\ Cardinality(0..n) = n + 1
  BY <1>1, FS_Interval
<1>6. IsFiniteSet(Desc) /\ Cardinality(Desc) = NUM
  BY <1>1, FS_Interval DEF Desc
<1> HIDE DEF g, n
<1>7. ~(Cardinality(Desc) < Cardinality(0..n))
  BY Zenon, <1>3, <1>4, <1>5, <1>6, FS_PigeonHole
<1>8. n < NUM
  BY <1>1, <1>5, <1>6, <1>7
<1> QED BY Zenon, <1>8 DEF n

\* virtio_disk.c:272: the entry beyond the last one is none of those in the ring.
LEMMA WriteEntry ==
    ASSUME NEW r, NEW f, NEW t, IsRing(r, f, t), NEW h \in Desc, h \notin Entries(r, f, t),
           NEW s, SameBut(r, s, t % NUM)
    PROVE  Entries(s, f, t) = Entries(r, f, t) /\ Distinct(s, f, t)
<1> DEFINE n == Pending(f, t)
<1>0. /\ r \in [Desc -> Desc] /\ f \in Idx /\ t \in Idx /\ Distinct(r, f, t)
      /\ s \in [Desc -> Desc] /\ \A d \in Desc \ {t % NUM} : s[d] = r[d]
  BY Zenon DEF IsRing, SameBut
<1>1. n \in 0..(UINT16 - 1) /\ n < NUM /\ NUM \in Nat \ {0} /\ UINT16 \in Nat
  BY Zenon, <1>0, PendingValue, Room, Sizes
<1>2. t % NUM \in Desc /\ (f + n) % NUM = t % NUM
  BY Zenon, <1>0, <1>1, LastPlace, EntryPlace
<1>3. ASSUME NEW i \in 0..(n - 1) PROVE Entry(s, f, i) = Entry(r, f, i)
  <2>1. i \in 0..(UINT16 - 1)
    BY <1>1
  <2>2. /\ f + i \in Nat /\ f + n \in Nat
        /\ f + i < f + n /\ f + n < f + i + NUM
    BY <1>0, <1>1 DEF Idx
  <2>3. (f + i) % NUM # (f + n) % NUM
    BY ONLY Zenon, <1>1, <2>2, ModDistinct
  <2>4. Entry(s, f, i) = s[(f + i) % NUM] /\ Entry(r, f, i) = r[(f + i) % NUM]
        /\ (f + i) % NUM \in Desc
    BY Zenon, <1>0, <2>1, EntryPlace
  <2> QED BY Zenon, <1>0, <1>2, <2>3, <2>4
<1> QED BY ONLY Zenon, <1>0, <1>3 DEF Entries, Distinct

\* virtio_disk.c:277: what the next index announces is the entry written before it.
LEMMA Announce ==
    ASSUME NEW r \in [Desc -> Desc], NEW f \in Idx, NEW t \in Idx, Distinct(r, f, t),
           r[t % NUM] \notin Entries(r, f, t)
    PROVE  /\ inc(t) \in Idx /\ inc(t) # f
           /\ Entries(r, f, inc(t)) = Entries(r, f, t) \cup {r[t % NUM]}
           /\ Distinct(r, f, inc(t))
<1> DEFINE n == Pending(f, t)
<1>1. n \in 0..(UINT16 - 1) /\ NUM \in Nat \ {0} /\ UINT16 \in Nat /\ NUM < UINT16
  BY Zenon, PendingValue, Sizes
<1>2. t % NUM \in Desc /\ (f + n) % NUM = t % NUM /\ Entry(r, f, n) = r[t % NUM]
  BY <1>1, LastPlace, EntryPlace
<1>3. n < NUM
  BY Zenon, <1>2, Room
<1>4. inc(t) \in Idx /\ inc(t) = IF t + 1 < UINT16 THEN t + 1 ELSE 0
  BY Zenon, IncValue
<1>5. Pending(f, inc(t)) = n + 1 /\ inc(t) # f
  <2>1. n = IF f <= t THEN t - f ELSE t + UINT16 - f
    BY Zenon, PendingValue
  <2>2. /\ Pending(f, inc(t)) = IF f <= inc(t) THEN inc(t) - f ELSE inc(t) + UINT16 - f
        /\ Pending(f, inc(t)) = 0 <=> f = inc(t)
    BY Zenon, <1>4, PendingValue
  <2> QED BY <1>1, <1>3, <1>4, <2>1, <2>2 DEF Idx
<1>6. \A i : i \in 0..((n + 1) - 1) <=> i = n \/ i \in 0..(n - 1)
  BY <1>1
<1>7. \A i \in 0..(n - 1) : Entry(r, f, i) # Entry(r, f, n)
  BY Zenon, <1>2 DEF Entries
<1>8. Entries(r, f, inc(t)) = Entries(r, f, t) \cup {r[t % NUM]}
  BY Zenon, <1>2, <1>5, <1>6 DEF Entries
<1>9. Distinct(r, f, inc(t))
  BY Zenon, <1>5, <1>6, <1>7 DEF Distinct
<1> QED BY Zenon, <1>4, <1>5, <1>8, <1>9

----------------------------------------------------------------------------
(* The invariant, action by action. *)

LEMMA MinIn ==
    ASSUME NEW S, S \subseteq Desc, S # {}
    PROVE  Min(S) \in S
<1>1. S \subseteq Nat
  BY Sizes DEF Desc
<1>2. PICK x \in S : \A y \in S : ~(<<y, x>> \in OpToRel(<, Nat))
  BY <1>1, NatLessThanWellFounded, WFMin, Zenon
<1>3. ASSUME NEW y \in S PROVE ~(y < x)
  BY <1>1, <1>2, Zenon DEF OpToRel
<1>4. \A y \in S : x <= y
  BY <1>1, <1>3
<1> QED BY Zenon, <1>4 DEF Min

\* alloc3_desc(): three different descriptors, all of them free.
LEMMA ThreeFree ==
    ASSUME NEW S, S \subseteq Desc, Cardinality(S) >= 3
    PROVE  LET i == Min(S)
               j == Min(S \ {i})
               k == Min(S \ {i, j})
           IN  /\ i \in S /\ j \in S /\ k \in S /\ i # j /\ i # k /\ j # k
<1> DEFINE i == Min(S)
           j == Min(S \ {i})
           k == Min(S \ {i, j})
<1>1. IsFiniteSet(S) /\ Cardinality(S) \in Nat
  <2>1. IsFiniteSet(Desc)
    BY Sizes, FS_Interval DEF Desc
  <2> QED BY Zenon, <2>1, FS_Subset, FS_CardinalityType
<1>2. S # {}
  BY FS_EmptySet
<1>3. i \in S
  BY Zenon, <1>2, MinIn
<1> HIDE DEF i
<1>4. IsFiniteSet(S \ {i}) /\ Cardinality(S \ {i}) = Cardinality(S) - 1
  BY Zenon, <1>1, <1>3, FS_RemoveElement
<1>5. S \ {i} # {}
  BY <1>1, <1>4, FS_EmptySet
<1>6. j \in S \ {i}
  BY Zenon, <1>5, MinIn
<1> HIDE DEF j
<1>7. (S \ {i}) \ {j} = S \ {i, j}
  BY Zenon
<1>8. IsFiniteSet(S \ {i, j}) /\ Cardinality(S \ {i, j}) = Cardinality(S) - 2
  <2>1. IsFiniteSet((S \ {i}) \ {j}) /\ Cardinality((S \ {i}) \ {j}) = Cardinality(S \ {i}) - 1
    BY Zenon, <1>4, <1>6, FS_RemoveElement
  <2> QED BY <1>1, <1>4, <1>7, <2>1
<1>9. S \ {i, j} # {}
  BY <1>1, <1>8, FS_EmptySet
<1>10. k \in S \ {i, j}
  BY Zenon, <1>9, MinIn
<1> QED BY Zenon, <1>3, <1>6, <1>10 DEF i, j

\* virtio_disk.c:272: the head is put into the avail ring.
LEMMA PublishInv ==
    ASSUME IInv, NEW p \in Proc, publish(p)
    PROVE  IInv'
<1>0. p \in Active /\ p \notin Waiting /\ idx[p] \in Desc
  BY Zenon, Heads DEF publish, Active, Waiting, IInv, TypeOK
<1>1. idx[p] \notin Entries(avail, dev_avail, avail_idx)
  BY <1>0, Heads DEF IInv, Handed
<1>2. /\ avail' \in [Desc -> Desc] /\ avail'[avail_idx % NUM] = idx[p]
      /\ Entries(avail', dev_avail, avail_idx) = Entries(avail, dev_avail, avail_idx)
      /\ Distinct(avail', dev_avail, avail_idx)
  <2>1. /\ avail \in [Desc -> Desc] /\ dev_avail \in Idx /\ avail_idx \in Idx
        /\ Distinct(avail, dev_avail, avail_idx)
        /\ avail' = [avail EXCEPT ![avail_idx % NUM] = idx[p]]
    BY Zenon DEF IInv, TypeOK, Handed, publish
  <2>2. avail_idx % NUM \in Desc
    BY <2>1, Sizes, ModRange DEF Idx, Desc
  <2>3. /\ avail' \in [Desc -> Desc] /\ avail'[avail_idx % NUM] = idx[p]
        /\ SameBut(avail, avail', avail_idx % NUM)
    BY ONLY Zenon, <1>0, <2>1, <2>2 DEF SameBut
  <2>4. IsRing(avail, dev_avail, avail_idx)
    BY Zenon, <2>1 DEF IsRing
  <2> QED BY ONLY <1>0, <1>1, <2>3, <2>4, WriteEntry
<1> USE VirtioAssumption DEF IInv, descs, rings, device, content
<1>3. TypeOK'
  BY Zenon, <1>2 DEF TypeOK, publish, Goto
<1>4. Active' = Active /\ Waiting' = Waiting
  BY DEF TypeOK, Active, Waiting, publish, Goto
<1>5. Chains'
  BY Zenon, <1>4, ChainsKept DEF publish
<1>6. Stages'
  BY <1>4 DEF TypeOK, Stages, Active, Waiting, publish, Goto
<1>7. Handed'
  <2>1. \A q \in Proc : pc'[q] = "notify" => q = p
    BY DEF TypeOK, Stages, publish, Goto
  <2>2. UNCHANGED <<avail_idx, dev_avail, inflight, used, used_idx, dev_used, idx, status,
                    phase, disk_owns, interrupt, lock>>
    BY Zenon DEF publish
  <2> QED BY <1>2, <1>4, <2>1, <2>2 DEF Handed
<1> QED BY Zenon, <1>3, <1>5, <1>6, <1>7

\* virtio_disk.c:277-285: the device is told of it, and the caller sleeps.
LEMMA NotifyInv ==
    ASSUME IInv, NEW p \in Proc, notify(p)
    PROVE  IInv'
<1>0. p \in Active /\ p \notin Waiting /\ idx[p] \in Desc /\ phase[p] = "called" /\ disk_owns[p]
  BY Zenon, Heads DEF notify, Active, Waiting, IInv, TypeOK, Stages
<1>1. avail[avail_idx % NUM] = idx[p] /\ idx[p] \notin Entries(avail, dev_avail, avail_idx)
      /\ idx[p] \notin inflight
  BY <1>0, Heads DEF IInv, Handed, notify
<1>2. /\ avail_idx' \in Idx /\ Distinct(avail, dev_avail, avail_idx')
      /\ Entries(avail, dev_avail, avail_idx')
            = Entries(avail, dev_avail, avail_idx) \cup {idx[p]}
  BY <1>1, Announce DEF IInv, TypeOK, Handed, notify
<1> USE VirtioAssumption DEF IInv, descs, rings, device, content
<1>3. TypeOK'
  BY Zenon, <1>2 DEF TypeOK, notify, Goto
<1>4. Active' = Active /\ Waiting' = Waiting \cup {p}
  BY DEF TypeOK, Active, Waiting, notify, Goto
<1>5. Chains'
  BY Zenon, <1>4, ChainsKept DEF notify
<1>6. Stages'
  BY <1>0, <1>4 DEF TypeOK, Stages, Active, Waiting, notify, Goto
<1>7. Handed'
  <2>1. {idx[q] : q \in {q \in Waiting : phase[q] = "called"}}'
          = {idx[q] : q \in {q \in Waiting : phase[q] = "called"}} \cup {idx[p]}
    BY Zenon, <1>0, <1>4 DEF notify
  <2>2. {q \in Waiting : phase[q] = "done" /\ disk_owns[q]}'
          = {q \in Waiting : phase[q] = "done" /\ disk_owns[q]}
    BY Zenon, <1>0, <1>4 DEF notify
  <2>3. \A q \in Proc : pc'[q] # "notify"
    BY ZenonT(60) DEF TypeOK, Stages, notify, Goto
  <2>4. UNCHANGED <<avail, dev_avail, inflight, used, used_idx, dev_used, idx, status, interrupt>>
        /\ lock = p
    BY Zenon DEF notify, Stages
  <2>5. Entries(avail, dev_avail, avail_idx') \cap inflight = {}
    BY Zenon, <1>1, <1>2 DEF Handed
  <2>6. Entries(avail, dev_avail, avail_idx') \cup inflight
          = {idx[q] : q \in {q \in Waiting : phase[q] = "called"}} \cup {idx[p]}
    BY Zenon, <1>2 DEF Handed
  <2>7. /\ Distinct(avail, dev_avail, avail_idx)' /\ Distinct(used, used_idx, dev_used)'
        /\ (Entries(avail, dev_avail, avail_idx) \cap inflight = {})'
    BY Zenon, <1>2, <2>4, <2>5 DEF Handed
  <2>8. Entries(avail, dev_avail, avail_idx)' \cup inflight'
          = {idx[q] : q \in {q \in Waiting : phase[q] = "called"}}'
    BY Zenon, <2>1, <2>4, <2>6
  <2>9. Entries(used, used_idx, dev_used)'
          = {idx[q] : q \in {q \in Waiting : phase[q] = "done" /\ disk_owns[q]}}'
    BY Zenon, <2>2, <2>4 DEF Handed
  <2>10. used_idx' # dev_used' => interrupt' \/ lock' = Intr
    BY Zenon, <2>4 DEF Handed, Stages
  <2> QED BY Zenon, <2>3, <2>4, <2>7, <2>8, <2>9, <2>10 DEF Handed
<1> QED BY Zenon, <1>3, <1>5, <1>6, <1>7

\* The device finishes a request.
LEMMA DevCompleteInv ==
    ASSUME IInv, NEW h \in Desc, dev_complete(h)
    PROVE  IInv'
<1>1. h \in inflight
  BY Zenon DEF dev_complete
<1>2. PICK p \in Waiting : /\ p \in Active /\ p \in Proc /\ phase[p] = "called" /\ idx[p] = h
                          /\ h \in Desc /\ addr[next[h]] = p /\ ops[h] = req[p]
  BY Zenon, <1>1, InFlight
<1>3. h \notin Entries(used, used_idx, dev_used)
  <2>1. Entries(used, used_idx, dev_used)
          = {idx[q] : q \in {q \in Waiting : phase[q] = "done" /\ disk_owns[q]}}
    BY Zenon DEF IInv, Handed
  <2>2. \A q \in Waiting : idx[q] = h => q = p
    BY Zenon, <1>2, Heads
  <2> QED BY ONLY <1>2, <2>1, <2>2
<1>4. /\ inflight' = inflight \ {h} /\ status' = [status EXCEPT ![h] = 0]
      /\ used' = [used EXCEPT ![dev_used % NUM] = h] /\ dev_used' = inc(dev_used)
      /\ interrupt' = TRUE /\ phase' = [phase EXCEPT ![p] = "done"]
      /\ UNCHANGED <<lock, free, next, addr, ops, info, avail, avail_idx, used_idx, disk_owns, pc,
                     idx, dev_avail, req>>
  BY Zenon, <1>2 DEF dev_complete
<1>5. /\ used' \in [Desc -> Desc] /\ dev_used' \in Idx /\ used_idx # dev_used'
      /\ Entries(used', used_idx, dev_used') = Entries(used, used_idx, dev_used) \cup {h}
      /\ Distinct(used', used_idx, dev_used')
  <2>1. IsRing(used, used_idx, dev_used) /\ used \in [Desc -> Desc] /\ dev_used \in Idx
        /\ used_idx \in Idx
    BY Zenon DEF IInv, TypeOK, Handed, IsRing
  <2>2. dev_used % NUM \in Desc
    <3>1. dev_used \in Nat /\ NUM \in Nat \ {0}
      BY ONLY <2>1, Sizes DEF Idx
    <3>2. dev_used % NUM \in 0..(NUM - 1)
      BY ONLY <3>1, ModRange
    <3> QED BY Zenon, <3>2 DEF Desc
  <2>3. /\ used' \in [Desc -> Desc] /\ used'[dev_used % NUM] = h
        /\ SameBut(used, used', dev_used % NUM)
    BY ONLY Zenon, <1>2, <1>4, <2>1, <2>2 DEF SameBut
  <2>4. Entries(used', used_idx, dev_used) = Entries(used, used_idx, dev_used)
        /\ Distinct(used', used_idx, dev_used)
    BY ONLY Zenon, <1>2, <1>3, <2>1, <2>3, WriteEntry
  <2>5. used'[dev_used % NUM] \notin Entries(used', used_idx, dev_used)
    BY Zenon, <1>3, <2>3, <2>4
  <2>6. /\ inc(dev_used) \in Idx /\ inc(dev_used) # used_idx
        /\ Entries(used', used_idx, inc(dev_used))
              = Entries(used', used_idx, dev_used) \cup {used'[dev_used % NUM]}
        /\ Distinct(used', used_idx, inc(dev_used))
    BY ONLY Zenon, <2>1, <2>3, <2>4, <2>5, Announce
  <2> QED BY Zenon, <1>4, <2>3, <2>4, <2>6
<1> USE VirtioAssumption DEF IInv, descs, rings, device, content
<1>6. TypeOK'
  <2>1. disk' \in [Block -> Val] /\ data' \in [Proc -> Val]
    <3>1. ops[h].block \in Block /\ data[p] \in Val /\ disk[ops[h].block] \in Val
      BY Zenon, <1>2 DEF TypeOK, Request
    <3>2. IF ops[h].write
          THEN disk' = [disk EXCEPT ![ops[h].block] = data[p]] /\ UNCHANGED data
          ELSE data' = [data EXCEPT ![p] = disk[ops[h].block]] /\ UNCHANGED disk
      BY Zenon, <1>2 DEF dev_complete
    <3>3. disk \in [Block -> Val] /\ data \in [Proc -> Val]
      BY Zenon DEF TypeOK
    <3> QED BY ONLY Zenon, <3>1, <3>2, <3>3
  <2> QED BY Zenon, <1>2, <1>4, <1>5, <2>1 DEF TypeOK
<1>7. Active' = Active /\ Waiting' = Waiting
  BY Zenon, <1>4 DEF Active, Waiting
<1>8. Chains'
  BY Zenon, <1>4, <1>7, ChainsKept
<1>9. Stages'
  BY <1>2, <1>4, <1>7 DEF TypeOK, Stages, Active, Waiting
<1>10. Handed'
  <2>0. \A q \in Waiting : (idx[q] = h <=> q = p) /\ phase'[q] = IF q = p THEN "done" ELSE phase[q]
    BY Zenon, <1>2, <1>4, Heads DEF TypeOK
  <2>00. disk_owns[p]
    BY Zenon, <1>2 DEF Stages
  <2>1. {idx[q] : q \in {q \in Waiting : phase[q] = "done" /\ disk_owns[q]}}'
          = {idx[q] : q \in {q \in Waiting : phase[q] = "done" /\ disk_owns[q]}} \cup {h}
    BY ONLY <1>2, <1>4, <1>7, <2>0, <2>00
  <2>2. {idx[q] : q \in {q \in Waiting : phase[q] = "called"}}'
          = {idx[q] : q \in {q \in Waiting : phase[q] = "called"}} \ {h}
    BY <1>2, <1>4, <1>7, <2>0
  <2>3. h \notin Entries(avail, dev_avail, avail_idx)
    BY Zenon, <1>1 DEF Handed
  <2>4. Entries(avail, dev_avail, avail_idx) \cap inflight' = {}
    BY Zenon, <1>4 DEF Handed
  <2>5. Entries(avail, dev_avail, avail_idx) \cup inflight'
          = {idx[q] : q \in {q \in Waiting : phase[q] = "called"}} \ {h}
    BY Zenon, <1>4, <2>3 DEF Handed
  <2>6. \A d \in Entries(used', used_idx, dev_used') : status'[d] = 0
    <3>1. \A d \in Entries(used, used_idx, dev_used) : d \in Desc /\ status[d] = 0
      <4>1. \A q \in Waiting : idx[q] \in Desc
        BY Zenon, Heads
      <4> QED BY Zenon, <4>1 DEF Handed
    <3>2. \A d \in Desc : status'[d] = IF d = h THEN 0 ELSE status[d]
      BY <1>4 DEF TypeOK
    <3> QED BY Zenon, <1>5, <3>1, <3>2
  <2>7. Entries(used', used_idx, dev_used')
          = {idx[q] : q \in {q \in Waiting : phase[q] = "done" /\ disk_owns[q]}} \cup {h}
    BY Zenon, <1>5 DEF Handed
  <2> QED BY Zenon, <1>4, <1>5, <2>1, <2>2, <2>4, <2>5, <2>6, <2>7 DEF Handed
<1> QED BY Zenon, <1>6, <1>8, <1>9, <1>10

\* virtio_disk.c:228-269: three descriptors are taken and describe the request.
LEMMA FormatInv ==
    ASSUME IInv, NEW p \in Proc, format(p)
    PROVE  IInv'
<1> DEFINE i == Min(free)
           j == Min(free \ {i})
           k == Min(free \ {i, j})
<1>1. free \subseteq Desc /\ Cardinality(free) >= 3
  BY Zenon DEF IInv, TypeOK, format
<1>2. /\ i \in free /\ j \in free /\ k \in free /\ i # j /\ i # k /\ j # k
      /\ i \in Desc /\ j \in Desc /\ k \in Desc
  BY Zenon, <1>1, ThreeFree
<1>3. /\ free' = free \ {i, j, k}
      /\ next' = [next EXCEPT ![i] = j, ![j] = k]
      /\ addr' = [addr EXCEPT ![j] = p]
      /\ ops' = [ops EXCEPT ![i] = req[p]]
      /\ status' = [status EXCEPT ![i] = 255]
      /\ info' = [info EXCEPT ![i] = p]
      /\ idx' = [idx EXCEPT ![p] = i]
      /\ disk_owns' = [disk_owns EXCEPT ![p] = TRUE]
      /\ lock = None /\ lock' = p
      /\ pc[p] = "alloc" /\ pc' = [pc EXCEPT ![p] = "publish"]
      /\ UNCHANGED <<avail, avail_idx, used, dev_used, used_idx, dev_avail, inflight, interrupt,
                     disk, data, req, phase>>
  BY Zenon DEF format, Goto, rings, device, content
<1> HIDE DEF i, j, k
<1>4. p \notin Active /\ phase[p] = "called"
  BY Zenon, <1>3 DEF IInv, TypeOK, Stages, Active, Waiting
<1>5. Active' = Active \cup {p} /\ Waiting' = Waiting
  BY <1>3 DEF IInv, TypeOK, Active, Waiting
<1>6. TypeOK'
  BY Zenon, <1>2, <1>3 DEF IInv, TypeOK
<1>7. ASSUME NEW q \in Active
      PROVE  /\ q # p /\ idx'[q] = idx[q] /\ next'[idx[q]] = next[idx[q]]
             /\ next'[next[idx[q]]] = next[next[idx[q]]]
             /\ info'[idx[q]] = q /\ addr'[next[idx[q]]] = q /\ ops'[idx[q]] = req'[q]
             /\ Chain(idx[q])' = Chain(idx[q])
             /\ i \notin Chain(idx[q]) /\ j \notin Chain(idx[q]) /\ k \notin Chain(idx[q])
  <2>1. /\ idx \in [Proc -> Desc] /\ next \in [Desc -> Desc] /\ info \in [Desc -> Proc \cup {None}]
        /\ addr \in [Desc -> Proc \cup {None}] /\ ops \in [Desc -> Request]
    BY ONLY Zenon, IInv DEF IInv, TypeOK
  <2>2. /\ idx[q] \in Desc /\ next[idx[q]] \in Desc /\ next[next[idx[q]]] \in Desc
        /\ idx[q] \notin free /\ next[idx[q]] \notin free /\ next[next[idx[q]]] \notin free
        /\ info[idx[q]] = q /\ addr[next[idx[q]]] = q /\ ops[idx[q]] = req[q]
    BY ONLY Zenon, IInv, q \in Active, ChainIn
  <2>3. q # p /\ q \in Proc
    BY ONLY Zenon, <1>4, q \in Active DEF Active
  <2>4. idx'[q] = idx[q]
    BY ONLY Zenon, <1>3, <2>1, <2>3
  <2>5. \A d \in Desc : d \notin free => next'[d] = next[d] /\ info'[d] = info[d]
                                          /\ addr'[d] = addr[d] /\ ops'[d] = ops[d]
    BY ONLY Zenon, <1>2, <1>3, <2>1
  <2>6. req' = req
    BY ONLY Zenon, <1>3
  <2>7. Chain(idx[q])' = Chain(idx[q])
    <3>1. next'[idx[q]] = next[idx[q]] /\ next'[next[idx[q]]] = next[next[idx[q]]]
      BY ONLY Zenon, <2>2, <2>5
    <3> QED BY ONLY Zenon, <2>4, <3>1 DEF Chain
  <2>8. i \notin Chain(idx[q]) /\ j \notin Chain(idx[q]) /\ k \notin Chain(idx[q])
    BY ONLY Zenon, <1>2, <2>2 DEF Chain
  <2> QED BY ONLY Zenon, <2>2, <2>3, <2>4, <2>5, <2>6, <2>7, <2>8
<1>8. /\ idx'[p] = i /\ next'[i] = j /\ next'[j] = k /\ Chain(idx[p])' = {i, j, k}
      /\ info'[i] = p /\ addr'[j] = p /\ ops'[i] = req'[p]
  BY <1>2, <1>3 DEF IInv, TypeOK, Chain
<1>9. Chains'
  <2>1. (\A q, s \in Active : q # s => Chain(idx[q]) \cap Chain(idx[s]) = {})'
    <3>1. \A q, s \in Active : q # s => Chain(idx[q]) \cap Chain(idx[s]) = {}
      BY Zenon DEF IInv, Chains
    <3>2. \A q \in Active : /\ Chain(idx[q])' = Chain(idx[q])
                             /\ Chain(idx[q])' \cap {i, j, k} = {}
      BY Zenon, <1>7
    <3>3. SUFFICES ASSUME NEW q \in Active', NEW s \in Active', q # s
                   PROVE  Chain(idx[q])' \cap Chain(idx[s])' = {}
      BY Zenon
    <3>4. CASE q = p
      BY ONLY Zenon, <1>5, <1>8, <3>2, <3>3, <3>4
    <3>5. CASE s = p
      BY ONLY Zenon, <1>5, <1>8, <3>2, <3>3, <3>5
    <3>6. CASE q \in Active /\ s \in Active
      BY ONLY Zenon, <3>1, <3>2, <3>3, <3>6
    <3> QED BY ONLY Zenon, <1>5, <3>3, <3>4, <3>5, <3>6
  <2>2. (\A q \in Active : LET h == idx[q] IN
          /\ h # next[h] /\ h # next[next[h]] /\ next[h] # next[next[h]]
          /\ info[h] = q /\ addr[next[h]] = q /\ ops[h] = req[q])'
    <3>1. SUFFICES ASSUME NEW q \in Active'
                   PROVE  (LET h == idx[q] IN
                           /\ h # next[h] /\ h # next[next[h]] /\ next[h] # next[next[h]]
                           /\ info[h] = q /\ addr[next[h]] = q /\ ops[h] = req[q])'
      BY Zenon
    <3>2. CASE q = p
      BY Zenon, <1>2, <1>8, <3>2
    <3>3. CASE q \in Active
      <4>1. LET h == idx[q] IN h # next[h] /\ h # next[next[h]] /\ next[h] # next[next[h]]
        BY ONLY Zenon, IInv, <3>3, ChainIn
      <4> QED BY ONLY Zenon, <1>7, <3>3, <4>1
    <3> QED BY Zenon, <1>5, <3>2, <3>3
  <2>3. \A d : d \in free <=> d \in Desc /\ \A q \in Active : d \notin Chain(idx[q])
    BY DEF IInv, Chains
  <2>4. \A d : d \in free' <=> d \in Desc /\ \A q \in Active' : d \notin Chain(idx[q])'
    <3>1. \A d : d \in free' <=> d \in free /\ d \notin {i, j, k}
      BY Zenon, <1>3
    <3>2. \A q \in Active : Chain(idx[q])' = Chain(idx[q])
      BY Zenon, <1>7
    <3>3. \A d : (\A q \in Active' : d \notin Chain(idx[q])')
                  <=> d \notin {i, j, k} /\ \A q \in Active : d \notin Chain(idx[q])
      BY ONLY ZenonT(60), <1>5, <1>8, <3>2
    <3> QED BY ONLY Zenon, <2>3, <3>1, <3>3
  <2>5. free' = (Desc \ UNION {Chain(idx[q]) : q \in Active})'
    BY ONLY Zenon, <2>4
  <2> QED BY Zenon, <2>1, <2>2, <2>3, <2>5 DEF Chains
<1>10. Stages'
  BY <1>3, <1>4, <1>5, VirtioAssumption DEF IInv, TypeOK, Stages, Active, Waiting
<1>11. Handed'
  <2>1. \A q \in Waiting : q # p /\ idx'[q] = idx[q] /\ disk_owns'[q] = disk_owns[q]
    <3>1. \A q \in Waiting : q \in Proc /\ q # p
      BY Zenon, <1>4, Heads
    <3>2. idx \in [Proc -> Desc] /\ disk_owns \in [Proc -> BOOLEAN]
      BY Zenon DEF IInv, TypeOK
    <3> QED BY ONLY Zenon, <1>3, <3>1, <3>2
  <2>2. {idx[q] : q \in {q \in Waiting : phase[q] = "called"}}'
          = {idx[q] : q \in {q \in Waiting : phase[q] = "called"}}
    BY Zenon, <1>3, <1>5, <2>1
  <2>3. {idx[q] : q \in {q \in Waiting : phase[q] = "done" /\ disk_owns[q]}}'
          = {idx[q] : q \in {q \in Waiting : phase[q] = "done" /\ disk_owns[q]}}
    BY ZenonT(60), <1>3, <1>5, <2>1
  <2>4. \A d \in Entries(used, used_idx, dev_used) : status'[d] = 0
    <3>1. \A d \in Entries(used, used_idx, dev_used) : d \in Desc /\ d \notin free /\ status[d] = 0
      <4>1. /\ Entries(used, used_idx, dev_used)
                  = {idx[q] : q \in {q \in Waiting : phase[q] = "done" /\ disk_owns[q]}}
            /\ \A d \in Entries(used, used_idx, dev_used) : status[d] = 0
        BY ONLY Zenon, IInv DEF IInv, Handed
      <4>2. \A q \in Waiting : idx[q] \in Desc /\ idx[q] \notin free
        BY ONLY Zenon, IInv, Heads
      <4> QED BY ONLY Zenon, <4>1, <4>2
    <3>2. \A d \in Desc : d # i => status'[d] = status[d]
      BY Zenon, <1>3 DEF IInv, TypeOK
    <3> QED BY Zenon, <1>2, <3>1, <3>2
  <2>5. \A q \in Proc : pc'[q] # "notify"
    BY ZenonT(60), <1>3, VirtioAssumption DEF IInv, TypeOK, Stages
  <2>6. used_idx' # dev_used' => interrupt'
    BY Zenon, <1>3, VirtioAssumption DEF IInv, Handed
  <2> QED BY Zenon, <1>3, <2>2, <2>3, <2>4, <2>5, <2>6 DEF IInv, Handed
<1> QED BY Zenon, <1>6, <1>9, <1>10, <1>11 DEF IInv

----------------------------------------------------------------------------
(* The theorems. *)

LEMMA StepInv == IInv /\ [Next]_vars => IInv'
<1> SUFFICES ASSUME IInv, [Next]_vars PROVE IInv'
  BY Zenon
<1>1. CASE UNCHANGED vars
  <2>1. /\ UNCHANGED <<lock, free, next, addr, ops, info, status, avail, avail_idx, used, dev_used>>
        /\ UNCHANGED <<used_idx, disk_owns, pc, idx, dev_avail, inflight, interrupt>>
        /\ UNCHANGED <<disk, data, req, phase>>
    BY ONLY Zenon, <1>1 DEF vars, descs, rings, device, content
  <2>2. Active' = Active /\ Waiting' = Waiting
    BY ONLY Zenon, <2>1 DEF Active, Waiting
  <2>3. TypeOK'
    BY Zenon, <2>1 DEF IInv, TypeOK
  <2>4. Chains'
    BY Zenon, <2>1, <2>2, ChainsKept DEF IInv
  <2>5. Stages'
    BY Zenon, <2>1, <2>2 DEF IInv, Stages
  <2>6. Handed'
    <3>1. /\ Entries(avail, dev_avail, avail_idx)' = Entries(avail, dev_avail, avail_idx)
          /\ Entries(used, used_idx, dev_used)' = Entries(used, used_idx, dev_used)
          /\ Distinct(avail, dev_avail, avail_idx)' <=> Distinct(avail, dev_avail, avail_idx)
          /\ Distinct(used, used_idx, dev_used)' <=> Distinct(used, used_idx, dev_used)
      BY ONLY Zenon, <2>1
    <3> QED BY ZenonT(60), <2>1, <2>2, <3>1 DEF IInv, Handed
  <2> QED BY ONLY Zenon, <2>3, <2>4, <2>5, <2>6 DEF IInv
<1>2. ASSUME NEW p \in Proc, Driver(p) \/ kkill(p) \/ \E v \in Val, r \in Request : call(p, v, r)
      PROVE  IInv'
  BY Zenon, <1>2, AllocFailsInv, FormatInv, PublishInv, NotifyInv, SleepAgainInv, FinishInv, KillInv,
     CallInv DEF Driver
<1>3. CASE Handler
  BY Zenon, <1>3, IntrAckInv, IntrEntryInv, IntrEndInv DEF Handler
<1>4. CASE Device
  BY Zenon, <1>4, DevFetchInv, DevCompleteInv DEF Device
<1> QED BY Zenon, <1>1, <1>2, <1>3, <1>4 DEF Next

\* Descriptors, rings and callers of the disk driver are always consistent.
THEOREM VirtioInvariance == Spec => []IInv
BY InitInv, StepInv, PTL DEF Spec

\* alloc3_desc(), free_chain(): no descriptor is leaked, freed twice or shared by two
\* requests, and every request has three.
THEOREM VirtioDescriptorsAccounted == Spec => []DescriptorsAccounted
<1>1. ASSUME IInv PROVE DescriptorsAccounted
  <2>1. ASSUME NEW p \in Active PROVE Cardinality(Chain(idx[p])) = 3
    <3>1. PICK a, b, c : /\ a # b /\ a # c /\ b # c
                         /\ a = idx[p] /\ b = next[idx[p]] /\ c = next[next[idx[p]]]
      <4>1. /\ idx[p] # next[idx[p]] /\ idx[p] # next[next[idx[p]]]
            /\ next[idx[p]] # next[next[idx[p]]]
        BY Zenon, <1>1, ChainIn
      <4> QED BY ONLY Zenon, <4>1
    <3>2. Chain(idx[p]) = ({a} \cup {b}) \cup {c}
      BY Zenon, <3>1 DEF Chain
    <3>3. IsFiniteSet({a}) /\ Cardinality({a}) = 1
      BY Zenon, FS_Singleton
    <3>4. IsFiniteSet({a} \cup {b}) /\ Cardinality({a} \cup {b}) = 2
      <4>1. b \notin {a}
        BY Zenon, <3>1
      <4> QED BY ONLY <3>3, <4>1, FS_AddElement
    <3>5. Cardinality(({a} \cup {b}) \cup {c}) = 3
      <4>1. c \notin {a} \cup {b}
        BY Zenon, <3>1
      <4> QED BY ONLY <3>4, <4>1, FS_AddElement
    <3> QED BY Zenon, <3>2, <3>5
  <2>2. \A h \in inflight : \E p \in Active : h = idx[p]
    BY Zenon, <1>1, InFlight
  <2> QED BY Zenon, <1>1, <2>1, <2>2 DEF DescriptorsAccounted
<1> QED BY <1>1, VirtioInvariance, PTL

\* virtio_disk_intr(): a caller asleep with its request finished has an entry of the used
\* ring and an interrupt still to come.
THEOREM VirtioCompletionPending == Spec => []CompletionPending
<1>1. ASSUME IInv PROVE CompletionPending
  <2> SUFFICES ASSUME NEW p \in Proc, pc[p] = "wait_disk", phase[p] = "done"
               PROVE  disk_owns[p] /\ used_idx # dev_used /\ (interrupt \/ lock = Intr)
    BY Zenon DEF CompletionPending
  <2>1. disk_owns[p] /\ p \in Waiting
    BY Zenon, <1>1 DEF IInv, Stages, Waiting
  <2>2. idx[p] \in Entries(used, used_idx, dev_used)
    BY Zenon, <1>1, <2>1 DEF IInv, Handed
  <2>3. used_idx \in Idx /\ dev_used \in Idx
    BY Zenon, <1>1 DEF IInv, TypeOK
  <2>4. ASSUME used_idx = dev_used PROVE FALSE
    <3>1. Pending(used_idx, dev_used) = 0
      BY Zenon, <2>3, <2>4, PendingValue
    <3> QED BY <2>2, <3>1 DEF Entries
  <2> QED BY Zenon, <1>1, <2>1, <2>4 DEF IInv, Handed
<1> QED BY <1>1, VirtioInvariance, PTL

\* virtio_disk_rw() returns after its own transfer has happened exactly once, whatever the
\* device, the interrupts and kill() do.
THEOREM VirtioTransferOnce == Spec => TransferOnce
<1>1. Init => Disk!Init
  BY DEF Init, Disk!Init, Request
<1>2. IInv /\ [Next]_vars => [Disk!Next]_(Disk!vars)
  <2> SUFFICES ASSUME IInv, [Next]_vars PROVE Disk!Next \/ UNCHANGED Disk!vars
    BY Zenon
  <2>1. CASE UNCHANGED <<content, phase>>
    BY Zenon, <2>1 DEF content, Disk!vars
  <2>2. ASSUME NEW p \in Proc, NEW v \in Val, NEW r \in Request, call(p, v, r)
        PROVE  Disk!Next
    <3>1. Disk!Call(p, v, r)
      BY Zenon, <2>2 DEF IInv, TypeOK, Stages, call, Disk!Call
    <3> QED BY Zenon, <3>1 DEF Disk!Next, Request
  <2>3. ASSUME NEW p \in Proc, finish(p) PROVE Disk!Next
    <3>1. phase[p] = "done"
      BY Zenon, <2>3, FinishInv
    <3>2. Disk!Return(p)
      BY Zenon, <2>3, <3>1 DEF finish, content, Disk!Return
    <3> QED BY Zenon, <3>2 DEF Disk!Next
  <2>4. ASSUME NEW h \in Desc, dev_complete(h) PROVE Disk!Next
    <3>1. PICK p \in Waiting : /\ p \in Active /\ p \in Proc /\ phase[p] = "called" /\ idx[p] = h
                              /\ h \in Desc /\ addr[next[h]] = p /\ ops[h] = req[p]
      BY Zenon, <2>4, InFlight DEF dev_complete
    <3>2. Disk!Transfer(p)
      BY Zenon, <2>4, <3>1 DEF dev_complete, Disk!Transfer
    <3> QED BY Zenon, <3>1, <3>2 DEF Disk!Next
  <2>5. CASE UNCHANGED vars
    BY Zenon, <2>1, <2>5 DEF vars
  <2>6. ASSUME NEW p \in Proc, Driver(p) \/ kkill(p) \/ \E v \in Val, r \in Request : call(p, v, r)
        PROVE  Disk!Next \/ UNCHANGED Disk!vars
    BY Zenon, <2>1, <2>2, <2>3, <2>6
       DEF Driver, alloc3_fails, format, publish, notify, sleep_again, kkill
  <2>7. CASE Handler
    BY Zenon, <2>1, <2>7 DEF Handler, intr_ack, intr_entry, intr_end
  <2>8. CASE Device
    BY Zenon, <2>1, <2>4, <2>8 DEF Device, dev_fetch
  <2> QED BY Zenon, <2>5, <2>6, <2>7, <2>8 DEF Next
<1> QED BY <1>1, <1>2, VirtioInvariance, PTL DEF Spec, TransferOnce, Disk!Spec
=============================================================================
