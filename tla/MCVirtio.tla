------------------------------ MODULE MCVirtio ------------------------------
(* An instance of Virtio for TLC. *)
EXTENDS Virtio, TLC

CONSTANTS p1, p2, p3, k1

ThreeProcs == {p1, p2, p3}
OneBlock   == {k1}

Symmetry == Permutations(Proc)

\* The ring entries between two indices.
Live(ring, from, to) == [i \in 0..(Pending(from, to) - 1) |-> Entry(ring, from, i)]

\* The entry that is written and not yet announced is live too.
written == IF \E p \in Proc : pc[p] = "notify" THEN inc(avail_idx) ELSE avail_idx

\* States that differ only in what is never read again before it is written (ring
\* entries already consumed, headers of free descriptors, the buffers of idle
\* callers) count as one.
LiveState ==
    <<lock, free, next, addr, info, Live(avail, dev_avail, written), dev_avail, avail_idx,
      Live(used, used_idx, dev_used), used_idx, dev_used, disk_owns, pc, idx, inflight, interrupt,
      disk, phase,
      [d \in Desc |-> IF d \in free THEN <<>> ELSE <<ops[d], status[d]>>],
      [p \in Proc |-> IF pc[p] = "idle" THEN <<>> ELSE <<data[p], req[p]>>]>>
=============================================================================
