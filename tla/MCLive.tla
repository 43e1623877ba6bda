------------------------------- MODULE MCLive -------------------------------
(***************************************************************************)
(* The waits below the file system, under fairness: the processes that     *)
(* wait in begin_op() and for a commit (Log), or for descriptors and for a *)
(* request in virtio_disk_rw() (Virtio).  A behaviour boots, and then      *)
(* follows one of the two; the other stays idle, where its fairness asks   *)
(* for nothing.                                                            *)
(***************************************************************************)
EXTENDS Log, TLC

CONSTANTS p1, p2, b1, b2, None, Sector, NUM, UINT16

TwoProcs  == {p1, p2}
TwoBlocks == {b1, b2}

VARIABLES
    which,
    vlock, free, next, addr, cmds, info, status, avail, avail_idx, used, dev_used, used_idx,
    disk_owns, vpc, idx, dev_avail, inflight, interrupt, sectors, data, req, phase

dvars == <<vlock, free, next, addr, cmds, info, status, avail, avail_idx, used, dev_used, used_idx,
           disk_owns, vpc, idx, dev_avail, inflight, interrupt, sectors, data, req, phase>>

Dev == INSTANCE Virtio WITH Block <- Sector, lock <- vlock, ops <- cmds, pc <- vpc, disk <- sectors

LiveInit == which \in {"log", "disk"} /\ Init /\ Dev!Init

LiveNext ==
    /\ UNCHANGED which
    /\ \/ which = "log" /\ Next /\ UNCHANGED dvars
       \/ which = "disk" /\ Recover /\ UNCHANGED dvars
       \/ which = "disk" /\ boot = "up" /\ Dev!Next /\ UNCHANGED vars

LiveSpec == LiveInit /\ [][LiveNext]_<<which, vars, dvars>> /\ Fairness /\ Dev!Fairness

\* virtio_disk.c:213-293: RequestsFinish of Virtio: a caller that has its
\* descriptors returns; one that waits for them also does, unless others take them
\* again and again.
DiskRequestsFinish == Dev!RequestsFinish
=============================================================================
