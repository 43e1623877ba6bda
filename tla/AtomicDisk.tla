----------------------------- MODULE AtomicDisk -----------------------------
(***************************************************************************)
(* What the disk driver promises (kernel/virtio_disk.c): a transfer        *)
(* between a buffer and a block happens exactly once between the call of   *)
(* virtio_disk_rw() and its return, and touches nothing else.  Transfers   *)
(* of different callers may happen in any order.                           *)
(***************************************************************************)
CONSTANTS Proc, Block, Val

VARIABLES disk,   \* [Block -> Val]
          data,   \* [Proc -> Val]: the buffer of each caller
          req,    \* [Proc -> [write : BOOLEAN, block : Block]]: its last request
          phase   \* [Proc -> {"idle", "called", "done"}]

vars == <<disk, data, req, phase>>

Init ==
    /\ disk \in [Block -> Val]
    /\ data \in [Proc -> Val]
    /\ req \in [Proc -> [write : BOOLEAN, block : Block]]
    /\ phase = [p \in Proc |-> "idle"]

Call(p, v, r) ==
    /\ phase[p] = "idle"
    /\ data' = [data EXCEPT ![p] = v]
    /\ req' = [req EXCEPT ![p] = r]
    /\ phase' = [phase EXCEPT ![p] = "called"]
    /\ UNCHANGED disk

Transfer(p) ==
    /\ phase[p] = "called"
    /\ IF req[p].write
       THEN disk' = [disk EXCEPT ![req[p].block] = data[p]] /\ UNCHANGED data
       ELSE data' = [data EXCEPT ![p] = disk[req[p].block]] /\ UNCHANGED disk
    /\ phase' = [phase EXCEPT ![p] = "done"]
    /\ UNCHANGED req

Return(p) ==
    /\ phase[p] = "done"
    /\ phase' = [phase EXCEPT ![p] = "idle"]
    /\ UNCHANGED <<disk, data, req>>

Next == \E p \in Proc :
            \/ \E v \in Val, r \in [write : BOOLEAN, block : Block] : Call(p, v, r)
            \/ Transfer(p) \/ Return(p)

Spec == Init /\ [][Next]_vars
=============================================================================
