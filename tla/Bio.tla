-------------------------------- MODULE Bio ---------------------------------
(***************************************************************************)
(* kernel/bio.c: the buffer cache.  A buffer is found or recycled under    *)
(* bcache.lock, but its sleep-lock is acquired after that lock has been    *)
(* released, and its reference count is dropped after the sleep-lock has   *)
(* been: one action is one section under one of the two locks, or one      *)
(* transfer of the disk.                                                   *)
(***************************************************************************)
EXTENDS Integers, FiniteSets, Functions

CONSTANTS
    Proc,    \* the users: a process that holds several buffers is as many users
    Block,   \* the blocks of the disk
    Val,     \* the contents of a block
    NBUF,    \* the number of buffers
    None,    \* no block, no process
    MaxPin   \* the bound on the blocks pinned at a time: the size of the log

Buf == 1..NBUF

ASSUME BioAssumption ==
    /\ NBUF \in Nat /\ MaxPin \in Nat
    /\ IsFiniteSet(Proc) /\ None \notin Block \cup Proc

VARIABLES
    disk,      \* [Block -> Val]
    \* struct buf
    blockno,   \* [Buf -> Block \cup {None}]
    valid,     \* [Buf -> BOOLEAN]
    refcnt,    \* [Buf -> Int]
    data,      \* [Buf -> Val]
    lock,      \* [Buf -> Proc \cup {None}]: the holder of the sleep-lock
    lru,       \* [Buf -> Buf]: the list bcache.head, most recently used first
    \* The processes.
    pc,        \* [Proc -> where the process is in this file]
    want,      \* [Proc -> Block \cup {None}]: the argument of bget()
    buf,       \* [Proc -> Buf \cup {0}]: the buffer it found
    \* The logging layer, which holds its blocks in the cache.
    pinned,    \* the buffers bpin()ned
    changed    \* the buffers changed and neither written nor pinned yet

bcache == <<blockno, refcnt, lru>>
vars   == <<disk, bcache, valid, data, lock, pc, want, buf, pinned, changed>>

Goto(p, l) == pc' = [pc EXCEPT ![p] = l]

----------------------------------------------------------------------------
(* bget(), bread() *)

ref(b) == refcnt' = [refcnt EXCEPT ![b] = @ + 1]

unref(b) == refcnt' = [refcnt EXCEPT ![b] = @ - 1]

\* The least recently used buffer that is not in use: the search goes backwards.
unused_any(b) == TRUE
unused_if_invalid(b) == refcnt[b] = 0 /\ ~valid[b]
unused(b) == refcnt[b] = 0
LeastRecent(b) ==
    \E i \in Buf : lru[i] = b /\ unused(b) /\ \A j \in (i + 1)..NBUF : ~unused(lru[j])

cached(k) == {b \in Buf : blockno[b] = k}

\* The section under bcache.lock.
bget(p, k) ==
    /\ pc[p] = "idle"
    /\ want' = [want EXCEPT ![p] = k]
    /\ \/ \E b \in cached(k) :
            /\ ref(b)
            /\ buf' = [buf EXCEPT ![p] = b]
            /\ Goto(p, "acquiresleep")
            /\ UNCHANGED <<blockno, valid>>
       \/ /\ cached(k) = {}
          /\ \E b \in Buf :
               /\ LeastRecent(b)
               /\ blockno' = [blockno EXCEPT ![b] = k]
               /\ valid' = [valid EXCEPT ![b] = FALSE]
               /\ refcnt' = [refcnt EXCEPT ![b] = 1]
               /\ buf' = [buf EXCEPT ![p] = b]
               /\ Goto(p, "acquiresleep")
       \/ /\ cached(k) = {}
          /\ \A b \in Buf : ~unused(b)
          /\ Goto(p, "panic")
          /\ UNCHANGED <<blockno, valid, refcnt, buf>>
    /\ UNCHANGED <<disk, lru, data, lock, pinned, changed>>

acquiresleep(p) ==
    /\ pc[p] = "acquiresleep"
    /\ lock[buf[p]] = None
    /\ lock' = [lock EXCEPT ![buf[p]] = p]
    /\ Goto(p, "bread")
    /\ UNCHANGED <<disk, bcache, valid, data, want, buf, pinned, changed>>

\* virtio_disk_rw(b, 0), unless the buffer is valid.
fill_never(b) == UNCHANGED data
fill(b) == data' = IF valid[b] THEN data ELSE [data EXCEPT ![b] = disk[blockno[b]]]

bread(p) ==
    /\ pc[p] = "bread"
    /\ fill(buf[p])
    /\ valid' = [valid EXCEPT ![buf[p]] = TRUE]
    /\ Goto(p, "locked")
    /\ UNCHANGED <<disk, bcache, lock, want, buf, pinned, changed>>

----------------------------------------------------------------------------
(* What the holder of a buffer does with it. *)

modify(p, v) ==
    /\ pc[p] = "locked"
    /\ data' = [data EXCEPT ![buf[p]] = v]
    /\ changed' = changed \cup {buf[p]}
    /\ UNCHANGED <<disk, bcache, valid, lock, pc, want, buf, pinned>>

bwrite(p) ==
    /\ pc[p] = "locked"
    /\ disk' = [disk EXCEPT ![blockno[buf[p]]] = data[buf[p]]]
    /\ changed' = changed \ {buf[p]}
    /\ UNCHANGED <<bcache, valid, data, lock, pc, want, buf, pinned>>

\* log_write(): pin a changed block once, until it is installed.
bpin(p) ==
    /\ pc[p] = "locked"
    /\ buf[p] \in changed
    /\ \/ buf[p] \in pinned /\ UNCHANGED <<refcnt, pinned>>
       \/ /\ buf[p] \notin pinned /\ Cardinality(pinned) < MaxPin
          /\ ref(buf[p])
          /\ pinned' = pinned \cup {buf[p]}
    /\ changed' = changed \ {buf[p]}
    /\ UNCHANGED <<disk, blockno, lru, valid, data, lock, pc, want, buf>>

\* install_trans(): bwrite() to the home location, then bunpin().
bunpin(p) ==
    /\ pc[p] = "locked"
    /\ buf[p] \in pinned \ changed
    /\ disk[blockno[buf[p]]] = data[buf[p]]
    /\ unref(buf[p])
    /\ pinned' = pinned \ {buf[p]}
    /\ UNCHANGED <<disk, blockno, lru, valid, data, lock, pc, want, buf, changed>>

----------------------------------------------------------------------------
(* brelse() *)

releasesleep(p) ==
    /\ pc[p] = "locked"
    /\ buf[p] \notin changed
    /\ lock' = [lock EXCEPT ![buf[p]] = None]
    /\ Goto(p, "brelse")
    /\ UNCHANGED <<disk, bcache, valid, data, want, buf, pinned, changed>>

\* The list with b moved to its front.
MovedToFront(b) ==
    LET i == CHOOSE i \in Buf : lru[i] = b
    IN  [j \in Buf |-> IF j = 1 THEN b ELSE IF j <= i THEN lru[j - 1] ELSE lru[j]]

\* The section under bcache.lock: an unused buffer moves to the front.
brelse(p) ==
    /\ pc[p] = "brelse"
    /\ unref(buf[p])
    /\ lru' = IF refcnt[buf[p]] = 1 THEN MovedToFront(buf[p]) ELSE lru
    /\ buf' = [buf EXCEPT ![p] = 0]
    /\ want' = [want EXCEPT ![p] = None]
    /\ Goto(p, "idle")
    /\ UNCHANGED <<disk, blockno, valid, data, lock, pinned, changed>>

----------------------------------------------------------------------------
\* binit()
Init ==
    /\ disk \in [Block -> Val]
    /\ blockno = [b \in Buf |-> None]
    /\ valid = [b \in Buf |-> FALSE]
    /\ refcnt = [b \in Buf |-> 0]
    /\ \E v \in Val : data = [b \in Buf |-> v]
    /\ lock = [b \in Buf |-> None]
    /\ lru = [i \in Buf |-> NBUF + 1 - i]
    /\ pc = [p \in Proc |-> "idle"]
    /\ want = [p \in Proc |-> None]
    /\ buf = [p \in Proc |-> 0]
    /\ pinned = {}
    /\ changed = {}

Next ==
    \/ \E p \in Proc, k \in Block : bget(p, k)
    \/ \E p \in Proc, v \in Val : modify(p, v)
    \/ \E p \in Proc : \/ acquiresleep(p) \/ bread(p) \/ bwrite(p) \/ bpin(p) \/ bunpin(p)
                       \/ releasesleep(p) \/ brelse(p)

Spec == Init /\ [][Next]_vars

----------------------------------------------------------------------------
(* Properties *)

\* The processes between bget() and the end of brelse() of a buffer.
Users(b) == {p \in Proc : buf[p] = b}

\* What a block holds for a reader.
Contents == [k \in Block |-> IF \E b \in cached(k) : valid[b]
                             THEN data[CHOOSE b \in cached(k) : valid[b]] ELSE disk[k]]

\* The process past bread() of a block.
User == [k \in Block |-> IF \E p \in Proc : pc[p] = "locked" /\ want[p] = k
                         THEN CHOOSE p \in Proc : pc[p] = "locked" /\ want[p] = k ELSE None]

Blocks == INSTANCE LockedBlocks WITH contents <- Contents, user <- User, Nobody <- None

\* bio.c:1-16: the cache implements blocks that are used by one process at a
\* time; recycling buffers, in any order and at any moment, is not seen.
CacheTransparent == Blocks!Spec

TypeOK ==
    /\ disk \in [Block -> Val]
    /\ blockno \in [Buf -> Block \cup {None}]
    /\ valid \in [Buf -> BOOLEAN]
    /\ refcnt \in [Buf -> Int]
    /\ data \in [Buf -> Val]
    /\ lock \in [Buf -> Proc \cup {None}]
    /\ lru \in [Buf -> Buf]
    /\ pc \in [Proc -> {"idle", "acquiresleep", "bread", "locked", "brelse", "panic"}]
    /\ want \in [Proc -> Block \cup {None}]
    /\ buf \in [Proc -> Buf \cup {0}]
    /\ pinned \in SUBSET Buf
    /\ changed \in SUBSET Buf

\* bget(): the search never leaves two buffers for one block, though a block is
\* looked up and a buffer recycled for it by several processes.
OneBuffer == \A b, c \in Buf : blockno[b] = blockno[c] /\ blockno[b] # None => b = c

\* bget(), brelse(): from the moment a process has found its buffer until it has
\* given it back, also while it waits for the sleep-lock, the buffer is not
\* recycled for another block.
NotRecycled == \A p \in Proc : buf[p] # 0 => blockno[buf[p]] = want[p]

\* The references to a buffer are its users and its pin.
RefsCounted ==
    \A b \in Buf : refcnt[b] = Cardinality(Users(b)) + (IF b \in pinned THEN 1 ELSE 0)

\* bget() panics only if each buffer has a user or a pin: a buffer whose users
\* and pin are gone is found again, whatever happened to it before.
BuffersSuffice ==
    [][\A p \in Proc : pc[p] # "panic" /\ pc'[p] = "panic" =>
          Cardinality({q \in Proc : buf[q] # 0}) + Cardinality(pinned) >= NBUF]_vars

\* A process has its buffer from bget() to brelse(), and its sleep-lock from
\* acquiresleep() to releasesleep().
Locks ==
    /\ \A p \in Proc : pc[p] \in {"acquiresleep", "bread", "locked", "brelse"} <=> buf[p] # 0
    /\ \A p \in Proc : buf[p] # 0 => want[p] \in Block
    /\ \A p \in Proc : pc[p] \in {"bread", "locked"} => lock[buf[p]] = p
    /\ \A b \in Buf : lock[b] # None => buf[lock[b]] = b /\ pc[lock[b]] \in {"bread", "locked"}

\* A valid buffer holds what its block does, unless it is being changed or waits in
\* the log.
Copies ==
    /\ \A p \in Proc : pc[p] = "locked" => valid[buf[p]]
    /\ \A b \in Buf : b \in changed => \E p \in Users(b) : pc[p] = "locked"
    /\ \A b \in Buf : valid[b] /\ b \notin pinned \cup changed => data[b] = disk[blockno[b]]
    /\ \A b \in Buf : b \in pinned => valid[b]
    /\ \A b \in Buf : valid[b] => blockno[b] # None

\* The invariant behind CacheTransparent: a block has one buffer, which is not
\* recycled under those who have found it, its references are counted, and a
\* buffer that is valid holds what its block does.
IInv ==
    /\ TypeOK
    /\ OneBuffer /\ NotRecycled /\ RefsCounted
    /\ Locks /\ Copies
    /\ Range(lru) = Buf
=============================================================================
