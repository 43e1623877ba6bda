-------------------------------- MODULE Log --------------------------------
(***************************************************************************)
(* kernel/log.c: the write-ahead log, over the disk and the part of the    *)
(* buffer cache (kernel/bio.c) that it depends on: a buffer is locked by   *)
(* one process at a time, its contents are lost when the cache recycles    *)
(* it, and a pinned or locked buffer is not recycled.                      *)
(*                                                                         *)
(* One action is one section of code that runs under a lock, or one disk   *)
(* write: the power may fail between any two of them.                      *)
(***************************************************************************)
EXTENDS Integers, Sequences, FiniteSets, Functions

CONSTANTS
    Proc,         \* the processes that run file-system calls
    Block,        \* the block numbers outside the log
    Val,          \* the contents of a block
    NoBuf,        \* "not in the buffer cache"
    NoProc,       \* "not locked"
    MAXOPBLOCKS,  \* param.h: max # of blocks any FS op writes
    LOGBLOCKS,    \* param.h: max data blocks in on-disk log
    OpBlocks,     \* the distinct blocks an operation of this instance writes
    OpCalls,      \* the bound on its calls of log_write(), which may repeat a block
    MaxCrash      \* the bound on the number of crashes

ASSUME LogAssumption ==
    /\ IsFiniteSet(Proc)
    /\ NoProc \notin Proc
    /\ NoBuf \notin Val
    /\ MAXOPBLOCKS \in Nat \ {0}
    /\ LOGBLOCKS \in Nat
    /\ LOGBLOCKS >= MAXOPBLOCKS
    /\ OpBlocks \in 1..MAXOPBLOCKS
    /\ OpCalls \in Nat
    /\ MaxCrash \in Nat

VARIABLES
    \* On the disk.
    home,         \* [Block -> Val]: the home location of each block
    dlog,         \* [1..LOGBLOCKS -> Val]: the body of the log
    dhead,        \* the header block of the log: its n block numbers
    \* struct log, in memory.
    lh,           \* log.lh: the block numbers logged so far
    outstanding,  \* log.outstanding
    committing,   \* log.committing
    \* The buffer cache, in memory.
    cache,        \* [Block -> Val \cup {NoBuf}]: the contents of the buffer
    owner,        \* [Block -> Proc \cup {NoProc}]: the holder of its sleep-lock
    pins,         \* [Block -> Nat]: the references bpin() added to its refcnt
    \* The threads of control.
    boot,         \* where the boot thread is in initlog(), "up" after it
    pc,           \* [Proc -> where the process is in this file]
    tail,         \* the loop variable of write_log() and install_trans()
    \* What the calling operations do; not in the code.
    dirty,        \* the buffers modified and not yet given to log_write()
    touched,      \* [Proc -> SUBSET Block]: the blocks the operation wrote
    calls,        \* [Proc -> Nat]: its calls of log_write()
    crashes

disk  == <<home, dlog, dhead>>
logv  == <<lh, outstanding, committing>>
bufs  == <<cache, owner, pins>>
ops   == <<dirty, touched, calls>>
vars  == <<disk, logv, bufs, boot, pc, tail, ops, crashes>>

----------------------------------------------------------------------------
(* The buffer cache, as log.c sees it. *)

\* What bread() returns for block b: the cached contents, or the disk's.
Contents(b) == IF cache[b] # NoBuf THEN cache[b] ELSE home[b]

\* bread() by a system call, inside an operation or (a read) outside.
bread(p, b) ==
    /\ boot = "up"
    /\ pc[p] \in {"idle", "op"}
    /\ owner[b] = NoProc
    /\ owner' = [owner EXCEPT ![b] = p]
    /\ cache' = [cache EXCEPT ![b] = Contents(b)]
    /\ UNCHANGED <<disk, logv, pins, boot, pc, tail, ops, crashes>>

\* The caller changes bp->data and is bound to call log_write(bp).
modify(p, b, v) ==
    /\ pc[p] = "op"
    /\ owner[b] = p
    /\ b \notin dirty
    /\ calls[p] < OpCalls
    /\ Cardinality(touched[p] \cup {b}) <= OpBlocks
    /\ cache' = [cache EXCEPT ![b] = v]
    /\ dirty' = dirty \cup {b}
    /\ touched' = [touched EXCEPT ![p] = @ \cup {b}]
    /\ calls' = [calls EXCEPT ![p] = @ + 1]
    /\ UNCHANGED <<disk, logv, owner, pins, boot, pc, tail, crashes>>

brelse(p, b) ==
    /\ pc[p] \in {"idle", "op"}
    /\ owner[b] = p
    /\ b \notin dirty
    /\ owner' = [owner EXCEPT ![b] = NoProc]
    /\ UNCHANGED <<disk, logv, cache, pins, boot, pc, tail, ops, crashes>>

\* bget() recycles the buffer of b, whose refcnt is 0, for another block.
recycle(b) ==
    /\ cache[b] # NoBuf
    /\ owner[b] = NoProc
    /\ pins[b] = 0
    /\ cache' = [cache EXCEPT ![b] = NoBuf]
    /\ UNCHANGED <<disk, logv, owner, pins, boot, pc, tail, ops, crashes>>

bpin_forgotten(b) == UNCHANGED pins
bpin(b) == pins' = [pins EXCEPT ![b] = @ + 1]

bunpin(b) == pins' = [pins EXCEPT ![b] = @ - 1]

----------------------------------------------------------------------------
(* begin_op(), log_write(), end_op(). *)

\* This op might exhaust the log: what every outstanding operation and this one
\* may still write counts.
MightExhaust_off_by_one == Len(lh) + outstanding * MAXOPBLOCKS > LOGBLOCKS
MightExhaust == Len(lh) + (outstanding + 1) * MAXOPBLOCKS > LOGBLOCKS

MustWait == committing \/ MightExhaust

begin_op(p) ==
    /\ boot = "up"
    /\ pc[p] \in {"idle", "begin_op"}
    /\ \A b \in Block : owner[b] # p
    /\ \/ /\ MustWait
          /\ pc' = [pc EXCEPT ![p] = "asleep"]
          /\ UNCHANGED outstanding
       \/ /\ ~MustWait
          /\ outstanding' = outstanding + 1
          /\ pc' = [pc EXCEPT ![p] = "op"]
    /\ UNCHANGED <<disk, lh, committing, bufs, boot, tail, ops, crashes>>

\* wakeup(&log), with the caller p of it moving on to label l.
WakeupLog_lost(p, l) == pc' = [pc EXCEPT ![p] = l]
WakeupLog(p, l) ==
    pc' = [q \in Proc |-> IF q = p THEN l
                          ELSE IF pc[q] = "asleep" THEN "begin_op" ELSE pc[q]]

Absorbed(b) == b \in Range(lh)

log_write(p, b) ==
    /\ pc[p] = "op"
    /\ owner[b] = p
    /\ b \in dirty
    /\ \/ /\ Len(lh) >= LOGBLOCKS \/ outstanding < 1
          /\ pc' = [pc EXCEPT ![p] = "panic"]
          /\ UNCHANGED <<lh, pins, dirty>>
       \/ /\ Len(lh) < LOGBLOCKS /\ outstanding >= 1
          /\ \/ Absorbed(b) /\ UNCHANGED <<lh, pins>>
             \/ ~Absorbed(b) /\ lh' = Append(lh, b) /\ bpin(b)
          /\ dirty' = dirty \ {b}
          /\ UNCHANGED pc
    /\ UNCHANGED <<disk, outstanding, committing, cache, owner, boot, tail,
                   touched, calls, crashes>>

\* The last operation to end goes on to commit().
end_op(p) ==
    /\ pc[p] = "op"
    /\ \A b \in Block : owner[b] # p
    /\ outstanding' = outstanding - 1
    /\ \/ /\ committing
          /\ pc' = [pc EXCEPT ![p] = "panic"]
          /\ UNCHANGED <<committing, tail>>
       \/ /\ ~committing /\ outstanding = 1
          /\ committing' = TRUE
          /\ pc' = [pc EXCEPT ![p] =
                        IF Len(lh) > 0 THEN "write_log" ELSE "end_commit"]
          /\ tail' = 1
       \/ /\ ~committing /\ outstanding # 1
          /\ WakeupLog(p, "idle")
          /\ UNCHANGED <<committing, tail>>
    /\ touched' = [touched EXCEPT ![p] = {}]
    /\ calls' = [calls EXCEPT ![p] = 0]
    /\ UNCHANGED <<disk, lh, bufs, boot, dirty, crashes>>

----------------------------------------------------------------------------
(* commit(), by the process whose end_op() set log.committing. *)

\* The loops of write_log() and install_trans() end after this iteration.
LastBlock_too_early == tail >= Len(lh) - 1
LastBlock == tail = Len(lh)

\* One iteration of write_log(): the modified block goes from the cache to
\* the log.
write_log(p) ==
    /\ pc[p] = "write_log"
    /\ owner[lh[tail]] = NoProc
    /\ dlog' = [dlog EXCEPT ![tail] = Contents(lh[tail])]
    /\ cache' = [cache EXCEPT ![lh[tail]] = Contents(lh[tail])]
    /\ tail' = tail + 1
    /\ pc' = [pc EXCEPT ![p] = IF LastBlock THEN "write_head" ELSE @]
    /\ UNCHANGED <<home, dhead, logv, owner, pins, boot, ops, crashes>>

\* The write of the header block: the true point at which the transaction
\* commits.
write_head(p) ==
    /\ pc[p] = "write_head"
    /\ dhead' = lh
    /\ tail' = 1
    /\ pc' = [pc EXCEPT ![p] = "install_trans"]
    /\ UNCHANGED <<home, dlog, logv, bufs, boot, ops, crashes>>

\* One iteration of install_trans(recovering).
InstallBlock(recovering) ==
    LET b == lh[tail] IN
    /\ owner[b] = NoProc
    /\ cache' = [cache EXCEPT ![b] = dlog[tail]]
    /\ home' = [home EXCEPT ![b] = dlog[tail]]
    /\ IF recovering THEN UNCHANGED pins ELSE bunpin(b)
    /\ tail' = tail + 1
    /\ UNCHANGED <<dlog, dhead, logv, owner, ops, crashes>>

install_trans(p) ==
    /\ pc[p] = "install_trans"
    /\ InstallBlock(FALSE)
    /\ pc' = [pc EXCEPT ![p] = IF LastBlock THEN "erase" ELSE @]
    /\ UNCHANGED boot

\* log.lh.n = 0; write_head(): erase the transaction from the log.
EraseLog ==
    /\ lh' = <<>>
    /\ dhead' = <<>>
    /\ UNCHANGED <<home, dlog, outstanding, committing, bufs, tail, ops, crashes>>

erase(p) ==
    /\ pc[p] = "erase"
    /\ EraseLog
    /\ pc' = [pc EXCEPT ![p] = "end_commit"]
    /\ UNCHANGED boot

\* The last section of end_op(), after commit().
end_commit_still_committing(p) ==
    /\ pc[p] = "end_commit"
    /\ WakeupLog(p, "idle")
    /\ UNCHANGED <<disk, logv, bufs, boot, tail, ops, crashes>>
end_commit(p) ==
    /\ pc[p] = "end_commit"
    /\ committing' = FALSE
    /\ WakeupLog(p, "idle")
    /\ UNCHANGED <<disk, lh, outstanding, bufs, boot, tail, ops, crashes>>

----------------------------------------------------------------------------
(* A crash, and initlog() with recover_from_log() on the next boot. *)

Crash ==
    /\ crashes < MaxCrash
    /\ crashes' = crashes + 1
    /\ boot' = "read_head"
    /\ lh' = <<>>
    /\ outstanding' = 0
    /\ committing' = FALSE
    /\ cache' = [b \in Block |-> NoBuf]
    /\ owner' = [b \in Block |-> NoProc]
    /\ pins' = [b \in Block |-> 0]
    /\ pc' = [p \in Proc |-> "idle"]
    /\ tail' = 1
    /\ dirty' = {}
    /\ touched' = [p \in Proc |-> {}]
    /\ calls' = [p \in Proc |-> 0]
    /\ UNCHANGED disk

read_head ==
    /\ boot = "read_head"
    /\ lh' = dhead
    /\ tail' = 1
    /\ boot' = IF Len(dhead) > 0 THEN "install_trans" ELSE "erase"
    /\ UNCHANGED <<disk, outstanding, committing, bufs, pc, ops, crashes>>

recover_install ==
    /\ boot = "install_trans"
    /\ InstallBlock(TRUE)
    /\ boot' = IF LastBlock THEN "erase" ELSE boot
    /\ UNCHANGED pc

recover_erase ==
    /\ boot = "erase"
    /\ EraseLog
    /\ boot' = "up"
    /\ UNCHANGED pc

----------------------------------------------------------------------------
\* mkfs leaves an empty log; the first boot goes through initlog() too.
Init ==
    /\ home \in [Block -> Val]
    /\ \E zero \in Val : dlog = [i \in 1..LOGBLOCKS |-> zero]
    /\ dhead = <<>>
    /\ lh = <<>>
    /\ outstanding = 0
    /\ committing = FALSE
    /\ cache = [b \in Block |-> NoBuf]
    /\ owner = [b \in Block |-> NoProc]
    /\ pins = [b \in Block |-> 0]
    /\ boot = "read_head"
    /\ pc = [p \in Proc |-> "idle"]
    /\ tail = 1
    /\ dirty = {}
    /\ touched = [p \in Proc |-> {}]
    /\ calls = [p \in Proc |-> 0]
    /\ crashes = 0

Commit(p) == write_log(p) \/ write_head(p) \/ install_trans(p) \/ erase(p) \/ end_commit(p)

Recover == read_head \/ recover_install \/ recover_erase

Next ==
    \/ \E p \in Proc : begin_op(p) \/ end_op(p) \/ Commit(p)
    \/ \E p \in Proc, b \in Block : bread(p, b) \/ log_write(p, b) \/ brelse(p, b)
    \/ \E p \in Proc, b \in Block, v \in Val : modify(p, b, v)
    \/ \E b \in Block : recycle(b)
    \/ Recover
    \/ Crash

Spec == Init /\ [][Next]_vars

\* Every runnable kernel thread is scheduled again and again (scheduler() goes
\* round the process table), and a process that waits for a buffer which is
\* released again and again gets it in the end.
Fairness ==
    /\ WF_vars(Recover)
    /\ \A p \in Proc : /\ SF_vars(Commit(p))
                       /\ WF_vars(pc[p] = "begin_op" /\ begin_op(p))
                       /\ \A b \in Block : WF_vars(brelse(p, b))

FairSpec == Spec /\ Fairness

----------------------------------------------------------------------------
(* Properties *)

TypeOK ==
    /\ home \in [Block -> Val]
    /\ dlog \in [1..LOGBLOCKS -> Val]
    /\ dhead \in Seq(Block)
    /\ lh \in Seq(Block)
    /\ outstanding \in Int
    /\ committing \in BOOLEAN
    /\ cache \in [Block -> Val \cup {NoBuf}]
    /\ owner \in [Block -> Proc \cup {NoProc}]
    /\ pins \in [Block -> Int]
    /\ boot \in {"read_head", "install_trans", "erase", "up"}
    /\ pc \in [Proc -> {"idle", "begin_op", "asleep", "op", "write_log", "write_head",
                        "install_trans", "erase", "end_commit", "panic"}]
    /\ tail \in Nat \ {0}
    /\ dirty \in SUBSET Block
    /\ touched \in [Proc -> SUBSET Block]
    /\ calls \in [Proc -> Nat]
    /\ crashes \in Nat

\* What recovery brings back from a disk with header h, log body l and home
\* locations d: the logged contents of the blocks in the header, the home
\* location of every other block.
RecoveredFrom(h, l, d) ==
    [b \in Block |-> IF b \in Range(h) THEN l[CHOOSE i \in DOMAIN h : h[i] = b] ELSE d[b]]

Recovered == RecoveredFrom(dhead, dlog, home)

\* What the running system means a block to hold.
Current == [b \in Block |-> IF cache[b] # NoBuf THEN cache[b] ELSE Recovered[b]]

\* The operations between begin_op() and the return of end_op(); one that met a
\* panic never ends.
InOp == {p \in Proc : pc[p] \in {"op", "panic"}}

Store == INSTANCE CrashSafeStore
           WITH stable <- Recovered, current <- Current,
                active <- InOp

\* log.c:10-31: whatever the interleaving of the calls and wherever the power
\* fails, in recovery too, the disk holds each operation wholly or not at all.
CrashAtomic == Store!Spec

\* bio.c and log.c: a bread() never returns stale contents: a block that was
\* recycled out of the cache is up to date at its home location.
ReadsCurrent == boot = "up" => \A b \in Block : Contents(b) = Current[b]

\* end_op(): once no call is active and the commit is over, everything the
\* calls wrote is on the disk, and the log is empty again.
QuiescentDurable ==
    boot = "up" /\ outstanding = 0 /\ ~committing
        => /\ home = Recovered /\ Current = Recovered
           /\ lh = <<>> /\ dhead = <<>>

\* Where a process is while it commits.
CommitLabel == {"write_log", "write_head", "install_trans", "erase", "end_commit"}

\* log.c:147-176: the commit is exclusive: while a process is in commit() no
\* other is, and none is between begin_op() and end_op().
CommitExclusive ==
    \A p, q \in Proc :
        pc[p] \in CommitLabel => committing /\ (p = q \/ pc[q] \in {"idle", "begin_op", "asleep"})

\* bpin() and bunpin(): outside a commit exactly the logged blocks are pinned,
\* once each, so that after a commit every buffer can be recycled again.
PinsBalanced ==
    boot = "up" /\ ~committing
        => \A b \in Block : pins[b] = IF b \in Range(lh) THEN 1 ELSE 0

\* log.c:215-223, 153: no operation meets a panic that logs fewer than MAXOPBLOCKS
\* distinct blocks, however often it logs each, or that calls log_write() at most
\* MAXOPBLOCKS times.  (With MAXOPBLOCKS blocks, of which it logs one again, it may find
\* the log full: log_write() tests for room before it absorbs.)
NoPanic == \A p \in Proc : pc[p] # "panic"

\* The callers' obligation: an operation is a finite piece of code.
OperationsEnd == \A p \in Proc : pc[p] = "op" ~> pc[p] # "op"

\* begin_op(): a process that waits for log space or for the end of a commit
\* is woken up, provided the operations it waits for end.
SleepersWoken ==
    OperationsEnd => \A p \in Proc : pc[p] = "asleep" ~> pc[p] # "asleep"

\* end_op(): a commit that starts ends, unless the power fails first.
CommitEnds == committing ~> ~committing

----------------------------------------------------------------------------
(* The inductive invariant behind CrashAtomic and ReadsCurrent. *)

\* The header on the disk is that of the transaction being installed.
Installing == boot \in {"install_trans", "erase"}
              \/ \E p \in Proc : pc[p] \in {"install_trans", "erase"}

\* How many blocks of the transaction are at their home locations already.
Installed == IF boot = "erase" \/ \E p \in Proc : pc[p] = "erase" THEN Len(lh) ELSE tail - 1

\* Who is where: a commit excludes operations, and booting excludes both.
Threads ==
    /\ outstanding = Cardinality(InOp)
    /\ CommitExclusive
    /\ committing => \E p \in Proc : pc[p] \in CommitLabel
    /\ \A b \in dirty : owner[b] \in InOp
    /\ boot # "up" => /\ \A p \in Proc : pc[p] = "idle"
                      /\ \A b \in Block : owner[b] = NoProc /\ pins[b] = 0

\* The log in memory and on the disk names each block once, and fits; the
\* header on the disk is empty or that of the transaction being installed.
Headers ==
    /\ IsInjective(lh) /\ IsInjective(dhead)
    /\ Len(lh) <= LOGBLOCKS /\ Len(dhead) <= LOGBLOCKS
    /\ Installing => dhead = lh
    /\ boot = "up" /\ ~Installing => dhead = <<>>
    /\ boot = "install_trans" \/ (\E p \in Proc : pc[p] \in {"write_log", "install_trans"})
            => tail <= Len(lh)
    /\ \A p \in Proc : pc[p] = "write_head" => Len(lh) > 0
    /\ \A p \in Proc : pc[p] = "end_commit" => lh = <<>>
    /\ boot = "up" /\ InOp = {} /\ ~committing => lh = <<>>

\* The cache: a buffer in use stays, a logged one is pinned until it is
\* installed, and one that is neither dirty nor logged is what is stable.
Buffers ==
    /\ boot = "read_head" => \A b \in Block : cache[b] = NoBuf
    /\ \A b \in Block : owner[b] # NoProc \/ pins[b] # 0 => cache[b] # NoBuf
    /\ boot = "up" =>
         \A b \in Block : pins[b] = IF b \in Range(lh)
                                       /\ (Installing => \E i \in (Installed + 1)..Len(lh) : lh[i] = b)
                                    THEN 1 ELSE 0
    /\ \A b \in Block : cache[b] # NoBuf /\ b \notin dirty /\ (Installing \/ b \notin Range(lh))
                             => cache[b] = Recovered[b]

\* The two copying loops: what they copied is equal on both sides.
Copies ==
    /\ \A p \in Proc : pc[p] = "write_log" =>
          \A i \in 1..(tail - 1) : dlog[i] = cache[lh[i]]
    /\ \A p \in Proc : pc[p] = "write_head" =>
          \A i \in 1..Len(lh) : dlog[i] = cache[lh[i]]
    /\ Installing => \A i \in 1..Installed : home[lh[i]] = dlog[i]

IInv == TypeOK /\ Threads /\ Headers /\ Buffers /\ Copies

----------------------------------------------------------------------------
(* The invariant behind NoPanic: the log has room for what every operation may still *)
(* write.                                                                            *)

\* What each operation has used of its reservation, counted as its blocks that are in the
\* log, or as its calls of log_write() so far; and what those in S have still reserved.
Changed(p) == {b \in dirty : owner[b] = p}
Distinct == [p \in Proc |-> Cardinality(touched[p] \cap Range(lh))]
Called   == [p \in Proc |-> calls[p] - Cardinality(Changed(p))]
Room(used, S) == {s \in S \X (1..MAXOPBLOCKS) : s[2] > used[s[1]]}

\* An operation keeps to its bounds, the blocks that it is about to log included.
Written ==
    /\ IsFiniteSet(dirty)
    /\ \A b \in dirty : b \in touched[owner[b]]
    /\ \A p \in Proc : /\ IsFiniteSet(touched[p]) /\ Cardinality(touched[p]) <= OpBlocks
                       /\ calls[p] <= OpCalls /\ Called[p] \in Nat

\* The reservation suffices with either count, where the bound on it is small enough.
Fits(used) == Len(lh) + Cardinality(Room(used, InOp)) <= LOGBLOCKS
FewBlocks == OpBlocks < MAXOPBLOCKS
FewCalls  == OpCalls <= MAXOPBLOCKS

Space == NoPanic /\ Written /\ (FewBlocks => Fits(Distinct)) /\ (FewCalls => Fits(Called))
=============================================================================
