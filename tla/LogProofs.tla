----------------------------- MODULE LogProofs ------------------------------
(***************************************************************************)
(* The theorems about Log: lemmas about recovery from a given disk and     *)
(* about the cache, one lemma for each step of log.c, the inductive        *)
(* invariant and its consequences, that the log implements CrashSafeStore, *)
(* and that it never runs out of space.                                    *)
(***************************************************************************)
EXTENDS Log, TLAPS

(* Recovery from a given disk. *)

LEMMA RecoveredEmpty ==
    ASSUME NEW l, NEW d, NEW b \in Block
    PROVE  RecoveredFrom(<<>>, l, d)[b] = d[b]
BY ONLY DEF RecoveredFrom, Range

LEMMA RecoveredOther ==
    ASSUME NEW h \in Seq(Block), NEW l, NEW d, NEW b \in Block, b \notin Range(h)
    PROVE  RecoveredFrom(h, l, d)[b] = d[b]
BY Zenon DEF RecoveredFrom

LEMMA RecoveredLogged ==
    ASSUME NEW h \in Seq(Block), IsInjective(h), NEW l, NEW d, NEW i \in 1..Len(h)
    PROVE  RecoveredFrom(h, l, d)[h[i]] = l[i]
<1>1. i \in DOMAIN h /\ h[i] \in Block /\ h[i] \in Range(h)
  BY ONLY DEF Range
<1>2. (CHOOSE j \in DOMAIN h : h[j] = h[i]) = i
  BY ONLY <1>1 DEF IsInjective
<1> QED BY ONLY Zenon, <1>1, <1>2 DEF RecoveredFrom

\* A sequence of blocks: its indices and its elements.
LEMMA BlockSeq ==
    ASSUME NEW s \in Seq(Block)
    PROVE  /\ Len(s) \in Nat /\ DOMAIN s = 1..Len(s)
           /\ \A i \in 1..Len(s) : s[i] \in Block /\ s[i] \in Range(s)
           /\ \A b \in Range(s) : \E i \in 1..Len(s) : s[i] = b
BY ONLY DEF Range

\* The same for the header in memory.
LEMMA LogSeq ==
    ASSUME IInv
    PROVE  /\ lh \in Seq(Block) /\ IsInjective(lh)
           /\ Len(lh) \in Nat /\ DOMAIN lh = 1..Len(lh)
           /\ \A i \in 1..Len(lh) : lh[i] \in Block /\ lh[i] \in Range(lh)
           /\ \A b \in Range(lh) : \E i \in 1..Len(lh) : lh[i] = b
<1>1. lh \in Seq(Block) /\ IsInjective(lh)
  BY Zenon DEF IInv, TypeOK, Headers
<1> QED BY ONLY Zenon, <1>1, BlockSeq

(* Consequences of the invariant that several steps need. *)

\* A block that is not in the cache is up to date at its home location.
LEMMA UncachedCurrent ==
    ASSUME IInv, boot = "up", NEW b \in Block, cache[b] = NoBuf
    PROVE  home[b] = Recovered[b]
<1> USE DEF IInv
<1>1. CASE ~Installing
  BY Zenon, <1>1, RecoveredEmpty DEF Headers, Recovered
<1>2. CASE Installing /\ b \notin Range(lh)
  BY <1>2, RecoveredOther DEF Headers, Recovered, TypeOK
<1>3. CASE Installing /\ b \in Range(lh)
  <2>0. b \in Range(lh) => \E i \in 1..Len(lh) : lh[i] = b
    BY Zenon, LogSeq
  <2>1. PICK i \in 1..Len(lh) : lh[i] = b
    BY ONLY Zenon, <1>3, <2>0
  <2>2. pins[b] = 0
    BY Zenon DEF Buffers, TypeOK
  <2>3. ~ \E j \in (Installed + 1)..Len(lh) : lh[j] = b
    BY <2>2, <1>3 DEF Buffers
  <2>4. Installed \in Nat
    BY DEF Installed, TypeOK
  <2>5. i \in 1..Installed
    BY ONLY <2>1, <2>3, <2>4 DEF TypeOK
  <2>6. home[b] = dlog[i]
    BY Zenon, <2>1, <2>5, <1>3 DEF Copies
  <2>7. Recovered[b] = dlog[i]
    <3>1. /\ dhead \in Seq(Block) /\ IsInjective(dhead)
          /\ i \in 1..Len(dhead) /\ dhead[i] = b
      BY Zenon, <1>3, <2>1 DEF Headers, TypeOK
    <3> QED BY ONLY <3>1, RecoveredLogged DEF Recovered
  <2> QED BY ONLY Zenon, <2>6, <2>7
<1> QED BY ONLY Zenon, <1>1, <1>2, <1>3

\* Before the header is written, every logged block is pinned in the cache.
LEMMA LoggedCached ==
    ASSUME IInv, boot = "up", ~Installing, NEW i \in 1..Len(lh)
    PROVE  cache[lh[i]] # NoBuf /\ pins[lh[i]] = 1 /\ lh[i] \in Block
<1>1. lh[i] \in Block /\ lh[i] \in Range(lh)
  BY DEF IInv, TypeOK, Range
<1>2. pins[lh[i]] = 1
  BY Zenon, <1>1 DEF IInv, Buffers
<1> QED BY <1>1, <1>2 DEF IInv, Buffers

\* What bread() returns is what the system means the block to hold.
LEMMA ContentsCurrent ==
    ASSUME IInv, boot = "up", NEW b \in Block
    PROVE  Contents(b) = Current[b] /\ Contents(b) \in Val
BY Zenon, UncachedCurrent DEF Contents, Current, IInv, TypeOK

\* While an operation is active nobody commits.
LEMMA ActiveNoCommit ==
    ASSUME IInv, NEW p \in InOp
    PROVE  /\ boot = "up" /\ ~Installing /\ ~committing
           /\ \A q \in Proc : pc[q] \notin CommitLabel
<1>1. \A q \in Proc : pc[q] \notin CommitLabel
  BY Zenon DEF IInv, Threads, CommitExclusive, InOp, CommitLabel
<1>2. boot = "up"
  BY Zenon DEF IInv, Threads, InOp
<1> QED BY Zenon, <1>1, <1>2 DEF IInv, Threads, TypeOK, Installing, CommitLabel

\* While a process commits, no operation is active and no buffer is dirty.
LEMMA CommitNoActive ==
    ASSUME IInv, NEW p \in Proc, pc[p] \in CommitLabel
    PROVE  /\ boot = "up" /\ committing /\ InOp = {} /\ dirty = {}
           /\ \A q \in Proc : q # p => pc[q] \notin CommitLabel
           /\ \A q \in Proc : q # p => pc[q] \in {"idle", "begin_op", "asleep"}
<1>1. boot = "up" /\ committing
  BY Zenon DEF IInv, Threads, CommitExclusive, CommitLabel
<1>2. \A q \in Proc : q # p => pc[q] \in {"idle", "begin_op", "asleep"}
  BY Zenon DEF IInv, Threads, CommitExclusive
<1>3. InOp = {}
  BY Zenon, <1>2 DEF InOp, CommitLabel
<1>4. dirty = {}
  BY Zenon, <1>3 DEF IInv, Threads
<1> QED BY ONLY Zenon, <1>1, <1>2, <1>3, <1>4 DEF CommitLabel

\* The copying loops are not disturbed by a step that leaves the log, the disk,
\* the threads and the cached copies of the logged blocks alone.
LEMMA CopiesFrame ==
    ASSUME IInv, UNCHANGED <<home, dlog, lh, boot, pc, tail>>,
           boot = "up" /\ ~Installing => \A i \in 1..Len(lh) : cache'[lh[i]] = cache[lh[i]]
    PROVE  Copies'
<1> USE DEF IInv
<1>1. (Installing' <=> Installing) /\ Installed' = Installed
  BY Zenon DEF Installing, Installed
<1>2. ASSUME NEW q \in Proc, pc[q] \in {"write_log", "write_head"}
      PROVE  \A i \in 1..Len(lh) : cache'[lh[i]] = cache[lh[i]]
  BY Zenon, <1>2, CommitNoActive DEF Installing, CommitLabel
<1>3. tail \in Nat /\ Len(lh) \in Nat
  BY DEF TypeOK
<1>4. ASSUME NEW q \in Proc, pc[q] = "write_log", NEW i \in 1..(tail - 1)
      PROVE  dlog[i] = cache'[lh[i]]
  <2>1. i \in 1..Len(lh)
    BY <1>3, <1>4 DEF Headers
  <2> QED BY Zenon, <2>1, <1>2, <1>4 DEF Copies
<1>5. ASSUME NEW q \in Proc, pc[q] = "write_head", NEW i \in 1..Len(lh)
      PROVE  dlog[i] = cache'[lh[i]]
  BY Zenon, <1>2, <1>5 DEF Copies
<1>6. Installing' => \A i \in 1..Installed' : home'[lh'[i]] = dlog'[i]
  BY Zenon, <1>1 DEF Copies
<1>7. \A q \in Proc : pc'[q] = "write_log" =>
        \A i \in 1..(tail' - 1) : dlog'[i] = cache'[lh'[i]]
  BY Zenon, <1>4
<1>8. \A q \in Proc : pc'[q] = "write_head" =>
        \A i \in 1..Len(lh') : dlog'[i] = cache'[lh'[i]]
  BY Zenon, <1>5
<1> QED BY ONLY Zenon, <1>6, <1>7, <1>8 DEF Copies

(* Every action preserves the invariant. *)

LEMMA BreadInv == 
    ASSUME IInv, NEW p \in Proc, NEW b \in Block, bread(p, b)
    PROVE  IInv'
<1> USE LogAssumption DEF IInv, bread, disk, logv, ops
<1>1. TypeOK'
  BY Zenon, ContentsCurrent DEF TypeOK
<1>2. /\ Installing' <=> Installing
      /\ Installed' = Installed
      /\ Recovered' = Recovered
      /\ InOp' = InOp
  BY Zenon DEF Installing, Installed, Recovered, InOp
<1>3. Threads'
  BY Zenon DEF Threads, TypeOK, InOp, CommitExclusive
<1>4. Headers'
  BY Zenon, <1>2 DEF Headers
<1>5. cache[b] = NoBuf => cache'[b] = Recovered[b]
  BY Zenon, UncachedCurrent DEF Contents, TypeOK
<1>6. \A c \in Block : cache[c] # NoBuf => cache'[c] = cache[c]
  BY Zenon DEF Contents, TypeOK
<1>7. \A c \in Block : c # b => cache'[c] = cache[c] /\ owner'[c] = owner[c]
  BY Zenon DEF TypeOK
<1>8. cache'[b] # NoBuf
  BY Zenon, ContentsCurrent DEF TypeOK
<1>9. Buffers'
  BY <1>2, <1>5, <1>6, <1>7, <1>8 DEF Buffers
<1>10. Copies'
  BY Zenon, <1>6, LoggedCached, CopiesFrame
<1> QED BY ONLY Zenon, <1>1, <1>3, <1>4, <1>9, <1>10 DEF IInv

LEMMA ModifyInv ==
    ASSUME IInv, NEW p \in Proc, NEW b \in Block, NEW v \in Val, modify(p, b, v)
    PROVE  IInv'
<1> USE LogAssumption DEF IInv, modify, disk, logv
<1>1. TypeOK'
  BY DEF TypeOK
<1>2. /\ Installing' <=> Installing
      /\ Installed' = Installed
      /\ Recovered' = Recovered
      /\ InOp' = InOp
  BY Zenon DEF Installing, Installed, Recovered, InOp
<1>3. p \in InOp
  BY Zenon DEF InOp
<1>4. Threads'
  BY <1>3 DEF Threads, InOp, CommitExclusive
<1>5. Headers'
  BY Zenon, <1>2 DEF Headers
<1>6. \A c \in Block : c # b => cache'[c] = cache[c]
  BY Zenon DEF TypeOK
<1>7. cache'[b] = v /\ v # NoBuf
  BY Zenon DEF TypeOK
<1>8. Buffers'
  BY Zenon, <1>2, <1>3, <1>6, <1>7, ActiveNoCommit DEF Buffers
<1>9. \A q \in Proc : pc[q] \notin {"write_log", "write_head"}
  BY Zenon, <1>3, ActiveNoCommit DEF CommitLabel
<1>10. Copies'
  BY Zenon, <1>2, <1>3, <1>9, ActiveNoCommit DEF Copies
<1> QED BY ONLY Zenon, <1>1, <1>4, <1>5, <1>8, <1>10 DEF IInv

LEMMA BrelseInv ==
    ASSUME IInv, NEW p \in Proc, NEW b \in Block, brelse(p, b)
    PROVE  IInv'
<1> USE LogAssumption DEF IInv, brelse, disk, logv, ops
<1>1. TypeOK'
  BY Zenon DEF TypeOK
<1>2. /\ Installing' <=> Installing
      /\ Installed' = Installed
      /\ Recovered' = Recovered
      /\ InOp' = InOp
  BY Zenon DEF Installing, Installed, Recovered, InOp
<1>3. \A c \in Block : c # b => owner'[c] = owner[c]
  BY Zenon DEF TypeOK
<1>4. Threads'
  BY Zenon, <1>3 DEF Threads, InOp, CommitExclusive, TypeOK
<1>5. Headers'
  BY Zenon, <1>2 DEF Headers
<1>6. Buffers'
  BY <1>2, <1>3 DEF Buffers, TypeOK
<1>7. Copies'
  BY Zenon, CopiesFrame
<1> QED BY ONLY Zenon, <1>1, <1>4, <1>5, <1>6, <1>7 DEF IInv

LEMMA RecycleInv ==
    ASSUME IInv, NEW b \in Block, recycle(b)
    PROVE  IInv'
<1> USE LogAssumption DEF IInv, recycle, disk, logv, ops
<1>1. TypeOK'
  BY Zenon DEF TypeOK
<1>2. /\ Installing' <=> Installing
      /\ Installed' = Installed
      /\ Recovered' = Recovered
      /\ InOp' = InOp
  BY Zenon DEF Installing, Installed, Recovered, InOp
<1>3. Threads'
  BY Zenon DEF Threads, InOp, CommitExclusive
<1>4. Headers'
  BY Zenon, <1>2 DEF Headers
<1>5. \A c \in Block : c # b => cache'[c] = cache[c]
  BY Zenon DEF TypeOK
<1>6. cache'[b] = NoBuf
  BY Zenon DEF TypeOK
<1>7. Buffers'
  <2>1. Buffers /\ owner[b] = NoProc /\ pins[b] = 0 /\ b \in Block
    BY Zenon
  <2>2. UNCHANGED <<boot, owner, pins, lh, dirty>>
    BY Zenon
  <2> QED BY ONLY Zenon, <1>2, <1>5, <1>6, <2>1, <2>2 DEF Buffers
<1>8. Copies'
  BY <1>5, LoggedCached, CopiesFrame
<1> QED BY ONLY Zenon, <1>1, <1>3, <1>4, <1>7, <1>8 DEF IInv

\* Steps of processes that are not committing, before and after.
LEMMA LabelsFrame ==
    ASSUME UNCHANGED <<boot, lh, tail>>,
           \A q \in Proc : pc'[q] = pc[q] \/ (pc[q] \notin CommitLabel /\ pc'[q] \notin CommitLabel)
    PROVE  (Installing' <=> Installing) /\ Installed' = Installed
BY Zenon DEF Installing, Installed, CommitLabel

\* ... and what they leave alone: the copying loops.
LEMMA CopiesLabels ==
    ASSUME IInv, UNCHANGED <<home, dlog, lh, boot, tail, cache>>,
           \A q \in Proc : pc'[q] = pc[q] \/ (pc[q] \notin CommitLabel /\ pc'[q] \notin CommitLabel)
    PROVE  Copies'
<1>1. (Installing' <=> Installing) /\ Installed' = Installed
  BY Zenon, LabelsFrame
<1>2. \A q \in Proc : pc'[q] \in {"write_log", "write_head"} => pc'[q] = pc[q]
  BY Zenon DEF CommitLabel
<1>3. \A q \in Proc : pc'[q] = "write_log" =>
        \A i \in 1..(tail' - 1) : dlog'[i] = cache'[lh'[i]]
  BY Zenon, <1>2 DEF IInv, Copies
<1>4. \A q \in Proc : pc'[q] = "write_head" =>
        \A i \in 1..Len(lh') : dlog'[i] = cache'[lh'[i]]
  BY Zenon, <1>2 DEF IInv, Copies
<1>5. Installing' => \A i \in 1..Installed' : home'[lh'[i]] = dlog'[i]
  BY Zenon, <1>1 DEF IInv, Copies
<1> QED BY ONLY Zenon, <1>3, <1>4, <1>5 DEF Copies

\* ... and the headers.
LEMMA HeadersLabels ==
    ASSUME IInv, UNCHANGED <<dhead, lh, boot, tail>>,
           InOp' = {} /\ ~committing' => InOp = {} /\ ~committing,
           \A q \in Proc : pc'[q] = pc[q] \/ (pc[q] \notin CommitLabel /\ pc'[q] \notin CommitLabel)
    PROVE  Headers'
<1>1. (Installing' <=> Installing) /\ Installed' = Installed
  BY Zenon, LabelsFrame
<1>2. \A q \in Proc : pc'[q] \in {"write_log", "write_head", "install_trans", "end_commit"}
                            => pc'[q] = pc[q]
  BY Zenon DEF CommitLabel
<1> QED BY Zenon, <1>1, <1>2 DEF IInv, Headers

LEMMA AppendFresh ==
    ASSUME NEW s \in Seq(Block), IsInjective(s), NEW b \in Block, b \notin Range(s),
           NEW t, t = Append(s, b)
    PROVE  /\ t \in Seq(Block) /\ IsInjective(t)
           /\ Len(t) = Len(s) + 1 /\ Range(t) = Range(s) \cup {b}
<1>1. /\ t \in Seq(Block) /\ Len(t) = Len(s) + 1
      /\ \A i \in 1..Len(s) : t[i] = s[i]
      /\ t[Len(s) + 1] = b
  OBVIOUS
<1>2. /\ DOMAIN t = 1..(Len(s) + 1)
      /\ DOMAIN s = 1..Len(s) /\ Len(s) \in Nat
  BY ONLY <1>1
<1>3. \A i \in 1..(Len(s) + 1) : i = Len(s) + 1 \/ i \in 1..Len(s)
  BY ONLY <1>2
<1>4. IsInjective(t)
  BY <1>1, <1>2, <1>3 DEF IsInjective, Range
<1>5. Range(t) = Range(s) \cup {b}
  BY ONLY <1>1, <1>2, <1>3 DEF Range
<1> QED BY ONLY Zenon, <1>1, <1>4, <1>5

LEMMA LogWriteInv ==
    ASSUME IInv, NEW p \in Proc, NEW b \in Block, log_write(p, b)
    PROVE  IInv'
<1> USE LogAssumption DEF IInv, log_write, Absorbed, bpin, disk
<1>1. /\ p \in InOp /\ boot = "up" /\ ~Installing /\ ~committing
      /\ \A q \in Proc : pc[q] \notin CommitLabel
  BY Zenon, ActiveNoCommit DEF InOp
<1>2. CASE pc'[p] = "panic"
  <2>1. UNCHANGED <<lh, pins, dirty>> /\ pc' = [pc EXCEPT ![p] = "panic"]
    BY Zenon, <1>2 DEF TypeOK
  <2>2. /\ \A q \in Proc : q # p => pc'[q] = pc[q]
        /\ pc[p] \notin CommitLabel /\ pc'[p] \notin CommitLabel
    BY Zenon, <2>1, <1>2 DEF TypeOK, CommitLabel
  <2>3. (Installing' <=> Installing) /\ Installed' = Installed /\ Recovered' = Recovered
    BY Zenon, <2>1, <2>2, LabelsFrame DEF Recovered
  <2>4. InOp' = InOp
    BY ONLY Zenon, <2>2, <1>2, <1>1 DEF InOp
  <2>5. TypeOK'
    BY Zenon, <2>1 DEF TypeOK
  <2>6. Threads'
    BY Zenon, <1>1, <2>1, <2>2, <2>4 DEF Threads, CommitExclusive
  <2>7. Headers' /\ Copies'
    BY Zenon, <2>1, <2>2, <2>4, HeadersLabels, CopiesLabels
  <2>8. Buffers'
    BY Zenon, <2>1, <2>3 DEF Buffers
  <2> QED BY ONLY Zenon, <2>5, <2>6, <2>7, <2>8 DEF IInv
<1>3. CASE pc'[p] # "panic"
  <2>1. /\ UNCHANGED pc /\ dirty' = dirty \ {b} /\ Len(lh) < LOGBLOCKS
        /\ \/ b \in Range(lh) /\ UNCHANGED <<lh, pins>>
           \/ /\ b \notin Range(lh) /\ lh' = Append(lh, b)
              /\ pins' = [pins EXCEPT ![b] = @ + 1]
    BY Zenon, <1>3 DEF TypeOK
  <2>2. /\ lh' \in Seq(Block) /\ IsInjective(lh') /\ Len(lh') <= LOGBLOCKS
        /\ Range(lh') = Range(lh) \cup {b}
        /\ pins' \in [Block -> Int]
        /\ \A c \in Block : pins'[c] = IF c \in Range(lh') THEN 1 ELSE 0
    <3>1. \A c \in Block : pins[c] = IF c \in Range(lh) THEN 1 ELSE 0
      BY Zenon, <1>1 DEF Buffers
    <3>2. CASE b \in Range(lh)
      BY <2>1, <3>1, <3>2 DEF TypeOK, Headers
    <3>3. CASE b \notin Range(lh)
      <4>1. lh \in Seq(Block) /\ IsInjective(lh) /\ Len(lh) \in Nat
        BY DEF TypeOK, Headers
      <4>2. /\ lh' \in Seq(Block) /\ IsInjective(lh') /\ Len(lh') = Len(lh) + 1
            /\ Range(lh') = Range(lh) \cup {b}
        BY ONLY Zenon, <2>1, <3>3, <4>1, AppendFresh
      <4>3. /\ pins' \in [Block -> Int]
            /\ \A c \in Block : pins'[c] = IF c \in Range(lh') THEN 1 ELSE 0
        BY <2>1, <3>1, <3>3, <4>2 DEF TypeOK
      <4> QED BY <2>1, <4>1, <4>2, <4>3
    <3> QED BY ONLY Zenon, <3>2, <3>3
  <2>3. ~Installing' /\ InOp' = InOp /\ Recovered' = Recovered
    BY Zenon, <2>1, <1>1 DEF Installing, InOp, Recovered
  <2>4. TypeOK'
    BY Zenon, <2>1, <2>2 DEF TypeOK
  <2>5. Threads'
    BY Zenon, <2>1, <2>3, <1>1 DEF Threads, CommitExclusive
  <2>6. Headers'
    BY Zenon, <2>1, <2>2, <2>3, <1>1 DEF Headers, CommitLabel
  <2>7. owner[b] # NoProc /\ cache[b] # NoBuf
    BY Zenon DEF Buffers
  <2>8. Buffers'
    BY Zenon, <2>1, <2>2, <2>3, <2>7, <1>1 DEF Buffers
  <2>9. Copies'
    BY ONLY Zenon, <2>1, <2>3, <1>1 DEF Copies, CommitLabel
  <2> QED BY ONLY Zenon, <2>4, <2>5, <2>6, <2>8, <2>9 DEF IInv
<1> QED BY ONLY Zenon, <1>2, <1>3

\* The commit: facts common to its steps, the committer being p.
LEMMA CommitThreads ==
    ASSUME IInv, NEW p \in Proc, pc[p] \in CommitLabel, TypeOK',
           NEW l \in CommitLabel, pc' = [pc EXCEPT ![p] = l],
           UNCHANGED <<outstanding, committing, owner, dirty, boot>>
    PROVE  /\ Threads'
           /\ pc'[p] = l /\ boot' = "up" /\ dirty' = {} /\ dirty = {} /\ boot = "up"
           /\ committing'
           /\ \A q \in Proc : q # p => pc[q] \notin CommitLabel /\ pc'[q] \notin CommitLabel
<1> USE LogAssumption DEF IInv
<1>1. /\ boot = "up" /\ committing /\ InOp = {} /\ dirty = {}
      /\ \A q \in Proc : q # p => pc[q] \notin CommitLabel
      /\ \A q \in Proc : q # p => pc[q] \in {"idle", "begin_op", "asleep"}
  BY Zenon, CommitNoActive
<1>2. pc'[p] = l /\ \A q \in Proc : q # p => pc'[q] = pc[q]
  BY Zenon DEF TypeOK
<1>3. InOp' = {}
  BY ONLY Zenon, <1>1, <1>2 DEF InOp, CommitLabel
<1>4. CommitExclusive'
  BY Zenon, <1>1, <1>2 DEF CommitExclusive
<1>5. Threads'
  BY Zenon, <1>1, <1>2, <1>3, <1>4 DEF Threads
<1> QED BY Zenon, <1>1, <1>2, <1>5

LEMMA WriteLogInv ==
    ASSUME IInv, NEW p \in Proc, write_log(p)
    PROVE  IInv' /\ Recovered' = Recovered /\ cache' = cache
<1> DEFINE l == IF tail = Len(lh) THEN "write_head" ELSE "write_log"
<1>a. TypeOK /\ Headers /\ Buffers /\ Copies
  BY Zenon DEF IInv
<1>b. /\ dlog' = [dlog EXCEPT ![tail] = Contents(lh[tail])]
      /\ cache' = [cache EXCEPT ![lh[tail]] = Contents(lh[tail])]
      /\ tail' = tail + 1
      /\ pc' = [pc EXCEPT ![p] = IF tail = Len(lh) THEN "write_head" ELSE @]
      /\ UNCHANGED <<home, dhead, lh, outstanding, committing, owner, pins, boot>>
      /\ UNCHANGED <<dirty, touched, calls, crashes>>
      /\ pc[p] = "write_log"
  BY Zenon DEF write_log, LastBlock, logv, ops
<1>1. /\ boot = "up" /\ dirty = {}
      /\ \A q \in Proc : q # p => pc[q] \notin CommitLabel
  BY Zenon, <1>b, CommitNoActive DEF CommitLabel
<1>2. ~Installing /\ dhead = <<>>
  <2>1. ~Installing
    BY ONLY Zenon, <1>1, <1>b DEF Installing, CommitLabel
  <2> QED BY ONLY Zenon, <1>1, <1>a, <2>1 DEF Headers
<1>3. /\ tail \in 1..Len(lh) /\ tail \in 1..LOGBLOCKS /\ tail \in Nat /\ Len(lh) \in Nat
  <2>1. tail <= Len(lh) /\ Len(lh) <= LOGBLOCKS
    BY ONLY Zenon, <1>a, <1>b DEF Headers
  <2>2. tail \in Nat \ {0}
    BY ONLY Zenon, <1>a DEF TypeOK
  <2>3. Len(lh) \in Nat
    BY Zenon, LogSeq
  <2> QED BY ONLY <2>1, <2>2, <2>3, LogAssumption
<1>c. /\ cache \in [Block -> Val \cup {NoBuf}] /\ dlog \in [1..LOGBLOCKS -> Val]
      /\ pc = [q \in Proc |-> pc[q]]
  BY ONLY Zenon, <1>a DEF TypeOK
<1>4. /\ lh[tail] \in Block /\ cache[lh[tail]] # NoBuf
      /\ Contents(lh[tail]) = cache[lh[tail]] /\ Contents(lh[tail]) \in Val
  <2>1. lh[tail] \in Block /\ cache[lh[tail]] # NoBuf
    BY Zenon, <1>1, <1>2, <1>3, LoggedCached
  <2> QED BY ONLY Zenon, <2>1, <1>c DEF Contents
<1>5. cache' = cache
  BY ONLY Zenon, <1>4, <1>b, <1>c
<1>6. pc' = [pc EXCEPT ![p] = l] /\ l \in CommitLabel
  BY ONLY Zenon, <1>b, <1>c DEF CommitLabel
<1>7. TypeOK'
  <2>1. dlog' \in [1..LOGBLOCKS -> Val]
    BY ONLY Zenon, <1>b, <1>c, <1>3, <1>4
  <2>2. tail' \in Nat \ {0}
    BY ONLY <1>b, <1>3
  <2>3. pc' \in [Proc -> {"idle", "begin_op", "asleep", "op", "write_log", "write_head",
                         "install_trans", "erase", "end_commit", "panic"}]
    BY ONLY Zenon, <1>a, <1>b DEF TypeOK
  <2> QED BY ONLY Zenon, <1>a, <1>b, <1>5, <2>1, <2>2, <2>3 DEF TypeOK
<1>8. /\ Threads' /\ committing'
      /\ pc'[p] = l /\ boot' = "up"
      /\ \A q \in Proc : q # p => pc'[q] \notin CommitLabel
  <2>1. pc[p] \in CommitLabel
    BY ONLY Zenon, <1>b DEF CommitLabel
  <2>2. UNCHANGED <<outstanding, committing, owner, dirty, boot>>
    BY ONLY Zenon, <1>b
  <2> HIDE DEF l
  <2> QED BY ONLY Zenon, IInv, p \in Proc, <1>6, <1>7, <2>1, <2>2, CommitThreads
<1>9. ~Installing'
  BY ONLY Zenon, <1>8 DEF Installing, CommitLabel
<1>10. Headers'
  <2>1. pc'[p] = "write_log" => tail' <= Len(lh')
    BY ONLY <1>b, <1>3, <1>8
  <2>2. Len(lh') > 0 /\ committing'
    BY ONLY <1>b, <1>3, <1>8
  <2>3. \A q \in Proc : q = p \/ pc'[q] \notin {"write_log", "install_trans", "write_head", "end_commit"}
    BY ONLY Zenon, <1>8 DEF CommitLabel
  <2>4. pc'[p] \in {"write_log", "write_head"}
    BY ONLY Zenon, <1>8
  <2> QED BY ONLY Zenon, <1>a, <1>b, <1>1, <1>2, <1>9, <1>8, <2>1, <2>2, <2>3, <2>4 DEF Headers
<1>11. \A b \in Block : Recovered'[b] = Recovered[b]
  BY ONLY <1>b, <1>2, RecoveredEmpty DEF Recovered
<1>12. Buffers'
  BY ONLY Zenon, <1>a, <1>b, <1>1, <1>2, <1>5, <1>9, <1>11 DEF Buffers
<1>13. \A i \in 1..tail : dlog'[i] = cache'[lh'[i]]
  <2>1. \A i \in 1..(tail - 1) : dlog[i] = cache[lh[i]]
    BY ONLY Zenon, <1>a, <1>b, p \in Proc DEF Copies
  <2>2. \A i \in 1..tail : i = tail \/ (i \in 1..(tail - 1) /\ i \in 1..LOGBLOCKS)
    BY ONLY <1>3, LogAssumption
  <2> QED BY ONLY Zenon, <1>b, <2>1, <2>2, <1>3, <1>4, <1>5, <1>c
<1>14. Copies'
  <2>1. tail' - 1 = tail /\ (pc'[p] = "write_head" => tail = Len(lh))
    BY ONLY <1>b, <1>3, <1>8
  <2>2. \A q \in Proc : q = p \/ pc'[q] \notin {"write_log", "write_head"}
    BY ONLY Zenon, <1>8 DEF CommitLabel
  <2> QED BY ONLY Zenon, <1>9, <1>13, <1>b, <2>1, <2>2 DEF Copies
<1>15. Recovered' = Recovered
  BY ONLY Zenon, <1>11 DEF Recovered, RecoveredFrom
<1> QED BY ONLY Zenon, <1>5, <1>7, <1>8, <1>10, <1>12, <1>14, <1>15 DEF IInv

LEMMA WriteHeadInv ==
    ASSUME IInv, NEW p \in Proc, write_head(p)
    PROVE  IInv' /\ Recovered' = Current
<1>a. TypeOK /\ Headers /\ Buffers /\ Copies
  BY Zenon DEF IInv
<1>b. /\ dhead' = lh /\ tail' = 1 /\ pc' = [pc EXCEPT ![p] = "install_trans"]
      /\ UNCHANGED <<home, dlog, lh, outstanding, committing, cache, owner, pins, boot>>
      /\ UNCHANGED <<dirty, touched, calls, crashes>>
      /\ pc[p] = "write_head"
  BY Zenon DEF write_head, logv, ops, bufs
<1>1. /\ boot = "up" /\ dirty = {}
      /\ \A q \in Proc : q # p => pc[q] \notin CommitLabel
  BY Zenon, <1>b, CommitNoActive DEF CommitLabel
<1>2. ~Installing /\ dhead = <<>>
  <2>1. ~Installing
    BY ONLY Zenon, <1>1, <1>b DEF Installing, CommitLabel
  <2> QED BY ONLY Zenon, <1>1, <1>a, <2>1 DEF Headers
<1>c. /\ lh \in Seq(Block) /\ IsInjective(lh) /\ Len(lh) \in Nat /\ Len(lh) > 0
      /\ \A b \in Range(lh) : \E i \in 1..Len(lh) : lh[i] = b
  <2>1. Len(lh) > 0
    BY ONLY Zenon, <1>a, <1>b, p \in Proc DEF Headers
  <2> QED BY Zenon, <2>1, LogSeq
<1>3. TypeOK'
  <2>1. pc' \in [Proc -> {"idle", "begin_op", "asleep", "op", "write_log", "write_head",
                         "install_trans", "erase", "end_commit", "panic"}]
    BY ONLY Zenon, <1>a, <1>b DEF TypeOK
  <2>2. tail' \in Nat \ {0}
    BY ONLY <1>b
  <2> QED BY ONLY Zenon, <1>a, <1>b, <1>c, <2>1, <2>2 DEF TypeOK
<1>4. /\ Threads' /\ committing'
      /\ pc'[p] = "install_trans" /\ boot' = "up" /\ dirty' = {}
      /\ \A q \in Proc : q # p => pc'[q] \notin CommitLabel
  <2>1. pc[p] \in CommitLabel /\ "install_trans" \in CommitLabel
    BY ONLY Zenon, <1>b DEF CommitLabel
  <2>2. UNCHANGED <<outstanding, committing, owner, dirty, boot>>
    BY ONLY Zenon, <1>b
  <2> QED BY ONLY Zenon, IInv, p \in Proc, <1>3, <1>b, <2>1, <2>2, CommitThreads
<1>d. \A q \in Proc : pc'[q] \notin {"write_log", "write_head", "erase", "end_commit"}
                      /\ (q # p => pc'[q] # "install_trans")
  BY ONLY Zenon, <1>4 DEF CommitLabel
<1>5. Installing' /\ Installed' = 0
  <2>1. Installing'
    BY ONLY Zenon, <1>4, p \in Proc DEF Installing
  <2>2. Installed' = tail' - 1
    BY ONLY Zenon, <1>4, <1>d DEF Installed
  <2> QED BY ONLY <1>b, <2>1, <2>2
<1>6. Headers'
  BY ONLY <1>a, <1>b, <1>c, <1>4, <1>5, <1>d DEF Headers
<1>7. \A b \in Block : b \in Range(lh) => cache[b] # NoBuf /\ Recovered'[b] = cache[b]
  <2> SUFFICES ASSUME NEW b \in Block, b \in Range(lh)
               PROVE  cache[b] # NoBuf /\ Recovered'[b] = cache[b]
    BY Zenon
  <2>1. PICK i \in 1..Len(lh) : lh[i] = b
    BY ONLY Zenon, <1>c, b \in Range(lh)
  <2>2. Recovered'[b] = dlog[i]
    <3>1. Recovered' = RecoveredFrom(lh, dlog, home)
      BY ONLY Zenon, <1>b DEF Recovered
    <3> QED BY ONLY <3>1, <1>c, <2>1, RecoveredLogged
  <2>3. dlog[i] = cache[b]
    BY ONLY Zenon, <2>1, <1>a, <1>b, p \in Proc DEF Copies
  <2>4. cache[b] # NoBuf
    BY Zenon, <2>1, <1>1, <1>2, LoggedCached
  <2> QED BY ONLY Zenon, <2>2, <2>3, <2>4
<1>8. \A b \in Block : b \notin Range(lh) =>
         Recovered'[b] = home[b] /\ (cache[b] # NoBuf => cache[b] = home[b])
  <2> SUFFICES ASSUME NEW b \in Block, b \notin Range(lh)
               PROVE  Recovered'[b] = home[b] /\ (cache[b] # NoBuf => cache[b] = home[b])
    BY Zenon
  <2>1. Recovered' = RecoveredFrom(lh, dlog, home)
    BY ONLY Zenon, <1>b DEF Recovered
  <2>2. Recovered'[b] = home[b]
    BY ONLY <2>1, <1>c, RecoveredOther, b \in Block, b \notin Range(lh)
  <2>3. Recovered[b] = home[b]
    BY ONLY Zenon, <1>2, RecoveredEmpty, b \in Block DEF Recovered
  <2> QED BY ONLY Zenon, <2>2, <2>3, <1>a, <1>1, b \in Block, b \notin Range(lh) DEF Buffers
<1>9. \A b \in Block : pins[b] = IF b \in Range(lh) THEN 1 ELSE 0
  BY ONLY Zenon, <1>a, <1>1, <1>2 DEF Buffers
<1>11. Buffers'
  <2>1. boot' # "read_head" /\ Installing' /\ Installed' + 1 = 1 /\ UNCHANGED <<cache, owner, pins, lh>>
    BY ONLY <1>4, <1>5, <1>b
  <2>2. \A b \in Block : owner[b] # NoProc \/ pins[b] # 0 => cache[b] # NoBuf
    BY ONLY Zenon, <1>a DEF Buffers
  <2>3. \A b \in Block : cache[b] # NoBuf => cache[b] = Recovered'[b]
    BY ONLY Zenon, <1>7, <1>8
  <2> QED BY ONLY Zenon, <2>1, <2>2, <2>3, <1>9, <1>c DEF Buffers
<1>12. Copies'
  BY ONLY <1>d, <1>5 DEF Copies
<1>13. Recovered' = Current
  <2>1. \A b \in Block : cache[b] = NoBuf => home[b] = Recovered[b]
    BY Zenon, <1>1, UncachedCurrent
  <2>2. \A b \in Block : Recovered[b] = home[b]
    BY ONLY Zenon, <1>2, RecoveredEmpty DEF Recovered
  <2>3. \A b \in Block : Recovered'[b] = Current[b]
    BY ONLY Zenon, <1>7, <1>8, <2>1, <2>2 DEF Current
  <2> QED BY ONLY Zenon, <2>3 DEF Recovered, RecoveredFrom, Current
<1> QED BY ONLY Zenon, <1>3, <1>4, <1>6, <1>11, <1>12, <1>13 DEF IInv

\* One iteration of install_trans(), in a commit or in recovery.
LEMMA InstallFacts ==
    ASSUME IInv, NEW recovering \in BOOLEAN, InstallBlock(recovering), Installing,
           tail <= Len(lh), Installed = tail - 1
    PROVE  /\ lh[tail] \in Block /\ dlog[tail] \in Val
           /\ Recovered[lh[tail]] = dlog[tail]
           /\ Recovered' = Recovered
           /\ \A i \in 1..tail : home'[lh[i]] = dlog[i]
           /\ tail' \in Nat \ {0}
           /\ tail \in 1..Len(lh) /\ Len(lh) \in Nat
<1>a. TypeOK /\ Headers /\ Copies
  BY Zenon DEF IInv
<1>b. /\ tail' = tail + 1 /\ home' = [home EXCEPT ![lh[tail]] = dlog[tail]]
      /\ UNCHANGED <<dlog, dhead, lh>>
  BY Zenon DEF InstallBlock, logv
<1>c. /\ lh \in Seq(Block) /\ IsInjective(lh) /\ Len(lh) \in Nat /\ DOMAIN lh = 1..Len(lh)
      /\ \A i \in 1..Len(lh) : lh[i] \in Block /\ lh[i] \in Range(lh)
  BY Zenon, LogSeq
<1>d. /\ tail \in Nat \ {0} /\ dlog \in [1..LOGBLOCKS -> Val] /\ home \in [Block -> Val]
  BY ONLY Zenon, <1>a DEF TypeOK
<1>e. dhead = lh /\ Len(lh) <= LOGBLOCKS
  BY ONLY Zenon, <1>a, Installing DEF Headers
<1>1. tail \in 1..Len(lh) /\ tail \in 1..LOGBLOCKS /\ tail' \in Nat \ {0}
  BY ONLY <1>b, <1>c, <1>d, <1>e, LogAssumption, tail <= Len(lh)
<1>2. lh[tail] \in Block /\ dlog[tail] \in Val /\ lh[tail] \in Range(lh)
  BY ONLY Zenon, <1>1, <1>c, <1>d
<1>3. Recovered[lh[tail]] = dlog[tail]
  BY ONLY <1>1, <1>c, <1>e, RecoveredLogged DEF Recovered
<1>5. Recovered' = Recovered
  <2>1. \A b \in Block : b # lh[tail] => home'[b] = home[b]
    BY ONLY Zenon, <1>b, <1>d
  <2>2. \A b \in Block : b \notin Range(lh) => home'[b] = home[b]
    BY ONLY Zenon, <2>1, <1>2
  <2>3. Recovered' = RecoveredFrom(lh, dlog, home') /\ Recovered = RecoveredFrom(lh, dlog, home)
    BY ONLY Zenon, <1>b, <1>e DEF Recovered
  <2> QED BY ONLY <2>2, <2>3 DEF RecoveredFrom
<1>6. \A i \in 1..tail : home'[lh[i]] = dlog[i]
  <2>1. \A i \in 1..(tail - 1) : home[lh[i]] = dlog[i]
    BY ONLY Zenon, <1>a, Installing, Installed = tail - 1 DEF Copies
  <2>2. \A i \in 1..tail : i = tail \/ (i \in 1..(tail - 1) /\ i \in 1..Len(lh))
    BY ONLY <1>1, <1>c
  <2>3. \A i \in 1..tail : i # tail => lh[i] # lh[tail] /\ lh[i] \in Block
    BY ONLY Zenon, <1>1, <1>c, <2>2 DEF IsInjective
  <2> QED BY ONLY Zenon, <1>2, <1>b, <1>d, <2>1, <2>2, <2>3
<1> QED BY ONLY Zenon, <1>1, <1>2, <1>3, <1>5, <1>6, <1>c

LEMMA InstallInv ==
    ASSUME IInv, NEW p \in Proc, install_trans(p)
    PROVE  IInv' /\ Recovered' = Recovered /\ Current' = Current
<1> DEFINE l == IF tail = Len(lh) THEN "erase" ELSE "install_trans"
<1>a. TypeOK /\ Headers /\ Buffers /\ Copies
  BY Zenon DEF IInv
<1>b. /\ pc[p] = "install_trans" /\ InstallBlock(FALSE)
      /\ pc' = [pc EXCEPT ![p] = IF tail = Len(lh) THEN "erase" ELSE @]
      /\ cache' = [cache EXCEPT ![lh[tail]] = dlog[tail]]
      /\ home' = [home EXCEPT ![lh[tail]] = dlog[tail]]
      /\ pins' = [pins EXCEPT ![lh[tail]] = @ - 1]
      /\ tail' = tail + 1
      /\ UNCHANGED <<dlog, dhead, lh, outstanding, committing, owner, boot>>
      /\ UNCHANGED <<dirty, touched, calls, crashes>>
  BY Zenon DEF install_trans, InstallBlock, bunpin, LastBlock, logv, ops
<1>c. /\ cache \in [Block -> Val \cup {NoBuf}] /\ home \in [Block -> Val]
      /\ pins \in [Block -> Int] /\ pc = [q \in Proc |-> pc[q]] /\ tail \in Nat
  BY ONLY Zenon, <1>a DEF TypeOK
<1>1. /\ boot = "up" /\ dirty = {}
      /\ \A q \in Proc : q # p => pc[q] \notin CommitLabel
  BY Zenon, <1>b, CommitNoActive DEF CommitLabel
<1>2. Installing /\ Installed = tail - 1 /\ tail <= Len(lh)
  <2>1. Installing
    BY ONLY Zenon, <1>b, p \in Proc DEF Installing
  <2>2. Installed = tail - 1
    BY ONLY Zenon, <1>1, <1>b DEF Installed, CommitLabel
  <2> QED BY ONLY Zenon, <2>1, <2>2, <1>a, <1>b, p \in Proc DEF Headers
<1>3. /\ lh[tail] \in Block /\ dlog[tail] \in Val
      /\ Recovered[lh[tail]] = dlog[tail]
      /\ Recovered' = Recovered
      /\ \A i \in 1..tail : home'[lh[i]] = dlog[i]
      /\ tail' \in Nat \ {0}
      /\ tail \in 1..Len(lh) /\ Len(lh) \in Nat
  BY ONLY Zenon, IInv, <1>b, <1>2, InstallFacts
<1>4. pc' = [pc EXCEPT ![p] = l] /\ l \in CommitLabel
  BY ONLY Zenon, <1>b, <1>c DEF CommitLabel
<1>5. TypeOK'
  <2>1. pc' \in [Proc -> {"idle", "begin_op", "asleep", "op", "write_log", "write_head",
                         "install_trans", "erase", "end_commit", "panic"}]
    BY ONLY Zenon, <1>a, <1>b DEF TypeOK
  <2>2. /\ cache' \in [Block -> Val \cup {NoBuf}] /\ home' \in [Block -> Val]
        /\ pins' \in [Block -> Int]
    BY ONLY <1>b, <1>c, <1>3
  <2> QED BY ONLY Zenon, <1>a, <1>b, <1>3, <2>1, <2>2 DEF TypeOK
<1>6. /\ Threads' /\ committing'
      /\ pc'[p] = l /\ boot' = "up"
      /\ \A q \in Proc : q # p => pc'[q] \notin CommitLabel
  <2>1. pc[p] \in CommitLabel
    BY ONLY Zenon, <1>b DEF CommitLabel
  <2>2. UNCHANGED <<outstanding, committing, owner, dirty, boot>>
    BY ONLY Zenon, <1>b
  <2> HIDE DEF l
  <2> QED BY ONLY Zenon, IInv, p \in Proc, <1>4, <1>5, <2>1, <2>2, CommitThreads
<1>d. /\ \A q \in Proc : pc'[q] \notin {"write_log", "write_head", "end_commit"}
      /\ \A q \in Proc : q # p => pc'[q] \notin {"install_trans", "erase"}
      /\ pc'[p] = "erase" => tail = Len(lh)
      /\ pc'[p] = "install_trans" => tail # Len(lh)
      /\ pc'[p] \in {"install_trans", "erase"}
  BY ONLY Zenon, <1>6 DEF CommitLabel
<1>7. Installing' /\ Installed' = tail
  <2>1. Installing'
    BY ONLY Zenon, <1>d, p \in Proc DEF Installing
  <2>2. tail' - 1 = tail /\ lh' = lh
    BY ONLY <1>b, <1>c
  <2> QED BY ONLY Zenon, <1>d, <1>6, <2>1, <2>2, p \in Proc DEF Installed
<1>8. Headers'
  <2>0. tail' = tail + 1 /\ tail \in 1..Len(lh) /\ Len(lh) \in Nat
    BY ONLY Zenon, <1>b, <1>3
  <2>1. pc'[p] = "install_trans" => tail' <= Len(lh)
    BY ONLY <2>0, <1>d
  <2> QED BY ONLY Zenon, <1>a, <1>b, <1>2, <1>6, <1>7, <1>d, <2>1 DEF Headers
<1>9. /\ cache'[lh[tail]] = Recovered[lh[tail]] /\ cache'[lh[tail]] # NoBuf
      /\ pins'[lh[tail]] = pins[lh[tail]] - 1
      /\ \A c \in Block : c # lh[tail] => cache'[c] = cache[c] /\ pins'[c] = pins[c]
  BY ONLY Zenon, <1>3, <1>b, <1>c, LogAssumption
<1>e. /\ IsInjective(lh) /\ DOMAIN lh = 1..Len(lh)
      /\ \A i \in 1..Len(lh) : lh[i] \in Block /\ lh[i] \in Range(lh)
  BY Zenon, LogSeq
<1>10. \A c \in Block : pins'[c] = IF c \in Range(lh) /\ \E i \in (tail + 1)..Len(lh) : lh[i] = c
                                   THEN 1 ELSE 0
  <2>0. (tail - 1) + 1 = tail
    BY ONLY <1>c
  <2>1. \A c \in Block : pins[c] = IF c \in Range(lh) /\ \E i \in tail..Len(lh) : lh[i] = c
                                   THEN 1 ELSE 0
    BY ONLY Zenon, <1>a, <1>1, <1>2, <2>0 DEF Buffers
  <2>2. \A i \in tail..Len(lh) : i = tail \/ i \in (tail + 1)..Len(lh)
    BY ONLY <1>3
  <2>3. \A i \in (tail + 1)..Len(lh) : i \in tail..Len(lh) /\ lh[i] # lh[tail]
    <3>1. \A i \in (tail + 1)..Len(lh) : i \in tail..Len(lh) /\ i \in 1..Len(lh) /\ i # tail
      BY ONLY <1>3
    <3>2. \A i, j \in 1..Len(lh) : lh[i] = lh[j] => i = j
      BY ONLY Zenon, <1>e DEF IsInjective
    <3> QED BY ONLY Zenon, <1>3, <3>1, <3>2
  <2>4. lh[tail] \in Range(lh) /\ tail \in tail..Len(lh)
    BY ONLY <1>3, <1>e
  <2>5. pins'[lh[tail]] = 0
    BY ONLY <1>3, <1>9, <2>1, <2>4
  <2>6. ASSUME NEW c \in Block, c # lh[tail]
        PROVE  (\E i \in tail..Len(lh) : lh[i] = c) <=> (\E i \in (tail + 1)..Len(lh) : lh[i] = c)
    BY ONLY Zenon, <2>2, <2>3, <2>6
  <2>7. ~ \E i \in (tail + 1)..Len(lh) : lh[i] = lh[tail]
    BY ONLY Zenon, <2>3
  <2> QED BY ONLY <1>9, <2>1, <2>5, <2>6, <2>7
<1>11. Buffers'
  <2>1. \A c \in Block : owner'[c] # NoProc \/ pins'[c] # 0 => cache'[c] # NoBuf
    BY ONLY Zenon, <1>a, <1>b, <1>9 DEF Buffers
  <2>2. \A c \in Block : cache[c] # NoBuf => cache[c] = Recovered[c]
    BY ONLY Zenon, <1>a, <1>1, <1>2 DEF Buffers
  <2>3. \A c \in Block : cache'[c] # NoBuf => cache'[c] = Recovered'[c]
    BY ONLY Zenon, <2>2, <1>3, <1>9
  <2>4. boot' # "read_head" /\ lh' = lh
    BY ONLY Zenon, <1>b, <1>6
  <2> QED BY ONLY Zenon, <1>7, <1>10, <2>1, <2>3, <2>4 DEF Buffers
<1>12. Copies'
  BY ONLY Zenon, <1>b, <1>3, <1>7, <1>d DEF Copies
<1>13. Current' = Current
  <2>1. cache[lh[tail]] # NoBuf => cache[lh[tail]] = Recovered[lh[tail]]
    BY ONLY Zenon, <1>a, <1>1, <1>2, <1>3 DEF Buffers
  <2> QED BY ONLY <1>3, <1>9, <2>1 DEF Current
<1> QED BY ONLY Zenon, <1>3, <1>5, <1>6, <1>8, <1>11, <1>12, <1>13 DEF IInv

\* Once all its blocks are at home, erasing the transaction changes nothing.
LEMMA AllHome ==
    ASSUME IInv, Installing, Installed = Len(lh)
    PROVE  \A b \in Block : Recovered[b] = home[b]
<1> SUFFICES ASSUME NEW b \in Block PROVE Recovered[b] = home[b]
  BY Zenon
<1>a. dhead = lh /\ \A i \in 1..Len(lh) : home[lh[i]] = dlog[i]
  BY Zenon DEF IInv, Headers, Copies
<1>1. /\ lh \in Seq(Block) /\ IsInjective(lh)
      /\ \A c \in Range(lh) : \E i \in 1..Len(lh) : lh[i] = c
  BY Zenon, LogSeq
<1>2. CASE b \notin Range(lh)
  BY ONLY <1>a, <1>1, <1>2, b \in Block, RecoveredOther DEF Recovered
<1>3. CASE b \in Range(lh)
  <2>1. PICK i \in 1..Len(lh) : lh[i] = b
    BY ONLY Zenon, <1>1, <1>3
  <2>2. home[b] = dlog[i]
    BY ONLY Zenon, <2>1, <1>a
  <2>3. Recovered[b] = dlog[i]
    BY ONLY <1>a, <1>1, <2>1, RecoveredLogged DEF Recovered
  <2> QED BY ONLY Zenon, <2>2, <2>3
<1> QED BY ONLY Zenon, <1>2, <1>3

LEMMA EmptyRange == Range(<<>>) = {} /\ IsInjective(<<>>) /\ <<>> \in Seq(Block) /\ Len(<<>>) = 0
BY ONLY DEF Range, IsInjective

LEMMA EraseInv ==
    ASSUME IInv, NEW p \in Proc, erase(p)
    PROVE  IInv' /\ Recovered' = Recovered
<1>a. TypeOK /\ Headers /\ Buffers /\ Copies
  BY Zenon DEF IInv
<1>b. /\ pc[p] = "erase" /\ pc' = [pc EXCEPT ![p] = "end_commit"]
      /\ lh' = <<>> /\ dhead' = <<>>
      /\ UNCHANGED <<home, dlog, outstanding, committing, cache, owner, pins, tail, boot>>
      /\ UNCHANGED <<dirty, touched, calls, crashes>>
  BY Zenon DEF erase, EraseLog, bufs, ops
<1>1. /\ boot = "up" /\ dirty = {}
      /\ \A q \in Proc : q # p => pc[q] \notin CommitLabel
  BY Zenon, <1>b, CommitNoActive DEF CommitLabel
<1>2. Installing /\ Installed = Len(lh) /\ Len(lh) \in Nat
  <2>1. Installing /\ Installed = Len(lh)
    BY ONLY Zenon, <1>b, p \in Proc DEF Installing, Installed
  <2> QED BY Zenon, <2>1, LogSeq
<1>3. TypeOK'
  <2>1. pc' \in [Proc -> {"idle", "begin_op", "asleep", "op", "write_log", "write_head",
                         "install_trans", "erase", "end_commit", "panic"}]
    BY ONLY Zenon, <1>a, <1>b DEF TypeOK
  <2>2. lh' \in Seq(Block) /\ dhead' \in Seq(Block)
    BY ONLY Zenon, <1>b, EmptyRange
  <2> QED BY ONLY Zenon, <1>a, <1>b, <2>1, <2>2 DEF TypeOK
<1>4. /\ Threads' /\ committing'
      /\ pc'[p] = "end_commit" /\ boot' = "up" /\ dirty' = {}
      /\ \A q \in Proc : q # p => pc'[q] \notin CommitLabel
  <2>1. pc[p] \in CommitLabel /\ "end_commit" \in CommitLabel
    BY ONLY Zenon, <1>b DEF CommitLabel
  <2>2. UNCHANGED <<outstanding, committing, owner, dirty, boot>>
    BY ONLY Zenon, <1>b
  <2> QED BY ONLY Zenon, IInv, p \in Proc, <1>3, <1>b, <2>1, <2>2, CommitThreads
<1>c. \A q \in Proc : pc'[q] \notin {"write_log", "write_head", "install_trans", "erase"}
  BY ONLY Zenon, <1>4 DEF CommitLabel
<1>5. ~Installing'
  BY ONLY Zenon, <1>4, <1>c DEF Installing
<1>6. \A b \in Block : Recovered'[b] = Recovered[b]
  <2>1. \A b \in Block : Recovered[b] = home[b]
    BY Zenon, <1>2, AllHome
  <2> QED BY ONLY <1>b, <2>1, RecoveredEmpty DEF Recovered
<1>7. Headers'
  <2>1. IsInjective(lh') /\ IsInjective(dhead') /\ Len(lh') = 0 /\ Len(dhead') = 0
    BY ONLY Zenon, <1>b, EmptyRange
  <2> QED BY ONLY <1>b, <1>4, <1>5, <1>c, <2>1, LogAssumption DEF Headers
<1>8. \A b \in Block : pins[b] = 0
  <2>1. ~ \E i \in (Installed + 1)..Len(lh) : TRUE
    BY ONLY <1>2
  <2> QED BY ONLY Zenon, <1>a, <1>1, <1>2, <2>1 DEF Buffers
<1>10. Buffers'
  <2>1. Range(lh') = {} /\ boot' = "up"
    BY ONLY Zenon, <1>b, <1>4, EmptyRange
  <2>2. \A b \in Block : cache[b] # NoBuf => cache[b] = Recovered[b]
    BY ONLY Zenon, <1>a, <1>1, <1>2 DEF Buffers
  <2>3. \A b \in Block : owner[b] # NoProc => cache[b] # NoBuf
    BY ONLY Zenon, <1>a DEF Buffers
  <2> QED BY ONLY Zenon, <1>b, <1>5, <1>6, <1>8, <2>1, <2>2, <2>3 DEF Buffers
<1>11. Copies'
  BY ONLY Zenon, <1>c, <1>5 DEF Copies
<1>12. Recovered' = Recovered
  BY ONLY Zenon, <1>6 DEF Recovered, RecoveredFrom
<1> QED BY ONLY Zenon, <1>3, <1>4, <1>7, <1>10, <1>11, <1>12 DEF IInv

LEMMA EndCommitInv ==
    ASSUME IInv, NEW p \in Proc, end_commit(p)
    PROVE  IInv'
<1>a. TypeOK /\ Threads /\ Headers /\ Buffers
  BY Zenon DEF IInv
<1>b. /\ pc[p] = "end_commit" /\ committing' = FALSE
      /\ pc' = [q \in Proc |-> IF q = p THEN "idle"
                               ELSE IF pc[q] = "asleep" THEN "begin_op" ELSE pc[q]]
      /\ UNCHANGED <<home, dlog, dhead, lh, outstanding, cache, owner, pins, boot, tail>>
      /\ UNCHANGED <<dirty, touched, calls, crashes>>
  BY Zenon DEF end_commit, WakeupLog, disk, bufs, ops
<1>1. /\ boot = "up" /\ dirty = {} /\ InOp = {}
      /\ \A q \in Proc : q # p => pc[q] \in {"idle", "begin_op", "asleep"}
  BY Zenon, <1>b, CommitNoActive DEF CommitLabel
<1>2. \A q \in Proc : pc'[q] \in {"idle", "begin_op"}
  BY ONLY Zenon, <1>1, <1>b
<1>3. ~Installing /\ ~Installing' /\ InOp' = {}
  <2>1. \A q \in Proc : pc[q] \notin {"install_trans", "erase"}
    BY ONLY Zenon, <1>1, <1>b
  <2> QED BY ONLY Zenon, <1>1, <1>2, <1>b, <2>1 DEF Installing, InOp
<1>c. lh = <<>>
  BY ONLY Zenon, <1>a, <1>b, p \in Proc DEF Headers
<1>4. TypeOK'
  <2>1. pc' \in [Proc -> {"idle", "begin_op", "asleep", "op", "write_log", "write_head",
                         "install_trans", "erase", "end_commit", "panic"}]
    BY ONLY Zenon, <1>a, <1>b DEF TypeOK
  <2>2. committing' \in BOOLEAN
    BY ONLY Zenon, <1>b
  <2> QED BY ONLY Zenon, <1>a, <1>b, <2>1, <2>2 DEF TypeOK
<1>5. Threads'
  <2>1. CommitExclusive'
    BY ONLY Zenon, <1>2 DEF CommitExclusive, CommitLabel
  <2>2. \A q \in Proc : pc'[q] \notin CommitLabel
    BY ONLY Zenon, <1>2 DEF CommitLabel
  <2> QED BY ONLY Zenon, <1>a, <1>b, <1>1, <1>2, <1>3, <2>1, <2>2 DEF Threads
<1>6. Headers'
  BY ONLY Zenon, <1>a, <1>b, <1>1, <1>2, <1>3, <1>c DEF Headers
<1>7. Recovered' = Recovered
  BY ONLY Zenon, <1>b DEF Recovered
<1>8. Buffers'
  BY ONLY Zenon, <1>a, <1>b, <1>1, <1>3, <1>7 DEF Buffers
<1>9. Copies'
  BY ONLY Zenon, <1>2, <1>3 DEF Copies
<1> QED BY ONLY Zenon, <1>4, <1>5, <1>6, <1>8, <1>9 DEF IInv

\* While booting no process has left its initial state.
LEMMA BootThreads ==
    ASSUME IInv, boot # "up", UNCHANGED <<pc, outstanding, committing, owner, pins, dirty>>
    PROVE  /\ Threads' /\ InOp' = {} /\ InOp = {} /\ dirty = {} /\ dirty' = {}
           /\ ~committing /\ \A p \in Proc : pc[p] = "idle"
           /\ \A b \in Block : owner[b] = NoProc /\ pins[b] = 0
<1>a. TypeOK /\ Threads
  BY Zenon DEF IInv
<1>b. UNCHANGED <<pc, outstanding, committing, owner, pins, dirty>>
  BY Zenon
<1>1. /\ \A p \in Proc : pc[p] = "idle"
      /\ \A b \in Block : owner[b] = NoProc /\ pins[b] = 0
  BY ONLY Zenon, <1>a, boot # "up" DEF Threads
<1>2. InOp = {} /\ InOp' = {}
  BY ONLY Zenon, <1>1, <1>b DEF InOp
<1>3. dirty = {}
  BY ONLY Zenon, <1>a, <1>2 DEF Threads
<1>c. \A p \in Proc : pc[p] \notin CommitLabel
  BY ONLY Zenon, <1>1 DEF CommitLabel
<1>d. ~committing
  BY ONLY Zenon, <1>a, <1>c DEF Threads
<1>4. Threads'
  <2>1. CommitExclusive'
    BY ONLY Zenon, <1>b, <1>c DEF CommitExclusive
  <2> QED BY ONLY Zenon, <1>a, <1>b, <1>1, <1>2, <1>3, <1>c, <1>d, <2>1 DEF Threads
<1> QED BY ONLY Zenon, <1>b, <1>1, <1>2, <1>3, <1>d, <1>4

LEMMA ReadHeadInv ==
    ASSUME IInv, read_head
    PROVE  IInv' /\ Recovered' = Recovered /\ Current' = Current
<1>a. TypeOK /\ Headers /\ Buffers
  BY Zenon DEF IInv
<1>b. /\ boot = "read_head" /\ lh' = dhead /\ tail' = 1
      /\ boot' = IF Len(dhead) > 0 THEN "install_trans" ELSE "erase"
      /\ UNCHANGED <<home, dlog, dhead, outstanding, committing, cache, owner, pins, pc>>
      /\ UNCHANGED <<dirty, touched, calls, crashes>>
  BY Zenon DEF read_head, disk, bufs, ops
<1>1. /\ Threads' /\ InOp' = {} /\ dirty' = {} /\ ~committing
      /\ \A p \in Proc : pc[p] = "idle"
      /\ \A b \in Block : owner[b] = NoProc /\ pins[b] = 0
  <2>1. boot # "up" /\ UNCHANGED <<pc, outstanding, committing, owner, pins, dirty>>
    BY ONLY Zenon, <1>b
  <2> QED BY ONLY Zenon, IInv, <2>1, BootThreads
<1>2. TypeOK'
  <2>1. lh' \in Seq(Block) /\ boot' \in {"read_head", "install_trans", "erase", "up"}
        /\ tail' \in Nat \ {0}
    BY ONLY <1>a, <1>b DEF TypeOK
  <2> QED BY ONLY Zenon, <1>a, <1>b, <2>1 DEF TypeOK
<1>3. Recovered' = Recovered /\ Current' = Current
  BY ONLY Zenon, <1>b DEF Recovered, Current
<1>4. /\ Len(dhead) \in Nat /\ boot' \in {"install_trans", "erase"}
      /\ boot' = "erase" => Len(lh') = 0
      /\ boot' = "install_trans" => tail' <= Len(lh')
  <2>1. Len(dhead) \in Nat
    BY ONLY <1>a DEF TypeOK
  <2> QED BY ONLY <1>b, <2>1
<1>c. \A p \in Proc : pc'[p] = "idle"
  BY ONLY Zenon, <1>1, <1>b
<1>5. Installing' /\ Installed' = 0
  BY ONLY <1>b, <1>c, <1>4 DEF Installing, Installed
<1>6. Headers'
  BY ONLY Zenon, <1>a, <1>b, <1>c, <1>4, <1>5 DEF Headers
<1>7. Buffers'
  <2>1. \A b \in Block : cache'[b] = NoBuf /\ owner'[b] = NoProc /\ pins'[b] = 0
    BY ONLY Zenon, <1>a, <1>b, <1>1 DEF Buffers
  <2> QED BY ONLY Zenon, <1>4, <2>1 DEF Buffers
<1>8. Copies'
  BY ONLY <1>c, <1>5 DEF Copies
<1> QED BY ONLY Zenon, <1>1, <1>2, <1>3, <1>6, <1>7, <1>8 DEF IInv

LEMMA RecoverInstallInv ==
    ASSUME IInv, recover_install
    PROVE  IInv' /\ Recovered' = Recovered /\ Current' = Current
<1>a. TypeOK /\ Headers /\ Buffers /\ Copies
  BY Zenon DEF IInv
<1>b. /\ boot = "install_trans" /\ InstallBlock(TRUE)
      /\ boot' = IF tail = Len(lh) THEN "erase" ELSE boot
      /\ cache' = [cache EXCEPT ![lh[tail]] = dlog[tail]]
      /\ home' = [home EXCEPT ![lh[tail]] = dlog[tail]]
      /\ tail' = tail + 1
      /\ UNCHANGED <<dlog, dhead, lh, outstanding, committing, owner, pins, pc>>
      /\ UNCHANGED <<dirty, touched, calls, crashes>>
  BY Zenon DEF recover_install, InstallBlock, LastBlock, logv, ops
<1>1. /\ Threads' /\ InOp' = {} /\ dirty = {} /\ dirty' = {} /\ ~committing
      /\ \A p \in Proc : pc[p] = "idle"
      /\ \A b \in Block : owner[b] = NoProc /\ pins[b] = 0
  <2>1. boot # "up" /\ UNCHANGED <<pc, outstanding, committing, owner, pins, dirty>>
    BY ONLY Zenon, <1>b
  <2> QED BY ONLY Zenon, IInv, <2>1, BootThreads
<1>2. Installing /\ Installed = tail - 1 /\ tail <= Len(lh)
  <2>1. Installing /\ Installed = tail - 1
    BY ONLY Zenon, <1>b, <1>1 DEF Installing, Installed
  <2> QED BY ONLY Zenon, <1>a, <1>b, <2>1 DEF Headers
<1>3. /\ lh[tail] \in Block /\ dlog[tail] \in Val
      /\ Recovered[lh[tail]] = dlog[tail]
      /\ Recovered' = Recovered
      /\ \A i \in 1..tail : home'[lh[i]] = dlog[i]
      /\ tail' \in Nat \ {0}
      /\ tail \in 1..Len(lh) /\ Len(lh) \in Nat
  BY ONLY Zenon, IInv, <1>b, <1>2, InstallFacts
<1>c. /\ cache \in [Block -> Val \cup {NoBuf}] /\ home \in [Block -> Val]
  BY ONLY Zenon, <1>a DEF TypeOK
<1>4. TypeOK'
  <2>1. cache' \in [Block -> Val \cup {NoBuf}] /\ home' \in [Block -> Val]
    BY ONLY Zenon, <1>b, <1>c, <1>3
  <2>2. boot' \in {"read_head", "install_trans", "erase", "up"}
    BY ONLY Zenon, <1>b
  <2> QED BY ONLY Zenon, <1>a, <1>b, <1>3, <2>1, <2>2 DEF TypeOK
<1>d. /\ boot' \in {"install_trans", "erase"} /\ \A p \in Proc : pc'[p] = "idle"
      /\ boot' = "erase" => tail = Len(lh)
      /\ boot' = "install_trans" => tail # Len(lh)
  BY ONLY Zenon, <1>b, <1>1
<1>5. Installing' /\ Installed' = tail
  <2>1. tail' - 1 = tail /\ lh' = lh
    BY ONLY <1>b, <1>3
  <2> QED BY ONLY Zenon, <1>d, <2>1 DEF Installing, Installed
<1>6. Headers'
  <2>0. tail' = tail + 1 /\ tail \in 1..Len(lh) /\ Len(lh) \in Nat
    BY ONLY Zenon, <1>b, <1>3
  <2>1. boot' = "install_trans" => tail' <= Len(lh)
    BY ONLY <2>0, <1>d
  <2> QED BY ONLY Zenon, <1>a, <1>b, <1>d, <1>2, <1>5, <2>1 DEF Headers
<1>7. /\ cache'[lh[tail]] = Recovered[lh[tail]] /\ cache'[lh[tail]] # NoBuf
      /\ \A c \in Block : c # lh[tail] => cache'[c] = cache[c]
  BY ONLY Zenon, <1>b, <1>c, <1>3, LogAssumption
<1>8. \A c \in Block : cache[c] # NoBuf => cache[c] = Recovered[c]
  BY ONLY Zenon, <1>a, <1>1, <1>2 DEF Buffers
<1>9. Buffers'
  <2>1. \A c \in Block : cache'[c] # NoBuf => cache'[c] = Recovered'[c]
    BY ONLY Zenon, <1>3, <1>7, <1>8
  <2>2. \A c \in Block : owner'[c] = NoProc /\ pins'[c] = 0
    BY ONLY Zenon, <1>1, <1>b
  <2> QED BY ONLY Zenon, <1>d, <2>1, <2>2 DEF Buffers
<1>10. Copies'
  BY ONLY Zenon, <1>b, <1>d, <1>3, <1>5 DEF Copies
<1>11. Current' = Current
  BY ONLY <1>3, <1>7, <1>8 DEF Current
<1> QED BY ONLY Zenon, <1>1, <1>3, <1>4, <1>6, <1>9, <1>10, <1>11 DEF IInv

LEMMA RecoverEraseInv ==
    ASSUME IInv, recover_erase
    PROVE  IInv' /\ Recovered' = Recovered
<1>a. TypeOK /\ Headers /\ Buffers
  BY Zenon DEF IInv
<1>b. /\ boot = "erase" /\ boot' = "up" /\ lh' = <<>> /\ dhead' = <<>>
      /\ UNCHANGED <<home, dlog, outstanding, committing, cache, owner, pins, pc, tail>>
      /\ UNCHANGED <<dirty, touched, calls, crashes>>
  BY Zenon DEF recover_erase, EraseLog, bufs, ops
<1>1. /\ Threads' /\ InOp' = {} /\ dirty = {} /\ dirty' = {} /\ ~committing
      /\ \A p \in Proc : pc[p] = "idle"
      /\ \A b \in Block : owner[b] = NoProc /\ pins[b] = 0
  <2>1. boot # "up" /\ UNCHANGED <<pc, outstanding, committing, owner, pins, dirty>>
    BY ONLY Zenon, <1>b
  <2> QED BY ONLY Zenon, IInv, <2>1, BootThreads
<1>2. Installing /\ Installed = Len(lh)
  BY ONLY Zenon, <1>b DEF Installing, Installed
<1>3. TypeOK'
  <2>1. lh' \in Seq(Block) /\ dhead' \in Seq(Block)
    BY ONLY Zenon, <1>b, EmptyRange
  <2>2. boot' \in {"read_head", "install_trans", "erase", "up"}
    BY ONLY Zenon, <1>b
  <2> QED BY ONLY Zenon, <1>a, <1>b, <2>1, <2>2 DEF TypeOK
<1>c. \A p \in Proc : pc'[p] = "idle"
  BY ONLY Zenon, <1>1, <1>b
<1>4. ~Installing'
  BY ONLY Zenon, <1>b, <1>c DEF Installing
<1>5. \A b \in Block : Recovered'[b] = Recovered[b]
  <2>1. \A b \in Block : Recovered[b] = home[b]
    BY Zenon, <1>2, AllHome
  <2> QED BY ONLY <1>b, <2>1, RecoveredEmpty DEF Recovered
<1>6. Headers'
  <2>1. IsInjective(lh') /\ IsInjective(dhead') /\ Len(lh') = 0 /\ Len(dhead') = 0
    BY ONLY Zenon, <1>b, EmptyRange
  <2> QED BY ONLY <1>b, <1>c, <1>4, <2>1, LogAssumption DEF Headers
<1>7. Range(lh') = {}
  BY ONLY Zenon, <1>b, EmptyRange
<1>8. Buffers'
  <2>1. \A c \in Block : cache[c] # NoBuf => cache[c] = Recovered[c]
    BY ONLY Zenon, <1>a, <1>1, <1>2 DEF Buffers
  <2>2. \A c \in Block : cache'[c] # NoBuf => cache'[c] = Recovered'[c]
    BY ONLY Zenon, <2>1, <1>b, <1>5
  <2>3. \A c \in Block : owner'[c] = NoProc /\ pins'[c] = 0
    BY ONLY Zenon, <1>1, <1>b
  <2> QED BY ONLY Zenon, <1>b, <1>7, <2>2, <2>3 DEF Buffers
<1>9. Copies'
  BY ONLY Zenon, <1>c, <1>4 DEF Copies
<1>10. Recovered' = Recovered
  BY ONLY Zenon, <1>5 DEF Recovered, RecoveredFrom
<1> QED BY ONLY Zenon, <1>1, <1>3, <1>6, <1>8, <1>9, <1>10 DEF IInv

----------------------------------------------------------------------------
(* The steps that count the operations in progress: begin_op(), end_op()   *)
(* and a crash.                                                            *)

INSTANCE FiniteSetTheorems

LEMMA InitInv == Init => IInv
<1> SUFFICES ASSUME Init PROVE IInv
  BY Zenon
<1> USE LogAssumption
<1>1. TypeOK
  <2>1. <<>> \in Seq(Block)
    OBVIOUS
  <2>2. dlog \in [1..LOGBLOCKS -> Val]
    BY Zenon DEF Init
  <2>3. /\ cache \in [Block -> Val \cup {NoBuf}]
        /\ owner \in [Block -> Proc \cup {NoProc}]
        /\ pins \in [Block -> Int]
        /\ touched \in [Proc -> SUBSET Block]
        /\ calls \in [Proc -> Nat]
    BY DEF Init
  <2>4. dhead \in Seq(Block) /\ lh \in Seq(Block)
    BY Zenon, <2>1 DEF Init
  <2>5. committing \in BOOLEAN
    BY Zenon DEF Init
  <2>6. /\ boot \in {"read_head", "install_trans", "erase", "up"}
        /\ outstanding \in Int
        /\ crashes \in Nat
        /\ tail \in Nat \ {0}
        /\ dirty \in SUBSET Block
        /\ home \in [Block -> Val]
    BY DEF Init
  <2>7. pc \in [Proc -> {"idle", "begin_op", "asleep", "op", "write_log", "write_head",
                        "install_trans", "erase", "end_commit", "panic"}]
    BY Zenon DEF Init
  <2> QED BY ONLY Zenon, <2>2, <2>3, <2>4, <2>5, <2>6, <2>7 DEF TypeOK
<1>2. InOp = {}
  BY Zenon DEF Init, InOp
<1>3. Threads
  BY Zenon, <1>2, FS_EmptySet DEF Init, Threads, CommitExclusive, CommitLabel
<1>4. Headers
  <2>1. ~Installing
    BY Zenon DEF Init, Installing
  <2>2. IsInjective(<<>>)
    BY ONLY DEF IsInjective
  <2> QED BY <2>1, <2>2 DEF Init, Headers
<1>5. Buffers
  BY Zenon DEF Init, Buffers
<1>6. Copies
  BY Zenon DEF Init, Copies, Installing
<1> QED BY ONLY Zenon, <1>1, <1>3, <1>4, <1>5, <1>6 DEF IInv

LEMMA BeginInv ==
    ASSUME IInv, NEW p \in Proc, begin_op(p)
    PROVE  IInv'
<1> USE LogAssumption DEF IInv, begin_op, MustWait, disk, bufs, ops
<1>1. TypeOK'
  <2>1. outstanding' \in Int
    BY DEF TypeOK
  <2>2. pc' = [pc EXCEPT ![p] = "asleep"] \/ pc' = [pc EXCEPT ![p] = "op"]
    BY Zenon
  <2> QED BY Zenon, <2>1, <2>2 DEF TypeOK
<1>2. /\ \A q \in Proc : q # p => pc'[q] = pc[q]
      /\ pc[p] \notin CommitLabel /\ pc'[p] \notin CommitLabel
      /\ pc'[p] \in {"asleep", "op"}
  BY Zenon DEF TypeOK, CommitLabel
<1>3. (Installing' <=> Installing) /\ Installed' = Installed
  BY Zenon, <1>2, LabelsFrame
<1>4. Threads'
  <2>1. CASE pc'[p] = "asleep"
    <3>1. InOp' = InOp
      BY Zenon, <2>1, <1>2 DEF InOp
    <3>2. outstanding' = outstanding
      BY Zenon, <2>1 DEF TypeOK
    <3> QED BY Zenon, <1>2, <2>1, <3>1, <3>2 DEF Threads, CommitExclusive
  <2>2. CASE pc'[p] = "op"
    <3>1. InOp' = InOp \cup {p} /\ p \notin InOp
      BY Zenon, <2>2, <1>2 DEF InOp
    <3>2. ~committing /\ outstanding' = outstanding + 1
      BY Zenon, <2>2 DEF TypeOK
    <3>3. IsFiniteSet(InOp)
      BY Zenon, FS_Subset DEF InOp
    <3>4. outstanding' = Cardinality(InOp')
      BY Zenon, <3>1, <3>2, <3>3, FS_AddElement DEF Threads
    <3> QED BY Zenon, <1>2, <2>2, <3>1, <3>2, <3>4 DEF Threads, CommitExclusive
  <2> QED BY ONLY Zenon, <2>1, <2>2, <1>2
<1>5. Headers'
  <2>1. InOp' = {} => InOp = {}
    BY Zenon, <1>2 DEF InOp
  <2> QED BY Zenon, <1>2, <2>1, HeadersLabels
<1>6. Recovered' = Recovered
  BY Zenon DEF Recovered
<1>7. Buffers'
  BY Zenon, <1>3, <1>6 DEF Buffers
<1>8. Copies'
  BY Zenon, <1>2, CopiesLabels
<1> QED BY ONLY Zenon, <1>1, <1>4, <1>5, <1>7, <1>8 DEF IInv

LEMMA EndInv ==
    ASSUME IInv, NEW p \in Proc, end_op(p)
    PROVE  IInv'
<1> USE LogAssumption DEF IInv, end_op, disk, bufs
<1>1. /\ p \in InOp /\ boot = "up" /\ ~Installing /\ ~committing
      /\ \A q \in Proc : pc[q] \notin CommitLabel
  BY Zenon, ActiveNoCommit DEF InOp
<1>2. IsFiniteSet(InOp) /\ InOp \subseteq Proc
  BY Zenon, FS_Subset DEF InOp
<1>3. Cardinality(InOp \ {p}) = outstanding'
  BY Zenon, <1>1, <1>2, FS_RemoveElement DEF Threads
<1>4. \A b \in dirty : owner[b] \in InOp \ {p}
  BY Zenon DEF Threads, TypeOK
<1>5. Recovered' = Recovered
  BY Zenon DEF Recovered
<1>6. CASE outstanding = 1
  <2>1. /\ committing' = TRUE /\ tail' = 1
        /\ pc' = [pc EXCEPT ![p] = IF Len(lh) > 0 THEN "write_log" ELSE "end_commit"]
    BY Zenon, <1>1, <1>6
  <2>2. /\ \A q \in Proc : q # p => pc'[q] = pc[q]
        /\ pc'[p] \in {"write_log", "end_commit"} /\ pc'[p] \in CommitLabel
        /\ pc'[p] = "write_log" => Len(lh) > 0
        /\ pc'[p] = "end_commit" => lh = <<>>
    <3>1. Len(lh) \in Nat /\ (Len(lh) = 0 => lh = <<>>)
      BY DEF TypeOK
    <3> QED BY <2>1, <3>1 DEF TypeOK, CommitLabel
  <2>3. InOp \ {p} = {}
    <3>1. Cardinality(InOp \ {p}) = 0
      BY <1>3, <1>6
    <3>2. IsFiniteSet(InOp \ {p})
      BY ONLY Zenon, <1>2, FS_RemoveElement
    <3> QED BY ONLY Zenon, <3>1, <3>2, FS_EmptySet
  <2>4. \A q \in Proc : q # p => pc[q] \in {"idle", "begin_op", "asleep"}
    BY Zenon, <1>1, <2>3 DEF TypeOK, InOp, CommitLabel
  <2>5. InOp' = {} /\ dirty = {} /\ dirty' = {}
    BY Zenon, <2>2, <2>4, <1>4, <2>3 DEF InOp
  <2>6. TypeOK'
    BY <2>1 DEF TypeOK
  <2>7. Threads'
    <3>1. outstanding' = Cardinality(InOp')
      BY ONLY Zenon, <1>3, <2>3, <2>5
    <3>2. CommitExclusive'
      BY ONLY Zenon, <2>1, <2>2, <2>4 DEF CommitExclusive, CommitLabel
    <3>3. boot' = "up" /\ (\E q \in Proc : pc'[q] \in CommitLabel)
      BY Zenon, <2>2, <1>1
    <3> QED BY ONLY Zenon, <3>1, <3>2, <3>3, <2>5 DEF Threads, CommitLabel
  <2>8. ~Installing'
    BY Zenon, <1>1, <2>2, <2>4 DEF Installing
  <2>11. \A q \in Proc : pc'[q] # "write_head"
    BY ONLY Zenon, <2>2, <2>4
  <2>9. Headers'
    <3>1. UNCHANGED <<lh, dhead, boot>> /\ Headers /\ Len(lh) \in Nat
      BY Zenon, LogSeq
    <3> QED BY ONLY <3>1, <2>1, <2>2, <2>4, <2>8, <2>11, <1>1 DEF Headers
  <2>10. Buffers'
    <3>1. Buffers /\ UNCHANGED <<boot, cache, owner, pins, lh>>
      BY Zenon
    <3> QED BY ONLY Zenon, <3>1, <2>5, <2>8, <1>1, <1>5 DEF Buffers
  <2>12. Copies'
    <3>1. \A i \in 1..(tail' - 1) : FALSE
      BY ONLY <2>1
    <3> QED BY ONLY Zenon, <3>1, <2>8, <2>11 DEF Copies
  <2> QED BY ONLY Zenon, <2>6, <2>7, <2>9, <2>10, <2>12 DEF IInv
<1>7. CASE outstanding # 1
  <2>1. UNCHANGED <<committing, tail>> /\ WakeupLog(p, "idle")
    BY Zenon, <1>1, <1>7
  <2>2. /\ pc'[p] = "idle"
        /\ \A q \in Proc : q # p => pc'[q] = pc[q] \/ (pc[q] = "asleep" /\ pc'[q] = "begin_op")
        /\ \A q \in Proc : pc'[q] \notin CommitLabel
    BY ONLY Zenon, <2>1, <1>1 DEF WakeupLog, CommitLabel
  <2>3. InOp' = InOp \ {p}
    BY ONLY Zenon, <2>2 DEF InOp
  <2>4. TypeOK'
    BY <2>1 DEF TypeOK, WakeupLog
  <2>5. Threads'
    BY Zenon, <1>1, <1>3, <1>4, <2>1, <2>2, <2>3 DEF Threads, CommitExclusive
  <2>6. \A q \in Proc : pc'[q] = pc[q] \/ (pc[q] \notin CommitLabel /\ pc'[q] \notin CommitLabel)
    BY ONLY Zenon, <1>1, <2>2
  <2>7. (Installing' <=> Installing) /\ Installed' = Installed
    BY Zenon, <2>1, <2>6, LabelsFrame
  <2>10. InOp' # {}
    <3>1. outstanding' # 0
      BY <1>7 DEF TypeOK
    <3> QED BY ONLY Zenon, <3>1, <1>3, <2>3, FS_EmptySet
  <2>8. Headers' /\ Copies'
    BY Zenon, <2>1, <2>6, <2>10, HeadersLabels, CopiesLabels
  <2>9. Buffers'
    BY Zenon, <1>5, <2>7 DEF Buffers
  <2> QED BY ONLY Zenon, <2>4, <2>5, <2>8, <2>9 DEF IInv
<1> QED BY ONLY Zenon, <1>6, <1>7

LEMMA CrashInv ==
    ASSUME IInv, Crash
    PROVE  IInv' /\ Recovered' = Recovered /\ Current' = Recovered
<1>a. TypeOK /\ Headers
  BY Zenon DEF IInv
<1>b. /\ boot' = "read_head" /\ lh' = <<>> /\ outstanding' = 0 /\ committing' = FALSE
      /\ cache' = [b \in Block |-> NoBuf] /\ owner' = [b \in Block |-> NoProc]
      /\ pins' = [b \in Block |-> 0] /\ pc' = [p \in Proc |-> "idle"]
      /\ tail' = 1 /\ dirty' = {} /\ crashes' = crashes + 1
      /\ touched' = [p \in Proc |-> {}] /\ calls' = [p \in Proc |-> 0]
      /\ UNCHANGED <<home, dlog, dhead>>
  BY Zenon DEF Crash, disk
<1>1. TypeOK'
  <2>1. lh' \in Seq(Block)
    BY ONLY Zenon, <1>b, EmptyRange
  <2>2. /\ cache' \in [Block -> Val \cup {NoBuf}]
        /\ owner' \in [Block -> Proc \cup {NoProc}]
        /\ pins' \in [Block -> Int]
        /\ touched' \in [Proc -> SUBSET Block]
        /\ calls' \in [Proc -> Nat]
    BY ONLY <1>b
  <2>3. pc' \in [Proc -> {"idle", "begin_op", "asleep", "op", "write_log", "write_head",
                         "install_trans", "erase", "end_commit", "panic"}]
    BY ONLY Zenon, <1>b
  <2>4. /\ home' \in [Block -> Val] /\ dlog' \in [1..LOGBLOCKS -> Val] /\ dhead' \in Seq(Block)
        /\ crashes' \in Nat
    BY ONLY <1>a, <1>b DEF TypeOK
  <2>5. /\ outstanding' \in Int /\ tail' \in Nat \ {0} /\ dirty' \in SUBSET Block
        /\ boot' \in {"read_head", "install_trans", "erase", "up"}
    BY ONLY <1>b
  <2>6. committing' \in BOOLEAN
    BY ONLY Zenon, <1>b
  <2> QED BY ONLY Zenon, <2>1, <2>2, <2>3, <2>4, <2>5, <2>6 DEF TypeOK
<1>c. \A p \in Proc : pc'[p] = "idle"
  BY ONLY Zenon, <1>b
<1>d. \A b \in Block : cache'[b] = NoBuf /\ owner'[b] = NoProc /\ pins'[b] = 0
  BY ONLY Zenon, <1>b
<1>2. InOp' = {} /\ ~Installing' /\ Recovered' = Recovered
  <2>1. Recovered' = Recovered
    BY ONLY Zenon, <1>b DEF Recovered
  <2> QED BY ONLY Zenon, <1>b, <1>c, <2>1 DEF InOp, Installing
<1>3. Threads'
  <2>1. CommitExclusive' /\ \A p \in Proc : pc'[p] \notin CommitLabel
    BY ONLY Zenon, <1>c DEF CommitExclusive, CommitLabel
  <2> QED BY ONLY Zenon, <1>b, <1>c, <1>d, <1>2, <2>1, FS_EmptySet, LogAssumption DEF Threads
<1>4. Headers'
  <2>1. IsInjective(lh') /\ Len(lh') = 0
    BY ONLY Zenon, <1>b, EmptyRange
  <2> QED BY ONLY <1>a, <1>b, <1>c, <1>2, <2>1, LogAssumption DEF Headers
<1>5. Buffers'
  BY ONLY Zenon, <1>b, <1>d DEF Buffers
<1>6. Copies'
  BY ONLY Zenon, <1>c, <1>2 DEF Copies
<1>7. Current' = Recovered
  BY ONLY Zenon, <1>d, <1>2 DEF Current, Recovered, RecoveredFrom
<1> QED BY ONLY Zenon, <1>1, <1>2, <1>3, <1>4, <1>5, <1>6, <1>7 DEF IInv

----------------------------------------------------------------------------

LEMMA NextInv == IInv /\ [Next]_vars => IInv'
<1> SUFFICES ASSUME IInv, [Next]_vars PROVE IInv'
  BY Zenon
<1>1. ASSUME NEW p \in Proc, begin_op(p) \/ end_op(p) PROVE IInv'
  BY Zenon, <1>1, BeginInv, EndInv
<1>2. ASSUME NEW p \in Proc, Commit(p) PROVE IInv'
  BY Zenon, <1>2, WriteLogInv, WriteHeadInv, InstallInv, EraseInv, EndCommitInv DEF Commit
<1>3. ASSUME NEW p \in Proc, NEW b \in Block, bread(p, b) \/ log_write(p, b) \/ brelse(p, b)
      PROVE  IInv'
  BY Zenon, <1>3, BreadInv, LogWriteInv, BrelseInv
<1>4. ASSUME NEW p \in Proc, NEW b \in Block, NEW v \in Val, modify(p, b, v) PROVE IInv'
  BY Zenon, <1>4, ModifyInv
<1>5. ASSUME NEW b \in Block, recycle(b) PROVE IInv'
  BY Zenon, <1>5, RecycleInv
<1>6. CASE Recover
  BY Zenon, <1>6, ReadHeadInv, RecoverInstallInv, RecoverEraseInv DEF Recover
<1>7. CASE Crash
  BY Zenon, <1>7, CrashInv
<1>8. CASE UNCHANGED vars
  <2>0. UNCHANGED <<home, dlog, dhead, lh, outstanding, committing, cache, owner, pins,
                    boot, pc, tail, dirty, touched, calls, crashes>>
    BY ONLY Zenon, <1>8 DEF vars, disk, logv, bufs, ops
  <2>a. TypeOK /\ Threads /\ Headers /\ Buffers /\ Copies
    BY ONLY Zenon, IInv DEF IInv
  <2>1. /\ InOp' = InOp /\ (Installing' <=> Installing) /\ Installed' = Installed
        /\ Recovered' = Recovered
    BY ONLY Zenon, <2>0 DEF InOp, Installing, Installed, Recovered
  <2>2. TypeOK'
    BY ONLY Zenon, <2>0, <2>a DEF TypeOK
  <2>3. Threads'
    <3>1. CommitExclusive'
      BY ONLY Zenon, <2>0, <2>a DEF Threads, CommitExclusive
    <3> QED BY ONLY Zenon, <2>0, <2>1, <2>a, <3>1 DEF Threads
  <2>4. Headers'
    BY ONLY Zenon, <2>0, <2>1, <2>a DEF Headers
  <2>5. Buffers'
    BY ONLY Zenon, <2>0, <2>1, <2>a DEF Buffers
  <2>6. Copies'
    BY ONLY Zenon, <2>0, <2>1, <2>a DEF Copies
  <2> QED BY ONLY Zenon, <2>2, <2>3, <2>4, <2>5, <2>6 DEF IInv
<1> QED BY Zenon, <1>1, <1>2, <1>3, <1>4, <1>5, <1>6, <1>7, <1>8 DEF Next

\* IInv, and with it the type invariant, holds in every reachable state of
\* log.c, for any processes, blocks, log size and number of crashes.
THEOREM Invariance == Spec => []IInv
BY InitInv, NextInv, PTL DEF Spec

\* A bread() never returns stale contents, whatever the cache recycles.
THEOREM LogReadsCurrent == Spec => []ReadsCurrent
<1>1. IInv => ReadsCurrent
  BY ONLY Zenon, ContentsCurrent DEF ReadsCurrent
<1> QED BY <1>1, Invariance, PTL

\* commit() excludes every other process from commit() and from operations.
THEOREM LogCommitExclusive == Spec => []CommitExclusive
<1>1. IInv => CommitExclusive
  BY ONLY Zenon DEF IInv, Threads
<1> QED BY <1>1, Invariance, PTL

\* Outside a commit exactly the logged blocks are pinned, once each.
THEOREM LogPinsBalanced == Spec => []PinsBalanced
<1>1. IInv => PinsBalanced
  <2> SUFFICES ASSUME IInv, boot = "up", ~committing
               PROVE  \A b \in Block : pins[b] = IF b \in Range(lh) THEN 1 ELSE 0
    BY Zenon DEF PinsBalanced
  <2>1. ~Installing
    BY Zenon DEF IInv, Threads, CommitExclusive, CommitLabel, Installing
  <2> QED BY Zenon, <2>1 DEF IInv, Buffers
<1> QED BY <1>1, Invariance, PTL

\* When the last end_op() has returned, all that the operations wrote is at its
\* home location on the disk and the log is empty.
THEOREM LogQuiescentDurable == Spec => []QuiescentDurable
<1>1. IInv => QuiescentDurable
  <2> SUFFICES ASSUME IInv, boot = "up", outstanding = 0, ~committing
               PROVE  /\ home = Recovered /\ Current = Recovered
                      /\ lh = <<>> /\ dhead = <<>>
    BY Zenon DEF QuiescentDurable
  <2>1. ~Installing
    BY Zenon DEF IInv, Threads, CommitExclusive, CommitLabel, Installing
  <2>2. InOp = {}
    <3>1. IsFiniteSet(InOp)
      BY ONLY Zenon, FS_Subset, LogAssumption DEF InOp
    <3> QED BY Zenon, <3>1, FS_EmptySet DEF IInv, Threads
  <2>3. dirty = {} /\ lh = <<>> /\ dhead = <<>>
    BY Zenon, <2>1, <2>2 DEF IInv, Threads, Headers
  <2>4. \A b \in Block : Recovered[b] = home[b]
    BY ONLY Zenon, <2>3, RecoveredEmpty DEF Recovered
  <2>5. home = Recovered
    BY Zenon, <2>4 DEF IInv, TypeOK, Recovered, RecoveredFrom
  <2>6. Range(lh) = {}
    BY ONLY Zenon, <2>3, EmptyRange
  <2>7. Current = Recovered
    BY Zenon, <2>3, <2>6 DEF Current, IInv, Buffers, Recovered, RecoveredFrom
  <2> QED BY ONLY Zenon, <2>3, <2>5, <2>7
<1> QED BY <1>1, Invariance, PTL

----------------------------------------------------------------------------
(* Log implements CrashSafeStore. *)

\* Two steps of the cache that do not change what the blocks hold.
LEMMA CurrentFrame ==
    ASSUME cache' = cache, Recovered' = Recovered
    PROVE  Current' = Current
BY Zenon DEF Current

LEMMA BreadStep ==
    ASSUME IInv, NEW p \in Proc, NEW b \in Block, bread(p, b)
    PROVE  UNCHANGED <<Recovered, Current, InOp>>
<1> USE DEF bread, disk
<1>1. Recovered' = Recovered /\ InOp' = InOp
  BY Zenon DEF Recovered, InOp
<1>2. \A c \in Block : c # b => cache'[c] = cache[c]
  BY Zenon DEF IInv, TypeOK
<1>3. cache'[b] = Current[b] /\ cache'[b] # NoBuf
  BY Zenon, ContentsCurrent, LogAssumption DEF IInv, TypeOK
<1> QED BY ONLY Zenon, <1>1, <1>2, <1>3 DEF Current

LEMMA RecycleStep ==
    ASSUME IInv, NEW b \in Block, recycle(b)
    PROVE  UNCHANGED <<Recovered, Current, InOp>>
<1>a. TypeOK /\ Threads /\ Buffers
  BY Zenon DEF IInv
<1>b. /\ owner[b] = NoProc /\ pins[b] = 0 /\ cache[b] # NoBuf
      /\ cache' = [cache EXCEPT ![b] = NoBuf]
      /\ UNCHANGED <<home, dlog, dhead, pc>>
  BY Zenon DEF recycle, disk
<1>1. Recovered' = Recovered /\ InOp' = InOp
  BY ONLY Zenon, <1>b DEF Recovered, InOp
<1>2. cache'[b] = NoBuf /\ \A c \in Block : c # b => cache'[c] = cache[c]
  BY ONLY Zenon, <1>a, <1>b, b \in Block DEF TypeOK
<1>3. b \notin dirty
  BY ONLY Zenon, <1>a, <1>b, LogAssumption DEF Threads, InOp
<1>4. Installing \/ b \notin Range(lh)
  <2>1. CASE boot = "up"
    BY ONLY <1>a, <1>b, <2>1, b \in Block DEF Buffers
  <2>2. CASE boot # "up"
    <3>1. boot # "read_head"
      BY ONLY Zenon, <1>a, <1>b, b \in Block DEF Buffers
    <3> QED BY ONLY Zenon, <1>a, <2>2, <3>1 DEF TypeOK, Installing
  <2> QED BY ONLY Zenon, <2>1, <2>2
<1>5. cache[b] = Recovered[b]
  BY ONLY Zenon, <1>a, <1>b, <1>3, <1>4, b \in Block DEF Buffers
<1> QED BY ONLY Zenon, <1>1, <1>2, <1>b, <1>5 DEF Current

LEMMA ModifyStep ==
    ASSUME IInv, NEW p \in Proc, NEW b \in Block, NEW v \in Val, modify(p, b, v)
    PROVE  Store!Write(p, b, v)
<1> USE LogAssumption DEF modify, disk
<1>1. Recovered' = Recovered /\ InOp' = InOp /\ p \in InOp
  BY Zenon DEF Recovered, InOp
<1>2. \A c \in Block : cache'[c] = IF c = b THEN v ELSE cache[c]
  BY Zenon DEF IInv, TypeOK
<1>3. Current' = [Current EXCEPT ![b] = v]
  BY Zenon, <1>1, <1>2 DEF Current
<1> QED BY ONLY Zenon, <1>1, <1>3 DEF Store!Write

LEMMA BeginStep ==
    ASSUME IInv, NEW p \in Proc, begin_op(p)
    PROVE  Store!Begin(p) \/ UNCHANGED <<Recovered, Current, InOp>>
<1> USE DEF begin_op, MustWait, disk, bufs
<1>1. Recovered' = Recovered /\ Current' = Current
  BY Zenon, CurrentFrame DEF Recovered
<1>2. pc' = [pc EXCEPT ![p] = "asleep"] \/ pc' = [pc EXCEPT ![p] = "op"]
  BY Zenon
<1>3. InOp' = InOp \/ (p \notin InOp /\ InOp' = InOp \cup {p})
  BY Zenon, <1>2 DEF InOp, IInv, TypeOK
<1> QED BY ONLY Zenon, <1>1, <1>3 DEF Store!Begin

LEMMA EndStep ==
    ASSUME IInv, NEW p \in Proc, end_op(p)
    PROVE  Store!End(p)
<1> USE DEF end_op, disk, bufs
<1>1. Recovered' = Recovered /\ Current' = Current
  BY Zenon, CurrentFrame DEF Recovered
<1>2. p \in InOp /\ ~committing
  BY Zenon, ActiveNoCommit DEF InOp
<1>3. /\ pc'[p] \in {"write_log", "end_commit", "idle"}
      /\ \A q \in Proc : q # p => pc'[q] = pc[q] \/ (pc[q] = "asleep" /\ pc'[q] = "begin_op")
  BY Zenon, <1>2 DEF WakeupLog, IInv, TypeOK
<1>4. InOp' = InOp \ {p}
  BY ONLY Zenon, <1>3 DEF InOp
<1> QED BY ONLY Zenon, <1>1, <1>2, <1>4 DEF Store!End

LEMMA LogWriteStep ==
    ASSUME IInv, NEW p \in Proc, NEW b \in Block, log_write(p, b)
    PROVE  UNCHANGED <<Recovered, Current, InOp>>
<1> USE DEF log_write, Absorbed, bpin, disk
<1>1. Recovered' = Recovered /\ Current' = Current
  BY Zenon, CurrentFrame DEF Recovered
<1>2. pc' = [pc EXCEPT ![p] = "panic"] \/ pc' = pc
  BY Zenon
<1>3. InOp' = InOp
  BY Zenon, <1>2 DEF InOp, IInv, TypeOK
<1> QED BY ONLY Zenon, <1>1, <1>3

LEMMA CommitStep ==
    ASSUME IInv, NEW p \in Proc, Commit(p)
    PROVE  Store!Commit \/ UNCHANGED <<Recovered, Current, InOp>>
<1>1. pc[p] \in CommitLabel
  BY Zenon DEF Commit, write_log, write_head, install_trans, erase, end_commit, CommitLabel
<1>2. InOp = {} /\ InOp' = {}
  <2>1. InOp = {} /\ \A q \in Proc : q # p => pc[q] \in {"idle", "begin_op", "asleep"}
    BY Zenon, <1>1, CommitNoActive
  <2>2. /\ \A q \in Proc : q # p => pc'[q] = pc[q] \/ pc'[q] = "begin_op"
        /\ pc'[p] \notin {"op", "panic"}
    BY Zenon DEF Commit, write_log, write_head, install_trans, erase, end_commit, WakeupLog,
           IInv, TypeOK
  <2> QED BY ONLY Zenon, <2>1, <2>2 DEF InOp
<1>3. CASE write_log(p)
  BY Zenon, <1>2, <1>3, WriteLogInv, CurrentFrame
<1>4. CASE write_head(p)
  <2>1. Recovered' = Current /\ cache' = cache
    BY Zenon, <1>4, WriteHeadInv DEF write_head, bufs
  <2>2. Current' = Current
    BY ONLY Zenon, <2>1 DEF Current
  <2> QED BY ONLY Zenon, <1>2, <2>1, <2>2 DEF Store!Commit
<1>5. CASE install_trans(p)
  BY Zenon, <1>2, <1>5, InstallInv
<1>6. CASE erase(p)
  <2>1. Recovered' = Recovered /\ cache' = cache
    BY Zenon, <1>6, EraseInv DEF erase, EraseLog, bufs
  <2> QED BY ONLY Zenon, <1>2, <2>1, CurrentFrame
<1>7. CASE end_commit(p)
  <2>1. Recovered' = Recovered /\ cache' = cache
    BY ONLY Zenon, <1>7 DEF end_commit, disk, bufs, Recovered
  <2> QED BY ONLY Zenon, <1>2, <2>1, CurrentFrame
<1> QED BY Zenon, <1>3, <1>4, <1>5, <1>6, <1>7 DEF Commit

LEMMA RecoverStep ==
    ASSUME IInv, Recover
    PROVE  UNCHANGED <<Recovered, Current, InOp>>
<1>1. InOp' = InOp
  BY Zenon DEF Recover, read_head, recover_install, recover_erase, InOp
<1>2. CASE read_head
  BY Zenon, <1>1, <1>2, ReadHeadInv
<1>3. CASE recover_install
  BY Zenon, <1>1, <1>3, RecoverInstallInv
<1>4. CASE recover_erase
  <2>1. Recovered' = Recovered /\ cache' = cache
    BY Zenon, <1>4, RecoverEraseInv DEF recover_erase, EraseLog, bufs
  <2> QED BY ONLY Zenon, <1>1, <2>1, CurrentFrame
<1> QED BY Zenon, <1>2, <1>3, <1>4 DEF Recover

LEMMA CrashStep ==
    ASSUME IInv, Crash
    PROVE  Store!Crash
<1>1. InOp' = {}
  BY Zenon DEF Crash, InOp
<1> QED BY Zenon, <1>1, CrashInv DEF Store!Crash

LEMMA StepSimulation == IInv /\ [Next]_vars => [Store!Next]_(Store!vars)
<1> SUFFICES ASSUME IInv, [Next]_vars PROVE [Store!Next]_(Store!vars)
  BY Zenon
<1> USE DEF Store!Next, Store!vars
<1>1. ASSUME NEW p \in Proc, begin_op(p) \/ end_op(p) PROVE [Store!Next]_(Store!vars)
  BY Zenon, <1>1, BeginStep, EndStep
<1>2. ASSUME NEW p \in Proc, Commit(p) PROVE [Store!Next]_(Store!vars)
  BY Zenon, <1>2, CommitStep
<1>3. ASSUME NEW p \in Proc, NEW b \in Block, bread(p, b) \/ log_write(p, b) \/ brelse(p, b)
      PROVE  [Store!Next]_(Store!vars)
  <2>1. CASE brelse(p, b)
    BY ONLY Zenon, <2>1, CurrentFrame DEF brelse, disk, Recovered, InOp
  <2> QED BY Zenon, <1>3, <2>1, BreadStep, LogWriteStep
<1>4. ASSUME NEW p \in Proc, NEW b \in Block, NEW v \in Val, modify(p, b, v)
      PROVE  [Store!Next]_(Store!vars)
  BY Zenon, <1>4, ModifyStep
<1>5. ASSUME NEW b \in Block, recycle(b) PROVE [Store!Next]_(Store!vars)
  BY Zenon, <1>5, RecycleStep
<1>6. CASE Recover
  BY Zenon, <1>6, RecoverStep
<1>7. CASE Crash
  BY Zenon, <1>7, CrashStep
<1>8. CASE UNCHANGED vars
  BY ONLY Zenon, <1>8 DEF vars, disk, logv, bufs, ops, Recovered, Current, InOp
<1> QED BY Zenon, <1>1, <1>2, <1>3, <1>4, <1>5, <1>6, <1>7, <1>8 DEF Next

LEMMA InitSimulation == Init => Store!Init
<1> SUFFICES ASSUME Init PROVE Store!Init
  BY Zenon
<1>a. /\ home \in [Block -> Val] /\ dhead = <<>> /\ cache = [b \in Block |-> NoBuf]
      /\ pc = [p \in Proc |-> "idle"]
  BY Zenon DEF Init
<1>1. InOp = {}
  BY ONLY Zenon, <1>a DEF InOp
<1>2. \A b \in Block : Recovered[b] = home[b]
  BY ONLY Zenon, <1>a, RecoveredEmpty DEF Recovered
<1>3. Recovered \in [Block -> Val]
  BY ONLY Zenon, <1>a, <1>2 DEF Recovered, RecoveredFrom
<1>4. Current = Recovered
  <2>1. \A b \in Block : cache[b] = NoBuf
    BY ONLY Zenon, <1>a
  <2> QED BY ONLY Zenon, <2>1 DEF Current, Recovered, RecoveredFrom
<1> QED BY ONLY Zenon, <1>1, <1>3, <1>4 DEF Store!Init

\* log.c implements a crash-atomic block store: whatever the interleaving of
\* the calls and wherever the power fails, in recovery too, every operation is
\* on the disk wholly or not at all.
THEOREM LogCrashAtomic == Spec => CrashAtomic
<1>1. Spec => []IInv
  BY ONLY Zenon, Invariance
<1>2. Init => Store!Init
  BY ONLY Zenon, InitSimulation
<1>3. IInv /\ [Next]_vars => [Store!Next]_(Store!vars)
  BY ONLY Zenon, StepSimulation
<1> QED BY <1>1, <1>2, <1>3, PTL DEF Spec, CrashAtomic, Store!Spec


----------------------------------------------------------------------------
(* The space of the log. *)

LEMMA ReservedBound ==
    ASSUME NEW S \in SUBSET Proc, NEW R \in SUBSET (S \X (1..MAXOPBLOCKS))
    PROVE  IsFiniteSet(R) /\ Cardinality(R) \in Nat /\ Cardinality(R) <= Cardinality(S) * MAXOPBLOCKS
<1>1. IsFiniteSet(S) /\ IsFiniteSet(1..MAXOPBLOCKS) /\ Cardinality(1..MAXOPBLOCKS) = MAXOPBLOCKS
  BY LogAssumption, FS_Subset, FS_Interval
<1>2. /\ IsFiniteSet(S \X (1..MAXOPBLOCKS))
      /\ Cardinality(S \X (1..MAXOPBLOCKS)) = Cardinality(S) * MAXOPBLOCKS
  BY Zenon, <1>1, FS_Product
<1> QED BY Zenon, <1>2, FS_Subset, FS_CardinalityType

LEMMA RoomBound ==
    ASSUME NEW S \in SUBSET Proc, NEW f
    PROVE  /\ IsFiniteSet(Room(f, S)) /\ Cardinality(Room(f, S)) \in Nat
           /\ Cardinality(Room(f, S)) <= Cardinality(S) * MAXOPBLOCKS
<1>1. Room(f, S) \in SUBSET (S \X (1..MAXOPBLOCKS))
  BY Zenon DEF Room
<1> QED BY Zenon, <1>1, ReservedBound

\* No room is given back that was not reserved.
LEMMA RoomShrinks ==
    ASSUME NEW S \in SUBSET Proc, NEW T \in SUBSET S, NEW f, NEW g,
           \A q \in T : f[q] \in Int /\ g[q] \in Int /\ f[q] <= g[q]
    PROVE  Room(g, T) \in SUBSET Room(f, S) /\ Cardinality(Room(g, T)) <= Cardinality(Room(f, S))
<1>1. \A q \in T, i \in 1..MAXOPBLOCKS : i > g[q] => i > f[q]
  BY LogAssumption
<1>2. Room(g, T) \in SUBSET Room(f, S)
  BY Zenon, <1>1 DEF Room
<1> QED BY Zenon, <1>2, RoomBound, FS_Subset

\* An operation that has not used its reservation up has room, and takes of it.
LEMMA RoomLeft ==
    ASSUME NEW S \in SUBSET Proc, NEW p \in S, NEW f, f[p] \in Nat, f[p] < MAXOPBLOCKS
    PROVE  Cardinality(Room(f, S)) >= 1 /\ <<p, f[p] + 1>> \in Room(f, S)
<1>1. f[p] + 1 \in 1..MAXOPBLOCKS /\ f[p] + 1 > f[p]
  BY LogAssumption
<1>2. <<p, f[p] + 1>> \in Room(f, S)
  BY <1>1 DEF Room
<1>3. IsFiniteSet(Room(f, S)) /\ Cardinality(Room(f, S)) \in Nat
  BY Zenon, RoomBound
<1> QED BY <1>2, <1>3, FS_EmptySet

LEMMA RoomUsed ==
    ASSUME NEW S \in SUBSET Proc, NEW p \in S, NEW f, f[p] \in Nat, f[p] < MAXOPBLOCKS,
           NEW g, \A q \in S : f[q] \in Int /\ g[q] \in Int /\ f[q] <= g[q], g[p] > f[p]
    PROVE  Cardinality(Room(g, S)) + 1 <= Cardinality(Room(f, S))
<1> DEFINE s == <<p, f[p] + 1>>
<1>1. s \in Room(f, S)
  BY Zenon, RoomLeft
<1>2. ~(f[p] + 1 > g[p])
  OBVIOUS
<1>3. s \notin Room(g, S)
  BY Zenon, <1>2 DEF Room
<1>4. S \in SUBSET S
  BY Zenon
<1>5. Room(g, S) \in SUBSET Room(f, S)
  BY Zenon, <1>4, RoomShrinks
<1>6. /\ IsFiniteSet(Room(f, S)) /\ Cardinality(Room(f, S)) \in Nat
      /\ IsFiniteSet(Room(g, S)) /\ Cardinality(Room(g, S)) \in Nat
  BY Zenon, RoomBound
<1> HIDE DEF s
<1>7. Room(g, S) \in SUBSET (Room(f, S) \ {s})
  BY Zenon, <1>3, <1>5
<1>8. IsFiniteSet(Room(f, S) \ {s}) /\ Cardinality(Room(f, S) \ {s}) = Cardinality(Room(f, S)) - 1
  BY ONLY Zenon, <1>1, <1>6, FS_RemoveElement
<1>9. Cardinality(Room(g, S)) <= Cardinality(Room(f, S) \ {s})
  BY ONLY Zenon, <1>7, <1>8, FS_Subset
<1> QED BY ONLY <1>6, <1>8, <1>9

LEMMA Overlap ==
    ASSUME NEW T, NEW R, IsFiniteSet(T)
    PROVE  /\ IsFiniteSet(T \cap R) /\ Cardinality(T \cap R) \in Nat /\ Cardinality(T) \in Nat
           /\ Cardinality(T \cap R) <= Cardinality(T)
<1>1. T \cap R \in SUBSET T
  BY Zenon
<1> QED BY Zenon, <1>1, FS_Subset, FS_CardinalityType

\* What an operation has used is within its bounds.
LEMMA UsedBound ==
    ASSUME Written, NEW p \in Proc
    PROVE  /\ Distinct[p] \in Nat /\ Distinct[p] <= OpBlocks
           /\ Called[p] \in Nat /\ Called[p] = calls[p] - Cardinality(Changed(p))
           /\ IsFiniteSet(Changed(p)) /\ Cardinality(Changed(p)) \in Nat
<1>1. /\ IsFiniteSet(touched[p]) /\ Cardinality(touched[p]) <= OpBlocks
      /\ Called[p] \in Nat /\ IsFiniteSet(dirty)
  BY Zenon DEF Written
<1>2. Distinct[p] \in Nat /\ Cardinality(touched[p]) \in Nat /\ Distinct[p] <= Cardinality(touched[p])
  BY Zenon, <1>1, Overlap DEF Distinct
<1>3. Distinct[p] <= OpBlocks
  BY <1>1, <1>2, LogAssumption
<1>4. Changed(p) \in SUBSET dirty
  BY Zenon DEF Changed
<1>5. Called[p] = calls[p] - Cardinality(Changed(p))
  BY Zenon DEF Called
<1> QED BY Zenon, <1>1, <1>2, <1>3, <1>4, <1>5, FS_Subset, FS_CardinalityType

\* A block in the log stays there until the commit: the operations in progress have used
\* no less than before.
LEMMA DistinctGrows ==
    ASSUME Written, Written', NEW q \in Proc, touched[q] \cap Range(lh) \subseteq touched'[q] \cap Range(lh')
    PROVE  Distinct[q] \in Int /\ Distinct'[q] \in Int /\ Distinct[q] <= Distinct'[q]
<1>1. IsFiniteSet(touched'[q]) /\ IsFiniteSet(touched[q])
  BY Zenon DEF Written
<1>2. /\ IsFiniteSet(touched'[q] \cap Range(lh')) /\ Cardinality(touched'[q] \cap Range(lh')) \in Nat
      /\ Cardinality(touched[q] \cap Range(lh)) \in Nat
  BY Zenon, <1>1, Overlap
<1>3. touched[q] \cap Range(lh) \in SUBSET (touched'[q] \cap Range(lh'))
  BY Zenon
<1>4. Cardinality(touched[q] \cap Range(lh)) <= Cardinality(touched'[q] \cap Range(lh'))
  BY Zenon, <1>2, <1>3, FS_Subset
<1>5. /\ Distinct'[q] = Cardinality(touched'[q] \cap Range(lh'))
      /\ Distinct[q] = Cardinality(touched[q] \cap Range(lh))
  BY Zenon DEF Distinct
<1> QED BY <1>2, <1>4, <1>5

\* A step that logs nothing, in which no operation begins and none has used less.
LEMMA SpaceShrinks ==
    ASSUME IInv, Space, Written', NoPanic', lh' = lh, InOp' \subseteq InOp,
           \A q \in InOp' : touched[q] \subseteq touched'[q] /\ Called[q] <= Called'[q]
    PROVE  Space'
<1>1. Written /\ InOp \in SUBSET Proc /\ InOp' \in SUBSET InOp
  BY Zenon DEF Space, InOp
<1>2. \A q \in InOp' : Distinct[q] \in Int /\ Distinct'[q] \in Int /\ Distinct[q] <= Distinct'[q]
  BY Zenon, <1>1, DistinctGrows
<1>3. \A q \in InOp' : Called[q] \in Int /\ Called'[q] \in Int /\ Called[q] <= Called'[q]
  <2>1. \A q \in InOp' : Called[q] \in Nat /\ Called'[q] \in Nat
    BY Zenon, <1>1 DEF Written
  <2> QED BY <2>1
<1>4. /\ Cardinality(Room(Distinct', InOp')) <= Cardinality(Room(Distinct, InOp))
      /\ Cardinality(Room(Called', InOp')) <= Cardinality(Room(Called, InOp))
  BY Zenon, <1>1, <1>2, <1>3, RoomShrinks
<1>5. /\ Cardinality(Room(Distinct', InOp')) \in Nat /\ Cardinality(Room(Distinct, InOp)) \in Nat
      /\ Cardinality(Room(Called', InOp')) \in Nat /\ Cardinality(Room(Called, InOp)) \in Nat
  BY Zenon, <1>1, RoomBound
<1>6. Len(lh) \in Nat /\ Len(lh') = Len(lh) /\ LOGBLOCKS \in Nat
  BY LogAssumption DEF IInv, TypeOK
<1>7. FewBlocks => Fits(Distinct)'
  <2>1. FewBlocks => Len(lh) + Cardinality(Room(Distinct, InOp)) <= LOGBLOCKS
    BY Zenon DEF Space, Fits
  <2>2. FewBlocks => Len(lh') + Cardinality(Room(Distinct', InOp')) <= LOGBLOCKS
    BY ONLY <1>4, <1>5, <1>6, <2>1
  <2> QED BY Zenon, <2>2 DEF Fits
<1>8. FewCalls => Fits(Called)'
  <2>1. FewCalls => Len(lh) + Cardinality(Room(Called, InOp)) <= LOGBLOCKS
    BY Zenon DEF Space, Fits
  <2>2. FewCalls => Len(lh') + Cardinality(Room(Called', InOp')) <= LOGBLOCKS
    BY ONLY <1>4, <1>5, <1>6, <2>1
  <2> QED BY Zenon, <2>2 DEF Fits
<1> QED BY Zenon, <1>7, <1>8 DEF Space, FewBlocks, FewCalls

\* What an operation has called for is a matter of its own buffers.
LEMMA CalledKept ==
    ASSUME NEW q \in Proc, calls'[q] = calls[q], {c \in dirty' : owner'[c] = q} = {c \in dirty : owner[c] = q}
    PROVE  Called'[q] = Called[q]
<1>1. Called'[q] = calls'[q] - Cardinality({c \in dirty' : owner'[c] = q})
  BY Zenon DEF Called, Changed
<1>2. Called[q] = calls[q] - Cardinality({c \in dirty : owner[c] = q})
  BY Zenon DEF Called, Changed
<1> QED BY Zenon, <1>1, <1>2

\* A step that changes no block and neither begins nor ends an operation.
LEMMA SpaceKept ==
    ASSUME IInv, Space, UNCHANGED <<lh, dirty, touched, calls, pc>>, \A b \in dirty : owner'[b] = owner[b]
    PROVE  Space'
<1>1. \A q \in Proc : Called'[q] = Called[q]
  <2>1. \A q : {c \in dirty' : owner'[c] = q} = {c \in dirty : owner[c] = q}
    BY Zenon
  <2> QED BY Zenon, <2>1, CalledKept
<1>2. \A q \in Proc : Called[q] \in Nat
  BY Zenon DEF Space, Written
<1>3. Written' /\ NoPanic' /\ InOp' = InOp
  BY Zenon, <1>1 DEF Space, Written, NoPanic, InOp
<1>4. \A q \in InOp' : touched[q] \subseteq touched'[q] /\ Called[q] <= Called'[q]
  <2>1. \A q \in Proc : Called[q] <= Called'[q]
    BY <1>1, <1>2
  <2> QED BY Zenon, <2>1 DEF InOp
<1> QED BY Zenon, <1>3, <1>4, SpaceShrinks

\* With no operation in progress nothing is reserved.
LEMMA SpaceQuiet ==
    ASSUME IInv', InOp' = {},
           \A p \in Proc : /\ IsFiniteSet(touched'[p]) /\ Cardinality(touched'[p]) <= OpBlocks
                           /\ calls'[p] <= OpCalls
    PROVE  Space'
<1>1. /\ Room(Distinct', InOp') = {} /\ Room(Called', InOp') = {} /\ dirty' = {} /\ NoPanic'
      /\ \A p \in Proc : calls'[p] \in Nat
  BY Zenon DEF Room, IInv, Threads, InOp, NoPanic, TypeOK
<1>2. Cardinality({}) = 0 /\ IsFiniteSet({})
  BY Zenon, FS_EmptySet
<1>3. ASSUME NEW p \in Proc PROVE Called'[p] \in Nat
  <2>1. {c \in dirty' : owner'[c] = p} = {}
    BY Zenon, <1>1
  <2>2. Called'[p] = calls'[p] - 0
    BY Zenon, <1>2, <2>1 DEF Called, Changed
  <2> QED BY <1>1, <2>2
<1>4. Written'
  BY Zenon, <1>1, <1>2, <1>3 DEF Written
<1>5. Len(lh') \in Nat /\ Len(lh') <= LOGBLOCKS /\ Len(lh') + 0 <= LOGBLOCKS
  BY LogAssumption DEF IInv, TypeOK, Headers
<1>6. Fits(Distinct)' /\ Fits(Called)'
  BY Zenon, <1>1, <1>2, <1>5 DEF Fits
<1> QED BY Zenon, <1>1, <1>4, <1>6 DEF Space

\* A block counts for its operation as soon as the caller has changed it.
LEMMA ModifySpace ==
    ASSUME IInv, Space, NEW p \in Proc, NEW b \in Block, NEW v \in Val, modify(p, b, v)
    PROVE  Space'
<1>1. /\ dirty' = dirty \cup {b} /\ b \notin dirty /\ owner[b] = p /\ UNCHANGED <<lh, owner, pc>>
      /\ touched' = [touched EXCEPT ![p] = @ \cup {b}] /\ calls' = [calls EXCEPT ![p] = @ + 1]
      /\ Cardinality(touched[p] \cup {b}) <= OpBlocks /\ calls[p] < OpCalls
  BY Zenon DEF modify, logv
<1>2. touched \in [Proc -> SUBSET Block] /\ calls \in [Proc -> Nat] /\ Written
  BY Zenon DEF IInv, TypeOK, Space
<1>3. /\ touched'[p] = touched[p] \cup {b} /\ \A q \in Proc : q # p => touched'[q] = touched[q]
      /\ calls'[p] = calls[p] + 1 /\ \A q \in Proc : q # p => calls'[q] = calls[q]
  BY Zenon, <1>1, <1>2
<1>4. IsFiniteSet(touched[p] \cup {b}) /\ IsFiniteSet(dirty')
  BY Zenon, <1>1, <1>2, FS_AddElement DEF Written
<1>5. \A q \in Proc : IsFiniteSet(touched'[q]) /\ Cardinality(touched'[q]) <= OpBlocks
  BY Zenon, <1>1, <1>2, <1>3, <1>4 DEF Written
<1>6. \A c \in dirty' : c \in touched'[owner'[c]]
  <2>1. \A c \in dirty : owner[c] \in Proc
    BY Zenon DEF IInv, Threads, InOp
  <2>2. \A c \in dirty : c \in touched[owner[c]]
    BY Zenon, <1>2 DEF Written
  <2>3. \A q \in Proc : touched[q] \subseteq touched'[q]
    BY Zenon, <1>3
  <2>4. \A c \in dirty : c \in touched'[owner[c]]
    BY Zenon, <2>1, <2>2, <2>3
  <2>5. b \in touched'[owner[b]]
    BY Zenon, <1>1, <1>3
  <2> QED BY Zenon, <1>1, <2>4, <2>5
<1>7. ASSUME NEW q \in Proc PROVE Called'[q] = Called[q] /\ Called[q] \in Nat /\ calls'[q] <= OpCalls
  <2>1. CASE q = p
    <3> DEFINE D == {c \in dirty : owner[c] = q}
    <3>1. {c \in dirty' : owner'[c] = q} = D \cup {b}
      BY Zenon, <1>1, <2>1
    <3>2. D = Changed(q) /\ b \notin D
      BY Zenon, <1>1 DEF Changed
    <3>3. Called'[q] = calls'[q] - Cardinality(D \cup {b})
      BY Zenon, <3>1 DEF Called, Changed
    <3> HIDE DEF D
    <3>4. /\ Called[q] \in Nat /\ Called[q] = calls[q] - Cardinality(D)
          /\ IsFiniteSet(D) /\ Cardinality(D) \in Nat
      BY Zenon, <1>2, <3>2, UsedBound
    <3>5. Cardinality(D \cup {b}) = Cardinality(D) + 1
      BY ONLY Zenon, <3>2, <3>4, FS_AddElement
    <3>6. calls'[q] = calls[q] + 1 /\ calls[q] \in Nat /\ calls[q] < OpCalls
      BY Zenon, <1>1, <1>2, <1>3, <2>1
    <3> QED BY ONLY <3>3, <3>4, <3>5, <3>6, LogAssumption
  <2>2. CASE q # p
    <3>1. {c \in dirty' : owner'[c] = q} = {c \in dirty : owner[c] = q} /\ calls'[q] = calls[q]
      BY Zenon, <1>1, <1>3, <2>2
    <3> QED BY Zenon, <1>2, <3>1, CalledKept DEF Written
  <2> QED BY Zenon, <2>1, <2>2
<1>8. Written' /\ NoPanic' /\ InOp' = InOp
  BY Zenon, <1>1, <1>4, <1>5, <1>6, <1>7 DEF Space, Written, NoPanic, InOp
<1>9. \A q \in InOp' : touched[q] \subseteq touched'[q] /\ Called[q] <= Called'[q]
  <2>1. \A q \in Proc : Called[q] <= Called'[q]
    BY <1>7
  <2> QED BY Zenon, <1>3, <1>8, <2>1 DEF InOp
<1> QED BY Zenon, <1>1, <1>8, <1>9, SpaceShrinks

\* The call that is about to log b has not been counted yet.
LEMMA CallOwed ==
    ASSUME Written, NEW p \in Proc, calls[p] \in Nat, NEW b \in dirty, owner[b] = p
    PROVE  Called[p] \in Nat /\ Called[p] < OpCalls
<1>1. b \in Changed(p) /\ calls[p] <= OpCalls
  BY Zenon DEF Changed, Written
<1>2. /\ Called[p] \in Nat /\ Called[p] = calls[p] - Cardinality(Changed(p))
      /\ IsFiniteSet(Changed(p)) /\ Cardinality(Changed(p)) \in Nat
  BY Zenon, UsedBound
<1>3. Cardinality(Changed(p)) >= 1
  BY <1>1, <1>2, FS_EmptySet
<1> QED BY <1>1, <1>2, <1>3, LogAssumption

\* The call that logs b is one of those that the operation owed.
LEMMA CallMade ==
    ASSUME Written, NEW p \in Proc, calls[p] \in Nat, NEW b \in dirty, owner[b] = p,
           dirty' = dirty \ {b}, UNCHANGED <<owner, calls>>
    PROVE  /\ Called[p] \in Nat /\ Called'[p] = Called[p] + 1
           /\ \A q \in Proc : q # p => Called'[q] = Called[q]
<1> DEFINE D == {c \in dirty : owner[c] = p}
<1>1. {c \in dirty' : owner'[c] = p} = D \ {b} /\ D = Changed(p) /\ b \in D
  BY Zenon DEF Changed
<1>2. Called'[p] = calls[p] - Cardinality(D \ {b})
  BY Zenon, <1>1 DEF Called, Changed
<1> HIDE DEF D
<1>3. /\ Called[p] \in Nat /\ Called[p] = calls[p] - Cardinality(D)
      /\ IsFiniteSet(D) /\ Cardinality(D) \in Nat
  BY Zenon, <1>1, UsedBound
<1>4. Cardinality(D \ {b}) = Cardinality(D) - 1 /\ Cardinality(D \ {b}) \in Nat
  <2>1. IsFiniteSet(D \ {b}) /\ Cardinality(D \ {b}) = Cardinality(D) - 1
    BY ONLY Zenon, <1>1, <1>3, FS_RemoveElement
  <2> QED BY ONLY Zenon, <2>1, FS_CardinalityType
<1>5. \A q \in Proc : q # p => Called'[q] = Called[q]
  <2>1. \A q \in Proc : q # p => {c \in dirty' : owner'[c] = q} = {c \in dirty : owner[c] = q}
    BY Zenon
  <2> QED BY Zenon, <2>1, CalledKept
<1>6. Called'[p] = Called[p] + 1
  BY <1>2, <1>3, <1>4
<1> QED BY Zenon, <1>3, <1>5, <1>6

\* log.c:215-231: an operation that keeps to its bound finds room in the log, also where
\* log_write() will absorb the block.
LEMMA LogWriteSpace ==
    ASSUME FewBlocks \/ FewCalls, IInv, Space, NEW p \in Proc, NEW b \in Block, log_write(p, b)
    PROVE  Space'
<1>1. pc[p] = "op" /\ owner[b] = p /\ b \in dirty /\ UNCHANGED <<owner, touched, calls, outstanding>>
  BY Zenon DEF log_write
<1>2. p \in InOp /\ outstanding = Cardinality(InOp) /\ InOp \in SUBSET Proc /\ Written /\ Len(lh) \in Nat
      /\ lh \in Seq(Block) /\ calls[p] \in Nat
  BY <1>1 DEF IInv, TypeOK, Threads, InOp, Space
<1>3. outstanding >= 1
  <2>1. IsFiniteSet(InOp) /\ Cardinality(InOp) \in Nat
    BY Zenon, <1>2, LogAssumption, FS_Subset, FS_CardinalityType
  <2> QED BY <1>2, <2>1, FS_EmptySet
<1>4. /\ FewBlocks => Distinct[p] \in Nat /\ Distinct[p] < MAXOPBLOCKS
      /\ FewBlocks => Len(lh) + Cardinality(Room(Distinct, InOp)) <= LOGBLOCKS
  <2>1. Distinct[p] \in Nat /\ Distinct[p] <= OpBlocks
    BY Zenon, <1>2, UsedBound
  <2>2. FewBlocks => Distinct[p] < MAXOPBLOCKS
    BY <2>1, LogAssumption DEF FewBlocks
  <2> QED BY Zenon, <2>1, <2>2 DEF Space, Fits
<1>5. /\ FewCalls => Called[p] \in Nat /\ Called[p] < MAXOPBLOCKS
      /\ FewCalls => Len(lh) + Cardinality(Room(Called, InOp)) <= LOGBLOCKS
  <2>1. Called[p] \in Nat /\ Called[p] < OpCalls
    BY Zenon, <1>1, <1>2, CallOwed
  <2>2. FewCalls => Called[p] < MAXOPBLOCKS
    BY <2>1, LogAssumption DEF FewCalls
  <2> QED BY Zenon, <2>1, <2>2 DEF Space, Fits
<1>6. /\ Cardinality(Room(Distinct, InOp)) \in Nat /\ Cardinality(Room(Called, InOp)) \in Nat
      /\ FewBlocks => Cardinality(Room(Distinct, InOp)) >= 1
      /\ FewCalls => Cardinality(Room(Called, InOp)) >= 1
  BY Zenon, <1>2, <1>4, <1>5, RoomLeft, RoomBound
<1>7. Len(lh) < LOGBLOCKS
  BY <1>2, <1>4, <1>5, <1>6, LogAssumption
<1>8. /\ dirty' = dirty \ {b} /\ UNCHANGED pc
      /\ lh' = lh \/ (b \notin Range(lh) /\ lh' = Append(lh, b))
  BY <1>3, <1>7, <1>2, LogAssumption DEF log_write, IInv, TypeOK, Absorbed
<1>9. /\ Called[p] \in Nat /\ Called'[p] = Called[p] + 1
      /\ \A q \in Proc : q # p => Called'[q] = Called[q]
  BY Zenon, <1>1, <1>2, <1>8, CallMade
<1>10. \A q \in Proc : Called[q] \in Nat /\ Called'[q] \in Nat /\ Called[q] <= Called'[q]
  <2>1. \A q \in Proc : Called[q] \in Nat
    BY Zenon, <1>2 DEF Written
  <2> QED BY <1>9, <2>1
<1>11. Written' /\ NoPanic' /\ InOp' = InOp
  <2>1. IsFiniteSet(dirty')
    BY Zenon, <1>2, <1>8, FS_RemoveElement DEF Written
  <2> QED BY Zenon, <1>1, <1>2, <1>8, <1>10, <2>1 DEF Space, Written, NoPanic, InOp
<1>12. CASE lh' = lh
  BY Zenon, <1>1, <1>2, <1>10, <1>11, <1>12, SpaceShrinks
<1>13. CASE b \notin Range(lh) /\ lh' = Append(lh, b)
  <2>1. Range(lh') = Range(lh) \cup {b} /\ Len(lh') = Len(lh) + 1
    BY Zenon, <1>2, <1>13, AppendFresh DEF IInv, Headers
  <2>2. \A q \in Proc : Distinct[q] \in Int /\ Distinct'[q] \in Int /\ Distinct[q] <= Distinct'[q]
    <3>1. \A q \in Proc : touched[q] \cap Range(lh) \subseteq touched'[q] \cap Range(lh')
      BY Zenon, <1>1, <2>1
    <3> QED BY Zenon, <1>2, <1>11, <3>1, DistinctGrows
  <2>3. Distinct'[p] > Distinct[p]
    <3>1. b \in touched[p] /\ b \notin touched[p] \cap Range(lh) /\ IsFiniteSet(touched[p] \cap Range(lh))
      BY Zenon, <1>1, <1>2, <1>13, Overlap DEF Written
    <3>2. touched'[p] \cap Range(lh') = (touched[p] \cap Range(lh)) \cup {b}
      BY Zenon, <1>1, <2>1, <3>1
    <3>3. Cardinality((touched[p] \cap Range(lh)) \cup {b}) = Cardinality(touched[p] \cap Range(lh)) + 1
      BY Zenon, <3>1, FS_AddElement
    <3>4. Distinct'[p] = Distinct[p] + 1
      BY Zenon, <3>2, <3>3 DEF Distinct
    <3> QED BY <2>2, <3>4
  <2>4. \A q \in Proc : Called[q] \in Int /\ Called'[q] \in Int /\ Called[q] <= Called'[q]
    BY <1>10
  <2>5. Called'[p] > Called[p]
    BY <1>9
  <2>6. /\ \A q \in InOp : Distinct[q] \in Int /\ Distinct'[q] \in Int /\ Distinct[q] <= Distinct'[q]
        /\ \A q \in InOp : Called[q] \in Int /\ Called'[q] \in Int /\ Called[q] <= Called'[q]
    BY Zenon, <1>2, <2>2, <2>4
  <2>7. /\ Cardinality(Room(Distinct', InOp')) \in Nat /\ Cardinality(Room(Called', InOp')) \in Nat
        /\ FewBlocks => Cardinality(Room(Distinct', InOp')) + 1 <= Cardinality(Room(Distinct, InOp))
        /\ FewCalls => Cardinality(Room(Called', InOp')) + 1 <= Cardinality(Room(Called, InOp))
    BY Zenon, <1>2, <1>4, <1>5, <1>11, <2>3, <2>5, <2>6, RoomUsed, RoomBound
  <2>8. FewBlocks => Len(lh') + Cardinality(Room(Distinct', InOp')) <= LOGBLOCKS
    BY ONLY <1>2, <1>4, <1>6, <2>1, <2>7, LogAssumption
  <2>9. FewCalls => Len(lh') + Cardinality(Room(Called', InOp')) <= LOGBLOCKS
    BY ONLY <1>2, <1>5, <1>6, <2>1, <2>7, LogAssumption
  <2>10. (FewBlocks => Fits(Distinct)') /\ (FewCalls => Fits(Called)')
    BY Zenon, <2>8, <2>9 DEF Fits
  <2> QED BY Zenon, <1>11, <2>10 DEF Space, FewBlocks, FewCalls
<1> QED BY Zenon, <1>8, <1>12, <1>13

\* log.c:126-141: begin_op() reserves MAXOPBLOCKS for every operation in progress.
LEMMA BeginSpace ==
    ASSUME IInv, IInv', Space, NEW p \in Proc, begin_op(p)
    PROVE  Space'
<1>1. UNCHANGED <<lh, dirty, touched, calls, owner>>
  BY Zenon DEF begin_op, bufs, ops
<1>2. \A q \in Proc : Called'[q] = Called[q] /\ Called[q] \in Nat
  BY Zenon, <1>1, CalledKept DEF Space, Written
<1>3. Written'
  BY Zenon, <1>1, <1>2 DEF Space, Written
<1>4. CASE pc' = [pc EXCEPT ![p] = "asleep"]
  <2>1. InOp' = InOp /\ NoPanic'
    BY Zenon, <1>4 DEF begin_op, InOp, NoPanic, IInv, TypeOK, Space
  <2>2. \A q \in Proc : Called[q] <= Called'[q]
    BY <1>2
  <2>3. \A q \in InOp' : touched[q] \subseteq touched'[q] /\ Called[q] <= Called'[q]
    BY Zenon, <1>1, <2>2 DEF InOp
  <2> QED BY Zenon, <1>1, <1>3, <2>1, <2>3, SpaceShrinks
<1>5. CASE ~MustWait /\ outstanding' = outstanding + 1 /\ pc' = [pc EXCEPT ![p] = "op"]
  <2>1. NoPanic' /\ InOp' \in SUBSET Proc
    BY Zenon, <1>5 DEF InOp, NoPanic, IInv, TypeOK, Space
  <2>2. outstanding' = Cardinality(InOp') /\ Len(lh) \in Nat /\ outstanding \in Int
    BY DEF IInv, Threads, TypeOK
  <2>3. Len(lh) + (outstanding + 1) * MAXOPBLOCKS <= LOGBLOCKS
    BY <1>5, <2>2, LogAssumption DEF MustWait, MightExhaust
  <2>4. \A f : Len(lh') + Cardinality(Room(f, InOp')) <= LOGBLOCKS
    <3>1. PICK m \in Int : m = (outstanding + 1) * MAXOPBLOCKS
      BY <2>2, LogAssumption
    <3>2. Len(lh) + m <= LOGBLOCKS /\ \A f : Cardinality(Room(f, InOp')) \in Nat /\ Cardinality(Room(f, InOp')) <= m
      BY Zenon, <1>5, <2>1, <2>2, <2>3, <3>1, RoomBound
    <3> QED BY <1>1, <2>2, <3>2, LogAssumption
  <2>5. Fits(Distinct)' /\ Fits(Called)'
    BY Zenon, <2>4 DEF Fits
  <2> QED BY Zenon, <1>3, <2>1, <2>5 DEF Space
<1> QED BY Zenon, <1>4, <1>5 DEF begin_op

\* log.c:144-168: end_op() gives back what the operation has not used.
LEMMA EndSpace ==
    ASSUME IInv, Space, NEW p \in Proc, end_op(p)
    PROVE  Space'
<1>1. /\ pc[p] = "op" /\ UNCHANGED <<lh, dirty, owner>> /\ touched' = [touched EXCEPT ![p] = {}]
      /\ calls' = [calls EXCEPT ![p] = 0]
      /\ \A b \in Block : owner[b] # p
  BY Zenon DEF end_op, bufs
<1>2. p \in InOp /\ ~committing
  <2>1. p \in InOp
    BY Zenon, <1>1 DEF InOp
  <2> QED BY Zenon, <2>1, ActiveNoCommit
<1>3. InOp' \subseteq InOp \ {p} /\ NoPanic'
  <2>1. pc'[p] \notin {"op", "panic"}
    BY Zenon, <1>2 DEF end_op, WakeupLog, IInv, TypeOK
  <2>2. \A q \in Proc \ {p} : pc'[q] = pc[q] \/ pc'[q] = "begin_op"
    BY Zenon, <1>2 DEF end_op, WakeupLog, IInv, TypeOK
  <2> QED BY Zenon, <2>1, <2>2 DEF InOp, NoPanic, Space
<1>4. /\ touched'[p] = {} /\ \A q \in Proc : q # p => touched'[q] = touched[q]
      /\ calls'[p] = 0 /\ \A q \in Proc : q # p => calls'[q] = calls[q]
  BY Zenon, <1>1 DEF IInv, TypeOK
<1>5. Cardinality({}) = 0 /\ IsFiniteSet({}) /\ 0 <= OpBlocks /\ 0 <= OpCalls
  BY FS_EmptySet, LogAssumption
<1>6. /\ Called'[p] \in Nat
      /\ \A q \in Proc : q # p => Called'[q] = Called[q] /\ Called[q] \in Nat
  <2>1. {c \in dirty' : owner'[c] = p} = {}
    BY Zenon, <1>1 DEF IInv, TypeOK
  <2>2. Called'[p] = 0 - 0
    BY Zenon, <1>4, <1>5, <2>1 DEF Called, Changed
  <2>3. \A q \in Proc : q # p => Called'[q] = Called[q] /\ Called[q] \in Nat
    BY Zenon, <1>1, <1>4, CalledKept DEF Space, Written
  <2> QED BY <2>2, <2>3
<1>7. Written'
  <2>1. \A q \in Proc : /\ IsFiniteSet(touched'[q]) /\ Cardinality(touched'[q]) <= OpBlocks
                        /\ calls'[q] <= OpCalls
    BY Zenon, <1>4, <1>5 DEF Space, Written
  <2>2. \A c \in dirty : owner[c] # p /\ owner[c] \in Proc
    BY Zenon, <1>1 DEF IInv, TypeOK, Threads, InOp
  <2>3. \A c \in dirty : c \in touched'[owner[c]]
    BY Zenon, <1>4, <2>2 DEF Space, Written
  <2>4. \A q \in Proc : Called'[q] \in Nat
    BY Zenon, <1>6
  <2> QED BY Zenon, <1>1, <2>1, <2>3, <2>4 DEF Space, Written
<1>8. \A q \in InOp' : touched[q] \subseteq touched'[q] /\ Called[q] <= Called'[q]
  <2>1. \A q \in Proc : q # p => Called[q] <= Called'[q]
    BY <1>6
  <2> QED BY Zenon, <1>3, <1>4, <2>1 DEF InOp
<1>9. InOp' \subseteq InOp
  BY Zenon, <1>3
<1> QED BY Zenon, <1>1, <1>3, <1>7, <1>8, <1>9, SpaceShrinks

\* commit(), a crash and the recovery after it, and what else happens with no operation in
\* progress.
LEMMA QuietSpace ==
    ASSUME IInv, IInv', Space, (\E p \in Proc : Commit(p)) \/ Recover \/ Crash
    PROVE  Space'
<1>1. ASSUME NEW p \in Proc, Commit(p) PROVE InOp' = {} /\ UNCHANGED <<touched, calls>>
  <2>1. pc[p] \in CommitLabel
    BY Zenon, <1>1 DEF Commit, CommitLabel, write_log, write_head, install_trans, erase, end_commit
  <2>2. InOp = {}
    BY Zenon, <2>1, CommitNoActive
  <2>3. \A q \in Proc : pc'[q] \notin {"op", "panic"}
    BY ZenonT(60), <1>1, <2>2 DEF Commit, write_log, write_head, install_trans, erase, end_commit, WakeupLog,
                      InOp, IInv, TypeOK
  <2>4. UNCHANGED <<touched, calls>>
    BY Zenon, <1>1 DEF Commit, write_log, write_head, install_trans, erase, end_commit, InstallBlock,
                EraseLog, ops
  <2> QED BY Zenon, <2>3, <2>4 DEF InOp
<1>2. CASE Recover
  <2>1. boot # "up" /\ UNCHANGED <<pc, touched, calls>>
    BY Zenon, <1>2 DEF Recover, read_head, recover_install, recover_erase, InstallBlock, EraseLog, ops
  <2>2. InOp' = {}
    BY Zenon, <2>1 DEF IInv, Threads, InOp
  <2> QED BY Zenon, <2>1, <2>2, SpaceQuiet DEF Space, Written
<1>3. CASE Crash
  <2>1. InOp' = {} /\ \A p \in Proc : touched'[p] = {} /\ calls'[p] = 0
    BY Zenon, <1>3 DEF Crash, InOp
  <2>2. IsFiniteSet({}) /\ Cardinality({}) <= OpBlocks /\ 0 <= OpCalls
    BY FS_EmptySet, LogAssumption
  <2> QED BY Zenon, <2>1, <2>2, SpaceQuiet
<1>4. ASSUME NEW p \in Proc, Commit(p) PROVE Space'
  BY Zenon, <1>1, <1>4, SpaceQuiet DEF Space, Written
<1> QED BY Zenon, <1>2, <1>3, <1>4

LEMMA SpaceInv ==
    ASSUME FewBlocks \/ FewCalls
    PROVE  (Init => Space) /\ (IInv /\ IInv' /\ Space /\ [Next]_vars => Space')
<1>1. ASSUME Init PROVE Space
  <2>1. /\ InOp = {} /\ NoPanic /\ Room(Distinct, InOp) = {} /\ Room(Called, InOp) = {} /\ dirty = {}
        /\ Len(lh) = 0 /\ \A p \in Proc : touched[p] = {} /\ calls[p] = 0 /\ Changed(p) = {}
    BY Zenon, <1>1 DEF Init, InOp, NoPanic, Room, Changed
  <2>2. /\ IsFiniteSet({}) /\ Cardinality({}) = 0 /\ Cardinality({}) <= OpBlocks /\ 0 <= OpCalls
        /\ 0 + 0 <= LOGBLOCKS /\ 0 - 0 \in Nat
    BY FS_EmptySet, LogAssumption
  <2>3. \A p \in Proc : Called[p] \in Nat
    BY Zenon, <2>1, <2>2 DEF Called
  <2>4. Written
    BY Zenon, <2>1, <2>2, <2>3 DEF Written
  <2>5. Fits(Distinct) /\ Fits(Called)
    BY Zenon, <2>1, <2>2 DEF Fits
  <2> QED BY Zenon, <2>1, <2>4, <2>5 DEF Space
<1>2. ASSUME IInv, IInv', Space, [Next]_vars PROVE Space'
  <2>1. CASE \E p \in Proc : begin_op(p) \/ end_op(p)
    BY Zenon, <1>2, <2>1, BeginSpace, EndSpace
  <2>2. CASE (\E p \in Proc : Commit(p)) \/ Recover \/ Crash
    BY Zenon, <1>2, <2>2, QuietSpace
  <2>3. ASSUME NEW p \in Proc, NEW b \in Block, log_write(p, b) PROVE Space'
    BY Zenon, <1>2, <2>3, LogWriteSpace
  <2>4. ASSUME NEW p \in Proc, NEW b \in Block, NEW v \in Val, modify(p, b, v) PROVE Space'
    BY Zenon, <1>2, <2>4, ModifySpace
  <2>5. ASSUME NEW p \in Proc, NEW b \in Block, bread(p, b) \/ brelse(p, b) \/ recycle(b)
        PROVE  Space'
    <3>1. UNCHANGED <<lh, dirty, touched, calls, pc>>
      BY Zenon, <2>5 DEF bread, brelse, recycle, logv, ops
    <3>2. \A c \in dirty : owner'[c] = owner[c]
      BY <1>2, <2>5, LogAssumption DEF bread, brelse, recycle, IInv, TypeOK, Threads, InOp
    <3> QED BY Zenon, <1>2, <3>1, <3>2, SpaceKept
  <2>6. CASE UNCHANGED vars
    <3>1. UNCHANGED <<lh, dirty, touched, calls, pc, owner>>
      BY Zenon, <2>6 DEF vars, logv, bufs, ops
    <3> QED BY Zenon, <1>2, <3>1, SpaceKept
  <2>7. ASSUME NEW b \in Block, recycle(b) PROVE Space'
    <3>1. UNCHANGED <<lh, dirty, touched, calls, pc, owner>>
      BY Zenon, <2>7 DEF recycle, logv, ops
    <3> QED BY Zenon, <1>2, <3>1, SpaceKept
  <2> QED BY Zenon, <1>2, <2>1, <2>2, <2>3, <2>4, <2>5, <2>6, <2>7 DEF Next
<1> QED BY Zenon, <1>1, <1>2

\* Operations that write fewer than MAXOPBLOCKS distinct blocks, however often they log
\* each, or that call log_write() at most MAXOPBLOCKS times, never meet the panics of
\* log_write() and end_op(): "too big a transaction", because begin_op() has reserved
\* their room and absorption takes none; "log_write outside of trans", because they log
\* between begin_op() and end_op(); and "log.committing", because none begins or is in
\* progress during a commit.
THEOREM LogNoPanic ==
    ASSUME FewBlocks \/ FewCalls
    PROVE  Spec => []NoPanic
<1>1. Init => Space
  BY Zenon, SpaceInv
<1>2. IInv /\ IInv' /\ Space /\ [Next]_vars => Space'
  BY Zenon, SpaceInv
<1>3. Space => NoPanic
  BY ONLY Zenon DEF Space
<1> QED BY <1>1, <1>2, <1>3, Invariance, PTL DEF Spec
=============================================================================
