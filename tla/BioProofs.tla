----------------------------- MODULE BioProofs ------------------------------
(***************************************************************************)
(* The buffer cache for any number of processes, blocks and buffers: the   *)
(* invariant of kernel/bio.c, what its panic means, and that the cache     *)
(* implements LockedBlocks.                                                *)
(***************************************************************************)
EXTENDS Bio, FiniteSetTheorems, TLAPS

LEMMA BufFacts == 0 \notin Buf /\ Buf \subseteq Int
BY BioAssumption DEF Buf

LEMMA NoneBlock == None \notin Block
BY Zenon, BioAssumption

(* The users of a buffer. *)

LEMMA UsersFinite ==
    ASSUME NEW b
    PROVE  IsFiniteSet(Users(b)) /\ Cardinality(Users(b)) \in Nat
<1>1. Users(b) \in SUBSET Proc
  BY Zenon DEF Users
<1> QED BY Zenon, <1>1, BioAssumption, FS_Subset, FS_CardinalityType

\* bget(): a process that had no buffer gets one.
LEMMA UserJoins ==
    ASSUME NEW p \in Proc, NEW b \in Buf, buf \in [Proc -> Buf \cup {0}],
           buf[p] = 0, buf' = [buf EXCEPT ![p] = b]
    PROVE  /\ Cardinality(Users(b)') = Cardinality(Users(b)) + 1
           /\ \A c \in Buf \ {b} : Users(c)' = Users(c)
<1>1. p \notin Users(b) /\ Users(b)' = Users(b) \cup {p}
  BY Zenon, BufFacts DEF Users
<1>2. \A c \in Buf \ {b} : Users(c)' = Users(c)
  BY Zenon, BufFacts DEF Users
<1> QED BY Zenon, <1>1, <1>2, UsersFinite, FS_AddElement

\* brelse(): a process gives its buffer back.
LEMMA UserLeaves ==
    ASSUME NEW p \in Proc, buf \in [Proc -> Buf \cup {0}],
           buf[p] # 0, buf' = [buf EXCEPT ![p] = 0]
    PROVE  /\ Cardinality({q \in Proc : buf'[q] = buf[p]}) = Cardinality(Users(buf[p])) - 1
           /\ \A c \in Buf \ {buf[p]} : Users(c)' = Users(c)
<1>1. p \in Users(buf[p]) /\ {q \in Proc : buf'[q] = buf[p]} = Users(buf[p]) \ {p}
  BY Zenon, BufFacts DEF Users
<1>2. \A c \in Buf \ {buf[p]} : Users(c)' = Users(c)
  BY Zenon, BufFacts DEF Users
<1> QED BY ZenonT(60), <1>1, <1>2, UsersFinite, FS_RemoveElement

\* What a process that has found its buffer knows of it.
LEMMA HasBuffer ==
    ASSUME IInv, NEW p \in Proc, pc[p] \in {"acquiresleep", "bread", "locked", "brelse"}
    PROVE  /\ buf[p] \in Buf /\ buf[p] # 0
           /\ want[p] \in Block /\ blockno[buf[p]] = want[p]
BY DEF IInv, TypeOK, Locks, NotRecycled

LEMMA InitInv == Init => IInv
<1> SUFFICES ASSUME Init PROVE IInv
  BY Zenon
<1> USE BufFacts, BioAssumption DEF Init
<1>1. TypeOK
  BY DEF TypeOK, Buf
<1>2. OneBuffer /\ NotRecycled
  BY Zenon DEF OneBuffer, NotRecycled
<1>3. RefsCounted
  <2>1. \A b \in Buf : Users(b) = {}
    BY Zenon DEF Users
  <2>2. Cardinality({}) = 0
    BY Zenon, FS_EmptySet
  <2>3. \A b \in Buf : refcnt[b] = 0 /\ b \notin pinned
    BY Zenon
  <2> QED BY ONLY <2>1, <2>2, <2>3 DEF RefsCounted
<1>4. Locks /\ Copies
  BY Zenon DEF Locks, Copies
<1>5. Range(lru) = Buf
  <2>1. \A b \in Buf : NBUF + 1 - b \in Buf /\ lru[NBUF + 1 - b] = b /\ lru[b] \in Buf
    BY DEF Buf
  <2>2. DOMAIN lru = Buf
    BY Zenon
  <2> QED BY ONLY Zenon, <2>1, <2>2 DEF Range
<1> QED BY Zenon, <1>1, <1>2, <1>3, <1>4, <1>5 DEF IInv

(* bget() *)

LEMMA BgetHitInv ==
    ASSUME IInv, NEW p \in Proc, NEW k \in Block, NEW b \in cached(k),
           pc[p] = "idle", want' = [want EXCEPT ![p] = k], ref(b),
           buf' = [buf EXCEPT ![p] = b], pc' = [pc EXCEPT ![p] = "acquiresleep"],
           UNCHANGED <<blockno, valid, disk, lru, data, lock, pinned, changed>>
    PROVE  IInv'
<1> USE BufFacts, BioAssumption DEF IInv, ref
<1>1. b \in Buf /\ blockno[b] = k /\ buf[p] = 0
  BY Zenon DEF cached, Locks, TypeOK
<1>2. TypeOK'
  BY <1>1 DEF TypeOK
<1>3. OneBuffer' /\ NotRecycled'
  BY <1>1 DEF TypeOK, OneBuffer, NotRecycled
<1>4. RefsCounted'
  <2>1. /\ Cardinality(Users(b)') = Cardinality(Users(b)) + 1
        /\ \A c \in Buf \ {b} : Users(c)' = Users(c)
    BY Zenon, <1>1, UserJoins DEF TypeOK
  <2> QED BY <1>1, <2>1, UsersFinite DEF TypeOK, RefsCounted
<1>5. Locks'
  BY <1>1 DEF TypeOK, Locks
<1>6. Copies'
  BY <1>1 DEF TypeOK, Locks, Copies, Users
<1> QED BY Zenon, <1>2, <1>3, <1>4, <1>5, <1>6

\* A buffer without references has no user, no pin and no change that would be lost.
LEMMA UnusedBuffer ==
    ASSUME IInv, NEW b \in Buf, refcnt[b] = 0
    PROVE  /\ Users(b) = {} /\ b \notin pinned /\ b \notin changed /\ lock[b] = None
           /\ \A p \in Proc : buf[p] # b
<1>1. Cardinality(Users(b)) = 0 /\ b \notin pinned
  BY UsersFinite DEF IInv, RefsCounted
<1>2. Users(b) = {}
  BY Zenon, <1>1, UsersFinite, FS_EmptySet
<1>3. b \notin changed /\ \A p \in Proc : buf[p] # b
  BY Zenon, <1>2 DEF IInv, Copies, Users
<1>4. lock[b] = None
  BY <1>3, BioAssumption DEF IInv, TypeOK, Locks
<1> QED BY Zenon, <1>1, <1>2, <1>3, <1>4

LEMMA BgetRecycleInv ==
    ASSUME IInv, NEW p \in Proc, NEW k \in Block, NEW b \in Buf,
           cached(k) = {}, refcnt[b] = 0, pc[p] = "idle", want' = [want EXCEPT ![p] = k],
           blockno' = [blockno EXCEPT ![b] = k], valid' = [valid EXCEPT ![b] = FALSE],
           refcnt' = [refcnt EXCEPT ![b] = 1],
           buf' = [buf EXCEPT ![p] = b], pc' = [pc EXCEPT ![p] = "acquiresleep"],
           UNCHANGED <<disk, lru, data, lock, pinned, changed>>
    PROVE  IInv'
<1> USE BufFacts, BioAssumption DEF IInv
<1>1. buf[p] = 0 /\ \A c \in Buf : blockno[c] # k
  BY Zenon DEF cached, Locks, TypeOK
<1>a. /\ Users(b) = {} /\ b \notin pinned /\ b \notin changed /\ lock[b] = None
      /\ \A q \in Proc : buf[q] # b
  BY Zenon, UnusedBuffer
<1>2. TypeOK'
  BY <1>1 DEF TypeOK
<1>3. OneBuffer' /\ NotRecycled'
  BY <1>1, <1>a DEF TypeOK, OneBuffer, NotRecycled
<1>4. RefsCounted'
  <2>1. /\ Cardinality(Users(b)') = Cardinality(Users(b)) + 1
        /\ \A c \in Buf \ {b} : Users(c)' = Users(c)
    BY Zenon, <1>1, UserJoins DEF TypeOK
  <2>2. Cardinality(Users(b)) = 0
    BY Zenon, <1>a, FS_EmptySet
  <2> QED BY <1>1, <1>a, <2>1, <2>2, UsersFinite DEF TypeOK, RefsCounted
<1>5. Locks'
  BY <1>1, <1>a DEF TypeOK, Locks
<1>6. Copies'
  BY <1>1, <1>a DEF TypeOK, Locks, Copies, Users
<1> QED BY Zenon, <1>2, <1>3, <1>4, <1>5, <1>6

LEMMA BgetInv ==
    ASSUME IInv, NEW p \in Proc, NEW k \in Block, bget(p, k)
    PROVE  IInv'
<1>1. CASE \E b \in cached(k) : ref(b) /\ buf' = [buf EXCEPT ![p] = b]
                                /\ Goto(p, "acquiresleep") /\ UNCHANGED <<blockno, valid>>
  BY Zenon, <1>1, BgetHitInv DEF bget, Goto
<1>2. CASE /\ cached(k) = {}
           /\ \E b \in Buf : /\ LeastRecent(b)
                             /\ blockno' = [blockno EXCEPT ![b] = k]
                             /\ valid' = [valid EXCEPT ![b] = FALSE]
                             /\ refcnt' = [refcnt EXCEPT ![b] = 1]
                             /\ buf' = [buf EXCEPT ![p] = b]
                             /\ Goto(p, "acquiresleep")
  BY Zenon, <1>2, BgetRecycleInv DEF bget, Goto, LeastRecent, unused
<1>3. CASE Goto(p, "panic") /\ UNCHANGED <<blockno, valid, refcnt, buf>>
  <2> USE <1>3, BufFacts DEF IInv, bget, Goto
  <2>1. TypeOK'
    BY Zenon DEF TypeOK
  <2>2. OneBuffer' /\ NotRecycled'
    BY DEF OneBuffer, NotRecycled, TypeOK, Locks
  <2>3. RefsCounted'
    BY Zenon DEF RefsCounted, Users
  <2>4. Locks' /\ Copies'
    BY DEF Locks, Copies, Users, TypeOK
  <2> QED BY Zenon, <2>1, <2>2, <2>3, <2>4
<1> QED BY Zenon, <1>1, <1>2, <1>3 DEF bget

LEMMA AcquiresleepInv ==
    ASSUME IInv, NEW p \in Proc, acquiresleep(p)
    PROVE  IInv'
<1>0. buf[p] \in Buf /\ want[p] \in Block /\ blockno[buf[p]] = want[p]
  BY Zenon, HasBuffer DEF acquiresleep
<1> USE BufFacts, BioAssumption DEF IInv, Goto, bcache
<1>1. TypeOK'
  BY Zenon, <1>0 DEF TypeOK, acquiresleep
<1>2. OneBuffer' /\ NotRecycled'
  BY Zenon DEF TypeOK, OneBuffer, NotRecycled, Locks, RefsCounted, acquiresleep
<1>3. RefsCounted'
  BY DEF TypeOK, RefsCounted, Users, acquiresleep
<1>4. Locks'
  BY DEF TypeOK, Locks, acquiresleep
<1>5. Copies'
  BY <1>0 DEF TypeOK, OneBuffer, NotRecycled, Locks, Copies, Users, acquiresleep
<1>6. (Range(lru) = Buf)'
  BY Zenon DEF acquiresleep
<1> QED BY Zenon, <1>1, <1>2, <1>3, <1>4, <1>5, <1>6

LEMMA BreadInv ==
    ASSUME IInv, NEW p \in Proc, bread(p)
    PROVE  IInv'
<1>0. buf[p] \in Buf /\ want[p] \in Block /\ blockno[buf[p]] = want[p]
  BY Zenon, HasBuffer DEF bread
<1> USE BufFacts, BioAssumption DEF IInv, Goto, bcache
<1>1. TypeOK'
  BY Zenon, <1>0 DEF TypeOK, bread, fill
<1>2. OneBuffer' /\ NotRecycled'
  BY Zenon DEF TypeOK, OneBuffer, NotRecycled, Locks, RefsCounted, bread, fill
<1>3. RefsCounted'
  BY DEF TypeOK, RefsCounted, Users, bread, fill
<1>4. Locks'
  BY DEF TypeOK, Locks, bread, fill
<1>5. Copies'
  BY <1>0 DEF TypeOK, OneBuffer, NotRecycled, Locks, Copies, Users, bread, fill
<1>6. (Range(lru) = Buf)'
  BY Zenon DEF bread, fill
<1> QED BY Zenon, <1>1, <1>2, <1>3, <1>4, <1>5, <1>6

LEMMA ModifyInv ==
    ASSUME IInv, NEW p \in Proc, NEW v \in Val, modify(p, v)
    PROVE  IInv'
<1>0. buf[p] \in Buf /\ want[p] \in Block /\ blockno[buf[p]] = want[p]
  BY Zenon, HasBuffer DEF modify
<1> USE BufFacts, BioAssumption DEF IInv, Goto, bcache
<1>1. TypeOK'
  BY Zenon, <1>0 DEF TypeOK, modify
<1>2. OneBuffer' /\ NotRecycled'
  BY Zenon DEF TypeOK, OneBuffer, NotRecycled, Locks, RefsCounted, modify
<1>3. RefsCounted'
  BY DEF TypeOK, RefsCounted, Users, modify
<1>4. Locks'
  BY Zenon DEF TypeOK, Locks, modify
<1>5. Copies'
  BY <1>0 DEF TypeOK, OneBuffer, NotRecycled, Locks, Copies, Users, modify
<1>6. (Range(lru) = Buf)'
  BY Zenon DEF modify
<1> QED BY Zenon, <1>1, <1>2, <1>3, <1>4, <1>5, <1>6

LEMMA BwriteInv ==
    ASSUME IInv, NEW p \in Proc, bwrite(p)
    PROVE  IInv'
<1>0. buf[p] \in Buf /\ want[p] \in Block /\ blockno[buf[p]] = want[p]
  BY Zenon, HasBuffer DEF bwrite
<1> USE BufFacts, BioAssumption DEF IInv, Goto, bcache
<1>1. TypeOK'
  BY Zenon, <1>0 DEF TypeOK, bwrite
<1>2. OneBuffer' /\ NotRecycled'
  BY Zenon DEF TypeOK, OneBuffer, NotRecycled, Locks, RefsCounted, bwrite
<1>3. RefsCounted'
  BY DEF TypeOK, RefsCounted, Users, bwrite
<1>4. Locks'
  BY Zenon DEF TypeOK, Locks, bwrite
<1>5. Copies'
  <2>1. /\ \A q \in Proc : pc'[q] = "locked" => valid'[buf'[q]]
        /\ \A b \in Buf : b \in changed' => \E q \in Users(b)' : pc'[q] = "locked"
        /\ \A b \in Buf : b \in pinned' => valid'[b]
        /\ \A b \in Buf : valid'[b] => blockno'[b] # None
    BY Zenon DEF Copies, Users, bwrite
  <2>2. ASSUME NEW b \in Buf, valid[b], b \notin pinned \cup changed'
        PROVE  data[b] = disk'[blockno[b]]
    <3>1. disk' = [disk EXCEPT ![want[p]] = data[buf[p]]] /\ changed' = changed \ {buf[p]}
      BY Zenon, <1>0 DEF bwrite
    <3>2. CASE b = buf[p]
      BY Zenon, <1>0, <3>1, <3>2 DEF TypeOK
    <3>3. CASE b # buf[p]
      <4>1. blockno[b] # None /\ blockno[b] # want[p]
        BY Zenon, <1>0, <2>2, <3>3, NoneBlock DEF OneBuffer, Copies
      <4>2. data[b] = disk[blockno[b]] /\ blockno[b] \in Block
        BY <2>2, <3>1, <3>3, <4>1 DEF Copies, TypeOK
      <4> QED BY Zenon, <3>1, <4>1, <4>2 DEF TypeOK
    <3> QED BY Zenon, <3>2, <3>3
  <2>3. UNCHANGED <<valid, pinned, data, blockno>>
    BY Zenon DEF bwrite
  <2> QED BY ONLY Zenon, <2>1, <2>2, <2>3 DEF Copies
<1>6. (Range(lru) = Buf)'
  BY Zenon DEF bwrite
<1> QED BY Zenon, <1>1, <1>2, <1>3, <1>4, <1>5, <1>6

LEMMA BpinInv ==
    ASSUME IInv, NEW p \in Proc, bpin(p)
    PROVE  IInv'
<1>0. buf[p] \in Buf /\ want[p] \in Block /\ blockno[buf[p]] = want[p]
  BY Zenon, HasBuffer DEF bpin
<1> USE BufFacts, BioAssumption DEF IInv, Goto, bcache
<1>1. TypeOK'
  <2>1. refcnt' \in [Buf -> Int]
    BY <1>0 DEF TypeOK, bpin, ref
  <2>2. pinned' \in SUBSET Buf /\ changed' \in SUBSET Buf
    BY Zenon, <1>0 DEF TypeOK, bpin
  <2> QED BY Zenon, <2>1, <2>2 DEF TypeOK, bpin
<1>2. OneBuffer' /\ NotRecycled'
  BY Zenon DEF TypeOK, OneBuffer, NotRecycled, Locks, RefsCounted, bpin, ref
<1>3. RefsCounted'
  <2>1. \A c : Users(c)' = Users(c)
    BY Zenon DEF Users, bpin
  <2> QED BY <1>0, <2>1, UsersFinite DEF TypeOK, RefsCounted, bpin, ref
<1>4. Locks'
  BY Zenon DEF TypeOK, Locks, bpin, ref
<1>5. Copies'
  BY <1>0 DEF TypeOK, OneBuffer, NotRecycled, Locks, Copies, Users, bpin, ref
<1>6. (Range(lru) = Buf)'
  BY Zenon DEF bpin, ref
<1> QED BY Zenon, <1>1, <1>2, <1>3, <1>4, <1>5, <1>6

LEMMA UnrefType ==
    ASSUME NEW b \in Buf, refcnt \in [Buf -> Int], unref(b)
    PROVE  refcnt' \in [Buf -> Int]
<1>1. refcnt[b] - 1 \in Int
  OBVIOUS
<1> QED BY Zenon, <1>1 DEF unref

LEMMA BunpinInv ==
    ASSUME IInv, NEW p \in Proc, bunpin(p)
    PROVE  IInv'
<1>0. buf[p] \in Buf /\ want[p] \in Block /\ blockno[buf[p]] = want[p]
  BY Zenon, HasBuffer DEF bunpin
<1> USE BufFacts, BioAssumption DEF IInv, Goto, bcache
<1>1. TypeOK'
  <2>1. refcnt' \in [Buf -> Int]
    BY Zenon, <1>0, UnrefType DEF TypeOK, bunpin
  <2>2. pinned' \in SUBSET Buf /\ changed' \in SUBSET Buf
    BY Zenon, <1>0 DEF TypeOK, bunpin
  <2> QED BY Zenon, <2>1, <2>2 DEF TypeOK, bunpin
<1>2. OneBuffer' /\ NotRecycled'
  BY Zenon DEF TypeOK, OneBuffer, NotRecycled, Locks, RefsCounted, bunpin, unref
<1>3. RefsCounted'
  <2>1. \A c : Users(c)' = Users(c)
    BY Zenon DEF Users, bunpin
  <2> QED BY <1>0, <2>1, UsersFinite DEF TypeOK, RefsCounted, bunpin, unref
<1>4. Locks'
  BY Zenon DEF TypeOK, Locks, bunpin, unref
<1>5. Copies'
  BY <1>0 DEF TypeOK, OneBuffer, NotRecycled, Locks, Copies, Users, bunpin, unref
<1>6. (Range(lru) = Buf)'
  BY Zenon DEF bunpin, unref
<1> QED BY Zenon, <1>1, <1>2, <1>3, <1>4, <1>5, <1>6

LEMMA ReleasesleepInv ==
    ASSUME IInv, NEW p \in Proc, releasesleep(p)
    PROVE  IInv'
<1>0. buf[p] \in Buf /\ want[p] \in Block /\ blockno[buf[p]] = want[p]
  BY Zenon, HasBuffer DEF releasesleep
<1> USE BufFacts, BioAssumption DEF IInv, Goto, bcache
<1>1. TypeOK'
  BY Zenon, <1>0 DEF TypeOK, releasesleep
<1>2. OneBuffer' /\ NotRecycled'
  BY Zenon DEF TypeOK, OneBuffer, NotRecycled, Locks, RefsCounted, releasesleep
<1>3. RefsCounted'
  BY DEF TypeOK, RefsCounted, Users, releasesleep
<1>4. Locks'
  BY DEF TypeOK, Locks, releasesleep
<1>5. Copies'
  BY <1>0 DEF TypeOK, OneBuffer, NotRecycled, Locks, Copies, Users, releasesleep
<1>6. (Range(lru) = Buf)'
  BY Zenon DEF releasesleep
<1> QED BY Zenon, <1>1, <1>2, <1>3, <1>4, <1>5, <1>6

\* Moving a buffer to the front of the list neither loses nor repeats one.
LEMMA FrontList ==
    ASSUME NEW b \in Buf, lru \in [Buf -> Buf], Range(lru) = Buf
    PROVE  MovedToFront(b) \in [Buf -> Buf] /\ Range(MovedToFront(b)) = Buf
<1> DEFINE i == CHOOSE i \in Buf : lru[i] = b
           m == MovedToFront(b)
<1>1. \A c \in Buf : \E j \in Buf : lru[j] = c
  BY Zenon DEF Range
<1>2. i \in Buf /\ lru[i] = b
  BY Zenon, <1>1
<1> HIDE DEF i
<1>3. m = [j \in Buf |-> IF j = 1 THEN b ELSE IF j <= i THEN lru[j - 1] ELSE lru[j]]
  BY Zenon DEF MovedToFront, i
<1>4. \A j \in Buf : j # 1 => j - 1 \in Buf
  BY BioAssumption DEF Buf
<1>5. m \in [Buf -> Buf]
  BY <1>3, <1>4
<1>6. ASSUME NEW c \in Buf PROVE \E j \in Buf : m[j] = c
  <2>1. PICK j \in Buf : lru[j] = c
    BY Zenon, <1>1
  <2>2. CASE j = i
    <3>1. 1 \in Buf /\ m[1] = b
      BY <1>2, <1>3, BioAssumption DEF Buf
    <3> QED BY Zenon, <1>2, <2>1, <2>2, <3>1
  <2>3. CASE j < i
    <3> DEFINE h == j + 1
    <3>1. h \in Buf /\ h # 1 /\ h <= i /\ h - 1 = j
      BY <1>2, <2>3, BioAssumption DEF Buf
    <3> HIDE DEF h
    <3>2. m[h] = lru[j]
      BY Zenon, <1>3, <3>1
    <3> QED BY Zenon, <2>1, <3>1, <3>2
  <2>4. CASE j > i
    <3>1. j # 1 /\ ~(j <= i)
      BY <1>2, <2>4, BioAssumption DEF Buf
    <3> QED BY Zenon, <1>3, <2>1, <3>1
  <2> QED BY <1>2, <2>2, <2>3, <2>4, BufFacts
<1> HIDE DEF m
<1>7. Range(m) = Buf
  BY <1>5, <1>6 DEF Range
<1> QED BY Zenon, <1>5, <1>7 DEF m

LEMMA BrelseInv ==
    ASSUME IInv, NEW p \in Proc, brelse(p)
    PROVE  IInv'
<1>0. buf[p] \in Buf /\ want[p] \in Block /\ blockno[buf[p]] = want[p]
  BY Zenon, HasBuffer DEF brelse
<1> USE BufFacts, BioAssumption DEF IInv, Goto, bcache
<1>1. TypeOK'
  <2>1. lru' \in [Buf -> Buf]
    BY Zenon, <1>0, FrontList DEF brelse, TypeOK
  <2>2. refcnt' \in [Buf -> Int]
    BY Zenon, <1>0, UnrefType DEF TypeOK, brelse
  <2>3. /\ buf' \in [Proc -> Buf \cup {0}]
        /\ want' \in [Proc -> Block \cup {None}]
        /\ pc' \in [Proc -> {"idle", "acquiresleep", "bread", "locked", "brelse", "panic"}]
    BY Zenon DEF TypeOK, brelse
  <2> QED BY Zenon, <2>1, <2>2, <2>3 DEF TypeOK, brelse
<1>2. OneBuffer' /\ NotRecycled'
  BY DEF TypeOK, OneBuffer, NotRecycled, Locks, RefsCounted, brelse, unref
<1>3. RefsCounted'
  <2>1. /\ Cardinality({q \in Proc : buf'[q] = buf[p]}) = Cardinality(Users(buf[p])) - 1
        /\ \A c \in Buf \ {buf[p]} : Users(c)' = Users(c)
    BY Zenon, <1>0, UserLeaves DEF TypeOK, brelse
  <2>2. \A c \in Buf : c = buf[p] => Users(c)' = {q \in Proc : buf'[q] = buf[p]}
    BY Zenon DEF Users
  <2>3. \A c \in Buf : refcnt'[c] = IF c = buf[p] THEN refcnt[c] - 1 ELSE refcnt[c]
    BY Zenon, <1>0 DEF TypeOK, brelse, unref
  <2>4. pinned' = pinned
    BY Zenon DEF brelse
  <2> SUFFICES ASSUME NEW c \in Buf
               PROVE  refcnt'[c] = Cardinality(Users(c)') + (IF c \in pinned THEN 1 ELSE 0)
    BY Zenon, <2>4 DEF RefsCounted
  <2>5. refcnt[c] = Cardinality(Users(c)) + (IF c \in pinned THEN 1 ELSE 0)
    BY Zenon DEF RefsCounted
  <2>6. CASE c # buf[p]
    BY ONLY Zenon, <2>1, <2>3, <2>5, <2>6
  <2>7. CASE c = buf[p]
    <3>1. Cardinality(Users(c)') = Cardinality(Users(c)) - 1
      BY ONLY Zenon, <2>1, <2>2, <2>7
    <3>2. Cardinality(Users(c)) \in Nat
      BY Zenon, UsersFinite
    <3> QED BY ONLY <2>3, <2>5, <2>7, <3>1, <3>2
  <2> QED BY Zenon, <2>6, <2>7
<1>4. Locks'
  BY DEF TypeOK, Locks, brelse, unref
<1>5. Copies'
  BY <1>0 DEF TypeOK, OneBuffer, NotRecycled, Locks, Copies, Users, brelse, unref
<1>6. (Range(lru) = Buf)'
  BY Zenon, <1>0, FrontList DEF brelse, TypeOK
<1> QED BY Zenon, <1>1, <1>2, <1>3, <1>4, <1>5, <1>6

----------------------------------------------------------------------------
LEMMA StepInv == IInv /\ [Next]_vars => IInv'
<1> SUFFICES ASSUME IInv, [Next]_vars PROVE IInv'
  BY Zenon
<1>1. ASSUME NEW p \in Proc, NEW k \in Block, bget(p, k) PROVE IInv'
  BY Zenon, <1>1, BgetInv
<1>2. ASSUME NEW p \in Proc, NEW v \in Val, modify(p, v) PROVE IInv'
  BY Zenon, <1>2, ModifyInv
<1>3. ASSUME NEW p \in Proc,
             \/ acquiresleep(p) \/ bread(p) \/ bwrite(p) \/ bpin(p) \/ bunpin(p)
             \/ releasesleep(p) \/ brelse(p)
      PROVE  IInv'
  BY Zenon, <1>3, AcquiresleepInv, BreadInv, BwriteInv, BpinInv, BunpinInv, ReleasesleepInv, BrelseInv
<1>4. CASE UNCHANGED vars
  BY <1>4 DEF vars, bcache, IInv, TypeOK, OneBuffer, NotRecycled, RefsCounted, Users, Locks, Copies
<1> QED BY Zenon, <1>1, <1>2, <1>3, <1>4 DEF Next

\* bio.c: for any number of processes, blocks and buffers, a block has one buffer, which
\* is not recycled under those who found it, and a valid buffer holds its block.
THEOREM BioInvariance == Spec => []IInv
<1>1. Init => IInv
  BY Zenon, InitInv
<1>2. IInv /\ [Next]_vars => IInv'
  BY Zenon, StepInv
<1> QED BY <1>1, <1>2, PTL DEF Spec

----------------------------------------------------------------------------
(* The panic of bget() *)

LEMMA PanicStep ==
    ASSUME IInv, \A b \in Buf : refcnt[b] # 0
    PROVE  Cardinality({q \in Proc : buf[q] # 0}) + Cardinality(pinned) >= NBUF
<1> DEFINE U == {q \in Proc : buf[q] # 0}
           B == {b \in Buf : Users(b) # {}}
           f == [q \in U |-> buf[q]]
<1>1. IsFiniteSet(Buf) /\ Cardinality(Buf) = NBUF
  BY BioAssumption, FS_Interval DEF Buf
<1>2. IsFiniteSet(U) /\ IsFiniteSet(B) /\ IsFiniteSet(pinned)
  BY Zenon, <1>1, BioAssumption, FS_Subset DEF IInv, TypeOK
<1>3. f \in Surjection(U, B)
  <2>1. f \in [U -> B]
    BY Zenon DEF Users, IInv, TypeOK
  <2>2. \A b \in B : \E q \in U : f[q] = b
    BY Zenon, BufFacts DEF Users
  <2> QED BY Zenon, <2>1, <2>2 DEF Surjection
<1>4. Cardinality(B) <= Cardinality(U)
  BY Zenon, <1>2, <1>3, FS_Surjection
<1>5. Buf = B \cup pinned
  <2>1. \A b \in Buf : b \in pinned \/ Cardinality(Users(b)) # 0
    BY UsersFinite DEF IInv, RefsCounted
  <2>2. \A b \in Buf : Cardinality(Users(b)) # 0 => Users(b) # {}
    BY Zenon, FS_EmptySet
  <2> QED BY Zenon, <2>1, <2>2 DEF IInv, TypeOK
<1>6. Cardinality(Buf) = Cardinality(B) + Cardinality(pinned) - Cardinality(B \cap pinned)
  BY Zenon, <1>2, <1>5, FS_Union
<1>7. /\ Cardinality(B) \in Nat /\ Cardinality(U) \in Nat /\ Cardinality(pinned) \in Nat
      /\ Cardinality(B \cap pinned) \in Nat
  BY Zenon, <1>2, FS_CardinalityType, FS_Intersection
<1> QED BY ONLY <1>1, <1>4, <1>6, <1>7, BioAssumption

\* bio.c:88: bget() panics only when every buffer has a user or a pin.
THEOREM BioBuffersSuffice == Spec => BuffersSuffice
<1> DEFINE A == \A p \in Proc : pc[p] # "panic" /\ pc'[p] = "panic" =>
                  Cardinality({q \in Proc : buf[q] # 0}) + Cardinality(pinned) >= NBUF
<1>1. IInv /\ [Next]_vars => [A]_vars
  <2> SUFFICES ASSUME IInv, Next, NEW p \in Proc, pc[p] # "panic", pc'[p] = "panic"
               PROVE  Cardinality({q \in Proc : buf[q] # 0}) + Cardinality(pinned) >= NBUF
    BY Zenon
  <2>1. PICK k \in Block : bget(p, k)
    BY DEF Next, bget, modify, acquiresleep, bread, bwrite, bpin, bunpin, releasesleep, brelse,
           Goto, IInv, TypeOK
  <2>2. \A b \in Buf : refcnt[b] # 0
    BY Zenon, <2>1 DEF bget, Goto, IInv, TypeOK, unused
  <2> QED BY Zenon, <2>1, <2>2, PanicStep
<1> QED BY <1>1, BioInvariance, PTL DEF Spec, BuffersSuffice
----------------------------------------------------------------------------
(* The refinement: blocks that one process uses at a time. *)

\* What a block holds for a reader: the data of its valid buffer, or the disk's.
LEMMA ContentsCached ==
    ASSUME IInv, NEW b \in Buf, valid[b]
    PROVE  blockno[b] \in Block /\ Contents[blockno[b]] = data[b]
<1>1. blockno[b] \in Block /\ \A c \in cached(blockno[b]) : c = b
  BY DEF IInv, TypeOK, Copies, OneBuffer, cached
<1>2. b \in cached(blockno[b])
  BY Zenon DEF cached
<1>3. (CHOOSE c \in cached(blockno[b]) : valid[c]) = b
  BY Zenon, <1>1, <1>2
<1> QED BY Zenon, <1>1, <1>2, <1>3 DEF Contents

LEMMA ContentsUncached ==
    ASSUME NEW k \in Block, \A b \in Buf : blockno[b] = k => ~valid[b]
    PROVE  Contents[k] = disk[k]
BY Zenon DEF Contents, cached

\* The process that uses a block is the one that holds its buffer past bread().
LEMMA UserLocked ==
    ASSUME IInv, NEW p \in Proc, pc[p] = "locked"
    PROVE  want[p] \in Block /\ User[want[p]] = p
<1>1. want[p] \in Block
  BY Zenon, HasBuffer
<1>2. ASSUME NEW q \in Proc, pc[q] = "locked", want[q] = want[p] PROVE q = p
  <2>1. /\ buf[p] \in Buf /\ buf[q] \in Buf
        /\ blockno[buf[p]] = want[p] /\ blockno[buf[q]] = want[p]
    BY Zenon, <1>2, HasBuffer
  <2>2. buf[p] = buf[q]
    BY Zenon, <1>1, <2>1, NoneBlock DEF IInv, OneBuffer
  <2> QED BY <1>2, <2>2 DEF IInv, Locks
<1>3. (CHOOSE q \in Proc : pc[q] = "locked" /\ want[q] = want[p]) = p
  BY Zenon, <1>2
<1> QED BY Zenon, <1>1, <1>3 DEF User

LEMMA UserNone ==
    ASSUME NEW k \in Block, \A q \in Proc : ~(pc[q] = "locked" /\ want[q] = k)
    PROVE  User[k] = None
BY Zenon DEF User

\* The two sides of the mapping, at every block.
Mapping ==
    /\ Contents = [k \in Block |-> Contents[k]] /\ User = [k \in Block |-> User[k]]
    /\ \A b \in Buf : valid[b] => blockno[b] \in Block /\ Contents[blockno[b]] = data[b]
    /\ \A k \in Block : (\A b \in Buf : blockno[b] = k => ~valid[b]) => Contents[k] = disk[k]
    /\ \A p \in Proc : pc[p] = "locked" => want[p] \in Block /\ User[want[p]] = p
    /\ \A k \in Block : (\A q \in Proc : ~(pc[q] = "locked" /\ want[q] = k)) => User[k] = None

LEMMA MappingNow == IInv => Mapping
BY Zenon, ContentsCached, ContentsUncached, UserLocked, UserNone DEF Mapping, Contents, User

LEMMA MappingNext == IInv' => Mapping'
BY MappingNow, PTL

LEMMA InitSimulation == Init => Blocks!Init
<1> SUFFICES ASSUME Init PROVE Blocks!Init
  BY Zenon
<1>1. \A k \in Block : Contents[k] = disk[k]
  BY Zenon, ContentsUncached DEF Init
<1>2. Contents \in [Block -> Val]
  BY Zenon, <1>1 DEF Init, Contents
<1>3. User = [k \in Block |-> None]
  BY Zenon DEF Init, User
<1> QED BY Zenon, <1>2, <1>3 DEF Blocks!Init

LEMMA SameUser ==
    ASSUME IInv, IInv',
           \A q \in Proc : pc'[q] = "locked" <=> pc[q] = "locked",
           \A q \in Proc : pc[q] = "locked" => want'[q] = want[q]
    PROVE  User' = User
<1> USE MappingNow, MappingNext DEF Mapping
<1>1. ASSUME NEW k \in Block PROVE User'[k] = User[k]
  <2>1. CASE \E q \in Proc : pc[q] = "locked" /\ want[q] = k
    BY <2>1
  <2>2. CASE \A q \in Proc : ~(pc[q] = "locked" /\ want[q] = k)
    BY <2>2
  <2> QED BY Zenon, <2>1, <2>2
<1> QED BY Zenon, <1>1

LEMMA SameContents ==
    ASSUME UNCHANGED <<blockno, valid, data, disk>>
    PROVE  Contents' = Contents
BY Zenon DEF Contents, cached

LEMMA BgetStep ==
    ASSUME IInv, IInv', NEW p \in Proc, NEW k \in Block, bget(p, k)
    PROVE  Contents' = Contents /\ User' = User
<1>1. User' = User
  BY Zenon, SameUser DEF bget, Goto, IInv, TypeOK
<1>2. CASE UNCHANGED <<blockno, valid>>
  BY Zenon, <1>1, <1>2, SameContents DEF bget
<1>3. CASE ~UNCHANGED <<blockno, valid>>
  <2>1. PICK b \in Buf : /\ cached(k) = {} /\ refcnt[b] = 0
                         /\ blockno' = [blockno EXCEPT ![b] = k]
                         /\ valid' = [valid EXCEPT ![b] = FALSE]
    BY Zenon, <1>3 DEF bget, LeastRecent, unused
  <2>2. /\ b \notin pinned \cup changed
        /\ UNCHANGED <<disk, data>>
    BY Zenon, UnusedBuffer, <2>1 DEF bget
  <2>3. ASSUME NEW j \in Block PROVE Contents'[j] = Contents[j]
    <3> USE MappingNow, MappingNext, BufFacts DEF Mapping
    <3>1. CASE \E c \in Buf \ {b} : blockno[c] = j /\ valid[c]
      BY <3>1, <2>1, <2>2 DEF IInv, TypeOK
    <3>2. CASE blockno[b] = j /\ valid[b]
      <4>1. Contents[j] = disk[j]
        BY <3>2, <2>2 DEF IInv, Copies
      <4>2. \A c \in Buf : blockno'[c] = j => ~valid'[c]
        BY <3>2, <2>1, NoneBlock DEF IInv, TypeOK, OneBuffer
      <4> QED BY Zenon, <4>1, <4>2, <2>2
    <3>3. CASE \A c \in Buf : blockno[c] = j => ~valid[c]
      <4>1. \A c \in Buf : blockno'[c] = j => ~valid'[c]
        BY <3>3, <2>1 DEF IInv, TypeOK
      <4> QED BY Zenon, <3>3, <4>1, <2>2
    <3> QED BY Zenon, <3>1, <3>2, <3>3
  <2> QED BY Zenon, <1>1, <2>3, MappingNow, MappingNext DEF Mapping
<1> QED BY Zenon, <1>2, <1>3

LEMMA BreadStep ==
    ASSUME IInv, IInv', NEW p \in Proc, bread(p)
    PROVE  Blocks!Use(p, want[p])
<1>0. buf[p] \in Buf /\ want[p] \in Block /\ blockno[buf[p]] = want[p] /\ lock[buf[p]] = p
  BY Zenon, HasBuffer DEF bread, IInv, Locks
<1> USE MappingNow, MappingNext DEF Mapping
<1>1. \A q \in Proc : ~(pc[q] = "locked" /\ want[q] = want[p])
  <2> SUFFICES ASSUME NEW q \in Proc, pc[q] = "locked", want[q] = want[p] PROVE FALSE
    BY Zenon
  <2>1. buf[q] \in Buf /\ blockno[buf[q]] = want[p] /\ lock[buf[q]] = q
    BY Zenon, HasBuffer DEF IInv, Locks
  <2>2. buf[q] = buf[p]
    BY <1>0, <2>1, NoneBlock DEF IInv, OneBuffer
  <2> QED BY Zenon, <1>0, <2>1, <2>2 DEF bread
<1>2. User[want[p]] = None
  BY Zenon, <1>0, <1>1
<1>3. pc' = [pc EXCEPT ![p] = "locked"] /\ want' = want /\ DOMAIN pc = Proc
  BY Zenon DEF bread, Goto, IInv, TypeOK
<1>4. User' = [User EXCEPT ![want[p]] = p]
  <2>1. ASSUME NEW k \in Block, k # want[p] PROVE User'[k] = User[k]
    <3>1. CASE \E q \in Proc : pc[q] = "locked" /\ want[q] = k
      BY <1>3, <2>1, <3>1
    <3>2. CASE \A q \in Proc : ~(pc[q] = "locked" /\ want[q] = k)
      BY Zenon, <1>3, <2>1, <3>2
    <3> QED BY Zenon, <3>1, <3>2
  <2>2. User'[want[p]] = p
    BY Zenon, <1>3
  <2> QED BY Zenon, <1>0, <2>1, <2>2
<1>5. Contents' = Contents
  <2>a. /\ data' = IF valid[buf[p]] THEN data ELSE [data EXCEPT ![buf[p]] = disk[want[p]]]
        /\ valid' = [valid EXCEPT ![buf[p]] = TRUE] /\ UNCHANGED <<blockno, disk>>
    BY Zenon, <1>0 DEF bread, fill, bcache
  <2>1. ASSUME NEW k \in Block, k # want[p] PROVE Contents'[k] = Contents[k]
    <3>1. CASE \E c \in Buf : blockno[c] = k /\ valid[c]
      BY <1>0, <2>a, <2>1, <3>1 DEF IInv, TypeOK
    <3>2. CASE \A c \in Buf : blockno[c] = k => ~valid[c]
      BY Zenon, <1>0, <2>a, <2>1, <3>2 DEF IInv, TypeOK
    <3> QED BY Zenon, <3>1, <3>2
  <2>2. Contents'[want[p]] = Contents[want[p]]
    <3>1. CASE valid[buf[p]]
      BY <1>0, <2>a, <3>1 DEF IInv, TypeOK
    <3>2. CASE ~valid[buf[p]]
      <4>1. \A c \in Buf : blockno[c] = want[p] => ~valid[c]
        BY <1>0, <3>2, NoneBlock DEF IInv, OneBuffer
      <4>2. Contents[want[p]] = disk[want[p]]
        BY Zenon, <1>0, <4>1
      <4>3. Contents'[want[p]] = data'[buf[p]]
        BY <1>0, <2>a DEF IInv, TypeOK
      <4> QED BY <1>0, <2>a, <3>2, <4>2, <4>3 DEF IInv, TypeOK
    <3> QED BY Zenon, <3>1, <3>2
  <2> QED BY Zenon, <2>1, <2>2
<1> QED BY Zenon, <1>2, <1>4, <1>5 DEF Blocks!Use

LEMMA ModifyStep ==
    ASSUME IInv, IInv', NEW p \in Proc, NEW v \in Val, modify(p, v)
    PROVE  Blocks!Change(p, want[p], v)
<1>0. /\ buf[p] \in Buf /\ want[p] \in Block /\ blockno[buf[p]] = want[p]
      /\ pc[p] = "locked" /\ valid[buf[p]]
  BY Zenon, HasBuffer DEF modify, IInv, Copies
<1>1. User' = User
  BY Zenon, SameUser DEF modify
<1> USE MappingNow, MappingNext DEF Mapping
<1>2. User[want[p]] = p
  BY Zenon, <1>0
<1>3. data' = [data EXCEPT ![buf[p]] = v] /\ UNCHANGED <<valid, blockno, disk>>
  BY Zenon DEF modify, bcache
<1>4. ASSUME NEW k \in Block, k # want[p] PROVE Contents'[k] = Contents[k]
  <2>1. CASE \E c \in Buf : blockno[c] = k /\ valid[c]
    BY <1>0, <1>3, <1>4, <2>1 DEF IInv, TypeOK
  <2>2. CASE \A c \in Buf : blockno[c] = k => ~valid[c]
    BY Zenon, <1>3, <2>2
  <2> QED BY Zenon, <2>1, <2>2
<1>5. Contents'[want[p]] = v
  BY <1>0, <1>3 DEF IInv, TypeOK
<1>6. Contents' = [Contents EXCEPT ![want[p]] = v]
  BY <1>0, <1>4, <1>5
<1> QED BY Zenon, <1>1, <1>2, <1>6 DEF Blocks!Change

LEMMA BwriteStep ==
    ASSUME IInv, IInv', NEW p \in Proc, bwrite(p)
    PROVE  Contents' = Contents /\ User' = User
<1>0. /\ buf[p] \in Buf /\ want[p] \in Block /\ blockno[buf[p]] = want[p] /\ valid[buf[p]]
  BY Zenon, HasBuffer DEF bwrite, IInv, Copies
<1>1. User' = User
  BY Zenon, SameUser DEF bwrite
<1> USE MappingNow, MappingNext DEF Mapping
<1>2. /\ disk' = [disk EXCEPT ![want[p]] = data[buf[p]]] /\ UNCHANGED <<valid, blockno, data>>
  BY Zenon, <1>0 DEF bwrite, bcache
<1>3. ASSUME NEW k \in Block PROVE Contents'[k] = Contents[k]
  <2>1. CASE \E c \in Buf : blockno[c] = k /\ valid[c]
    BY <1>2, <2>1
  <2>2. CASE \A c \in Buf : blockno[c] = k => ~valid[c]
    BY <1>0, <1>2, <2>2 DEF IInv, TypeOK
  <2> QED BY Zenon, <2>1, <2>2
<1> QED BY Zenon, <1>1, <1>3

LEMMA ReleasesleepStep ==
    ASSUME IInv, IInv', NEW p \in Proc, releasesleep(p)
    PROVE  Blocks!Leave(p, want[p])
<1>1. Contents' = Contents
  BY Zenon, SameContents DEF releasesleep, bcache
<1> USE MappingNow, MappingNext DEF Mapping
<1>2. pc[p] = "locked" /\ want[p] \in Block /\ User[want[p]] = p
  BY Zenon DEF releasesleep
<1>3. pc' = [pc EXCEPT ![p] = "brelse"] /\ want' = want /\ DOMAIN pc = Proc
  BY Zenon DEF releasesleep, Goto, IInv, TypeOK
<1>4. ASSUME NEW k \in Block, k # want[p] PROVE User'[k] = User[k]
  <2>1. CASE \E q \in Proc : pc[q] = "locked" /\ want[q] = k
    BY <1>3, <1>4, <2>1
  <2>2. CASE \A q \in Proc : ~(pc[q] = "locked" /\ want[q] = k)
    BY Zenon, <1>3, <1>4, <2>2
  <2> QED BY Zenon, <2>1, <2>2
<1>5. User'[want[p]] = None
  <2>1. \A q \in Proc : pc[q] = "locked" /\ want[q] = want[p] => q = p
    BY Zenon, <1>2
  <2> QED BY Zenon, <1>2, <1>3, <2>1
<1>6. User' = [User EXCEPT ![want[p]] = None]
  BY Zenon, <1>2, <1>4, <1>5
<1> QED BY Zenon, <1>1, <1>2, <1>6 DEF Blocks!Leave

\* The steps that touch neither the contents nor the users of the blocks.
LEMMA OtherStep ==
    ASSUME IInv, IInv', NEW p \in Proc, acquiresleep(p) \/ bpin(p) \/ bunpin(p) \/ brelse(p)
    PROVE  Contents' = Contents /\ User' = User
<1>1. Contents' = Contents
  BY Zenon, SameContents DEF acquiresleep, bpin, bunpin, brelse, bcache
<1>2. User' = User
  BY ZenonT(60), SameUser DEF acquiresleep, bpin, bunpin, brelse, Goto, IInv, TypeOK
<1> QED BY Zenon, <1>1, <1>2

LEMMA StepSimulation == IInv /\ IInv' /\ [Next]_vars => [Blocks!Next]_(Blocks!vars)
<1> SUFFICES ASSUME IInv, IInv', [Next]_vars PROVE [Blocks!Next]_(Blocks!vars)
  BY Zenon
<1>1. ASSUME NEW p \in Proc, NEW k \in Block, bget(p, k) PROVE UNCHANGED Blocks!vars
  BY Zenon, <1>1, BgetStep DEF Blocks!vars
<1>2. ASSUME NEW p \in Proc, NEW v \in Val, modify(p, v) PROVE Blocks!Next
  BY Zenon, <1>2, ModifyStep, HasBuffer DEF Blocks!Next, modify
<1>3. ASSUME NEW p \in Proc, bread(p) PROVE Blocks!Next
  BY Zenon, <1>3, BreadStep, HasBuffer DEF Blocks!Next, bread
<1>4. ASSUME NEW p \in Proc, releasesleep(p) PROVE Blocks!Next
  BY Zenon, <1>4, ReleasesleepStep, HasBuffer DEF Blocks!Next, releasesleep
<1>5. ASSUME NEW p \in Proc,
             acquiresleep(p) \/ bwrite(p) \/ bpin(p) \/ bunpin(p) \/ brelse(p)
      PROVE  UNCHANGED Blocks!vars
  BY Zenon, <1>5, OtherStep, BwriteStep DEF Blocks!vars
<1>6. CASE UNCHANGED vars
  BY Zenon, <1>6 DEF vars, bcache, Blocks!vars, Contents, User, cached
<1> QED BY Zenon, <1>1, <1>2, <1>3, <1>4, <1>5, <1>6 DEF Next

\* bio.c:1-16: the cache implements blocks that one process uses at a time: recycling
\* buffers, in any order and at any moment, is not seen.
THEOREM BioCacheTransparent == Spec => CacheTransparent
<1>1. Init => Blocks!Init
  BY Zenon, InitSimulation
<1>2. IInv /\ IInv' /\ [Next]_vars => [Blocks!Next]_(Blocks!vars)
  BY Zenon, StepSimulation
<1> QED BY <1>1, <1>2, BioInvariance, PTL DEF Spec, CacheTransparent, Blocks!Spec
=============================================================================
