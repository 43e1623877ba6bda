----------------------------- MODULE PipeProofs -----------------------------
(***************************************************************************)
(* A pipe with any number of readers and writers, any size of the ring and *)
(* any width of its counters: the invariant of kernel/pipe.c, that no      *)
(* wakeup is lost, and that the ring implements the stream of PipeStream.  *)
(***************************************************************************)
EXTENDS Pipe, Integers, TLAPS

(* Remainders. *)

LEMMA ModRange ==
    ASSUME NEW u \in Nat \ {0}, NEW x \in Nat
    PROVE  x % u \in 0..(u - 1)
OBVIOUS

\* A counter wraps at most once in a step.
LEMMA ModWrap ==
    ASSUME NEW u \in Nat \ {0}, NEW x \in 0..(2 * u - 1)
    PROVE  x % u = IF x < u THEN x ELSE x - u
OBVIOUS

LEMMA Quotient ==
    ASSUME NEW u \in Nat \ {0}, NEW x \in Nat
    PROVE  \E q \in Int : x % u = x - u * q
<1>1. x \div u \in Int
  OBVIOUS
<1>2. x % u = x - u * (x \div u)
  OBVIOUS
<1> QED BY Zenon, <1>1, <1>2

\* Two positions less than m apart have different places in a ring of m.
LEMMA ModDistinct ==
    ASSUME NEW m \in Nat \ {0}, NEW x \in Nat, NEW y \in Nat, x < y, y < x + m
    PROVE  x % m # y % m
<1>1. PICK a \in Int : x % m = x - m * a
  BY Zenon, Quotient
<1>2. PICK b \in Int : y % m = y - m * b
  BY Zenon, Quotient
<1>3. ASSUME x - m * a = y - m * b PROVE FALSE
  <2>1. y - x = m * (b - a)
    BY ONLY <1>3, a \in Int, b \in Int, x \in Nat, y \in Nat, m \in Nat \ {0}
  <2>2. b - a >= 1
    BY <2>1
  <2>3. m * (b - a) >= m
    BY <2>2
  <2> QED BY <2>1, <2>3
<1> QED BY Zenon, <1>1, <1>2, <1>3

LEMMA Remainder ==
    ASSUME NEW m \in Nat \ {0}, NEW q \in Int, NEW r \in 0..(m - 1)
    PROVE  (m * q + r) % m = r
OBVIOUS

\* The place in the ring does not depend on the wrap of the counter.
LEMMA ModOfMultiple ==
    ASSUME NEW m \in Nat \ {0}, NEW k \in Nat, NEW x \in Nat
    PROVE  (x - k * m) % m = x % m
<1>1. PICK a \in Int : x % m = x - m * a
  BY Zenon, Quotient
<1> DEFINE r == x % m
<1>2. r \in 0..(m - 1)
  BY Zenon, ModRange
<1>3. r = x - m * a
  BY Zenon, <1>1
<1> HIDE DEF r
<1>4. x - k * m = m * (a - k) + r
  BY <1>2, <1>3
<1>5. (m * (a - k) + r) % m = r
  BY <1>2, Remainder
<1> QED BY Zenon, <1>4, <1>5 DEF r

LEMMA SeqOf ==
    ASSUME NEW S, NEW n \in Nat, NEW f, f = [i \in 1..n |-> f[i]], \A i \in 1..n : f[i] \in S
    PROVE  f \in Seq(S)
<1>1. f \in [1..n -> S]
  BY Zenon
<1> QED BY <1>1

(* The ring. *)

LEMMA Sizes ==
    /\ PIPESIZE \in Nat \ {0} /\ UINT \in Nat \ {0} /\ PIPESIZE < UINT
    /\ \E k \in Nat : UINT = k * PIPESIZE
<1>1. PICK k \in 2..UINT : UINT = k * PIPESIZE
  BY Zenon, PipeAssumption
<1>2. k * PIPESIZE >= 2 * PIPESIZE
  BY <1>1, PipeAssumption
<1>3. k \in Nat /\ PIPESIZE \in Nat \ {0}
  BY <1>1, PipeAssumption
<1> QED BY ONLY <1>1, <1>2, <1>3

\* pipe.c:95, 123: UINT is a multiple of PIPESIZE, so the place of a byte is that of the
\* counter before it wraps.
LEMMA Place ==
    ASSUME NEW x \in 0..(2 * UINT - 1)
    PROVE  (x % UINT) % PIPESIZE = x % PIPESIZE
<1>1. PICK k \in Nat : UINT = k * PIPESIZE
  BY Zenon, Sizes
<1>2. x % UINT = IF x < UINT THEN x ELSE x - UINT
  BY Zenon, Sizes, ModWrap
<1>3. (x - k * PIPESIZE) % PIPESIZE = x % PIPESIZE
  <2>1. PIPESIZE \in Nat \ {0} /\ x \in Nat
    BY Sizes
  <2> QED BY ONLY Zenon, <2>1, k \in Nat, ModOfMultiple
<1> QED BY ONLY Zenon, <1>1, <1>2, <1>3

Counters == nread \in 0..(UINT - 1) /\ nwrite \in 0..(UINT - 1)

LEMMA UsedValue ==
    ASSUME Counters
    PROVE  /\ Used = IF nread <= nwrite THEN nwrite - nread ELSE nwrite + UINT - nread
           /\ Used \in Nat
           /\ Empty <=> Used = 0
           /\ Full <=> Used = PIPESIZE
<1> USE Sizes DEF Counters
<1>1. Used = IF nread <= nwrite THEN nwrite - nread ELSE nwrite + UINT - nread
  <2> DEFINE x == nwrite + UINT - nread
  <2>1. x \in 0..(2 * UINT - 1) /\ Used = x % UINT
    BY DEF Used
  <2> HIDE DEF x
  <2>2. Used = IF x < UINT THEN x ELSE x - UINT
    BY Zenon, <2>1, ModWrap
  <2> QED BY <2>2 DEF x
<1>2. (nread + PIPESIZE) % UINT =
        IF nread + PIPESIZE < UINT THEN nread + PIPESIZE ELSE nread + PIPESIZE - UINT
  <2> DEFINE x == nread + PIPESIZE
  <2>1. x \in 0..(2 * UINT - 1)
    OBVIOUS
  <2> HIDE DEF x
  <2>2. x % UINT = IF x < UINT THEN x ELSE x - UINT
    BY Zenon, <2>1, ModWrap
  <2> QED BY <2>2 DEF x
<1> QED BY <1>1, <1>2 DEF Empty, Full

LEMMA BytesValue ==
    ASSUME Counters
    PROVE  /\ Len(Bytes) = Used /\ DOMAIN Bytes = 1..Used
           /\ \A i \in 1..Used : Bytes[i] = data[(nread + i - 1) % PIPESIZE]
<1>1. Used \in Nat /\ Used < UINT
  BY UsedValue, Sizes DEF Counters
<1>2. \A i \in 1..Used : nread + i - 1 \in 0..(2 * UINT - 1)
  BY <1>1, Sizes DEF Counters
<1>3. \A i \in 1..Used : Bytes[i] = data[(nread + i - 1) % PIPESIZE]
  BY Zenon, <1>2, Place DEF Bytes
<1> QED BY <1>1, <1>3 DEF Bytes

\* The two lemmas as one state predicate, for use before and after a step.
Ring == Counters =>
    /\ Used = IF nread <= nwrite THEN nwrite - nread ELSE nwrite + UINT - nread
    /\ Used \in Nat /\ (Empty <=> Used = 0) /\ (Full <=> Used = PIPESIZE)
    /\ Len(Bytes) = Used /\ DOMAIN Bytes = 1..Used
    /\ \A i \in 1..Used : Bytes[i] = data[(nread + i - 1) % PIPESIZE]

LEMMA RingNow == Ring
BY Zenon, UsedValue, BytesValue DEF Ring

LEMMA RingNext == Ring'
BY RingNow, PTL

\* pipe.c:95: a byte that is put into a ring with room for it overwrites none.
LEMMA PutByte ==
    ASSUME TypeOK, NEW b \in Byte, Used < PIPESIZE,
           data' = [data EXCEPT ![nwrite % PIPESIZE] = b],
           nwrite' = (nwrite + 1) % UINT, nread' = nread
    PROVE  Counters' /\ Used' = Used + 1 /\ Bytes' = Append(Bytes, b)
<1> USE Sizes
<1>1. Counters /\ Counters'
  BY ModRange DEF TypeOK, Counters
<1>2. nwrite' = IF nwrite + 1 < UINT THEN nwrite + 1 ELSE nwrite + 1 - UINT
  <2>1. PICK x \in 0..(2 * UINT - 1) : x = nwrite + 1
    BY <1>1 DEF Counters
  <2>2. x % UINT = IF x < UINT THEN x ELSE x - UINT
    BY Zenon, ModWrap
  <2> QED BY <1>1, <2>1, <2>2 DEF Counters
<1>3. /\ Used = IF nread <= nwrite THEN nwrite - nread ELSE nwrite + UINT - nread
      /\ Used \in Nat
      /\ Used' = IF nread' <= nwrite' THEN nwrite' - nread' ELSE nwrite' + UINT - nread'
  BY Zenon, <1>1, RingNow, RingNext DEF Ring
<1>4. Used' = Used + 1
  BY <1>1, <1>2, <1>3 DEF Counters
<1>5. (nread + Used) % PIPESIZE = nwrite % PIPESIZE
  <2>1. CASE nread + Used = nwrite
    BY Zenon, <2>1
  <2>2. CASE nread + Used = nwrite + UINT
    <3> DEFINE x == nwrite + UINT
    <3>1. x \in 0..(2 * UINT - 1) /\ ~(x < UINT) /\ x - UINT = nwrite
      BY <1>1 DEF Counters
    <3> HIDE DEF x
    <3>2. x % UINT = nwrite
      BY Zenon, <3>1, ModWrap
    <3>3. nwrite % PIPESIZE = x % PIPESIZE
      BY ONLY Zenon, <3>1, <3>2, Place
    <3> QED BY ONLY Zenon, <2>2, <3>3 DEF x
  <2> QED BY <1>1, <1>3, <2>1, <2>2 DEF Counters
<1>6. DOMAIN data = 0..(PIPESIZE - 1) /\ nwrite % PIPESIZE \in 0..(PIPESIZE - 1)
  <2>1. nwrite \in Nat
    BY <1>1 DEF Counters
  <2> QED BY Zenon, <2>1, ModRange DEF TypeOK
<1>7. ASSUME NEW i \in 1..Used PROVE Bytes'[i] = Bytes[i]
  <2>1. /\ nread + i - 1 \in Nat /\ nread + Used \in Nat
        /\ nread + i - 1 < nread + Used /\ nread + Used < nread + i - 1 + PIPESIZE
    BY <1>1, <1>3 DEF Counters
  <2>2. (nread + i - 1) % PIPESIZE # nwrite % PIPESIZE
    BY Zenon, <2>1, <1>5, ModDistinct
  <2>3. Bytes'[i] = data'[(nread + i - 1) % PIPESIZE]
    BY <1>1, <1>3, <1>4, RingNext DEF Ring
  <2>4. Bytes[i] = data[(nread + i - 1) % PIPESIZE]
    BY Zenon, <1>1, RingNow DEF Ring
  <2>5. (nread + i - 1) % PIPESIZE \in 0..(PIPESIZE - 1)
    BY Zenon, <2>1, ModRange
  <2> QED BY Zenon, <1>6, <2>2, <2>3, <2>4, <2>5
<1>8. Bytes'[Used + 1] = b
  <2>1. Bytes'[Used + 1] = data'[(nread' + (Used + 1) - 1) % PIPESIZE]
    BY <1>1, <1>3, <1>4, RingNext DEF Ring
  <2>2. nread' + (Used + 1) - 1 = nread + Used
    BY <1>1, <1>3 DEF Counters
  <2> QED BY Zenon, <1>5, <1>6, <2>1, <2>2
<1>9. Bytes \in Seq(Byte) /\ Bytes' \in Seq(Byte)
  <2>1. Bytes = [i \in 1..Used |-> Bytes[i]] /\ Bytes' = [i \in 1..Used' |-> Bytes'[i]]
    BY DEF Bytes
  <2>2. \A x \in Nat : x % PIPESIZE \in 0..(PIPESIZE - 1)
    BY Zenon, ModRange
  <2>3. \A i \in 1..Used : Bytes[i] \in Byte
    <3>1. \A i \in 1..Used : nread + i - 1 \in Nat
      BY <1>1, <1>3 DEF Counters
    <3> QED BY Zenon, <1>1, <2>2, <3>1, RingNow DEF Ring, TypeOK
  <2>4. \A i \in 1..Used' : Bytes'[i] \in Byte
    <3>1. \A i \in 1..Used' : i = Used + 1 \/ i \in 1..Used
      BY <1>3, <1>4
    <3> QED BY Zenon, <1>7, <1>8, <2>3, <3>1
  <2>5. Used' \in Nat
    BY <1>3, <1>4
  <2> QED BY ONLY Zenon, <1>3, <2>1, <2>3, <2>4, <2>5, SeqOf
<1> QED BY <1>1, <1>3, <1>4, <1>7, <1>8, <1>9, RingNow, RingNext DEF Ring

\* pipe.c:123: taking a byte out leaves the others as they are.
LEMMA GetByte ==
    ASSUME TypeOK, Used > 0, nread' = (nread + 1) % UINT, UNCHANGED <<data, nwrite>>
    PROVE  Counters' /\ Used' = Used - 1 /\ Bytes' = Tail(Bytes)
<1> USE Sizes
<1>1. Counters /\ Counters'
  BY ModRange DEF TypeOK, Counters
<1>2. nread' = IF nread + 1 < UINT THEN nread + 1 ELSE nread + 1 - UINT
  <2>1. PICK x \in 0..(2 * UINT - 1) : x = nread + 1
    BY <1>1 DEF Counters
  <2>2. x % UINT = IF x < UINT THEN x ELSE x - UINT
    BY Zenon, ModWrap
  <2> QED BY <1>1, <2>1, <2>2 DEF Counters
<1>3. /\ Used = IF nread <= nwrite THEN nwrite - nread ELSE nwrite + UINT - nread
      /\ Used \in Nat
      /\ Used' = IF nread' <= nwrite' THEN nwrite' - nread' ELSE nwrite' + UINT - nread'
  BY Zenon, <1>1, RingNow, RingNext DEF Ring
<1>4. Used' = Used - 1 /\ Used' \in Nat
  BY <1>1, <1>2, <1>3 DEF Counters
<1>5. ASSUME NEW i \in 1..Used' PROVE Bytes'[i] = Bytes[i + 1]
  <2>1. Bytes'[i] = data[(nread' + i - 1) % PIPESIZE]
    BY Zenon, <1>1, RingNext DEF Ring
  <2>2. Bytes[i + 1] = data[(nread + (i + 1) - 1) % PIPESIZE]
    BY <1>1, <1>3, <1>4, RingNow DEF Ring
  <2>3. nread + (i + 1) - 1 = nread + i
    BY <1>1 DEF Counters
  <2>4. (nread + i) % PIPESIZE = (nread' + i - 1) % PIPESIZE
    <3>1. CASE nread + 1 < UINT
      <4>1. nread' + i - 1 = nread + i
        BY <1>1, <1>2, <3>1 DEF Counters
      <4> QED BY Zenon, <4>1
    <3>2. CASE ~(nread + 1 < UINT)
      <4>1. nread' + i - 1 = i - 1 /\ nread + i = UINT + i - 1
        BY <1>1, <1>2, <3>2 DEF Counters
      <4>2. PICK x \in 0..(2 * UINT - 1) : x = UINT + i - 1
        BY <1>1, <1>3, <1>4 DEF Counters
      <4>3. x % UINT = i - 1
        <5>1. x % UINT = IF x < UINT THEN x ELSE x - UINT
          BY Zenon, ModWrap
        <5> QED BY <4>2, <5>1
      <4>4. (i - 1) % PIPESIZE = x % PIPESIZE
        BY ONLY Zenon, <4>3, Place
      <4> QED BY Zenon, <4>1, <4>2, <4>4
    <3> QED BY Zenon, <3>1, <3>2
  <2> QED BY Zenon, <2>1, <2>2, <2>3, <2>4
<1>6. Bytes' = [i \in 1..Used' |-> Bytes'[i]]
  BY Zenon DEF Bytes
<1>7. Bytes = [i \in 1..Used |-> Bytes[i]]
  BY Zenon DEF Bytes
<1>8. Bytes \in Seq({Bytes[i] : i \in 1..Used})
  BY ZenonT(60), <1>3, <1>7, SeqOf
<1>9. Bytes # <<>> /\ Len(Bytes) = Used
  BY <1>1, <1>3, RingNow DEF Ring
<1>10. Bytes' = [i \in 1..Used' |-> Bytes[i + 1]]
  BY Zenon, <1>5, <1>6
<1>11. Tail(Bytes) = [i \in 1..(Used - 1) |-> Bytes[i + 1]]
  <2>1. PICK S : Bytes \in Seq(S)
    BY Zenon, <1>8
  <2>2. /\ Tail(Bytes) \in Seq(S) /\ Len(Tail(Bytes)) = Len(Bytes) - 1
        /\ \A i \in 1..(Len(Bytes) - 1) : Tail(Bytes)[i] = Bytes[i + 1]
    BY <2>1, <1>9
  <2> DEFINE t == Tail(Bytes)
  <2>3. t \in Seq(S) /\ Len(t) = Used - 1 /\ \A i \in 1..(Used - 1) : t[i] = Bytes[i + 1]
    BY Zenon, <1>9, <2>2
  <2> HIDE DEF t
  <2>4. t = [i \in 1..Len(t) |-> t[i]]
    BY ONLY <2>3
  <2>5. t = [i \in 1..(Used - 1) |-> Bytes[i + 1]]
    BY ONLY Zenon, <2>3, <2>4
  <2> QED BY Zenon, <2>5 DEF t
<1> QED BY Zenon, <1>1, <1>3, <1>4, <1>10, <1>11

LEMMA RingKept ==
    ASSUME UNCHANGED ring
    PROVE  Used' = Used /\ Bytes' = Bytes /\ (Empty' <=> Empty) /\ (Full' <=> Full)
BY Zenon DEF ring, Used, Bytes, Empty, Full

LEMMA InRing ==
    ASSUME IInv
    PROVE  /\ Counters /\ Used \in 0..PIPESIZE /\ Len(Bytes) = Used
           /\ Empty <=> Used = 0
           /\ Full <=> Used = PIPESIZE
<1>1. Counters
  BY Zenon DEF IInv, TypeOK, Counters
<1> QED BY <1>1, RingNow, Sizes DEF Ring, IInv

----------------------------------------------------------------------------
(* The invariant, action by action. *)

LEMMA InitInv == Init => IInv
<1> SUFFICES ASSUME Init PROVE IInv
  BY Zenon
<1> USE Sizes, PipeAssumption
<1>1. TypeOK
  BY DEF Init, TypeOK
<1>2. Ends
  BY Zenon DEF Init, Ends, Proc
<1>3. Sleepers
  BY Zenon DEF Init, Sleepers, Proc
<1>4. Len(Bytes) <= PIPESIZE
  <2>1. Counters /\ nread <= nwrite /\ nwrite - nread = 0
    BY DEF Init, Counters
  <2> QED BY <2>1, RingNow DEF Ring
<1> QED BY Zenon, <1>1, <1>2, <1>3, <1>4 DEF IInv

\* pipewrite(), piperead(): the call.
LEMMA CallInv ==
    ASSUME IInv, NEW p \in Proc, NEW c \in Count, call(p, c)
    PROVE  IInv'
<1>1. Used' = Used /\ Bytes' = Bytes /\ (Empty' <=> Empty) /\ (Full' <=> Full)
  BY Zenon, RingKept DEF call
<1> USE PipeAssumption DEF IInv, Proc, ring, ends
<1>2. TypeOK'
  BY Zenon DEF TypeOK, call, Goto
<1>3. Ends'
  BY Zenon DEF TypeOK, Ends, call, Goto
<1>4. Sleepers'
  BY Zenon, <1>1 DEF TypeOK, Ends, Sleepers, call, Goto
<1> QED BY Zenon, <1>1, <1>2, <1>3, <1>4

\* acquire(&pi->lock).
LEMMA AcquireInv ==
    ASSUME IInv, NEW p \in Proc, acquire(p)
    PROVE  IInv'
<1>1. Used' = Used /\ Bytes' = Bytes /\ (Empty' <=> Empty) /\ (Full' <=> Full)
  BY Zenon, RingKept DEF acquire
<1> USE PipeAssumption DEF IInv, Proc, ring, ends
<1>2. TypeOK'
  BY Zenon DEF TypeOK, acquire, Goto
<1>3. Ends'
  BY Zenon DEF TypeOK, Ends, acquire, Goto
<1>4. Sleepers'
  BY Zenon, <1>1 DEF TypeOK, Ends, Sleepers, acquire, Goto
<1> QED BY Zenon, <1>1, <1>2, <1>3, <1>4

\* pipe.c:83-87, 99: the loop test of pipewrite(), and the wakeup of the readers at its end.
LEMMA WriteLoopInv ==
    ASSUME IInv, NEW w \in Writer, write_loop(w)
    PROVE  IInv'
<1>1. Used' = Used /\ Bytes' = Bytes /\ (Empty' <=> Empty) /\ (Full' <=> Full)
  BY Zenon, RingKept DEF write_loop
<1> USE PipeAssumption DEF IInv, Proc, ring, ends
<1>2. TypeOK'
  BY DEF TypeOK, write_loop, Goto, release, wakeup
<1>3. Ends'
  <2>1. UNCHANGED <<readopen, writeopen, open>> /\ lock = w /\ lock' \in {w, None}
        /\ (pc'[w] \in {"loop", "copy", "sleep"} <=> lock' = w)
    BY ZenonT(60) DEF TypeOK, Ends, write_loop, Goto, release, wakeup
  <2>2. \A q \in Proc \ {w} : pc'[q] = pc[q] \/ (pc[q] = "asleep" /\ pc'[q] = "acquire")
    BY Zenon DEF TypeOK, write_loop, Goto, wakeup
  <2> QED BY Zenon, <2>1, <2>2 DEF Ends
<1>4. Sleepers'
  <2>1. (\A v \in Writer : pc[v] # "sleep" /\ (pc[v] = "copy" => readopen /\ left[v] > 0))'
    BY <1>1 DEF TypeOK, Ends, Sleepers, write_loop, Goto, release, wakeup
  <2>2. (\A r \in Reader : pc[r] = "sleep" => Empty /\ writeopen)'
    BY <1>1 DEF TypeOK, Ends, Sleepers, write_loop, Goto, release, wakeup
  <2>3. (\A v \in Writer : pc[v] = "asleep"
            => readopen /\ (Full \/ \E r \in Reader : pc[r] = "copy"))'
    BY <1>1 DEF TypeOK, Ends, Sleepers, write_loop, Goto, release, wakeup
  <2>4. ((\A v \in Writer : ~killed[v]) => \A r \in Reader : pc[r] = "asleep"
            => writeopen /\ (Empty \/ \E v \in Writer : pc[v] \in {"loop", "copy"}))'
    BY <1>1 DEF TypeOK, Ends, Sleepers, write_loop, Goto, release, wakeup
  <2> QED BY Zenon, <2>1, <2>2, <2>3, <2>4 DEF Sleepers
<1> QED BY Zenon, <1>1, <1>2, <1>3, <1>4

\* pipe.c:88-90: the writer wakes the readers and sleeps in a full ring.
LEMMA WriteSleepInv ==
    ASSUME IInv, NEW w \in Writer, write_sleep(w)
    PROVE  IInv'
<1>1. Used' = Used /\ Bytes' = Bytes /\ (Empty' <=> Empty) /\ (Full' <=> Full)
  BY Zenon, RingKept DEF write_sleep
<1> USE PipeAssumption DEF IInv, Proc, ring, ends
<1>2. TypeOK'
  BY Zenon DEF TypeOK, write_sleep, release, wakeup
<1>3. Ends'
  BY Zenon DEF TypeOK, Ends, write_sleep, release, wakeup
<1>4. Sleepers'
  BY ZenonT(60), <1>1 DEF TypeOK, Ends, Sleepers, write_sleep, release, wakeup
<1> QED BY Zenon, <1>1, <1>2, <1>3, <1>4

\* pipe.c:93: copyin() fails.
LEMMA CopyinFailsInv ==
    ASSUME IInv, NEW w \in Writer, copyin_fails(w)
    PROVE  IInv'
<1>1. Used' = Used /\ Bytes' = Bytes /\ (Empty' <=> Empty) /\ (Full' <=> Full)
  BY Zenon, RingKept DEF copyin_fails
<1> USE PipeAssumption DEF IInv, Proc, ring, ends
<1>2. TypeOK'
  BY Zenon DEF TypeOK, copyin_fails, release, wakeup
<1>3. Ends'
  BY Zenon DEF TypeOK, Ends, copyin_fails, release, wakeup
<1>4. Sleepers'
  BY Zenon, <1>1 DEF TypeOK, Ends, Sleepers, copyin_fails, release, wakeup
<1> QED BY Zenon, <1>1, <1>2, <1>3, <1>4

\* pipe.c:113-117: the test before a reader sleeps.
LEMMA ReadLoopInv ==
    ASSUME IInv, NEW r \in Reader, read_loop(r)
    PROVE  IInv'
<1>1. Used' = Used /\ Bytes' = Bytes /\ (Empty' <=> Empty) /\ (Full' <=> Full)
  BY Zenon, RingKept DEF read_loop
<1> USE PipeAssumption DEF IInv, Proc, ring, ends
<1>2. TypeOK'
  BY Zenon DEF TypeOK, read_loop, Goto, release
<1>3. Ends'
  BY DEF TypeOK, Ends, read_loop, Goto, release
<1>4. Sleepers'
  BY <1>1 DEF TypeOK, Ends, Sleepers, read_loop, Goto, release
<1> QED BY Zenon, <1>1, <1>2, <1>3, <1>4

\* pipe.c:118: the reader sleeps with pi->lock held since the test.
LEMMA ReadSleepInv ==
    ASSUME IInv, NEW r \in Reader, read_sleep(r)
    PROVE  IInv'
<1>1. Used' = Used /\ Bytes' = Bytes /\ (Empty' <=> Empty) /\ (Full' <=> Full)
  BY Zenon, RingKept DEF read_sleep
<1> USE PipeAssumption DEF IInv, Proc, ring, ends
<1>2. TypeOK'
  BY Zenon DEF TypeOK, read_sleep, Goto, release
<1>3. Ends'
  BY Zenon DEF TypeOK, Ends, read_sleep, Goto, release
<1>4. Sleepers'
  BY Zenon, <1>1 DEF TypeOK, Ends, Sleepers, read_sleep, Goto, release
<1> QED BY Zenon, <1>1, <1>2, <1>3, <1>4

\* pipe.c:120-128: the end of piperead().
LEMMA ReadEndInv ==
    ASSUME IInv, NEW r \in Reader, read_end(r)
    PROVE  IInv'
<1>1. Used' = Used /\ Bytes' = Bytes /\ (Empty' <=> Empty) /\ (Full' <=> Full)
  BY Zenon, RingKept DEF read_end
<1> USE PipeAssumption DEF IInv, Proc, ring, ends
<1>2. TypeOK'
  BY Zenon DEF TypeOK, read_end, release, wakeup
<1>3. Ends'
  BY Zenon DEF TypeOK, Ends, read_end, release, wakeup
<1>4. Sleepers'
  BY ZenonT(60), <1>1 DEF TypeOK, Ends, Sleepers, read_end, release, wakeup
<1> QED BY Zenon, <1>1, <1>2, <1>3, <1>4

\* pipe.c:58-74: pipeclose().
LEMMA CloseInv ==
    ASSUME IInv, NEW p \in Proc, close(p)
    PROVE  IInv'
<1>1. Used' = Used /\ Bytes' = Bytes /\ (Empty' <=> Empty) /\ (Full' <=> Full)
  BY Zenon, RingKept DEF close
<1> USE PipeAssumption DEF IInv, Proc, ring, ends
<1>2. TypeOK'
  BY Zenon DEF TypeOK, close, wakeup, Last
<1>3. Ends'
  BY DEF TypeOK, Ends, close, wakeup, Last
<1>4. Sleepers'
  <2>1. (\A v \in Writer : pc[v] # "sleep" /\ (pc[v] = "copy" => readopen /\ left[v] > 0))'
    BY <1>1 DEF TypeOK, Ends, Sleepers, close, wakeup, Last
  <2>2. (\A r \in Reader : pc[r] = "sleep" => Empty /\ writeopen)'
    BY <1>1 DEF TypeOK, Ends, Sleepers, close, wakeup, Last
  <2>3. (\A v \in Writer : pc[v] = "asleep"
            => readopen /\ (Full \/ \E r \in Reader : pc[r] = "copy"))'
    BY <1>1 DEF TypeOK, Ends, Sleepers, close, wakeup, Last
  <2>4. ((\A v \in Writer : ~killed[v]) => \A r \in Reader : pc[r] = "asleep"
            => writeopen /\ (Empty \/ \E v \in Writer : pc[v] \in {"loop", "copy"}))'
    BY <1>1 DEF TypeOK, Ends, Sleepers, close, wakeup, Last
  <2> QED BY Zenon, <2>1, <2>2, <2>3, <2>4 DEF Sleepers
<1> QED BY Zenon, <1>1, <1>2, <1>3, <1>4

\* kkill() needs no pi->lock.
LEMMA KillInv ==
    ASSUME IInv, NEW p \in Proc, kkill(p)
    PROVE  IInv'
<1>1. Used' = Used /\ Bytes' = Bytes /\ (Empty' <=> Empty) /\ (Full' <=> Full)
  BY Zenon, RingKept DEF kkill
<1> USE PipeAssumption DEF IInv, Proc, ring, ends
<1>2. TypeOK'
  BY Zenon DEF TypeOK, kkill
<1>3. Ends'
  BY Zenon DEF TypeOK, Ends, kkill
<1>4. Sleepers'
  BY Zenon, <1>1 DEF TypeOK, Ends, Sleepers, kkill
<1> QED BY Zenon, <1>1, <1>2, <1>3, <1>4

\* pipe.c:95: a byte goes in.
LEMMA WriteByteInv ==
    ASSUME IInv, NEW w \in Writer, NEW b \in Byte, write_byte(w, b)
    PROVE  IInv' /\ Used < PIPESIZE /\ Bytes' = Append(Bytes, b)
<1>0. Used \in 0..PIPESIZE /\ Used < PIPESIZE
  BY InRing, Sizes DEF write_byte
<1>1. Counters' /\ Used' = Used + 1 /\ Bytes' = Append(Bytes, b)
  BY Zenon, <1>0, PutByte DEF IInv, write_byte
<1>2. Len(Bytes)' <= PIPESIZE
  BY <1>0, <1>1, RingNext, Sizes DEF Ring
<1> USE PipeAssumption DEF IInv, Proc, ring, ends
<1>3. TypeOK'
  <2>1. data' \in [0..(PIPESIZE - 1) -> Byte]
    BY Zenon DEF TypeOK, write_byte
  <2>2. left[w] # 0
    BY DEF Sleepers, TypeOK, write_byte
  <2>3. left' \in [Proc -> Nat]
    BY <2>2 DEF TypeOK, write_byte
  <2> QED BY Zenon, <1>1, <2>1, <2>3 DEF TypeOK, Counters, write_byte, Goto
<1>4. Ends'
  BY Zenon DEF TypeOK, Ends, write_byte, Goto
<1>5. Sleepers'
  BY ZenonT(60) DEF TypeOK, Ends, Sleepers, write_byte, Goto
<1> QED BY Zenon, <1>0, <1>1, <1>2, <1>3, <1>4, <1>5

\* pipe.c:123-128: a byte comes out.
LEMMA ReadByteInv ==
    ASSUME IInv, NEW r \in Reader, read_byte(r)
    PROVE  IInv' /\ Used > 0 /\ Bytes' = Tail(Bytes)
<1>0. Used \in 0..PIPESIZE /\ Used > 0
  BY InRing, Sizes DEF read_byte
<1>1. Counters' /\ Used' = Used - 1 /\ Bytes' = Tail(Bytes)
  BY Zenon, <1>0, GetByte DEF IInv, read_byte
<1>2. Len(Bytes)' <= PIPESIZE
  BY <1>0, <1>1, RingNext, Sizes DEF Ring
<1> USE PipeAssumption DEF IInv, Proc, ring, ends
<1>3. TypeOK'
  <2>1. left' \in [Proc -> Nat]
    <3>1. /\ left \in [Proc -> Nat] /\ left[r] > 0
          /\ left' = [left EXCEPT ![r] = @ - 1] \/ left' = left
      BY Zenon DEF TypeOK, read_byte
    <3> QED BY ONLY <3>1
  <2> QED BY Zenon, <1>1, <2>1 DEF TypeOK, Counters, read_byte, wakeup, release
<1>4. Ends'
  BY DEF TypeOK, Ends, read_byte, wakeup, release
<1>5. Sleepers'
  BY DEF TypeOK, Ends, Sleepers, read_byte, wakeup, release
<1> QED BY Zenon, <1>0, <1>1, <1>2, <1>3, <1>4, <1>5

----------------------------------------------------------------------------
(* The theorems. *)

LEMMA StepInv == IInv /\ [Next]_vars => IInv'
<1> SUFFICES ASSUME IInv, [Next]_vars PROVE IInv'
  BY Zenon
<1>1. CASE UNCHANGED vars
  <2>1. UNCHANGED ring
    BY Zenon, <1>1 DEF vars
  <2>2. Bytes' = Bytes /\ (Empty' <=> Empty) /\ (Full' <=> Full)
    BY Zenon, <2>1, RingKept
  <2> QED BY Zenon, <1>1, <2>2 DEF vars, ring, ends, IInv, TypeOK, Ends, Sleepers
<1>2. CASE \E p \in Proc : (\E c \in Count : call(p, c)) \/ acquire(p) \/ close(p) \/ kkill(p)
  BY Zenon, <1>2, CallInv, AcquireInv, CloseInv, KillInv
<1>3. CASE \E w \in Writer : Write(w)
  BY Zenon, <1>3, WriteLoopInv, WriteSleepInv, CopyinFailsInv, WriteByteInv DEF Write
<1>4. CASE \E r \in Reader : Read(r)
  BY Zenon, <1>4, ReadLoopInv, ReadSleepInv, ReadByteInv, ReadEndInv DEF Read
<1> QED BY Zenon, <1>1, <1>2, <1>3, <1>4 DEF Next

\* pi->lock, the ends, the sleepers and the ring of a pipe are always consistent.
THEOREM PipeInvariance == Spec => []IInv
BY InitInv, StepInv, PTL DEF Spec

\* No reader or writer sleeps for what is already there.
THEOREM PipeNoLostWakeup == Spec => []NoLostWakeup
<1>1. IInv => NoLostWakeup
  BY Zenon, PipeAssumption DEF IInv, NoLostWakeup, Ends, Sleepers, TypeOK, Proc
<1> QED BY <1>1, PipeInvariance, PTL

\* The bytes come out of the ring in the order they went in, none lost, repeated or
\* overwritten, whatever the width of the counters.
THEOREM PipeRefinesStream == Spec => PipeFifo
<1>1. Init => Stream!Init
  <2> SUFFICES ASSUME Init PROVE Bytes = <<>>
    BY Zenon DEF Init, Stream!Init
  <2>1. Used = 0
    BY Zenon, InitInv, InRing DEF Init, Empty
  <2> QED BY <2>1 DEF Bytes
<1>2. IInv /\ [Next]_vars => [Stream!Next]_(Stream!vars)
  <2> SUFFICES ASSUME IInv, [Next]_vars PROVE Stream!Next \/ UNCHANGED Stream!vars
    BY Zenon
  <2>1. CASE UNCHANGED <<ring, readopen, writeopen>>
    BY Zenon, <2>1, RingKept DEF Stream!vars
  <2>2. ASSUME NEW w \in Writer, NEW b \in Byte, write_byte(w, b) PROVE Stream!Put(b)
    <3>1. readopen /\ writeopen /\ UNCHANGED <<readopen, writeopen>>
      BY Zenon, <2>2 DEF IInv, TypeOK, Ends, Sleepers, write_byte, ends, Proc
    <3> QED BY Zenon, <2>2, <3>1, WriteByteInv, InRing DEF Stream!Put
  <2>3. ASSUME NEW r \in Reader, read_byte(r) PROVE Stream!Get
    <3>1. readopen /\ UNCHANGED <<readopen, writeopen>>
      BY Zenon, <2>3 DEF IInv, TypeOK, Ends, read_byte, ends, Proc
    <3>2. Bytes' = Tail(Bytes) /\ Bytes # <<>>
      BY <2>3, ReadByteInv, InRing
    <3> QED BY Zenon, <3>1, <3>2 DEF Stream!Get
  <2>4. ASSUME NEW p \in Proc, close(p)
        PROVE  Stream!Next \/ UNCHANGED <<ring, readopen, writeopen>>
    <3>1. UNCHANGED ring /\ Bytes' = Bytes
      BY Zenon, <2>4, RingKept DEF close
    <3>2. CASE Last(p, Writer) /\ writeopen' = FALSE /\ UNCHANGED readopen
      <4>1. writeopen
        BY Zenon, <2>4, <3>2 DEF IInv, TypeOK, Ends, close, Last
      <4> QED BY Zenon, <3>1, <3>2, <4>1 DEF Stream!Next, Stream!CloseWrite
    <3>3. CASE Last(p, Reader) /\ readopen' = FALSE /\ UNCHANGED writeopen
      <4>1. readopen
        BY Zenon, <2>4, <3>3 DEF IInv, TypeOK, Ends, close, Last
      <4> QED BY Zenon, <3>1, <3>3, <4>1 DEF Stream!Next, Stream!CloseRead
    <3> QED BY Zenon, <2>4, <3>1, <3>2, <3>3 DEF close
  <2>5. CASE UNCHANGED vars
    BY Zenon, <2>1, <2>5 DEF vars, ends
  <2>6. CASE \E p \in Proc : (\E c \in Count : call(p, c)) \/ acquire(p) \/ close(p) \/ kkill(p)
    BY Zenon, <2>1, <2>4, <2>6 DEF call, acquire, kkill, ends
  <2>7. CASE \E w \in Writer : Write(w)
    BY Zenon, <2>1, <2>2, <2>7 DEF Write, write_loop, write_sleep, copyin_fails, ends, Stream!Next
  <2>8. CASE \E r \in Reader : Read(r)
    BY Zenon, <2>1, <2>3, <2>8 DEF Read, read_loop, read_sleep, read_end, ends, Stream!Next
  <2> QED BY Zenon, <2>5, <2>6, <2>7, <2>8 DEF Next
<1> QED BY <1>1, <1>2, PipeInvariance, PTL DEF Spec, PipeFifo, Stream!Spec
=============================================================================
