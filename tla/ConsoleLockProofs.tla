------------------------- MODULE ConsoleLockProofs -------------------------
(***************************************************************************)
(* Spin-locks and interrupts under the console, for any number of CPUs,    *)
(* readers and writers: what acquire(), release(), sleep(), an interrupt   *)
(* and the scheduler preserve, whatever the code around them does.         *)
(***************************************************************************)
EXTENDS Console, Integers, TLAPS

(* The parts of the invariant. *)

Types ==
    /\ sie \in [CPU -> BOOLEAN] /\ intena \in [CPU -> BOOLEAN] /\ noff \in [CPU -> 0..2]
    /\ run \in [CPU -> Proc \cup {None}] /\ holder \in [Lock -> CPU \cup {None}]
    /\ pc \in [CPU \cup Proc -> HandlerPc \cup ProcPc]
    /\ goal \in [CPU \cup Proc -> HandlerPc \cup ProcPc]
    /\ state \in [Proc -> {"RUNNING", "RUNNABLE", "SLEEPING"}]
    /\ saved \in [Proc -> {"on", "off", "trap"}] /\ killed \in [Proc -> BOOLEAN]
    /\ left \in [Proc -> 0..(MaxRead + MaxWrite)] /\ target \in [Proc -> 0..MaxRead]
    /\ claimed \in CPU \cup {None} /\ rx \in BOOLEAN /\ sending \in BOOLEAN
    /\ tx_int \in BOOLEAN /\ tx_busy \in BOOLEAN

Ring ==
    /\ buf \in [0..(INPUT_BUF_SIZE - 1) -> Char \cup {"nul"}]
    /\ r \in 0..(UINT - 1) /\ w \in 0..(UINT - 1) /\ e \in 0..(UINT - 1)
    /\ Sub(w, r) <= Sub(e, r) /\ Sub(e, r) <= INPUT_BUF_SIZE
    /\ typed = Input
    /\ Sub(e, r) = INPUT_BUF_SIZE => w = e
    /\ \A k \in 1..Sub(e, w) : At(Sub(e, k)) \notin {"newline", "D"}

LEMMA Parts == InputKept <=> Types /\ Ring
BY Zenon DEF InputKept, TypeOK, Types, Ring

----------------------------------------------------------------------------
(* Threads and locks. *)

\* What the invariant says of the CPU c.
HolderOK(c, lk) == holder[lk] = c <=> Holds(c, lk) \/ (run[c] # None /\ Holds(run[c], lk))
NoffOK(c)   == noff[c] = IF pc[c] # "none" THEN Depth(c) ELSE IF run[c] = None THEN 0 ELSE Depth(run[c])
SieOK(c)    == sie[c] <=> noff[c] = 0 /\ pc[c] = "none"
IntenaOK(c) == noff[c] > 0 => (intena[c] <=> pc[c] = "none")
RunOK(c)    == run[c] # None => /\ state[run[c]] = "RUNNING"
                                /\ pc[c] # "none" => pc[run[c]] \in Outside

CpuOK(c) ==
    /\ \A lk \in Lock : HolderOK(c, lk)
    /\ NoffOK(c)
    /\ SieOK(c)
    /\ IntenaOK(c)
    /\ RunOK(c)

\* What it says of the thread t.
PlaceOK(t) ==
    /\ t \in CPU => pc[t] \in HandlerPc
    /\ t \in Proc => pc[t] \in ProcPc
    /\ pc[t] \in Lock => goal[t] = Next_of(t, pc[t])

Claims == \A c \in CPU : pc[c] # "none" <=> claimed = c
OneCpu == \A c, d \in CPU : run[c] = run[d] /\ run[c] # None => c = d
Offs   == \A p \in Proc : state[p] # "RUNNING" => pc[p] \in Outside /\ saved[p] # "off"
Lefts  == \A p \in Proc : pc[p] \in {"cons", "read", "read_woken", "tx", "write", "write_woken"} => left[p] > 0

Pieces ==
    /\ \A c \in CPU : CpuOK(c)
    /\ \A t \in CPU \cup Proc : PlaceOK(t)
    /\ Claims /\ OneCpu /\ Offs
    /\ panic = "none"

LEMMA ThreadParts == Threads /\ Locks <=> Pieces /\ Lefts
<1>1. Locks <=> /\ \A c \in CPU : /\ \A lk \in Lock : HolderOK(c, lk)
                                  /\ NoffOK(c) /\ SieOK(c) /\ IntenaOK(c)
                /\ panic = "none"
  BY Zenon DEF Locks, HolderOK, NoffOK, SieOK, IntenaOK
<1>2. Threads <=> /\ \A c \in CPU : RunOK(c)
                  /\ \A t \in CPU \cup Proc : PlaceOK(t)
                  /\ Claims /\ OneCpu /\ Offs /\ Lefts
  BY Zenon, ConsoleAssumption DEF Threads, RunOK, PlaceOK, Claims, OneCpu, Offs, Lefts
<1> QED BY ONLY <1>1, <1>2, Zenon DEF CpuOK, Pieces

\* The thread t runs on c.
Runs(c, t) == \/ t = c /\ pc[c] # "none"
              \/ t \in Proc /\ run[c] = t /\ pc[c] = "none"

LEMMA OnRuns ==
    ASSUME Types, NEW c \in CPU, NEW t \in CPU \cup Proc, On(c, t)
    PROVE  Runs(c, t)
BY Zenon, ConsoleAssumption DEF Types, On, Runs

LEMMA ProcIsNotCpu == \A c \in CPU : c \notin Proc /\ c # None
BY Zenon, ConsoleAssumption

LEMMA RunType ==
    ASSUME Types, NEW c \in CPU
    PROVE  run[c] # None => run[c] \in Proc /\ run[c] \notin CPU
<1>1. run \in [CPU -> Proc \cup {None}]
  BY Zenon DEF Types
<1> QED BY Zenon, <1>1, ProcIsNotCpu

LEMMA NoffType ==
    ASSUME Types, NEW c \in CPU
    PROVE  noff[c] \in 0..2
<1>1. noff \in [CPU -> 0..2]
  BY Zenon DEF Types
<1> QED BY Zenon, <1>1

LEMMA RunsIs ==
    ASSUME NEW c \in CPU, NEW t \in CPU \cup Proc, Runs(c, t)
    PROVE  /\ t = c => pc[c] # "none"
           /\ t # c => t \in Proc /\ run[c] = t /\ pc[c] = "none" /\ run[c] # None
BY ConsoleAssumption, Zenon DEF Runs

\* A step of the thread on c does not concern another CPU.
LEMMA Others ==
    ASSUME Types, OneCpu, NEW c \in CPU, NEW t \in CPU \cup Proc, Runs(c, t), NEW l, Goto(t, l),
           NEW d \in CPU, d # c
    PROVE  /\ pc'[d] = pc[d]
           /\ run[d] # None => pc'[run[d]] = pc[run[d]]
<1>1. d # t
  BY Zenon, ConsoleAssumption DEF Runs, Types
<1>2. run[d] # None => run[d] \in Proc /\ run[d] # t
  <2>2. run[d] # None => run[d] \in Proc /\ run[d] # c
    BY Zenon, RunType
  <2>3. run[d] # None => run[d] # run[c]
    BY Zenon DEF OneCpu
  <2> QED BY <2>2, <2>3, Zenon DEF Runs
<1> QED BY Zenon, <1>1, <1>2 DEF Goto, Types

LEMMA OtherCpu ==
    ASSUME Types, NEW d \in CPU, CpuOK(d),
           pc'[d] = pc[d], run'[d] = run[d], run[d] # None => pc'[run[d]] = pc[run[d]],
           noff'[d] = noff[d], sie'[d] = sie[d], intena'[d] = intena[d],
           \A lk \in Lock : holder'[lk] = d <=> holder[lk] = d,
           run[d] # None => state'[run[d]] = "RUNNING"
    PROVE  CpuOK(d)'
<1>1. \A lk \in Lock : HolderOK(d, lk)'
  BY Zenon DEF CpuOK, HolderOK, Holds
<1>2. NoffOK(d)'
  BY Zenon DEF CpuOK, NoffOK, Depth
<1>3. SieOK(d)' /\ IntenaOK(d)'
  BY Zenon DEF CpuOK, SieOK, IntenaOK
<1>4. RunOK(d)'
  BY Zenon DEF CpuOK, RunOK
<1> QED BY Zenon, <1>1, <1>2, <1>3, <1>4 DEF CpuOK

LEMMA PushOff ==
    ASSUME Types, NEW c \in CPU, SieOK(c), IntenaOK(c), push_off(c)
    PROVE  /\ noff'[c] = noff[c] + 1
           /\ sie'[c] = FALSE
           /\ intena'[c] <=> pc[c] = "none"
           /\ \A d \in CPU : d # c => noff'[d] = noff[d] /\ sie'[d] = sie[d] /\ intena'[d] = intena[d]
<1> USE DEF Types, push_off
<1>1. noff'[c] = noff[c] + 1 /\ \A d \in CPU : d # c => noff'[d] = noff[d]
  BY Zenon
<1>2. sie'[c] = FALSE /\ \A d \in CPU : d # c => sie'[d] = sie[d]
  BY Zenon
<1>3. intena'[c] = (IF noff[c] = 0 THEN sie[c] ELSE intena[c])
  BY Zenon
<1>4. \A d \in CPU : d # c => intena'[d] = intena[d]
  BY Zenon
<1>5. intena'[c] <=> pc[c] = "none"
  <2>1. CASE noff[c] = 0
    BY ONLY <1>3, <2>1, SieOK(c), Zenon DEF SieOK
  <2>2. CASE noff[c] # 0
    <3>1. noff[c] > 0
      BY ONLY <2>2, noff \in [CPU -> 0..2], c \in CPU
    <3> QED BY ONLY <1>3, <2>2, <3>1, IntenaOK(c), Zenon DEF IntenaOK
  <2> QED BY ONLY Zenon, <2>1, <2>2
<1> QED BY <1>1, <1>2, <1>4, <1>5, Zenon

LEMMA PopOff ==
    ASSUME Types, NEW c \in CPU, IntenaOK(c), noff[c] >= 1, pop_off(c)
    PROVE  /\ noff'[c] = noff[c] - 1
           /\ sie'[c] <=> noff'[c] = 0 /\ pc[c] = "none"
           /\ intena' = intena
           /\ \A d \in CPU : d # c => noff'[d] = noff[d] /\ sie'[d] = sie[d]
<1> USE DEF Types, pop_off
<1>1. noff'[c] = noff[c] - 1 /\ \A d \in CPU : d # c => noff'[d] = noff[d]
  BY Zenon
<1>2. \A d \in CPU : d # c => sie'[d] = sie[d]
  BY Zenon
<1>3. sie'[c] = (noff[c] = 1 /\ intena[c])
  BY Zenon
<1>4. noff[c] > 0 /\ (noff[c] = 1 <=> noff'[c] = 0)
  BY ONLY <1>1, noff[c] >= 1, noff \in [CPU -> 0..2], c \in CPU
<1>5. sie'[c] <=> noff'[c] = 0 /\ pc[c] = "none"
  BY ONLY <1>3, <1>4, IntenaOK(c), Zenon DEF IntenaOK
<1> QED BY <1>1, <1>2, <1>5, Zenon DEF pop_off

\* The places of the other threads.
LEMMA PlacesKept ==
    ASSUME Types, NEW t \in CPU \cup Proc, NEW l, Goto(t, l),
           NEW g, goal' = [goal EXCEPT ![t] = g],
           \A u \in CPU \cup Proc : PlaceOK(u), PlaceOK(t)'
    PROVE  \A u \in CPU \cup Proc : PlaceOK(u)'
<1>1. \A u \in CPU \cup Proc : u # t => pc'[u] = pc[u] /\ goal'[u] = goal[u]
  BY Zenon DEF Goto, Types
<1> QED BY Zenon, <1>1 DEF PlaceOK

\* The thread that runs on c holds what c holds, and nobody else there counts.
LEMMA HeldByThread ==
    ASSUME Types, Pieces, NEW c \in CPU, NEW t \in CPU \cup Proc, Runs(c, t)
    PROVE  /\ \A lk \in Lock : holder[lk] = c <=> Holds(t, lk)
           /\ noff[c] = Depth(t)
           /\ SieOK(c) /\ IntenaOK(c)
           /\ t \in Proc => state[t] = "RUNNING"
<1>1. CpuOK(c)
  BY Zenon DEF Pieces
<1>2. noff[c] = Depth(t)
  BY Zenon, <1>1, RunsIs DEF CpuOK, NoffOK
<1>3. ASSUME NEW lk \in Lock PROVE holder[lk] = c <=> Holds(t, lk)
  <2>1. HolderOK(c, lk)
    BY Zenon, <1>1 DEF CpuOK
  <2>2. CASE t = c
    <3>1. run[c] # None => pc[run[c]] \in Outside /\ run[c] \notin CPU
      BY Zenon, <1>1, <2>2, RunsIs, RunType DEF CpuOK, RunOK
    <3> QED BY Zenon, <2>1, <2>2, <3>1 DEF HolderOK, Holds, Outside
  <2>3. CASE t # c
    BY Zenon, <2>1, <2>3, RunsIs DEF HolderOK, Holds
  <2> QED BY Zenon, <2>2, <2>3
<1>4. t \in Proc => state[t] = "RUNNING"
  BY Zenon, <1>1, RunsIs, ProcIsNotCpu DEF CpuOK, RunOK
<1> QED BY Zenon, <1>1, <1>2, <1>3, <1>4 DEF CpuOK

\* A step of the thread on c, in which it goes to l and the CPU is right afterwards.
LEMMA ThreadStep ==
    ASSUME Types, Pieces, NEW c \in CPU, NEW t \in CPU \cup Proc, Runs(c, t),
           NEW l, l # "none", Goto(t, l), NEW g, goal' = [goal EXCEPT ![t] = g], PlaceOK(t)',
           UNCHANGED <<run, saved, claimed>>,
           \A p \in Proc : state'[p] = "RUNNING" <=> state[p] = "RUNNING",
           \A d \in CPU : d # c => noff'[d] = noff[d] /\ sie'[d] = sie[d] /\ intena'[d] = intena[d],
           \A d \in CPU, lk \in Lock : d # c => (holder'[lk] = d <=> holder[lk] = d),
           \A lk \in Lock : holder'[lk] = c <=> Holds(t, lk)',
           noff'[c] = Depth(t)', SieOK(c)', IntenaOK(c)', panic' = "none"
    PROVE  Pieces'
<1>1. CpuOK(c) /\ OneCpu /\ Claims /\ Offs
  BY Zenon DEF Pieces
<1>2. ASSUME NEW d \in CPU, d # c PROVE CpuOK(d)'
  <2>1. pc'[d] = pc[d] /\ (run[d] # None => pc'[run[d]] = pc[run[d]])
    BY Zenon, <1>1, <1>2, Others
  <2>2. run[d] # None => state'[run[d]] = "RUNNING"
    BY Zenon, RunType DEF Pieces, CpuOK, RunOK
  <2>3. CpuOK(d)
    BY Zenon DEF Pieces
  <2>4. \A lk \in Lock : holder'[lk] = d <=> holder[lk] = d
    BY <1>2, Zenon
  <2>5. noff'[d] = noff[d] /\ sie'[d] = sie[d] /\ intena'[d] = intena[d]
    BY <1>2, Zenon
  <2>6. run'[d] = run[d]
    BY Zenon
  <2> QED BY ONLY Zenon, Types, d \in CPU, <2>1, <2>2, <2>3, <2>4, <2>5, <2>6, OtherCpu
<1>3. pc'[t] = l
  BY Zenon DEF Types, Goto
<1>4. /\ t # c => pc'[c] = pc[c]
      /\ t = c /\ run[c] # None => pc'[run[c]] = pc[run[c]]
  <2>1. run[c] # None => run[c] \in Proc /\ run[c] # c
    BY Zenon, RunType
  <2> QED BY Zenon, <2>1 DEF Types, Goto
<1>5. pc'[c] = "none" <=> pc[c] = "none"
  BY Zenon, <1>3, <1>4, RunsIs
<1>6. RunOK(c)'
  <2>1. RunOK(c)
    BY Zenon, <1>1 DEF CpuOK
  <2>2. run[c] # None => state'[run[c]] = "RUNNING"
    BY Zenon, <2>1, RunType DEF RunOK
  <2> QED BY Zenon, <1>4, <1>5, <2>1, <2>2, RunsIs DEF RunOK
<1>7. ASSUME NEW lk \in Lock PROVE HolderOK(c, lk)'
  <2>1. CASE t = c
    <3>1. run[c] # None => pc'[run[c]] \in Outside /\ run[c] \notin CPU
      BY Zenon, <1>1, <1>4, <2>1, RunsIs, RunType DEF CpuOK, RunOK
    <3> QED BY Zenon, <2>1, <3>1 DEF HolderOK, Holds, Outside
  <2>2. CASE t # c
    <3>1. pc'[c] = "none" /\ run'[c] = t /\ run'[c] # None /\ c \in CPU
      BY Zenon, <1>4, <2>2, RunsIs
    <3> QED BY Zenon, <3>1 DEF HolderOK, Holds
  <2> QED BY Zenon, <2>1, <2>2
<1>8. NoffOK(c)'
  BY Zenon, <1>3, <1>4, RunsIs DEF NoffOK
<1>9. CpuOK(c)'
  BY Zenon, <1>6, <1>7, <1>8 DEF CpuOK
<1>10. \A u \in CPU \cup Proc : PlaceOK(u)'
  <2>1. \A u \in CPU \cup Proc : PlaceOK(u)
    BY Zenon DEF Pieces
  <2> QED BY Zenon, <2>1, PlacesKept
<1>11. Claims'
  <2>1. ASSUME NEW d \in CPU PROVE pc'[d] # "none" <=> pc[d] # "none"
    <3>1. d # c => pc'[d] = pc[d]
      BY Zenon, <1>1, Others
    <3> QED BY Zenon, <1>5, <3>1
  <2> QED BY <1>1, <2>1, Zenon DEF Claims
<1>12. OneCpu' /\ Offs'
  <2>1. t \in Proc => state[t] = "RUNNING"
    BY Zenon, HeldByThread
  <2> QED BY Zenon, <1>1, <2>1 DEF OneCpu, Offs, Goto, Types
<1> QED
  <2>1. \A d \in CPU : CpuOK(d)'
    BY Zenon, <1>2, <1>9
  <2> QED BY Zenon, <1>10, <1>11, <1>12, <2>1 DEF Pieces

\* spinlock.c:21-43: acquire() up to the test-and-set.
LEMMA Acquires ==
    ASSUME Types, Pieces, NEW c \in CPU, NEW t \in CPU \cup Proc, NEW lk \in Lock, Runs(c, t),
           acquire(c, t, lk, Next_of(t, lk)),
           UNCHANGED <<run, holder, state, saved, claimed>>,
           \/ t \in Proc /\ pc[t] \in Outside
           \/ t = c /\ lk # "pr" /\ pc[c] \in {"uartintr", "uartgetc"}
           \/ t = c /\ lk = "pr" /\ pc[c] = "consoleintr"
    PROVE  Pieces'
<1>1. /\ \A k \in Lock : holder[k] = c <=> Holds(t, k)
      /\ noff[c] = Depth(t)
      /\ SieOK(c) /\ IntenaOK(c)
  BY Zenon, HeldByThread
<1>2. /\ noff'[c] = noff[c] + 1
      /\ sie'[c] = FALSE
      /\ intena'[c] <=> pc[c] = "none"
      /\ \A d \in CPU : d # c => noff'[d] = noff[d] /\ sie'[d] = sie[d] /\ intena'[d] = intena[d]
  BY Zenon, <1>1, PushOff DEF acquire
<1>3. Goto(t, lk) /\ goal' = [goal EXCEPT ![t] = Next_of(t, lk)]
  BY Zenon DEF acquire
<1>4. pc'[t] = lk /\ goal'[t] = Next_of(t, lk) /\ lk # "none" /\ (t # c => pc'[c] = pc[c])
  BY Zenon, <1>3 DEF Types, Goto, Lock
<1>5. PlaceOK(t)'
  BY Zenon, <1>4, ProcIsNotCpu DEF PlaceOK, Lock, HandlerPc, ProcPc
<1>6. \A k \in Lock : holder'[k] = c <=> Holds(t, k)'
  <2>1. \A k \in Lock : Holds(t, k)' <=> Holds(t, k)
    BY Zenon, <1>4, ProcIsNotCpu DEF Holds, Lock, Outside
  <2> QED BY Zenon, <1>1, <2>1
<1>7. noff'[c] = Depth(t)'
  BY <1>1, <1>2, <1>4, ProcIsNotCpu DEF Depth, Lock, Outside
<1>8. SieOK(c)' /\ IntenaOK(c)'
  <2>1. noff'[c] # 0
    BY <1>2, NoffType
  <2>2. pc'[c] = "none" <=> pc[c] = "none"
    BY Zenon, <1>4, RunsIs
  <2> QED BY ONLY <1>2, <2>1, <2>2, Zenon DEF SieOK, IntenaOK
<1>9. panic' = "none"
  <2>1. ~Holds(t, lk)
    BY Zenon, ProcIsNotCpu DEF Holds, Outside, Lock
  <2>2. holder[lk] # c /\ panic = "none"
    BY Zenon, <1>1, <2>1 DEF Pieces
  <2> QED BY Zenon, <2>2 DEF acquire
<1> QED BY Zenon, <1>2, <1>3, <1>4, <1>5, <1>6, <1>7, <1>8, <1>9, ThreadStep

\* spinlock.c:46-72: release().
LEMMA Releases ==
    ASSUME Types, Pieces, NEW c \in CPU, NEW t \in CPU \cup Proc, NEW lk \in Lock, Runs(c, t), NEW l,
           release(c, t, lk, l),
           UNCHANGED <<run, goal, saved, claimed>>,
           \A p \in Proc : state'[p] = "RUNNING" <=> state[p] = "RUNNING",
           \/ t \in Proc /\ Holds(t, lk) /\ l = "user"
           \/ t = c /\ lk = "pr" /\ pc[c] = "putc_end" /\ l = "cons_end"
           \/ t = c /\ lk = "tx" /\ pc[c] = "tx_idle" /\ l = "uartgetc"
           \/ t = c /\ lk = "cons" /\ pc[c] = "cons_end" /\ l = "uartgetc"
    PROVE  Pieces'
<1>1. /\ \A k \in Lock : holder[k] = c <=> Holds(t, k)
      /\ noff[c] = Depth(t)
      /\ SieOK(c) /\ IntenaOK(c)
  BY Zenon, HeldByThread
<1>2. Holds(t, lk) /\ holder[lk] = c
  BY Zenon, <1>1 DEF Holds
<1>3. noff[c] >= 1
  BY <1>1, <1>2 DEF Holds, Depth, Outside
<1>4. /\ noff'[c] = noff[c] - 1
      /\ sie'[c] <=> noff'[c] = 0 /\ pc[c] = "none"
      /\ intena' = intena
      /\ \A d \in CPU : d # c => noff'[d] = noff[d] /\ sie'[d] = sie[d]
  BY Zenon, <1>1, <1>3, PopOff DEF release
<1>5. Goto(t, l) /\ goal' = [goal EXCEPT ![t] = goal[t]]
  BY Zenon DEF release, Types
<1>6. pc'[t] = l /\ l # "none" /\ (t # c => pc'[c] = pc[c])
  BY Zenon, <1>5 DEF Types, Goto
<1>7. PlaceOK(t)'
  BY Zenon, <1>6, ProcIsNotCpu DEF PlaceOK, Lock, HandlerPc, ProcPc
<1>8. \A k \in Lock : k # lk => holder'[k] = holder[k]
  BY Zenon DEF release, Types
<1>9. holder'[lk] = None
  BY Zenon DEF release, Types
<1>10. \A k \in Lock : holder'[k] = c <=> Holds(t, k)'
  <2>1. \A k \in Lock : Holds(t, k)' <=> Holds(t, k) /\ k # lk
    BY Zenon, <1>2, <1>6, ProcIsNotCpu DEF Holds, Lock
  <2> QED BY Zenon, <1>1, <1>8, <1>9, <2>1, ProcIsNotCpu
<1>11. \A d \in CPU, k \in Lock : d # c => (holder'[k] = d <=> holder[k] = d)
  BY Zenon, <1>2, <1>8, <1>9, ProcIsNotCpu
<1>12. noff'[c] = Depth(t)'
  BY <1>1, <1>2, <1>4, <1>6, ProcIsNotCpu DEF Depth, Holds, Outside
<1>13. SieOK(c)' /\ IntenaOK(c)'
  <2>1. noff'[c] > 0 => noff[c] > 0
    BY <1>4, NoffType
  <2>2. pc'[c] = "none" <=> pc[c] = "none"
    BY Zenon, <1>6, RunsIs
  <2> QED BY ONLY <1>1, <1>4, <2>1, <2>2, Zenon DEF SieOK, IntenaOK
<1>14. panic' = "none"
  <2>1. ~sie[c]
    <3>1. noff[c] # 0
      BY <1>3, NoffType
    <3> QED BY <1>1, <3>1, Zenon DEF SieOK
  <2>2. ~(noff[c] < 1)
    BY <1>3, NoffType
  <2>3. panic = "none"
    BY Zenon DEF Pieces
  <2> QED BY ONLY Zenon, <1>2, <2>1, <2>2, <2>3, release(c, t, lk, l) DEF release
<1>15. \A d \in CPU : d # c => noff'[d] = noff[d] /\ sie'[d] = sie[d] /\ intena'[d] = intena[d]
  BY <1>4, Zenon
<1> QED BY Zenon, <1>5, <1>6, <1>7, <1>10, <1>11, <1>12, <1>13, <1>14, <1>15, ThreadStep

\* spinlock.c:35-42: the test-and-set takes the lock.
LEMMA Spins ==
    ASSUME Types, Pieces, NEW c \in CPU, NEW t \in CPU \cup Proc, spin(c, t)
    PROVE  Pieces'
<1>1. /\ \A k \in Lock : holder[k] = c <=> Holds(t, k)
      /\ noff[c] = Depth(t)
      /\ SieOK(c) /\ IntenaOK(c)
      /\ Runs(c, t)
  BY Zenon, OnRuns, HeldByThread DEF spin
<1> DEFINE lk == pc[t]
           l  == Next_of(t, lk)
<1>2. lk \in Lock /\ goal[t] = l /\ pc[t] = lk
  BY Zenon DEF spin, Pieces, PlaceOK
<1>3. t \in CPU => lk \in {"cons", "tx", "pr"}
  BY Zenon, <1>2 DEF Lock
<1> HIDE DEF lk
<1>4. l # "none" /\ Goto(t, l) /\ goal' = [goal EXCEPT ![t] = "none"]
  BY Zenon, <1>2 DEF spin, Next_of
<1>5. pc'[t] = l /\ (t # c => pc'[c] = pc[c])
  BY Zenon, <1>4 DEF Types, Goto
<1>6. t = c \/ (t \in Proc /\ t \notin CPU)
  BY Zenon, <1>1, RunsIs, ProcIsNotCpu
<1>7. PlaceOK(t)'
  BY Zenon, <1>2, <1>5, <1>6, ProcIsNotCpu DEF PlaceOK, Lock, HandlerPc, ProcPc, Next_of
<1>8. holder'[lk] = c /\ holder[lk] = None /\ \A k \in Lock : k # lk => holder'[k] = holder[k]
  BY Zenon, <1>2 DEF spin, Types
<1>9. \A k \in Lock : holder'[k] = c <=> Holds(t, k)'
  <2>1. \A k \in Lock : Holds(t, k)' <=> Holds(t, k) \/ k = lk
    BY Zenon, <1>2, <1>5, <1>6 DEF Holds, Lock, Next_of
  <2> QED BY Zenon, <1>1, <1>8, <2>1
<1>10. \A d \in CPU, k \in Lock : d # c => (holder'[k] = d <=> holder[k] = d)
  BY Zenon, <1>8, ProcIsNotCpu
<1>11. noff'[c] = Depth(t)'
  <2>1. Depth(t)' = Depth(t)
    BY Zenon, <1>2, <1>5, <1>6 DEF Depth, Lock, Next_of, Outside
  <2> QED BY Zenon, <1>1, <2>1 DEF spin, cpus
<1>12. SieOK(c)' /\ IntenaOK(c)'
  <2>1. pc'[c] = "none" <=> pc[c] = "none"
    BY Zenon, <1>1, <1>4, <1>5, RunsIs
  <2> QED BY <1>1, <2>1, Zenon DEF SieOK, IntenaOK, spin, cpus
<1>13. /\ panic' = "none" /\ UNCHANGED <<run, saved, claimed, state, noff, sie, intena>>
  BY Zenon DEF spin, Pieces, cpus, procs, uart
<1> QED BY Zenon, <1>1, <1>4, <1>7, <1>9, <1>10, <1>11, <1>12, <1>13, ThreadStep

\* A step inside a section under a lock.
LEMMA Moves ==
    ASSUME Types, Pieces, NEW c \in CPU, NEW t \in CPU \cup Proc, Runs(c, t), NEW l, Goto(t, l),
           UNCHANGED <<cpus, goal, saved, claimed, holder, panic>>,
           \A p \in Proc : state'[p] = "RUNNING" <=> state[p] = "RUNNING",
           \/ t \in Proc /\ pc[t] = "read" /\ l \in {"read", "read_end"}
           \/ t \in Proc /\ pc[t] = "write" /\ l \in {"write", "write_end"}
           \/ pc[t] = "putc" /\ l = "putc_end"
           \/ t = c /\ pc[c] = "consoleintr" /\ l = "cons_end"
    PROVE  Pieces'
<1>1. /\ \A k \in Lock : holder[k] = c <=> Holds(t, k)
      /\ noff[c] = Depth(t)
      /\ SieOK(c) /\ IntenaOK(c)
  BY Zenon, HeldByThread
<1>2. l # "none" /\ goal' = [goal EXCEPT ![t] = goal[t]]
  BY Zenon DEF Types
<1>3. pc'[t] = l /\ (t # c => pc'[c] = pc[c])
  BY Zenon DEF Types, Goto
<1>4. t = c \/ (t \in Proc /\ t \notin CPU)
  BY Zenon, RunsIs, ProcIsNotCpu
<1>5. PlaceOK(t)'
  BY Zenon, <1>3, <1>4, ProcIsNotCpu DEF PlaceOK, Lock, HandlerPc, ProcPc
<1>6. \A k \in Lock : holder'[k] = c <=> Holds(t, k)'
  <2>1. \A k \in Lock : Holds(t, k)' <=> Holds(t, k)
    BY Zenon, <1>3, <1>4, ProcIsNotCpu DEF Holds, Lock
  <2> QED BY Zenon, <1>1, <2>1
<1>7. noff'[c] = Depth(t)'
  <2>1. Depth(t)' = Depth(t)
    BY Zenon, <1>3, <1>4, ProcIsNotCpu DEF Depth, Outside
  <2> QED BY Zenon, <1>1, <2>1 DEF cpus
<1>8. SieOK(c)' /\ IntenaOK(c)'
  <2>1. pc'[c] = "none" <=> pc[c] = "none"
    BY Zenon, <1>2, <1>3, RunsIs
  <2> QED BY <1>1, <2>1, Zenon DEF SieOK, IntenaOK, cpus
<1>9. panic' = "none" /\ UNCHANGED <<run, noff, sie, intena>>
  BY Zenon DEF Pieces, cpus
<1> QED BY Zenon, <1>2, <1>5, <1>6, <1>7, <1>8, <1>9, ThreadStep

(* Steps that put a process on a CPU or take it off. *)

\* A CPU on which the handler or the process changes, and the others as they were.
LEMMA CpuStep ==
    ASSUME Types, Pieces, NEW c \in CPU, CpuOK(c)',
           \A d \in CPU : d # c => /\ noff'[d] = noff[d] /\ sie'[d] = sie[d] /\ intena'[d] = intena[d]
                                   /\ run'[d] = run[d] /\ pc'[d] = pc[d]
                                   /\ run[d] # None => /\ pc'[run[d]] = pc[run[d]]
                                                       /\ state'[run[d]] = "RUNNING",
           \A d \in CPU, lk \in Lock : d # c => (holder'[lk] = d <=> holder[lk] = d),
           \A u \in CPU \cup Proc : PlaceOK(u)', Claims', OneCpu', Offs', panic' = "none"
    PROVE  Pieces'
<1>1. ASSUME NEW d \in CPU, d # c PROVE CpuOK(d)'
  <2>1. CpuOK(d)
    BY Zenon DEF Pieces
  <2>2. \A lk \in Lock : holder'[lk] = d <=> holder[lk] = d
    BY <1>1, Zenon
  <2>3. /\ noff'[d] = noff[d] /\ sie'[d] = sie[d] /\ intena'[d] = intena[d]
        /\ run'[d] = run[d] /\ pc'[d] = pc[d]
        /\ run[d] # None => pc'[run[d]] = pc[run[d]] /\ state'[run[d]] = "RUNNING"
    BY <1>1, Zenon
  <2> QED BY ONLY Zenon, Types, d \in CPU, <2>1, <2>2, <2>3, OtherCpu
<1>2. \A d \in CPU : CpuOK(d)'
  BY Zenon, <1>1
<1> QED BY Zenon, <1>2 DEF Pieces

\* proc.c:562-590: sleep() under lk, the only lock of the process.
LEMMA Sleeps ==
    ASSUME Types, Pieces, NEW c \in CPU, NEW p \in Proc, Runs(c, p), NEW lk \in Lock, NEW l,
           sleep(c, p, lk, l), UNCHANGED <<goal, claimed>>,
           \/ pc[p] = "read" /\ lk = "cons" /\ l = "read_woken"
           \/ pc[p] = "write" /\ lk = "tx" /\ l = "write_woken"
    PROVE  Pieces'
<1>1. /\ \A k \in Lock : holder[k] = c <=> Holds(p, k)
      /\ noff[c] = Depth(p)
      /\ SieOK(c) /\ IntenaOK(c)
      /\ state[p] = "RUNNING"
  BY Zenon, HeldByThread
<1>2. run[c] = p /\ pc[c] = "none" /\ p # c /\ p \notin CPU
  BY Zenon, RunsIs, ProcIsNotCpu
<1>3. OneCpu /\ Claims /\ Offs /\ panic = "none" /\ \A u \in CPU \cup Proc : PlaceOK(u)
  BY Zenon DEF Pieces
<1>4. noff[c] = 1
  BY Zenon, <1>1, <1>2 DEF Depth, Outside
<1>5. intena[c]
  <2>1. noff[c] > 0
    BY <1>4
  <2> QED BY <1>1, <1>2, <2>1, Zenon DEF IntenaOK
<1>6. /\ pc'[p] = l /\ \A u \in CPU \cup Proc : u # p => pc'[u] = pc[u]
      /\ state'[p] = "SLEEPING" /\ \A q \in Proc : q # p => state'[q] = state[q]
      /\ run'[c] = None /\ \A d \in CPU : d # c => run'[d] = run[d]
  BY Zenon DEF sleep, Goto, Types
<1>7. noff'[c] = 0 /\ \A d \in CPU : d # c => noff'[d] = noff[d]
  BY Zenon DEF sleep, Types
<1>8. sie'[c] = TRUE /\ intena' = intena /\ \A d \in CPU : d # c => sie'[d] = sie[d]
  BY Zenon DEF sleep, Types
<1>9. saved'[p] = "on" /\ \A q \in Proc : q # p => saved'[q] = saved[q]
  BY Zenon, <1>5 DEF sleep, Types
<1>10. holder'[lk] = None /\ \A k \in Lock : k # lk => holder'[k] = holder[k]
  BY Zenon DEF sleep, Types
<1>11. \A k \in Lock : holder'[k] # c
  <2>1. \A k \in Lock : k # lk => ~Holds(p, k)
    BY Zenon, <1>2 DEF Holds, Lock
  <2> QED BY Zenon, <1>1, <1>10, <2>1, ProcIsNotCpu
<1>12. CpuOK(c)'
  <2>1. pc'[c] = "none"
    BY Zenon, <1>2, <1>6
  <2>2. \A k \in Lock : HolderOK(c, k)'
    BY Zenon, <1>6, <1>11, <2>1 DEF HolderOK, Holds
  <2>3. NoffOK(c)' /\ RunOK(c)'
    BY Zenon, <1>6, <1>7, <2>1 DEF NoffOK, RunOK
  <2>4. SieOK(c)'
    BY <1>7, <1>8, <2>1, Zenon DEF SieOK
  <2>5. IntenaOK(c)'
    <3>1. ~(noff'[c] > 0)
      BY <1>7
    <3> QED BY <3>1, Zenon DEF IntenaOK
  <2> QED BY Zenon, <2>2, <2>3, <2>4, <2>5 DEF CpuOK
<1>13. ASSUME NEW d \in CPU, d # c
       PROVE  run[d] # None => pc'[run[d]] = pc[run[d]] /\ state'[run[d]] = "RUNNING"
  <2>1. run[d] # None => run[d] \in Proc /\ run[d] # p /\ state[run[d]] = "RUNNING"
    BY Zenon, <1>2, <1>3, <1>13, RunType DEF OneCpu, Pieces, CpuOK, RunOK
  <2> QED BY Zenon, <1>6, <2>1
<1>14. \A d \in CPU, k \in Lock : d # c => (holder'[k] = d <=> holder[k] = d)
  <2>1. holder[lk] = c
    BY Zenon, <1>1 DEF Holds
  <2> QED BY Zenon, <1>10, <2>1, ProcIsNotCpu
<1>15. \A u \in CPU \cup Proc : PlaceOK(u)'
  <2>1. PlaceOK(p)'
    BY Zenon, <1>2, <1>6 DEF PlaceOK, ProcPc, Lock
  <2>2. ASSUME NEW u \in CPU \cup Proc, u # p PROVE PlaceOK(u)'
    BY Zenon, <1>3, <1>6, <2>2 DEF PlaceOK
  <2> QED BY Zenon, <2>1, <2>2
<1>16. Claims'
  <2>1. \A d \in CPU : pc'[d] = pc[d]
    BY Zenon, <1>2, <1>6
  <2> QED BY Zenon, <1>3, <2>1 DEF Claims
<1>17. OneCpu'
  BY Zenon, <1>3, <1>6 DEF OneCpu
<1>18. Offs'
  BY Zenon, <1>3, <1>6, <1>9 DEF Offs, Outside
<1>19. panic' = "none"
  BY Zenon, <1>3, <1>4 DEF sleep
<1>20. \A d \in CPU : d # c => pc'[d] = pc[d]
  BY Zenon, <1>2, <1>6
<1> QED BY Zenon, <1>6, <1>7, <1>8, <1>12, <1>13, <1>14, <1>15, <1>16, <1>17, <1>18, <1>19, <1>20, CpuStep

\* proc.c:435-484: scheduler() gives the CPU to p, with interrupts on.
LEMMA SchedulerControl ==
    ASSUME Types, Pieces, NEW c \in CPU, NEW p \in Proc, scheduler(c, p)
    PROVE  Pieces'
<1>1. OneCpu /\ Claims /\ Offs /\ panic = "none" /\ \A u \in CPU \cup Proc : PlaceOK(u)
  BY Zenon DEF Pieces
<1>2. pc[c] = "none" /\ run[c] = None /\ state[p] = "RUNNABLE" /\ UNCHANGED <<pc, goal, holder, noff, claimed, panic>>
  BY Zenon DEF scheduler, uart
<1>3. pc[p] \in Outside /\ saved[p] # "off" /\ p # None /\ p \notin CPU
  BY Zenon, <1>1, <1>2, ConsoleAssumption DEF Offs
<1>4. /\ state'[p] = "RUNNING" /\ \A q \in Proc : q # p => state'[q] = state[q]
      /\ run'[c] = p /\ \A d \in CPU : d # c => run'[d] = run[d]
  BY Zenon DEF scheduler, Types
<1>5. Restored(p) \/ saved[p] = "trap"
  <2>1. saved[p] \in {"on", "off", "trap"}
    BY Zenon DEF Types
  <2> QED BY Zenon, <1>3, <2>1 DEF Restored
<1>6. /\ sie'[c] = TRUE /\ \A d \in CPU : d # c => sie'[d] = sie[d]
      /\ \A d \in CPU : d # c => intena'[d] = intena[d]
  BY <1>5, Zenon DEF scheduler, Types
<1>7. CpuOK(c)
  BY Zenon DEF Pieces
<1>8. noff'[c] = 0
  BY Zenon, <1>2, <1>7 DEF CpuOK, NoffOK
<1>9. \A d \in CPU : run[d] # p
  <2>1. ASSUME NEW d \in CPU, run[d] = p PROVE FALSE
    BY Zenon, <1>2, <1>3, <2>1 DEF Pieces, CpuOK, RunOK
  <2> QED BY Zenon, <2>1
<1>10. CpuOK(c)'
  <2>1. \A k \in Lock : HolderOK(c, k)'
    <3>1. \A k \in Lock : HolderOK(c, k)
      BY Zenon, <1>7 DEF CpuOK
    <3> QED BY Zenon, <1>2, <1>3, <1>4, <3>1 DEF HolderOK, Holds, Outside
  <2>2. NoffOK(c)' /\ RunOK(c)'
    BY Zenon, <1>2, <1>3, <1>4, <1>8 DEF NoffOK, RunOK, Depth
  <2>3. SieOK(c)'
    BY <1>2, <1>6, <1>8, Zenon DEF SieOK
  <2>4. IntenaOK(c)'
    <3>1. ~(noff'[c] > 0)
      BY <1>8
    <3> QED BY <3>1, Zenon DEF IntenaOK
  <2> QED BY Zenon, <2>1, <2>2, <2>3, <2>4 DEF CpuOK
<1>11. ASSUME NEW d \in CPU, d # c
       PROVE  run[d] # None => pc'[run[d]] = pc[run[d]] /\ state'[run[d]] = "RUNNING"
  <2>1. run[d] # None => run[d] \in Proc /\ run[d] # p /\ state[run[d]] = "RUNNING"
    BY Zenon, <1>9, RunType DEF Pieces, CpuOK, RunOK
  <2> QED BY Zenon, <1>2, <1>4, <2>1
<1>12. \A u \in CPU \cup Proc : PlaceOK(u)'
  BY Zenon, <1>1, <1>2 DEF PlaceOK
<1>13. Claims'
  BY Zenon, <1>1, <1>2 DEF Claims
<1>14. OneCpu'
  BY ZenonT(60), <1>1, <1>4, <1>9 DEF OneCpu
<1>15. Offs'
  <2>1. \A q \in Proc : q # p => saved'[q] = saved[q]
    BY Zenon DEF scheduler, Types
  <2> QED BY Zenon, <1>1, <1>2, <1>4, <2>1 DEF Offs
<1> QED BY Zenon, <1>1, <1>2, <1>4, <1>6, <1>10, <1>11, <1>12, <1>13, <1>14, <1>15, CpuStep

\* trap.c:155-157, proc.c:512-520: the timer takes the CPU from p, which holds no lock.
LEMMA YieldControl ==
    ASSUME Types, Pieces, NEW c \in CPU, NEW p \in Proc, yield(c, p)
    PROVE  Pieces'
<1>1. OneCpu /\ Claims /\ Offs /\ panic = "none" /\ \A u \in CPU \cup Proc : PlaceOK(u)
  BY Zenon DEF Pieces
<1>2. Runs(c, p)
  BY Zenon, OnRuns DEF yield
<1>3. run[c] = p /\ pc[c] = "none" /\ p # c /\ p \notin CPU
  BY Zenon, <1>2, RunsIs, ProcIsNotCpu
<1>4. /\ \A k \in Lock : holder[k] = c <=> Holds(p, k)
      /\ noff[c] = Depth(p)
      /\ SieOK(c) /\ IntenaOK(c)
  BY Zenon, <1>2, HeldByThread
<1>5. sie[c] /\ noff[c] = 0 /\ UNCHANGED <<sie, noff, intena, pc, goal, holder, claimed, panic>>
  BY <1>4, Zenon DEF SieOK, yield, uart
<1>6. pc[p] \in Outside
  <2>1. pc[p] \in ProcPc
    BY Zenon, <1>1 DEF PlaceOK
  <2> QED BY <1>3, <1>4, <1>5, <2>1 DEF Depth, ProcPc
<1>7. /\ state'[p] = "RUNNABLE" /\ \A q \in Proc : q # p => state'[q] = state[q]
      /\ saved'[p] = "trap" /\ \A q \in Proc : q # p => saved'[q] = saved[q]
      /\ run'[c] = None /\ \A d \in CPU : d # c => run'[d] = run[d]
  BY Zenon DEF yield, Types
<1>8. CpuOK(c)'
  <2>1. \A k \in Lock : HolderOK(c, k)'
    BY Zenon, <1>3, <1>4, <1>5, <1>6, <1>7 DEF HolderOK, Holds, Outside
  <2>2. NoffOK(c)' /\ RunOK(c)'
    BY Zenon, <1>3, <1>5, <1>7 DEF NoffOK, RunOK
  <2>3. SieOK(c)' /\ IntenaOK(c)'
    BY <1>4, <1>5, Zenon DEF SieOK, IntenaOK
  <2> QED BY Zenon, <2>1, <2>2, <2>3 DEF CpuOK
<1>9. ASSUME NEW d \in CPU, d # c
      PROVE  run[d] # None => pc'[run[d]] = pc[run[d]] /\ state'[run[d]] = "RUNNING"
  <2>1. run[d] # None => run[d] \in Proc /\ run[d] # p /\ state[run[d]] = "RUNNING"
    BY Zenon, <1>1, <1>3, <1>9, RunType DEF OneCpu, Pieces, CpuOK, RunOK
  <2> QED BY Zenon, <1>5, <1>7, <2>1
<1>10. \A u \in CPU \cup Proc : PlaceOK(u)'
  BY Zenon, <1>1, <1>5 DEF PlaceOK
<1>11. Claims' /\ OneCpu'
  <2>1. Claims'
    BY ONLY Zenon, <1>1, <1>5 DEF Claims
  <2>2. ASSUME NEW a \in CPU, NEW b \in CPU, run'[a] = run'[b], run'[a] # None PROVE a = b
    <3>1. a # c /\ b # c
      BY ONLY Zenon, <1>7, <2>2
    <3>2. run'[a] = run[a] /\ run'[b] = run[b]
      BY ONLY Zenon, <1>7, <3>1, a \in CPU, b \in CPU
    <3> QED BY ONLY Zenon, <1>1, <2>2, <3>2 DEF OneCpu
  <2> QED BY ONLY Zenon, <2>1, <2>2 DEF OneCpu
<1>12. Offs'
  BY Zenon, <1>1, <1>5, <1>6, <1>7 DEF Offs
<1> QED BY Zenon, <1>1, <1>5, <1>7, <1>8, <1>9, <1>10, <1>11, <1>12, CpuStep

\* trap.c:135-217: the handler starts on a CPU whose process is outside all sections.
LEMMA DevintrControl ==
    ASSUME Types, Pieces, NEW c \in CPU, devintr(c)
    PROVE  Pieces'
<1>1. OneCpu /\ Claims /\ Offs /\ panic = "none" /\ CpuOK(c) /\ \A u \in CPU \cup Proc : PlaceOK(u)
  BY Zenon DEF Pieces
<1>2. /\ pc[c] = "none" /\ claimed = None /\ claimed' = c
      /\ UNCHANGED <<noff, intena, run, goal, state, saved, holder, panic>>
  BY Zenon DEF devintr, procs
<1>3. pc'[c] = "uartintr" /\ \A u \in CPU \cup Proc : u # c => pc'[u] = pc[u]
  BY Zenon DEF devintr, Goto, Types
<1>4. sie'[c] = FALSE /\ \A d \in CPU : d # c => sie'[d] = sie[d]
  BY Zenon DEF devintr, Types
<1>5. noff[c] = 0
  BY <1>1, Zenon DEF CpuOK, SieOK, devintr
<1>6. run[c] # None => pc[run[c]] \in Outside /\ pc'[run[c]] = pc[run[c]] /\ run[c] \notin CPU
  <2>1. run[c] # None => run[c] \in Proc /\ run[c] \notin CPU /\ run[c] # c
    BY Zenon, RunType
  <2>2. run[c] # None => pc[run[c]] \in ProcPc /\ Depth(run[c]) = 0
    BY Zenon, <1>1, <1>2, <1>5, <2>1 DEF CpuOK, NoffOK, PlaceOK
  <2> QED BY <1>3, <2>1, <2>2 DEF Depth, ProcPc
<1>7. CpuOK(c)'
  <2>1. \A k \in Lock : HolderOK(c, k)'
    <3>1. \A k \in Lock : HolderOK(c, k)
      BY Zenon, <1>1 DEF CpuOK
    <3> QED BY Zenon, <1>2, <1>3, <1>6, <3>1 DEF HolderOK, Holds, Outside
  <2>2. NoffOK(c)'
    BY Zenon, <1>2, <1>3, <1>5 DEF NoffOK, Depth, Outside
  <2>3. SieOK(c)' /\ IntenaOK(c)'
    <3>1. ~(noff'[c] > 0) /\ pc'[c] # "none"
      BY <1>2, <1>3, <1>5
    <3> QED BY <1>4, <3>1, Zenon DEF SieOK, IntenaOK
  <2>4. RunOK(c)'
    BY Zenon, <1>1, <1>2, <1>6 DEF CpuOK, RunOK
  <2> QED BY Zenon, <2>1, <2>2, <2>3, <2>4 DEF CpuOK
<1>8. ASSUME NEW d \in CPU, d # c
      PROVE  run[d] # None => pc'[run[d]] = pc[run[d]] /\ state'[run[d]] = "RUNNING"
  <2>1. run[d] # None => run[d] \in Proc /\ run[d] # c /\ state[run[d]] = "RUNNING"
    BY Zenon, RunType DEF Pieces, CpuOK, RunOK
  <2> QED BY Zenon, <1>2, <1>3, <2>1
<1>9. \A u \in CPU \cup Proc : PlaceOK(u)'
  <2>1. PlaceOK(c)'
    BY Zenon, <1>3, ProcIsNotCpu DEF PlaceOK, HandlerPc, Lock
  <2>2. ASSUME NEW u \in CPU \cup Proc, u # c PROVE PlaceOK(u)'
    BY Zenon, <1>1, <1>2, <1>3, <2>2 DEF PlaceOK
  <2> QED BY Zenon, <2>1, <2>2
<1>10. Claims'
  BY Zenon, <1>1, <1>2, <1>3, ProcIsNotCpu DEF Claims
<1>11. OneCpu' /\ Offs'
  <2>1. \A q \in Proc : pc'[q] = pc[q]
    BY Zenon, <1>3, ProcIsNotCpu
  <2> QED BY Zenon, <1>1, <1>2, <2>1 DEF OneCpu, Offs
<1>12. \A d \in CPU : d # c => pc'[d] = pc[d]
  BY Zenon, <1>3
<1> QED BY Zenon, <1>1, <1>2, <1>4, <1>7, <1>8, <1>9, <1>10, <1>11, <1>12, CpuStep

\* trap.c:208-212: plic_complete() and the return from the trap.
LEMMA PlicCompleteControl ==
    ASSUME Types, Pieces, NEW c \in CPU, plic_complete(c)
    PROVE  Pieces'
<1>1. OneCpu /\ Claims /\ Offs /\ panic = "none" /\ CpuOK(c) /\ \A u \in CPU \cup Proc : PlaceOK(u)
  BY Zenon DEF Pieces
<1>2. /\ pc[c] = "uartgetc" /\ claimed = c /\ claimed' = None
      /\ UNCHANGED <<noff, intena, run, goal, state, saved, holder, panic>>
  BY Zenon, <1>1 DEF plic_complete, procs, Claims
<1>3. pc'[c] = "none" /\ \A u \in CPU \cup Proc : u # c => pc'[u] = pc[u]
  BY Zenon DEF plic_complete, Goto, Types
<1>4. sie'[c] = TRUE /\ \A d \in CPU : d # c => sie'[d] = sie[d]
  BY Zenon DEF plic_complete, Types
<1>5. noff[c] = 0
  BY Zenon, <1>1, <1>2 DEF CpuOK, NoffOK, Depth
<1>6. run[c] # None => pc[run[c]] \in Outside /\ pc'[run[c]] = pc[run[c]] /\ run[c] \notin CPU
  <2>1. run[c] # None => run[c] \in Proc /\ run[c] \notin CPU /\ run[c] # c
    BY Zenon, RunType
  <2> QED BY Zenon, <1>1, <1>2, <1>3, <2>1 DEF CpuOK, RunOK
<1>7. CpuOK(c)'
  <2>1. \A k \in Lock : HolderOK(c, k)'
    <3>1. \A k \in Lock : HolderOK(c, k)
      BY Zenon, <1>1 DEF CpuOK
    <3> QED BY Zenon, <1>2, <1>3, <1>6, <3>1 DEF HolderOK, Holds, Outside
  <2>2. NoffOK(c)'
    BY Zenon, <1>2, <1>3, <1>5, <1>6 DEF NoffOK, Depth
  <2>3. SieOK(c)' /\ IntenaOK(c)'
    <3>1. ~(noff'[c] > 0) /\ noff'[c] = 0
      BY <1>2, <1>5
    <3> QED BY <1>3, <1>4, <3>1, Zenon DEF SieOK, IntenaOK
  <2>4. RunOK(c)'
    BY Zenon, <1>1, <1>2, <1>3, <1>6 DEF CpuOK, RunOK
  <2> QED BY Zenon, <2>1, <2>2, <2>3, <2>4 DEF CpuOK
<1>8. ASSUME NEW d \in CPU, d # c
      PROVE  run[d] # None => pc'[run[d]] = pc[run[d]] /\ state'[run[d]] = "RUNNING"
  <2>1. run[d] # None => run[d] \in Proc /\ run[d] # c /\ state[run[d]] = "RUNNING"
    BY Zenon, RunType DEF Pieces, CpuOK, RunOK
  <2> QED BY Zenon, <1>2, <1>3, <2>1
<1>9. \A u \in CPU \cup Proc : PlaceOK(u)'
  <2>1. PlaceOK(c)'
    BY Zenon, <1>3, ProcIsNotCpu DEF PlaceOK, HandlerPc, Lock
  <2>2. ASSUME NEW u \in CPU \cup Proc, u # c PROVE PlaceOK(u)'
    BY Zenon, <1>1, <1>2, <1>3, <2>2 DEF PlaceOK
  <2> QED BY Zenon, <2>1, <2>2
<1>10. Claims'
  BY Zenon, <1>1, <1>2, <1>3, ProcIsNotCpu DEF Claims
<1>11. OneCpu' /\ Offs'
  <2>1. \A q \in Proc : pc'[q] = pc[q]
    BY Zenon, <1>3, ProcIsNotCpu
  <2> QED BY Zenon, <1>1, <1>2, <2>1 DEF OneCpu, Offs
<1>12. \A d \in CPU : d # c => pc'[d] = pc[d]
  BY Zenon, <1>3
<1> QED BY Zenon, <1>1, <1>2, <1>4, <1>7, <1>8, <1>9, <1>10, <1>11, <1>12, CpuStep

\* What changes neither a place nor a CPU.
LEMMA QuietControl ==
    ASSUME Types, Pieces, UNCHANGED <<cpus, pc, goal, saved, holder, claimed, panic>>,
           \A p \in Proc : state'[p] = "RUNNING" <=> state[p] = "RUNNING"
    PROVE  Pieces'
<1>1. UNCHANGED <<sie, noff, intena, run, pc, goal, saved, holder, claimed, panic>>
  BY Zenon DEF cpus
<1>2. ASSUME NEW d \in CPU PROVE CpuOK(d)'
  <2>1. CpuOK(d) /\ (run[d] # None => state'[run[d]] = "RUNNING")
    BY Zenon, RunType DEF Pieces, CpuOK, RunOK
  <2> QED BY Zenon, <1>1, <2>1, OtherCpu
<1>3. \A u \in CPU \cup Proc : PlaceOK(u)'
  BY Zenon, <1>1 DEF Pieces, PlaceOK
<1>4. Claims' /\ OneCpu' /\ Offs' /\ panic' = "none"
  BY Zenon, <1>1 DEF Pieces, Claims, OneCpu, Offs
<1> QED BY Zenon, <1>2, <1>3, <1>4 DEF Pieces

(* The rest of the invariant but the input. *)

Core == Types /\ Pieces /\ Lefts /\ Wakeups

Sending == sending \/ tx_int \/ \E c \in CPU : pc[c] \in {"tx", "tx_idle"}

\* The types that are not those of a CPU's interrupts.
Others_types ==
    /\ run \in [CPU -> Proc \cup {None}] /\ holder \in [Lock -> CPU \cup {None}]
    /\ pc \in [CPU \cup Proc -> HandlerPc \cup ProcPc]
    /\ goal \in [CPU \cup Proc -> HandlerPc \cup ProcPc]
    /\ state \in [Proc -> {"RUNNING", "RUNNABLE", "SLEEPING"}]
    /\ saved \in [Proc -> {"on", "off", "trap"}] /\ killed \in [Proc -> BOOLEAN]
    /\ left \in [Proc -> 0..(MaxRead + MaxWrite)] /\ target \in [Proc -> 0..MaxRead]
    /\ claimed \in CPU \cup {None} /\ rx \in BOOLEAN /\ sending \in BOOLEAN
    /\ tx_int \in BOOLEAN /\ tx_busy \in BOOLEAN

Interrupts == sie \in [CPU -> BOOLEAN] /\ intena \in [CPU -> BOOLEAN] /\ noff \in [CPU -> Int]

\* The depth of a CPU is at most 2, as its thread says.
LEMMA TypesFrom == Interrupts /\ Others_types /\ Pieces => Types
<1> SUFFICES ASSUME Interrupts, Others_types, Pieces PROVE Types
  BY Zenon
<1>1. ASSUME NEW c \in CPU PROVE noff[c] \in 0..2
  <2>1. NoffOK(c)
    BY Zenon DEF Pieces, CpuOK
  <2>2. Depth(c) \in 0..2 /\ Depth(run[c]) \in 0..2
    BY DEF Depth
  <2> QED BY <2>1, <2>2 DEF NoffOK
<1>2. noff \in [CPU -> 0..2]
  BY Zenon, <1>1 DEF Interrupts
<1> QED BY <1>2, Zenon DEF Types, Interrupts, Others_types

LEMMA TypesNext == (Interrupts /\ Others_types /\ Pieces => Types)'
BY TypesFrom, PTL

LEMMA TypesSplit ==
    ASSUME Types
    PROVE  Interrupts /\ Others_types
<1>1. noff \in [CPU -> 0..2]
  BY Zenon DEF Types
<1>2. noff \in [CPU -> Int]
  BY <1>1
<1> QED BY <1>2, Zenon DEF Types, Interrupts, Others_types

LEMMA PushTypes ==
    ASSUME Interrupts, NEW c \in CPU, push_off(c)
    PROVE  Interrupts'
<1>1. noff' \in [CPU -> Int]
  BY DEF Interrupts, push_off
<1>2. sie' \in [CPU -> BOOLEAN]
  BY Zenon DEF Interrupts, push_off
<1>3. (IF noff[c] = 0 THEN sie[c] ELSE intena[c]) \in BOOLEAN
  BY Zenon DEF Interrupts
<1>4. intena' \in [CPU -> BOOLEAN]
  BY <1>3, Zenon DEF Interrupts, push_off
<1> QED BY Zenon, <1>1, <1>2, <1>4 DEF Interrupts

LEMMA PopTypes ==
    ASSUME Interrupts, NEW c \in CPU, pop_off(c)
    PROVE  Interrupts'
<1>1. noff' \in [CPU -> Int]
  BY DEF Interrupts, pop_off
<1>2. sie' \in [CPU -> BOOLEAN]
  BY Zenon DEF Interrupts, pop_off
<1> QED BY Zenon, <1>1, <1>2 DEF Interrupts, pop_off

\* A sleeper stays where it is when another thread goes on.
LEMMA SleepersStay ==
    ASSUME Types, Pieces, NEW c \in CPU, NEW t \in CPU \cup Proc, Runs(c, t), NEW l, Goto(t, l),
           \A p \in Proc : state'[p] = "SLEEPING" => state[p] = "SLEEPING"
    PROVE  \A p \in Proc : state'[p] = "SLEEPING" => state[p] = "SLEEPING" /\ pc'[p] = pc[p]
<1>1. t \in Proc => state[t] = "RUNNING"
  BY Zenon, HeldByThread
<1> QED BY Zenon, <1>1 DEF Types, Goto

LEMMA WakeupsKept ==
    ASSUME Wakeups, UNCHANGED <<r, w>>, tx_busy' = tx_busy,
           \A p \in Proc : state'[p] = "SLEEPING" => state[p] = "SLEEPING" /\ pc'[p] = pc[p],
           tx_busy /\ Sending => Sending'
    PROVE  Wakeups'
BY Zenon DEF Wakeups, Sending

LEMMA SendingKept ==
    ASSUME Types, NEW t \in CPU \cup Proc, NEW l, Goto(t, l), Sending,
           t \in CPU => pc[t] \notin {"tx", "tx_idle"} \/ l \in {"tx", "tx_idle"},
           sending \/ tx_int => sending' \/ tx_int' \/ (t \in CPU /\ l = "tx")
    PROVE  Sending'
<1>1. pc'[t] = l /\ \A u \in CPU \cup Proc : u # t => pc'[u] = pc[u]
  BY Zenon DEF Types, Goto
<1>2. CASE sending \/ tx_int
  BY Zenon, <1>1, <1>2 DEF Sending
<1>3. CASE \E d \in CPU : pc[d] \in {"tx", "tx_idle"}
  <2>1. PICK d \in CPU : pc[d] \in {"tx", "tx_idle"}
    BY Zenon, <1>3
  <2>2. pc'[d] \in {"tx", "tx_idle"}
    BY Zenon, <1>1, <2>1
  <2> QED BY Zenon, <2>2 DEF Sending
<1> QED BY Zenon, <1>2, <1>3 DEF Sending

LEMMA LeftsKept ==
    ASSUME Types, Lefts, NEW t \in CPU \cup Proc, NEW l, Goto(t, l),
           \A p \in Proc : p # t => left'[p] = left[p],
           t \in Proc /\ l \in {"cons", "read", "read_woken", "tx", "write", "write_woken"} => left'[t] > 0
    PROVE  Lefts'
<1>1. pc'[t] = l /\ \A u \in CPU \cup Proc : u # t => pc'[u] = pc[u]
  BY Zenon DEF Types, Goto
<1> QED BY Zenon, <1>1 DEF Lefts

LEMMA CoreIs ==
    ASSUME Core
    PROVE  Types /\ Pieces /\ Lefts /\ Wakeups /\ Interrupts /\ Others_types
BY Zenon, TypesSplit DEF Core

LEMMA CoreFrom ==
    ASSUME Interrupts', Others_types', Pieces', Lefts', Wakeups'
    PROVE  Core'
BY Zenon, TypesNext DEF Core

\* The steps with an acquire().
LEMMA AcquireCore ==
    ASSUME Core, NEW c \in CPU, NEW t \in CPU \cup Proc, NEW lk \in Lock, Runs(c, t),
           acquire(c, t, lk, Next_of(t, lk)),
           UNCHANGED <<run, holder, state, saved, killed, claimed, tx_busy, r, w>>,
           \/ t \in Proc /\ pc[t] \in Outside
           \/ t = c /\ lk # "pr" /\ pc[c] \in {"uartintr", "uartgetc"}
           \/ t = c /\ lk = "pr" /\ pc[c] = "consoleintr",
           left' \in [Proc -> 0..(MaxRead + MaxWrite)], target' \in [Proc -> 0..MaxRead],
           \A p \in Proc : p # t => left'[p] = left[p],
           t \in Proc /\ lk # "pr" => left'[t] > 0,
           rx' \in BOOLEAN, sending' = sending, tx_int' \in BOOLEAN,
           tx_int => tx_int' \/ (t = c /\ lk = "tx")
    PROVE  Core'
<1>1. Types /\ Pieces /\ Lefts /\ Wakeups /\ Interrupts /\ Others_types
  BY Zenon, CoreIs
<1>2. push_off(c) /\ Goto(t, lk) /\ goal' = [goal EXCEPT ![t] = Next_of(t, lk)]
  BY Zenon DEF acquire
<1>3. Interrupts'
  BY Zenon, <1>1, <1>2, PushTypes
<1>4. Others_types'
  <2>1. pc' \in [CPU \cup Proc -> HandlerPc \cup ProcPc]
    BY Zenon, <1>1, <1>2 DEF Others_types, Goto, Lock, HandlerPc
  <2>2. Next_of(t, lk) \in HandlerPc \cup ProcPc
    BY Zenon DEF Next_of, HandlerPc, ProcPc
  <2>3. goal' \in [CPU \cup Proc -> HandlerPc \cup ProcPc]
    BY Zenon, <1>1, <1>2, <2>2 DEF Others_types
  <2> QED BY <1>1, <2>1, <2>3, Zenon DEF Others_types
<1>5. Pieces'
  BY Zenon, <1>1, Acquires
<1>6. Lefts'
  BY Zenon, <1>1, <1>2, LeftsKept DEF Lock
<1>7. Wakeups'
  <2>1. \A p \in Proc : state'[p] = "SLEEPING" => state[p] = "SLEEPING" /\ pc'[p] = pc[p]
    BY Zenon, <1>1, <1>2, SleepersStay
  <2>2. t \in CPU => t = c
    BY Zenon, RunsIs, ProcIsNotCpu
  <2>3. t \in CPU => pc[t] \notin {"tx", "tx_idle"}
    BY Zenon, <2>2, ProcIsNotCpu
  <2>4. Sending => Sending'
    BY Zenon, <1>1, <1>2, <2>3, SendingKept
  <2> QED BY Zenon, <1>1, <2>1, <2>4, WakeupsKept
<1> QED BY Zenon, <1>3, <1>4, <1>5, <1>6, <1>7, CoreFrom

\* The steps with a release().
LEMMA ReleaseCore ==
    ASSUME Core, NEW c \in CPU, NEW t \in CPU \cup Proc, NEW lk \in Lock, Runs(c, t), NEW l,
           release(c, t, lk, l),
           UNCHANGED <<run, goal, saved, killed, claimed, rx, sending, tx_int>>,
           state' \in [Proc -> {"RUNNING", "RUNNABLE", "SLEEPING"}], tx_busy' \in BOOLEAN,
           \A p \in Proc : state'[p] = "RUNNING" <=> state[p] = "RUNNING",
           \/ t \in Proc /\ Holds(t, lk) /\ l = "user"
           \/ t = c /\ lk = "pr" /\ pc[c] = "putc_end" /\ l = "cons_end"
           \/ t = c /\ lk = "tx" /\ pc[c] = "tx_idle" /\ l = "uartgetc"
           \/ t = c /\ lk = "cons" /\ pc[c] = "cons_end" /\ l = "uartgetc",
           left' \in [Proc -> 0..(MaxRead + MaxWrite)], target' \in [Proc -> 0..MaxRead],
           \A p \in Proc : p # t => left'[p] = left[p],
           Wakeups'
    PROVE  Core'
<1>1. Types /\ Pieces /\ Lefts /\ Interrupts /\ Others_types
  BY Zenon, CoreIs
<1>2. pop_off(c) /\ Goto(t, l) /\ holder' = [holder EXCEPT ![lk] = None]
  BY Zenon DEF release
<1>3. Interrupts'
  BY Zenon, <1>1, <1>2, PopTypes
<1>4. Others_types'
  <2>1. pc' \in [CPU \cup Proc -> HandlerPc \cup ProcPc]
    <3>1. l \in HandlerPc \cup ProcPc
      BY Zenon DEF HandlerPc, ProcPc
    <3> QED BY Zenon, <1>1, <1>2, <3>1 DEF Others_types, Goto
  <2>2. holder' \in [Lock -> CPU \cup {None}]
    BY Zenon, <1>1, <1>2 DEF Others_types
  <2> QED BY <1>1, <2>1, <2>2, Zenon DEF Others_types
<1>5. Pieces'
  BY Zenon, <1>1, Releases
<1>6. Lefts'
  BY Zenon, <1>1, <1>2, LeftsKept, ProcIsNotCpu
<1> QED BY Zenon, <1>3, <1>4, <1>5, <1>6, CoreFrom

\* The steps inside a section.
LEMMA MoveCore ==
    ASSUME Core, NEW c \in CPU, NEW t \in CPU \cup Proc, Runs(c, t), NEW l, Goto(t, l),
           UNCHANGED <<cpus, goal, saved, killed, target, claimed, rx, holder, panic>>,
           state' \in [Proc -> {"RUNNING", "RUNNABLE", "SLEEPING"}],
           tx_busy' \in BOOLEAN, sending' \in BOOLEAN, tx_int' \in BOOLEAN,
           \A p \in Proc : state'[p] = "RUNNING" <=> state[p] = "RUNNING",
           \/ t \in Proc /\ pc[t] = "read" /\ l \in {"read", "read_end"}
           \/ t \in Proc /\ pc[t] = "write" /\ l \in {"write", "write_end"}
           \/ pc[t] = "putc" /\ l = "putc_end"
           \/ t = c /\ pc[c] = "consoleintr" /\ l = "cons_end",
           left' \in [Proc -> 0..(MaxRead + MaxWrite)],
           \A p \in Proc : p # t => left'[p] = left[p],
           l \in {"read", "write"} => left'[t] > 0,
           Wakeups'
    PROVE  Core'
<1>1. Types /\ Pieces /\ Lefts /\ Interrupts /\ Others_types
  BY Zenon, CoreIs
<1>2. Interrupts'
  BY Zenon, <1>1 DEF Interrupts, cpus
<1>3. Others_types'
  <2>1. pc' \in [CPU \cup Proc -> HandlerPc \cup ProcPc]
    <3>1. l \in HandlerPc \cup ProcPc
      BY Zenon DEF HandlerPc, ProcPc
    <3> QED BY Zenon, <1>1, <3>1 DEF Others_types, Goto
  <2> QED BY <1>1, <2>1, Zenon DEF Others_types, cpus
<1>4. Pieces'
  BY Zenon, <1>1, Moves
<1>5. Lefts'
  BY Zenon, <1>1, LeftsKept
<1> QED BY Zenon, <1>2, <1>3, <1>4, <1>5, CoreFrom

\* The steps with a sleep().
LEMMA SleepCore ==
    ASSUME Core, NEW c \in CPU, NEW p \in Proc, Runs(c, p), NEW lk \in Lock, NEW l,
           sleep(c, p, lk, l), UNCHANGED <<goal, left, target, uart, tx_busy, r, w>>,
           killed' \in [Proc -> BOOLEAN],
           \/ pc[p] = "read" /\ lk = "cons" /\ l = "read_woken" /\ r = w
           \/ pc[p] = "write" /\ lk = "tx" /\ l = "write_woken" /\ tx_busy
    PROVE  Core'
<1>1. Types /\ Pieces /\ Lefts /\ Wakeups /\ Interrupts /\ Others_types
  BY Zenon, CoreIs
<1>2. UNCHANGED <<claimed, rx, sending, tx_int>> /\ Goto(p, l)
  BY Zenon DEF uart, sleep
<1>3. Interrupts'
  <2>1. noff' \in [CPU -> Int]
    <3>1. noff \in [CPU -> Int] /\ noff' = [noff EXCEPT ![c] = 0]
      BY Zenon, <1>1 DEF Interrupts, sleep
    <3> QED BY ONLY <3>1, c \in CPU
  <2>2. sie' \in [CPU -> BOOLEAN] /\ intena' \in [CPU -> BOOLEAN]
    BY <1>1, Zenon DEF Interrupts, sleep
  <2> QED BY Zenon, <2>1, <2>2 DEF Interrupts
<1>4. Others_types'
  <2>1. pc' \in [CPU \cup Proc -> HandlerPc \cup ProcPc]
    BY Zenon, <1>1, <1>2 DEF Others_types, Goto, ProcPc
  <2>2. holder' \in [Lock -> CPU \cup {None}] /\ run' \in [CPU -> Proc \cup {None}]
    BY Zenon, <1>1 DEF Others_types, sleep
  <2>3. state' \in [Proc -> {"RUNNING", "RUNNABLE", "SLEEPING"}]
    BY Zenon, <1>1 DEF Others_types, sleep
  <2>4. saved' \in [Proc -> {"on", "off", "trap"}]
    BY Zenon, <1>1 DEF Others_types, sleep
  <2> QED BY <1>1, <1>2, <2>1, <2>2, <2>3, <2>4, Zenon DEF Others_types
<1>5. Pieces'
  BY Zenon, <1>1, <1>2, Sleeps
<1>6. Lefts'
  <2>1. left[p] > 0
    BY Zenon, <1>1 DEF Lefts
  <2> QED BY Zenon, <1>1, <1>2, <2>1, LeftsKept
<1>7. Wakeups'
  <2>1. /\ pc'[p] = l /\ \A u \in CPU \cup Proc : u # p => pc'[u] = pc[u]
        /\ \A q \in Proc : q # p => state'[q] = state[q]
    BY Zenon, <1>1, <1>2 DEF Types, Goto, sleep
  <2>2. Sending => Sending'
    BY Zenon, <1>1, <1>2, ProcIsNotCpu, SendingKept
  <2>3. \A q \in Proc : state'[q] = "SLEEPING" /\ pc'[q] = "read_woken" => r' = w'
    BY Zenon, <1>1, <2>1 DEF Wakeups
  <2>4. \A q \in Proc : state'[q] = "SLEEPING" /\ pc'[q] = "write_woken" => tx_busy'
    BY <1>1, <2>1, Zenon DEF Wakeups
  <2> QED BY <1>1, <2>2, <2>3, <2>4, Zenon DEF Wakeups, Sending
<1> QED BY Zenon, <1>3, <1>4, <1>5, <1>6, <1>7, CoreFrom
============================================================================
