--------------------------- MODULE ConsoleProofs ---------------------------
(***************************************************************************)
(* The console with any number of CPUs, readers and writers, any size of   *)
(* its buffer and any width of its indices: every step of it keeps the     *)
(* discipline of spin-locks and interrupts, the wakeups, and the input.    *)
(***************************************************************************)
EXTENDS ConsoleLockProofs

(* One lemma for each action. *)

LEMMA LeftType ==
    ASSUME Types
    PROVE  left \in [Proc -> 0..(MaxRead + MaxWrite)] /\ target \in [Proc -> 0..MaxRead]
BY Zenon DEF Types

LEMMA ConsolereadCore ==
    ASSUME Core, NEW c \in CPU, NEW p \in Proc, NEW n \in 1..MaxRead, consoleread(c, p, n)
    PROVE  Core'
<1>1. Types /\ Wakeups
  BY Zenon, CoreIs
<1>2. Runs(c, p) /\ pc[p] = "user"
  BY Zenon, <1>1, OnRuns DEF consoleread
<1>3. acquire(c, p, "cons", Next_of(p, "cons"))
  BY Zenon, ProcIsNotCpu DEF consoleread, Next_of
<1>4. /\ left' \in [Proc -> 0..(MaxRead + MaxWrite)] /\ target' \in [Proc -> 0..MaxRead]
      /\ left'[p] = n /\ \A q \in Proc : q # p => left'[q] = left[q]
  BY <1>1, LeftType, ConsoleAssumption DEF consoleread
<1>5. UNCHANGED <<run, holder, state, saved, killed, claimed, tx_busy, r, w, rx, sending, tx_int>>
  BY Zenon DEF consoleread, uart, console
<1>6. rx' \in BOOLEAN /\ tx_int' \in BOOLEAN /\ (tx_int => tx_int')
  BY <1>1, <1>5, Zenon DEF Types
<1> QED BY <1>2, <1>3, <1>4, <1>5, <1>6, AcquireCore DEF Lock, Outside

LEMMA ConsolewriteCore ==
    ASSUME Core, NEW c \in CPU, NEW p \in Proc, NEW n \in 1..MaxWrite, consolewrite(c, p, n)
    PROVE  Core'
<1>1. Types /\ Wakeups
  BY Zenon, CoreIs
<1>2. Runs(c, p) /\ pc[p] = "user"
  BY Zenon, <1>1, OnRuns DEF consolewrite
<1>3. acquire(c, p, "tx", Next_of(p, "tx"))
  BY Zenon, ProcIsNotCpu DEF consolewrite, Next_of
<1>4. /\ left' \in [Proc -> 0..(MaxRead + MaxWrite)] /\ target' \in [Proc -> 0..MaxRead]
      /\ left'[p] = n /\ \A q \in Proc : q # p => left'[q] = left[q]
  BY <1>1, LeftType, ConsoleAssumption DEF consolewrite
<1>5. UNCHANGED <<run, holder, state, saved, killed, claimed, tx_busy, r, w, rx, sending, tx_int>>
  BY Zenon DEF consolewrite, uart, console
<1>6. rx' \in BOOLEAN /\ tx_int' \in BOOLEAN /\ (tx_int => tx_int')
  BY <1>1, <1>5, Zenon DEF Types
<1> QED BY <1>2, <1>3, <1>4, <1>5, <1>6, AcquireCore DEF Lock, Outside

LEMMA PrintfCore ==
    ASSUME Core, NEW c \in CPU, NEW p \in Proc, printf(c, p)
    PROVE  Core'
<1>1. Types /\ Wakeups
  BY Zenon, CoreIs
<1>2. Runs(c, p) /\ pc[p] = "user"
  BY Zenon, <1>1, OnRuns DEF printf
<1>3. acquire(c, p, "pr", Next_of(p, "pr"))
  BY Zenon DEF printf, Next_of
<1>4. UNCHANGED <<run, holder, state, saved, killed, claimed, tx_busy, r, w, rx, sending, tx_int, left, target>>
  BY Zenon DEF printf, uart, console, procs
<1>5. rx' \in BOOLEAN /\ tx_int' \in BOOLEAN /\ (tx_int => tx_int')
  BY <1>1, <1>4, Zenon DEF Types
<1> QED BY Zenon, <1>1, <1>2, <1>3, <1>4, <1>5, LeftType, AcquireCore DEF Lock, Outside

LEMMA WokenCore ==
    ASSUME Core, NEW c \in CPU, NEW p \in Proc, woken(c, p)
    PROVE  Core'
<1>1. Types /\ Lefts
  BY Zenon, CoreIs
<1>2. Runs(c, p)
  BY Zenon, <1>1, OnRuns DEF woken
<1>3. PICK lk \in {"cons", "tx"} : /\ pc[p] \in {"read_woken", "write_woken"}
                                   /\ acquire(c, p, lk, Next_of(p, lk))
  BY Zenon, ProcIsNotCpu DEF woken, Next_of
<1>4. UNCHANGED <<run, holder, state, saved, killed, claimed, tx_busy, r, w, rx, sending, tx_int, left, target>>
  BY Zenon DEF woken, uart, console, procs
<1>5. rx' \in BOOLEAN /\ tx_int' \in BOOLEAN /\ (tx_int => tx_int')
  BY <1>1, <1>4, Zenon DEF Types
<1>6. left'[p] > 0
  BY Zenon, <1>1, <1>3, <1>4 DEF Lefts
<1> QED BY Zenon, <1>1, <1>2, <1>3, <1>4, <1>5, <1>6, LeftType, AcquireCore DEF Lock, Outside

LEMMA UartintrCore ==
    ASSUME Core, NEW c \in CPU, uartintr(c)
    PROVE  Core'
<1>1. Types
  BY Zenon, CoreIs
<1>2. Runs(c, c) /\ c \notin Proc
  BY Zenon, ProcIsNotCpu DEF uartintr, Runs
<1>3. acquire(c, c, "tx", Next_of(c, "tx"))
  BY Zenon DEF uartintr, Next_of
<1>4. UNCHANGED <<run, holder, state, saved, killed, claimed, tx_busy, r, w, rx, sending, left, target>>
  BY Zenon DEF uartintr, uart, console, procs
<1>5. rx' \in BOOLEAN /\ tx_int' \in BOOLEAN
  BY <1>1, <1>4, Zenon DEF Types, uartintr
<1>6. pc[c] = "uartintr"
  BY Zenon DEF uartintr
<1> QED BY Zenon, <1>1, <1>2, <1>3, <1>4, <1>5, <1>6, LeftType, AcquireCore DEF Lock

LEMMA UartgetcCore ==
    ASSUME Core, NEW c \in CPU, uartgetc(c)
    PROVE  Core'
<1>1. Types
  BY Zenon, CoreIs
<1>2. Runs(c, c) /\ c \notin Proc
  BY Zenon, ProcIsNotCpu DEF uartgetc, Runs
<1>3. acquire(c, c, "cons", Next_of(c, "cons"))
  BY Zenon DEF uartgetc, Next_of
<1>4. UNCHANGED <<run, holder, state, saved, killed, claimed, tx_busy, r, w, tx_int, sending, left, target>>
  BY Zenon DEF uartgetc, uart, console, procs
<1>5. rx' \in BOOLEAN /\ tx_int' \in BOOLEAN /\ (tx_int => tx_int')
  <2>1. rx' = FALSE
    BY Zenon DEF uartgetc
  <2> QED BY <1>1, <1>4, <2>1, Zenon DEF Types
<1>6. pc[c] = "uartgetc"
  BY Zenon DEF uartgetc
<1> QED BY Zenon, <1>1, <1>2, <1>3, <1>4, <1>5, <1>6, LeftType, AcquireCore DEF Lock

LEMMA ProcdumpCore ==
    ASSUME Core, NEW c \in CPU, NEW ch, procdump(c, ch)
    PROVE  Core'
<1>1. Types
  BY Zenon, CoreIs
<1>2. Runs(c, c) /\ c \notin Proc
  BY Zenon, ProcIsNotCpu DEF procdump, Runs
<1>3. acquire(c, c, "pr", Next_of(c, "pr"))
  BY Zenon DEF procdump, Next_of
<1>4. UNCHANGED <<run, holder, state, saved, killed, claimed, tx_busy, r, w, rx, tx_int, sending, left, target>>
  BY Zenon DEF procdump, uart, console, procs
<1>5. rx' \in BOOLEAN /\ tx_int' \in BOOLEAN /\ (tx_int => tx_int')
  BY <1>1, <1>4, Zenon DEF Types
<1>6. pc[c] = "consoleintr"
  BY Zenon DEF procdump
<1> QED BY Zenon, <1>1, <1>2, <1>3, <1>4, <1>5, <1>6, LeftType, AcquireCore DEF Lock

LEMMA SleepActionsCore ==
    ASSUME Core, NEW c \in CPU, NEW p \in Proc, read_sleep(c, p) \/ write_sleep(c, p)
    PROVE  Core'
<1>1. Runs(c, p)
  BY Zenon, CoreIs, OnRuns DEF read_sleep, write_sleep
<1>2. UNCHANGED <<goal, left, target, uart, tx_busy, r, w>>
  BY Zenon DEF read_sleep, write_sleep, console
<1>5. killed' \in [Proc -> BOOLEAN]
  <2>1. killed \in [Proc -> BOOLEAN]
    BY Zenon, CoreIs DEF Types
  <2>2. killed' = killed \/ killed' = [killed EXCEPT ![p] = TRUE]
    BY Zenon DEF read_sleep, write_sleep
  <2> QED BY Zenon, <2>1, <2>2
<1>3. CASE read_sleep(c, p)
  BY Zenon, <1>1, <1>2, <1>3, <1>5, SleepCore DEF read_sleep, Lock
<1>4. CASE write_sleep(c, p)
  BY Zenon, <1>1, <1>2, <1>4, <1>5, SleepCore DEF write_sleep, Lock
<1> QED BY Zenon, <1>3, <1>4

\* A step of the thread on c that leaves the buffer and the UART's flag alone.
LEMMA WakeupsThread ==
    ASSUME Types, Pieces, Wakeups, NEW c \in CPU, NEW t \in CPU \cup Proc, Runs(c, t), NEW l, Goto(t, l),
           UNCHANGED <<r, w, tx_busy>>,
           \A p \in Proc : state'[p] = "SLEEPING" => state[p] = "SLEEPING",
           t = c => pc[c] \notin {"tx", "tx_idle"},
           sending \/ tx_int => sending' \/ tx_int'
    PROVE  Wakeups'
<1>1. \A p \in Proc : state'[p] = "SLEEPING" => state[p] = "SLEEPING" /\ pc'[p] = pc[p]
  BY Zenon, SleepersStay
<1>2. t \in CPU => pc[t] \notin {"tx", "tx_idle"}
  BY Zenon, RunsIs, ProcIsNotCpu
<1>3. Sending => Sending'
  BY Zenon, <1>2, SendingKept
<1> QED BY Zenon, <1>1, <1>3, WakeupsKept

LEMMA ReadEndCore ==
    ASSUME Core, NEW c \in CPU, NEW p \in Proc, read_end(c, p)
    PROVE  Core'
<1>1. Types /\ Pieces /\ Wakeups
  BY Zenon, CoreIs
<1>2. Runs(c, p) /\ p # c /\ pc[p] \in {"read", "read_end"}
  BY Zenon, <1>1, OnRuns, ProcIsNotCpu DEF read_end
<1>3. release(c, p, "cons", "user") /\ Goto(p, "user")
  BY Zenon DEF read_end, release
<1>4. UNCHANGED <<run, goal, state, saved, killed, claimed, rx, sending, tx_int, tx_busy, r, w>>
  BY Zenon DEF read_end, uart, console
<1>5. /\ left' \in [Proc -> 0..(MaxRead + MaxWrite)] /\ target' \in [Proc -> 0..MaxRead]
      /\ \A q \in Proc : q # p => left'[q] = left[q]
  BY <1>1, LeftType, ConsoleAssumption DEF read_end
<1>6. Wakeups'
  BY Zenon, <1>1, <1>2, <1>3, <1>4, WakeupsThread
<1>7. state' \in [Proc -> {"RUNNING", "RUNNABLE", "SLEEPING"}] /\ tx_busy' \in BOOLEAN
  BY <1>1, <1>4, Zenon DEF Types
<1>8. Holds(p, "cons")
  BY Zenon, <1>2 DEF Holds
<1> QED BY Zenon, <1>2, <1>3, <1>4, <1>5, <1>6, <1>7, <1>8, ReleaseCore DEF Lock

LEMMA WriteEndCore ==
    ASSUME Core, NEW c \in CPU, NEW p \in Proc, write_end(c, p)
    PROVE  Core'
<1>1. Types /\ Pieces /\ Wakeups
  BY Zenon, CoreIs
<1>2. Runs(c, p) /\ p # c /\ pc[p] = "write_end"
  BY Zenon, <1>1, OnRuns, ProcIsNotCpu DEF write_end
<1>3. release(c, p, "tx", "user") /\ Goto(p, "user")
  BY Zenon DEF write_end, release
<1>4. UNCHANGED <<run, goal, state, saved, killed, left, target, claimed, rx, sending, tx_int, tx_busy, r, w>>
  BY Zenon DEF write_end, uart, console, procs
<1>5. Wakeups'
  BY Zenon, <1>1, <1>2, <1>3, <1>4, WakeupsThread
<1>6. state' \in [Proc -> {"RUNNING", "RUNNABLE", "SLEEPING"}] /\ tx_busy' \in BOOLEAN
  BY <1>1, <1>4, Zenon DEF Types
<1>7. Holds(p, "tx")
  BY Zenon, <1>2 DEF Holds
<1> QED BY Zenon, <1>1, <1>2, <1>3, <1>4, <1>5, <1>6, <1>7, LeftType, ReleaseCore DEF Lock

LEMMA PutcEndCore ==
    ASSUME Core, NEW c \in CPU, NEW t \in CPU \cup Proc, putc_end(c, t)
    PROVE  Core'
<1>1. Types /\ Pieces /\ Wakeups
  BY Zenon, CoreIs
<1>2. Runs(c, t) /\ pc[t] = "putc_end"
  BY Zenon, <1>1, OnRuns DEF putc_end
<1> DEFINE l == IF t = c THEN "cons_end" ELSE "user"
<1>3. release(c, t, "pr", l) /\ Goto(t, l)
  BY Zenon DEF putc_end, release
<1>4. UNCHANGED <<run, goal, state, saved, killed, left, target, claimed, rx, sending, tx_int, tx_busy, r, w>>
  BY Zenon DEF putc_end, uart, console, procs
<1>5. Wakeups'
  BY Zenon, <1>1, <1>2, <1>3, <1>4, WakeupsThread
<1>6. state' \in [Proc -> {"RUNNING", "RUNNABLE", "SLEEPING"}] /\ tx_busy' \in BOOLEAN
  BY <1>1, <1>4, Zenon DEF Types
<1>7. \/ t \in Proc /\ Holds(t, "pr") /\ l = "user"
      \/ t = c /\ pc[c] = "putc_end" /\ l = "cons_end"
  BY <1>2, RunsIs DEF Holds
<1> HIDE DEF l
<1> QED BY Zenon, <1>1, <1>2, <1>3, <1>4, <1>5, <1>6, <1>7, LeftType, ReleaseCore DEF Lock

LEMMA ConsEndCore ==
    ASSUME Core, NEW c \in CPU, cons_end(c)
    PROVE  Core'
<1>1. Types /\ Pieces /\ Wakeups
  BY Zenon, CoreIs
<1>2. Runs(c, c) /\ pc[c] = "cons_end" /\ c \notin Proc
  BY Zenon, ProcIsNotCpu DEF cons_end, Runs
<1>3. release(c, c, "cons", "uartgetc") /\ Goto(c, "uartgetc")
  BY Zenon DEF cons_end, release
<1>4. UNCHANGED <<run, goal, state, saved, killed, left, target, claimed, rx, sending, tx_int, tx_busy, r, w>>
  BY Zenon DEF cons_end, uart, console, procs
<1>5. Wakeups'
  BY Zenon, <1>1, <1>2, <1>3, <1>4, WakeupsThread
<1>6. state' \in [Proc -> {"RUNNING", "RUNNABLE", "SLEEPING"}] /\ tx_busy' \in BOOLEAN
  BY <1>1, <1>4, Zenon DEF Types
<1> QED BY Zenon, <1>1, <1>2, <1>3, <1>4, <1>5, <1>6, LeftType, ReleaseCore DEF Lock

\* wakeup() makes sleepers runnable.
LEMMA WakeupState ==
    ASSUME Types, NEW l, wakeup(l)
    PROVE  /\ state' \in [Proc -> {"RUNNING", "RUNNABLE", "SLEEPING"}]
           /\ \A p \in Proc : state'[p] = "RUNNING" <=> state[p] = "RUNNING"
           /\ \A p \in Proc : state'[p] = "SLEEPING" => state[p] = "SLEEPING" /\ pc[p] # l
<1>1. state \in [Proc -> {"RUNNING", "RUNNABLE", "SLEEPING"}]
  BY Zenon DEF Types
<1> QED BY Zenon, <1>1 DEF wakeup

\* uart.c:142-153: the handler wakes the writers once the UART is idle.
LEMMA TxIdleCore ==
    ASSUME Core, NEW c \in CPU, tx_idle(c)
    PROVE  Core'
<1>1. Types /\ Pieces /\ Wakeups
  BY Zenon, CoreIs
<1>2. Runs(c, c) /\ pc[c] = "tx_idle" /\ c \notin Proc
  BY Zenon, ProcIsNotCpu DEF tx_idle, Runs
<1>3. release(c, c, "tx", "uartgetc") /\ Goto(c, "uartgetc")
  BY Zenon DEF tx_idle, release
<1>4. UNCHANGED <<run, goal, saved, killed, left, target, claimed, rx, sending, tx_int, r, w>>
  BY Zenon DEF tx_idle, uart
<1>5. /\ state' \in [Proc -> {"RUNNING", "RUNNABLE", "SLEEPING"}] /\ tx_busy' \in BOOLEAN
      /\ \A p \in Proc : state'[p] = "RUNNING" <=> state[p] = "RUNNING"
      /\ Wakeups'
  <2>1. CASE sending
    <3>1. UNCHANGED <<tx_busy, state>>
      BY Zenon, <2>1 DEF tx_idle
    <3>2. \A p \in Proc : state'[p] = "SLEEPING" => state[p] = "SLEEPING" /\ pc'[p] = pc[p]
      BY Zenon, <1>1, <1>2, <1>3, <3>1, SleepersStay
    <3>3. Wakeups'
      BY Zenon, <1>1, <1>4, <2>1, <3>1, <3>2, WakeupsKept DEF Sending
    <3> QED BY <1>1, <3>1, <3>3, Zenon DEF Types
  <2>2. CASE ~sending
    <3>1. tx_busy' = FALSE /\ wakeup("write_woken")
      BY Zenon, <2>2 DEF tx_idle
    <3>2. /\ state' \in [Proc -> {"RUNNING", "RUNNABLE", "SLEEPING"}]
          /\ \A p \in Proc : state'[p] = "RUNNING" <=> state[p] = "RUNNING"
          /\ \A p \in Proc : state'[p] = "SLEEPING" => state[p] = "SLEEPING" /\ pc[p] # "write_woken"
      BY Zenon, <1>1, <3>1, WakeupState
    <3>3. \A p \in Proc : state'[p] = "SLEEPING" => state[p] = "SLEEPING" /\ pc'[p] = pc[p]
      BY Zenon, <1>1, <1>2, <1>3, <3>2, SleepersStay
    <3>4. Wakeups'
      BY <1>1, <1>4, <3>1, <3>2, <3>3, Zenon DEF Wakeups
    <3> QED BY Zenon, <3>1, <3>2, <3>4
  <2> QED BY Zenon, <2>1, <2>2
<1> QED BY Zenon, <1>1, <1>2, <1>3, <1>4, <1>5, LeftType, ReleaseCore DEF Lock

\* console.c:88-127: a read from a buffer that is not empty, so that no reader sleeps.
LEMMA ReadCore ==
    ASSUME Core, NEW c \in CPU, NEW p \in Proc, read(c, p)
    PROVE  Core'
<1>1. Types /\ Pieces /\ Wakeups /\ Lefts
  BY Zenon, CoreIs
<1>2. Runs(c, p) /\ p # c /\ p \notin CPU /\ pc[p] = "read" /\ left[p] > 0
  BY Zenon, <1>1, OnRuns, ProcIsNotCpu DEF read, Lefts
<1>3. PICK l \in {"read", "read_end"} :
        /\ Goto(p, l)
        /\ left' = [left EXCEPT ![p] = left'[p]]
        /\ left'[p] \in {left[p], left[p] - 1}
        /\ l = "read" => left'[p] > 0
  <2>1. left \in [Proc -> 0..(MaxRead + MaxWrite)]
    BY Zenon, <1>1, LeftType
  <2>2. MaxRead \in Nat /\ MaxWrite \in Nat
    BY Zenon, ConsoleAssumption
  <2> QED BY <1>2, <2>1, <2>2 DEF read
<1>4. /\ left' \in [Proc -> 0..(MaxRead + MaxWrite)]
      /\ \A q \in Proc : q # p => left'[q] = left[q]
  <2>1. left \in [Proc -> 0..(MaxRead + MaxWrite)]
    BY Zenon, <1>1, LeftType
  <2>2. MaxRead \in Nat /\ MaxWrite \in Nat
    BY Zenon, ConsoleAssumption
  <2> QED BY ONLY <1>2, <1>3, <2>1, <2>2, p \in Proc
<1>5. UNCHANGED <<cpus, goal, saved, killed, target, claimed, rx, holder, panic, state, tx_busy, sending, tx_int, w>>
  BY Zenon DEF read, uart
<1>6. /\ state' \in [Proc -> {"RUNNING", "RUNNABLE", "SLEEPING"}]
      /\ tx_busy' \in BOOLEAN /\ sending' \in BOOLEAN /\ tx_int' \in BOOLEAN
  BY <1>1, <1>5, Zenon DEF Types
<1>7. Wakeups'
  <2>1. \A q \in Proc : state'[q] = "SLEEPING" => state[q] = "SLEEPING" /\ pc'[q] = pc[q]
    BY Zenon, <1>1, <1>2, <1>3, <1>5, SleepersStay
  <2>2. Sending => Sending'
    BY Zenon, <1>1, <1>2, <1>3, <1>5, SendingKept
  <2>3. r # w
    BY Zenon DEF read
  <2> QED BY <1>1, <1>5, <2>1, <2>2, <2>3, Zenon DEF Wakeups, Sending
<1> QED BY <1>2, <1>3, <1>4, <1>5, <1>6, <1>7, MoveCore

\* uart.c:80-99: a character for an idle UART, for which no writer sleeps.
LEMMA WriteCore ==
    ASSUME Core, NEW c \in CPU, NEW p \in Proc, write(c, p)
    PROVE  Core'
<1>1. Types /\ Pieces /\ Wakeups /\ Lefts
  BY Zenon, CoreIs
<1>2. Runs(c, p) /\ p # c /\ p \notin CPU /\ pc[p] = "write" /\ left[p] > 0
  BY Zenon, <1>1, OnRuns, ProcIsNotCpu DEF write, Lefts
<1>3. PICK l \in {"write", "write_end"} :
        /\ Goto(p, l)
        /\ left' = [left EXCEPT ![p] = left[p] - 1]
        /\ l = "write" => left[p] # 1
  <2>1. left \in [Proc -> 0..(MaxRead + MaxWrite)]
    BY Zenon, <1>1, LeftType
  <2> QED BY Zenon, <2>1 DEF write
<1>4. /\ left' \in [Proc -> 0..(MaxRead + MaxWrite)]
      /\ \A q \in Proc : q # p => left'[q] = left[q]
      /\ l = "write" => left'[p] > 0
  <2>1. left \in [Proc -> 0..(MaxRead + MaxWrite)]
    BY Zenon, <1>1, LeftType
  <2>2. MaxRead \in Nat /\ MaxWrite \in Nat
    BY Zenon, ConsoleAssumption
  <2> QED BY ONLY <1>2, <1>3, <2>1, <2>2, p \in Proc
<1>5. UNCHANGED <<cpus, goal, saved, killed, target, claimed, rx, holder, panic, state, r, w>>
  BY Zenon DEF write
<1>6. tx_busy' = TRUE /\ sending' = TRUE /\ tx_int' = FALSE /\ ~tx_busy
  BY Zenon DEF write, THR
<1>7. /\ state' \in [Proc -> {"RUNNING", "RUNNABLE", "SLEEPING"}]
      /\ tx_busy' \in BOOLEAN /\ sending' \in BOOLEAN /\ tx_int' \in BOOLEAN
  BY <1>1, <1>5, <1>6, Zenon DEF Types
<1>8. Wakeups'
  <2>1. \A q \in Proc : state'[q] = "SLEEPING" => state[q] = "SLEEPING" /\ pc'[q] = pc[q]
    BY Zenon, <1>1, <1>2, <1>3, <1>5, SleepersStay
  <2> QED BY <1>1, <1>5, <1>6, <2>1, Zenon DEF Wakeups
<1> QED BY <1>2, <1>3, <1>4, <1>5, <1>7, <1>8, MoveCore

LEMMA PutcCore ==
    ASSUME Core, NEW c \in CPU, NEW t \in CPU \cup Proc, putc(c, t)
    PROVE  Core'
<1>1. Types /\ Pieces /\ Wakeups
  BY Zenon, CoreIs
<1>2. Runs(c, t) /\ pc[t] = "putc" /\ Goto(t, "putc_end")
  BY Zenon, <1>1, OnRuns DEF putc
<1>3. UNCHANGED <<cpus, goal, saved, killed, target, left, claimed, rx, holder, panic, state, tx_busy, r, w>>
  BY Zenon DEF putc, procs, console
<1>4. sending' = TRUE /\ tx_int' = FALSE
  BY Zenon DEF putc, consputc, uartputc_sync, THR
<1>5. /\ state' \in [Proc -> {"RUNNING", "RUNNABLE", "SLEEPING"}]
      /\ tx_busy' \in BOOLEAN /\ sending' \in BOOLEAN /\ tx_int' \in BOOLEAN
  BY <1>1, <1>3, <1>4, Zenon DEF Types
<1>6. Wakeups'
  BY Zenon, <1>1, <1>2, <1>3, <1>4, WakeupsThread
<1> QED BY Zenon, <1>1, <1>2, <1>3, <1>5, <1>6, LeftType, MoveCore

\* console.c:162-178: readers are woken with the change of cons.w.
LEMMA ConsoleintrCore ==
    ASSUME Core, NEW c \in CPU, NEW ch, consoleintr(c, ch)
    PROVE  Core'
<1>1. Types /\ Pieces /\ Wakeups
  BY Zenon, CoreIs
<1>2. Runs(c, c) /\ pc[c] = "consoleintr" /\ Goto(c, "cons_end")
  BY Zenon DEF consoleintr, Runs
<1>3. UNCHANGED <<cpus, goal, saved, killed, target, left, claimed, rx, holder, panic, tx_busy, r>>
  BY Zenon DEF consoleintr
<1>4. \/ sending' = TRUE /\ tx_int' = FALSE
      \/ UNCHANGED <<sending, tx_int>>
  BY Zenon DEF consoleintr, consputc, uartputc_sync, THR
<1>5. \/ UNCHANGED <<w, state>>
      \/ wakeup("read_woken")
  BY Zenon DEF consoleintr
<1>6. tx_busy' \in BOOLEAN /\ sending' \in BOOLEAN /\ tx_int' \in BOOLEAN
  BY <1>1, <1>3, <1>4, Zenon DEF Types
<1>7. /\ state' \in [Proc -> {"RUNNING", "RUNNABLE", "SLEEPING"}]
      /\ \A p \in Proc : state'[p] = "RUNNING" <=> state[p] = "RUNNING"
      /\ \A p \in Proc : state'[p] = "SLEEPING" => state[p] = "SLEEPING" /\ (w' = w \/ pc[p] # "read_woken")
  <2>1. CASE UNCHANGED <<w, state>>
    <3>1. state \in [Proc -> {"RUNNING", "RUNNABLE", "SLEEPING"}]
      BY Zenon, <1>1 DEF Types
    <3> QED BY Zenon, <2>1, <3>1
  <2>2. CASE wakeup("read_woken")
    BY Zenon, <1>1, <2>2, WakeupState
  <2> QED BY Zenon, <1>5, <2>1, <2>2
<1>8. Wakeups'
  <2>1. \A p \in Proc : state'[p] = "SLEEPING" => state[p] = "SLEEPING" /\ pc'[p] = pc[p]
    BY Zenon, <1>1, <1>2, <1>7, SleepersStay
  <2>2. Sending => Sending'
    BY <1>1, <1>2, <1>4, SendingKept
  <2> QED BY <1>1, <1>3, <1>7, <2>1, <2>2, Zenon DEF Wakeups, Sending
<1>9. left' \in [Proc -> 0..(MaxRead + MaxWrite)] /\ \A p \in Proc : p # c => left'[p] = left[p]
  BY Zenon, <1>1, <1>3, LeftType
<1> QED BY Zenon, <1>2, <1>3, <1>6, <1>7, <1>8, <1>9, MoveCore

LEMMA EraseCore ==
    ASSUME Core, NEW c \in CPU, NEW ch, erase(c, ch)
    PROVE  Core'
<1>1. Types /\ Pieces /\ Wakeups
  BY Zenon, CoreIs
<1>2. Runs(c, c) /\ pc[c] = "consoleintr" /\ Goto(c, "cons_end")
  BY Zenon DEF erase, Runs
<1>3. UNCHANGED <<cpus, goal, saved, killed, target, left, state, claimed, rx, holder, panic, tx_busy, r, w>>
  BY Zenon DEF erase, procs
<1>4. \/ sending' = TRUE /\ tx_int' = FALSE
      \/ UNCHANGED <<sending, tx_int>>
  BY Zenon DEF erase, consputc, uartputc_sync, THR
<1>5. /\ state' \in [Proc -> {"RUNNING", "RUNNABLE", "SLEEPING"}]
      /\ tx_busy' \in BOOLEAN /\ sending' \in BOOLEAN /\ tx_int' \in BOOLEAN
  BY <1>1, <1>3, <1>4, Zenon DEF Types
<1>6. Wakeups'
  <2>1. sending \/ tx_int => sending' \/ tx_int'
    BY Zenon, <1>4
  <2>2. pc[c] \notin {"tx", "tx_idle"}
    BY Zenon, <1>2
  <2>3. /\ UNCHANGED <<r, w, tx_busy>>
        /\ \A p \in Proc : state'[p] = "SLEEPING" => state[p] = "SLEEPING"
    BY Zenon, <1>3
  <2> QED BY Zenon, <1>1, <1>2, <2>1, <2>2, <2>3, WakeupsThread
<1> QED BY Zenon, <1>1, <1>2, <1>3, <1>5, <1>6, LeftType, MoveCore

LEMMA SpinCore ==
    ASSUME Core, NEW c \in CPU, NEW t \in CPU \cup Proc, spin(c, t)
    PROVE  Core'
<1>1. Types /\ Pieces /\ Wakeups /\ Lefts /\ Interrupts /\ Others_types
  BY Zenon, CoreIs
<1>2. Runs(c, t) /\ pc[t] \in Lock
  BY Zenon, <1>1, OnRuns DEF spin
<1>3. goal[t] = Next_of(t, pc[t]) /\ (t \in CPU => t = c)
  BY Zenon, <1>1, <1>2, RunsIs, ProcIsNotCpu DEF Pieces, PlaceOK
<1> DEFINE l == goal[t]
<1>4. Goto(t, l) /\ l \in HandlerPc \cup ProcPc
  BY Zenon, <1>3 DEF spin, Next_of, HandlerPc, ProcPc
<1>5. UNCHANGED <<cpus, state, saved, killed, left, target, claimed, rx, sending, tx_int, tx_busy, r, w>>
  BY Zenon DEF spin, procs, uart, console
<1>6. t \in CPU => pc[t] \notin {"tx", "tx_idle"} \/ l \in {"tx", "tx_idle"}
  BY Zenon, <1>2, <1>3 DEF Lock, Next_of
<1>7. t \in Proc /\ l \in {"cons", "read", "read_woken", "tx", "write", "write_woken"} => left'[t] > 0
  BY Zenon, <1>1, <1>2, <1>3, <1>5, ProcIsNotCpu DEF Lock, Next_of, Lefts
<1> HIDE DEF l
<1>8. Interrupts'
  BY Zenon, <1>1, <1>5 DEF Interrupts, cpus
<1>9. Others_types'
  <2>1. pc' \in [CPU \cup Proc -> HandlerPc \cup ProcPc]
    BY Zenon, <1>1, <1>4 DEF Others_types, Goto
  <2>2. goal' \in [CPU \cup Proc -> HandlerPc \cup ProcPc]
    BY Zenon, <1>1 DEF Others_types, spin, HandlerPc
  <2>3. holder' \in [Lock -> CPU \cup {None}]
    BY Zenon, <1>1, <1>2 DEF Others_types, spin
  <2>4. run' = run
    BY Zenon, <1>5 DEF cpus
  <2> QED BY <1>1, <1>5, <2>1, <2>2, <2>3, <2>4, Zenon DEF Others_types
<1>10. Pieces'
  BY Zenon, <1>1, Spins
<1>11. Lefts'
  BY Zenon, <1>1, <1>4, <1>5, <1>7, LeftsKept
<1>12. Wakeups'
  <2>1. \A p \in Proc : state'[p] = "SLEEPING" => state[p] = "SLEEPING" /\ pc'[p] = pc[p]
    BY Zenon, <1>1, <1>2, <1>4, <1>5, SleepersStay
  <2>2. Sending => Sending'
    BY Zenon, <1>1, <1>4, <1>5, <1>6, SendingKept
  <2> QED BY Zenon, <1>1, <1>5, <2>1, <2>2, WakeupsKept
<1> QED BY Zenon, <1>8, <1>9, <1>10, <1>11, <1>12, CoreFrom

LEMMA SchedulerCore ==
    ASSUME Core, NEW c \in CPU, NEW p \in Proc, scheduler(c, p)
    PROVE  Core'
<1>1. Types /\ Pieces /\ Wakeups /\ Lefts /\ Interrupts /\ Others_types
  BY Zenon, CoreIs
<1>2. UNCHANGED <<noff, pc, goal, killed, left, target, holder, claimed, rx, sending, tx_int, tx_busy, r, w>>
  BY Zenon DEF scheduler, uart, console
<1>3. Interrupts'
  <2>1. Restored(p) \in BOOLEAN /\ (Restored(p) \/ saved[p] = "trap") \in BOOLEAN
    BY Zenon DEF Restored
  <2>2. sie' \in [CPU -> BOOLEAN] /\ intena' \in [CPU -> BOOLEAN]
    BY <1>1, <2>1, Zenon DEF Interrupts, scheduler
  <2> QED BY Zenon, <1>1, <1>2, <2>2 DEF Interrupts
<1>4. Others_types'
  <2>1. run' \in [CPU -> Proc \cup {None}]
    BY Zenon, <1>1 DEF Others_types, scheduler
  <2>2. state' \in [Proc -> {"RUNNING", "RUNNABLE", "SLEEPING"}]
    BY Zenon, <1>1 DEF Others_types, scheduler
  <2>3. saved' \in [Proc -> {"on", "off", "trap"}]
    BY Zenon, <1>1 DEF Others_types, scheduler
  <2> QED BY <1>1, <1>2, <2>1, <2>2, <2>3, Zenon DEF Others_types
<1>5. Pieces'
  BY Zenon, <1>1, SchedulerControl
<1>6. Lefts'
  BY Zenon, <1>1, <1>2 DEF Lefts
<1>7. Wakeups'
  <2>1. \A q \in Proc : state'[q] = "SLEEPING" => state[q] = "SLEEPING" /\ pc'[q] = pc[q]
    BY Zenon, <1>1, <1>2 DEF Types, scheduler
  <2>2. Sending => Sending'
    BY Zenon, <1>2 DEF Sending
  <2> QED BY Zenon, <1>1, <1>2, <2>1, <2>2, WakeupsKept
<1> QED BY Zenon, <1>3, <1>4, <1>5, <1>6, <1>7, CoreFrom

LEMMA YieldCore ==
    ASSUME Core, NEW c \in CPU, NEW p \in Proc, yield(c, p)
    PROVE  Core'
<1>1. Types /\ Pieces /\ Wakeups /\ Lefts /\ Interrupts /\ Others_types
  BY Zenon, CoreIs
<1>2. UNCHANGED <<sie, intena, noff, pc, goal, killed, left, target, holder, claimed, rx, sending, tx_int, tx_busy, r, w>>
  BY Zenon DEF yield, uart, console
<1>3. Interrupts'
  BY Zenon, <1>1, <1>2 DEF Interrupts
<1>4. Others_types'
  <2>1. run' \in [CPU -> Proc \cup {None}]
    BY Zenon, <1>1 DEF Others_types, yield
  <2>2. state' \in [Proc -> {"RUNNING", "RUNNABLE", "SLEEPING"}]
    BY Zenon, <1>1 DEF Others_types, yield
  <2>3. saved' \in [Proc -> {"on", "off", "trap"}]
    BY Zenon, <1>1 DEF Others_types, yield
  <2> QED BY <1>1, <1>2, <2>1, <2>2, <2>3, Zenon DEF Others_types
<1>5. Pieces'
  BY Zenon, <1>1, YieldControl
<1>6. Lefts'
  BY Zenon, <1>1, <1>2 DEF Lefts
<1>7. Wakeups'
  <2>1. \A q \in Proc : state'[q] = "SLEEPING" => state[q] = "SLEEPING" /\ pc'[q] = pc[q]
    BY Zenon, <1>1, <1>2 DEF Types, yield
  <2>2. Sending => Sending'
    BY Zenon, <1>2 DEF Sending
  <2> QED BY Zenon, <1>1, <1>2, <2>1, <2>2, WakeupsKept
<1> QED BY Zenon, <1>3, <1>4, <1>5, <1>6, <1>7, CoreFrom

\* The start and the end of the handler.
LEMMA HandlerCore ==
    ASSUME Core, NEW c \in CPU, devintr(c) \/ plic_complete(c)
    PROVE  Core'
<1>1. Types /\ Pieces /\ Wakeups /\ Lefts /\ Interrupts /\ Others_types
  BY Zenon, CoreIs
<1>2. UNCHANGED <<noff, intena, run, goal, state, saved, killed, left, target, holder, rx, sending, tx_int, tx_busy, r, w>>
  BY Zenon DEF devintr, plic_complete, procs, console
<1>3. PICK l \in {"uartintr", "none"}, b \in BOOLEAN : Goto(c, l) /\ sie' = [sie EXCEPT ![c] = b]
  BY Zenon DEF devintr, plic_complete
<1>4. claimed' \in CPU \cup {None}
  BY Zenon DEF devintr, plic_complete
<1>5. pc[c] \notin {"tx", "tx_idle"}
  BY Zenon DEF devintr, plic_complete
<1>6. Interrupts'
  <2>1. sie' \in [CPU -> BOOLEAN]
    BY <1>1, <1>3, Zenon DEF Interrupts
  <2> QED BY Zenon, <1>1, <1>2, <2>1 DEF Interrupts
<1>7. Others_types'
  <2>1. pc' \in [CPU \cup Proc -> HandlerPc \cup ProcPc]
    BY Zenon, <1>1, <1>3 DEF Others_types, Goto, HandlerPc
  <2> QED BY <1>1, <1>2, <1>4, <2>1, Zenon DEF Others_types
<1>8. Pieces'
  BY Zenon, <1>1, DevintrControl, PlicCompleteControl
<1>9. Lefts'
  BY Zenon, <1>1, <1>2, <1>3, LeftsKept, ProcIsNotCpu
<1>10. Wakeups'
  <2>1. \A q \in Proc : pc'[q] = pc[q]
    BY Zenon, <1>1, <1>3, ProcIsNotCpu DEF Types, Goto
  <2>2. Sending => Sending'
    BY Zenon, <1>1, <1>2, <1>3, <1>5, SendingKept
  <2> QED BY Zenon, <1>1, <1>2, <2>1, <2>2, WakeupsKept
<1> QED BY Zenon, <1>6, <1>7, <1>8, <1>9, <1>10, CoreFrom

\* A key, the end of a transmission, kill() and exit().
LEMMA QuietCore ==
    ASSUME Core, UNCHANGED <<cpus, pc, goal, saved, left, target, holder, claimed, panic, tx_busy, r, w>>,
           state' \in [Proc -> {"RUNNING", "RUNNABLE", "SLEEPING"}], killed' \in [Proc -> BOOLEAN],
           rx' \in BOOLEAN, sending' \in BOOLEAN, tx_int' \in BOOLEAN,
           \A p \in Proc : state'[p] = "RUNNING" <=> state[p] = "RUNNING",
           \A p \in Proc : state'[p] = "SLEEPING" => state[p] = "SLEEPING",
           sending \/ tx_int => sending' \/ tx_int'
    PROVE  Core'
<1>1. Types /\ Pieces /\ Wakeups /\ Lefts /\ Interrupts /\ Others_types
  BY Zenon, CoreIs
<1>2. Interrupts'
  BY Zenon, <1>1 DEF Interrupts, cpus
<1>3. Others_types'
  BY <1>1, Zenon DEF Others_types, cpus
<1>4. Pieces'
  BY Zenon, <1>1, QuietControl
<1>5. Lefts'
  BY Zenon, <1>1 DEF Lefts
<1>6. Wakeups'
  <2>1. Sending => Sending'
    BY Zenon DEF Sending
  <2> QED BY Zenon, <1>1, <2>1, WakeupsKept
<1> QED BY Zenon, <1>2, <1>3, <1>4, <1>5, <1>6, CoreFrom

LEMMA KillCore ==
    ASSUME Core, NEW p \in Proc, kkill(p) \/ \E c \in CPU : kexit(c, p)
    PROVE  Core'
<1>1. Types
  BY Zenon, CoreIs
<1>2. UNCHANGED <<cpus, pc, goal, saved, left, target, holder, claimed, rx, sending, tx_int, panic, tx_busy, r, w>>
  BY Zenon DEF kkill, kexit, uart, console
<1>3. PICK b \in BOOLEAN : killed' = [killed EXCEPT ![p] = b]
  BY Zenon DEF kkill, kexit
<1>4. killed' \in [Proc -> BOOLEAN]
  BY <1>1, <1>3, Zenon DEF Types
<1>5. state' = [state EXCEPT ![p] = IF @ = "SLEEPING" THEN "RUNNABLE" ELSE @] \/ state' = state
  BY Zenon DEF kkill, kexit
<1>6. /\ state' \in [Proc -> {"RUNNING", "RUNNABLE", "SLEEPING"}]
      /\ \A q \in Proc : state'[q] = "RUNNING" <=> state[q] = "RUNNING"
      /\ \A q \in Proc : state'[q] = "SLEEPING" => state[q] = "SLEEPING"
  <2>1. state \in [Proc -> {"RUNNING", "RUNNABLE", "SLEEPING"}]
    BY Zenon, <1>1 DEF Types
  <2> QED BY Zenon, <1>5, <2>1
<1>7. rx' \in BOOLEAN /\ sending' \in BOOLEAN /\ tx_int' \in BOOLEAN
  BY <1>1, <1>2, Zenon DEF Types
<1> QED BY Zenon, <1>2, <1>4, <1>6, <1>7, QuietCore

LEMMA DeviceCore ==
    ASSUME Core, transmitted \/ receive
    PROVE  Core'
<1>1. Types
  BY Zenon, CoreIs
<1>2. UNCHANGED <<cpus, pc, goal, state, killed, saved, left, target, holder, claimed, panic, tx_busy, r, w>>
  BY Zenon DEF transmitted, receive, procs, console
<1>3. /\ state' \in [Proc -> {"RUNNING", "RUNNABLE", "SLEEPING"}] /\ killed' \in [Proc -> BOOLEAN]
  BY <1>1, <1>2, Zenon DEF Types
<1>4. /\ rx' \in BOOLEAN /\ sending' \in BOOLEAN /\ tx_int' \in BOOLEAN
      /\ sending \/ tx_int => sending' \/ tx_int'
  BY <1>1, Zenon DEF Types, transmitted, receive
<1> QED BY Zenon, <1>2, <1>3, <1>4, QuietCore

----------------------------------------------------------------------------
(* Remainders, and the indices that wrap. *)

LEMMA ModRange ==
    ASSUME NEW u \in Nat \ {0}, NEW x \in Nat
    PROVE  x % u \in 0..(u - 1)
OBVIOUS

LEMMA ModWrap ==
    ASSUME NEW u \in Nat \ {0}, NEW x \in 0..(2 * u - 1)
    PROVE  x % u = IF x < u THEN x ELSE x - u
OBVIOUS

LEMMA Quotient ==
    ASSUME NEW u \in Nat \ {0}, NEW x \in Nat
    PROVE  \E q \in Int : x % u = x - u * q
<1>1. x \div u \in Int
  OBVIOUS
<1>2. x % u = x - u * (x \div u)
  OBVIOUS
<1> QED BY Zenon, <1>1, <1>2

\* Fewer than m places apart, two positions are not the same place of a ring of m.
LEMMA ModDistinct ==
    ASSUME NEW m \in Nat \ {0}, NEW x \in Nat, NEW y \in Nat, x < y, y < x + m
    PROVE  x % m # y % m
<1>1. PICK a \in Int : x % m = x - m * a
  BY Zenon, Quotient
<1>2. PICK b \in Int : y % m = y - m * b
  BY Zenon, Quotient
<1>3. ASSUME x - m * a = y - m * b PROVE FALSE
  <2>1. y - x = m * (b - a)
    BY ONLY <1>3, a \in Int, b \in Int, x \in Nat, y \in Nat, m \in Nat \ {0}
  <2>2. b - a >= 1
    BY <2>1
  <2>3. m * (b - a) >= m
    BY <2>2
  <2> QED BY <2>1, <2>3
<1> QED BY Zenon, <1>1, <1>2, <1>3

LEMMA Remainder ==
    ASSUME NEW m \in Nat \ {0}, NEW q \in Int, NEW x \in 0..(m - 1)
    PROVE  (m * q + x) % m = x
OBVIOUS

LEMMA ModOfMultiple ==
    ASSUME NEW m \in Nat \ {0}, NEW k \in Nat, NEW x \in Nat
    PROVE  (x - k * m) % m = x % m
<1>1. PICK a \in Int : x % m = x - m * a
  BY Zenon, Quotient
<1> DEFINE y == x % m
<1>2. y \in 0..(m - 1)
  BY Zenon, ModRange
<1>3. y = x - m * a
  BY Zenon, <1>1
<1> HIDE DEF y
<1>4. x - k * m = m * (a - k) + y
  BY <1>2, <1>3
<1>5. (m * (a - k) + y) % m = y
  BY <1>2, Remainder
<1> QED BY Zenon, <1>4, <1>5 DEF y

LEMMA Sizes ==
    /\ INPUT_BUF_SIZE \in Nat \ {0} /\ UINT \in Nat \ {0} /\ INPUT_BUF_SIZE < UINT
    /\ \E k \in Nat : UINT = k * INPUT_BUF_SIZE
<1>1. PICK k \in 2..UINT : UINT = k * INPUT_BUF_SIZE
  BY Zenon, ConsoleAssumption
<1>2. k * INPUT_BUF_SIZE >= 2 * INPUT_BUF_SIZE
  BY <1>1, ConsoleAssumption
<1>3. k \in Nat /\ INPUT_BUF_SIZE \in Nat \ {0}
  BY <1>1, ConsoleAssumption
<1> QED BY ONLY <1>1, <1>2, <1>3

\* console.c:100, 164: 2^32 is a multiple of INPUT_BUF_SIZE, so the place of a character
\* is that of its index before it wraps.
LEMMA Place ==
    ASSUME NEW x \in 0..(2 * UINT - 1)
    PROVE  (x % UINT) % INPUT_BUF_SIZE = x % INPUT_BUF_SIZE
<1>1. PICK k \in Nat : UINT = k * INPUT_BUF_SIZE
  BY Zenon, Sizes
<1>2. x % UINT = IF x < UINT THEN x ELSE x - UINT
  BY Zenon, Sizes, ModWrap
<1>3. (x - k * INPUT_BUF_SIZE) % INPUT_BUF_SIZE = x % INPUT_BUF_SIZE
  <2>1. INPUT_BUF_SIZE \in Nat \ {0} /\ x \in Nat
    BY Sizes
  <2> QED BY ONLY Zenon, <2>1, k \in Nat, ModOfMultiple
<1> QED BY ONLY Zenon, <1>1, <1>2, <1>3

LEMMA SubValue ==
    ASSUME NEW x \in 0..(UINT - 1), NEW y \in 0..(UINT - 1)
    PROVE  Sub(x, y) = (IF y <= x THEN x - y ELSE x + UINT - y) /\ Sub(x, y) \in 0..(UINT - 1)
<1>1. PICK z \in 0..(2 * UINT - 1) : z = x + UINT - y
  BY Sizes
<1>2. z % UINT = IF z < UINT THEN z ELSE z - UINT
  BY Zenon, Sizes, ModWrap
<1> QED BY Sizes, <1>1, <1>2 DEF Sub

LEMMA IncValue ==
    ASSUME NEW x \in 0..(UINT - 1)
    PROVE  Inc(x) = (IF x + 1 < UINT THEN x + 1 ELSE 0) /\ Inc(x) \in 0..(UINT - 1)
<1>1. PICK z \in 0..(2 * UINT - 1) : z = x + 1
  BY Sizes
<1>2. z % UINT = IF z < UINT THEN z ELSE z - UINT
  BY Zenon, Sizes, ModWrap
<1> QED BY Sizes, <1>1, <1>2 DEF Inc

LEMMA SeqOf ==
    ASSUME NEW S, NEW n \in Nat, NEW f, f = [i \in 1..n |-> f[i]], \A i \in 1..n : f[i] \in S
    PROVE  f \in Seq(S)
<1>1. f \in [1..n -> S]
  BY Zenon
<1> QED BY <1>1

(* The input, with how much of it there is and how much of it can be read. *)

Size     == Sub(e, r)
Readable == Sub(w, r)
Indices  == r \in 0..(UINT - 1) /\ w \in 0..(UINT - 1) /\ e \in 0..(UINT - 1)

Line ==
    /\ buf \in [0..(INPUT_BUF_SIZE - 1) -> Char \cup {"nul"}]
    /\ Indices
    /\ Readable <= Size /\ Size <= INPUT_BUF_SIZE
    /\ typed \in Seq(Char \cup {"nul"}) /\ Len(typed) = Size
    /\ \A k \in 1..Size : typed[k] = buf[(r + k - 1) % INPUT_BUF_SIZE]
    /\ Size = INPUT_BUF_SIZE => Readable = Size
    /\ \A k \in 1..Size : k > Readable => typed[k] \notin {"newline", "D"}

LEMMA SizeValue ==
    ASSUME Indices
    PROVE  /\ Size \in 0..(UINT - 1) /\ Readable \in 0..(UINT - 1)
           /\ Size = IF r <= e THEN e - r ELSE e + UINT - r
           /\ Readable = IF r <= w THEN w - r ELSE w + UINT - r
           /\ Size = Readable <=> w = e
           /\ Readable = 0 <=> r = w
           /\ Readable <= Size => Sub(e, w) = Size - Readable
<1>1. /\ Size \in 0..(UINT - 1) /\ Readable \in 0..(UINT - 1)
      /\ Size = IF r <= e THEN e - r ELSE e + UINT - r
      /\ Readable = IF r <= w THEN w - r ELSE w + UINT - r
      /\ Sub(e, w) = IF w <= e THEN e - w ELSE e + UINT - w
  BY Zenon, SubValue DEF Indices, Size, Readable
<1> QED BY <1>1, Sizes DEF Indices

\* The characters, oldest first and, as the erasing keys find them, youngest first.
LEMMA Oldest ==
    ASSUME Indices, Size <= INPUT_BUF_SIZE, NEW k \in 1..Size
    PROVE  /\ At((r + k - 1) % UINT) = buf[(r + k - 1) % INPUT_BUF_SIZE]
           /\ At(Sub(e, Size + 1 - k)) = buf[(r + k - 1) % INPUT_BUF_SIZE]
<1>1. Size \in 0..(UINT - 1)
  BY Zenon, SizeValue
<1>2. PICK x \in 0..(2 * UINT - 1) : x = r + k - 1
  BY <1>1, Sizes DEF Indices
<1>3. (x % UINT) % INPUT_BUF_SIZE = x % INPUT_BUF_SIZE
  BY Zenon, Place
<1>4. PICK j \in 0..(UINT - 1) : j = Size + 1 - k
  BY <1>1, Sizes
<1>5. Sub(e, j) = x % UINT
  <2>1. Sub(e, j) = IF j <= e THEN e - j ELSE e + UINT - j
    BY Zenon, SubValue DEF Indices
  <2>2. x % UINT = IF x < UINT THEN x ELSE x - UINT
    BY Zenon, Sizes, ModWrap
  <2> QED BY <1>1, <1>2, <1>4, <2>1, <2>2, SizeValue, Sizes DEF Indices
<1> QED BY Zenon, <1>2, <1>3, <1>4, <1>5 DEF At

LEMMA RingIs == Ring <=> Line
<1>1. Ring => Line
  <2> SUFFICES ASSUME Ring PROVE Line
    BY Zenon
  <2>1. Indices /\ Readable <= Size /\ Size <= INPUT_BUF_SIZE
    BY Zenon DEF Ring, Indices, Size, Readable
  <2>2. Size \in Nat /\ Readable \in Nat /\ (Size = Readable <=> w = e) /\ Sub(e, w) = Size - Readable
    BY <2>1, SizeValue
  <2>3. typed = [k \in 1..Size |-> buf[(r + k - 1) % INPUT_BUF_SIZE]]
    BY Zenon, <2>1, Oldest DEF Ring, Input, Size
  <2>4. ASSUME NEW k \in 1..Size
        PROVE  typed[k] \in Char \cup {"nul"} /\ (k > Readable => typed[k] \notin {"newline", "D"})
    <3>1. r + k - 1 \in Nat
      BY <2>1, <2>2 DEF Indices
    <3>2. (r + k - 1) % INPUT_BUF_SIZE \in 0..(INPUT_BUF_SIZE - 1)
      BY Zenon, <3>1, Sizes, ModRange
    <3>3. k > Readable => Size + 1 - k \in 1..Sub(e, w)
      BY <2>2
    <3>4. At(Sub(e, Size + 1 - k)) = typed[k]
      BY Zenon, <2>1, <2>3, Oldest
    <3>5. typed[k] \in Char \cup {"nul"}
      BY Zenon, <2>3, <3>2 DEF Ring
    <3> QED BY Zenon, <3>3, <3>4, <3>5 DEF Ring
  <2>5. typed \in Seq(Char \cup {"nul"}) /\ Len(typed) = Size
    <3>1. typed = [k \in 1..Size |-> typed[k]]
      BY Zenon, <2>3
    <3>2. typed \in Seq(Char \cup {"nul"})
      BY Zenon, <2>2, <2>4, <3>1, SeqOf
    <3> QED BY ONLY <2>2, <3>1, <3>2
  <2>6. Size = INPUT_BUF_SIZE => Readable = Size
    BY Zenon, <2>2 DEF Ring, Size
  <2> QED BY Zenon, <2>1, <2>3, <2>4, <2>5, <2>6 DEF Line, Ring
<1>2. Line => Ring
  <2> SUFFICES ASSUME Line PROVE Ring
    BY Zenon
  <2>1. Indices /\ Readable <= Size /\ Size <= INPUT_BUF_SIZE
    BY Zenon DEF Line
  <2>2. Size \in Nat /\ Readable \in Nat /\ (Size = Readable <=> w = e) /\ Sub(e, w) = Size - Readable
    BY <2>1, SizeValue
  <2>3. typed = Input
    <3>1. typed = [k \in 1..Size |-> typed[k]]
      <4>1. typed \in Seq(Char \cup {"nul"}) /\ Len(typed) = Size
        BY Zenon DEF Line
      <4> QED BY ONLY <4>1
    <3>2. \A k \in 1..Size : typed[k] = At((r + k - 1) % UINT)
      BY Zenon, <2>1, Oldest DEF Line
    <3> QED BY Zenon, <3>1, <3>2 DEF Input, Size
  <2>4. ASSUME NEW j \in 1..Sub(e, w) PROVE At(Sub(e, j)) \notin {"newline", "D"}
    <3>1. PICK k \in 1..Size : k = Size + 1 - j /\ k > Readable /\ j = Size + 1 - k
      BY <2>1, <2>2
    <3>2. At(Sub(e, j)) = typed[k]
      <4>1. At(Sub(e, Size + 1 - k)) = typed[k]
        BY Zenon, <2>1, Oldest DEF Line
      <4> QED BY Zenon, <3>1, <4>1
    <3> QED BY Zenon, <3>1, <3>2 DEF Line
  <2> QED BY Zenon, <2>1, <2>2, <2>3, <2>4 DEF Line, Ring, Indices, Size, Readable
<1> QED BY Zenon, <1>1, <1>2

Values == Indices =>
    /\ Size \in Nat /\ Readable \in Nat
    /\ Size = IF r <= e THEN e - r ELSE e + UINT - r
    /\ Readable = IF r <= w THEN w - r ELSE w + UINT - r

LEMMA ValuesNow == Values
BY SizeValue, Sizes DEF Values

LEMMA ValuesNext == Values'
BY ValuesNow, PTL

LEMMA LineKept ==
    ASSUME Line, UNCHANGED <<buf, r, w, e, typed>>
    PROVE  Line'
BY Zenon DEF Line, Indices, Size, Readable, Sub

\* console.c:100: reading a character leaves the others in order.
LEMMA LineRead ==
    ASSUME Line, r # w, r' = Inc(r), typed' = Tail(typed), UNCHANGED <<buf, w, e>>
    PROVE  Line'
<1> USE Sizes
<1>1. Indices /\ Indices'
  BY Zenon, IncValue DEF Line, Indices
<1>2. r' = IF r + 1 < UINT THEN r + 1 ELSE 0
  BY Zenon, <1>1, IncValue DEF Indices
<1>3. Size \in Nat /\ Readable \in Nat /\ Readable > 0 /\ Readable <= Size /\ Size <= INPUT_BUF_SIZE
  BY <1>1, ValuesNow, SizeValue DEF Values, Line
<1>4. Size' = Size - 1 /\ Readable' = Readable - 1
  BY <1>1, <1>2, <1>3, ValuesNow, ValuesNext DEF Values, Indices
<1>5. typed \in Seq(Char \cup {"nul"}) /\ Len(typed) = Size
  BY Zenon DEF Line
<1>6. /\ typed' \in Seq(Char \cup {"nul"}) /\ Len(typed') = Size'
      /\ \A k \in 1..Size' : typed'[k] = typed[k + 1]
  BY ONLY <1>3, <1>4, <1>5, typed' = Tail(typed)
<1>7. ASSUME NEW k \in 1..Size' PROVE typed'[k] = buf'[(r' + k - 1) % INPUT_BUF_SIZE]
  <2>1. typed'[k] = buf[(r + (k + 1) - 1) % INPUT_BUF_SIZE]
    BY <1>3, <1>4, <1>6 DEF Line
  <2>2. r + (k + 1) - 1 = r + k
    BY <1>1 DEF Indices
  <2>3. (r + k) % INPUT_BUF_SIZE = (r' + k - 1) % INPUT_BUF_SIZE
    <3>1. CASE r + 1 < UINT
      <4>1. r' + k - 1 = r + k
        BY <1>1, <1>2, <3>1 DEF Indices
      <4> QED BY Zenon, <4>1
    <3>2. CASE ~(r + 1 < UINT)
      <4>1. PICK x \in 0..(2 * UINT - 1) : x = r + k /\ r' + k - 1 = x - UINT /\ x >= UINT
        BY <1>1, <1>2, <1>3, <1>4, <3>2 DEF Indices
      <4>2. x % UINT = x - UINT
        BY <4>1, ModWrap
      <4>3. (x - UINT) % INPUT_BUF_SIZE = x % INPUT_BUF_SIZE
        BY ONLY Zenon, <4>2, Place
      <4> QED BY ONLY Zenon, <4>1, <4>3
    <3> QED BY Zenon, <3>1, <3>2
  <2> QED BY Zenon, <2>1, <2>2, <2>3
<1>8. \A k \in 1..Size' : k > Readable' => typed'[k] \notin {"newline", "D"}
  BY <1>3, <1>4, <1>6 DEF Line
<1> QED BY <1>1, <1>3, <1>4, <1>6, <1>7, <1>8 DEF Line

\* console.c:164: a character that is typed overwrites none that is still to be read.
LEMMA LineTyped ==
    ASSUME Line, NEW ch \in Char, Size < INPUT_BUF_SIZE, r' = r, e' = Inc(e),
           buf' = [buf EXCEPT ![e % INPUT_BUF_SIZE] = ch], typed' = Append(typed, ch),
           IF ch \in {"newline", "D"} \/ Size' = INPUT_BUF_SIZE THEN w' = e' ELSE w' = w
    PROVE  Line'
<1> USE Sizes
<1>1. Indices /\ Indices'
  BY Zenon, IncValue DEF Line, Indices
<1>2. e' = IF e + 1 < UINT THEN e + 1 ELSE 0
  BY Zenon, <1>1, IncValue DEF Indices
<1>3. Size \in Nat /\ Readable \in Nat /\ Readable <= Size
  BY Zenon, <1>1, ValuesNow DEF Values, Line
<1>4. Size' = Size + 1
  <2>1. /\ Size = IF r <= e THEN e - r ELSE e + UINT - r
        /\ Size' = IF r' <= e' THEN e' - r' ELSE e' + UINT - r'
    BY Zenon, <1>1, ValuesNow, ValuesNext DEF Values
  <2>2. r \in 0..(UINT - 1) /\ e \in 0..(UINT - 1)
    BY Zenon, <1>1 DEF Indices
  <2> QED BY ONLY <1>2, <2>1, <2>2, Size < INPUT_BUF_SIZE, r' = r, Sizes
<1>5. Readable' = IF ch \in {"newline", "D"} \/ Size' = INPUT_BUF_SIZE THEN Size' ELSE Readable
  BY Zenon, <1>1, ValuesNow, ValuesNext DEF Values, Indices
<1>6. typed \in Seq(Char \cup {"nul"}) /\ Len(typed) = Size
  BY Zenon DEF Line
<1>7. /\ typed' \in Seq(Char \cup {"nul"}) /\ Len(typed') = Size'
      /\ typed'[Size'] = ch
      /\ \A k \in 1..Size : typed'[k] = typed[k]
  BY ONLY <1>3, <1>4, <1>6, typed' = Append(typed, ch), ch \in Char
<1>8. (r + Size) % INPUT_BUF_SIZE = e % INPUT_BUF_SIZE
  <2>1. CASE r + Size = e
    BY Zenon, <2>1
  <2>2. CASE r + Size = e + UINT
    <3>1. PICK x \in 0..(2 * UINT - 1) : x = e + UINT /\ x - UINT = e /\ x >= UINT
      BY <1>1 DEF Indices
    <3>2. x % UINT = e
      BY <3>1, ModWrap
    <3>3. e % INPUT_BUF_SIZE = x % INPUT_BUF_SIZE
      BY ONLY Zenon, <3>2, Place
    <3> QED BY ONLY Zenon, <2>2, <3>1, <3>3
  <2> QED BY <1>1, <2>1, <2>2, ValuesNow DEF Values, Indices
<1>9. e % INPUT_BUF_SIZE \in 0..(INPUT_BUF_SIZE - 1)
  BY <1>1, ModRange DEF Indices
<1>10. /\ buf' \in [0..(INPUT_BUF_SIZE - 1) -> Char \cup {"nul"}]
       /\ buf'[e % INPUT_BUF_SIZE] = ch
       /\ \A x \in 0..(INPUT_BUF_SIZE - 1) : x # e % INPUT_BUF_SIZE => buf'[x] = buf[x]
  BY Zenon, <1>9 DEF Line
<1>11. ASSUME NEW k \in 1..Size' PROVE typed'[k] = buf'[(r' + k - 1) % INPUT_BUF_SIZE]
  <2>1. CASE k = Size'
    <3>1. r' + k - 1 = r + Size
      BY <1>1, <1>3, <1>4, <2>1 DEF Indices
    <3> QED BY ONLY Zenon, <1>7, <1>8, <1>10, <2>1, <3>1
  <2>2. CASE k \in 1..Size
    <3>1. /\ r + k - 1 \in Nat /\ r + Size \in Nat
          /\ r + k - 1 < r + Size /\ r + Size < r + k - 1 + INPUT_BUF_SIZE
      BY <1>1, <1>3, <2>2 DEF Indices
    <3>2. (r + k - 1) % INPUT_BUF_SIZE # e % INPUT_BUF_SIZE
      BY Zenon, <3>1, <1>8, ModDistinct
    <3>3. (r + k - 1) % INPUT_BUF_SIZE \in 0..(INPUT_BUF_SIZE - 1)
      BY Zenon, <3>1, ModRange
    <3>4. typed[k] = buf[(r + k - 1) % INPUT_BUF_SIZE]
      BY Zenon, <2>2 DEF Line
    <3> QED BY Zenon, <1>7, <1>10, <2>2, <3>2, <3>3, <3>4
  <2>3. k = Size' \/ k \in 1..Size
    BY ONLY <1>3, <1>4, k \in 1..Size'
  <2> QED BY ONLY Zenon, <2>1, <2>2, <2>3
<1>12. \A k \in 1..Size' : k > Readable' => typed'[k] \notin {"newline", "D"}
  <2> SUFFICES ASSUME NEW k \in 1..Size', k > Readable' PROVE typed'[k] \notin {"newline", "D"}
    BY Zenon
  <2>1. Readable' = Readable /\ ch \notin {"newline", "D"}
    BY <1>3, <1>4, <1>5
  <2>2. CASE k = Size'
    BY Zenon, <1>7, <2>1, <2>2
  <2>3. CASE k \in 1..Size
    BY Zenon, <1>7, <2>1, <2>3 DEF Line
  <2>4. k = Size' \/ k \in 1..Size
    BY ONLY <1>3, <1>4, k \in 1..Size'
  <2> QED BY ONLY Zenon, <2>2, <2>3, <2>4
<1> QED BY <1>1, <1>3, <1>4, <1>5, <1>7, <1>10, <1>11, <1>12 DEF Line

\* console.c:147-161: what is erased is the end of what can still be edited.
LEMMA LineErased ==
    ASSUME Line, NEW n \in 0..(Size - Readable), e' = Sub(e, n),
           typed' = SubSeq(typed, 1, Len(typed) - n), UNCHANGED <<buf, r, w>>
    PROVE  Line'
<1> USE Sizes
<1>1. Indices
  BY Zenon DEF Line
<1>2. Size \in 0..(UINT - 1) /\ Readable \in Nat /\ Readable <= Size
  BY <1>1, SizeValue DEF Line
<1>3. n \in 0..(UINT - 1)
  BY <1>2
<1>4. e' = (IF n <= e THEN e - n ELSE e + UINT - n) /\ e' \in 0..(UINT - 1)
  BY Zenon, <1>1, <1>3, SubValue DEF Indices
<1>5. Indices'
  BY Zenon, <1>1, <1>4 DEF Indices
<1>6. Size' = Size - n /\ Readable' = Readable
  <2>1. /\ Size = IF r <= e THEN e - r ELSE e + UINT - r
        /\ Size' = IF r' <= e' THEN e' - r' ELSE e' + UINT - r'
        /\ Readable' = Readable
    BY Zenon, <1>1, <1>5, ValuesNow, ValuesNext DEF Values
  <2>2. r \in 0..(UINT - 1) /\ e \in 0..(UINT - 1) /\ n <= Size /\ r' = r
    BY <1>1, <1>2 DEF Indices
  <2> QED BY ONLY <1>3, <1>4, <2>1, <2>2, Sizes
<1>7. typed \in Seq(Char \cup {"nul"}) /\ Len(typed) = Size
  BY Zenon DEF Line
<1>8. /\ typed' \in Seq(Char \cup {"nul"}) /\ Len(typed') = Size'
      /\ \A k \in 1..Size' : typed'[k] = typed[k]
  BY ONLY <1>2, <1>6, <1>7, n \in 0..(Size - Readable), typed' = SubSeq(typed, 1, Len(typed) - n)
<1>9. \A k \in 1..Size' : k \in 1..Size
  BY <1>2, <1>6
<1>10. \A k \in 1..Size' : typed'[k] = buf'[(r' + k - 1) % INPUT_BUF_SIZE]
  BY Zenon, <1>8, <1>9 DEF Line
<1>11. \A k \in 1..Size' : k > Readable' => typed'[k] \notin {"newline", "D"}
  BY Zenon, <1>6, <1>8, <1>9 DEF Line
<1>12. Size' = INPUT_BUF_SIZE => Readable' = Size'
  BY <1>2, <1>6 DEF Line
<1>13. Readable' <= Size' /\ Size' <= INPUT_BUF_SIZE
  BY <1>2, <1>6 DEF Line
<1> QED BY Zenon, <1>5, <1>8, <1>10, <1>11, <1>12, <1>13 DEF Line

\* The kill-line key stops at the end of the line before, which cannot be edited.
LEMMA ErasedRange ==
    ASSUME Ring, NEW ch
    PROVE  Erased(ch) \in 0..(Size - Readable)
<1>1. Indices /\ Readable <= Size
  BY Zenon, RingIs DEF Line
<1>2. Sub(e, w) = Size - Readable /\ Sub(e, w) \in Nat /\ (e # w => Sub(e, w) >= 1)
  BY <1>1, SizeValue DEF Indices
<1>3. CASE ch = "H"
  BY <1>2, <1>3 DEF Erased
<1>4. CASE ch # "H"
  <2> DEFINE P(k) == /\ \A j \in 1..k : At(Sub(e, j)) # "newline"
                     /\ k = Sub(e, w) \/ At(Sub(e, k + 1)) = "newline"
  <2>1. P(Sub(e, w))
    BY Zenon DEF Ring
  <2>2. \E k \in 0..Sub(e, w) : P(k)
    BY <1>2, <2>1
  <2>3. Erased(ch) = CHOOSE k \in 0..Sub(e, w) : P(k)
    BY Zenon, <1>4 DEF Erased
  <2> HIDE DEF P
  <2>4. Erased(ch) \in 0..Sub(e, w)
    BY Zenon, <2>2, <2>3
  <2> QED BY Zenon, <1>2, <2>4
<1> QED BY Zenon, <1>3, <1>4

----------------------------------------------------------------------------
(* The invariant. *)

\* Three actions change the input, and the others leave it alone.
LEMMA InputStep ==
    ASSUME Ring, Next
    PROVE  Ring'
<1> SUFFICES Line'
  <2>1. Ring' <=> Line'
    BY RingIs, PTL
  <2> QED BY Zenon, <2>1
<1>1. Line
  BY Zenon, RingIs
<1> DEFINE Alone == UNCHANGED <<buf, r, w, e, typed>>
<1>2. Alone => Line'
  BY Zenon, <1>1, LineKept
<1>3. ASSUME NEW c \in CPU, NEW p \in Proc, read(c, p) PROVE Line'
  <2>1. CASE r' = r /\ typed' = typed
    <3>1. Alone
      BY Zenon, <1>3, <2>1 DEF read
    <3> QED BY ONLY Zenon, <1>2, <3>1
  <2>2. CASE r' = Inc(r) /\ typed' = Tail(typed)
    <3>1. r # w /\ UNCHANGED <<buf, w, e>>
      BY Zenon, <1>3 DEF read
    <3> QED BY ONLY Zenon, <1>1, <2>2, <3>1, LineRead
  <2>3. (r' = r /\ typed' = typed) \/ (r' = Inc(r) /\ typed' = Tail(typed))
    BY Zenon, <1>3 DEF read
  <2> QED BY ONLY Zenon, <2>1, <2>2, <2>3
<1>4. ASSUME NEW c \in CPU, NEW ch \in Char, consoleintr(c, ch) PROVE Line'
  <2>1. CASE UNCHANGED <<buf, e, typed, w>>
    <3>1. Alone
      BY Zenon, <1>4, <2>1 DEF consoleintr
    <3> QED BY ONLY Zenon, <1>2, <3>1
  <2>2. CASE /\ Room /\ buf' = [buf EXCEPT ![e % INPUT_BUF_SIZE] = ch]
             /\ e' = Inc(e) /\ typed' = Append(typed, ch)
             /\ IF Commits(ch) THEN w' = Inc(e) ELSE w' = w
    <3>1. r' = r
      BY Zenon, <1>4 DEF consoleintr
    <3>2. Size' = Sub(Inc(e), r)
      BY ONLY Zenon, <2>2, <3>1 DEF Size, Sub
    <3>3. IF ch \in {"newline", "D"} \/ Size' = INPUT_BUF_SIZE THEN w' = e' ELSE w' = w
      BY ONLY Zenon, <2>2, <3>2 DEF Commits
    <3>4. Size < INPUT_BUF_SIZE
      BY ONLY Zenon, <2>2 DEF Room, Size
    <3> QED BY ONLY Zenon, <1>1, <2>2, <3>1, <3>3, <3>4, ch \in Char, LineTyped
  <2>3. \/ UNCHANGED <<buf, e, typed, w>>
        \/ /\ Room /\ buf' = [buf EXCEPT ![e % INPUT_BUF_SIZE] = ch]
           /\ e' = Inc(e) /\ typed' = Append(typed, ch)
           /\ IF Commits(ch) THEN w' = Inc(e) ELSE w' = w
    BY Zenon, <1>4 DEF consoleintr
  <2> QED BY ONLY Zenon, <2>1, <2>2, <2>3
<1>5. ASSUME NEW c \in CPU, NEW ch \in Char, erase(c, ch) PROVE Line'
  <2>1. PICK n \in 0..(Size - Readable) : n = Erased(ch)
    BY Zenon, ErasedRange
  <2>2. e' = Sub(e, n) /\ typed' = SubSeq(typed, 1, Len(typed) - n) /\ UNCHANGED <<buf, r, w>>
    BY Zenon, <1>5, <2>1 DEF erase
  <2> QED BY ONLY Zenon, <1>1, <2>2, n \in 0..(Size - Readable), LineErased
<1>6. CASE transmitted \/ receive \/ \E p \in Proc : kkill(p)
  <2>1. Alone
    BY Zenon, <1>6 DEF transmitted, receive, kkill, console
  <2> QED BY ONLY Zenon, <1>2, <2>1
<1>7. ASSUME NEW c \in CPU,
             \/ devintr(c) \/ uartintr(c) \/ tx_idle(c) \/ uartgetc(c) \/ plic_complete(c) \/ cons_end(c)
             \/ \E ch \in Char : procdump(c, ch)
      PROVE  Line'
  <2>1. Alone
    BY Zenon, <1>7 DEF devintr, uartintr, tx_idle, uartgetc, plic_complete, cons_end, procdump, console
  <2> QED BY ONLY Zenon, <1>2, <2>1
<1>8. ASSUME NEW c \in CPU, NEW t \in CPU \cup Proc, spin(c, t) \/ putc(c, t) \/ putc_end(c, t)
      PROVE  Line'
  <2>1. Alone
    BY Zenon, <1>8 DEF spin, putc, putc_end, console
  <2> QED BY ONLY Zenon, <1>2, <2>1
<1>9. ASSUME NEW c \in CPU, NEW p \in Proc,
             \/ scheduler(c, p) \/ yield(c, p) \/ kexit(c, p) \/ woken(c, p) \/ read_sleep(c, p)
             \/ read_end(c, p) \/ write_sleep(c, p) \/ write(c, p) \/ write_end(c, p)
      PROVE  Line'
  <2>1. Alone
    <3>1. CASE scheduler(c, p) \/ yield(c, p) \/ kexit(c, p) \/ woken(c, p)
      BY Zenon, <3>1 DEF scheduler, yield, kexit, woken, console
    <3>2. CASE read_sleep(c, p) \/ read_end(c, p) \/ write_sleep(c, p) \/ write(c, p) \/ write_end(c, p)
      BY Zenon, <3>2 DEF read_sleep, read_end, write_sleep, write, write_end, console
    <3> QED BY ONLY <1>9, <3>1, <3>2, Zenon
  <2> QED BY ONLY Zenon, <1>2, <2>1
<1>10. ASSUME NEW c \in CPU, \/ \E p \in Reader, n \in 1..MaxRead : consoleread(c, p, n)
                             \/ \E p \in Writer, n \in 1..MaxWrite : consolewrite(c, p, n)
                             \/ \E p \in Writer : printf(c, p)
       PROVE  Line'
  <2>1. Alone
    BY Zenon, <1>10 DEF consoleread, consolewrite, printf, console
  <2> QED BY ONLY Zenon, <1>2, <2>1
<1> QED BY Zenon, <1>3, <1>4, <1>5, <1>6, <1>7, <1>8, <1>9, <1>10 DEF Next

LEMMA CoreStep ==
    ASSUME Core, Next
    PROVE  Core'
<1>1. CASE transmitted \/ receive
  BY Zenon, <1>1, DeviceCore
<1>2. ASSUME NEW p \in Proc, kkill(p) PROVE Core'
  BY Zenon, <1>2, KillCore
<1>3. ASSUME NEW c \in CPU, devintr(c) \/ uartintr(c) \/ tx_idle(c) \/ uartgetc(c)
                            \/ plic_complete(c) \/ cons_end(c)
      PROVE  Core'
  BY Zenon, <1>3, HandlerCore, UartintrCore, TxIdleCore, UartgetcCore, ConsEndCore
<1>4. ASSUME NEW c \in CPU, NEW ch \in Char, consoleintr(c, ch) \/ erase(c, ch) \/ procdump(c, ch)
      PROVE  Core'
  BY Zenon, <1>4, ConsoleintrCore, EraseCore, ProcdumpCore
<1>5. ASSUME NEW c \in CPU, NEW t \in CPU \cup Proc, spin(c, t) \/ putc(c, t) \/ putc_end(c, t)
      PROVE  Core'
  BY Zenon, <1>5, SpinCore, PutcCore, PutcEndCore
<1>6. ASSUME NEW c \in CPU, NEW p \in Proc,
             scheduler(c, p) \/ yield(c, p) \/ kexit(c, p) \/ woken(c, p) \/ read_sleep(c, p) \/ write_sleep(c, p)
      PROVE  Core'
  BY Zenon, <1>6, SchedulerCore, YieldCore, KillCore, WokenCore, SleepActionsCore
<1>7. ASSUME NEW c \in CPU, NEW p \in Proc, read(c, p) \/ read_end(c, p) \/ write(c, p) \/ write_end(c, p)
      PROVE  Core'
  BY Zenon, <1>7, ReadCore, ReadEndCore, WriteCore, WriteEndCore
<1>8. ASSUME NEW c \in CPU, \/ \E p \in Reader, n \in 1..MaxRead : consoleread(c, p, n)
                            \/ \E p \in Writer, n \in 1..MaxWrite : consolewrite(c, p, n)
                            \/ \E p \in Writer : printf(c, p)
      PROVE  Core'
  <2>1. Reader \subseteq Proc /\ Writer \subseteq Proc
    BY Zenon, ConsoleAssumption
  <2> QED BY Zenon, <1>8, <2>1, ConsolereadCore, ConsolewriteCore, PrintfCore
<1> QED BY Zenon, <1>1, <1>2, <1>3, <1>4, <1>5, <1>6, <1>7, <1>8 DEF Next

LEMMA InitCore == Init => Core /\ Ring
<1> SUFFICES ASSUME Init PROVE Core /\ Ring
  BY Zenon
<1>2. /\ \A c \in CPU : pc[c] = "none" /\ run[c] = None /\ noff[c] = 0 /\ sie[c] = TRUE /\ c \notin Proc
      /\ \A p \in Proc : pc[p] = "user" /\ state[p] = "RUNNABLE" /\ saved[p] = "trap"
      /\ \A lk \in Lock : holder[lk] = None
      /\ claimed = None /\ None \notin CPU /\ panic = "none" /\ tx_busy = FALSE
  BY Zenon, ConsoleAssumption DEF Init
<1>3. Pieces
  <2>1. ASSUME NEW c \in CPU PROVE CpuOK(c)
    <3>1. ASSUME NEW lk \in Lock PROVE HolderOK(c, lk)
      BY Zenon, <1>2 DEF HolderOK, Holds
    <3>2. NoffOK(c)
      BY Zenon, <1>2 DEF NoffOK
    <3>3. SieOK(c)
      BY Zenon, <1>2 DEF SieOK
    <3>4. IntenaOK(c)
      BY ONLY <1>2, c \in CPU DEF IntenaOK
    <3>5. RunOK(c)
      BY Zenon, <1>2 DEF RunOK
    <3> QED BY Zenon, <3>1, <3>2, <3>3, <3>4, <3>5 DEF CpuOK
  <2>2. ASSUME NEW t \in CPU \cup Proc PROVE PlaceOK(t)
    BY Zenon, <1>2 DEF PlaceOK, HandlerPc, ProcPc, Lock
  <2>3. Claims /\ OneCpu /\ Offs
    BY Zenon, <1>2 DEF Claims, OneCpu, Offs, Outside
  <2> QED BY Zenon, <1>2, <2>1, <2>2, <2>3 DEF Pieces
<1>4. Lefts /\ Wakeups
  BY Zenon, <1>2 DEF Lefts, Wakeups
<1>1. Types
  <2>1. 0 \in 0..2 /\ 0 \in 0..(MaxRead + MaxWrite) /\ 0 \in 0..MaxRead
    BY ConsoleAssumption
  <2>2. /\ sie \in [CPU -> BOOLEAN] /\ intena \in [CPU -> BOOLEAN] /\ noff \in [CPU -> 0..2]
        /\ run \in [CPU -> Proc \cup {None}] /\ holder \in [Lock -> CPU \cup {None}]
    BY Zenon, <2>1 DEF Init
  <2>3. pc \in [CPU \cup Proc -> HandlerPc \cup ProcPc]
    <3>1. \A t \in CPU \cup Proc : (IF t \in CPU THEN "none" ELSE "user") \in HandlerPc \cup ProcPc
      BY Zenon DEF HandlerPc, ProcPc
    <3> QED BY Zenon, <3>1 DEF Init
  <2>4. goal \in [CPU \cup Proc -> HandlerPc \cup ProcPc]
    BY Zenon DEF Init, HandlerPc
  <2>5. /\ state \in [Proc -> {"RUNNING", "RUNNABLE", "SLEEPING"}]
        /\ saved \in [Proc -> {"on", "off", "trap"}] /\ killed \in [Proc -> BOOLEAN]
        /\ left \in [Proc -> 0..(MaxRead + MaxWrite)] /\ target \in [Proc -> 0..MaxRead]
    BY Zenon, <2>1 DEF Init
  <2>6. /\ claimed \in CPU \cup {None} /\ rx \in BOOLEAN /\ sending \in BOOLEAN
        /\ tx_int \in BOOLEAN /\ tx_busy \in BOOLEAN
    BY Zenon DEF Init
  <2> QED BY Zenon, <2>2, <2>3, <2>4, <2>5, <2>6 DEF Types
<1>5. Ring
  <2>1. r = 0 /\ w = 0 /\ e = 0 /\ typed = <<>> /\ buf = [k \in 0..(INPUT_BUF_SIZE - 1) |-> "nul"]
    BY Zenon DEF Init
  <2>2. Indices
    BY ONLY <2>1, Sizes DEF Indices
  <2>3. Size = 0 /\ Readable = 0
    BY Zenon, <2>1, <2>2, SizeValue
  <2>4. Line
    BY ONLY <2>1, <2>2, <2>3, Sizes DEF Line
  <2> QED BY Zenon, <2>4, RingIs
<1> QED BY Zenon, <1>1, <1>3, <1>4, <1>5 DEF Core

LEMMA InvIs == IInv <=> Core /\ Ring
BY Zenon, Parts, ThreadParts DEF IInv, Core

LEMMA InvNext == IInv' <=> Core' /\ Ring'
BY InvIs, PTL

LEMMA InvKept ==
    ASSUME Core, Ring, UNCHANGED vars
    PROVE  Core' /\ Ring'
<1>1. Core'
  <2>1. Types /\ Pieces /\ Wakeups /\ Lefts
    BY Zenon, CoreIs
  <2>2. /\ UNCHANGED <<cpus, pc, goal, saved, left, target, holder, claimed, panic, tx_busy, r, w>>
        /\ UNCHANGED <<state, killed, rx, sending, tx_int, buf, e, typed>>
    BY Zenon DEF vars, procs, uart, console
  <2>3. /\ state' \in [Proc -> {"RUNNING", "RUNNABLE", "SLEEPING"}] /\ killed' \in [Proc -> BOOLEAN]
        /\ rx' \in BOOLEAN /\ sending' \in BOOLEAN /\ tx_int' \in BOOLEAN
    BY Zenon, <2>1, <2>2 DEF Types
  <2>4. sending \/ tx_int => sending' \/ tx_int'
    BY Zenon, <2>2
  <2>5. \A p \in Proc : state'[p] = state[p]
    BY Zenon, <2>2
  <2> QED BY Zenon, <2>2, <2>3, <2>4, <2>5, QuietCore
<1>2. Ring'
  <2>1. UNCHANGED <<buf, r, w, e, typed>>
    BY Zenon DEF vars, console
  <2>2. Ring' <=> Line'
    BY RingIs, PTL
  <2> QED BY Zenon, <2>1, <2>2, RingIs, LineKept
<1> QED BY Zenon, <1>1, <1>2

\* console.c, uart.c, spinlock.c: the invariant holds for any CPUs, processes and keys, any
\* size of the buffer and any width of the indices that is a multiple of it.
THEOREM ConsoleInvariance == Spec => []IInv
<1>1. Init => IInv
  BY Zenon, InitCore, InvIs
<1>2. IInv /\ [Next]_vars => IInv'
  <2> SUFFICES ASSUME IInv, [Next]_vars PROVE Core' /\ Ring'
    BY Zenon, InvNext
  <2>1. Core /\ Ring
    BY Zenon, InvIs
  <2>2. CASE Next
    BY Zenon, <2>1, <2>2, CoreStep, InputStep
  <2>3. CASE UNCHANGED vars
    BY Zenon, <2>1, <2>3, InvKept
  <2> QED BY ONLY Zenon, <2>2, <2>3, [Next]_vars
<1> QED BY <1>1, <1>2, PTL DEF Spec

\* console.c:139-183: whatever is typed, erased and read, and wherever the indices wrap, the
\* buffer holds exactly the input, in order, and a full buffer can be read.
THEOREM ConsoleInputKept == Spec => []InputKept
<1>1. IInv => InputKept
  BY Zenon DEF IInv
<1> QED BY <1>1, ConsoleInvariance, PTL

----------------------------------------------------------------------------
(* What the invariant implies. *)

\* The CPU d that has a lock for which another spins does not spin for one of the other's:
\* a thread that spins holds a lock only where procdump() prints.
LEMMA SpinsHold ==
    ASSUME NEW t \in CPU \cup Proc, pc[t] \in Lock, NEW lk \in Lock, Holds(t, lk)
    PROVE  lk = "cons" /\ pc[t] = "pr" /\ t \in CPU
BY Zenon DEF Lock, Holds

LEMMA WaitsIs ==
    ASSUME Core, NEW c \in CPU, NEW d \in CPU, WaitsFor(c, d)
    PROVE  \E t \in CPU \cup Proc : Runs(c, t) /\ pc[t] \in Lock /\ holder[pc[t]] = d
<1>1. Types
  BY Zenon, CoreIs
<1>2. PICK t \in {c, run[c]} \ {None} : On(c, t) /\ pc[t] \in Lock /\ holder[pc[t]] = d
  BY Zenon DEF WaitsFor
<1>3. t \in CPU \cup Proc
  <2>1. run[c] \in Proc \cup {None}
    BY Zenon, <1>1 DEF Types
  <2> QED BY Zenon, <1>2, <2>1
<1> QED BY Zenon, <1>1, <1>2, <1>3, OnRuns

LEMMA CoreSpinsEnd == Core => SpinsEnd
<1> SUFFICES ASSUME Core, NEW c \in CPU, NEW d \in CPU, WaitsFor(c, d)
             PROVE  c # d /\ ~WaitsFor(d, c)
  BY Zenon DEF SpinsEnd
<1>1. Types /\ Pieces
  BY Zenon, CoreIs
<1>2. PICK t \in CPU \cup Proc : Runs(c, t) /\ pc[t] \in Lock /\ holder[pc[t]] = d
  BY Zenon, WaitsIs
<1>3. \A lk \in Lock : holder[lk] = c <=> Holds(t, lk)
  BY Zenon, <1>1, <1>2, HeldByThread
<1>4. c # d
  <2> SUFFICES ASSUME c = d PROVE FALSE
    BY Zenon
  <2>1. Holds(t, pc[t])
    BY Zenon, <1>2, <1>3
  <2>2. pc[t] = "cons" /\ pc[t] = "pr"
    BY Zenon, <1>2, <2>1, SpinsHold
  <2> QED BY Zenon, <2>2
<1>5. ASSUME WaitsFor(d, c) PROVE FALSE
  <2>1. PICK u \in CPU \cup Proc : Runs(d, u) /\ pc[u] \in Lock /\ holder[pc[u]] = c
    BY Zenon, <1>5, WaitsIs
  <2>2. \A lk \in Lock : holder[lk] = d <=> Holds(u, lk)
    BY Zenon, <1>1, <2>1, HeldByThread
  <2>3. Holds(u, pc[t]) /\ Holds(t, pc[u])
    BY Zenon, <1>2, <1>3, <2>1, <2>2
  <2>4. pc[t] = "cons" /\ pc[t] = "pr"
    BY Zenon, <1>2, <2>1, <2>3, SpinsHold
  <2> QED BY Zenon, <2>4
<1> QED BY Zenon, <1>4, <1>5

INSTANCE FiniteSetTheorems

\* A thread has passed as many push_off() as it holds locks and spins for one.
Held(t) == {lk \in Lock : Holds(t, lk)}

LEMMA DepthCounts ==
    ASSUME Core, NEW t \in CPU \cup Proc
    PROVE  Cardinality(Held(t)) + (IF pc[t] \in Lock THEN 1 ELSE 0) = Depth(t)
<1> USE ProcIsNotCpu
<1>1. PlaceOK(t)
  BY Zenon, CoreIs DEF Pieces
<1>2. Cardinality({}) = 0 /\ \A x : IsFiniteSet({x}) /\ Cardinality({x}) = 1
  BY Zenon, FS_EmptySet, FS_Singleton
<1>3. CASE pc[t] \in Outside \cup {"none", "uartintr", "uartgetc"}
  <2>1. Held(t) = {} /\ pc[t] \notin Lock /\ Depth(t) = 0
    BY Zenon, <1>3 DEF Held, Holds, Lock, Outside, Depth
  <2> QED BY ONLY <1>2, <2>1
<1>4. CASE pc[t] \in {"cons", "tx"}
  <2>1. Held(t) = {} /\ pc[t] \in Lock /\ Depth(t) = 1
    BY Zenon, <1>4 DEF Held, Holds, Lock, Outside, Depth
  <2> QED BY ONLY <1>2, <2>1
<1>5. CASE pc[t] = "pr" /\ t \in CPU
  <2>1. pc[t] \in Lock /\ Depth(t) = 2
    BY Zenon, <1>5 DEF Lock, Outside, Depth
  <2>2. \A lk \in Lock : Holds(t, lk) <=> lk = "cons"
    BY Zenon, <1>5 DEF Holds, Lock
  <2>3. Held(t) = {"cons"}
    BY ONLY Zenon, <2>2 DEF Held, Lock
  <2>4. Cardinality({"cons"}) = 1
    BY ONLY <1>2, Zenon
  <2> QED BY ONLY <2>1, <2>3, <2>4
<1>6. CASE pc[t] = "pr" /\ t \notin CPU
  <2>1. Held(t) = {} /\ pc[t] \in Lock /\ Depth(t) = 1
    BY Zenon, <1>6 DEF Held, Holds, Lock, Outside, Depth
  <2> QED BY ONLY <1>2, <2>1
<1>7. CASE pc[t] \in {"putc", "putc_end"} /\ t \in CPU
  <2>1. Held(t) = {"cons"} \cup {"pr"} /\ pc[t] \notin Lock /\ Depth(t) = 2
    BY Zenon, <1>7 DEF Held, Holds, Lock, Outside, Depth
  <2>2. IsFiniteSet({"cons"}) /\ Cardinality({"cons"}) = 1
    BY ONLY <1>2, Zenon
  <2>3. Cardinality({"cons"} \cup {"pr"}) = 2
    BY ONLY <2>2, FS_AddElement
  <2> QED BY ONLY <2>1, <2>3
<1>8. CASE pc[t] \in {"putc", "putc_end"} /\ t \notin CPU
  <2>1. pc[t] \notin Lock /\ Depth(t) = 1
    BY Zenon, <1>8 DEF Lock, Outside, Depth
  <2>2. \A lk \in Lock : Holds(t, lk) <=> lk = "pr"
    BY Zenon, <1>8 DEF Holds, Lock
  <2>3. Held(t) = {"pr"}
    BY ONLY Zenon, <2>2 DEF Held, Lock
  <2>4. Cardinality({"pr"}) = 1
    BY ONLY <1>2, Zenon
  <2> QED BY ONLY <2>1, <2>3, <2>4
<1>9. CASE pc[t] \in {"read", "read_end", "consoleintr", "cons_end"}
  <2>1. pc[t] \notin Lock /\ Depth(t) = 1
    BY Zenon, <1>9 DEF Lock, Outside, Depth
  <2>2. \A lk \in Lock : Holds(t, lk) <=> lk = "cons"
    BY Zenon, <1>9 DEF Holds, Lock
  <2>3. Held(t) = {"cons"}
    BY ONLY Zenon, <2>2 DEF Held, Lock
  <2>4. Cardinality({"cons"}) = 1
    BY ONLY <1>2, Zenon
  <2> QED BY ONLY <2>1, <2>3, <2>4
<1>10. CASE pc[t] \in {"write", "write_end", "tx_idle"}
  <2>1. pc[t] \notin Lock /\ Depth(t) = 1
    BY Zenon, <1>10 DEF Lock, Outside, Depth
  <2>2. \A lk \in Lock : Holds(t, lk) <=> lk = "tx"
    BY Zenon, <1>10 DEF Holds, Lock
  <2>3. Held(t) = {"tx"}
    BY ONLY Zenon, <2>2 DEF Held, Lock
  <2>4. Cardinality({"tx"}) = 1
    BY ONLY <1>2, Zenon
  <2> QED BY ONLY <2>1, <2>3, <2>4
<1>11. pc[t] \in HandlerPc \cup ProcPc
  BY Zenon, <1>1 DEF PlaceOK
<1> QED
  BY ONLY <1>3, <1>4, <1>5, <1>6, <1>7, <1>8, <1>9, <1>10, <1>11, Zenon DEF HandlerPc, ProcPc, Outside

LEMMA CoreInterruptsNest == Core => InterruptsNest
<1> SUFFICES ASSUME Core, NEW c \in CPU
             PROVE  /\ noff[c] = Cardinality({lk \in Lock : holder[lk] = c})
                                 + Cardinality({t \in {c, run[c]} \ {None} : pc[t] \in Lock})
                    /\ sie[c] <=> noff[c] = 0 /\ pc[c] = "none"
  BY Zenon DEF InterruptsNest
<1>1. Types /\ Pieces
  BY Zenon, CoreIs
<1>2. CpuOK(c) /\ run[c] \in Proc \cup {None} /\ None \notin CPU \cup Proc
  BY Zenon, <1>1, ConsoleAssumption DEF Types, Pieces
<1>3. Cardinality({}) = 0 /\ \A x : Cardinality({x}) = 1
  BY Zenon, FS_EmptySet, FS_Singleton
<1> DEFINE L == {lk \in Lock : holder[lk] = c}
           T == {t \in {c, run[c]} \ {None} : pc[t] \in Lock}
<1>4. ASSUME NEW t \in CPU \cup Proc, Runs(c, t)
      PROVE  noff[c] = Cardinality(L) + Cardinality(T)
  <2>1. noff[c] = Depth(t) /\ \A lk \in Lock : holder[lk] = c <=> Holds(t, lk)
    BY Zenon, <1>1, <1>4, HeldByThread
  <2>2. L = Held(t)
    BY Zenon, <2>1 DEF Held
  <2>3. \A u \in {c, run[c]} \ {None} : u # t => pc[u] \notin Lock
    BY Zenon, <1>2, <1>4, RunsIs DEF CpuOK, RunOK, Outside, Lock
  <2>4. t \in {c, run[c]} \ {None}
    BY Zenon, <1>2, <1>4, RunsIs
  <2>5. pc[t] \in Lock => T = {t}
    BY Zenon, <2>3, <2>4
  <2>6. pc[t] \notin Lock => T = {}
    BY Zenon, <2>3, <2>4
  <2>7. Cardinality(T) = IF pc[t] \in Lock THEN 1 ELSE 0
    <3> HIDE DEF T
    <3> QED BY ONLY Zenon, <1>3, <2>5, <2>6
  <2>8. Cardinality(Held(t)) + (IF pc[t] \in Lock THEN 1 ELSE 0) = Depth(t)
    BY Zenon, DepthCounts
  <2> HIDE DEF L, T
  <2> QED BY ONLY Zenon, <2>1, <2>2, <2>7, <2>8
<1>5. ASSUME pc[c] = "none", run[c] = None
      PROVE  noff[c] = Cardinality(L) + Cardinality(T)
  <2>1. L = {}
    BY Zenon, <1>2, <1>5 DEF CpuOK, HolderOK, Holds
  <2>2. T = {}
    BY Zenon, <1>5 DEF Lock
  <2>3. noff[c] = 0
    BY Zenon, <1>2, <1>5 DEF CpuOK, NoffOK
  <2> HIDE DEF L, T
  <2> QED BY ONLY <1>3, <2>1, <2>2, <2>3
<1>6. sie[c] <=> noff[c] = 0 /\ pc[c] = "none"
  BY Zenon, <1>2 DEF CpuOK, SieOK
<1>7. (\E t \in CPU \cup Proc : Runs(c, t)) \/ (pc[c] = "none" /\ run[c] = None)
  BY Zenon, <1>2 DEF Runs
<1>8. noff[c] = Cardinality(L) + Cardinality(T)
  <2> HIDE DEF L, T
  <2> QED BY Zenon, <1>4, <1>5, <1>7
<1> QED BY Zenon, <1>6, <1>8

LEMMA CoreWoken == Core => SleepersWoken
<1> SUFFICES ASSUME Core PROVE SleepersWoken
  BY Zenon
<1>1. Pieces /\ Wakeups
  BY Zenon, CoreIs
<1>2. ASSUME NEW c \in CPU, pc[c] = "tx_idle" PROVE holder["tx"] = c
  BY Zenon, <1>1, <1>2 DEF Pieces, CpuOK, HolderOK, Holds, Lock
<1>3. None \notin CPU
  BY Zenon, ConsoleAssumption
<1>4. ReaderWoken
  BY Zenon, <1>1 DEF ReaderWoken, Wakeups
<1>5. WriterWoken
  BY Zenon, <1>1, <1>2, <1>3 DEF WriterWoken, Wakeups
<1> QED BY Zenon, <1>1, <1>4, <1>5 DEF SleepersWoken

\* console.c:91-101, 172-177, uart.c:80-99, 142-153: nobody sleeps for a key or for the UART
\* when there is nothing left that wakes them.
THEOREM ConsoleSleepersWoken == Spec => []SleepersWoken
<1>1. IInv => SleepersWoken
  BY Zenon, InvIs, CoreWoken
<1> QED BY <1>1, ConsoleInvariance, PTL

\* spinlock.c:21-113: push_off() and pop_off() nest, the lock order is never circular and no
\* check of acquire(), release(), pop_off() or sched() panics, on any number of CPUs.
THEOREM ConsoleLocksNest == Spec => []LocksNest
<1>1. IInv => LocksNest
  <2> SUFFICES ASSUME IInv PROVE LocksNest
    BY Zenon
  <2>1. InterruptsNest /\ SpinsEnd
    BY Zenon, InvIs, CoreInterruptsNest, CoreSpinsEnd
  <2> QED BY Zenon, <2>1 DEF IInv, LocksNest, Locks, NoPanic
<1> QED BY <1>1, ConsoleInvariance, PTL
============================================================================
