------------------------------ MODULE Console ------------------------------
(***************************************************************************)
(* The console and its UART (kernel/console.c, kernel/uart.c, printf() and *)
(* plic.c), with what makes their interrupt handler safe: the spinlocks    *)
(* and the nesting of push_off() and pop_off() (kernel/spinlock.c), the    *)
(* traps (kernel/trap.c) and the intena that sched() saves.                *)
(*                                                                         *)
(* The threads are the processes and, on each CPU, its interrupt handler,  *)
(* which has the name of the CPU and runs before the process there.        *)
(***************************************************************************)
EXTENDS Naturals, FiniteSets, Sequences

CONSTANTS
    CPU, Proc,
    Reader, Writer,   \* the processes that call read(), and write() or printf()
    Char,             \* what can be typed: letters, and the keys named below
    INPUT_BUF_SIZE,
    UINT,             \* the number of values of cons.r, w, e: they wrap
    MaxRead, MaxWrite,  \* the longest read() and write()
    None

ASSUME ConsoleAssumption ==
    /\ INPUT_BUF_SIZE \in Nat \ {0} /\ MaxRead \in Nat \ {0} /\ MaxWrite \in Nat \ {0}
    /\ \E k \in 2..UINT : UINT = k * INPUT_BUF_SIZE
    /\ CPU \cap Proc = {} /\ None \notin CPU \cup Proc
    /\ Reader \subseteq Proc /\ Writer \subseteq Proc

\* The keys with a meaning: newline, and control with D, U, H, P.
Keys == {"newline", "D", "U", "H", "P"}
Lock == {"cons", "tx", "pr"}

VARIABLES
    \* CPUs.
    sie,        \* [CPU -> interrupts are on]
    noff,       \* [CPU -> c->noff]
    intena,     \* [CPU -> c->intena]
    run,        \* [CPU -> c->proc]
    \* Threads.
    pc,         \* [CPU \cup Proc -> where it is]; "none" if there is no handler
    goal,       \* [CPU \cup Proc -> where it is once it has the lock it spins for]
    state,      \* [Proc -> p->state]
    saved,      \* [Proc -> the local intena of sched(): "on", "off"; "trap" if preempted]
    killed,     \* [Proc -> p->killed]
    left,       \* [Proc -> what read() or write() has still to do: n]
    target,     \* [Proc -> n at the start of read()]
    holder,     \* [Lock -> lk->cpu, or None]
    \* The devices: the PLIC and the UART.
    claimed,    \* the CPU that has claimed the UART's interrupt, or None
    rx,         \* a character has arrived; consoleintr() finds out which one
    sending,    \* the transmit holding register, or its FIFO, is not empty
    tx_int,     \* the UART asks for a transmit interrupt
    \* The console.
    tx_busy, buf, r, w, e,
    typed,      \* what was typed and neither erased nor read; not in the code
    panic

cpus    == <<sie, noff, intena, run>>
procs   == <<state, saved, killed, left, target>>
uart    == <<claimed, rx, sending, tx_int>>
console == <<tx_busy, buf, r, w, e, typed>>
vars    == <<cpus, pc, goal, procs, holder, uart, console, panic>>

\* The thread t is the one that runs on c.
On(c, t) == t = IF pc[c] # "none" THEN c ELSE run[c]

Goto(t, l) == pc' = [pc EXCEPT ![t] = l]

----------------------------------------------------------------------------
(* spinlock.c *)

push_off(c) ==
    /\ noff' = [noff EXCEPT ![c] = @ + 1]
    /\ intena' = [intena EXCEPT ![c] = IF noff[c] = 0 THEN sie[c] ELSE @]
    /\ sie' = [sie EXCEPT ![c] = FALSE]

pop_off(c) ==
    /\ noff' = [noff EXCEPT ![c] = @ - 1]
    /\ sie' = [sie EXCEPT ![c] = noff[c] = 1 /\ intena[c]]
    /\ UNCHANGED intena

\* acquire(): first push_off(), and then the thread spins.
acquire(c, t, lk, next) ==
    /\ push_off(c)
    /\ Goto(t, lk)
    /\ goal' = [goal EXCEPT ![t] = next]
    /\ panic' = IF holder[lk] = c THEN "acquire" ELSE panic

\* The lock is free, and test-and-set takes it.
spin(c, t) ==
    /\ On(c, t)
    /\ pc[t] \in Lock
    /\ holder[pc[t]] = None
    /\ holder' = [holder EXCEPT ![pc[t]] = c]
    /\ Goto(t, goal[t])
    /\ goal' = [goal EXCEPT ![t] = "none"]
    /\ UNCHANGED <<cpus, procs, uart, console, panic>>

release(c, t, lk, next) ==
    /\ holder' = [holder EXCEPT ![lk] = None]
    /\ pop_off(c)
    /\ Goto(t, next)
    /\ panic' = CASE holder[lk] # c -> "release"
                  [] sie[c]         -> "pop_off - interruptible"
                  [] noff[c] < 1    -> "pop_off"
                  [] OTHER          -> panic

----------------------------------------------------------------------------
(* proc.c *)

\* sleep() in the thread p, which holds lk and with it p->lock is all that it may
\* hold; the CPU goes back to scheduler(), which enables interrupts.
sleep(c, p, lk, next) ==
    /\ holder' = [holder EXCEPT ![lk] = None]
    /\ saved' = [saved EXCEPT ![p] = IF intena[c] THEN "on" ELSE "off"]
    /\ state' = [state EXCEPT ![p] = "SLEEPING"]
    /\ Goto(p, next)
    /\ run' = [run EXCEPT ![c] = None]
    /\ noff' = [noff EXCEPT ![c] = 0]
    /\ sie' = [sie EXCEPT ![c] = TRUE]
    /\ panic' = IF noff[c] # 1 THEN "sched locks" ELSE panic
    /\ UNCHANGED intena

wakeup_lost(l) == UNCHANGED state
wakeup(l) == state' = [p \in Proc |-> IF state[p] = "SLEEPING" /\ pc[p] = l
                                      THEN "RUNNABLE" ELSE state[p]]

\* scheduler() switches to p: sched() restores intena, and the release of p->lock
\* enables interrupts if they were enabled before sleep().  A process that was
\* preempted returns from its trap, which enables them.
Restored_not(p) == FALSE
Restored(p) == saved[p] = "on"

scheduler(c, p) ==
    /\ pc[c] = "none"
    /\ run[c] = None
    /\ state[p] = "RUNNABLE"
    /\ state' = [state EXCEPT ![p] = "RUNNING"]
    /\ run' = [run EXCEPT ![c] = p]
    /\ intena' = [intena EXCEPT ![c] = Restored(p)]
    /\ sie' = [sie EXCEPT ![c] = Restored(p) \/ saved[p] = "trap"]
    /\ saved' = [saved EXCEPT ![p] = "off"]
    /\ UNCHANGED <<noff, pc, goal, killed, left, target, holder, uart, console, panic>>

\* A timer interrupt while p runs: clockintr() and yield().
yield(c, p) ==
    /\ On(c, p) /\ sie[c]
    /\ run' = [run EXCEPT ![c] = None]
    /\ state' = [state EXCEPT ![p] = "RUNNABLE"]
    /\ saved' = [saved EXCEPT ![p] = "trap"]
    /\ UNCHANGED <<sie, noff, intena, pc, goal, killed, left, target, holder, uart, console, panic>>

kkill(p) ==
    /\ ~killed[p]
    /\ killed' = [killed EXCEPT ![p] = TRUE]
    /\ state' = [state EXCEPT ![p] = IF @ = "SLEEPING" THEN "RUNNABLE" ELSE @]
    /\ UNCHANGED <<cpus, pc, goal, saved, left, target, holder, uart, console, panic>>

\* In usertrap() the killed process exits; another takes its place.
kexit(c, p) ==
    /\ On(c, p) /\ pc[p] = "user" /\ killed[p]
    /\ killed' = [killed EXCEPT ![p] = FALSE]
    /\ UNCHANGED <<cpus, pc, goal, state, saved, left, target, holder, uart, console, panic>>

----------------------------------------------------------------------------
(* console.c: consoleread() and consolewrite() *)

Sub(x, y) == (x + UINT - y) % UINT
Inc(x)    == (x + 1) % UINT
At(x)     == buf[x % INPUT_BUF_SIZE]

consoleread(c, p, n) ==
    /\ On(c, p) /\ pc[p] = "user" /\ ~killed[p]
    /\ left' = [left EXCEPT ![p] = n]
    /\ target' = [target EXCEPT ![p] = n]
    /\ acquire(c, p, "cons", "read")
    /\ UNCHANGED <<run, state, saved, killed, holder, uart, console>>

\* kill() may come after killed() has been read and before sleep(), and wakes nobody.
read_sleep(c, p) ==
    /\ On(c, p) /\ pc[p] = "read"
    /\ r = w
    /\ ~killed[p]
    /\ sleep(c, p, "cons", "read_woken")
    /\ killed' \in {killed, [killed EXCEPT ![p] = TRUE]}
    /\ UNCHANGED <<goal, left, target, uart, console>>

\* One character; if it is an end-of-file after others, it stays for the next read().
\* Without a free place in user memory a character is lost.
read(c, p) ==
    LET last == At(r) \in {"newline", "D"} \/ left[p] = 1
        stay == At(r) = "D" /\ left[p] < target[p] IN
    /\ On(c, p) /\ pc[p] = "read"
    /\ r # w
    /\ r' = IF stay THEN r ELSE Inc(r)
    /\ typed' = IF stay THEN typed ELSE Tail(typed)
    /\ \/ /\ left' = [left EXCEPT ![p] = IF At(r) = "D" THEN @ ELSE @ - 1]
          /\ Goto(p, IF last THEN "read_end" ELSE "read")
       \/ /\ At(r) # "D"                          \* either_copyout() fails
          /\ Goto(p, "read_end")
          /\ UNCHANGED left
    /\ UNCHANGED <<cpus, goal, state, saved, killed, target, holder, uart, tx_busy, buf, w, e, panic>>

read_end(c, p) ==
    /\ On(c, p)
    /\ \/ pc[p] = "read_end"
       \/ pc[p] = "read" /\ r = w /\ killed[p]
    /\ release(c, p, "cons", "user")
    /\ left' = [left EXCEPT ![p] = 0]
    /\ target' = [target EXCEPT ![p] = 0]
    /\ UNCHANGED <<run, goal, state, saved, killed, uart, console>>

\* consolewrite() of n characters, which it gives to uartwrite().  The chunks of 32 of a
\* longer one are calls of their own here, and one that either_copyin() cuts short is a
\* shorter call.
consolewrite(c, p, n) ==
    /\ On(c, p) /\ pc[p] = "user" /\ ~killed[p]
    /\ left' = [left EXCEPT ![p] = n]
    /\ acquire(c, p, "tx", "write")
    /\ UNCHANGED <<run, state, saved, killed, target, holder, uart, console>>

\* The end of sleep(): the lock is acquired again.
woken(c, p) ==
    /\ On(c, p)
    /\ \/ pc[p] = "read_woken" /\ acquire(c, p, "cons", "read")
       \/ pc[p] = "write_woken" /\ acquire(c, p, "tx", "write")
    /\ UNCHANGED <<run, procs, holder, uart, console>>

----------------------------------------------------------------------------
(* uart.c and printf.c *)

write_sleep(c, p) ==
    /\ On(c, p) /\ pc[p] = "write"
    /\ tx_busy
    /\ sleep(c, p, "tx", "write_woken")
    /\ UNCHANGED <<goal, killed, left, target, uart, console>>

\* A write of the transmit register also takes back the UART's transmit interrupt.
THR == sending' = TRUE /\ tx_int' = FALSE

\* uartputc_sync() waits for the UART, not for an interrupt; so does consputc(), where
\* one character stands for all that a backspace sends.  Its callers hold a lock, so that
\* its push_off() and pop_off() change noff alone, and there and back; and the model ends
\* with a panic, so that panicked is not set here.
uartputc_sync == ~sending /\ THR
consputc == uartputc_sync

write(c, p) ==
    /\ On(c, p) /\ pc[p] = "write"
    /\ ~tx_busy
    /\ THR
    /\ tx_busy' = TRUE
    /\ left' = [left EXCEPT ![p] = @ - 1]
    /\ Goto(p, IF left[p] = 1 THEN "write_end" ELSE "write")
    /\ UNCHANGED <<cpus, goal, state, saved, killed, target, holder, claimed, rx, buf, r, w, e, typed, panic>>

write_end(c, p) ==
    /\ On(c, p) /\ pc[p] = "write_end"
    /\ release(c, p, "tx", "user")
    /\ UNCHANGED <<run, goal, procs, uart, console>>

\* printf() by a process.
printf(c, p) ==
    /\ On(c, p) /\ pc[p] = "user" /\ ~killed[p]
    /\ acquire(c, p, "pr", "putc")
    /\ UNCHANGED <<run, procs, holder, uart, console>>

putc(c, t) ==
    /\ On(c, t) /\ pc[t] = "putc"
    /\ consputc
    /\ Goto(t, "putc_end")
    /\ UNCHANGED <<cpus, goal, procs, holder, claimed, rx, console, panic>>

putc_end(c, t) ==
    /\ On(c, t) /\ pc[t] = "putc_end"
    /\ release(c, t, "pr", IF t = c THEN "cons_end" ELSE "user")
    /\ UNCHANGED <<run, goal, procs, uart, console>>

\* The UART has sent what it had, and a key is pressed.
transmitted ==
    /\ sending
    /\ sending' = FALSE
    /\ tx_int' = TRUE
    /\ UNCHANGED <<cpus, pc, goal, procs, holder, claimed, rx, console, panic>>

receive ==
    /\ ~rx
    /\ rx' = TRUE
    /\ UNCHANGED <<cpus, pc, goal, procs, holder, claimed, sending, tx_int, console, panic>>

----------------------------------------------------------------------------
(* The interrupt handler of CPU c *)

\* kerneltrap(), usertrap() and devintr(): plic_claim().
devintr(c) ==
    /\ sie[c] /\ pc[c] = "none"
    /\ claimed = None /\ (tx_int \/ rx)
    /\ claimed' = c
    /\ sie' = [sie EXCEPT ![c] = FALSE]
    /\ Goto(c, "uartintr")
    /\ UNCHANGED <<noff, intena, run, goal, procs, holder, rx, sending, tx_int, console, panic>>

\* The read of ISR acknowledges the interrupt, before the lock is taken.
uartintr(c) ==
    /\ pc[c] = "uartintr"
    /\ tx_int' = FALSE
    /\ acquire(c, c, "tx", "tx_idle")
    /\ UNCHANGED <<run, procs, holder, claimed, rx, sending, console>>

tx_idle(c) ==
    /\ pc[c] = "tx_idle"
    /\ IF sending THEN UNCHANGED <<tx_busy, state>>
       ELSE tx_busy' = FALSE /\ wakeup("write_woken")
    /\ release(c, c, "tx", "uartgetc")
    /\ UNCHANGED <<run, goal, saved, killed, left, target, uart, buf, r, w, e, typed>>

uartgetc(c) ==
    /\ pc[c] = "uartgetc"
    /\ rx
    /\ rx' = FALSE
    /\ acquire(c, c, "cons", "consoleintr")
    /\ UNCHANGED <<run, procs, holder, claimed, sending, tx_int, console>>

\* plic_complete(), and the return from the trap.
plic_complete(c) ==
    /\ pc[c] = "uartgetc"
    /\ ~rx
    /\ claimed' = None
    /\ sie' = [sie EXCEPT ![c] = TRUE]
    /\ Goto(c, "none")
    /\ UNCHANGED <<noff, intena, run, goal, procs, holder, rx, sending, tx_int, console, panic>>

\* consoleintr(): what is typed, unless the buffer is full, ...
Room == Sub(e, r) < INPUT_BUF_SIZE

\* ... makes what was typed before it readable if it ends a line or fills the buffer.
Commits_lines(ch) == ch \in {"newline", "D"}
Commits(ch) == ch \in {"newline", "D"} \/ Sub(Inc(e), r) = INPUT_BUF_SIZE

consoleintr(c, ch) ==
    /\ pc[c] = "consoleintr"
    /\ ch \notin Keys \ {"newline", "D"}
    /\ \/ /\ Room
          /\ consputc                                       \* the echo
          /\ buf' = [buf EXCEPT ![e % INPUT_BUF_SIZE] = ch]
          /\ e' = Inc(e)
          /\ typed' = Append(typed, ch)
          /\ IF Commits(ch) THEN w' = Inc(e) /\ wakeup("read_woken") ELSE UNCHANGED <<w, state>>
       \/ /\ ~Room
          /\ UNCHANGED <<sending, tx_int, buf, e, typed, w, state>>
    /\ Goto(c, "cons_end")
    /\ UNCHANGED <<cpus, goal, saved, killed, left, target, holder, claimed, rx, tx_busy, r, panic>>

\* Backspace, or the whole line: how many characters go.
Erased(ch) ==
    IF ch = "H" THEN IF e # w THEN 1 ELSE 0
    ELSE CHOOSE k \in 0..Sub(e, w) :
            /\ \A j \in 1..k : At(Sub(e, j)) # "newline"
            /\ k = Sub(e, w) \/ At(Sub(e, k + 1)) = "newline"

erase(c, ch) ==
    LET k == Erased(ch) IN
    /\ pc[c] = "consoleintr"
    /\ ch \in {"H", "U"}
    /\ IF k > 0 THEN consputc ELSE UNCHANGED <<sending, tx_int>>
    /\ e' = Sub(e, k)
    /\ typed' = SubSeq(typed, 1, Len(typed) - k)
    /\ Goto(c, "cons_end")
    /\ UNCHANGED <<cpus, goal, procs, holder, claimed, rx, tx_busy, buf, r, w, panic>>

\* procdump() prints with printf().
procdump(c, ch) ==
    /\ pc[c] = "consoleintr"
    /\ ch = "P"
    /\ acquire(c, c, "pr", "putc")
    /\ UNCHANGED <<run, procs, holder, uart, console>>

cons_end(c) ==
    /\ pc[c] = "cons_end"
    /\ release(c, c, "cons", "uartgetc")
    /\ UNCHANGED <<run, goal, procs, uart, console>>

----------------------------------------------------------------------------
Init ==
    /\ sie = [c \in CPU |-> TRUE]
    /\ noff = [c \in CPU |-> 0]
    /\ intena = [c \in CPU |-> FALSE]
    /\ run = [c \in CPU |-> None]
    /\ pc = [t \in CPU \cup Proc |-> IF t \in CPU THEN "none" ELSE "user"]
    /\ goal = [t \in CPU \cup Proc |-> "none"]
    /\ state = [p \in Proc |-> "RUNNABLE"]
    /\ saved = [p \in Proc |-> "trap"]
    /\ killed = [p \in Proc |-> FALSE]
    /\ left = [p \in Proc |-> 0]
    /\ target = [p \in Proc |-> 0]
    /\ holder = [lk \in Lock |-> None]
    /\ claimed = None
    /\ rx = FALSE
    /\ sending = FALSE
    /\ tx_int = FALSE
    /\ tx_busy = FALSE
    /\ buf = [k \in 0..(INPUT_BUF_SIZE - 1) |-> "nul"]
    /\ r = 0 /\ w = 0 /\ e = 0
    /\ typed = <<>>
    /\ panic = "none"

Next ==
    /\ panic = "none"
    /\ \/ transmitted
       \/ receive
       \/ \E p \in Proc : kkill(p)
       \/ \E c \in CPU :
            \/ devintr(c) \/ uartintr(c) \/ tx_idle(c) \/ uartgetc(c) \/ plic_complete(c)
            \/ cons_end(c)
            \/ \E ch \in Char : consoleintr(c, ch) \/ erase(c, ch) \/ procdump(c, ch)
            \/ \E t \in CPU \cup Proc : spin(c, t) \/ putc(c, t) \/ putc_end(c, t)
            \/ \E p \in Proc :
                 \/ scheduler(c, p) \/ yield(c, p) \/ kexit(c, p) \/ woken(c, p)
                 \/ read_sleep(c, p) \/ read(c, p) \/ read_end(c, p)
                 \/ write_sleep(c, p) \/ write(c, p) \/ write_end(c, p)
            \/ \E p \in Reader, n \in 1..MaxRead : consoleread(c, p, n)
            \/ \E p \in Writer, n \in 1..MaxWrite : consolewrite(c, p, n)
            \/ \E p \in Writer : printf(c, p)

Spec == Init /\ [][Next]_vars

----------------------------------------------------------------------------
(* Properties *)

\* The types, and that the input stays within its buffer.
HandlerPc == {"none", "uartintr", "tx", "tx_idle", "uartgetc", "cons", "consoleintr", "cons_end",
              "pr", "putc", "putc_end"}
ProcPc == {"user", "cons", "read", "read_end", "read_woken", "tx", "write", "write_end",
           "write_woken", "pr", "putc", "putc_end"}

TypeOK ==
    /\ sie \in [CPU -> BOOLEAN] /\ intena \in [CPU -> BOOLEAN] /\ noff \in [CPU -> 0..2]
    /\ run \in [CPU -> Proc \cup {None}] /\ holder \in [Lock -> CPU \cup {None}]
    /\ pc \in [CPU \cup Proc -> HandlerPc \cup ProcPc]
    /\ goal \in [CPU \cup Proc -> HandlerPc \cup ProcPc]
    /\ state \in [Proc -> {"RUNNING", "RUNNABLE", "SLEEPING"}]
    /\ saved \in [Proc -> {"on", "off", "trap"}] /\ killed \in [Proc -> BOOLEAN]
    /\ left \in [Proc -> 0..(MaxRead + MaxWrite)] /\ target \in [Proc -> 0..MaxRead]
    /\ claimed \in CPU \cup {None} /\ rx \in BOOLEAN /\ sending \in BOOLEAN
    /\ tx_int \in BOOLEAN /\ tx_busy \in BOOLEAN
    /\ buf \in [0..(INPUT_BUF_SIZE - 1) -> Char \cup {"nul"}]
    /\ r \in 0..(UINT - 1) /\ w \in 0..(UINT - 1) /\ e \in 0..(UINT - 1)
    /\ Sub(w, r) <= Sub(e, r) /\ Sub(e, r) <= INPUT_BUF_SIZE

\* What was typed, edited and not yet read, as the buffer has it.
Input == [k \in 1..Sub(e, r) |-> At((r + k - 1) % UINT)]

\* console.c:139-183: the buffer holds what was typed, edited and not yet read, also
\* where the indices wrap; a full buffer can be read, as nothing more can be typed
\* to end its line; and what can still be edited holds no end of a line.
InputKept ==
    /\ TypeOK
    /\ typed = Input
    /\ Sub(e, r) = INPUT_BUF_SIZE => w = e
    /\ \A k \in 1..Sub(e, w) : At(Sub(e, k)) \notin {"newline", "D"}

\* A process that does not run, or that is interrupted, is outside the sections under a
\* lock; a process is on one CPU; the handler is on the CPU that has claimed the interrupt.
Outside == {"user", "read_woken", "write_woken"}

\* Where the thread t goes once it has the lock lk it spins for.
Next_of(t, lk) == IF lk = "pr" THEN "putc"
                  ELSE IF lk = "cons" THEN IF t \in CPU THEN "consoleintr" ELSE "read"
                  ELSE IF t \in CPU THEN "tx_idle" ELSE "write"

Threads ==
    /\ \A c \in CPU : pc[c] \in HandlerPc /\ (pc[c] # "none" <=> claimed = c)
    /\ \A p \in Proc : pc[p] \in ProcPc
    /\ \A t \in CPU \cup Proc : pc[t] \in Lock => goal[t] = Next_of(t, pc[t])
    /\ \A c \in CPU : run[c] # None => /\ state[run[c]] = "RUNNING"
                                       /\ pc[c] # "none" => pc[run[c]] \in Outside
    /\ \A c, d \in CPU : run[c] = run[d] /\ run[c] # None => c = d
    /\ \A p \in Proc : state[p] # "RUNNING" => pc[p] \in Outside /\ saved[p] # "off"
    /\ \A p \in Proc : pc[p] \in {"cons", "read", "read_woken", "tx", "write", "write_woken"} => left[p] > 0

\* The thread t holds lk; how many locks it holds or spins for.
Holds(t, lk) ==
    \/ lk = "cons" /\ pc[t] \in {"read", "read_end", "consoleintr", "cons_end"}
    \/ lk = "cons" /\ t \in CPU /\ pc[t] \in {"pr", "putc", "putc_end"}
    \/ lk = "tx" /\ pc[t] \in {"write", "write_end", "tx_idle"}
    \/ lk = "pr" /\ pc[t] \in {"putc", "putc_end"}

Depth(t) == IF pc[t] \in Outside \cup {"none", "uartintr", "uartgetc"} THEN 0
            ELSE IF t \in CPU /\ pc[t] \in {"pr", "putc", "putc_end"} THEN 2 ELSE 1

Locks ==
    /\ \A c \in CPU, lk \in Lock :
            holder[lk] = c <=> Holds(c, lk) \/ (run[c] # None /\ Holds(run[c], lk))
    /\ \A c \in CPU :
            /\ noff[c] = IF pc[c] # "none" THEN Depth(c) ELSE IF run[c] = None THEN 0 ELSE Depth(run[c])
            /\ sie[c] <=> noff[c] = 0 /\ pc[c] = "none"
            /\ noff[c] > 0 => (intena[c] <=> pc[c] = "none")
    /\ panic = "none"

\* What a sleeper waits for, whoever holds the locks.
Wakeups ==
    /\ \A p \in Proc : state[p] = "SLEEPING" /\ pc[p] = "read_woken" => r = w
    /\ \A p \in Proc : state[p] = "SLEEPING" /\ pc[p] = "write_woken" => tx_busy
    /\ tx_busy => sending \/ tx_int \/ \E c \in CPU : pc[c] \in {"tx", "tx_idle"}

\* The inductive invariant.
IInv == InputKept /\ Threads /\ Locks /\ Wakeups

\* console.c:91-101, 172-177: no reader sleeps while there is something to read.
ReaderWoken ==
    \A p \in Proc : state[p] = "SLEEPING" /\ pc[p] = "read_woken" /\ holder["cons"] = None => r = w

\* uart.c:80-99, 142-153: while a writer sleeps, the UART is still sending, or its
\* interrupt will be handled, whoever else writes to the UART and whenever the
\* interrupt is acknowledged.
WriterWoken ==
    \A p \in Proc : state[p] = "SLEEPING" /\ pc[p] = "write_woken" /\ holder["tx"] = None =>
        tx_busy /\ (sending \/ tx_int \/ \E c \in CPU : pc[c] = "tx")

\* spinlock.c:88-113, proc.c:486-510, trap.c:135-162: push_off() and pop_off() nest:
\* a CPU counts the locks it holds or spins for, and interrupts are on exactly if
\* there are none and it is not in a handler, also after a process has slept and gone
\* on on another CPU.
InterruptsNest ==
    \A c \in CPU :
        /\ noff[c] = Cardinality({lk \in Lock : holder[lk] = c})
                     + Cardinality({t \in {c, run[c]} \ {None} : pc[t] \in Lock})
        /\ sie[c] <=> noff[c] = 0 /\ pc[c] = "none"

\* spinlock.c:21-43: no CPU spins for a lock that it holds itself, or that is held by a
\* CPU that spins for one of its own.
WaitsFor(c, d) == \E t \in {c, run[c]} \ {None} : On(c, t) /\ pc[t] \in Lock /\ holder[pc[t]] = d
SpinsEnd == \A c, d \in CPU : WaitsFor(c, d) => c # d /\ ~WaitsFor(d, c)

\* acquire(), release(), pop_off() and sched() find what they expect.
NoPanic == panic = "none"

\* console.c:80-116, uart.c:80-153: who sleeps for a key or for the UART sleeps only as
\* long as there is something to wait for.
SleepersWoken == Wakeups /\ ReaderWoken /\ WriterWoken

\* spinlock.c:21-113: the discipline of spin-locks and interrupts: they nest, nobody
\* spins for ever, the checks of acquire(), release(), pop_off() and sched() pass, and
\* a lock is held exactly by the thread that is between its acquire() and release().
LocksNest == Threads /\ Locks /\ InterruptsNest /\ SpinsEnd /\ NoPanic
=============================================================================
