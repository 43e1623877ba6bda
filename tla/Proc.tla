-------------------------------- MODULE Proc --------------------------------
(***************************************************************************)
(* kernel/proc.c: the process table, fork(), exit(), wait(), kill(), the   *)
(* scheduler of each CPU, and the two locks they hold on to across steps:  *)
(* wait_lock, and the p->lock that a process and a scheduler hand to each  *)
(* other in swtch().                                                       *)
(*                                                                         *)
(* One action is one section of code under one lock.  A p->lock that is    *)
(* taken and given back within a section is not seen in the state.         *)
(***************************************************************************)
EXTENDS Naturals, FiniteSets

CONSTANTS
    NPROC,    \* the size of the process table
    CPU,      \* the CPUs
    MaxPid,   \* the bound on the process ids given out
    KillPid   \* the arguments processes pass to kill()

ASSUME ProcAssumption == NPROC \in Nat \ {0} /\ MaxPid \in Nat \ {0} /\ KillPid \subseteq Nat

Slot     == 1..NPROC
initproc == 1
None     == 0       \* a null pointer; of a CPU: it runs its scheduler

VARIABLES
    state,      \* [Slot -> p->state]
    pid,        \* [Slot -> p->pid]
    parent,     \* [Slot -> p->parent]
    chan,       \* [Slot -> p->chan]
    killed,     \* [Slot -> p->killed]
    plock,      \* [Slot -> BOOLEAN]: p->lock is held across a swtch()
    wait_lock,  \* the process that holds wait_lock
    nextpid,
    on,         \* [CPU -> c->proc]: the process whose thread the CPU executes
    pc,         \* [Slot -> where the thread is]
    np          \* [Slot -> the local variable np of kfork()]

table == <<state, pid, parent, chan, killed>>
vars  == <<table, plock, wait_lock, nextpid, on, pc, np>>

\* The thread of s executes, and is past the release() that follows swtch().
Runs(s) == ~plock[s] /\ \E c \in CPU : on[c] = s

Goto(s, l) == pc' = [pc EXCEPT ![s] = l]

acquire_wait_lock(s, l) ==
    /\ Runs(s)
    /\ wait_lock = None
    /\ wait_lock' = s
    /\ Goto(s, l)
    /\ UNCHANGED <<table, plock, nextpid, on, np>>

----------------------------------------------------------------------------
(* kfork() *)

freeproc_keeps_killed(p) ==
    /\ state'  = [state EXCEPT ![p] = "UNUSED"]
    /\ pid'    = [pid EXCEPT ![p] = 0]
    /\ parent' = [parent EXCEPT ![p] = None]
    /\ chan'   = [chan EXCEPT ![p] = None]
    /\ UNCHANGED killed
freeproc(p) ==
    /\ state'  = [state EXCEPT ![p] = "UNUSED"]
    /\ pid'    = [pid EXCEPT ![p] = 0]
    /\ parent' = [parent EXCEPT ![p] = None]
    /\ chan'   = [chan EXCEPT ![p] = None]
    /\ killed' = [killed EXCEPT ![p] = FALSE]

allocpid == nextpid' = nextpid + 1

\* allocproc() and the copying, all under np->lock.  The scan may return any
\* free slot: one that it has passed may have been freed since.
kfork(s, n) ==
    /\ Runs(s) /\ pc[s] = "user" /\ ~killed[s]
    /\ state[n] = "UNUSED" /\ ~plock[n]
    /\ nextpid <= MaxPid
    /\ allocpid
    /\ \/ /\ state' = [state EXCEPT ![n] = "USED"]
          /\ pid' = [pid EXCEPT ![n] = nextpid]
          /\ np' = [np EXCEPT ![s] = n]
          /\ pc' = [pc EXCEPT ![s] = "fork_parent", ![n] = "user"]
          /\ UNCHANGED <<parent, chan, killed>>
       \/ freeproc(n) /\ UNCHANGED <<np, pc>>           \* kalloc() failed
    /\ UNCHANGED <<plock, wait_lock, on>>

fork_parent(s) ==
    /\ Runs(s) /\ pc[s] = "fork_parent"
    /\ wait_lock = None
    /\ parent' = [parent EXCEPT ![np[s]] = s]
    /\ Goto(s, "fork_runnable")
    /\ UNCHANGED <<state, pid, chan, killed, plock, wait_lock, nextpid, on, np>>

fork_runnable(s) ==
    /\ Runs(s) /\ pc[s] = "fork_runnable"
    /\ ~plock[np[s]]
    /\ state' = [state EXCEPT ![np[s]] = "RUNNABLE"]
    /\ np' = [np EXCEPT ![s] = None]
    /\ Goto(s, "user")
    /\ UNCHANGED <<pid, parent, chan, killed, plock, wait_lock, nextpid, on>>

----------------------------------------------------------------------------
(* kexit() *)

\* Only process p itself sleeps on the channel p, in kwait(), so the section
\* under its p->lock is the one iteration of wakeup(p) that can do anything.
wakeup_lost(p) == ~plock[p] /\ UNCHANGED state
wakeup(p) ==
    /\ ~plock[p]
    /\ state' = IF state[p] = "SLEEPING" /\ chan[p] = p
                THEN [state EXCEPT ![p] = "RUNNABLE"] ELSE state

Children(s) == {p \in Slot : parent[p] = s}

\* exit(), or the end of a killed process in usertrap().  The program of init
\* never exits.
kexit(s) ==
    /\ Runs(s) /\ pc[s] = "user" /\ s # initproc
    /\ Goto(s, "exit")
    /\ UNCHANGED <<table, plock, wait_lock, nextpid, on, np>>

exit_locks(s) == pc[s] = "exit" /\ acquire_wait_lock(s, "reparent")

reparent_forgotten(s) ==
    /\ Runs(s) /\ pc[s] = "reparent"
    /\ Goto(s, "wakeup_parent")
    /\ UNCHANGED <<table, plock, wait_lock, nextpid, on, np>>
reparent(s) ==
    /\ Runs(s) /\ pc[s] = "reparent"
    /\ parent' = [p \in Slot |-> IF parent[p] = s THEN initproc ELSE parent[p]]
    /\ IF Children(s) = {} THEN UNCHANGED state ELSE wakeup(initproc)
    /\ Goto(s, "wakeup_parent")
    /\ UNCHANGED <<pid, chan, killed, plock, wait_lock, nextpid, on, np>>

wakeup_parent(s) ==
    /\ Runs(s) /\ pc[s] = "wakeup_parent"
    /\ wakeup(parent[s])
    /\ Goto(s, "zombie")
    /\ UNCHANGED <<pid, parent, chan, killed, plock, wait_lock, nextpid, on, np>>

\* p->lock stays held, until the scheduler releases it.
zombie(s) ==
    /\ Runs(s) /\ pc[s] = "zombie"
    /\ plock' = [plock EXCEPT ![s] = TRUE]
    /\ state' = [state EXCEPT ![s] = "ZOMBIE"]
    /\ wait_lock' = None
    /\ Goto(s, "exited")
    /\ UNCHANGED <<pid, parent, chan, killed, nextpid, on, np>>

----------------------------------------------------------------------------
(* kwait() *)

kwait(s) ==
    /\ Runs(s) /\ pc[s] = "user" /\ ~killed[s]
    /\ Goto(s, "wait")
    /\ UNCHANGED <<table, plock, wait_lock, nextpid, on, np>>

\* At the start, and at the end of sleep().
wait_locks(s) == pc[s] = "wait" /\ acquire_wait_lock(s, "scan")

ZombieChildren(s) == {p \in Children(s) : state[p] = "ZOMBIE"}

\* The child isn't still in exit() or swtch().
acquired_unchecked(p) == TRUE
acquired(p) == ~plock[p]

\* The first exited child of the table.  copyout() may fail, but init passes 0.
reap(s) ==
    /\ Runs(s) /\ pc[s] = "scan"
    /\ \E p \in ZombieChildren(s) :
          /\ \A q \in ZombieChildren(s) : p <= q
          /\ acquired(p)
          /\ freeproc(p) \/ (s # initproc /\ UNCHANGED table)
    /\ wait_lock' = None
    /\ Goto(s, "user")
    /\ UNCHANGED <<plock, nextpid, on, np>>

no_zombie(s) ==
    /\ Runs(s) /\ pc[s] = "scan"
    /\ ZombieChildren(s) = {}
    /\ IF Children(s) = {} \/ killed[s]
       THEN wait_lock' = None /\ Goto(s, "user")
       ELSE UNCHANGED wait_lock /\ Goto(s, "sleep")
    /\ UNCHANGED <<table, plock, nextpid, on, np>>

\* sleep(p, &wait_lock), up to sched().
sleep_releases_first(s) ==
    /\ Runs(s) /\ pc[s] = "sleep"
    /\ wait_lock' = IF wait_lock = s THEN None ELSE wait_lock
    /\ IF wait_lock = s THEN UNCHANGED <<plock, chan, state, pc>>
       ELSE /\ plock' = [plock EXCEPT ![s] = TRUE]
            /\ chan' = [chan EXCEPT ![s] = s]
            /\ state' = [state EXCEPT ![s] = "SLEEPING"]
            /\ Goto(s, "asleep")
    /\ UNCHANGED <<pid, parent, killed, nextpid, on, np>>
sleep(s) ==
    /\ Runs(s) /\ pc[s] = "sleep"
    /\ plock' = [plock EXCEPT ![s] = TRUE]
    /\ wait_lock' = None
    /\ chan' = [chan EXCEPT ![s] = s]
    /\ state' = [state EXCEPT ![s] = "SLEEPING"]
    /\ Goto(s, "asleep")
    /\ UNCHANGED <<pid, parent, killed, nextpid, on, np>>

----------------------------------------------------------------------------
(* kkill(), setkilled() *)

\* The first slot of the table that holds the id k.
kkill(s, k) ==
    /\ Runs(s) /\ pc[s] = "user" /\ ~killed[s]
    /\ \E p \in Slot :
          /\ pid[p] = k /\ ~plock[p]
          /\ \A q \in Slot : pid[q] = k => p <= q
          /\ killed' = [killed EXCEPT ![p] = TRUE]
          /\ state' = IF state[p] = "SLEEPING" THEN [state EXCEPT ![p] = "RUNNABLE"] ELSE state
    /\ UNCHANGED <<pid, parent, chan, plock, wait_lock, nextpid, on, pc, np>>

\* A fault of the program.
setkilled(s) ==
    /\ Runs(s) /\ pc[s] = "user" /\ s # initproc
    /\ killed' = [killed EXCEPT ![s] = TRUE]
    /\ UNCHANGED <<state, pid, parent, chan, plock, wait_lock, nextpid, on, pc, np>>

----------------------------------------------------------------------------
(* scheduler(), sched(), yield() *)

\* The timer interrupt, off while a spin lock is held and while acquire() spins.
interruptible(s) == wait_lock = None \/ pc[s] \in {"user", "fork_runnable"}

yield(s) ==
    /\ Runs(s) /\ interruptible(s)
    /\ plock' = [plock EXCEPT ![s] = TRUE]
    /\ state' = [state EXCEPT ![s] = "RUNNABLE"]
    /\ UNCHANGED <<pid, parent, chan, killed, wait_lock, nextpid, on, pc, np>>

\* sched(): swtch() to the scheduler, which releases p->lock.
sched(c, s) ==
    /\ on[c] = s /\ plock[s] /\ state[s] # "RUNNING"
    /\ on' = [on EXCEPT ![c] = None]
    /\ plock' = [plock EXCEPT ![s] = FALSE]
    /\ UNCHANGED <<table, wait_lock, nextpid, pc, np>>

\* scheduler(): swtch() to a process, with its p->lock held.
scheduler(c, s) ==
    /\ on[c] = None /\ ~plock[s] /\ state[s] = "RUNNABLE"
    /\ state' = [state EXCEPT ![s] = "RUNNING"]
    /\ on' = [on EXCEPT ![c] = s]
    /\ plock' = [plock EXCEPT ![s] = TRUE]
    /\ UNCHANGED <<pid, parent, chan, killed, wait_lock, nextpid, pc, np>>

\* What yield(), sleep() and forkret() do when swtch() comes back.
resume(s) ==
    /\ plock[s] /\ state[s] = "RUNNING"
    /\ plock' = [plock EXCEPT ![s] = FALSE]
    /\ chan' = IF pc[s] = "asleep" THEN [chan EXCEPT ![s] = None] ELSE chan
    /\ pc' = IF pc[s] = "asleep" THEN [pc EXCEPT ![s] = "wait"] ELSE pc
    /\ UNCHANGED <<state, pid, parent, killed, wait_lock, nextpid, on, np>>

----------------------------------------------------------------------------
\* procinit() and userinit().
Init ==
    /\ state = [s \in Slot |-> IF s = initproc THEN "RUNNABLE" ELSE "UNUSED"]
    /\ pid = [s \in Slot |-> IF s = initproc THEN 1 ELSE 0]
    /\ parent = [s \in Slot |-> None]
    /\ chan = [s \in Slot |-> None]
    /\ killed = [s \in Slot |-> FALSE]
    /\ plock = [s \in Slot |-> FALSE]
    /\ wait_lock = None
    /\ nextpid = 2
    /\ on = [c \in CPU |-> None]
    /\ pc = [s \in Slot |-> "user"]
    /\ np = [s \in Slot |-> None]

\* The steps of a system call once it has begun.
Continue(s) == \/ fork_parent(s) \/ fork_runnable(s)
               \/ exit_locks(s) \/ reparent(s) \/ wakeup_parent(s) \/ zombie(s)
               \/ wait_locks(s) \/ reap(s) \/ no_zombie(s) \/ sleep(s)

Next ==
    \/ \E s, n \in Slot : kfork(s, n)
    \/ \E s \in Slot : kexit(s) \/ kwait(s) \/ Continue(s)
    \/ \E s \in Slot, k \in KillPid : kkill(s, k)
    \/ \E s \in Slot : setkilled(s) \/ yield(s) \/ resume(s)
    \/ \E c \in CPU, s \in Slot : sched(c, s) \/ scheduler(c, s)

Spec == Init /\ [][Next]_vars

\* Every CPU's scheduler goes round the whole table, the timer interrupts what
\* runs, a CPU that spins for a lock that is released again and again gets it,
\* and the program of init calls wait() for ever (user/init.c).
Fairness ==
    /\ \A s \in Slot : /\ SF_vars(\E c \in CPU : scheduler(c, s))
                        /\ WF_vars(\E c \in CPU : sched(c, s))
                        /\ WF_vars(resume(s))
                        /\ WF_vars(yield(s))
                        /\ SF_vars(Continue(s))
    /\ SF_vars(kwait(initproc))

FairSpec == Spec /\ Fairness

----------------------------------------------------------------------------
(* Properties *)

TypeOK ==
    /\ state \in [Slot -> {"UNUSED", "USED", "SLEEPING", "RUNNABLE", "RUNNING", "ZOMBIE"}]
    /\ pid \in [Slot -> Nat]
    /\ parent \in [Slot -> Slot \cup {None}]
    /\ chan \in [Slot -> Slot \cup {None}]
    /\ killed \in [Slot -> BOOLEAN]
    /\ plock \in [Slot -> BOOLEAN]
    /\ wait_lock \in Slot \cup {None}
    /\ nextpid \in Nat \ {0}
    /\ on \in [CPU -> Slot \cup {None}]
    /\ pc \in [Slot -> {"user", "fork_parent", "fork_runnable", "reparent", "wakeup_parent",
                        "zombie", "exited", "exit", "wait", "scan", "sleep", "asleep"}]
    /\ np \in [Slot -> Slot \cup {None}]

\* proc.c:399, 442-484: no two CPUs execute on one kernel stack, and none
\* executes on that of a slot which another process may take: a slot is
\* reaped, or run by another CPU, only when its thread is out of swtch().
OneStack ==
    \A c \in CPU : on[c] # None =>
        /\ \A d \in CPU : on[d] = on[c] => d = c
        /\ state[on[c]] = "RUNNING" \/ plock[on[c]]
        /\ state[on[c]] \notin {"UNUSED", "USED"}

\* proc.c:23-27, 366-374, 431: the wakeup of a parent is not lost: once the
\* exiting child has let go of wait_lock, no process is asleep in wait() with a
\* child to reap, whether it bore the child or inherited it.
NoLostExit ==
    wait_lock = None =>
        \A s \in Slot : state[s] = "SLEEPING" => ZombieChildren(s) = {}

\* proc.c:319-333: every process has a parent that can still wait for it; its
\* parent's slot is never that of a process which is gone.
NoOrphan ==
    wait_lock = None =>
        \A s \in Slot : state[s] \in {"SLEEPING", "RUNNABLE", "RUNNING", "ZOMBIE"} /\ s # initproc
            => parent[s] # None /\ state[parent[s]] \in {"SLEEPING", "RUNNABLE", "RUNNING"}

\* kexit(), reparent(), kwait() and user/init.c: an exited process whose parent
\* is init, by birth or because its own parent exited first, is reaped.
InitReaps ==
    \A s \in Slot : state[s] = "ZOMBIE" /\ parent[s] = initproc ~> state[s] # "ZOMBIE"

----------------------------------------------------------------------------
(* The invariant behind them. *)

Alive == {"SLEEPING", "RUNNABLE", "RUNNING"}

\* A thread executes exactly while it is RUNNING or on its way to swtch().
Cpus ==
    /\ OneStack
    /\ \A s \in Slot : state[s] = "RUNNING" \/ plock[s] => \E c \in CPU : on[c] = s

\* What the place of a thread says about its state, and about wait_lock: sched()
\* gives up the CPU with p->lock and no other lock held, and what has exited never
\* runs again.
Threads ==
    \A s \in Slot :
        /\ state[s] = "SLEEPING" => pc[s] = "asleep"
        /\ pc[s] = "asleep" /\ state[s] \in Alive => chan[s] = s
        /\ state[s] = "ZOMBIE" => pc[s] = "exited" /\ s # initproc
        /\ pc[s] \in {"exit", "reparent", "wakeup_parent", "zombie"} => s # initproc
        /\ pc[s] = "exited" => state[s] \in {"ZOMBIE", "UNUSED"}
        /\ state[s] \in {"USED", "UNUSED"} => pc[s] \in {"user", "exited"}
        /\ wait_lock = s <=> pc[s] \in {"reparent", "wakeup_parent", "zombie", "scan", "sleep"}
        /\ wait_lock = s => state[s] = "RUNNING" /\ ~plock[s]

\* A child between the two halves of kfork() belongs to one thread, and is in
\* nobody's reach yet.
Forks ==
    \A s \in Slot :
        /\ np[s] # None <=> pc[s] \in {"fork_parent", "fork_runnable"}
        /\ np[s] # None => /\ state[np[s]] = "USED"
                           /\ parent[np[s]] = IF pc[s] = "fork_parent" THEN None ELSE s
                           /\ \A t \in Slot : np[t] = np[s] => t = s
        /\ state[s] = "USED" => \E t \in Slot : np[t] = s

\* The tree of processes: a parent is alive, and a process about to exit has no
\* child left and a parent that is awake.
Tree ==
    /\ state[initproc] \in Alive
    /\ \A s \in Slot :
        /\ state[s] = "UNUSED" => parent[s] = None
        /\ state[s] \in Alive \cup {"ZOMBIE"} /\ s # initproc => parent[s] # None
        /\ parent[s] # None => state[parent[s]] \in Alive
        /\ pc[s] \in {"wakeup_parent", "zombie"} => Children(s) = {}
        /\ pc[s] = "zombie" => state[parent[s]] # "SLEEPING"
        /\ pc[s] = "sleep" \/ state[s] = "SLEEPING" => ZombieChildren(s) = {}

\* No two processes have one id, though slots are reused, and a slot is handed on
\* without what happened to the process that had it: a new process is not killed
\* by a kill() of the old one.  (kill(0) finds the first free slot and marks it.)
Pids ==
    /\ \A s, t \in Slot : pid[s] # 0 /\ pid[s] = pid[t] => s = t
    /\ \A s \in Slot : pid[s] < nextpid /\ (pid[s] = 0 <=> state[s] = "UNUSED")
    /\ 0 \notin KillPid => \A s \in Slot : state[s] = "UNUSED" => ~killed[s]

\* proc.c:242-506: fork, exit, wait, kill and the scheduler keep the process table
\* consistent: who runs where, who holds which lock, whose child a process is, and
\* what a slot that is taken again starts with.
IInv == TypeOK /\ Cpus /\ Threads /\ Forks /\ Tree /\ Pids
=============================================================================
