----------------------------- MODULE ProcProofs -----------------------------
(***************************************************************************)
(* The invariant of the process table holds for any number of slots, CPUs  *)
(* and process ids: one lemma for each section of kernel/proc.c, and the   *)
(* theorems that follow.                                                   *)
(***************************************************************************)
EXTENDS Proc, TLAPS

LEMMA SlotFacts == initproc \in Slot /\ None \notin Slot
BY ProcAssumption DEF initproc, None, Slot

LEMMA InitInv == Init => IInv
<1> SUFFICES ASSUME Init PROVE IInv
  BY Zenon
<1> USE SlotFacts DEF Init
<1>1. TypeOK
  BY DEF TypeOK
<1>2. Cpus
  BY Zenon DEF Cpus, OneStack
<1>3. Threads
  BY Zenon DEF Threads
<1>4. Forks
  BY Zenon DEF Forks
<1>5. Tree
  BY Zenon DEF Tree, Alive
<1>6. Pids
  BY DEF Pids
<1> QED BY Zenon, <1>1, <1>2, <1>3, <1>4, <1>5, <1>6 DEF IInv

(* fork(): allocproc(), and the two short sections under wait_lock and np->lock. *)

LEMMA KforkInv ==
    ASSUME IInv, NEW s \in Slot, NEW n \in Slot, kfork(s, n)
    PROVE  IInv'
<1> USE SlotFacts DEF IInv, Runs, Goto, table
<1>1. TypeOK'
  <2>1. CASE freeproc(n) /\ UNCHANGED <<np, pc>>
    BY <2>1 DEF TypeOK, kfork, allocpid, freeproc
  <2>2. CASE state' = [state EXCEPT ![n] = "USED"] /\ pid' = [pid EXCEPT ![n] = nextpid]
    BY <2>2 DEF TypeOK, kfork, allocpid, freeproc
  <2> QED BY Zenon, <2>1, <2>2 DEF kfork
<1>2. Cpus'
  BY DEF TypeOK, Cpus, OneStack, kfork, freeproc
<1>3. Threads'
  BY DEF TypeOK, Cpus, OneStack, Threads, kfork, freeproc
<1>4. Forks'
  BY DEF TypeOK, Threads, Forks, Tree, kfork, freeproc
<1>5. Tree'
  BY DEF TypeOK, Threads, Tree, Alive, Children, ZombieChildren, kfork, freeproc
<1>6. Pids'
  BY DEF TypeOK, Pids, kfork, allocpid, freeproc
<1> QED BY Zenon, <1>1, <1>2, <1>3, <1>4, <1>5, <1>6

LEMMA ForkParentInv ==
    ASSUME IInv, NEW s \in Slot, fork_parent(s)
    PROVE  IInv'
<1> USE SlotFacts DEF IInv, Runs, Goto, table
<1>1. TypeOK'
  BY Zenon DEF TypeOK, fork_parent
<1>2. Cpus'
  BY Zenon DEF Cpus, OneStack, fork_parent
<1>3. Threads'
  BY DEF Threads, fork_parent
<1>4. Forks'
  BY DEF TypeOK, Forks, fork_parent
<1>5. Tree'
  BY DEF Cpus, OneStack, Forks, Tree, Alive, Children, ZombieChildren, fork_parent
<1>6. Pids'
  BY Zenon DEF Pids, fork_parent
<1> QED BY Zenon, <1>1, <1>2, <1>3, <1>4, <1>5, <1>6

LEMMA ForkRunnableInv ==
    ASSUME IInv, NEW s \in Slot, fork_runnable(s)
    PROVE  IInv'
<1> USE SlotFacts DEF IInv, Runs, Goto, table
<1>1. TypeOK'
  BY Zenon DEF TypeOK, fork_runnable
<1>2. Cpus'
  BY DEF Cpus, OneStack, Forks, fork_runnable
<1>3. Threads'
  BY DEF Threads, Forks, fork_runnable
<1>4. Forks'
  BY DEF TypeOK, Forks, fork_runnable
<1>5. Tree'
  BY DEF Forks, Tree, Alive, Children, ZombieChildren, fork_runnable
<1>6. Pids'
  BY DEF Pids, Forks, fork_runnable
<1> QED BY Zenon, <1>1, <1>2, <1>3, <1>4, <1>5, <1>6

(* exit(), under wait_lock from exit_locks() to zombie(). *)

LEMMA KexitInv ==
    ASSUME IInv, NEW s \in Slot, kexit(s)
    PROVE  IInv'
<1> USE SlotFacts DEF IInv, Runs, Goto, table
<1>1. TypeOK'
  BY Zenon DEF TypeOK, kexit
<1>2. Cpus'
  BY Zenon DEF Cpus, OneStack, kexit
<1>3. Threads'
  BY DEF Cpus, OneStack, Threads, kexit
<1>4. Forks'
  BY DEF Forks, kexit
<1>5. Tree'
  BY DEF Tree, Children, ZombieChildren, kexit
<1>6. Pids'
  BY Zenon DEF Pids, kexit
<1> QED BY Zenon, <1>1, <1>2, <1>3, <1>4, <1>5, <1>6

LEMMA ExitLocksInv ==
    ASSUME IInv, NEW s \in Slot, exit_locks(s)
    PROVE  IInv'
<1> USE SlotFacts DEF IInv, Runs, Goto, table
<1>1. TypeOK'
  BY Zenon DEF TypeOK, exit_locks, acquire_wait_lock
<1>2. Cpus'
  BY Zenon DEF Cpus, OneStack, exit_locks, acquire_wait_lock
<1>3. Threads'
  BY DEF TypeOK, Cpus, OneStack, Threads, exit_locks, acquire_wait_lock
<1>4. Forks'
  BY DEF Forks, exit_locks, acquire_wait_lock
<1>5. Tree'
  BY DEF Tree, Children, ZombieChildren, exit_locks, acquire_wait_lock
<1>6. Pids'
  BY Zenon DEF Pids, exit_locks, acquire_wait_lock
<1> QED BY Zenon, <1>1, <1>2, <1>3, <1>4, <1>5, <1>6

LEMMA ReparentInv ==
    ASSUME IInv, NEW s \in Slot, reparent(s)
    PROVE  IInv'
<1> USE SlotFacts DEF IInv, Runs, Goto, table
<1>1. TypeOK'
  BY Zenon DEF TypeOK, reparent, wakeup
<1>2. Cpus'
  BY DEF TypeOK, Cpus, OneStack, reparent, wakeup
<1>3. Threads'
  BY DEF TypeOK, Threads, reparent, wakeup
<1>4. Forks'
  BY DEF TypeOK, Forks, reparent, wakeup
<1>5. Tree'
  BY DEF TypeOK, Threads, Tree, Alive, Children, ZombieChildren, reparent, wakeup
<1>6. Pids'
  BY DEF TypeOK, Pids, reparent, wakeup
<1> QED BY Zenon, <1>1, <1>2, <1>3, <1>4, <1>5, <1>6

LEMMA WakeupParentInv ==
    ASSUME IInv, NEW s \in Slot, wakeup_parent(s)
    PROVE  IInv'
<1> USE SlotFacts DEF IInv, Runs, Goto, table
<1>1. TypeOK'
  BY Zenon DEF TypeOK, wakeup_parent, wakeup
<1>2. Cpus'
  BY DEF Cpus, OneStack, wakeup_parent, wakeup
<1>3. Threads'
  BY DEF Threads, wakeup_parent, wakeup
<1>4. Forks'
  BY DEF Forks, wakeup_parent, wakeup
<1>5. Tree'
  BY DEF TypeOK, Threads, Tree, Alive, Children, ZombieChildren, wakeup_parent, wakeup
<1>6. Pids'
  BY DEF Pids, wakeup_parent, wakeup
<1> QED BY Zenon, <1>1, <1>2, <1>3, <1>4, <1>5, <1>6

LEMMA ZombieInv ==
    ASSUME IInv, NEW s \in Slot, zombie(s)
    PROVE  IInv'
<1> USE SlotFacts DEF IInv, Runs, Goto, table
<1>1. TypeOK'
  BY Zenon DEF TypeOK, zombie
<1>2. Cpus'
  BY DEF TypeOK, Cpus, OneStack, zombie
<1>3. Threads'
  BY Zenon DEF TypeOK, Threads, zombie
<1>4. Forks'
  BY DEF Threads, Forks, zombie
<1>5. Tree'
  BY DEF Threads, Tree, Alive, Children, ZombieChildren, zombie
<1>6. Pids'
  BY DEF Threads, Pids, zombie
<1> QED BY Zenon, <1>1, <1>2, <1>3, <1>4, <1>5, <1>6

(* wait() *)

LEMMA KwaitInv ==
    ASSUME IInv, NEW s \in Slot, kwait(s)
    PROVE  IInv'
<1> USE SlotFacts DEF IInv, Runs, Goto, table
<1>1. TypeOK'
  BY Zenon DEF TypeOK, kwait
<1>2. Cpus'
  BY Zenon DEF Cpus, OneStack, kwait
<1>3. Threads'
  BY DEF Cpus, OneStack, Threads, kwait
<1>4. Forks'
  BY DEF Forks, kwait
<1>5. Tree'
  BY DEF Tree, Children, ZombieChildren, kwait
<1>6. Pids'
  BY Zenon DEF Pids, kwait
<1> QED BY Zenon, <1>1, <1>2, <1>3, <1>4, <1>5, <1>6

LEMMA WaitLocksInv ==
    ASSUME IInv, NEW s \in Slot, wait_locks(s)
    PROVE  IInv'
<1> USE SlotFacts DEF IInv, Runs, Goto, table
<1>1. TypeOK'
  BY Zenon DEF TypeOK, wait_locks, acquire_wait_lock
<1>2. Cpus'
  BY Zenon DEF Cpus, OneStack, wait_locks, acquire_wait_lock
<1>3. Threads'
  BY DEF TypeOK, Cpus, OneStack, Threads, wait_locks, acquire_wait_lock
<1>4. Forks'
  BY DEF Forks, wait_locks, acquire_wait_lock
<1>5. Tree'
  BY DEF Tree, Children, ZombieChildren, wait_locks, acquire_wait_lock
<1>6. Pids'
  BY Zenon DEF Pids, wait_locks, acquire_wait_lock
<1> QED BY Zenon, <1>1, <1>2, <1>3, <1>4, <1>5, <1>6

LEMMA ReapInv ==
    ASSUME IInv, NEW s \in Slot, reap(s)
    PROVE  IInv'
<1> USE SlotFacts DEF IInv, Runs, Goto
<1>1. PICK p \in ZombieChildren(s) : ~plock[p] /\ (freeproc(p) \/ UNCHANGED table)
  BY Zenon DEF reap, acquired
<1>2. /\ p \in Slot /\ state[p] = "ZOMBIE" /\ parent[p] = s
      /\ Runs(s) /\ pc[s] = "scan" /\ wait_lock' = None /\ pc' = [pc EXCEPT ![s] = "user"]
      /\ UNCHANGED <<plock, nextpid, on, np>>
  BY Zenon, <1>1 DEF reap, ZombieChildren, Children
<1>3. CASE UNCHANGED table
  <2>1. TypeOK'
    BY Zenon, <1>2, <1>3 DEF TypeOK, table
  <2>2. Cpus'
    BY Zenon, <1>2, <1>3 DEF Cpus, OneStack, table
  <2>3. Threads'
    BY <1>2, <1>3 DEF Threads, TypeOK, table
  <2>4. Forks'
    BY <1>2, <1>3 DEF Forks, table
  <2>5. Tree'
    BY <1>2, <1>3 DEF Tree, Children, ZombieChildren, table
  <2>6. Pids'
    BY Zenon, <1>2, <1>3 DEF Pids, table
  <2> QED BY Zenon, <2>1, <2>2, <2>3, <2>4, <2>5, <2>6
<1>4. CASE freeproc(p)
  <2>1. TypeOK'
    BY Zenon, <1>1, <1>2, <1>4 DEF TypeOK, freeproc
  <2>2. Cpus'
    BY <1>1, <1>2, <1>4 DEF Cpus, OneStack, freeproc
  <2>3. Threads'
    BY <1>1, <1>2, <1>4 DEF TypeOK, Threads, freeproc
  <2>4. Forks'
    BY <1>1, <1>2, <1>4 DEF Forks, freeproc
  <2>5. Tree'
    BY <1>1, <1>2, <1>4 DEF TypeOK, Threads, Tree, Alive, Children, ZombieChildren, freeproc
  <2>6. Pids'
    BY <1>1, <1>2, <1>4 DEF TypeOK, Pids, freeproc
  <2> QED BY Zenon, <2>1, <2>2, <2>3, <2>4, <2>5, <2>6
<1> QED BY Zenon, <1>1, <1>3, <1>4

LEMMA NoZombieInv ==
    ASSUME IInv, NEW s \in Slot, no_zombie(s)
    PROVE  IInv'
<1> USE SlotFacts DEF IInv, Runs, Goto, table
<1>1. TypeOK'
  BY Zenon DEF TypeOK, no_zombie
<1>2. Cpus'
  BY Zenon DEF Cpus, OneStack, no_zombie
<1>3. Threads'
  BY DEF TypeOK, Threads, no_zombie
<1>4. Forks'
  BY DEF TypeOK, Forks, no_zombie
<1>5. Tree'
  BY DEF TypeOK, Tree, Children, ZombieChildren, no_zombie
<1>6. Pids'
  BY Zenon DEF Pids, no_zombie
<1> QED BY Zenon, <1>1, <1>2, <1>3, <1>4, <1>5, <1>6

LEMMA SleepInv ==
    ASSUME IInv, NEW s \in Slot, sleep(s)
    PROVE  IInv'
<1> USE SlotFacts DEF IInv, Runs, Goto, table
<1>1. TypeOK'
  BY Zenon DEF TypeOK, sleep
<1>2. Cpus'
  BY DEF TypeOK, Cpus, OneStack, sleep
<1>3. Threads'
  BY Zenon DEF TypeOK, Threads, sleep
<1>4. Forks'
  BY DEF Threads, Forks, sleep
<1>5. Tree'
  BY DEF Threads, Tree, Alive, Children, ZombieChildren, sleep
<1>6. Pids'
  BY DEF Threads, Pids, sleep
<1> QED BY Zenon, <1>1, <1>2, <1>3, <1>4, <1>5, <1>6

(* kill(), and a fault of the program. *)

LEMMA KkillInv ==
    ASSUME IInv, NEW s \in Slot, NEW k \in KillPid, kkill(s, k)
    PROVE  IInv'
<1> USE SlotFacts DEF IInv, Runs, Goto, table
<1>1. TypeOK'
  BY Zenon DEF TypeOK, kkill
<1>2. Cpus'
  BY DEF Cpus, OneStack, kkill
<1>3. Threads'
  BY DEF Threads, Alive, kkill
<1>4. Forks'
  BY DEF Forks, kkill
<1>5. Tree'
  BY DEF Tree, Alive, Children, ZombieChildren, kkill
<1>6. Pids'
  BY DEF Pids, kkill
<1> QED BY Zenon, <1>1, <1>2, <1>3, <1>4, <1>5, <1>6

LEMMA SetkilledInv ==
    ASSUME IInv, NEW s \in Slot, setkilled(s)
    PROVE  IInv'
<1> USE SlotFacts DEF IInv, Runs, Goto, table
<1>1. TypeOK'
  BY Zenon DEF TypeOK, setkilled
<1>2. Cpus'
  BY Zenon DEF Cpus, OneStack, setkilled
<1>3. Threads'
  BY Zenon DEF Threads, setkilled
<1>4. Forks'
  BY DEF Forks, setkilled
<1>5. Tree'
  BY DEF Tree, Children, ZombieChildren, setkilled
<1>6. Pids'
  BY DEF Cpus, OneStack, Pids, setkilled
<1> QED BY Zenon, <1>1, <1>2, <1>3, <1>4, <1>5, <1>6

(* The scheduler. *)

LEMMA YieldInv ==
    ASSUME IInv, NEW s \in Slot, yield(s)
    PROVE  IInv'
<1> USE SlotFacts DEF IInv, Runs, Goto, table
<1>1. TypeOK'
  BY Zenon DEF TypeOK, yield
<1>2. Cpus'
  BY DEF TypeOK, Cpus, OneStack, yield
<1>3. Threads'
  BY DEF Cpus, OneStack, Threads, Alive, yield, interruptible
<1>4. Forks'
  BY DEF Cpus, OneStack, Forks, yield
<1>5. Tree'
  BY DEF Cpus, OneStack, Tree, Alive, Children, ZombieChildren, yield
<1>6. Pids'
  BY DEF Cpus, OneStack, Pids, yield
<1> QED BY Zenon, <1>1, <1>2, <1>3, <1>4, <1>5, <1>6

LEMMA SchedInv ==
    ASSUME IInv, NEW c \in CPU, NEW s \in Slot, sched(c, s)
    PROVE  IInv'
<1> USE SlotFacts DEF IInv, Runs, Goto, table
<1>1. TypeOK'
  BY Zenon DEF TypeOK, sched
<1>2. Cpus'
  BY DEF TypeOK, Cpus, OneStack, sched
<1>3. Threads'
  BY DEF Threads, sched
<1>4. Forks'
  BY Zenon DEF Forks, sched
<1>5. Tree'
  BY DEF Tree, Children, ZombieChildren, sched
<1>6. Pids'
  BY Zenon DEF Pids, sched
<1> QED BY Zenon, <1>1, <1>2, <1>3, <1>4, <1>5, <1>6

LEMMA SchedulerInv ==
    ASSUME IInv, NEW c \in CPU, NEW s \in Slot, scheduler(c, s)
    PROVE  IInv'
<1> USE SlotFacts DEF IInv, Runs, Goto, table
<1>1. TypeOK'
  BY Zenon DEF TypeOK, scheduler
<1>2. Cpus'
  BY DEF TypeOK, Cpus, OneStack, scheduler
<1>3. Threads'
  BY DEF Threads, Alive, scheduler
<1>4. Forks'
  BY DEF Forks, scheduler
<1>5. Tree'
  BY DEF Tree, Alive, Children, ZombieChildren, scheduler
<1>6. Pids'
  BY DEF Pids, scheduler
<1> QED BY Zenon, <1>1, <1>2, <1>3, <1>4, <1>5, <1>6

LEMMA ResumeInv ==
    ASSUME IInv, NEW s \in Slot, resume(s)
    PROVE  IInv'
<1> USE SlotFacts DEF IInv, Runs, Goto, table
<1>1. TypeOK'
  BY Zenon DEF TypeOK, resume
<1>2. Cpus'
  BY DEF Cpus, OneStack, resume
<1>3. Threads'
  BY Zenon DEF TypeOK, Threads, resume
<1>4. Forks'
  BY DEF Forks, resume
<1>5. Tree'
  BY DEF Tree, Children, ZombieChildren, resume
<1>6. Pids'
  BY Zenon DEF Pids, resume
<1> QED BY Zenon, <1>1, <1>2, <1>3, <1>4, <1>5, <1>6

----------------------------------------------------------------------------
LEMMA StepInv == IInv /\ [Next]_vars => IInv'
<1> SUFFICES ASSUME IInv, [Next]_vars PROVE IInv'
  BY Zenon
<1>1. ASSUME NEW s \in Slot, NEW n \in Slot, kfork(s, n) PROVE IInv'
  BY Zenon, <1>1, KforkInv
<1>2. ASSUME NEW s \in Slot, kexit(s) \/ kwait(s) PROVE IInv'
  BY Zenon, <1>2, KexitInv, KwaitInv
<1>3. ASSUME NEW s \in Slot, Continue(s) PROVE IInv'
  BY Zenon, <1>3, ForkParentInv, ForkRunnableInv, ExitLocksInv, ReparentInv, WakeupParentInv,
     ZombieInv, WaitLocksInv, ReapInv, NoZombieInv, SleepInv DEF Continue
<1>4. ASSUME NEW s \in Slot, NEW k \in KillPid, kkill(s, k) PROVE IInv'
  BY Zenon, <1>4, KkillInv
<1>5. ASSUME NEW s \in Slot, setkilled(s) \/ yield(s) \/ resume(s) PROVE IInv'
  BY Zenon, <1>5, SetkilledInv, YieldInv, ResumeInv
<1>6. ASSUME NEW c \in CPU, NEW s \in Slot, sched(c, s) \/ scheduler(c, s) PROVE IInv'
  BY Zenon, <1>6, SchedInv, SchedulerInv
<1>7. CASE UNCHANGED vars
  <2> USE <1>7 DEF vars, table
  <2>1. TypeOK' /\ Cpus'
    BY Zenon DEF IInv, TypeOK, Cpus, OneStack
  <2>2. Threads' /\ Forks'
    BY DEF IInv, Threads, Forks
  <2>3. Tree' /\ Pids'
    BY DEF IInv, Tree, Pids, Children, ZombieChildren
  <2> QED BY Zenon, <2>1, <2>2, <2>3 DEF IInv
<1> QED BY Zenon, <1>1, <1>2, <1>3, <1>4, <1>5, <1>6, <1>7 DEF Next

\* proc.c:242-506: whatever the number of processes and CPUs, the process table stays
\* consistent: who runs where, who holds which lock, whose child a process is.
THEOREM ProcInvariance == Spec => []IInv
<1>1. Init => IInv
  BY Zenon, InitInv
<1>2. IInv /\ [Next]_vars => IInv'
  BY Zenon, StepInv
<1> QED BY <1>1, <1>2, PTL DEF Spec

\* proc.c:399, 442-484: swtch() and the p->lock that is handed over with it never put
\* two CPUs on one kernel stack, nor one on the stack of a slot that is free to be taken.
THEOREM ProcOneStack == Spec => []OneStack
<1>1. IInv => OneStack
  BY Zenon DEF IInv, Cpus
<1> QED BY <1>1, ProcInvariance, PTL

\* proc.c:366-374, 431: with wait_lock free, no process sleeps in wait() while it has an
\* exited child.
THEOREM ProcNoLostExit == Spec => []NoLostExit
<1>1. IInv => NoLostExit
  BY Zenon DEF IInv, Tree, NoLostExit
<1> QED BY <1>1, ProcInvariance, PTL

\* proc.c:319-333: with wait_lock free, every process but init has a parent that is
\* alive and can wait for it.
THEOREM ProcNoOrphan == Spec => []NoOrphan
<1>1. IInv => NoOrphan
  BY Zenon DEF IInv, Tree, NoOrphan, Alive
<1> QED BY <1>1, ProcInvariance, PTL
=============================================================================
