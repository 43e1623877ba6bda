------------------------------- MODULE Shell -------------------------------
(***************************************************************************)
(* How the shell runs commands: runcmd() and main() of user/sh.c with      *)
(* fork(), wait(), pipes and descriptors, and the loop of user/init.c that *)
(* starts the shell and reaps orphans.                                     *)
(*                                                                         *)
(* A command is the tree that parsecmd() makes.  A program that exec()     *)
(* starts reads its standard input to the end, and exits.                  *)
(***************************************************************************)
EXTENDS Naturals, FiniteSets, FiniteSetsExt

CONSTANTS
    NPROC,       \* the slots of the process table
    NPIPE,       \* the pipes that can be open at a time
    NOFILE,      \* the descriptors of a process
    Command,     \* the commands that are typed
    MaxTyped     \* bound: how many are typed

Slot == 1..NPROC
init == 1
Fd   == 0..(NOFILE - 1)

NoCmd == [type |-> "NONE"]

VARIABLES
    pc, cmd, parent,
    sh,          \* the shell: pid in init's main()
    fd,          \* [Slot -> [Fd -> what is open there]]
    p0, p1,      \* [Slot -> the descriptors p[0] and p[1] of runcmd()]
    typed,       \* how many commands were typed
    loose        \* who may run on behind the shell's back; not in the code: what was
                 \* started with &, or by a command that failed half-way

vars == <<pc, cmd, parent, sh, fd, p0, p1, typed, loose>>

Closed == [end |-> "none", pipe |-> 0]
Tty    == [end |-> "tty", pipe |-> 0]
Plain  == [end |-> "file", pipe |-> 0]
AllClosed == [x \in Fd |-> Closed]
Stdio     == [x \in Fd |-> IF x <= 2 THEN Tty ELSE Closed]

----------------------------------------------------------------------------
(* The system calls *)

Goto(p, l) == pc' = [pc EXCEPT ![p] = l]

\* The lowest descriptor that is free gets x, as in open() and dup().
Free(fds)      == {k \in Fd : fds[k] = Closed}
Lowest(fds)    == Min(Free(fds))
Install(fds, x) == [fds EXCEPT ![Lowest(fds)] = x]
close(fds, k)  == [fds EXCEPT ![k] = Closed]
dup(fds, k)    == Install(fds, fds[k])

unused == {p \in Slot : pc[p] = "unused"}

\* fork1() in p: the child runs the command x with the descriptors fds; p goes to l.
fork1(p, x, fds, l) ==
    LET c == Min(unused) IN
    /\ unused # {}
    /\ pc' = [pc EXCEPT ![p] = l, ![c] = "runcmd"]
    /\ cmd' = [cmd EXCEPT ![c] = x]
    /\ parent' = [parent EXCEPT ![c] = p]
    /\ fd' = [fd EXCEPT ![c] = fds]
    /\ loose' = IF p \in loose \/ cmd[p].type = "BACK" THEN loose \cup {c} ELSE loose \ {c}
    /\ UNCHANGED <<p0, p1>>

\* exit(): the descriptors are closed, the children go to init.
Exit(p) ==
    /\ Goto(p, "zombie")
    /\ fd' = [fd EXCEPT ![p] = AllClosed]
    /\ parent' = [c \in Slot |-> IF parent[c] = p THEN init ELSE parent[c]]
    /\ cmd' = [cmd EXCEPT ![p] = NoCmd]
    /\ p0' = [p0 EXCEPT ![p] = 0] /\ p1' = [p1 EXCEPT ![p] = 0]

\* wait(0) in p takes a child that has exited; p goes to l.
wait(p, l) ==
    \E c \in Slot :
        /\ pc[c] = "zombie" /\ parent[c] = p
        /\ pc' = [pc EXCEPT ![c] = "unused", ![p] = l]
        /\ loose' = loose \ {c}
        /\ parent' = [parent EXCEPT ![c] = init]
        /\ UNCHANGED <<fd, p0, p1>>

\* panic(), or exit(1), of a command: what it had started is not waited for.
Descendants(p) ==
    LET down[k \in 0..NPROC] ==
            IF k = 0 THEN {p}
            ELSE LET d == down[k - 1] IN d \cup {c \in Slot : parent[c] \in d}
    IN down[NPROC]

fail(p) ==
    /\ Exit(p)
    /\ loose' = loose \cup (Descendants(p) \ {p})

----------------------------------------------------------------------------
(* runcmd() *)

Run(p, type) == pc[p] = "runcmd" /\ cmd[p].type = type

exec(p) ==
    /\ Run(p, "EXEC")
    /\ \/ Goto(p, "program") /\ UNCHANGED <<cmd, parent, fd, p0, p1>>
       \/ Exit(p)                                      \* exec() fails
    /\ UNCHANGED loose

redir(p) ==
    /\ Run(p, "REDIR")
    /\ \/ /\ fd' = [fd EXCEPT ![p] = Install(close(@, cmd[p].fd), Plain)]
          /\ cmd' = [cmd EXCEPT ![p] = @.cmd]
          /\ UNCHANGED <<pc, parent, p0, p1, loose>>
       \/ fail(p)                                      \* open() fails

list(p) == Run(p, "LIST") /\ fork1(p, cmd[p].left, fd[p], "list_wait")

list_wait(p) ==
    /\ pc[p] = "list_wait"
    /\ wait(p, "runcmd")
    /\ cmd' = [cmd EXCEPT ![p] = @.right]

back(p) == Run(p, "BACK") /\ fork1(p, cmd[p].cmd, fd[p], "exit")

\* pipe() makes p[0] and p[1].
OpenPipes == {fd[p][k].pipe : p \in Slot, k \in Fd}
FreePipes == (1..NPIPE) \ OpenPipes

pipe(p) ==
    LET k == Min(FreePipes)
        fds == Install(fd[p], [end |-> "read", pipe |-> k]) IN
    /\ Run(p, "PIPE")
    /\ \/ /\ FreePipes # {} /\ Cardinality(Free(fd[p])) >= 2
          /\ fd' = [fd EXCEPT ![p] = Install(fds, [end |-> "write", pipe |-> k])]
          /\ p0' = [p0 EXCEPT ![p] = Lowest(fd[p])]
          /\ p1' = [p1 EXCEPT ![p] = Lowest(fds)]
          /\ Goto(p, "pipe_left")
          /\ UNCHANGED <<cmd, parent, loose>>
       \/ fail(p)                                      \* pipe() fails

\* The two sides: dup() of one end, and both are closed.
CloseBoth_first(fds, p) == close(fds, p0[p])
CloseBoth(fds, p) == close(close(fds, p0[p]), p1[p])

pipe_left(p) ==
    /\ pc[p] = "pipe_left"
    /\ fork1(p, cmd[p].left, CloseBoth(dup(close(fd[p], 1), p1[p]), p), "pipe_right")

pipe_right(p) ==
    /\ pc[p] = "pipe_right"
    /\ fork1(p, cmd[p].right, CloseBoth(dup(close(fd[p], 0), p0[p]), p), "pipe_close")

pipe_close(p) ==
    /\ pc[p] = "pipe_close"
    /\ fd' = [fd EXCEPT ![p] = CloseBoth(@, p)]
    /\ Goto(p, "pipe_wait")
    /\ UNCHANGED <<cmd, parent, p0, p1, loose>>

\* It waits twice.
AfterFirstWait_exit == "exit"
AfterFirstWait == "pipe_wait2"

pipe_wait(p) ==
    /\ \/ pc[p] = "pipe_wait" /\ wait(p, AfterFirstWait)
       \/ pc[p] = "pipe_wait2" /\ wait(p, "exit")
    /\ UNCHANGED cmd

exit(p) == pc[p] = "exit" /\ Exit(p) /\ UNCHANGED loose

\* fork() fails, for want of a slot or of memory: panic("fork").
Forks(p) == \/ pc[p] \in {"pipe_left", "pipe_right"}
            \/ Run(p, "LIST") \/ Run(p, "BACK")

fork_fails(p) == Forks(p) /\ fail(p)

\* The program has read its input to the end: no one has the other end of the pipe.
Writers(k) == {p \in Slot : \E x \in Fd : fd[p][x] = [end |-> "write", pipe |-> k]}

program(p) ==
    /\ pc[p] = "program"
    /\ fd[p][0].end = "read" => Writers(fd[p][0].pipe) = {}
    /\ Exit(p)
    /\ UNCHANGED loose

----------------------------------------------------------------------------
(* main() of the shell, and of init *)

main(x) ==
    /\ pc[sh] = "prompt" /\ typed < MaxTyped
    /\ fork1(sh, x, fd[sh], "wait")
    /\ typed' = typed + 1

main_wait == pc[sh] = "wait" /\ wait(sh, "prompt") /\ UNCHANGED cmd

\* The end of the input, or a fork() that fails.
main_exit == pc[sh] = "prompt" /\ fail(sh)

\* init waits for its children, the orphans among them; for the shell it starts another.
init_wait ==
    \E c \in Slot :
        /\ pc[init] = "init_wait"
        /\ pc[c] = "zombie" /\ parent[c] = init
        /\ pc' = [pc EXCEPT ![c] = "unused", ![init] = IF c = sh THEN "init_fork" ELSE @]
        /\ loose' = loose \ {c}
        /\ UNCHANGED <<cmd, parent, sh, fd, p0, p1>>

\* The new shell has three descriptors open, or its exec() fails and it exits.  When
\* fork() fails, init exits: the kernel panics, and no one takes a step.
init_fork ==
    LET c == Min(unused) IN
    /\ pc[init] = "init_fork"
    /\ \/ Goto(init, "panic") /\ UNCHANGED <<parent, sh, fd>>
       \/ /\ unused # {}
          /\ sh' = c
          /\ parent' = [parent EXCEPT ![c] = init]
          /\ \/ /\ pc' = [pc EXCEPT ![init] = "init_wait", ![c] = "prompt"]
                /\ fd' = [fd EXCEPT ![c] = Stdio]
             \/ /\ pc' = [pc EXCEPT ![init] = "init_wait", ![c] = "zombie"]
                /\ UNCHANGED fd
    /\ UNCHANGED <<cmd, p0, p1, loose>>

----------------------------------------------------------------------------
Init ==
    /\ pc = [p \in Slot |-> IF p = init THEN "init_fork" ELSE "unused"]
    /\ cmd = [p \in Slot |-> NoCmd]
    /\ parent = [p \in Slot |-> init]
    /\ sh = init
    /\ fd = [p \in Slot |-> IF p = init THEN Stdio ELSE AllClosed]
    /\ p0 = [p \in Slot |-> 0]
    /\ p1 = [p \in Slot |-> 0]
    /\ typed = 0
    /\ loose = {}

shell ==
    \/ \E x \in Command : main(x)
    \/ (main_wait \/ main_exit) /\ UNCHANGED typed

runcmd(p) ==
    \/ exec(p) \/ redir(p) \/ list(p) \/ list_wait(p) \/ back(p)
    \/ pipe(p) \/ pipe_left(p) \/ pipe_right(p) \/ pipe_close(p) \/ pipe_wait(p)
    \/ exit(p) \/ fork_fails(p) \/ program(p)

Next ==
    /\ pc[init] # "panic"
    /\ \/ shell /\ UNCHANGED sh
       \/ \E p \in Slot : runcmd(p) /\ UNCHANGED <<sh, typed>>
       \/ (init_wait \/ init_fork) /\ UNCHANGED typed

Spec == Init /\ [][Next]_vars

----------------------------------------------------------------------------
(* Properties *)

\* sh.c:101-123: a program that reads from a pipe will see its end: whoever still has
\* the other end is not the program itself, and is not waiting for it to exit.
Waiting(q) == pc[q] \in {"wait", "list_wait", "pipe_wait", "pipe_wait2"}
EOFComes ==
    \A p \in Slot : pc[p] = "program" /\ fd[p][0].end = "read" =>
        \A q \in Writers(fd[p][0].pipe) : q # p /\ ~(Waiting(q) /\ p \in Descendants(q))

\* sh.c:93-129, 159-175: when the shell prompts again, nothing of the last command runs
\* but what was started with & or left by a failed fork(), and the shell's own
\* descriptors are what they were.
PromptClean ==
    pc[sh] = "prompt" =>
        /\ \A p \in Slot \ {init, sh} :
               pc[p] = "unused" \/ p \in loose \/ (pc[p] = "zombie" /\ parent[p] = init)
        /\ fd[sh] = Stdio
=============================================================================
