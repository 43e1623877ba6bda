--------------------------- MODULE CrashSafeStore ---------------------------
(***************************************************************************)
(* What the logging layer (kernel/log.c) promises to the file system: a    *)
(* block store whose operations survive a crash all or not at all.         *)
(*                                                                         *)
(* `current' is what a read of a block returns, `stable' what it returns   *)
(* after a crash and recovery.  Operations write to current while they are *)
(* active.  The stable contents change in one way only: they become a      *)
(* snapshot of the current contents taken when no operation is active, so  *)
(* that no operation is ever half present in them.                         *)
(***************************************************************************)
CONSTANTS Proc,   \* the processes that run file-system calls
          Block,  \* the block numbers outside the log
          Val     \* the contents of a block

VARIABLES stable,   \* [Block -> Val]: what recovery brings back
          current,  \* [Block -> Val]: what a read returns
          active    \* the processes between begin_op() and end_op()

vars == <<stable, current, active>>

Init ==
    /\ stable \in [Block -> Val]
    /\ current = stable
    /\ active = {}

Begin(p) ==
    /\ p \notin active
    /\ active' = active \cup {p}
    /\ UNCHANGED <<stable, current>>

Write(p, b, v) ==
    /\ p \in active
    /\ current' = [current EXCEPT ![b] = v]
    /\ UNCHANGED <<stable, active>>

End(p) ==
    /\ p \in active
    /\ active' = active \ {p}
    /\ UNCHANGED <<stable, current>>

\* All the operations that ended since the last commit become stable at once.
Commit ==
    /\ active = {}
    /\ stable' = current
    /\ UNCHANGED <<current, active>>

Crash ==
    /\ current' = stable
    /\ active' = {}
    /\ UNCHANGED stable

Next ==
    \/ \E p \in Proc : Begin(p) \/ End(p)
    \/ \E p \in Proc, b \in Block, v \in Val : Write(p, b, v)
    \/ Commit
    \/ Crash

Spec == Init /\ [][Next]_vars
=============================================================================
