---------------------------- MODULE LockedBlocks ----------------------------
(***************************************************************************)
(* What the buffer cache promises (kernel/bio.c): every block has one      *)
(* current contents and at most one process at a time that uses it; only   *)
(* that process changes the contents.  That there are fewer buffers than   *)
(* blocks, and which block has one, cannot be seen.                        *)
(***************************************************************************)
CONSTANTS Proc, Block, Val,
          Nobody   \* the user of a block that nobody uses

VARIABLES contents,  \* [Block -> Val]
          user       \* [Block -> Proc \cup {Nobody}]

vars == <<contents, user>>

Init == contents \in [Block -> Val] /\ user = [k \in Block |-> Nobody]

Use(p, k) ==
    /\ user[k] = Nobody
    /\ user' = [user EXCEPT ![k] = p]
    /\ UNCHANGED contents

Change(p, k, v) ==
    /\ user[k] = p
    /\ contents' = [contents EXCEPT ![k] = v]
    /\ UNCHANGED user

Leave(p, k) ==
    /\ user[k] = p
    /\ user' = [user EXCEPT ![k] = Nobody]
    /\ UNCHANGED contents

Next == \E p \in Proc, k \in Block : Use(p, k) \/ Leave(p, k) \/ \E v \in Val : Change(p, k, v)

Spec == Init /\ [][Next]_vars
=============================================================================
