----------------------------- MODULE MCConsole -----------------------------
(* An instance of Console for TLC. *)
EXTENDS Console, TLC

CONSTANTS p1, p2, c1, c2

TwoProcs == {p1, p2}
TwoCpus  == {c1, c2}

\* The intena of a CPU in no critical section is not read, nor what is left in the
\* buffer after it was read or erased.
LiveConsole ==
    <<sie, noff, run, pc, goal, procs, holder, uart, tx_busy, r, w, e, typed, panic,
      [c \in CPU |-> noff[c] > 0 /\ intena[c]], [k \in 1..Sub(e, r) |-> At((r + k - 1) % UINT)]>>

Symmetry == Permutations(CPU)

\* The reader is killed, and in a system call: in usertrap() it only exits.
KillReader == \A p \in Proc : killed'[p] /\ ~killed[p] => p \in Reader /\ pc[p] # "user"

MCSpec == Init /\ [][Next /\ KillReader]_vars
=============================================================================
