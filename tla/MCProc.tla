------------------------------- MODULE MCProc -------------------------------
(* Instances of Proc for TLC. *)
EXTENDS Proc, TLC

CONSTANTS c1, c2

TwoCpus == {c1, c2}

\* No process kills init: its exit is a panic.
OtherPids == 2..MaxPid

Symmetry == Permutations(CPU)
=============================================================================
