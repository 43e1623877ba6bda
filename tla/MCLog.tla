------------------------------- MODULE MCLog --------------------------------
(* An instance of Log for TLC. *)
EXTENDS Log, TLC

CONSTANTS p1, p2, b1, b2

TwoProcs  == {p1, p2}
TwoBlocks == {b1, b2}

Symmetry == Permutations(Proc) \cup Permutations(Block)
=============================================================================
