-------------------------------- MODULE MCBio -------------------------------
(* Instances of Bio for TLC. *)
EXTENDS Bio, TLC

CONSTANTS p1, p2, p3, k1, k2, k3

ThreeProcs  == {p1, p2, p3}
ThreeBlocks == {k1, k2, k3}

Symmetry == Permutations(Proc) \cup Permutations(Block)
=============================================================================
