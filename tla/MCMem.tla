------------------------------- MODULE MCMem -------------------------------
(* An instance of Mem whose processes may grow past TRAPFRAME. *)
EXTENDS Mem, TLC

CONSTANTS p0, p1, p2

ThreeProcs == {p0, p1, p2}

Symmetry == Permutations({p1, p2})
=============================================================================
