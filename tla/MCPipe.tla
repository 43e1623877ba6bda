------------------------------- MODULE MCPipe -------------------------------
(* Instances of Pipe for TLC. *)
EXTENDS Pipe, TLC

CONSTANTS r1, r2, w1, w2

OneReader  == {r1}
TwoReaders == {r1, r2}
OneWriter  == {w1}
TwoWriters == {w1, w2}

Everyone == Proc

Symmetry == Permutations(Reader) \cup Permutations(Writer)
=============================================================================
