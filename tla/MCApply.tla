------------------------------ MODULE MCApply ------------------------------
(* Apply with files that play the same part.                               *)
EXTENDS Apply, TLC

Symmetry == Permutations(File)
=============================================================================
