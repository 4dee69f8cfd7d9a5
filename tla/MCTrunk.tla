------------------------------ MODULE MCTrunk ------------------------------
(* TLC instances of Trunk.                                                 *)
EXTENDS Trunk, TLC

(* Nothing tells two slots apart.                                          *)
Symmetry == Permutations(Slot)
=============================================================================
