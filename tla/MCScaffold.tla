----------------------------- MODULE MCScaffold -----------------------------
(* Scaffold with two interchangeable hooks of the operator's.              *)
EXTENDS Scaffold, TLC

CONSTANTS husky, lefthook

TwoHooks == {husky, lefthook}
HookSymmetry == Permutations(TwoHooks)
=============================================================================
