---------------------------- MODULE MCSwarmLease ----------------------------
(* TLC instances of SwarmLease.                                            *)
EXTENDS SwarmLease, TLC

CONSTANTS p1, p2, h1, h2, s1, s2, t1, t2

OneHost == (p1 :> h1) @@ (p2 :> h1)

ProcSymmetry == Permutations(Proc)

TwoHosts == (p1 :> h1) @@ (p2 :> h2)
=============================================================================
