--------------------------- MODULE MCHubLifecycle ---------------------------
(* Small instances of HubLifecycle.                                        *)
EXTENDS HubLifecycle, TLC

CONSTANTS p1, p2, p3, p4, p5

(* Every property is about the states before the first unguarded overlap.  *)
Unmeddled == ~meddled

(* The fingerprint leaves out what no guard and no property of the run     *)
(* reads: what a process that has ended ran, spawned, was sent or failed   *)
(* to list, and nilStart.  Two states it identifies differ in nothing else *)
(* and have the same successors.                                           *)
Unended == {p \in Pid : pc[p] # "dead"}
Relevant == <<pc, [p \in Unended |-> <<verb[p], kid[p]>>], termed \cap Unended, disk, bound,
              alone, failed \cap alone, meddled, unlisted \cap Unended, faults>>

PidSymmetry == Permutations(Pid)
=============================================================================
