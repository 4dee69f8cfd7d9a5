------------------------------- MODULE MCCoord -------------------------------
(* TLC instances of Coord.                                                 *)
EXTENDS Coord, TLC

CONSTANTS p1, p2, p3, a1, a2, a3, t1, t2, f1, f2

TwoAgents == (p1 :> a1) @@ (p2 :> a2)

ThreeAgents == (p1 :> a1) @@ (p2 :> a2) @@ (p3 :> a3)

(* Where each process has an agent of its own and all are of one project,  *)
(* the pairs of a process and its agent may be exchanged.                  *)
SwapPairs ==
    {s \in Permutations({p1, p2, a1, a2}) :
        \A p \in {p1, p2} : s[p] \in {p1, p2} /\ s[AgentOf[p]] = AgentOf[s[p]]}

(* Two processes of one slot, which share its leaf identity, and a peer.   *)
Siblings == (p1 :> a1) @@ (p2 :> a1) @@ (p3 :> a2)

(* Agents of one project, and each of its own.                             *)
OneProject == [a \in Agent |-> "bones"]
OwnProject == [a \in Agent |-> a]

(* `tasks create --files` keeps the operator's order, so two tasks may     *)
(* list the same files in opposite orders.                                 *)
CrossedFiles == (t1 :> <<f1, f2>>) @@ (t2 :> <<f2, f1>>)

OneFile == t1 :> <<f1>>

=============================================================================
