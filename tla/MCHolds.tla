------------------------------- MODULE MCHolds -------------------------------
(* TLC instances of Holds.                                                 *)
EXTENDS Holds, TLC

CONSTANTS p1, p2, p3, a1, a2

(* Two processes of one slot's leaf identity and one of another's.         *)
SharedSlot == (p1 :> a1) @@ (p2 :> a1) @@ (p3 :> a2)
=============================================================================
