------------------------------ MODULE MCTaskLog ------------------------------
(* Small instances of TaskLog for TLC.                                     *)
EXTENDS TaskLog, TLC

CONSTANTS p1, p2, a1, a2, t1, t2

(* Two processes of two agents.                                            *)
TwoAgents == p1 :> a1 @@ p2 :> a2

(* One process on its own.                                                 *)
OneProc == p1 :> a1
=============================================================================
