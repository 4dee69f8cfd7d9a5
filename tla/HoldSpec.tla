------------------------------ MODULE HoldSpec ------------------------------
(***************************************************************************)
(* What internal/holds promises: a lease per file.  Taking a lease is one  *)
(* atomic step that is possible only when the file is vacant, already the  *)
(* caller's, or held by a lease that has run out.  Losing one before it    *)
(* runs out takes a release, begun by an agent while it held the file.     *)
(***************************************************************************)
EXTENDS Integers

CONSTANTS Agent,    \* agent identities
          NoAgent,  \* no holder
          File,     \* file paths
          TTL       \* the lease every Announce asks for

VARIABLES hold,     \* file -> [agent, expires]; agent = NoAgent when vacant
          leaving,  \* the releases under way: <<agent, file>>
          now       \* wall clock

specVars == <<hold, leaving, now>>

Empty == [agent |-> NoAgent, expires |-> 0]

Running(f) == hold[f].agent # NoAgent /\ hold[f].expires >= now

SpecInit ==
    /\ hold = [f \in File |-> Empty]
    /\ leaving = {}
    /\ now = 0

(* The lease granted was stamped no later than now.                        *)
Take(a, f) ==
    /\ ~Running(f) \/ hold[f].agent = a
    /\ \E e \in 0 .. now + TTL :
           hold' = [hold EXCEPT ![f] = [agent |-> a, expires |-> e]]
    /\ UNCHANGED <<leaving, now>>

(* The holder starts to give the file up.                                  *)
Leave(a, f) ==
    /\ Running(f) /\ hold[f].agent = a
    /\ leaving' = leaving \cup {<<a, f>>}
    /\ UNCHANGED <<hold, now>>

(* A release under way empties the file.  Another release of the same      *)
(* agent and file may still be on its way.                                 *)
Drop(a, f) ==
    /\ <<a, f>> \in leaving
    /\ hold' = [hold EXCEPT ![f] = Empty]
    /\ leaving' \in {leaving, leaving \ {<<a, f>>}}
    /\ UNCHANGED now

(* A release fails half way.                                               *)
Stay(a, f) ==
    /\ <<a, f>> \in leaving
    /\ leaving' = leaving \ {<<a, f>>}
    /\ UNCHANGED <<hold, now>>

(* The bucket's MaxAge removes what has run out.                           *)
Expire(f) ==
    /\ ~Running(f)
    /\ hold' = [hold EXCEPT ![f] = Empty]
    /\ UNCHANGED <<leaving, now>>

Advance ==
    /\ now' = now + 1
    /\ UNCHANGED <<hold, leaving>>

SpecNext ==
    \/ \E a \in Agent, f \in File :
           Take(a, f) \/ Leave(a, f) \/ Drop(a, f) \/ Stay(a, f)
    \/ \E f \in File : Expire(f)
    \/ Advance

Spec == SpecInit /\ [][SpecNext]_specVars
=============================================================================
