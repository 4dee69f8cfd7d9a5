---------------------------- MODULE Holds_proofs ----------------------------
(***************************************************************************)
(* Theorems about Holds, for any set of agents, processes and files, any   *)
(* lease length and any retry bound.  TypeOK and IInv together are         *)
(* inductive: IInv says that the decision an Announce took at its read is  *)
(* still right when the server accepts its write.                          *)
(***************************************************************************)
EXTENDS Holds, TLAPS

(* What the proofs carry from state to state.                              *)
Inv == TypeOK /\ IInv

(* The request an idle process holds is a request.                         *)
LEMMA NoRequestType == ASSUME NEW p \in Proc PROVE NoRequest(p) \in Req
  BY FileAssumption, ProcAssumption DEF NoRequest, Request, Req

(* Returning from a call keeps pc and req in their types.                  *)
LEMMA ReturnType ==
    ASSUME TypeOK, NEW p \in Proc, Return(p)
    PROVE  /\ pc' \in [Proc -> {"idle", "read", "write", "release", "delete"}]
           /\ req' \in [Proc -> Req]
  BY NoRequestType DEF TypeOK, Return, Goto

(* The empty bucket satisfies the invariant.                               *)
LEMMA InitInv == Init => Inv
  <1> SUFFICES ASSUME Init PROVE Inv
    OBVIOUS
  <1>1. TypeOK
    BY NoRequestType DEF Init, TypeOK, Hold, Vacant, NoLease
  <1>2. IInv
    BY TTLAssumption
    DEF Init, IInv, AttemptFresh, Deadlines, LeaseIsKept, Vacant, NoLease
  <1> QED
    BY <1>1, <1>2 DEF Inv

(* Every step keeps the types.                                             *)
LEMMA NextType == ASSUME TypeOK, [Next]_vars PROVE TypeOK'
  <1> USE TTLAssumption, ProcAssumption
  <1>1. CASE UNCHANGED vars
    BY <1>1 DEF TypeOK, vars, keyVars, callVars
  <1>2. ASSUME NEW p \in Proc, NEW f \in File, BeginAnnounce(p, f)
        PROVE  TypeOK'
    BY <1>2 DEF TypeOK, BeginAnnounce, Goto, Request, Req, keyVars
  <1>3. ASSUME NEW p \in Proc, NEW f \in File, NEW a \in Agent, BeginRelease(p, f, a)
        PROVE  TypeOK'
    BY <1>3 DEF TypeOK, BeginRelease, Goto, Request, Req, keyVars
  <1>4. ASSUME NEW p \in Proc, AnnounceRead(p)
        PROVE  TypeOK'
    <2> DEFINE q == req[p]
               q2 == [q EXCEPT !.how = IF hold[q.file].agent = NoAgent THEN "create" ELSE "update",
                               !.rev = rev[q.file], !.expires = stamped]
    <2>1. q2 \in Req
      <3>1. q \in Req /\ rev[q.file] \in Nat /\ stamped \in Nat
        BY DEF TypeOK, Req, stamped
      <3> QED
        BY <3>1 DEF Req
    <2>2. req' = [req EXCEPT ![p] = q2] /\ pc' = [pc EXCEPT ![p] = "write"]
      BY <1>4 DEF AnnounceRead, Goto
    <2> HIDE DEF q2
    <2> QED
      BY <1>4, <2>1, <2>2 DEF TypeOK, AnnounceRead, keyVars
  <1>5. ASSUME NEW p \in Proc, AnnounceHeld(p) PROVE TypeOK'
    BY <1>5, ReturnType DEF TypeOK, AnnounceHeld, keyVars
  <1>6. ASSUME NEW p \in Proc, NEW acked \in BOOLEAN, AnnounceWrite(p, acked)
        PROVE  TypeOK'
    BY <1>6, ReturnType DEF TypeOK, AnnounceWrite, Req, Hold
  <1>7. ASSUME NEW p \in Proc, AnnounceConflict(p) PROVE TypeOK'
    <2>1. CASE Return(p)
      BY <1>7, <2>1, ReturnType DEF TypeOK, AnnounceConflict, keyVars
    <2>2. CASE req' = [req EXCEPT ![p].tries = @ + 1] /\ Goto(p, "read")
      <3> DEFINE q2 == [req[p] EXCEPT !.tries = @ + 1]
      <3>1. q2 \in Req
        <4>1. req[p] \in Req /\ req[p].tries \in Nat
          BY DEF TypeOK, Req
        <4> QED
          BY <4>1 DEF Req
      <3>2. req' = [req EXCEPT ![p] = q2]
        BY <2>2
      <3> HIDE DEF q2
      <3> QED
        BY <1>7, <2>2, <3>1, <3>2 DEF TypeOK, AnnounceConflict, keyVars, Goto
    <2> QED
      BY <1>7, <2>1, <2>2 DEF AnnounceConflict
  <1>8. ASSUME NEW p \in Proc, ReleaseRead(p) PROVE TypeOK'
    <2>1. CASE Return(p)
      BY <1>8, <2>1, ReturnType DEF TypeOK, ReleaseRead, keyVars
    <2>2. CASE Goto(p, "delete") /\ UNCHANGED req
      BY <1>8, <2>2 DEF TypeOK, ReleaseRead, keyVars, Goto
    <2> QED
      BY <1>8, <2>1, <2>2 DEF ReleaseRead
  <1>9. ASSUME NEW p \in Proc, ReleaseDelete(p) PROVE TypeOK'
    BY <1>9, ReturnType DEF TypeOK, ReleaseDelete, Req, Hold, Vacant, NoLease
  <1>10. ASSUME NEW p \in Proc, Abort(p) PROVE TypeOK'
    BY <1>10, ReturnType DEF TypeOK, Abort, keyVars
  <1>11. ASSUME NEW f \in File, Purge(f) PROVE TypeOK'
    BY <1>11 DEF TypeOK, Purge, callVars, Hold, Vacant
  <1>12. CASE Tick
    BY <1>12 DEF TypeOK, Tick, keyVars, callVars
  <1> QED
    BY <1>1, <1>2, <1>3, <1>4, <1>5, <1>6, <1>7, <1>8, <1>9, <1>10, <1>11, <1>12
    DEF Next, Step

(* A call's read or return leaves the keys, the clock and the other calls  *)
(* alone, so only its own freshness is to be shown.                        *)
LEMMA CallKeepsIInv ==
    ASSUME TypeOK, TypeOK', IInv, NEW p \in Proc,
           UNCHANGED <<keyVars, lease, now>>,
           \A r \in Proc \ {p} : pc'[r] = pc[r] /\ req'[r] = req[r],
           AttemptFresh(p)'
    PROVE  IInv'
  <1>1. ASSUME NEW r \in Proc PROVE AttemptFresh(r)'
    <2>1. CASE r = p
      BY <2>1
    <2>2. CASE r # p
      BY <2>2 DEF IInv, AttemptFresh, keyVars, MayTake, Live
    <2> QED
      BY <2>1, <2>2
  <1>2. Deadlines' /\ LeaseIsKept'
    BY DEF IInv, Deadlines, LeaseIsKept, keyVars
  <1> QED
    BY <1>1, <1>2 DEF IInv

(* Starting a call, reading and returning.                                 *)
LEMMA CallIInv ==
    ASSUME TypeOK, TypeOK', IInv, NEW p \in Proc,
           \/ \E f \in File : BeginAnnounce(p, f)
           \/ \E f \in File, a \in Agent : BeginRelease(p, f, a)
           \/ AnnounceRead(p)
           \/ AnnounceHeld(p)
           \/ AnnounceConflict(p)
           \/ ReleaseRead(p)
           \/ Abort(p)
    PROVE  IInv'
  <1> USE TTLAssumption
  <1>1. ASSUME NEW f \in File, BeginAnnounce(p, f) PROVE IInv'
    <2>1. AttemptFresh(p)'
      BY <1>1 DEF TypeOK, BeginAnnounce, Goto, AttemptFresh
    <2> QED
      BY <1>1, <2>1, CallKeepsIInv DEF TypeOK, BeginAnnounce, Goto
  <1>2. ASSUME NEW f \in File, NEW a \in Agent, BeginRelease(p, f, a) PROVE IInv'
    <2>1. AttemptFresh(p)'
      BY <1>2 DEF TypeOK, BeginRelease, Goto, AttemptFresh
    <2> QED
      BY <1>2, <2>1, CallKeepsIInv DEF TypeOK, BeginRelease, Goto
  <1>3. CASE AnnounceRead(p)
    <2> DEFINE q == req[p]
               q2 == [q EXCEPT !.how = IF hold[q.file].agent = NoAgent THEN "create" ELSE "update",
                               !.rev = rev[q.file], !.expires = stamped]
    <2>1. q \in Req /\ q.file \in File /\ rev[q.file] \in Nat /\ now \in Nat
      BY DEF TypeOK, Req
    <2>2. /\ q2.file = q.file /\ q2.agent = q.agent
          /\ q2.rev = rev[q.file] /\ q2.expires = now + TTL
      BY <2>1 DEF Req, stamped
    <2>3. req'[p] = q2 /\ pc'[p] = "write"
      BY <1>3 DEF TypeOK, AnnounceRead, Goto
    <2>4. hold[q.file].expires <= now + TTL
      BY <2>1 DEF IInv, Deadlines, TypeOK, Hold
    <2>5. MayTake(q) /\ UNCHANGED <<keyVars, lease, now>>
      BY <1>3 DEF AnnounceRead
    <2> HIDE DEF q2
    <2>6. AttemptFresh(p)'
      BY <2>1, <2>2, <2>3, <2>4, <2>5 DEF AttemptFresh, MayTake, Live, keyVars
    <2> QED
      BY <1>3, <2>5, <2>6, CallKeepsIInv DEF TypeOK, AnnounceRead, Goto
  <1>4. CASE AnnounceHeld(p)
    BY <1>4, CallKeepsIInv DEF TypeOK, AnnounceHeld, Return, Goto, AttemptFresh
  <1>5. CASE AnnounceConflict(p)
    BY <1>5, CallKeepsIInv DEF TypeOK, AnnounceConflict, Return, Goto, AttemptFresh
  <1>6. CASE ReleaseRead(p)
    <2>1. CASE Return(p)
      BY <1>6, <2>1, CallKeepsIInv DEF TypeOK, ReleaseRead, Return, Goto, AttemptFresh
    <2>2. CASE OwnedBy(req[p]) /\ Goto(p, "delete") /\ UNCHANGED req
      <3>1. AttemptFresh(p)'
        BY <2>2 DEF TypeOK, Goto, AttemptFresh
      <3> QED
        BY <1>6, <2>2, <3>1, CallKeepsIInv DEF TypeOK, ReleaseRead, Goto
    <2> QED
      BY <1>6, <2>1, <2>2 DEF ReleaseRead
  <1>7. CASE Abort(p)
    BY <1>7, CallKeepsIInv DEF TypeOK, Abort, Return, Goto, AttemptFresh
  <1> QED
    BY <1>1, <1>2, <1>3, <1>4, <1>5, <1>6, <1>7

(* The key has moved on: no attempt that read it earlier can still land.   *)
LEMMA RevisionMoved ==
    ASSUME TypeOK, TypeOK', IInv, NEW f \in File, NEW p \in Proc,
           rev' = [rev EXCEPT ![f] = @ + 1],
           \A g \in File \ {f} : hold'[g] = hold[g],
           now' = now, pc'[p] = pc[p], req'[p] = req[p]
    PROVE  AttemptFresh(p)'
  <1>1. req[p].file \in File /\ req[p].rev \in Nat
    BY DEF TypeOK, Req
  <1>2. CASE req[p].file = f
    <2>1. rev[f] \in Nat /\ rev'[f] = rev[f] + 1
      BY DEF TypeOK
    <2>2. pc[p] = "write" => req[p].rev <= rev[f] /\ req[p].expires <= now + TTL
      BY <1>2 DEF IInv, AttemptFresh
    <2> QED
      BY <1>1, <1>2, <2>1, <2>2 DEF AttemptFresh
  <1>3. CASE req[p].file # f
    BY <1>1, <1>3 DEF IInv, AttemptFresh, TypeOK, MayTake, Live
  <1> QED
    BY <1>2, <1>3

(* A put that the server accepts displaces no lease but the putter's own.  *)
LEMMA WriteIInv ==
    ASSUME TypeOK, TypeOK', IInv, NEW p \in Proc, NEW acked \in BOOLEAN,
           AnnounceWrite(p, acked)
    PROVE  IInv'
  <1> DEFINE q == req[p]
             f == q.file
  <1> USE TTLAssumption, NoAgentAssumption
  <1>1. /\ f \in File /\ q.agent \in Agent /\ q.rev \in Nat /\ q.expires \in Nat
        /\ q.how \in {"create", "update"}
    BY DEF TypeOK, Req
  <1>2. /\ q.expires <= now + TTL
        /\ q.how = "update" /\ q.rev = rev[f] => MayTake(q) /\ hold[f].expires <= q.expires
    BY DEF IInv, AttemptFresh, AnnounceWrite
  <1>3. /\ hold' = [hold EXCEPT ![f] = [agent |-> q.agent, expires |-> q.expires]]
        /\ rev' = [rev EXCEPT ![f] = @ + 1]
        /\ putAt' = [putAt EXCEPT ![f] = now]
        /\ lease' = IF acked THEN [lease EXCEPT ![q.agent][f] = q.expires] ELSE lease
        /\ now' = now
        /\ CASAccepted(q)
    BY DEF AnnounceWrite
  <1>4. /\ hold'[f].agent = q.agent /\ hold'[f].expires = q.expires
        /\ \A g \in File \ {f} : hold'[g] = hold[g]
    BY <1>1, <1>3 DEF TypeOK
  <1>5. ASSUME NEW r \in Proc PROVE AttemptFresh(r)'
    <2>1. CASE r = p
      BY <2>1 DEF AnnounceWrite, Return, Goto, AttemptFresh, TypeOK
    <2>2. CASE r # p
      <3>1. pc'[r] = pc[r] /\ req'[r] = req[r]
        BY <2>2 DEF AnnounceWrite, Return, Goto, TypeOK
      <3> QED
        BY <1>1, <1>3, <1>4, <3>1, RevisionMoved
    <2> QED
      BY <2>1, <2>2
  <1>6. Deadlines'
    <2> SUFFICES ASSUME NEW g \in File
                 PROVE  /\ putAt'[g] <= now'
                        /\ hold'[g].expires <= putAt'[g] + TTL
      BY DEF Deadlines
    <2>1. CASE g = f
      BY <1>1, <1>2, <1>3, <1>4, <2>1 DEF TypeOK
    <2>2. CASE g # f
      BY <1>1, <1>3, <1>4, <2>2 DEF TypeOK, IInv, Deadlines
    <2> QED
      BY <2>1, <2>2
  <1>7. LeaseIsKept'
    <2> SUFFICES ASSUME NEW a \in Agent, NEW g \in File, lease'[a][g] >= now'
                 PROVE  hold'[g].agent = a /\ hold'[g].expires >= lease'[a][g]
      BY DEF LeaseIsKept
    <2>1. lease'[a][g] = lease[a][g] \/ (a = q.agent /\ g = f /\ lease'[a][g] = q.expires)
      BY <1>1, <1>3 DEF TypeOK
    <2>2. CASE a = q.agent /\ g = f /\ lease'[a][g] = q.expires
      BY <1>1, <1>4, <2>2
    <2>3. CASE lease'[a][g] = lease[a][g] /\ g # f
      BY <1>3, <1>4, <2>3 DEF IInv, LeaseIsKept
    <2>4. CASE lease'[a][g] = lease[a][g] /\ g = f
      <3>1. hold[f].agent = a /\ hold[f].expires >= lease[a][f] /\ lease[a][f] >= now
        BY <1>3, <2>4 DEF IInv, LeaseIsKept
      <3>2. hold[f].expires \in Nat /\ lease[a][f] \in Int /\ now \in Nat
        BY <1>1, <2>4 DEF TypeOK, Hold
      <3>3. Live(f)
        BY <3>1, <3>2 DEF Live
      <3>4. q.how = "update" /\ q.rev = rev[f]
        BY <1>1, <1>3, <3>1 DEF CASAccepted
      <3>5. a = q.agent /\ hold[f].expires <= q.expires
        BY <1>2, <3>1, <3>3, <3>4 DEF MayTake
      <3> QED
        BY <1>1, <1>4, <2>4, <3>1, <3>2, <3>5
    <2> QED
      BY <2>1, <2>2, <2>3, <2>4
  <1> QED
    BY <1>5, <1>6, <1>7 DEF IInv

(* A key emptied by Release (the leases on it are void) or by the bucket's *)
(* TTL (they have run out).                                                *)
LEMMA EmptyIInv ==
    ASSUME TypeOK, TypeOK', IInv, NEW f \in File,
           hold' = [hold EXCEPT ![f] = Vacant],
           rev' = [rev EXCEPT ![f] = @ + 1],
           putAt' = putAt, now' = now,
           \A r \in Proc : \/ pc'[r] = "idle"
                           \/ pc'[r] = pc[r] /\ req'[r] = req[r],
           \A a \in Agent, g \in File \ {f} : lease'[a][g] = lease[a][g],
           \A a \in Agent : ~(lease'[a][f] >= now)
    PROVE  IInv'
  <1>1. ASSUME NEW r \in Proc PROVE AttemptFresh(r)'
    <2>1. CASE pc'[r] = "idle"
      BY <2>1 DEF AttemptFresh
    <2>2. CASE pc'[r] = pc[r] /\ req'[r] = req[r]
      BY <2>2, RevisionMoved DEF TypeOK
    <2> QED
      BY <2>1, <2>2
  <1>2. Deadlines'
    BY TTLAssumption DEF IInv, Deadlines, TypeOK, Vacant, Hold
  <1>3. LeaseIsKept'
    BY DEF IInv, LeaseIsKept, TypeOK
  <1> QED
    BY <1>1, <1>2, <1>3 DEF IInv

(* What the bucket's TTL removes has run out.                              *)
LEMMA PurgedHasExpired ==
    ASSUME TypeOK, IInv, NEW f \in File, Purge(f)
    PROVE  ~Live(f)
  BY TTLAssumption, TTLMaxAssumption DEF TypeOK, IInv, Deadlines, Purge, Live, Hold

(* Every step keeps the strengthening.                                     *)
LEMMA NextIInv == ASSUME TypeOK, TypeOK', IInv, [Next]_vars PROVE IInv'
  <1>1. CASE UNCHANGED vars
    BY <1>1 DEF IInv, AttemptFresh, Deadlines, LeaseIsKept, MayTake, Live, vars, keyVars, callVars
  <1>2. ASSUME NEW p \in Proc, ReleaseDelete(p) PROVE IInv'
    <2> DEFINE f == req[p].file
    <2>1. f \in File
      BY DEF TypeOK, Req
    <2>2. /\ hold' = [hold EXCEPT ![f] = Vacant]
          /\ rev' = [rev EXCEPT ![f] = @ + 1]
          /\ putAt' = putAt /\ now' = now
      BY <1>2 DEF ReleaseDelete
    <2>3. \A r \in Proc : pc'[r] = "idle" \/ (pc'[r] = pc[r] /\ req'[r] = req[r])
      BY <1>2 DEF TypeOK, ReleaseDelete, Return, Goto
    <2>4. lease' = [a \in Agent |-> [lease[a] EXCEPT ![f] = NoLease]]
      BY <1>2 DEF ReleaseDelete
    <2>5. /\ \A a \in Agent, g \in File \ {f} : lease'[a][g] = lease[a][g]
          /\ \A a \in Agent : ~(lease'[a][f] >= now)
      BY <2>1, <2>4 DEF TypeOK, NoLease
    <2> HIDE DEF f
    <2> QED
      BY <2>1, <2>2, <2>3, <2>5, EmptyIInv
  <1>3. ASSUME NEW f \in File, Purge(f) PROVE IInv'
    <2>1. ~Live(f) /\ hold[f].agent # NoAgent
      BY <1>3, PurgedHasExpired DEF Purge
    <2>2. \A a \in Agent : ~(lease'[a][f] >= now)
      BY <1>3, <2>1 DEF Purge, IInv, LeaseIsKept, Live, TypeOK, Hold
    <2> QED
      BY <1>3, <2>2, EmptyIInv DEF Purge, callVars
  <1>4. CASE Tick
    <2>1. ASSUME NEW r \in Proc PROVE AttemptFresh(r)'
      BY <1>4, TTLAssumption
      DEF Tick, keyVars, callVars, IInv, AttemptFresh, MayTake, Live, TypeOK, Req, Hold
    <2>2. Deadlines' /\ LeaseIsKept'
      BY <1>4 DEF Tick, keyVars, IInv, Deadlines, LeaseIsKept, TypeOK
    <2> QED
      BY <2>1, <2>2 DEF IInv
  <1> QED
    BY <1>1, <1>2, <1>3, <1>4, CallIInv, WriteIInv DEF Next, Step

(* TypeOK /\ IInv holds in every reachable state.                          *)
LEMMA InvHolds == Spec => []Inv
  <1>1. Inv /\ [Next]_vars => Inv'
    BY NextType, NextIInv DEF Inv
  <1> QED
    BY <1>1, InitInv, PTL DEF Spec

(* Type correctness of the hold store.                                     *)
THEOREM TypeCorrect == Spec => []TypeOK
  <1>1. Inv => TypeOK
    BY DEF Inv
  <1> QED
    BY <1>1, InvHolds, PTL

(* An agent whose Announce returned is the holder until its deadline or a  *)
(* Release, for any number of contending processes and any retry bound.    *)
THEOREM LeasesAreKept == Spec => []LeaseIsKept
  <1>1. Inv => LeaseIsKept
    BY DEF Inv, IInv
  <1> QED
    BY <1>1, InvHolds, PTL

(* A step of p that neither starts nor ends a delete leaves the releases   *)
(* under way alone.                                                        *)
LEMMA LeavingKept ==
    ASSUME NEW p \in Proc, pc[p] # "delete", pc'[p] # "delete",
           \A r \in Proc \ {p} : pc'[r] = pc[r] /\ req'[r] = req[r]
    PROVE  Leaving' = Leaving
  <1>1. {q \in Proc : pc'[q] = "delete"} = {q \in Proc : pc[q] = "delete"}
    OBVIOUS
  <1>2. \A q \in Proc : pc[q] = "delete" => req'[q] = req[q]
    OBVIOUS
  <1> QED
    BY <1>1, <1>2 DEF Leaving

(* Release's read, when it finds its own hold, is one more under way.      *)
LEMMA LeavingGains ==
    ASSUME NEW p \in Proc, pc[p] # "delete", pc'[p] = "delete", req' = req,
           \A r \in Proc \ {p} : pc'[r] = pc[r]
    PROVE  Leaving' = Leaving \cup {<<req[p].agent, req[p].file>>}
  <1>1. {q \in Proc : pc'[q] = "delete"} = {q \in Proc : pc[q] = "delete"} \cup {p}
    OBVIOUS
  <1> QED
    BY <1>1 DEF Leaving

(* The end of a delete takes its release away, unless a sibling process    *)
(* is releasing the same file for the same agent.                          *)
LEMMA LeavingLoses ==
    ASSUME NEW p \in Proc, pc[p] = "delete", pc'[p] # "delete",
           \A r \in Proc \ {p} : pc'[r] = pc[r] /\ req'[r] = req[r]
    PROVE  /\ <<req[p].agent, req[p].file>> \in Leaving
           /\ \/ Leaving' = Leaving
              \/ Leaving' = Leaving \ {<<req[p].agent, req[p].file>>}
  <1> DEFINE D == {q \in Proc : pc[q] = "delete"}
             x(q) == <<req[q].agent, req[q].file>>
  <1>1. Leaving' = {x(q) : q \in D \ {p}}
    <2>1. {q \in Proc : pc'[q] = "delete"} = D \ {p}
      OBVIOUS
    <2>2. \A q \in D \ {p} : req'[q] = req[q]
      OBVIOUS
    <2> QED
      BY <2>1, <2>2 DEF Leaving
  <1>2. Leaving = {x(q) : q \in D} /\ p \in D
    BY DEF Leaving
  <1> HIDE DEF D, x
  <1>3. x(p) \in Leaving
    BY <1>2
  <1>4. ASSUME \E q \in D \ {p} : x(q) = x(p) PROVE Leaving' = Leaving
    BY <1>1, <1>2, <1>4
  <1>5. ASSUME ~ \E q \in D \ {p} : x(q) = x(p) PROVE Leaving' = Leaving \ {x(p)}
    BY <1>1, <1>2, <1>5
  <1> QED
    BY <1>3, <1>4, <1>5 DEF x

(* One step of the CAS loops is one step of the lease specification.       *)
LEMMA StepImplements ==
    ASSUME TypeOK, IInv, [Next]_vars
    PROVE  [Lease!SpecNext]_(Lease!specVars)
  <1> USE TTLAssumption
  <1>1. CASE UNCHANGED vars
    BY <1>1 DEF vars, keyVars, callVars, Lease!specVars, Leaving
  <1>2. ASSUME NEW p \in Proc, NEW acked \in BOOLEAN, AnnounceWrite(p, acked)
        PROVE  Lease!SpecNext
    <2> DEFINE q == req[p]
               f == q.file
    <2>1. /\ f \in File /\ q.agent \in Agent /\ q.rev \in Nat /\ q.expires \in Nat
          /\ q.how \in {"create", "update"} /\ now \in Nat
      BY DEF TypeOK, Req
    <2>2. ~Live(f) \/ hold[f].agent = q.agent
      <3>1. CASE q.how = "create"
        BY <1>2, <3>1 DEF AnnounceWrite, CASAccepted, Live
      <3>2. CASE q.how = "update"
        BY <1>2, <2>1, <3>2 DEF AnnounceWrite, CASAccepted, IInv, AttemptFresh, MayTake
      <3> QED
        BY <2>1, <3>1, <3>2
    <2>3. q.expires \in 0 .. now + TTL
      BY <1>2, <2>1 DEF AnnounceWrite, IInv, AttemptFresh
    <2>4. Leaving' = Leaving
      BY <1>2, LeavingKept DEF AnnounceWrite, Return, Goto, TypeOK
    <2>5. Lease!Take(q.agent, f)
      BY <1>2, <2>2, <2>3, <2>4 DEF AnnounceWrite, Live, Lease!Take, Lease!Running
    <2> QED
      BY <2>1, <2>5 DEF Lease!SpecNext
  <1>3. ASSUME NEW p \in Proc, ReleaseDelete(p) PROVE Lease!SpecNext
    <2>1. req[p].file \in File /\ req[p].agent \in Agent
      BY DEF TypeOK, Req
    <2>2. /\ <<req[p].agent, req[p].file>> \in Leaving
          /\ Leaving' \in {Leaving, Leaving \ {<<req[p].agent, req[p].file>>}}
      BY <1>3, LeavingLoses DEF ReleaseDelete, Return, Goto, TypeOK
    <2>3. Lease!Drop(req[p].agent, req[p].file)
      BY <1>3, <2>2 DEF ReleaseDelete, Vacant, Lease!Drop, Lease!Empty
    <2> QED
      BY <2>1, <2>3 DEF Lease!SpecNext
  <1>4. ASSUME NEW f \in File, Purge(f) PROVE Lease!SpecNext
    <2>1. Leaving' = Leaving
      BY <1>4 DEF Purge, callVars, Leaving
    <2>2. Lease!Expire(f)
      BY <1>4, <2>1, PurgedHasExpired
      DEF Purge, Live, Vacant, Lease!Expire, Lease!Running, Lease!Empty
    <2> QED
      BY <2>2 DEF Lease!SpecNext
  <1>5. CASE Tick
    <2>1. Leaving' = Leaving
      BY <1>5 DEF Tick, callVars, Leaving
    <2> QED
      BY <1>5, <2>1 DEF Tick, keyVars, Lease!Advance, Lease!SpecNext
  <1>6. ASSUME NEW p \in Proc, ReleaseRead(p)
        PROVE  [Lease!SpecNext]_(Lease!specVars)
    <2>1. CASE OwnedBy(req[p])
      <3>1. req[p].file \in File /\ req[p].agent \in Agent
        BY DEF TypeOK, Req
      <3>2. Leaving' = Leaving \cup {<<req[p].agent, req[p].file>>}
        BY <1>6, <2>1, LeavingGains DEF ReleaseRead, Goto, TypeOK
      <3>3. Lease!Leave(req[p].agent, req[p].file)
        BY <1>6, <2>1, <3>2
        DEF ReleaseRead, OwnedBy, Live, keyVars, Lease!Leave, Lease!Running
      <3> QED
        BY <3>1, <3>3 DEF Lease!SpecNext
    <2>2. CASE ~OwnedBy(req[p])
      <3>1. Leaving' = Leaving
        BY <1>6, <2>2, LeavingKept DEF ReleaseRead, Return, Goto, TypeOK
      <3> QED
        BY <1>6, <3>1 DEF ReleaseRead, keyVars, Lease!specVars
    <2> QED
      BY <2>1, <2>2
  <1>7. ASSUME NEW p \in Proc, Abort(p)
        PROVE  [Lease!SpecNext]_(Lease!specVars)
    <2>1. CASE pc[p] = "delete"
      <3>1. req[p].file \in File /\ req[p].agent \in Agent
        BY DEF TypeOK, Req
      <3>2. /\ <<req[p].agent, req[p].file>> \in Leaving
            /\ \/ Leaving' = Leaving
               \/ Leaving' = Leaving \ {<<req[p].agent, req[p].file>>}
        BY <1>7, <2>1, LeavingLoses DEF Abort, Return, Goto, TypeOK
      <3>3. CASE Leaving' = Leaving
        BY <1>7, <3>3 DEF Abort, keyVars, Lease!specVars
      <3>4. CASE Leaving' = Leaving \ {<<req[p].agent, req[p].file>>}
        BY <1>7, <3>1, <3>2, <3>4 DEF Abort, keyVars, Lease!Stay, Lease!SpecNext
      <3> QED
        BY <3>2, <3>3, <3>4
    <2>2. CASE pc[p] # "delete"
      <3>1. Leaving' = Leaving
        BY <1>7, <2>2, LeavingKept DEF Abort, Return, Goto, TypeOK
      <3> QED
        BY <1>7, <3>1 DEF Abort, keyVars, Lease!specVars
    <2> QED
      BY <2>1, <2>2
  <1>8. ASSUME NEW p \in Proc,
               \/ \E f \in File : BeginAnnounce(p, f)
               \/ \E f \in File, a \in Agent : BeginRelease(p, f, a)
               \/ AnnounceRead(p) \/ AnnounceHeld(p) \/ AnnounceConflict(p)
        PROVE  UNCHANGED Lease!specVars
    <2>1. UNCHANGED <<keyVars, lease, now>>
      BY <1>8 DEF BeginAnnounce, BeginRelease, AnnounceRead, AnnounceHeld, AnnounceConflict
    <2>2. /\ pc[p] # "delete" /\ pc'[p] # "delete"
          /\ \A r \in Proc \ {p} : pc'[r] = pc[r] /\ req'[r] = req[r]
      BY <1>8 DEF BeginAnnounce, BeginRelease, AnnounceRead, AnnounceHeld,
                  AnnounceConflict, Return, Goto, TypeOK
    <2> QED
      BY <2>1, <2>2, LeavingKept DEF keyVars, Lease!specVars
  <1> QED
    BY <1>1, <1>2, <1>3, <1>4, <1>5, <1>6, <1>7, <1>8 DEF Next, Step

(* Announce's read-decide-write loop and Release's read-then-delete        *)
(* implement HoldSpec: a lease is taken in one atomic step, and is lost    *)
(* early only to a release that began while its agent held the file.       *)
THEOREM ImplementsLease == Spec => LeaseSpec
  <1>1. Init => Lease!SpecInit
    BY DEF Init, Vacant, Leaving, Lease!SpecInit, Lease!Empty
  <1>2. Inv /\ [Next]_vars => [Lease!SpecNext]_(Lease!specVars)
    BY StepImplements DEF Inv
  <1> QED
    BY <1>1, <1>2, InvHolds, PTL DEF Spec, LeaseSpec, Lease!Spec

(* A put that lands on one's own hold carries a later deadline.            *)
LEMMA StepRenews ==
    ASSUME TypeOK, IInv, [Next]_vars,
           NEW f \in File, hold'[f].agent = hold[f].agent, hold[f].agent # NoAgent
    PROVE  hold'[f].expires >= hold[f].expires
  <1>1. CASE hold'[f] = hold[f]
    BY <1>1 DEF TypeOK, Hold
  <1>2. ASSUME NEW p \in Proc, NEW acked \in BOOLEAN, AnnounceWrite(p, acked)
        PROVE  hold'[f].expires >= hold[f].expires
    <2>1. CASE req[p].file = f
      <3>1. req[p].how = "update" /\ req[p].rev = rev[f]
        BY <1>2, <2>1 DEF AnnounceWrite, CASAccepted, TypeOK, Req
      <3>2. hold[f].expires <= req[p].expires
        BY <1>2, <2>1, <3>1 DEF AnnounceWrite, IInv, AttemptFresh
      <3> QED
        BY <1>2, <2>1, <3>2 DEF AnnounceWrite, TypeOK, Hold, Req
    <2>2. CASE req[p].file # f
      BY <1>1, <1>2, <2>2 DEF AnnounceWrite, TypeOK
    <2> QED
      BY <2>1, <2>2
  <1>3. ASSUME NEW g \in File, hold' = [hold EXCEPT ![g] = Vacant]
        PROVE  hold'[f].expires >= hold[f].expires
    BY <1>1, <1>3 DEF TypeOK, Vacant
  <1>4. ASSUME NEW p \in Proc, ReleaseDelete(p) PROVE hold'[f].expires >= hold[f].expires
    BY <1>3, <1>4 DEF ReleaseDelete, TypeOK, Req
  <1>5. ASSUME NEW g \in File, Purge(g) PROVE hold'[f].expires >= hold[f].expires
    BY <1>3, <1>5 DEF Purge
  <1>6. CASE UNCHANGED hold
    BY <1>1, <1>6
  <1> QED
    BY <1>2, <1>4, <1>5, <1>6
    DEF Next, Step, vars, keyVars, Tick, BeginAnnounce, BeginRelease,
        AnnounceRead, AnnounceHeld, AnnounceConflict, ReleaseRead, Abort

(* Re-stamping on each attempt keeps every renewal a renewal.              *)
THEOREM RenewalsExtend == Spec => RenewNeverShortens
  <1>1. Inv /\ [Next]_vars =>
          [\A f \in File :
              hold'[f].agent = hold[f].agent /\ hold[f].agent # NoAgent
              => hold'[f].expires >= hold[f].expires]_vars
    BY StepRenews DEF Inv
  <1> QED
    BY <1>1, InvHolds, PTL DEF Spec, RenewNeverShortens
=============================================================================
