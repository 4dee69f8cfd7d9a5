-------------------------------- MODULE Holds --------------------------------
(***************************************************************************)
(* internal/holds: file leases in a JetStream KV bucket.  Announce is a    *)
(* bounded read-decide-write CAS loop; Release reads the entry, checks the *)
(* owner and then deletes the key without a revision.  Processes (several  *)
(* may run under one agent identity: every leaf of a slot is slot-leaf)    *)
(* interleave at every bucket round trip, and the clock may advance        *)
(* between any two of them.  Clocks of different hosts are taken to agree, *)
(* as hold.go's comment on wall-clock timestamps does.                     *)
(***************************************************************************)
EXTENDS Integers

CONSTANTS Agent,       \* agent identities
          NoAgent,     \* no holder
          File,        \* file paths
          TTL,         \* the lease every Announce asks for
          Proc,        \* processes
          AgentOf,     \* the agent identity of each
          HoldTTLMax,  \* the bucket's TTL
          MaxRetries,  \* jskv.MaxRetries
          MaxTime,     \* bound: the clock
          MaxRev       \* bound: writes to one key

ASSUME NoAgentAssumption == NoAgent \notin Agent
ASSUME FileAssumption == File # {}
ASSUME TTLAssumption == TTL \in Nat \ {0}
ASSUME ProcAssumption == AgentOf \in [Proc -> Agent]
ASSUME TTLMaxAssumption == HoldTTLMax \in Nat /\ HoldTTLMax >= TTL
ASSUME BoundAssumption ==
    MaxRetries \in Nat \ {0} /\ MaxTime \in Nat /\ MaxRev \in Nat

VARIABLES
    hold,    \* the bucket: file -> [agent, expires]; NoAgent when vacant
    now,     \* wall clock
    rev,     \* revision of each key
    putAt,   \* server time of each key's last put
    pc,      \* where each process is in its call
    req,     \* the call's arguments and what its attempt has read
    lease    \* history: the deadline of each agent's last successful Announce

callVars == <<pc, req>>
keyVars == <<hold, rev, putAt>>
vars == <<keyVars, callVars, lease, now>>

Hold == [agent : Agent \cup {NoAgent}, expires : Nat]

Vacant == [agent |-> NoAgent, expires |-> 0]

(* readHold's verdict: ExpiresAt.Before(now) makes a stored hold no hold.  *)
Live(f) == hold[f].agent # NoAgent /\ hold[f].expires >= now

(* file and agent are the call's arguments; tries, how, rev and expires *)
(* belong to the current CAS attempt.                                      *)
Req == [file : File, agent : Agent, tries : Nat, how : {"create", "update"},
        rev : Nat, expires : Nat]

Request(f, a) ==
    [file |-> f, agent |-> a, tries |-> 0, how |-> "create", rev |-> 0, expires |-> 0]

NoRequest(p) == Request(CHOOSE f \in File : TRUE, AgentOf[p])

NoLease == -1

Init ==
    /\ hold = [f \in File |-> Vacant]
    /\ now = 0
    /\ rev = [f \in File |-> 0]
    /\ putAt = [f \in File |-> 0]
    /\ pc = [p \in Proc |-> "idle"]
    /\ req = [p \in Proc |-> NoRequest(p)]
    /\ lease = [a \in Agent |-> [f \in File |-> NoLease]]

Goto(p, label) == pc' = [pc EXCEPT ![p] = label]

Return(p) ==
    /\ Goto(p, "idle")
    /\ req' = [req EXCEPT ![p] = NoRequest(p)]

-----------------------------------------------------------------------------
(* Manager.Announce.                                                       *)

BeginAnnounce(p, f) ==
    /\ pc[p] = "idle" /\ rev[f] < MaxRev
    /\ req' = [req EXCEPT ![p] = Request(f, AgentOf[p])]
    /\ Goto(p, "read")
    /\ UNCHANGED <<keyVars, lease, now>>

(* decideAnnounce: renew one's own hold, take over one that has run out.   *)
MayTake(q) == hold[q.file].agent = q.agent \/ ~Live(q.file)

(* Mutant: the lease ends before it begins.                                *)
StampedBackwards == now - TTL

stamped == now + TTL

(* Mutant: the deadline is stamped once, before the loop.                  *)
StampOnce(p) ==
    LET q == req[p]
    IN /\ pc[p] = "read"
       /\ MayTake(q)
       /\ req' = [req EXCEPT ![p] =
                     [q EXCEPT !.how = IF hold[q.file].agent = NoAgent THEN "create" ELSE "update",
                               !.rev = rev[q.file],
                               !.expires = IF q.tries = 0 THEN stamped ELSE @]]
       /\ Goto(p, "write")
       /\ UNCHANGED <<keyVars, lease, now>>

(* announceAttempt's Get and decision, and the deadline stamped for the    *)
(* write that follows.  A vacant key is Created, any other Updated under   *)
(* the revision read.  (kv.Get answers ErrKeyNotFound for a delete marker, *)
(* so a deleted key takes the Create path too.)                            *)
AnnounceRead(p) ==
    LET q == req[p]
    IN /\ pc[p] = "read"
       /\ MayTake(q)
       /\ req' = [req EXCEPT ![p] =
                     [q EXCEPT !.how = IF hold[q.file].agent = NoAgent THEN "create" ELSE "update",
                               !.rev = rev[q.file], !.expires = stamped]]
       /\ Goto(p, "write")
       /\ UNCHANGED <<keyVars, lease, now>>

(* ErrHeldByAnother.                                                       *)
AnnounceHeld(p) ==
    /\ pc[p] = "read"
    /\ ~MayTake(req[p])
    /\ Return(p)
    /\ UNCHANGED <<keyVars, lease, now>>

(* Mutant: a put without the revision.                                     *)
BlindPut(q) == TRUE

(* The server's answer to casVacant's Create and casRevision's Update.     *)
CASAccepted(q) ==
    IF q.how = "create" THEN hold[q.file].agent = NoAgent ELSE rev[q.file] = q.rev

(* acked = FALSE: stored, but the caller never learns of it.               *)
AnnounceWrite(p, acked) ==
    LET q == req[p]
    IN /\ pc[p] = "write"
       /\ CASAccepted(q)
       /\ hold' = [hold EXCEPT ![q.file] = [agent |-> q.agent, expires |-> q.expires]]
       /\ rev' = [rev EXCEPT ![q.file] = @ + 1]
       /\ putAt' = [putAt EXCEPT ![q.file] = now]
       /\ lease' = IF acked THEN [lease EXCEPT ![q.agent][q.file] = q.expires] ELSE lease
       /\ Return(p)
       /\ UNCHANGED now

(* A conflict: back to the Get, until MaxRetries attempts are used up.     *)
AnnounceConflict(p) ==
    /\ pc[p] = "write"
    /\ ~CASAccepted(req[p])
    /\ IF req[p].tries + 1 < MaxRetries
       THEN req' = [req EXCEPT ![p].tries = @ + 1] /\ Goto(p, "read")
       ELSE Return(p)
    /\ UNCHANGED <<keyVars, lease, now>>

-----------------------------------------------------------------------------
(* Manager.Release.  The agent is an argument: a leaf releases its own     *)
(* holds, and coord.releaseOldHolds those of the agent it reclaims from.   *)

BeginRelease(p, f, a) ==
    /\ pc[p] = "idle" /\ rev[f] < MaxRev
    /\ req' = [req EXCEPT ![p] = Request(f, a)]
    /\ Goto(p, "release")
    /\ UNCHANGED <<keyVars, lease, now>>

(* Mutant: the owner is not compared.                                      *)
AnyLive(q) == Live(q.file)

OwnedBy(q) == Live(q.file) /\ hold[q.file].agent = q.agent

ReleaseRead(p) ==
    /\ pc[p] = "release"
    /\ IF OwnedBy(req[p]) THEN Goto(p, "delete") /\ UNCHANGED req ELSE Return(p)
    /\ UNCHANGED <<keyVars, lease, now>>

(* kv.Delete carries no revision: it removes whatever is there by now.     *)
ReleaseDelete(p) ==
    LET f == req[p].file
    IN /\ pc[p] = "delete"
       /\ hold' = [hold EXCEPT ![f] = Vacant]
       /\ rev' = [rev EXCEPT ![f] = @ + 1]
       /\ lease' = [a \in Agent |-> [lease[a] EXCEPT ![f] = NoLease]]
       /\ Return(p)
       /\ UNCHANGED <<putAt, now>>

-----------------------------------------------------------------------------
(* A lost connection, a timeout or the end of the process.                 *)
Abort(p) ==
    /\ pc[p] # "idle"
    /\ Return(p)
    /\ UNCHANGED <<keyVars, lease, now>>

(* The bucket's TTL: an entry older than HoldTTLMax goes, and with it the  *)
(* sequence an Update in flight names (rev moves on without a write).      *)
Purge(f) ==
    /\ hold[f].agent # NoAgent
    /\ putAt[f] + HoldTTLMax < now
    /\ hold' = [hold EXCEPT ![f] = Vacant]
    /\ rev' = [rev EXCEPT ![f] = @ + 1]
    /\ UNCHANGED <<putAt, callVars, lease, now>>

Tick ==
    /\ now < MaxTime
    /\ now' = now + 1
    /\ UNCHANGED <<keyVars, callVars, lease>>

Step(p) ==
    \/ AnnounceRead(p)
    \/ AnnounceHeld(p)
    \/ \E acked \in BOOLEAN : AnnounceWrite(p, acked)
    \/ AnnounceConflict(p)
    \/ ReleaseRead(p)
    \/ ReleaseDelete(p)

Next ==
    \/ \E p \in Proc, f \in File :
           BeginAnnounce(p, f) \/ \E a \in Agent : BeginRelease(p, f, a)
    \/ \E p \in Proc : Step(p) \/ Abort(p)
    \/ \E f \in File : Purge(f)
    \/ Tick

Spec == Init /\ [][Next]_vars

-----------------------------------------------------------------------------
(* The types of the bucket, the clock and the calls in flight: deadlines   *)
(* and revisions that Announce and Release write are never negative.       *)
TypeOK ==
    /\ hold \in [File -> Hold]
    /\ now \in Nat
    /\ rev \in [File -> Nat]
    /\ putAt \in [File -> Nat]
    /\ pc \in [Proc -> {"idle", "read", "write", "release", "delete"}]
    /\ req \in [Proc -> Req]
    /\ lease \in [Agent -> [File -> Int]]

(* The releases under way: their reads have found their own live hold.     *)
Leaving == {<<req[p].agent, req[p].file>> : p \in {q \in Proc : pc[q] = "delete"}}

Lease == INSTANCE HoldSpec WITH leaving <- Leaving

(* The bucket, its CAS loop, its two-step Release and its TTL implement    *)
(* the lease: taken in one step and only when free, given up early only by *)
(* a release that began while its agent held the file.                     *)
LeaseSpec == Lease!Spec

(* Invariant 6, the client's side: an agent whose Announce has returned    *)
(* stays the holder on file, at least until the deadline it was given,     *)
(* unless a Release has deleted the key since.                             *)
LeaseIsKept ==
    \A a \in Agent, f \in File :
        lease[a][f] >= now =>
            hold[f].agent = a /\ hold[f].expires >= lease[a][f]

(* A renewal never brings a deadline forward: each CAS attempt re-stamps,  *)
(* so a retry that lost to a later renewal does not undo it.               *)
RenewNeverShortens ==
    [][\A f \in File :
          hold'[f].agent = hold[f].agent /\ hold[f].agent # NoAgent
          => hold'[f].expires >= hold[f].expires]_vars

(* The strengthening: what a call in flight may still do is what its read  *)
(* allowed, because the key has not moved or the clock has only advanced.  *)
AttemptFresh(p) ==
    pc[p] = "write" =>
          /\ req[p].expires <= now + TTL
          /\ req[p].rev <= rev[req[p].file]
          /\ req[p].how = "update" /\ req[p].rev = rev[req[p].file] =>
                /\ MayTake(req[p])
                /\ hold[req[p].file].expires <= req[p].expires

Deadlines ==
    \A f \in File :
        /\ putAt[f] <= now
        /\ hold[f].expires <= putAt[f] + TTL

IInv == (\A p \in Proc : AttemptFresh(p)) /\ Deadlines /\ LeaseIsKept

-----------------------------------------------------------------------------
(* What the repository says and the model refutes: Release "removes the    *)
(* hold on file if and only if it is owned by agent".                      *)
ReleaseRemovesOnlyOwn ==
    [][\A p \in Proc :
          pc[p] = "delete" /\ Live(req[p].file) /\ hold'[req[p].file] = Vacant
          => hold[req[p].file].agent = req[p].agent]_vars
=============================================================================
