----------------------------- MODULE TaskRecord -----------------------------
(***************************************************************************)
(* The task record of internal/tasks and everything that is computed from  *)
(* one record alone: the write-time validation every CAS runs, the mutator *)
(* closures internal/coord and the `bones tasks` verbs hand to Manager.Tx, *)
(* and the per-event projections recovery replays.                         *)
(*                                                                         *)
(* Data is abstracted to what the properties tell apart.  Title, files,    *)
(* context and timestamps are left out; closedAt is the stream sequence of *)
(* the closing event, which is as distinct per transaction as the clock    *)
(* reading the code takes; an edge is its target (one edge type).          *)
(***************************************************************************)
EXTENDS Integers, Sequences

CONSTANTS Agent,    \* agent identities (coord.Config.AgentID, workspace agent)
          NoAgent,  \* the empty claimed_by / closed_by string
          Task,     \* task identifiers
          NoTask    \* an event that names no second task

ASSUME NoAgentAssumption == NoAgent \notin Agent
ASSUME NoTaskAssumption == NoTask \notin Task
ASSUME TaskAssumption == Task # {}

AgentOrNone == Agent \cup {NoAgent}

Status == {"open", "claimed", "closed"}

TaskRec == [status : Status, claimedBy : AgentOrNone, claimEpoch : Nat,
            edges : Seq(Task), closedBy : AgentOrNone, closedAt : Nat,
            compactLevel : {0, 1}, lastEventSeq : Nat]

(* The record Tx.Create writes: open, unclaimed, stamped with its event.   *)
FreshRecord(seq) ==
    [status |-> "open", claimedBy |-> NoAgent, claimEpoch |-> 0,
     edges |-> <<>>, closedBy |-> NoAgent, closedAt |-> 0,
     compactLevel |-> 0, lastEventSeq |-> seq]

-----------------------------------------------------------------------------
(* Write-time validation: tasks.validateTransition and its parts.          *)

checkInvariant11(r) == (r.status = "claimed") <=> (r.claimedBy # NoAgent)

eqNonCompaction(r, s) ==
    /\ r.status = s.status
    /\ r.claimedBy = s.claimedBy
    /\ r.claimEpoch = s.claimEpoch
    /\ r.edges = s.edges
    /\ r.closedBy = s.closedBy
    /\ r.closedAt = s.closedAt

(* Mutant: the closed case falls through to the same-status case.          *)
ReopenableTransition(cur, next) ==
    \/ cur.status = next.status
    \/ cur.status = "open" /\ next.status \in {"claimed", "closed"}
    \/ cur.status = "claimed" /\ next.status \in {"open", "closed"}

legalTransition(cur, next) ==
    \/ cur.status = "closed" /\ next.status = "closed" /\ eqNonCompaction(cur, next)
    \/ cur.status # "closed" /\ cur.status = next.status
    \/ cur.status = "open" /\ next.status \in {"claimed", "closed"}
    \/ cur.status = "claimed" /\ next.status \in {"open", "closed"}

validateTransition(cur, next) ==
    /\ next.status \in Status
    /\ checkInvariant11(next)
    /\ legalTransition(cur, next)

-----------------------------------------------------------------------------
(* Mutators.  x is the transaction's argument record: op (which mutator),  *)
(* agent (the caller), epoch (the epoch the caller is fenced by), from     *)
(* (handoff's fromAgent, update's --claimed-by), other (link target) and,  *)
(* for `bones tasks update`, flags (which of --status and --claimed-by are *)
(* given) and status (the value of --status).  Accepts is the mutator      *)
(* returning no error; Mutate is the record it then returns, before Tx     *)
(* stamps lastEventSeq.                                                    *)

claimMutatorOK(x, r) == r.status = "open" /\ r.claimedBy = NoAgent

reclaimMutatorOK(x, r) == r.status = "claimed" /\ r.claimedBy # x.agent

handoffMutatorOK(x, r) == reclaimMutatorOK(x, r) /\ r.claimedBy = x.from

cliClaimMutatorOK(x, r) ==
    \/ r.status = "open"
    \/ r.status = "claimed" /\ r.claimedBy = x.agent

unclaimMutatorOK(x, r) == r.status = "claimed" /\ r.claimedBy = x.agent

(* Mutant: neither the claimer nor the epoch is checked.                   *)
UnfencedClose(x, r) == r.status # "closed"

closeMutatorOK(x, r) ==
    /\ r.status # "closed"
    /\ r.claimedBy = x.agent
    /\ r.claimEpoch = x.epoch

Accepts(x, r) ==
    CASE x.op = "claim"    -> claimMutatorOK(x, r)
      [] x.op = "reclaim"  -> reclaimMutatorOK(x, r)
      [] x.op = "handoff"  -> handoffMutatorOK(x, r)
      [] x.op = "cliclaim" -> cliClaimMutatorOK(x, r)
      [] x.op = "unclaim"  -> unclaimMutatorOK(x, r)
      [] x.op = "close"    -> closeMutatorOK(x, r)
      [] OTHER             -> TRUE

(* claimMutator, reclaimMutator and handoffMutator all bump the epoch.     *)
Claimed(x, r) ==
    [r EXCEPT !.status = "claimed", !.claimedBy = x.agent, !.claimEpoch = @ + 1]

(* TasksClaimCmd's mutator does not touch claim_epoch.                     *)
CliClaimed(x, r) == [r EXCEPT !.status = "claimed", !.claimedBy = x.agent]

Unclaimed(r) == [r EXCEPT !.status = "open", !.claimedBy = NoAgent]

applyClose(x, r, seq) ==
    [r EXCEPT !.status = "closed", !.claimedBy = NoAgent,
              !.closedBy = x.agent, !.closedAt = seq]

(* legacyClose and dispatch --cancel (x.agent = NoAgent): the claimer is   *)
(* credited when there is one.                                             *)
legacyClose(x, r, seq) ==
    [r EXCEPT !.status = "closed", !.claimedBy = NoAgent, !.closedAt = seq,
              !.closedBy = IF r.claimedBy # NoAgent THEN r.claimedBy
                           ELSE IF x.agent # NoAgent THEN x.agent ELSE @]

(* buildUpdateMutator: --claimed-by without --status infers the status     *)
(* from invariant 11.                                                      *)
inferredStatus(x, r) ==
    IF "status" \in x.flags THEN x.status
    ELSE IF "claimed_by" \notin x.flags THEN r.status
    ELSE IF x.from # NoAgent THEN "claimed"
    ELSE IF r.status = "claimed" THEN "open" ELSE r.status

updateMutator(x, r) ==
    [r EXCEPT !.status = inferredStatus(x, r),
              !.claimedBy = IF "claimed_by" \in x.flags THEN x.from ELSE @]

Mutate(x, r, seq) ==
    CASE x.op \in {"claim", "reclaim", "handoff"} -> Claimed(x, r)
      [] x.op = "cliclaim"    -> CliClaimed(x, r)
      [] x.op = "unclaim"     -> Unclaimed(r)
      [] x.op = "close"       -> applyClose(x, r, seq)
      [] x.op = "legacyclose" -> legacyClose(x, r, seq)
      [] x.op = "update"      -> updateMutator(x, r)
      [] x.op = "link"        -> [r EXCEPT !.edges = Append(@, x.other)]
      [] OTHER                -> r

(* Mutant: the wrapper forgets the stamp.                                  *)
Unstamped(x, r, seq) == Mutate(x, r, seq)

(* The wrapped mutator Tx runs inside the CAS loop: the caller's mutator,  *)
(* then the LastEventSeq stamp.                                            *)
Stamped(x, r, seq) == [Mutate(x, r, seq) EXCEPT !.lastEventSeq = seq]

-----------------------------------------------------------------------------
(* Events of the JetStream log and their replay (recovery.go).             *)

UpdateField == {"status", "claimed_by"}

EventType == {"created", "claimed", "unclaimed", "updated", "linked", "closed"}

Event == [type : EventType, task : Task, agent : AgentOrNone, epoch : Nat,
          other : Task \cup {NoTask}, status : Status,
          fields : SUBSET UpdateField]

(* Mutant: the replayed epoch is taken as it stands.                       *)
EpochFromEvent(e, seq, r) ==
    [r EXCEPT !.status = "claimed", !.claimedBy = e.agent,
              !.claimEpoch = e.epoch, !.lastEventSeq = seq]

applyClaimedEvent(e, seq, r) ==
    [r EXCEPT !.status = "claimed", !.claimedBy = e.agent,
              !.claimEpoch = IF e.epoch > @ THEN e.epoch ELSE @,
              !.lastEventSeq = seq]

applyUnclaimedEvent(e, seq, r) == [Unclaimed(r) EXCEPT !.lastEventSeq = seq]

applyLinkedEvent(e, seq, r) ==
    [r EXCEPT !.lastEventSeq = seq,
              !.edges = IF \E i \in DOMAIN @ : @[i] = e.other
                        THEN @ ELSE Append(@, e.other)]

applyUpdatedEvent(e, seq, r) ==
    [r EXCEPT !.lastEventSeq = seq,
              !.status = IF "status" \in e.fields THEN e.status ELSE @,
              !.claimedBy = IF "claimed_by" \in e.fields THEN e.agent ELSE @]

applyClosedEvent(e, seq, r) ==
    IF r.status = "closed" THEN [r EXCEPT !.lastEventSeq = seq]
    ELSE [r EXCEPT !.status = "closed", !.claimedBy = NoAgent, !.closedAt = seq,
                   !.closedBy = IF e.agent # NoAgent THEN e.agent ELSE r.claimedBy,
                   !.lastEventSeq = seq]

(* applyEvent's dispatch for the events that update an existing record.    *)
applyEvent(e, seq, r) ==
    CASE e.type = "claimed"   -> applyClaimedEvent(e, seq, r)
      [] e.type = "unclaimed" -> applyUnclaimedEvent(e, seq, r)
      [] e.type = "linked"    -> applyLinkedEvent(e, seq, r)
      [] e.type = "updated"   -> applyUpdatedEvent(e, seq, r)
      [] e.type = "closed"    -> applyClosedEvent(e, seq, r)
      [] OTHER                -> r

=============================================================================
