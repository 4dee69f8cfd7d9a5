------------------------------- MODULE TaskLog -------------------------------
(***************************************************************************)
(* The task store of internal/tasks: a JetStream event log and the KV      *)
(* projection beside it.  Manager.Tx publishes an event FIRST and then     *)
(* runs a bounded CAS loop on the KV record; a crash, a lost acknowledgment *)
(* or a mutator that refuses leaves an event the projection does not show. *)
(* Hub start runs tasks.Recover, which replays what it takes for orphans.  *)
(*                                                                         *)
(* A process is one Go process holding a coord.Coord (a leaf) or running a *)
(* `bones tasks` verb.  Processes interleave at every substrate round trip: *)
(* pre-read, publish, Get, Update.                                         *)
(***************************************************************************)
EXTENDS TaskRecord, FiniteSets

Op == {"create", "claim", "reclaim", "handoff", "cliclaim", "unclaim",
       "close", "legacyclose", "link", "update"}

CONSTANTS Proc,          \* processes
          AgentOf,       \* the agent identity each process runs under
          MaxRetries,    \* jskv.MaxRetries: attempts of one CAS loop
          MaxEvents,     \* bound: events on the log
          MaxRestarts,   \* bound: hub stops
          Calls,         \* the operations the processes of this instance call
          UpdateFlags    \* the flag combinations `tasks update` is called with

ASSUME ProcAssumption == AgentOf \in [Proc -> Agent]
ASSUME BoundAssumption ==
    MaxRetries \in Nat \ {0} /\ MaxEvents \in Nat /\ MaxRestarts \in Nat
ASSUME CallsAssumption == Calls \subseteq Op
ASSUME FlagsAssumption == UpdateFlags \subseteq SUBSET UpdateField

VARIABLES
    kv,        \* the bones-tasks bucket: task -> record
    live,      \* the keys whose last operation is a put
    rev,       \* KV revision of each key
    archive,   \* keys of the archive bucket
    log,       \* the event stream; an event's sequence is its index
    refused,   \* history: the events whose mutator or CAS was refused
    pc, tx,    \* where each process is in its Tx, and with which arguments
    closure,   \* release closures each process still holds (coord.Claim)
    activeEpochs, \* Coord.activeEpochs; 0 = absent
    hub,       \* "serving", "down" or "recovering"
    recov,     \* tasks.Recover's locals, and how earlier recoveries ended
    wins,      \* history: the claims each record has granted
    restarts

txVars == <<pc, tx>>
kvVars == <<kv, live, rev, archive>>
logVars == <<log, refused>>
procVars == <<closure, activeEpochs>>
hubVars == <<hub, recov, restarts>>
vars == <<kvVars, logVars, txVars, procVars, hubVars, wins>>

-----------------------------------------------------------------------------
(* The event type each operation publishes.                                *)
OpEvent(op) ==
    CASE op = "create"  -> "created"
      [] op = "unclaim" -> "unclaimed"
      [] op = "link"    -> "linked"
      [] op = "update"  -> "updated"
      [] op \in {"close", "legacyclose"} -> "closed"
      [] op \in {"claim", "reclaim", "handoff", "cliclaim"} -> "claimed"

(* Ops that run coord's claim path and so return a release closure.        *)
ClaimOp == {"claim", "reclaim", "handoff"}

(* A transaction in flight: its arguments, the event it publishes, the     *)
(* sequence the publish returned, the CAS attempt count, the revision it   *)
(* read and the payload it is about to write.                              *)
TxRec == [op : Op, task : Task, agent : AgentOrNone, epoch : Nat,
          from : AgentOrNone, other : Task \cup {NoTask}, status : Status,
          flags : SUBSET UpdateField, changed : SUBSET UpdateField,
          seq : Nat, tries : Nat, rev : Nat, next : TaskRec]

TxInit ==
    [op |-> "create", task |-> CHOOSE t \in Task : TRUE, agent |-> NoAgent,
     epoch |-> 0, from |-> NoAgent, other |-> NoTask, status |-> "open",
     flags |-> {}, changed |-> {},
     seq |-> 0, tries |-> 0, rev |-> 0, next |-> FreshRecord(0)]

Recov == [idx : Nat \ {0}, seen : [Task -> Int], quiet : BOOLEAN,
          result : {"none", "done", "failed"}, failedAt : Nat]

Unseen == -1

(* Recover has returned, or is not running: its locals are gone.           *)
Returned(result, failedAt) ==
    [idx |-> 1, seen |-> [t \in Task |-> Unseen], quiet |-> TRUE,
     result |-> result, failedAt |-> failedAt]

Win == [proc : Proc, epoch : Nat]

Init ==
    /\ kv = [t \in Task |-> FreshRecord(0)]
    /\ live = {}
    /\ rev = [t \in Task |-> 0]
    /\ archive = {}
    /\ log = <<>>
    /\ refused = {}
    /\ pc = [p \in Proc |-> "idle"]
    /\ tx = [p \in Proc |-> TxInit]
    /\ closure = [p \in Proc |-> {}]
    /\ activeEpochs = [p \in Proc |-> [t \in Task |-> 0]]
    /\ hub = "serving"
    /\ recov = Returned("none", 0)
    /\ wins = [t \in Task |-> {}]
    /\ restarts = 0

-----------------------------------------------------------------------------
(* Callers of Manager.Tx.  Each Begin is the code before the publish: the  *)
(* pre-read, its early returns, and the arguments the Tx is called with.   *)

(* A verb may start only when the hub is discoverable (the registry entry  *)
(* is written after recovery); a transaction already running keeps its     *)
(* connection and goes on whenever NATS is bound.  The last conjunct is    *)
(* only the bound of the instance.                                         *)
CanBegin(p) == pc[p] = "idle" /\ hub = "serving" /\ Len(log) < MaxEvents

NatsUp == hub # "down"

Begin(p, x) ==
    /\ CanBegin(p) /\ x.op \in Calls
    /\ pc' = [pc EXCEPT ![p] = "publish"]
    /\ tx' = [tx EXCEPT ![p] = x]
    /\ UNCHANGED <<kvVars, logVars, hubVars, activeEpochs, wins>>

Args(p, op, t) ==
    [TxInit EXCEPT !.op = op, !.task = t, !.agent = AgentOf[p]]

Known(t) == \E i \in DOMAIN log : log[i].task = t

(* OpenTask, `tasks create`, dispatch: a generated id is never reused.     *)
BeginCreate(p, t) ==
    /\ ~Known(t)
    /\ \A q \in Proc : pc[q] # "idle" => tx[q].task # t
    /\ Begin(p, Args(p, "create", t))
    /\ UNCHANGED closure

(* acquireTaskCAS: the pre-check, and the best-effort epoch of the event.  *)
BeginClaim(p, t) ==
    /\ t \in live
    /\ kv[t].status = "open" /\ kv[t].claimedBy = NoAgent
    /\ Begin(p, [Args(p, "claim", t) EXCEPT !.epoch = kv[t].claimEpoch + 1])
    /\ UNCHANGED closure

(* prepareReclaim; the presence gate is module Coord's.                    *)
BeginReclaim(p, t) ==
    /\ t \in live
    /\ kv[t].status = "claimed" /\ kv[t].claimedBy # AgentOf[p]
    /\ Begin(p, [Args(p, "reclaim", t) EXCEPT !.epoch = kv[t].claimEpoch + 1])
    /\ UNCHANGED closure

(* prepareHandoff: the current claimer must be the named one.              *)
BeginHandoff(p, t) ==
    /\ t \in live
    /\ kv[t].status = "claimed" /\ kv[t].claimedBy # AgentOf[p]
    /\ Begin(p, [Args(p, "handoff", t) EXCEPT !.epoch = kv[t].claimEpoch + 1,
                                              !.from = kv[t].claimedBy])
    /\ UNCHANGED closure

(* TasksClaimCmd: no pre-read, no epoch on the event.                      *)
BeginCliClaim(p, t) ==
    /\ Known(t)
    /\ Begin(p, Args(p, "cliclaim", t))
    /\ UNCHANGED closure

(* The release closure (sync.Once) and Claim's rollback both end in        *)
(* Tx.Unclaim with the same mutator.                                       *)
BeginRelease(p, t) ==
    /\ t \in closure[p]
    /\ Begin(p, Args(p, "unclaim", t))
    /\ closure' = [closure EXCEPT ![p] = @ \ {t}]

(* CloseTask, reached from Leaf.Close with a claim in hand: the epoch is   *)
(* the one activeEpochs holds.                                             *)
BeginClose(p, t) ==
    /\ t \in closure[p]
    /\ Begin(p, [Args(p, "close", t) EXCEPT !.epoch = activeEpochs[p][t]])
    /\ UNCHANGED closure

(* `bones tasks close` without a slot, and dispatch --cancel (no agent).   *)
BeginLegacyClose(p, t, a) ==
    /\ t \in live
    /\ a \in {AgentOf[p], NoAgent}
    /\ Begin(p, [Args(p, "legacyclose", t) EXCEPT !.agent = a])
    /\ UNCHANGED closure

(* coord.Link: both tasks exist and the edge is not there yet.             *)
BeginLink(p, t, o) ==
    /\ t \in live /\ o \in live
    /\ \A i \in DOMAIN kv[t].edges : kv[t].edges[i] # o
    /\ Begin(p, [Args(p, "link", t) EXCEPT !.other = o])
    /\ UNCHANGED closure

(* `bones tasks update` with --status s and/or --claimed-by a: the field   *)
(* changes on the event are the difference between the record pre-read and *)
(* the mutator's preview of it.                                            *)
diffTaskFields(before, after) ==
    {f \in UpdateField : \/ f = "status" /\ before.status # after.status
                         \/ f = "claimed_by" /\ before.claimedBy # after.claimedBy}

BeginUpdate(p, t, flags, s, a) ==
    LET x == [Args(p, "update", t) EXCEPT !.flags = flags, !.status = s, !.from = a]
        after == updateMutator(x, kv[t])
        changed == diffTaskFields(kv[t], after)
    IN /\ t \in live
       /\ "claimed_by" \notin flags => a = NoAgent   \* an absent flag has no value
       /\ changed # {}
       /\ Begin(p, [x EXCEPT !.changed = changed, !.status = after.status])
       /\ UNCHANGED closure

-----------------------------------------------------------------------------
(* Manager.Tx.                                                             *)

EventOf(x) ==
    [type |-> OpEvent(x.op), task |-> x.task,
     agent |-> IF x.op = "update" THEN x.from
               ELSE IF x.op \in {"create", "unclaim", "link"} THEN NoAgent
               ELSE x.agent,
     epoch |-> IF x.op \in ClaimOp THEN x.epoch ELSE 0,
     other |-> x.other, status |-> x.status, fields |-> x.changed]

(* tx.publish: the event is durable before the record is touched.          *)
Publish(p) ==
    /\ pc[p] = "publish" /\ NatsUp /\ Len(log) < MaxEvents
    /\ log' = Append(log, EventOf(tx[p]))
    /\ tx' = [tx EXCEPT ![p].seq = Len(log) + 1]
    /\ pc' = [pc EXCEPT ![p] = "read"]
    /\ UNCHANGED <<kvVars, refused, procVars, hubVars, wins>>

(* What the caller does with the verdict of its Tx: Claim registers the    *)
(* epoch and returns a closure, release and rollback drop the epoch.       *)
Finish(p, ok) ==
    LET x == tx[p]
        epochs == IF x.op \in ClaimOp /\ ok
                  THEN [activeEpochs EXCEPT ![p][x.task] = x.next.claimEpoch]
                  ELSE IF x.op = "unclaim"
                  THEN [activeEpochs EXCEPT ![p][x.task] = 0] ELSE activeEpochs
    IN /\ pc' = [pc EXCEPT ![p] = "idle"]
       /\ tx' = [tx EXCEPT ![p] = TxInit]
       /\ activeEpochs' = epochs
       /\ closure' = IF x.op \in ClaimOp /\ ok
                     THEN [closure EXCEPT ![p] = @ \cup {x.task}] ELSE closure

(* The event is on the log and its caller was told no.                     *)
Refuse(p) == refused' = refused \cup {tx[p].seq}

(* updateAttempt's Get, mutate and validateTransition.                     *)
Readable(x, r) ==
    /\ x.task \in live
    /\ Accepts(x, r)
    /\ validateTransition(r, Stamped(x, r, x.seq))

ReadOK(p) ==
    LET x == tx[p]
        r == kv[x.task]
    IN /\ pc[p] = "read" /\ NatsUp
       /\ x.op # "create"
       /\ Readable(x, r)
       /\ tx' = [tx EXCEPT ![p].rev = rev[x.task], ![p].next = Stamped(x, r, x.seq)]
       /\ pc' = [pc EXCEPT ![p] = "write"]
       /\ UNCHANGED <<kvVars, logVars, procVars, hubVars, wins>>

(* ErrNotFound, a mutator sentinel, or a refused transition: the event is  *)
(* on the log and the record is left alone.                                *)
ReadRefused(p) ==
    LET x == tx[p]
    IN /\ pc[p] = "read" /\ NatsUp
       /\ x.op # "create"
       /\ ~Readable(x, kv[x.task])
       /\ Finish(p, FALSE)
       /\ Refuse(p)
       /\ UNCHANGED <<kvVars, log, hubVars, wins>>

(* A put: the payload becomes the record and the revision advances.        *)
PutRecord(t, r) ==
    /\ kv' = [kv EXCEPT ![t] = r]
    /\ live' = live \cup {t}
    /\ rev' = [rev EXCEPT ![t] = @ + 1]
    /\ UNCHANGED archive

(* Mutant: a put without the revision.                                     *)
BlindWrite(x) == TRUE

RevisionMatches(x) == rev[x.task] = x.rev

Granted(p) ==
    LET x == tx[p]
    IN wins' = IF x.op \in ClaimOp
               THEN [wins EXCEPT ![x.task] =
                        @ \cup {[proc |-> p, epoch |-> x.next.claimEpoch]}]
               ELSE wins

(* kv.Update under the revision read.  acked = FALSE: the server stored    *)
(* the record and the acknowledgment never came back, so the caller sees   *)
(* an error.                                                               *)
Write(p, acked) ==
    LET x == tx[p]
    IN /\ pc[p] = "write" /\ NatsUp
       /\ RevisionMatches(x)
       /\ PutRecord(x.task, x.next)
       /\ Granted(p)
       /\ Finish(p, acked)
       /\ UNCHANGED <<logVars, hubVars>>

(* Mutant: only the revision is read again before the next attempt.        *)
RetryStale(p) ==
    LET x == tx[p]
    IN /\ pc[p] = "write" /\ NatsUp
       /\ ~RevisionMatches(x)
       /\ IF x.tries + 1 < MaxRetries
          THEN /\ tx' = [tx EXCEPT ![p].tries = @ + 1, ![p].rev = rev[x.task]]
               /\ UNCHANGED <<pc, procVars, refused>>
          ELSE Finish(p, FALSE) /\ Refuse(p)
       /\ UNCHANGED <<kvVars, log, hubVars, wins>>

(* A conflict: another attempt, until MaxRetries are used up.              *)
WriteConflict(p) ==
    LET x == tx[p]
    IN /\ pc[p] = "write" /\ NatsUp
       /\ ~RevisionMatches(x)
       /\ IF x.tries + 1 < MaxRetries
          THEN /\ pc' = [pc EXCEPT ![p] = "read"]
               /\ tx' = [tx EXCEPT ![p].tries = @ + 1]
               /\ UNCHANGED <<procVars, refused>>
          ELSE Finish(p, FALSE) /\ Refuse(p)
       /\ UNCHANGED <<kvVars, log, hubVars, wins>>

(* Tx.Create's kv.Create: refused when the key holds a record.             *)
CreateWrite(p) ==
    LET x == tx[p]
    IN /\ pc[p] = "read" /\ NatsUp
       /\ x.op = "create"
       /\ IF x.task \in live
          THEN UNCHANGED kvVars /\ Refuse(p)
          ELSE PutRecord(x.task, FreshRecord(x.seq)) /\ UNCHANGED refused
       /\ Finish(p, TRUE)
       /\ UNCHANGED <<log, hubVars, wins>>

(* A timeout or lost connection ends the call with an error.               *)
Abort(p) ==
    /\ pc[p] # "idle"
    /\ Finish(p, FALSE)
    /\ UNCHANGED <<kvVars, logVars, hubVars, wins>>

(* The process dies: its closures and active epochs go with it.            *)
Crash(p) ==
    /\ pc[p] # "idle" \/ closure[p] # {}
    /\ pc' = [pc EXCEPT ![p] = "idle"]
    /\ tx' = [tx EXCEPT ![p] = TxInit]
    /\ closure' = [closure EXCEPT ![p] = {}]
    /\ activeEpochs' = [activeEpochs EXCEPT ![p] = [t \in Task |-> 0]]
    /\ UNCHANGED <<kvVars, logVars, hubVars, wins>>

-----------------------------------------------------------------------------
(* Leaf.Compact: the compaction stamp is an AdminWrite (no event); with    *)
(* Prune the record is copied to the archive bucket and its key purged.    *)

(* Mutant: records already compacted stay eligible.                        *)
CompactAgain(t) ==
    /\ hub = "serving" /\ t \in live
    /\ kv[t].status = "closed" /\ kv[t].closedAt # 0
    /\ PutRecord(t, [kv[t] EXCEPT !.compactLevel = @ + 1])
    /\ UNCHANGED <<logVars, txVars, procVars, hubVars, wins>>

CompactStamp(t) ==
    /\ hub = "serving" /\ t \in live
    /\ kv[t].status = "closed" /\ kv[t].closedAt # 0 /\ kv[t].compactLevel = 0
    /\ PutRecord(t, [kv[t] EXCEPT !.compactLevel = 1])
    /\ UNCHANGED <<logVars, txVars, procVars, hubVars, wins>>

Prune(t) ==
    /\ hub = "serving" /\ t \in live
    /\ kv[t].compactLevel = 1
    /\ archive' = archive \cup {t}
    /\ live' = live \ {t}
    /\ rev' = [rev EXCEPT ![t] = @ + 1]
    /\ UNCHANGED <<kv, logVars, txVars, procVars, hubVars, wins>>

-----------------------------------------------------------------------------
(* Hub stop and start.  JetStream storage is on disk and survives.         *)

HubStop ==
    /\ hub \in {"serving", "recovering"}
    /\ restarts < MaxRestarts
    /\ hub' = "down"
    /\ restarts' = restarts + 1
    /\ recov' = Returned("none", recov.failedAt)
    /\ UNCHANGED <<kvVars, logVars, txVars, procVars, wins>>

(* tasks.Open with RecoverOnOpen: snapshotTasks, then the drain starts.    *)
StartRecover ==
    /\ hub = "down"
    /\ hub' = "recovering"
    /\ recov' = [idx |-> 1,
                 seen |-> [t \in Task |-> IF t \in live THEN kv[t].lastEventSeq ELSE Unseen],
                 quiet |-> \A p \in Proc : pc[p] = "idle",
                 result |-> "none", failedAt |-> recov.failedAt]
    /\ UNCHANGED <<kvVars, logVars, txVars, procVars, wins, restarts>>

Draining == hub = "recovering" /\ recov.idx <= Len(log)

(* Mutant: the guard is off by one.                                        *)
SkipOneMore(t, seq) == recov.seen[t] # Unseen /\ recov.seen[t] + 1 >= seq

(* The LastEventSeq guard of drainAndReplay, on the projections it has read. *)
AlreadyProjected(t, seq) == recov.seen[t] # Unseen /\ recov.seen[t] >= seq

ReplaySkip ==
    /\ Draining
    /\ AlreadyProjected(log[recov.idx].task, recov.idx)
    /\ recov' = [recov EXCEPT !.idx = @ + 1]
    /\ UNCHANGED <<kvVars, logVars, txVars, procVars, hub, restarts, wins>>

(* After an apply the record is read back into the snapshot.               *)
Replayed(t, r) ==
    recov' = [recov EXCEPT !.idx = @ + 1, !.seen = [@ EXCEPT ![t] = r.lastEventSeq]]

(* applyCreatedEvent: create the record, or leave an existing one alone.   *)
ReplayCreated ==
    LET e == log[recov.idx]
    IN /\ Draining
       /\ e.type = "created"
       /\ ~AlreadyProjected(e.task, recov.idx)
       /\ IF e.task \in live
          THEN UNCHANGED kvVars /\ Replayed(e.task, kv[e.task])
          ELSE /\ PutRecord(e.task, FreshRecord(recov.idx))
               /\ Replayed(e.task, FreshRecord(recov.idx))
       /\ UNCHANGED <<logVars, txVars, procVars, hub, restarts, wins>>

Replayable(e, seq) ==
    e.task \in live /\ validateTransition(kv[e.task], applyEvent(e, seq, kv[e.task]))

(* Every other event goes through AdminWrite.Update: the same validation.  *)
ReplayApply ==
    LET e == log[recov.idx]
        r == applyEvent(e, recov.idx, kv[e.task])
    IN /\ Draining
       /\ e.type # "created"
       /\ ~AlreadyProjected(e.task, recov.idx)
       /\ Replayable(e, recov.idx)
       /\ PutRecord(e.task, r)
       /\ Replayed(e.task, r)
       /\ UNCHANGED <<logVars, txVars, procVars, hub, restarts, wins>>

(* Mutant: a failed recovery fails hub start.                              *)
ReplayFatal ==
    /\ Draining
    /\ log[recov.idx].type # "created"
    /\ ~AlreadyProjected(log[recov.idx].task, recov.idx)
    /\ ~Replayable(log[recov.idx], recov.idx)
    /\ recov' = Returned("failed", recov.idx)
    /\ hub' = "down"
    /\ UNCHANGED <<kvVars, logVars, txVars, procVars, restarts, wins>>

(* One event that cannot be applied ends the whole drain; the hub logs it  *)
(* and serves.                                                             *)
ReplayFail ==
    LET e == log[recov.idx]
    IN /\ Draining
       /\ e.type # "created"
       /\ ~AlreadyProjected(e.task, recov.idx)
       /\ ~Replayable(e, recov.idx)
       /\ recov' = Returned("failed", recov.idx)
       /\ hub' = "serving"
       /\ UNCHANGED <<kvVars, logVars, txVars, procVars, restarts, wins>>

(* The drain ends with success at the first Fetch that brings nothing      *)
(* within its 250 ms, at the end of the log or before it.                  *)
RecoverDone ==
    /\ hub = "recovering"
    /\ recov' = Returned("done", 0)
    /\ hub' = "serving"
    /\ UNCHANGED <<kvVars, logVars, txVars, procVars, restarts, wins>>

(* The dial fails, or the five seconds the whole recovery is given run out  *)
(* before the drain ends: logged, and the hub serves.                      *)
RecoverSkipped ==
    /\ hub = "recovering"
    /\ recov' = Returned("none", recov.failedAt)
    /\ hub' = "serving"
    /\ UNCHANGED <<kvVars, logVars, txVars, procVars, restarts, wins>>

-----------------------------------------------------------------------------
Call(p) ==
    \E t \in Task :
        \/ BeginCreate(p, t)
        \/ BeginClaim(p, t)
        \/ BeginReclaim(p, t)
        \/ BeginHandoff(p, t)
        \/ BeginCliClaim(p, t)
        \/ BeginRelease(p, t)
        \/ BeginClose(p, t)
        \/ \E a \in {AgentOf[p], NoAgent} : BeginLegacyClose(p, t, a)
        \/ \E o \in Task : BeginLink(p, t, o)
        \/ \E f \in UpdateFlags, s \in Status, a \in AgentOrNone :
               BeginUpdate(p, t, f, s, a)

TxStep(p) ==
    \/ Publish(p)
    \/ ReadOK(p)
    \/ ReadRefused(p)
    \/ \E acked \in BOOLEAN : Write(p, acked)
    \/ WriteConflict(p)
    \/ CreateWrite(p)

Recover == ReplaySkip \/ ReplayCreated \/ ReplayApply \/ ReplayFail \/ RecoverDone

Next ==
    \/ \E p \in Proc : Call(p) \/ TxStep(p) \/ Abort(p) \/ Crash(p)
    \/ \E t \in Task : CompactStamp(t) \/ Prune(t)
    \/ HubStop
    \/ StartRecover
    \/ Recover
    \/ RecoverSkipped

Spec == Init /\ [][Next]_vars

(* `bones up` restarts a stopped hub, and the drain is a straight loop.    *)
FairSpec == Spec /\ WF_vars(StartRecover) /\ WF_vars(Recover)

-----------------------------------------------------------------------------
(* The types of the stores, the calls in flight and the recovery: what     *)
(* Tx, the CAS loop, compaction and Recover write is always a record,      *)
(* an event or a count of the right kind.                                  *)
TypeOK ==
    /\ kv \in [Task -> TaskRec]
    /\ live \subseteq Task
    /\ rev \in [Task -> Nat]
    /\ archive \subseteq Task
    /\ log \in Seq(Event)
    /\ refused \subseteq Nat
    /\ pc \in [Proc -> {"idle", "publish", "read", "write"}]
    /\ tx \in [Proc -> TxRec]
    /\ closure \in [Proc -> SUBSET Task]
    /\ activeEpochs \in [Proc -> [Task -> Nat]]
    /\ hub \in {"serving", "down", "recovering"}
    /\ recov \in Recov
    /\ wins \in [Task -> SUBSET Win]
    /\ restarts \in Nat

(* What an event says of the record it was the last to touch.              *)
Explains(e, r) ==
    /\ e.type \in {"created", "unclaimed"} => r.status = "open"
    /\ e.type = "claimed" => r.status = "claimed" /\ r.claimedBy = e.agent
    /\ e.type = "closed" => r.status = "closed"

(* Every record the bucket holds is explained by the event its             *)
(* LastEventSeq names, whatever the interleaving of publishes and CASes,   *)
(* whatever crashed, and whatever recovery replayed.                       *)
ProjectionMatchesStamp ==
    \A t \in live :
        /\ kv[t].lastEventSeq \in DOMAIN log
        /\ log[kv[t].lastEventSeq].task = t
        /\ Explains(log[kv[t].lastEventSeq], kv[t])
        /\ checkInvariant11(kv[t])

(* Invariant 13: closed is terminal.  No CAS in flight, no recovery and no *)
(* operator verb changes a closed record except for compaction's fields.   *)
ClosedIsFinal ==
    [][\A t \in live \cap live' :
          kv[t].status = "closed" => eqNonCompaction(kv[t], kv'[t])]_vars

(* The fence never moves back while the record lives: recovery replays     *)
(* claimed events that carry a guessed epoch, or none.                     *)
EpochNeverDecreases ==
    [][\A t \in live \cap live' : kv'[t].claimEpoch >= kv[t].claimEpoch]_vars

(* Invariant 24: no two granted claims of a task share an epoch.  A pruned *)
(* task is excepted: recovery re-creates its record with a fresh epoch.    *)
ClaimEpochsUnique ==
    \A t \in Task \ archive : \A v, w \in wins[t] : v.epoch = w.epoch => v = w

(* The claim fence of CloseTask: a process whose claim has been superseded *)
(* by a later one never lands its close, however long its CAS was delayed. *)
SupersededNeverCloses ==
    [][\A p \in Proc :
          /\ pc[p] = "write" /\ tx[p].op = "close"
          /\ kv[tx[p].task].status # "closed" /\ kv'[tx[p].task].status = "closed"
          /\ pc'[p] = "idle" /\ tx[p].task \notin archive
          => \A w \in wins[tx[p].task] :
                /\ w.epoch <= tx[p].epoch
                /\ w.epoch = tx[p].epoch => w.proc = p]_vars

(* The CAS loop's promise: a write the server will accept is a legal       *)
(* successor of the record as it stands now, not only of the one read; its *)
(* epoch is no older, and a claim's is the next one.                       *)
CASFresh ==
    \A p \in Proc : pc[p] = "write" =>
        /\ tx[p].rev <= rev[tx[p].task]
        /\ tx[p].rev = rev[tx[p].task] =>
              /\ tx[p].task \in live
              /\ legalTransition(kv[tx[p].task], tx[p].next)
              /\ tx[p].next.claimEpoch >= kv[tx[p].task].claimEpoch
              /\ tx[p].op \in ClaimOp =>
                    tx[p].next.claimEpoch = kv[tx[p].task].claimEpoch + 1

(* The strengthening that makes the invariants above inductive: a          *)
(* transaction past its publish owns the event its seq names, what it will *)
(* write is explained by that event, and no grant is ahead of its record.  *)
InFlight ==
    \A p \in Proc :
        /\ pc[p] \in {"read", "write"} =>
              tx[p].seq \in DOMAIN log /\ log[tx[p].seq] = EventOf(tx[p])
        /\ pc[p] = "write" =>
              /\ tx[p].op # "create"
              /\ tx[p].next.lastEventSeq = tx[p].seq
              /\ Explains(EventOf(tx[p]), tx[p].next)
              /\ checkInvariant11(tx[p].next)

GrantsBelow ==
    \A t \in Task \ archive :
        /\ t \notin live => wins[t] = {}
        /\ \A w \in wins[t] : w.epoch <= kv[t].claimEpoch

IInv ==
    /\ ProjectionMatchesStamp
    /\ ClaimEpochsUnique
    /\ CASFresh
    /\ InFlight
    /\ GrantsBelow

(* A recovery that reports success with no transaction in flight leaves    *)
(* nothing behind of what the stream delivered: for each event before the  *)
(* empty Fetch there is a record, stamped at or past it, whatever Creates, *)
(* claims and closes had been cut off (drainAndReplay).                    *)
RecoverCatchesUp ==
    [][hub = "recovering" /\ recov.quiet /\ recov'.result = "done"
       => \A i \in DOMAIN log : i < recov.idx =>
             log[i].task \in live /\ kv[log[i].task].lastEventSeq >= i]_vars

(* A recovery, failed or not, never keeps the hub from coming up.          *)
HubComesUp == (hub # "serving") ~> (hub = "serving")

-----------------------------------------------------------------------------
(* What the repository says and the model refutes.                         *)

(* "Recovery's LastEventSeq guard prevents replay from clobbering a later  *)
(* projection": replaying the event of a refused transaction, with nothing *)
(* in flight, never changes who holds the task.                            *)
ReplayNeverClobbersClaim ==
    [][hub = "recovering" /\ recov.quiet /\ recov'.idx = recov.idx + 1
          /\ recov.idx \in refused
       => \A t \in live : kv'[t].claimedBy = kv[t].claimedBy]_vars

(* "The orphan events remain on the stream and the next bones-up will      *)
(* retry": the retry does not end on the event the last one ended on.      *)
RetryGetsFurther ==
    [][hub = "recovering" /\ recov.quiet /\ recov'.result = "failed"
       => recov'.failedAt # recov.failedAt]_vars

(* "Recovery is idempotent: repeated calls on a stable substrate replay no *)
(* events": with nothing in flight, a success leaves nothing to replay.    *)
RecoverSeesAll ==
    [][hub = "recovering" /\ recov.quiet /\ recov'.result = "done"
       => \A i \in DOMAIN log :
             log[i].task \in live /\ kv[log[i].task].lastEventSeq >= i]_vars

(* Invariant 25: Link is idempotent on (from, to, type), and "concurrent   *)
(* Link calls converge without caller involvement".                        *)
NoDuplicateEdges ==
    \A t \in live : \A i, j \in DOMAIN kv[t].edges :
        kv[t].edges[i] = kv[t].edges[j] => i = j
=============================================================================
