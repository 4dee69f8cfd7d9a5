---------------------------- MODULE TaskLog_proofs ----------------------------
(***************************************************************************)
(* TLAPS proofs about TaskLog, for every set of processes, agents and      *)
(* tasks and every bound: type correctness, the safety properties that     *)
(* rest on the revision check of the CAS loop, the fence of Close, and what *)
(* a recovery that reports success has caught up with.                     *)
(***************************************************************************)
EXTENDS TaskLog, TLAPS

USE DEF AgentOrNone, UpdateField

-----------------------------------------------------------------------------
(* What the operators on one record return.                                *)

(* The record Tx.Create and applyCreatedEvent write is a record.           *)
LEMMA FreshRecordType == \A seq \in Nat : FreshRecord(seq) \in TaskRec
  BY DEF FreshRecord, TaskRec, Status

(* Every mutator returns a record.                                         *)
LEMMA MutateType ==
    ASSUME NEW x \in TxRec, NEW r \in TaskRec, NEW seq \in Nat, x.op = "link" => x.other \in Task
    PROVE  Mutate(x, r, seq) \in TaskRec
<1>1. CASE x.op \in {"claim", "reclaim", "handoff"}
  <2>1. Mutate(x, r, seq) = Claimed(x, r)
    BY <1>1 DEF Mutate
  <2>2. r.claimEpoch + 1 \in Nat /\ x.agent \in AgentOrNone
    BY DEF TaskRec, TxRec
  <2>3. Claimed(x, r) \in TaskRec
    BY <2>2 DEF Claimed, TaskRec, Status
  <2>4. QED
    BY <2>1, <2>3
<1>2. CASE x.op = "cliclaim"
  BY <1>2 DEF Mutate, CliClaimed, TaskRec, Status, TxRec
<1>3. CASE x.op = "unclaim"
  BY <1>3 DEF Mutate, Unclaimed, TaskRec, Status, TxRec
<1>4. CASE x.op = "close"
  BY <1>4 DEF Mutate, applyClose, TaskRec, Status, TxRec
<1>5. CASE x.op = "legacyclose"
  BY <1>5 DEF Mutate, legacyClose, TaskRec, Status, TxRec
<1>6. CASE x.op = "update"
  BY <1>6 DEF Mutate, updateMutator, inferredStatus, TaskRec, Status, TxRec
<1>7. CASE x.op = "link"
  <2>1. Append(r.edges, x.other) \in Seq(Task)
    BY <1>7 DEF TaskRec
  <2>2. QED
    BY <1>7, <2>1 DEF Mutate, TaskRec, Status, TxRec
<1>8. CASE x.op = "create"
  BY <1>8 DEF Mutate
<1>9. QED
  BY <1>1, <1>2, <1>3, <1>4, <1>5, <1>6, <1>7, <1>8 DEF TxRec, Op

(* The wrapped mutator keeps the type and sets the stamp.                  *)
LEMMA StampedType ==
    ASSUME NEW x \in TxRec, NEW r \in TaskRec, NEW seq \in Nat, x.op = "link" => x.other \in Task
    PROVE  /\ Stamped(x, r, seq) \in TaskRec
           /\ Stamped(x, r, seq).lastEventSeq = seq
  BY MutateType DEF Stamped, TaskRec

(* Every replayed projection is a record stamped with the event.           *)
LEMMA ApplyEventType ==
    ASSUME NEW e \in Event, NEW r \in TaskRec, NEW seq \in Nat,
           e.type # "created", e.type = "linked" => e.other \in Task
    PROVE  /\ applyEvent(e, seq, r) \in TaskRec
           /\ applyEvent(e, seq, r).lastEventSeq = seq
<1>1. CASE e.type = "claimed"
  BY <1>1 DEF applyEvent, applyClaimedEvent, TaskRec, Status, Event
<1>2. CASE e.type = "unclaimed"
  BY <1>2 DEF applyEvent, applyUnclaimedEvent, Unclaimed, TaskRec, Status, Event
<1>3. CASE e.type = "linked"
  <2>1. Append(r.edges, e.other) \in Seq(Task)
    BY <1>3 DEF TaskRec
  <2>2. QED
    BY <1>3, <2>1 DEF applyEvent, applyLinkedEvent, TaskRec, Status, Event
<1>4. CASE e.type = "updated"
  BY <1>4 DEF applyEvent, applyUpdatedEvent, TaskRec, Status, Event
<1>5. CASE e.type = "closed"
  BY <1>5 DEF applyEvent, applyClosedEvent, TaskRec, Status, Event
<1>6. QED
  BY <1>1, <1>2, <1>3, <1>4, <1>5 DEF Event, EventType

(* The event of a transaction is an event.                                 *)
LEMMA EventOfType == ASSUME NEW x \in TxRec PROVE EventOf(x) \in Event
<1>1. OpEvent(x.op) \in EventType
  BY DEF OpEvent, EventType, TxRec, Op
<1>2. QED
  BY <1>1 DEF EventOf, Event, TxRec

(* The arguments an idle process holds are a transaction.                  *)
LEMMA TxInitType == TxInit \in TxRec
<1>1. (CHOOSE t \in Task : TRUE) \in Task
  BY TaskAssumption
<1>2. QED
  BY <1>1, FreshRecordType DEF TxInit, TxRec, Op, Status

-----------------------------------------------------------------------------
(* Type correctness.                                                       *)

LinkTyped ==
    /\ \A p \in Proc : tx[p].op = "link" => tx[p].other \in Task
    /\ \A i \in DOMAIN log : log[i].type = "linked" => log[i].other \in Task

Typed == TypeOK /\ LinkTyped

(* The empty store is typed.                                               *)
LEMMA InitTyped == Init => Typed
<1> SUFFICES ASSUME Init PROVE Typed
  OBVIOUS
<1>1. kv \in [Task -> TaskRec]
  BY FreshRecordType DEF Init
<1>2. tx \in [Proc -> TxRec] /\ \A p \in Proc : tx[p].op = "create"
  BY TxInitType DEF Init, TxInit
<1>3. recov \in Recov
  BY DEF Init, Returned, Recov, Unseen
<1>4. log \in Seq(Event) /\ DOMAIN log = {}
  BY DEF Init
<1>5. QED
  BY <1>1, <1>2, <1>3, <1>4 DEF Init, Typed, TypeOK, LinkTyped

(* Handing a typed transaction to Tx.                                      *)
LEMMA BeginTyped ==
    ASSUME Typed, NEW p \in Proc, NEW x \in TxRec, Begin(p, x),
           x.op = "link" => x.other \in Task,
           closure' \in [Proc -> SUBSET Task]
    PROVE  Typed'
<1>1. tx' \in [Proc -> TxRec] /\ pc' \in [Proc -> {"idle", "publish", "read", "write"}]
  BY DEF Typed, TypeOK, Begin
<1>2. \A q \in Proc : tx'[q].op = "link" => tx'[q].other \in Task
  BY DEF Typed, TypeOK, LinkTyped, Begin
<1>3. QED
  BY <1>1, <1>2 DEF Typed, TypeOK, LinkTyped, Begin, kvVars, logVars, hubVars

(* The arguments a verb starts from are a transaction of that verb.        *)
LEMMA ArgsType ==
    ASSUME NEW p \in Proc, NEW op \in Op, NEW t \in Task
    PROVE  Args(p, op, t) \in TxRec /\ Args(p, op, t).op = op
<1>1. AgentOf[p] \in AgentOrNone
  BY ProcAssumption
<1>2. QED
  BY <1>1, TxInitType DEF Args, TxRec

(* Every caller of Manager.Tx hands it a typed transaction.                *)
LEMMA CallTyped ==
    ASSUME Typed, NEW p \in Proc, Call(p) PROVE Typed'
<1>1. PICK t \in Task :
        \/ BeginCreate(p, t)
        \/ BeginClaim(p, t)
        \/ BeginReclaim(p, t)
        \/ BeginHandoff(p, t)
        \/ BeginCliClaim(p, t)
        \/ BeginRelease(p, t)
        \/ BeginClose(p, t)
        \/ \E a \in {AgentOf[p], NoAgent} : BeginLegacyClose(p, t, a)
        \/ \E o \in Task : BeginLink(p, t, o)
        \/ \E f \in UpdateFlags, s \in Status, a \in AgentOrNone :
               BeginUpdate(p, t, f, s, a)
  BY DEF Call
<1>k. kv[t] \in TaskRec /\ kv[t].claimEpoch + 1 \in Nat /\ kv[t].claimedBy \in AgentOrNone
  <2>1. kv[t] \in TaskRec
    BY DEF Typed, TypeOK
  <2>2. QED
    BY <2>1 DEF TaskRec
<1>c. closure \in [Proc -> SUBSET Task]
  BY DEF Typed, TypeOK
<1>2. CASE BeginCreate(p, t)
  <2>1. Args(p, "create", t) \in TxRec /\ Args(p, "create", t).op = "create"
    BY ArgsType DEF Op
  <2>2. QED
    BY <1>2, <1>c, <2>1, BeginTyped DEF BeginCreate
<1>3. CASE BeginClaim(p, t)
  <2> DEFINE x == [Args(p, "claim", t) EXCEPT !.epoch = kv[t].claimEpoch + 1]
  <2>1. Args(p, "claim", t) \in TxRec /\ Args(p, "claim", t).op = "claim"
    BY ArgsType DEF Op
  <2>2. x \in TxRec /\ x.op = "claim"
    BY <1>k, <2>1 DEF TxRec
  <2>3. Begin(p, x) /\ closure' = closure
    BY <1>3 DEF BeginClaim
  <2> HIDE DEF x
  <2>4. QED
    BY <1>c, <2>2, <2>3, BeginTyped
<1>4. CASE BeginReclaim(p, t)
  <2> DEFINE x == [Args(p, "reclaim", t) EXCEPT !.epoch = kv[t].claimEpoch + 1]
  <2>1. Args(p, "reclaim", t) \in TxRec /\ Args(p, "reclaim", t).op = "reclaim"
    BY ArgsType DEF Op
  <2>2. x \in TxRec /\ x.op = "reclaim"
    BY <1>k, <2>1 DEF TxRec
  <2>3. Begin(p, x) /\ closure' = closure
    BY <1>4 DEF BeginReclaim
  <2> HIDE DEF x
  <2>4. QED
    BY <1>c, <2>2, <2>3, BeginTyped
<1>5. CASE BeginHandoff(p, t)
  <2> DEFINE x == [Args(p, "handoff", t) EXCEPT !.epoch = kv[t].claimEpoch + 1,
                                                !.from = kv[t].claimedBy]
  <2>1. Args(p, "handoff", t) \in TxRec /\ Args(p, "handoff", t).op = "handoff"
    BY ArgsType DEF Op
  <2>2. x \in TxRec /\ x.op = "handoff"
    BY <1>k, <2>1 DEF TxRec
  <2>3. Begin(p, x) /\ closure' = closure
    BY <1>5 DEF BeginHandoff
  <2> HIDE DEF x
  <2>4. QED
    BY <1>c, <2>2, <2>3, BeginTyped
<1>6. CASE BeginCliClaim(p, t)
  <2>1. Args(p, "cliclaim", t) \in TxRec /\ Args(p, "cliclaim", t).op = "cliclaim"
    BY ArgsType DEF Op
  <2>2. QED
    BY <1>6, <1>c, <2>1, BeginTyped DEF BeginCliClaim
<1>7. CASE BeginRelease(p, t)
  <2>1. Args(p, "unclaim", t) \in TxRec /\ Args(p, "unclaim", t).op = "unclaim"
    BY ArgsType DEF Op
  <2>2. closure' \in [Proc -> SUBSET Task]
    BY <1>7, <1>c DEF BeginRelease
  <2>3. QED
    BY <1>7, <2>1, <2>2, BeginTyped DEF BeginRelease
<1>8. CASE BeginClose(p, t)
  <2> DEFINE x == [Args(p, "close", t) EXCEPT !.epoch = activeEpochs[p][t]]
  <2>1. Args(p, "close", t) \in TxRec /\ Args(p, "close", t).op = "close"
    BY ArgsType DEF Op
  <2>2. activeEpochs[p][t] \in Nat
    BY DEF Typed, TypeOK
  <2>3. x \in TxRec /\ x.op = "close"
    BY <2>1, <2>2 DEF TxRec
  <2>4. Begin(p, x) /\ closure' = closure
    BY <1>8 DEF BeginClose
  <2> HIDE DEF x
  <2>5. QED
    BY <1>c, <2>3, <2>4, BeginTyped
<1>9. ASSUME NEW a \in {AgentOf[p], NoAgent}, BeginLegacyClose(p, t, a) PROVE Typed'
  <2> DEFINE x == [Args(p, "legacyclose", t) EXCEPT !.agent = a]
  <2>1. Args(p, "legacyclose", t) \in TxRec /\ Args(p, "legacyclose", t).op = "legacyclose"
    BY ArgsType DEF Op
  <2>2. a \in AgentOrNone
    BY ProcAssumption
  <2>3. x \in TxRec /\ x.op = "legacyclose"
    BY <2>1, <2>2 DEF TxRec
  <2>4. Begin(p, x) /\ closure' = closure
    BY <1>9 DEF BeginLegacyClose
  <2> HIDE DEF x
  <2>5. QED
    BY <1>c, <2>3, <2>4, BeginTyped
<1>10. ASSUME NEW o \in Task, BeginLink(p, t, o) PROVE Typed'
  <2> DEFINE x == [Args(p, "link", t) EXCEPT !.other = o]
  <2>1. Args(p, "link", t) \in TxRec /\ Args(p, "link", t).op = "link"
    BY ArgsType DEF Op
  <2>2. x \in TxRec /\ x.other \in Task
    BY <2>1 DEF TxRec
  <2>3. Begin(p, x) /\ closure' = closure
    BY <1>10 DEF BeginLink
  <2> HIDE DEF x
  <2>4. QED
    BY <1>c, <2>2, <2>3, BeginTyped
<1>11. ASSUME NEW f \in UpdateFlags, NEW s \in Status, NEW a \in AgentOrNone,
              BeginUpdate(p, t, f, s, a)
       PROVE Typed'
  <2> DEFINE x == [Args(p, "update", t) EXCEPT !.flags = f, !.status = s, !.from = a]
             after == updateMutator(x, kv[t])
             changed == diffTaskFields(kv[t], after)
             y == [x EXCEPT !.changed = changed, !.status = after.status]
  <2>1. Args(p, "update", t) \in TxRec /\ Args(p, "update", t).op = "update"
    BY ArgsType DEF Op
  <2>2. x \in TxRec /\ x.op = "update"
    BY <2>1, FlagsAssumption DEF TxRec
  <2>3. Begin(p, y) /\ closure' = closure
    BY <1>11 DEF BeginUpdate
  <2> HIDE DEF x
  <2>4. after.status \in Status
    BY <1>k, <2>2 DEF updateMutator, inferredStatus, TaskRec, TxRec, Status
  <2>5. changed \in SUBSET UpdateField
    BY DEF diffTaskFields
  <2> HIDE DEF after, changed
  <2>6. y \in TxRec /\ y.op = "update"
    BY <2>2, <2>4, <2>5 DEF TxRec
  <2> HIDE DEF y
  <2>7. QED
    BY <1>c, <2>3, <2>6, BeginTyped
<1>12. QED
  BY <1>1, <1>2, <1>3, <1>4, <1>5, <1>6, <1>7, <1>8, <1>9, <1>10, <1>11

(* What the caller does with Tx's verdict keeps the types of its state.    *)
LEMMA FinishTyped ==
    ASSUME Typed, NEW p \in Proc, NEW ok \in BOOLEAN, Finish(p, ok)
    PROVE  /\ pc' \in [Proc -> {"idle", "publish", "read", "write"}]
           /\ tx' \in [Proc -> TxRec]
           /\ closure' \in [Proc -> SUBSET Task]
           /\ activeEpochs' \in [Proc -> [Task -> Nat]]
           /\ \A q \in Proc : tx'[q].op = "link" => tx'[q].other \in Task
<1>0. tx[p] \in TxRec
  BY DEF Typed, TypeOK
<1>1. tx[p].task \in Task /\ tx[p].next.claimEpoch \in Nat
  BY <1>0 DEF TxRec, TaskRec
<1>2. pc' \in [Proc -> {"idle", "publish", "read", "write"}]
  BY DEF Typed, TypeOK, Finish
<1>3. tx' = [tx EXCEPT ![p] = TxInit]
  BY DEF Finish
<1>4. tx' \in [Proc -> TxRec]
  BY <1>3, TxInitType DEF Typed, TypeOK
<1>5. \A q \in Proc : tx'[q].op = "link" => tx'[q].other \in Task
  BY <1>3 DEF Typed, TypeOK, LinkTyped, TxInit
<1>6. closure' \in [Proc -> SUBSET Task]
  BY <1>1 DEF Typed, TypeOK, Finish
<1>7. activeEpochs' \in [Proc -> [Task -> Nat]]
  BY <1>1 DEF Typed, TypeOK, Finish
<1>8. QED
  BY <1>2, <1>4, <1>5, <1>6, <1>7

(* A put keeps the types of the bucket.                                    *)
LEMMA PutRecordTyped ==
    ASSUME TypeOK, NEW t \in Task, NEW r \in TaskRec, PutRecord(t, r)
    PROVE  /\ kv' \in [Task -> TaskRec] /\ live' \subseteq Task
           /\ rev' \in [Task -> Nat] /\ archive' \subseteq Task
  BY DEF TypeOK, PutRecord

(* Publish, Get and Update keep the types.                                 *)
LEMMA TxStepTyped ==
    ASSUME Typed, NEW p \in Proc, TxStep(p) PROVE Typed'
<1> USE DEF Typed
<1>x. tx[p] \in TxRec /\ tx[p].task \in Task /\ tx[p].seq \in Nat /\ tx[p].next \in TaskRec
  BY DEF TypeOK, TxRec
<1>o. tx[p].op = "link" => tx[p].other \in Task
  BY DEF LinkTyped
<1>k. kv[tx[p].task] \in TaskRec /\ rev[tx[p].task] \in Nat
  BY <1>x DEF TypeOK
<1>1. CASE Publish(p)
  <2>1. EventOf(tx[p]) \in Event
    BY <1>x, EventOfType
  <2>2. EventOf(tx[p]).type = "linked" => EventOf(tx[p]).other \in Task
    BY <1>x, <1>o DEF EventOf, OpEvent, TxRec, Op
  <2>3. Len(log) + 1 \in Nat /\ log \in Seq(Event)
    BY DEF TypeOK
  <2>4. log' = Append(log, EventOf(tx[p]))
    BY <1>1 DEF Publish
  <2>5. log' \in Seq(Event)
    BY <2>1, <2>3, <2>4
  <2>6. \A i \in DOMAIN log' : log'[i].type = "linked" => log'[i].other \in Task
    <3>1. TAKE i \in DOMAIN log'
    <3>2. CASE i \in DOMAIN log
      BY <2>3, <2>4, <3>2 DEF LinkTyped
    <3>3. CASE i = Len(log) + 1
      BY <2>2, <2>3, <2>4, <3>3
    <3>4. QED
      BY <2>1, <2>3, <2>4, <3>2, <3>3
  <2>7. tx' = [tx EXCEPT ![p].seq = Len(log) + 1]
    BY <1>1 DEF Publish
  <2>8. tx' \in [Proc -> TxRec]
    BY <1>x, <2>3, <2>7 DEF TypeOK, TxRec
  <2>9. \A q \in Proc : tx'[q].op = tx[q].op /\ tx'[q].other = tx[q].other
    BY <1>x, <2>7 DEF TypeOK, TxRec
  <2>10. pc' \in [Proc -> {"idle", "publish", "read", "write"}]
    BY <1>1 DEF TypeOK, Publish
  <2>11. QED
    BY <1>1, <2>5, <2>6, <2>8, <2>9, <2>10
       DEF TypeOK, LinkTyped, Publish, kvVars, procVars, hubVars
<1>2. CASE ReadOK(p)
  <2> DEFINE n == Stamped(tx[p], kv[tx[p].task], tx[p].seq)
             y == [tx[p] EXCEPT !.rev = rev[tx[p].task], !.next = n]
  <2>1. n \in TaskRec
    BY <1>x, <1>o, <1>k, StampedType
  <2>2. tx' = [tx EXCEPT ![p] = y]
    BY <1>2, <1>x DEF ReadOK, TypeOK
  <2> HIDE DEF n
  <2>3. y \in TxRec /\ y.op = tx[p].op /\ y.other = tx[p].other
    BY <1>x, <1>k, <2>1 DEF TxRec
  <2> HIDE DEF y
  <2>4. tx' \in [Proc -> TxRec]
    BY <2>2, <2>3 DEF TypeOK
  <2>5. \A q \in Proc : tx'[q].op = tx[q].op /\ tx'[q].other = tx[q].other
    BY <2>2, <2>3 DEF TypeOK
  <2>6. pc' \in [Proc -> {"idle", "publish", "read", "write"}]
    BY <1>2 DEF TypeOK, ReadOK
  <2>7. QED
    BY <1>2, <2>4, <2>5, <2>6
       DEF TypeOK, LinkTyped, ReadOK, kvVars, logVars, procVars, hubVars
<1>3. CASE ReadRefused(p)
  <2>1. refused' \subseteq Nat
    BY <1>3, <1>x DEF ReadRefused, Refuse, TypeOK
  <2>2. Finish(p, FALSE)
    BY <1>3 DEF ReadRefused
  <2>3. QED
    BY <1>3, <2>1, <2>2, FinishTyped DEF TypeOK, LinkTyped, ReadRefused, kvVars, hubVars
<1>4. ASSUME NEW acked \in BOOLEAN, Write(p, acked) PROVE Typed'
  <2>1. wins' \in [Task -> SUBSET Win]
    <3>1. [proc |-> p, epoch |-> tx[p].next.claimEpoch] \in Win
      BY <1>x DEF Win, TaskRec
    <3>2. QED
      BY <1>4, <1>x, <3>1 DEF Write, Granted, TypeOK
  <2>2. Finish(p, acked) /\ PutRecord(tx[p].task, tx[p].next)
    BY <1>4 DEF Write
  <2>3. QED
    BY <1>4, <1>x, <2>1, <2>2, FinishTyped, PutRecordTyped
       DEF TypeOK, LinkTyped, Write, logVars, hubVars
<1>5. CASE WriteConflict(p)
  <2>1. CASE tx[p].tries + 1 < MaxRetries
    <3> DEFINE y == [tx[p] EXCEPT !.tries = @ + 1]
    <3>1. tx' = [tx EXCEPT ![p] = y]
      BY <1>5, <1>x, <2>1 DEF WriteConflict, TypeOK
    <3>2. tx[p].tries + 1 \in Nat
      BY <1>x DEF TxRec
    <3>3. y \in TxRec /\ y.op = tx[p].op /\ y.other = tx[p].other
      BY <1>x, <3>2 DEF TxRec
    <3> HIDE DEF y
    <3>4. tx' \in [Proc -> TxRec]
      BY <3>1, <3>3 DEF TypeOK
    <3>5. \A q \in Proc : tx'[q].op = tx[q].op /\ tx'[q].other = tx[q].other
      BY <3>1, <3>3 DEF TypeOK
    <3>6. pc' \in [Proc -> {"idle", "publish", "read", "write"}]
      BY <1>5, <2>1 DEF TypeOK, WriteConflict
    <3>7. UNCHANGED <<procVars, refused, kvVars, log, hubVars, wins>>
      BY <1>5, <2>1 DEF WriteConflict
    <3>8. QED
      BY <3>4, <3>5, <3>6, <3>7
         DEF TypeOK, LinkTyped, kvVars, procVars, hubVars
  <2>2. CASE ~(tx[p].tries + 1 < MaxRetries)
    <3>1. refused' \subseteq Nat
      BY <1>5, <1>x, <2>2 DEF WriteConflict, Refuse, TypeOK
    <3>2. Finish(p, FALSE)
      BY <1>5, <2>2 DEF WriteConflict
    <3>3. QED
      BY <1>5, <3>1, <3>2, FinishTyped DEF TypeOK, LinkTyped, WriteConflict, kvVars, hubVars
  <2>3. QED
    BY <2>1, <2>2
<1>6. CASE CreateWrite(p)
  <2>1. refused' \subseteq Nat
    BY <1>6, <1>x DEF CreateWrite, Refuse, TypeOK
  <2>2. /\ kv' \in [Task -> TaskRec] /\ live' \subseteq Task
        /\ rev' \in [Task -> Nat] /\ archive' \subseteq Task
    <3>1. CASE tx[p].task \in live
      BY <1>6, <3>1 DEF CreateWrite, TypeOK, kvVars
    <3>2. CASE tx[p].task \notin live
      <4>1. PutRecord(tx[p].task, FreshRecord(tx[p].seq))
        BY <1>6, <3>2 DEF CreateWrite
      <4>2. QED
        BY <1>x, <4>1, FreshRecordType, PutRecordTyped
    <3>3. QED
      BY <3>1, <3>2
  <2>3. Finish(p, TRUE)
    BY <1>6 DEF CreateWrite
  <2>4. QED
    BY <1>6, <2>1, <2>2, <2>3, FinishTyped DEF TypeOK, LinkTyped, CreateWrite, hubVars
<1>7. QED
  BY <1>1, <1>2, <1>3, <1>4, <1>5, <1>6 DEF TxStep

(* A timeout or a crash of a process keeps the types.                      *)
LEMMA StopTyped ==
    ASSUME Typed, NEW p \in Proc, Abort(p) \/ Crash(p) PROVE Typed'
<1>1. CASE Abort(p)
  <2>1. Finish(p, FALSE)
    BY <1>1 DEF Abort
  <2>2. QED
    BY <1>1, <2>1, FinishTyped DEF Typed, TypeOK, LinkTyped, Abort, kvVars, logVars, hubVars
<1>2. CASE Crash(p)
  <2>1. tx' \in [Proc -> TxRec] /\ \A q \in Proc : tx'[q].op = "link" => tx'[q].other \in Task
    BY <1>2, TxInitType DEF Typed, TypeOK, LinkTyped, Crash, TxInit
  <2>2. /\ pc' \in [Proc -> {"idle", "publish", "read", "write"}]
        /\ closure' \in [Proc -> SUBSET Task]
        /\ activeEpochs' \in [Proc -> [Task -> Nat]]
    BY <1>2 DEF Typed, TypeOK, Crash
  <2>3. QED
    BY <1>2, <2>1, <2>2 DEF Typed, TypeOK, LinkTyped, Crash, kvVars, logVars, hubVars
<1>3. QED
  BY <1>1, <1>2

(* Leaf.Compact, with and without Prune, keeps the types.                  *)
LEMMA CompactTyped ==
    ASSUME Typed, NEW t \in Task, CompactStamp(t) \/ Prune(t) PROVE Typed'
<1>1. kv[t] \in TaskRec
  BY DEF Typed, TypeOK
<1>2. CASE CompactStamp(t)
  <2>1. [kv[t] EXCEPT !.compactLevel = 1] \in TaskRec
    BY <1>1 DEF TaskRec
  <2>2. QED
    BY <1>2, <2>1, PutRecordTyped
       DEF Typed, TypeOK, LinkTyped, CompactStamp, logVars, txVars, procVars, hubVars
<1>3. CASE Prune(t)
  BY <1>3 DEF Typed, TypeOK, LinkTyped, Prune, logVars, txVars, procVars, hubVars
<1>4. QED
  BY <1>2, <1>3

(* Hub stop, hub start and tasks.Recover keep the types.                   *)
LEMMA HubTyped ==
    ASSUME Typed, HubStop \/ StartRecover \/ Recover \/ RecoverSkipped PROVE Typed'
<1> USE DEF Typed
<1>r. /\ recov \in Recov /\ recov.idx \in Nat \ {0} /\ recov.idx + 1 \in Nat \ {0}
      /\ recov.seen \in [Task -> Int]
  BY DEF TypeOK, Recov
<1>e. Draining => /\ log[recov.idx] \in Event /\ log[recov.idx].task \in Task
                  /\ log[recov.idx].type = "linked" => log[recov.idx].other \in Task
                  /\ kv[log[recov.idx].task] \in TaskRec
  <2> SUFFICES ASSUME Draining
               PROVE /\ log[recov.idx] \in Event /\ log[recov.idx].task \in Task
                     /\ log[recov.idx].type = "linked" => log[recov.idx].other \in Task
                     /\ kv[log[recov.idx].task] \in TaskRec
    OBVIOUS
  <2>1. recov.idx \in DOMAIN log
    BY <1>r DEF TypeOK, Draining
  <2>2. log[recov.idx] \in Event
    BY <2>1 DEF TypeOK
  <2>3. log[recov.idx].task \in Task
    BY <2>2 DEF Event
  <2>4. QED
    BY <2>1, <2>2, <2>3 DEF TypeOK, LinkTyped
<1>p. ASSUME NEW t \in Task, NEW r \in TaskRec, Replayed(t, r) PROVE recov' \in Recov
  <2>1. r.lastEventSeq \in Int
    BY DEF TaskRec
  <2>2. [recov.seen EXCEPT ![t] = r.lastEventSeq] \in [Task -> Int]
    BY <1>r, <2>1
  <2>3. QED
    BY <1>p, <1>r, <2>2 DEF Replayed, Recov
<1>q. /\ \A v \in {"none", "done", "failed"}, n \in Nat : Returned(v, n) \in Recov
      /\ recov.failedAt \in Nat
  BY DEF TypeOK, Returned, Recov, Unseen
<1>1. CASE HubStop
  <2>1. recov' \in Recov
    BY <1>1, <1>r, <1>q DEF HubStop
  <2>2. restarts' \in Nat
    BY <1>1 DEF HubStop, TypeOK
  <2>3. QED
    BY <1>1, <2>1, <2>2 DEF TypeOK, LinkTyped, HubStop, kvVars, logVars, txVars, procVars
<1>2. CASE StartRecover
  <2> DEFINE s == [t \in Task |-> IF t \in live THEN kv[t].lastEventSeq ELSE Unseen]
             q == \A p \in Proc : pc[p] = "idle"
  <2>1. s \in [Task -> Int]
    BY DEF TypeOK, TaskRec, Unseen
  <2>2. recov' = [idx |-> 1, seen |-> s, quiet |-> q,
                 result |-> "none", failedAt |-> recov.failedAt]
    BY <1>2 DEF StartRecover
  <2>3. q \in BOOLEAN
    OBVIOUS
  <2> HIDE DEF s, q
  <2>4. recov' \in Recov
    <3>1. recov.failedAt \in Nat
      BY <1>r DEF Recov
    <3>2. QED
      BY <2>1, <2>2, <2>3, <3>1 DEF Recov
  <2>5. QED
    BY <1>2, <2>4 DEF TypeOK, LinkTyped, StartRecover, kvVars, logVars, txVars, procVars
<1>3. CASE ReplaySkip
  <2>1. recov' \in Recov
    BY <1>3, <1>r DEF ReplaySkip, Recov
  <2>2. QED
    BY <1>3, <2>1 DEF TypeOK, LinkTyped, ReplaySkip, kvVars, logVars, txVars, procVars
<1>4. CASE ReplayCreated
  <2> DEFINE t == log[recov.idx].task
  <2>1. Draining
    BY <1>4 DEF ReplayCreated
  <2>2. t \in Task /\ kv[t] \in TaskRec /\ FreshRecord(recov.idx) \in TaskRec
    BY <1>e, <1>r, <2>1, FreshRecordType
  <2>3. CASE t \in live
    <3>1. recov' \in Recov
      BY <1>4, <1>p, <2>2, <2>3 DEF ReplayCreated
    <3>2. UNCHANGED kvVars
      BY <1>4, <2>3 DEF ReplayCreated
    <3>3. QED
      BY <1>4, <3>1, <3>2 DEF TypeOK, LinkTyped, ReplayCreated, kvVars, logVars, txVars, procVars
  <2>4. CASE t \notin live
    <3>1. Replayed(t, FreshRecord(recov.idx)) /\ PutRecord(t, FreshRecord(recov.idx))
      BY <1>4, <2>4 DEF ReplayCreated
    <3>2. recov' \in Recov
      BY <1>p, <2>2, <3>1
    <3>3. QED
      BY <1>4, <2>2, <3>1, <3>2, PutRecordTyped
         DEF TypeOK, LinkTyped, ReplayCreated, logVars, txVars, procVars
  <2>5. QED
    BY <2>3, <2>4
<1>5. CASE ReplayApply
  <2> DEFINE e == log[recov.idx]
             r == applyEvent(e, recov.idx, kv[e.task])
  <2>1. Draining /\ e.type # "created" /\ PutRecord(e.task, r) /\ Replayed(e.task, r)
    BY <1>5 DEF ReplayApply
  <2>2. e \in Event /\ e.task \in Task /\ r \in TaskRec
    BY <1>e, <1>r, <2>1, ApplyEventType
  <2> HIDE DEF e, r
  <2>3. recov' \in Recov
    BY <1>p, <2>1, <2>2
  <2>4. QED
    BY <1>5, <2>1, <2>2, <2>3, PutRecordTyped
       DEF TypeOK, LinkTyped, ReplayApply, logVars, txVars, procVars
<1>6. CASE ReplayFail
  <2>1. recov' \in Recov
    BY <1>6, <1>r, <1>q DEF ReplayFail
  <2>2. QED
    BY <1>6, <2>1 DEF TypeOK, LinkTyped, ReplayFail, kvVars, logVars, txVars, procVars
<1>7. CASE RecoverDone
  <2>1. recov' \in Recov
    BY <1>7, <1>r, <1>q DEF RecoverDone
  <2>2. QED
    BY <1>7, <2>1 DEF TypeOK, LinkTyped, RecoverDone, kvVars, logVars, txVars, procVars
<1>8. CASE RecoverSkipped
  <2>1. recov' \in Recov
    BY <1>8, <1>r, <1>q DEF RecoverSkipped
  <2>2. QED
    BY <1>8, <2>1 DEF TypeOK, LinkTyped, RecoverSkipped, kvVars, logVars, txVars, procVars
<1>9. QED
  BY <1>1, <1>2, <1>3, <1>4, <1>5, <1>6, <1>7, <1>8 DEF Recover

(* Every step of the task store keeps the types.                           *)
LEMMA NextTyped == Typed /\ [Next]_vars => Typed'
<1> SUFFICES ASSUME Typed, [Next]_vars PROVE Typed'
  OBVIOUS
<1>1. CASE UNCHANGED vars
  BY <1>1 DEF Typed, TypeOK, LinkTyped, vars, kvVars, logVars, txVars, procVars, hubVars
<1>2. CASE Next
  BY <1>2, CallTyped, TxStepTyped, StopTyped, CompactTyped, HubTyped DEF Next
<1>3. QED
  BY <1>1, <1>2

(* Every reachable state of the task store has the declared types, and an  *)
(* edge or a linked event always names a task.                             *)
THEOREM TypeCorrect == Spec => []TypeOK
<1>1. Spec => []Typed
  BY InitTyped, NextTyped, PTL DEF Spec
<1>2. Typed => TypeOK
  BY DEF Typed
<1>3. QED
  BY <1>1, <1>2, PTL

-----------------------------------------------------------------------------
(* What one CAS and one replayed event do to the record.                   *)

(* What a mutator returns is explained by the event its transaction        *)
(* published; the epoch never falls, and a claim takes the next one.       *)
LEMMA StampedExplained ==
    ASSUME NEW x \in TxRec, NEW r \in TaskRec, NEW seq \in Nat,
           x.op # "create", x.op = "link" => x.other \in Task
    PROVE  /\ Explains(EventOf(x), Stamped(x, r, seq))
           /\ Stamped(x, r, seq).claimEpoch >= r.claimEpoch
           /\ x.op \in ClaimOp => Stamped(x, r, seq).claimEpoch = r.claimEpoch + 1
<1> DEFINE m == Mutate(x, r, seq)
<1>1. m \in TaskRec
  BY MutateType
<1>2. /\ Stamped(x, r, seq).status = m.status
      /\ Stamped(x, r, seq).claimedBy = m.claimedBy
      /\ Stamped(x, r, seq).claimEpoch = m.claimEpoch
  BY <1>1 DEF Stamped, TaskRec
<1>r. r.claimEpoch \in Nat /\ x.agent \in AgentOrNone
  BY DEF TaskRec, TxRec
<1>3. CASE x.op \in ClaimOp
  <2>1. m = Claimed(x, r)
    BY <1>3 DEF Mutate, ClaimOp
  <2>2. m.status = "claimed" /\ m.claimedBy = x.agent /\ m.claimEpoch = r.claimEpoch + 1
    BY <2>1 DEF Claimed, TaskRec
  <2>3. EventOf(x).type = "claimed" /\ EventOf(x).agent = x.agent
    BY <1>3 DEF EventOf, OpEvent, ClaimOp
  <2>4. QED
    BY <1>2, <1>r, <2>2, <2>3 DEF Explains
<1>4. CASE x.op = "cliclaim"
  <2>1. m.status = "claimed" /\ m.claimedBy = x.agent /\ m.claimEpoch = r.claimEpoch
    BY <1>4 DEF Mutate, CliClaimed, TaskRec
  <2>2. EventOf(x).type = "claimed" /\ EventOf(x).agent = x.agent
    BY <1>4 DEF EventOf, OpEvent
  <2>3. QED
    BY <1>2, <1>4, <1>r, <2>1, <2>2 DEF Explains, ClaimOp
<1>5. CASE x.op = "unclaim"
  <2>1. m.status = "open" /\ m.claimEpoch = r.claimEpoch
    BY <1>5 DEF Mutate, Unclaimed, TaskRec
  <2>2. EventOf(x).type = "unclaimed"
    BY <1>5 DEF EventOf, OpEvent
  <2>3. QED
    BY <1>2, <1>5, <1>r, <2>1, <2>2 DEF Explains, ClaimOp
<1>6. CASE x.op \in {"close", "legacyclose"}
  <2>1. m.status = "closed" /\ m.claimEpoch = r.claimEpoch
    BY <1>6 DEF Mutate, applyClose, legacyClose, TaskRec
  <2>2. EventOf(x).type = "closed"
    BY <1>6 DEF EventOf, OpEvent
  <2>3. QED
    BY <1>2, <1>6, <1>r, <2>1, <2>2 DEF Explains, ClaimOp
<1>7. CASE x.op = "update"
  <2>1. m.claimEpoch = r.claimEpoch
    BY <1>7 DEF Mutate, updateMutator, TaskRec
  <2>2. EventOf(x).type = "updated"
    BY <1>7 DEF EventOf, OpEvent
  <2>3. QED
    BY <1>2, <1>7, <1>r, <2>1, <2>2 DEF Explains, ClaimOp
<1>8. CASE x.op = "link"
  <2>1. m.claimEpoch = r.claimEpoch
    BY <1>8 DEF Mutate, TaskRec
  <2>2. EventOf(x).type = "linked"
    BY <1>8 DEF EventOf, OpEvent
  <2>3. QED
    BY <1>2, <1>8, <1>r, <2>1, <2>2 DEF Explains, ClaimOp
<1>9. QED
  BY <1>3, <1>4, <1>5, <1>6, <1>7, <1>8 DEF TxRec, Op, ClaimOp

(* A replayed projection is explained by its event and keeps the fence.    *)
LEMMA ApplyEventExplained ==
    ASSUME NEW e \in Event, NEW r \in TaskRec, NEW seq \in Nat, e.type # "created"
    PROVE  /\ Explains(e, applyEvent(e, seq, r))
           /\ applyEvent(e, seq, r).claimEpoch >= r.claimEpoch
<1>r. r.claimEpoch \in Nat /\ e.epoch \in Nat
  BY DEF TaskRec, Event
<1>1. CASE e.type = "claimed"
  <2> DEFINE n == applyClaimedEvent(e, seq, r)
  <2>1. /\ n.status = "claimed" /\ n.claimedBy = e.agent
        /\ n.claimEpoch = IF e.epoch > r.claimEpoch THEN e.epoch ELSE r.claimEpoch
    BY DEF applyClaimedEvent, TaskRec
  <2>2. applyEvent(e, seq, r) = n
    BY <1>1 DEF applyEvent
  <2>3. QED
    BY <1>1, <1>r, <2>1, <2>2 DEF Explains
<1>2. CASE e.type = "unclaimed"
  <2> DEFINE n == applyUnclaimedEvent(e, seq, r)
  <2>1. n.status = "open" /\ n.claimEpoch = r.claimEpoch
    BY DEF applyUnclaimedEvent, Unclaimed, TaskRec
  <2>2. applyEvent(e, seq, r) = n
    BY <1>2 DEF applyEvent
  <2> HIDE DEF n
  <2>3. QED
    BY <1>2, <1>r, <2>1, <2>2 DEF Explains
<1>3. CASE e.type = "linked"
  <2> DEFINE n == applyLinkedEvent(e, seq, r)
  <2>1. n.claimEpoch = r.claimEpoch
    BY DEF applyLinkedEvent, TaskRec
  <2>2. applyEvent(e, seq, r) = n
    BY <1>3 DEF applyEvent
  <2> HIDE DEF n
  <2>3. QED
    BY <1>3, <1>r, <2>1, <2>2 DEF Explains
<1>4. CASE e.type = "updated"
  <2> DEFINE n == applyUpdatedEvent(e, seq, r)
  <2>1. n.claimEpoch = r.claimEpoch
    BY DEF applyUpdatedEvent, TaskRec
  <2>2. applyEvent(e, seq, r) = n
    BY <1>4 DEF applyEvent
  <2> HIDE DEF n
  <2>3. QED
    BY <1>4, <1>r, <2>1, <2>2 DEF Explains
<1>5. CASE e.type = "closed"
  <2> DEFINE n == applyClosedEvent(e, seq, r)
  <2>1. n.status = "closed" /\ n.claimEpoch = r.claimEpoch
    BY DEF applyClosedEvent, TaskRec
  <2>2. applyEvent(e, seq, r) = n
    BY <1>5 DEF applyEvent
  <2> HIDE DEF n
  <2>3. QED
    BY <1>5, <1>r, <2>1, <2>2 DEF Explains
<1>6. QED
  BY <1>1, <1>2, <1>3, <1>4, <1>5 DEF Event, EventType

-----------------------------------------------------------------------------
(* How each part of IInv survives the two ways a step can treat the bucket: *)
(* leaving it alone, and putting one record.                               *)

(* The processes whose CAS is pending are the ones that were.              *)
NoNewWriter ==
    \A q \in Proc : pc'[q] = "write" => pc[q] = "write" /\ tx'[q] = tx[q]

(* The transactions past their publish are the ones that were.             *)
NoNewTx ==
    /\ NoNewWriter
    /\ \A q \in Proc : pc'[q] = "read" =>
          pc[q] \in {"read", "write"} /\ EventOf(tx[q])' = EventOf(tx[q])
                                     /\ tx'[q].seq = tx[q].seq

(* Steps that leave the bucket and the log alone keep the stamps.          *)
LEMMA StampKept ==
    ASSUME Typed, ProjectionMatchesStamp, UNCHANGED <<kv, live, log>>
    PROVE  ProjectionMatchesStamp'
  BY DEF ProjectionMatchesStamp

(* A put of a record its stamped event explains keeps the stamps.          *)
LEMMA StampPut ==
    ASSUME Typed, ProjectionMatchesStamp, UNCHANGED log,
           NEW t \in Task, NEW r \in TaskRec, PutRecord(t, r),
           r.lastEventSeq \in DOMAIN log, log[r.lastEventSeq].task = t,
           Explains(log[r.lastEventSeq], r), checkInvariant11(r)
    PROVE  ProjectionMatchesStamp'
<1>1. kv' = [kv EXCEPT ![t] = r] /\ live' = live \cup {t}
  BY DEF PutRecord
<1>2. kv'[t] = r /\ \A u \in Task : u # t => kv'[u] = kv[u]
  BY <1>1 DEF Typed, TypeOK
<1>3. SUFFICES ASSUME NEW u \in live'
               PROVE  /\ kv'[u].lastEventSeq \in DOMAIN log
                      /\ log[kv'[u].lastEventSeq].task = u
                      /\ Explains(log[kv'[u].lastEventSeq], kv'[u])
                      /\ checkInvariant11(kv'[u])
  BY DEF ProjectionMatchesStamp
<1>4. CASE u = t
  BY <1>2, <1>4
<1>5. CASE u # t
  BY <1>1, <1>2, <1>5 DEF ProjectionMatchesStamp, Typed, TypeOK
<1>6. QED
  BY <1>4, <1>5

(* Steps that leave the bucket alone keep pending writes fresh.            *)
LEMMA FreshKept ==
    ASSUME CASFresh, NoNewWriter, UNCHANGED <<kv, live, rev>> PROVE CASFresh'
  BY DEF CASFresh, NoNewWriter

(* A put moves the revision, so older pending writes are refused.          *)
LEMMA FreshPut ==
    ASSUME Typed, CASFresh, NoNewWriter,
           NEW t \in Task, NEW r \in TaskRec, PutRecord(t, r)
    PROVE  CASFresh'
<1> SUFFICES ASSUME NEW p \in Proc, pc'[p] = "write"
             PROVE  /\ tx'[p].rev <= rev'[tx'[p].task]
                    /\ tx'[p].rev = rev'[tx'[p].task] =>
                          /\ tx'[p].task \in live'
                          /\ legalTransition(kv'[tx'[p].task], tx'[p].next)
                          /\ tx'[p].next.claimEpoch >= kv'[tx'[p].task].claimEpoch
                          /\ tx'[p].op \in ClaimOp =>
                                tx'[p].next.claimEpoch = kv'[tx'[p].task].claimEpoch + 1
  BY DEF CASFresh
<1>1. pc[p] = "write" /\ tx'[p] = tx[p]
  BY DEF NoNewWriter
<1>2. tx[p] \in TxRec /\ tx[p].task \in Task /\ tx[p].rev \in Nat /\ rev[tx[p].task] \in Nat
  BY DEF Typed, TypeOK, TxRec
<1>3. tx[p].rev <= rev[tx[p].task]
  BY <1>1 DEF CASFresh
<1>4. CASE tx[p].task = t
  <2>1. rev'[tx[p].task] = rev[tx[p].task] + 1
    BY <1>4 DEF PutRecord, Typed, TypeOK
  <2>2. QED
    BY <1>1, <1>2, <1>3, <2>1
<1>5. CASE tx[p].task # t
  <2>1. rev'[tx[p].task] = rev[tx[p].task] /\ kv'[tx[p].task] = kv[tx[p].task]
    BY <1>2, <1>5 DEF PutRecord, Typed, TypeOK
  <2>2. live \subseteq live'
    BY DEF PutRecord
  <2>3. QED
    BY <1>1, <1>3, <2>1, <2>2 DEF CASFresh
<1>6. QED
  BY <1>4, <1>5

(* Steps that add no transaction keep each one bound to its event.         *)
LEMMA InFlightKept ==
    ASSUME InFlight, NoNewTx, UNCHANGED log PROVE InFlight'
<1> SUFFICES ASSUME NEW p \in Proc
             PROVE  /\ pc'[p] \in {"read", "write"} =>
                          /\ tx'[p].seq \in DOMAIN log'
                          /\ log'[tx'[p].seq] = EventOf(tx[p])'
                    /\ pc'[p] = "write" =>
                          /\ tx'[p].op # "create"
                          /\ tx'[p].next.lastEventSeq = tx'[p].seq
                          /\ Explains(EventOf(tx[p])', tx'[p].next)
                          /\ checkInvariant11(tx'[p].next)
  BY DEF InFlight
<1>1. CASE pc'[p] = "write"
  <2>1. pc[p] = "write" /\ tx'[p] = tx[p]
    BY <1>1 DEF NoNewTx, NoNewWriter
  <2>2. EventOf(tx[p])' = EventOf(tx[p])
    BY <2>1 DEF EventOf
  <2>3. QED
    BY <2>1, <2>2 DEF InFlight
<1>2. CASE pc'[p] = "read"
  BY <1>2 DEF InFlight, NoNewTx
<1>3. QED
  BY <1>1, <1>2

(* Putting a record that is no older, or is the first, keeps the grants.   *)
LEMMA GrantsPut ==
    ASSUME Typed, GrantsBelow, UNCHANGED wins,
           NEW t \in Task, NEW r \in TaskRec, PutRecord(t, r),
           t \in live => r.claimEpoch >= kv[t].claimEpoch
    PROVE  GrantsBelow'
<1> SUFFICES ASSUME NEW u \in Task, u \notin archive'
             PROVE  /\ u \notin live' => wins'[u] = {}
                    /\ \A w \in wins'[u] : w.epoch <= kv'[u].claimEpoch
  BY DEF GrantsBelow
<1>1. u \notin archive
  BY DEF PutRecord
<1>2. CASE u = t
  <2>1. u \in live' /\ kv'[u] = r
    BY <1>2 DEF PutRecord, Typed, TypeOK
  <2>2. CASE u \in live
    <3>1. \A w \in wins[u] : w.epoch \in Nat /\ w.epoch <= kv[u].claimEpoch
      BY <1>1 DEF GrantsBelow, Typed, TypeOK, Win
    <3>2. kv[u].claimEpoch \in Nat /\ r.claimEpoch \in Nat
      BY DEF Typed, TypeOK, TaskRec
    <3>3. QED
      BY <1>2, <2>1, <2>2, <3>1, <3>2
  <2>3. CASE u \notin live
    BY <1>1, <2>1, <2>3 DEF GrantsBelow
  <2>4. QED
    BY <2>2, <2>3
<1>3. CASE u # t
  <2>1. (u \in live' <=> u \in live) /\ kv'[u] = kv[u]
    BY <1>3 DEF PutRecord, Typed, TypeOK
  <2>2. QED
    BY <1>1, <2>1 DEF GrantsBelow
<1>4. QED
  BY <1>2, <1>3

(* A step that leaves the bucket, the log and the grants alone.            *)
LEMMA QuietKept ==
    ASSUME Typed, IInv, NoNewTx, UNCHANGED <<kvVars, log, wins>> PROVE IInv'
<1>1. UNCHANGED <<kv, live, rev, archive, log, wins>>
  BY DEF kvVars
<1>2. ProjectionMatchesStamp'
  BY <1>1, StampKept DEF IInv
<1>3. CASFresh'
  BY <1>1, FreshKept DEF IInv, NoNewTx
<1>4. InFlight'
  BY <1>1, InFlightKept DEF IInv
<1>5. ClaimEpochsUnique' /\ GrantsBelow'
  BY <1>1 DEF IInv, ClaimEpochsUnique, GrantsBelow
<1>6. QED
  BY <1>2, <1>3, <1>4, <1>5 DEF IInv

(* A step that puts a record the log explains and grants nothing.          *)
LEMMA PutKept ==
    ASSUME Typed, IInv, NoNewTx, UNCHANGED <<log, wins>>,
           NEW t \in Task, NEW r \in TaskRec, PutRecord(t, r),
           r.lastEventSeq \in DOMAIN log, log[r.lastEventSeq].task = t,
           Explains(log[r.lastEventSeq], r), checkInvariant11(r),
           t \in live => r.claimEpoch >= kv[t].claimEpoch
    PROVE  IInv'
<1>1. ProjectionMatchesStamp'
  BY StampPut DEF IInv
<1>2. CASFresh'
  BY FreshPut DEF IInv, NoNewTx
<1>3. InFlight'
  BY InFlightKept DEF IInv
<1>4. GrantsBelow'
  BY GrantsPut DEF IInv
<1>5. ClaimEpochsUnique'
  BY DEF IInv, ClaimEpochsUnique, PutRecord
<1>6. QED
  BY <1>1, <1>2, <1>3, <1>4, <1>5 DEF IInv

(* A process that goes idle, and one that begins, adds no transaction.     *)
LEMMA FinishNoNewTx ==
    ASSUME Typed, NEW p \in Proc, NEW ok \in BOOLEAN, Finish(p, ok) PROVE NoNewTx
<1>1. pc' = [pc EXCEPT ![p] = "idle"] /\ tx' = [tx EXCEPT ![p] = TxInit]
  BY DEF Finish
<1>2. \A q \in Proc : q = p => pc'[q] = "idle"
  BY <1>1 DEF Typed, TypeOK
<1>3. \A q \in Proc : q # p => pc'[q] = pc[q] /\ tx'[q] = tx[q]
  BY <1>1 DEF Typed, TypeOK
<1>4. QED
  BY <1>2, <1>3 DEF NoNewTx, NoNewWriter, EventOf

(* Every verb ends its pre-reads by handing a transaction to Tx.           *)
LEMMA CallBegins == ASSUME NEW p \in Proc, Call(p) PROVE \E x : Begin(p, x)
<1>1. PICK t \in Task :
        \/ BeginCreate(p, t)
        \/ BeginClaim(p, t)
        \/ BeginReclaim(p, t)
        \/ BeginHandoff(p, t)
        \/ BeginCliClaim(p, t)
        \/ BeginRelease(p, t)
        \/ BeginClose(p, t)
        \/ \E a \in {AgentOf[p], NoAgent} : BeginLegacyClose(p, t, a)
        \/ \E o \in Task : BeginLink(p, t, o)
        \/ \E f \in UpdateFlags, s \in Status, a \in AgentOrNone :
               BeginUpdate(p, t, f, s, a)
  BY DEF Call
<1>2. CASE \/ BeginCreate(p, t) \/ BeginClaim(p, t) \/ BeginReclaim(p, t)
           \/ BeginHandoff(p, t) \/ BeginCliClaim(p, t)
  BY <1>2 DEF BeginCreate, BeginClaim, BeginReclaim, BeginHandoff, BeginCliClaim
<1>3. CASE BeginRelease(p, t) \/ BeginClose(p, t)
  BY <1>3 DEF BeginRelease, BeginClose
<1>4. ASSUME NEW a, BeginLegacyClose(p, t, a) PROVE \E x : Begin(p, x)
  BY <1>4 DEF BeginLegacyClose
<1>5. ASSUME NEW o, BeginLink(p, t, o) PROVE \E x : Begin(p, x)
  BY <1>5 DEF BeginLink
<1>6. ASSUME NEW f, NEW s, NEW a, BeginUpdate(p, t, f, s, a) PROVE \E x : Begin(p, x)
  BY <1>6 DEF BeginUpdate
<1>7. QED
  BY <1>1, <1>2, <1>3, <1>4, <1>5, <1>6

(* A verb that starts leaves the bucket and the log alone.                 *)
LEMMA BeginKept ==
    ASSUME Typed, IInv, NEW p \in Proc, Call(p) PROVE IInv'
<1>1. PICK x : Begin(p, x)
  BY CallBegins
<1>2. /\ pc' = [pc EXCEPT ![p] = "publish"] /\ tx' = [tx EXCEPT ![p] = x]
      /\ UNCHANGED <<kvVars, log, wins>>
  BY <1>1 DEF Begin, logVars
<1>3. \A q \in Proc : q = p => pc'[q] = "publish"
  BY <1>2 DEF Typed, TypeOK
<1>4. \A q \in Proc : q # p => pc'[q] = pc[q] /\ tx'[q] = tx[q]
  BY <1>2 DEF Typed, TypeOK
<1>5. NoNewTx
  BY <1>3, <1>4 DEF NoNewTx, NoNewWriter, EventOf
<1>6. QED
  BY <1>2, <1>5, QuietKept

(* A publish binds the transaction to the event it appends.                *)
LEMMA PublishKept ==
    ASSUME Typed, IInv, NEW p \in Proc, Publish(p) PROVE IInv'
<1>1. /\ log' = Append(log, EventOf(tx[p]))
      /\ tx' = [tx EXCEPT ![p].seq = Len(log) + 1]
      /\ pc' = [pc EXCEPT ![p] = "read"]
      /\ UNCHANGED <<kv, live, rev, archive, wins>>
  BY DEF Publish, kvVars
<1>2. /\ log \in Seq(Event) /\ EventOf(tx[p]) \in Event
      /\ Len(log) \in Nat /\ tx[p] \in TxRec
  BY EventOfType DEF Typed, TypeOK
<1>3. /\ \A i \in DOMAIN log : i \in DOMAIN log' /\ log'[i] = log[i]
      /\ Len(log) + 1 \in DOMAIN log' /\ log'[Len(log) + 1] = EventOf(tx[p])
  BY <1>1, <1>2
<1>4. \A q \in Proc : q # p => pc'[q] = pc[q] /\ tx'[q] = tx[q]
  BY <1>1 DEF Typed, TypeOK
<1>5. pc'[p] = "read" /\ tx'[p] = [tx[p] EXCEPT !.seq = Len(log) + 1]
  BY <1>1 DEF Typed, TypeOK
<1>6. ProjectionMatchesStamp'
  BY <1>1, <1>3 DEF IInv, ProjectionMatchesStamp
<1>7. CASFresh'
  <2>1. NoNewWriter
    BY <1>4, <1>5 DEF NoNewWriter
  <2>2. QED
    BY <1>1, <2>1, FreshKept DEF IInv
<1>8. InFlight'
  <2> SUFFICES ASSUME NEW q \in Proc
               PROVE  /\ pc'[q] \in {"read", "write"} =>
                            /\ tx'[q].seq \in DOMAIN log'
                            /\ log'[tx'[q].seq] = EventOf(tx[q])'
                      /\ pc'[q] = "write" =>
                            /\ tx'[q].op # "create"
                            /\ tx'[q].next.lastEventSeq = tx'[q].seq
                            /\ Explains(EventOf(tx[q])', tx'[q].next)
                            /\ checkInvariant11(tx'[q].next)
    BY DEF InFlight
  <2>1. CASE q = p
    <3>1. /\ tx'[p].seq = Len(log) + 1 /\ tx'[p].op = tx[p].op /\ tx'[p].task = tx[p].task
          /\ tx'[p].agent = tx[p].agent /\ tx'[p].epoch = tx[p].epoch
          /\ tx'[p].from = tx[p].from /\ tx'[p].other = tx[p].other
          /\ tx'[p].status = tx[p].status /\ tx'[p].changed = tx[p].changed
      BY <1>2, <1>5 DEF TxRec
    <3>2. EventOf(tx[p])' = EventOf(tx[p])
      BY <3>1 DEF EventOf
    <3>3. QED
      BY <1>3, <1>5, <2>1, <3>1, <3>2
  <2>2. CASE q # p
    <3>1. EventOf(tx[q])' = EventOf(tx[q])
      BY <1>4, <2>2 DEF EventOf
    <3>2. QED
      BY <1>3, <1>4, <2>2, <3>1 DEF IInv, InFlight
  <2>3. QED
    BY <2>1, <2>2
<1>9. ClaimEpochsUnique' /\ GrantsBelow'
  BY <1>1 DEF IInv, ClaimEpochsUnique, GrantsBelow
<1>10. QED
  BY <1>6, <1>7, <1>8, <1>9 DEF IInv

(* The payload computed from the Get is fresh and explained.               *)
LEMMA ReadOKKept ==
    ASSUME Typed, IInv, NEW p \in Proc, ReadOK(p) PROVE IInv'
<1> DEFINE x == tx[p]
           r == kv[x.task]
           n == Stamped(x, r, x.seq)
<1>1. /\ x \in TxRec /\ x.task \in Task /\ x.seq \in Nat /\ r \in TaskRec
      /\ rev[x.task] \in Nat /\ (x.op = "link" => x.other \in Task)
  BY DEF Typed, TypeOK, LinkTyped, TxRec
<1>2. /\ pc[p] = "read" /\ x.op # "create" /\ x.task \in live
      /\ validateTransition(r, n)
      /\ tx' = [tx EXCEPT ![p].rev = rev[x.task], ![p].next = n]
      /\ pc' = [pc EXCEPT ![p] = "write"]
      /\ UNCHANGED <<kv, live, rev, archive, log, wins>>
  BY DEF ReadOK, Readable, kvVars, logVars
<1>3. \A q \in Proc : q # p => pc'[q] = pc[q] /\ tx'[q] = tx[q]
  BY <1>2 DEF Typed, TypeOK
<1>4. /\ n.lastEventSeq = x.seq /\ n \in TaskRec
      /\ Explains(EventOf(x), n) /\ n.claimEpoch >= r.claimEpoch
      /\ x.op \in ClaimOp => n.claimEpoch = r.claimEpoch + 1
  BY <1>1, <1>2, StampedType, StampedExplained
<1>5. legalTransition(r, n) /\ checkInvariant11(n)
  BY <1>2 DEF validateTransition
<1> HIDE DEF n
<1>6. pc'[p] = "write" /\ tx'[p] = [x EXCEPT !.rev = rev[x.task], !.next = n]
  BY <1>2 DEF Typed, TypeOK
<1>7. /\ tx'[p].rev = rev[x.task] /\ tx'[p].next = n /\ tx'[p].seq = x.seq
      /\ tx'[p].op = x.op /\ tx'[p].task = x.task /\ tx'[p].agent = x.agent
      /\ tx'[p].epoch = x.epoch /\ tx'[p].from = x.from /\ tx'[p].other = x.other
      /\ tx'[p].status = x.status /\ tx'[p].changed = x.changed
  BY <1>1, <1>6 DEF TxRec
<1>8. EventOf(tx[p])' = EventOf(x)
  BY <1>7 DEF EventOf
<1>9. CASFresh'
  <2> SUFFICES ASSUME NEW q \in Proc, pc'[q] = "write"
               PROVE  /\ tx'[q].rev <= rev'[tx'[q].task]
                      /\ tx'[q].rev = rev'[tx'[q].task] =>
                            /\ tx'[q].task \in live'
                            /\ legalTransition(kv'[tx'[q].task], tx'[q].next)
                            /\ tx'[q].next.claimEpoch >= kv'[tx'[q].task].claimEpoch
                            /\ tx'[q].op \in ClaimOp =>
                                  tx'[q].next.claimEpoch = kv'[tx'[q].task].claimEpoch + 1
    BY DEF CASFresh
  <2>1. CASE q = p
    BY <1>1, <1>2, <1>4, <1>5, <1>7, <2>1
  <2>2. CASE q # p
    <3>1. pc[q] = "write" /\ tx'[q] = tx[q] /\ kv' = kv /\ rev' = rev /\ live' = live
      BY <1>2, <1>3, <2>2
    <3>2. QED
      BY <3>1 DEF IInv, CASFresh
  <2>3. QED
    BY <2>1, <2>2
<1>10. InFlight'
  <2> SUFFICES ASSUME NEW q \in Proc
               PROVE  /\ pc'[q] \in {"read", "write"} =>
                            /\ tx'[q].seq \in DOMAIN log'
                            /\ log'[tx'[q].seq] = EventOf(tx[q])'
                      /\ pc'[q] = "write" =>
                            /\ tx'[q].op # "create"
                            /\ tx'[q].next.lastEventSeq = tx'[q].seq
                            /\ Explains(EventOf(tx[q])', tx'[q].next)
                            /\ checkInvariant11(tx'[q].next)
    BY DEF InFlight
  <2>1. CASE q = p
    <3>1. x.seq \in DOMAIN log /\ log[x.seq] = EventOf(x)
      BY <1>2 DEF IInv, InFlight
    <3>2. QED
      BY <1>2, <1>4, <1>5, <1>7, <1>8, <2>1, <3>1
  <2>2. CASE q # p
    <3>1. EventOf(tx[q])' = EventOf(tx[q])
      BY <1>3, <2>2 DEF EventOf
    <3>2. QED
      BY <1>2, <1>3, <2>2, <3>1 DEF IInv, InFlight
  <2>3. QED
    BY <2>1, <2>2
<1>11. ProjectionMatchesStamp' /\ ClaimEpochsUnique' /\ GrantsBelow'
  BY <1>2 DEF IInv, ProjectionMatchesStamp, ClaimEpochsUnique, GrantsBelow
<1>12. QED
  BY <1>9, <1>10, <1>11 DEF IInv

(* The step the revision check guards.                                     *)
LEMMA WriteKept ==
    ASSUME Typed, IInv, NEW p \in Proc, NEW acked \in BOOLEAN, Write(p, acked)
    PROVE  IInv'
<1> DEFINE x == tx[p]
           t == tx[p].task
           n == tx[p].next
<1>1. /\ x \in TxRec /\ t \in Task /\ n \in TaskRec
      /\ n.claimEpoch \in Nat /\ kv[t].claimEpoch \in Nat
  BY DEF Typed, TypeOK, TxRec, TaskRec
<1>2. /\ pc[p] = "write" /\ rev[t] = x.rev /\ PutRecord(t, n)
      /\ Granted(p) /\ Finish(p, acked) /\ UNCHANGED log
  BY DEF Write, RevisionMatches, logVars
<1>3. NoNewTx
  BY <1>2, FinishNoNewTx
<1>4. /\ t \in live /\ n.claimEpoch >= kv[t].claimEpoch
      /\ x.op \in ClaimOp => n.claimEpoch = kv[t].claimEpoch + 1
  BY <1>2 DEF IInv, CASFresh
<1>5. /\ n.lastEventSeq \in DOMAIN log /\ log[n.lastEventSeq] = EventOf(x)
      /\ Explains(log[n.lastEventSeq], n) /\ checkInvariant11(n)
  BY <1>2 DEF IInv, InFlight
<1>6. EventOf(x).task = t
  BY DEF EventOf
<1> HIDE DEF n, t
<1>7. CASE x.op \notin ClaimOp
  <2>1. UNCHANGED wins
    BY <1>2, <1>7 DEF Granted
  <2>2. QED
    BY <1>1, <1>2, <1>3, <1>4, <1>5, <1>6, <2>1, PutKept
<1>8. CASE x.op \in ClaimOp
  <2>1. wins' = [wins EXCEPT ![t] = @ \cup {[proc |-> p, epoch |-> n.claimEpoch]}]
    BY <1>2, <1>8 DEF Granted, t, n
  <2>2. /\ wins'[t] = wins[t] \cup {[proc |-> p, epoch |-> n.claimEpoch]}
        /\ \A u \in Task : u # t => wins'[u] = wins[u]
    BY <1>1, <2>1 DEF Typed, TypeOK
  <2>3. /\ kv'[t] = n /\ t \in live' /\ archive' = archive
        /\ \A u \in Task : u # t => kv'[u] = kv[u] /\ (u \in live' <=> u \in live)
    BY <1>1, <1>2 DEF PutRecord, Typed, TypeOK
  <2>4. n.claimEpoch = kv[t].claimEpoch + 1
    BY <1>4, <1>8
  <2>5. t \notin archive => \A w \in wins[t] : w.epoch \in Nat /\ w.epoch <= kv[t].claimEpoch
    BY <1>1 DEF IInv, GrantsBelow, Typed, TypeOK, Win
  <2>6. GrantsBelow'
    <3> SUFFICES ASSUME NEW u \in Task, u \notin archive'
                 PROVE  /\ u \notin live' => wins'[u] = {}
                        /\ \A w \in wins'[u] : w.epoch <= kv'[u].claimEpoch
      BY DEF GrantsBelow
    <3>1. CASE u = t
      <4>1. ASSUME NEW w \in wins'[t] PROVE w.epoch <= n.claimEpoch
        <5>1. CASE w \in wins[t]
          BY <1>1, <2>3, <2>4, <2>5, <3>1, <5>1
        <5>2. CASE w = [proc |-> p, epoch |-> n.claimEpoch]
          BY <1>1, <5>2
        <5>3. QED
          BY <2>2, <4>1, <5>1, <5>2
      <4>2. QED
        BY <2>3, <3>1, <4>1
    <3>2. CASE u # t
      BY <2>2, <2>3, <3>2 DEF IInv, GrantsBelow
    <3>3. QED
      BY <3>1, <3>2
  <2>7. ClaimEpochsUnique'
    <3> SUFFICES ASSUME NEW u \in Task, u \notin archive',
                        NEW v \in wins'[u], NEW w \in wins'[u], v.epoch = w.epoch
                 PROVE  v = w
      BY DEF ClaimEpochsUnique
    <3>1. CASE u = t
      <4>1. \A y \in wins[t] : y.epoch \in Nat /\ y.epoch < n.claimEpoch
        BY <1>1, <2>3, <2>4, <2>5, <3>1
      <4>2. \A y, z \in wins[t] : y.epoch = z.epoch => y = z
        BY <1>1, <2>3, <3>1 DEF IInv, ClaimEpochsUnique
      <4>3. [proc |-> p, epoch |-> n.claimEpoch].epoch = n.claimEpoch
        OBVIOUS
      <4>4. v \in wins[t] \/ v = [proc |-> p, epoch |-> n.claimEpoch]
        BY <2>2, <3>1
      <4>5. w \in wins[t] \/ w = [proc |-> p, epoch |-> n.claimEpoch]
        BY <2>2, <3>1
      <4>6. QED
        BY <1>1, <4>1, <4>2, <4>3, <4>4, <4>5
    <3>2. CASE u # t
      BY <2>2, <2>3, <3>2 DEF IInv, ClaimEpochsUnique
    <3>3. QED
      BY <3>1, <3>2
  <2>8. ProjectionMatchesStamp'
    BY <1>1, <1>2, <1>5, <1>6, StampPut DEF IInv
  <2>9. CASFresh'
    BY <1>1, <1>2, <1>3, FreshPut DEF IInv, NoNewTx
  <2>10. InFlight'
    BY <1>2, <1>3, InFlightKept DEF IInv
  <2>11. QED
    BY <2>6, <2>7, <2>8, <2>9, <2>10 DEF IInv
<1>9. QED
  BY <1>7, <1>8

(* Every step of Tx keeps the strengthening.                               *)
LEMMA TxStepKept ==
    ASSUME Typed, IInv, NEW p \in Proc, TxStep(p) PROVE IInv'
<1>x. tx[p] \in TxRec /\ tx[p].task \in Task /\ tx[p].seq \in Nat
  BY DEF Typed, TypeOK, TxRec
<1>1. CASE ReadRefused(p)
  <2>1. Finish(p, FALSE) /\ UNCHANGED <<kvVars, log, wins>>
    BY <1>1 DEF ReadRefused
  <2>2. QED
    BY <2>1, FinishNoNewTx, QuietKept
<1>2. CASE WriteConflict(p)
  <2>1. UNCHANGED <<kvVars, log, wins>>
    BY <1>2 DEF WriteConflict
  <2>2. CASE tx[p].tries + 1 < MaxRetries
    <3>1. pc[p] = "write" /\ pc' = [pc EXCEPT ![p] = "read"]
          /\ tx' = [tx EXCEPT ![p].tries = @ + 1]
      BY <1>2, <2>2 DEF WriteConflict
    <3>2. \A q \in Proc : q # p => pc'[q] = pc[q] /\ tx'[q] = tx[q]
      BY <3>1 DEF Typed, TypeOK
    <3>3. pc'[p] = "read" /\ tx'[p] = [tx[p] EXCEPT !.tries = @ + 1]
      BY <3>1 DEF Typed, TypeOK
    <3>4. /\ tx'[p].seq = tx[p].seq /\ tx'[p].op = tx[p].op /\ tx'[p].task = tx[p].task
          /\ tx'[p].agent = tx[p].agent /\ tx'[p].epoch = tx[p].epoch
          /\ tx'[p].from = tx[p].from /\ tx'[p].other = tx[p].other
          /\ tx'[p].status = tx[p].status /\ tx'[p].changed = tx[p].changed
      BY <1>x, <3>3 DEF TxRec
    <3>5. EventOf(tx[p])' = EventOf(tx[p])
      BY <3>4 DEF EventOf
    <3>6. NoNewTx
      <4>1. NoNewWriter
        BY <3>2, <3>3 DEF NoNewWriter
      <4>2. ASSUME NEW q \in Proc, pc'[q] = "read"
            PROVE  /\ pc[q] \in {"read", "write"} /\ EventOf(tx[q])' = EventOf(tx[q])
                   /\ tx'[q].seq = tx[q].seq
        <5>1. CASE q = p
          BY <3>1, <3>4, <3>5, <5>1
        <5>2. CASE q # p
          BY <3>2, <4>2, <5>2 DEF EventOf
        <5>3. QED
          BY <5>1, <5>2
      <4>3. QED
        BY <4>1, <4>2 DEF NoNewTx
    <3>7. QED
      BY <2>1, <3>6, QuietKept
  <2>3. CASE ~(tx[p].tries + 1 < MaxRetries)
    <3>1. Finish(p, FALSE)
      BY <1>2, <2>3 DEF WriteConflict
    <3>2. QED
      BY <2>1, <3>1, FinishNoNewTx, QuietKept
  <2>4. QED
    BY <2>2, <2>3
<1>3. CASE CreateWrite(p)
  <2>1. /\ pc[p] = "read" /\ tx[p].op = "create" /\ Finish(p, TRUE)
        /\ UNCHANGED <<log, wins>>
    BY <1>3 DEF CreateWrite
  <2>2. NoNewTx
    BY <2>1, FinishNoNewTx
  <2>3. CASE tx[p].task \in live
    BY <1>3, <2>1, <2>2, <2>3, QuietKept DEF CreateWrite
  <2>4. CASE tx[p].task \notin live
    <3> DEFINE r == FreshRecord(tx[p].seq)
    <3>1. PutRecord(tx[p].task, r)
      BY <1>3, <2>4 DEF CreateWrite
    <3>2. tx[p].seq \in DOMAIN log /\ log[tx[p].seq] = EventOf(tx[p])
      BY <2>1 DEF IInv, InFlight
    <3>3. EventOf(tx[p]).type = "created" /\ EventOf(tx[p]).task = tx[p].task
      BY <2>1 DEF EventOf, OpEvent
    <3>4. /\ r.lastEventSeq = tx[p].seq /\ Explains(EventOf(tx[p]), r)
          /\ checkInvariant11(r)
      BY <3>3 DEF FreshRecord, Explains, checkInvariant11
    <3>5. r \in TaskRec
      BY <1>x, FreshRecordType
    <3> HIDE DEF r
    <3>6. QED
      BY <1>x, <2>1, <2>2, <2>4, <3>1, <3>2, <3>3, <3>4, <3>5, PutKept
  <2>5. QED
    BY <2>3, <2>4
<1>4. QED
  BY <1>1, <1>2, <1>3, PublishKept, ReadOKKept, WriteKept DEF TxStep

(* A timeout or a crash keeps the strengthening.                           *)
LEMMA StopKept ==
    ASSUME Typed, IInv, NEW p \in Proc, Abort(p) \/ Crash(p) PROVE IInv'
<1>1. CASE Abort(p)
  <2>1. Finish(p, FALSE) /\ UNCHANGED <<kvVars, log, wins>>
    BY <1>1 DEF Abort, logVars
  <2>2. QED
    BY <2>1, FinishNoNewTx, QuietKept
<1>2. CASE Crash(p)
  <2>1. /\ pc' = [pc EXCEPT ![p] = "idle"] /\ tx' = [tx EXCEPT ![p] = TxInit]
        /\ UNCHANGED <<kvVars, log, wins>>
    BY <1>2 DEF Crash, logVars
  <2>2. \A q \in Proc : q = p => pc'[q] = "idle"
    BY <2>1 DEF Typed, TypeOK
  <2>3. \A q \in Proc : q # p => pc'[q] = pc[q] /\ tx'[q] = tx[q]
    BY <2>1 DEF Typed, TypeOK
  <2>4. NoNewTx
    BY <2>2, <2>3 DEF NoNewTx, NoNewWriter, EventOf
  <2>5. QED
    BY <2>1, <2>4, QuietKept
<1>3. QED
  BY <1>1, <1>2

(* A step of no process leaves every transaction as it is.                 *)
LEMMA TxUnchanged == ASSUME UNCHANGED txVars PROVE NoNewTx
  BY DEF txVars, NoNewTx, NoNewWriter, EventOf

(* The compaction stamp and the purge keep the strengthening.              *)
LEMMA CompactKept ==
    ASSUME Typed, IInv, NEW t \in Task, CompactStamp(t) \/ Prune(t) PROVE IInv'
<1>k. kv[t] \in TaskRec /\ kv[t].claimEpoch \in Nat
  BY DEF Typed, TypeOK, TaskRec
<1>1. CASE CompactStamp(t)
  <2> DEFINE r == [kv[t] EXCEPT !.compactLevel = 1]
  <2>1. t \in live /\ PutRecord(t, r) /\ UNCHANGED <<log, wins, txVars>>
    BY <1>1 DEF CompactStamp, logVars
  <2>2. /\ r \in TaskRec /\ r.lastEventSeq = kv[t].lastEventSeq
        /\ r.status = kv[t].status /\ r.claimedBy = kv[t].claimedBy
        /\ r.claimEpoch = kv[t].claimEpoch
    BY <1>k DEF TaskRec
  <2> HIDE DEF r
  <2>3. /\ kv[t].lastEventSeq \in DOMAIN log /\ log[kv[t].lastEventSeq].task = t
        /\ Explains(log[kv[t].lastEventSeq], kv[t]) /\ checkInvariant11(kv[t])
    BY <2>1 DEF IInv, ProjectionMatchesStamp
  <2>4. Explains(log[r.lastEventSeq], r) /\ checkInvariant11(r)
    BY <2>2, <2>3 DEF Explains, checkInvariant11
  <2>5. QED
    BY <1>k, <2>1, <2>2, <2>3, <2>4, TxUnchanged, PutKept
<1>2. CASE Prune(t)
  <2>1. /\ archive' = archive \cup {t} /\ live' = live \ {t}
        /\ rev' = [rev EXCEPT ![t] = @ + 1]
        /\ UNCHANGED <<kv, log, wins, pc, tx>>
    BY <1>2 DEF Prune, logVars, txVars
  <2>2. ProjectionMatchesStamp'
    BY <2>1 DEF IInv, ProjectionMatchesStamp
  <2>3. InFlight'
    BY <2>1, TxUnchanged, InFlightKept DEF IInv, txVars
  <2>4. ClaimEpochsUnique' /\ GrantsBelow'
    BY <2>1 DEF IInv, ClaimEpochsUnique, GrantsBelow
  <2>5. CASFresh'
    <3> SUFFICES ASSUME NEW p \in Proc, pc[p] = "write"
                 PROVE  /\ tx[p].rev <= rev'[tx[p].task]
                        /\ tx[p].rev = rev'[tx[p].task] =>
                              /\ tx[p].task \in live'
                              /\ legalTransition(kv[tx[p].task], tx[p].next)
                              /\ tx[p].next.claimEpoch >= kv[tx[p].task].claimEpoch
                              /\ tx[p].op \in ClaimOp =>
                                    tx[p].next.claimEpoch = kv[tx[p].task].claimEpoch + 1
      BY <2>1 DEF CASFresh
    <3>1. tx[p].task \in Task /\ tx[p].rev \in Nat /\ rev[tx[p].task] \in Nat
      BY DEF Typed, TypeOK, TxRec
    <3>2. tx[p].rev <= rev[tx[p].task]
      BY DEF IInv, CASFresh
    <3>3. CASE tx[p].task = t
      <4>1. rev'[tx[p].task] = rev[tx[p].task] + 1
        BY <2>1, <3>1, <3>3 DEF Typed, TypeOK
      <4>2. QED
        BY <3>1, <3>2, <4>1
    <3>4. CASE tx[p].task # t
      <4>1. rev'[tx[p].task] = rev[tx[p].task]
        BY <2>1, <3>1, <3>4 DEF Typed, TypeOK
      <4>2. QED
        BY <2>1, <3>4, <4>1 DEF IInv, CASFresh
    <3>5. QED
      BY <3>3, <3>4
  <2>6. QED
    BY <2>2, <2>3, <2>4, <2>5 DEF IInv
<1>3. QED
  BY <1>1, <1>2

(* Stopping, starting and recovering: a replayed event is put under the    *)
(* validation every CAS runs.                                              *)
LEMMA HubKept ==
    ASSUME Typed, IInv, HubStop \/ StartRecover \/ Recover \/ RecoverSkipped PROVE IInv'
<1> DEFINE i == recov.idx
           e == log[i]
           t == e.task
<1>r. i \in Nat \ {0}
  BY DEF Typed, TypeOK, Recov
<1>e. Draining => /\ i \in DOMAIN log /\ e \in Event /\ t \in Task /\ kv[t] \in TaskRec
                  /\ (e.type = "linked" => e.other \in Task)
  <2> SUFFICES ASSUME Draining
               PROVE /\ i \in DOMAIN log /\ e \in Event /\ t \in Task /\ kv[t] \in TaskRec
                     /\ (e.type = "linked" => e.other \in Task)
    OBVIOUS
  <2>1. i \in DOMAIN log
    BY <1>r DEF Typed, TypeOK, Draining
  <2>2. e \in Event
    BY <2>1 DEF Typed, TypeOK
  <2>3. t \in Task
    BY <2>2 DEF Event
  <2>4. QED
    BY <2>1, <2>2, <2>3 DEF Typed, TypeOK, LinkTyped
<1>1. CASE HubStop \/ StartRecover \/ ReplaySkip \/ ReplayFail \/ RecoverDone \/ RecoverSkipped
  <2>1. UNCHANGED <<kvVars, log, wins, txVars>>
    BY <1>1 DEF HubStop, StartRecover, ReplaySkip, ReplayFail, RecoverDone, RecoverSkipped,
                logVars
  <2>2. QED
    BY <2>1, TxUnchanged, QuietKept
<1>2. CASE ReplayCreated
  <2>1. Draining /\ e.type = "created" /\ UNCHANGED <<log, wins, txVars>>
    BY <1>2 DEF ReplayCreated, logVars
  <2>2. CASE t \in live
    BY <1>2, <2>1, <2>2, TxUnchanged, QuietKept DEF ReplayCreated
  <2>3. CASE t \notin live
    <3> DEFINE r == FreshRecord(i)
    <3>1. PutRecord(t, r)
      BY <1>2, <2>3 DEF ReplayCreated
    <3>2. /\ r.lastEventSeq = i /\ Explains(e, r) /\ checkInvariant11(r)
      BY <2>1 DEF FreshRecord, Explains, checkInvariant11
    <3>3. r \in TaskRec
      BY <1>r, FreshRecordType
    <3> HIDE DEF r
    <3>4. QED
      BY <1>e, <2>1, <2>3, <3>1, <3>2, <3>3, TxUnchanged, PutKept
  <2>4. QED
    BY <2>2, <2>3
<1>3. CASE ReplayApply
  <2> DEFINE r == applyEvent(e, i, kv[t])
  <2>1. /\ Draining /\ e.type # "created" /\ Replayable(e, i)
        /\ PutRecord(t, r) /\ UNCHANGED <<log, wins, txVars>>
    BY <1>3 DEF ReplayApply, logVars
  <2>2. r \in TaskRec /\ r.lastEventSeq = i
    BY <1>e, <1>r, <2>1, ApplyEventType
  <2>3. Explains(e, r) /\ r.claimEpoch >= kv[t].claimEpoch
    BY <1>e, <1>r, <2>1, ApplyEventExplained
  <2>4. checkInvariant11(r)
    BY <2>1 DEF Replayable, validateTransition
  <2> HIDE DEF r
  <2>5. QED
    BY <1>e, <2>1, <2>2, <2>3, <2>4, TxUnchanged, PutKept
<1>4. QED
  BY <1>1, <1>2, <1>3 DEF Recover

-----------------------------------------------------------------------------
(* The theorems.                                                           *)

(* The empty store satisfies the strengthening.                            *)
LEMMA InitIInv == Init => IInv
  BY DEF Init, IInv, ProjectionMatchesStamp, ClaimEpochsUnique, CASFresh, InFlight, GrantsBelow

(* Every step of the task store keeps the strengthening.                   *)
LEMMA NextIInv == Typed /\ IInv /\ [Next]_vars => IInv'
<1> SUFFICES ASSUME Typed, IInv, [Next]_vars PROVE IInv'
  OBVIOUS
<1>1. CASE UNCHANGED vars
  BY <1>1, TxUnchanged, QuietKept DEF vars, logVars
<1>2. CASE Next
  BY <1>2, BeginKept, TxStepKept, StopKept, CompactKept, HubKept DEF Next
<1>3. QED
  BY <1>1, <1>2

(* The inductive invariant holds in every reachable state.                 *)
LEMMA StrongInvariant == Spec => [](Typed /\ IInv)
  BY InitTyped, NextTyped, InitIInv, NextIInv, PTL DEF Spec

(* Every record of the bucket is explained by the event its LastEventSeq   *)
(* names: publish-then-CAS, crashes between the two, lost acknowledgments  *)
(* and recovery never leave a stamp that points at someone else's event.   *)
THEOREM StampIsExplained == Spec => []ProjectionMatchesStamp
<1>1. IInv => ProjectionMatchesStamp
  BY DEF IInv
<1>2. QED
  BY <1>1, StrongInvariant, PTL

(* No two claims of a task are granted under one epoch, for any number of  *)
(* processes racing through claim, reclaim and handoff, and across hub     *)
(* restarts.                                                               *)
THEOREM GrantsAreUnique == Spec => []ClaimEpochsUnique
<1>1. IInv => ClaimEpochsUnique
  BY DEF IInv
<1>2. QED
  BY <1>1, StrongInvariant, PTL

(* A pending write that the revision check lets through is still a legal   *)
(* successor of the record it replaces.                                    *)
THEOREM PendingWritesFresh == Spec => []CASFresh
<1>1. IInv => CASFresh
  BY DEF IInv
<1>2. QED
  BY <1>1, StrongInvariant, PTL

(* Every step that replaces a live record replaces it by a legal successor *)
(* with an epoch no older.                                                 *)
LEMMA PutIsLegal ==
    ASSUME Typed, IInv, NEW t \in Task, NEW r \in TaskRec, PutRecord(t, r),
           t \in live => legalTransition(kv[t], r) /\ r.claimEpoch >= kv[t].claimEpoch,
           NEW u \in live
    PROVE  kv'[u] = kv[u] \/ (legalTransition(kv[u], kv'[u])
                              /\ kv'[u].claimEpoch >= kv[u].claimEpoch)
<1>1. CASE u = t
  <2>1. kv'[u] = r
    BY <1>1 DEF PutRecord, Typed, TypeOK
  <2>2. QED
    BY <1>1, <2>1
<1>2. CASE u # t
  BY <1>2 DEF PutRecord, Typed, TypeOK
<1>3. QED
  BY <1>1, <1>2

(* A live record changes only by a legal transition that keeps the fence.  *)
LEMMA StepIsLegal ==
    ASSUME Typed, IInv, [Next]_vars, NEW u \in live
    PROVE  kv'[u] = kv[u] \/ (legalTransition(kv[u], kv'[u])
                              /\ kv'[u].claimEpoch >= kv[u].claimEpoch)
<1> DEFINE Goal == kv'[u] = kv[u] \/ (legalTransition(kv[u], kv'[u])
                                      /\ kv'[u].claimEpoch >= kv[u].claimEpoch)
<1>1. CASE UNCHANGED kv
  BY <1>1
<1>2. ASSUME NEW p \in Proc, NEW acked \in BOOLEAN, Write(p, acked) PROVE Goal
  <2>1. /\ pc[p] = "write" /\ rev[tx[p].task] = tx[p].rev
        /\ PutRecord(tx[p].task, tx[p].next)
    BY <1>2 DEF Write, RevisionMatches
  <2>2. tx[p].task \in Task /\ tx[p].next \in TaskRec
    BY DEF Typed, TypeOK, TxRec
  <2>3. /\ legalTransition(kv[tx[p].task], tx[p].next)
        /\ tx[p].next.claimEpoch >= kv[tx[p].task].claimEpoch
    BY <2>1 DEF IInv, CASFresh
  <2>4. QED
    BY <2>1, <2>2, <2>3, PutIsLegal
<1>3. ASSUME NEW p \in Proc, CreateWrite(p) PROVE Goal
  <2>1. tx[p].task \in Task /\ FreshRecord(tx[p].seq) \in TaskRec
    BY FreshRecordType DEF Typed, TypeOK, TxRec
  <2>2. CASE tx[p].task \in live
    BY <1>3, <2>2 DEF CreateWrite, kvVars
  <2>3. CASE tx[p].task \notin live
    <3>1. PutRecord(tx[p].task, FreshRecord(tx[p].seq))
      BY <1>3, <2>3 DEF CreateWrite
    <3>2. QED
      BY <2>1, <2>3, <3>1, PutIsLegal
  <2>4. QED
    BY <2>2, <2>3
<1>4. ASSUME NEW t \in Task, CompactStamp(t) PROVE Goal
  <2> DEFINE r == [kv[t] EXCEPT !.compactLevel = 1]
  <2>1. kv[t].status = "closed" /\ PutRecord(t, r)
    BY <1>4 DEF CompactStamp
  <2>2. kv[t] \in TaskRec /\ kv[t].claimEpoch \in Nat
    BY DEF Typed, TypeOK, TaskRec
  <2>3. /\ r \in TaskRec /\ r.status = kv[t].status /\ r.claimedBy = kv[t].claimedBy
        /\ r.claimEpoch = kv[t].claimEpoch /\ r.edges = kv[t].edges
        /\ r.closedBy = kv[t].closedBy /\ r.closedAt = kv[t].closedAt
    BY <2>2 DEF TaskRec
  <2> HIDE DEF r
  <2>4. legalTransition(kv[t], r) /\ r.claimEpoch >= kv[t].claimEpoch
    BY <2>1, <2>2, <2>3 DEF legalTransition, eqNonCompaction
  <2>5. QED
    BY <2>1, <2>3, <2>4, PutIsLegal
<1>5. CASE ReplayCreated
  <2> DEFINE t == log[recov.idx].task
  <2>1. t \in Task /\ FreshRecord(recov.idx) \in TaskRec
    <3>1. recov.idx \in DOMAIN log /\ recov.idx \in Nat
      BY <1>5 DEF ReplayCreated, Draining, Typed, TypeOK, Recov
    <3>2. log[recov.idx] \in Event
      BY <3>1 DEF Typed, TypeOK
    <3>3. QED
      BY <3>1, <3>2, FreshRecordType DEF Event
  <2>2. CASE t \in live
    BY <1>5, <2>2 DEF ReplayCreated, kvVars
  <2>3. CASE t \notin live
    <3>1. PutRecord(t, FreshRecord(recov.idx))
      BY <1>5, <2>3 DEF ReplayCreated
    <3>2. QED
      BY <2>1, <2>3, <3>1, PutIsLegal
  <2>4. QED
    BY <2>2, <2>3
<1>6. CASE ReplayApply
  <2> DEFINE e == log[recov.idx]
             r == applyEvent(e, recov.idx, kv[e.task])
  <2>1. /\ e.type # "created" /\ Replayable(e, recov.idx) /\ PutRecord(e.task, r)
    BY <1>6 DEF ReplayApply
  <2>2. recov.idx \in DOMAIN log /\ recov.idx \in Nat
    BY <1>6 DEF ReplayApply, Draining, Typed, TypeOK, Recov
  <2>3. e \in Event /\ e.task \in Task /\ kv[e.task] \in TaskRec
        /\ (e.type = "linked" => e.other \in Task)
    <3>1. e \in Event
      BY <2>2 DEF Typed, TypeOK
    <3>2. e.task \in Task
      BY <3>1 DEF Event
    <3>3. QED
      BY <2>2, <3>1, <3>2 DEF Typed, TypeOK, LinkTyped
  <2>4. r \in TaskRec /\ r.claimEpoch >= kv[e.task].claimEpoch
    BY <2>1, <2>2, <2>3, ApplyEventType, ApplyEventExplained
  <2>5. legalTransition(kv[e.task], r)
    BY <2>1 DEF Replayable, validateTransition
  <2> HIDE DEF e, r
  <2>6. QED
    BY <2>1, <2>3, <2>4, <2>5, PutIsLegal
<1>7. ASSUME NEW p \in Proc, Call(p) PROVE UNCHANGED kv
  BY <1>7, CallBegins DEF Begin, kvVars
<1>8. ASSUME NEW p \in Proc,
             Publish(p) \/ ReadOK(p) \/ ReadRefused(p) \/ WriteConflict(p) \/ Abort(p) \/ Crash(p)
      PROVE  UNCHANGED kv
  BY <1>8 DEF Publish, ReadOK, ReadRefused, WriteConflict, Abort, Crash, kvVars
<1>9. ASSUME NEW t \in Task, Prune(t) PROVE UNCHANGED kv
  BY <1>9 DEF Prune
<1>10. ASSUME HubStop \/ StartRecover \/ ReplaySkip \/ ReplayFail \/ RecoverDone \/ RecoverSkipped
       PROVE  UNCHANGED kv
  BY <1>10 DEF HubStop, StartRecover, ReplaySkip, ReplayFail, RecoverDone, RecoverSkipped,
              kvVars
<1>11. CASE UNCHANGED vars
  BY <1>11, <1>1 DEF vars, kvVars
<1>12. CASE Next
  <2>1. ASSUME NEW p \in Proc, Call(p) \/ TxStep(p) \/ Abort(p) \/ Crash(p) PROVE Goal
    BY <1>1, <1>2, <1>3, <1>7, <1>8, <2>1 DEF TxStep
  <2>2. ASSUME NEW t \in Task, CompactStamp(t) \/ Prune(t) PROVE Goal
    BY <1>1, <1>4, <1>9, <2>2
  <2>3. CASE HubStop \/ StartRecover \/ Recover \/ RecoverSkipped
    BY <1>1, <1>5, <1>6, <1>10, <2>3 DEF Recover
  <2>4. QED
    BY <1>12, <2>1, <2>2, <2>3 DEF Next
<1>13. QED
  BY <1>11, <1>12

(* Invariant 13 for every interleaving: a closed record changes in its     *)
(* compaction fields only, until it is purged.                             *)
THEOREM ClosedStaysClosed == Spec => ClosedIsFinal
<1> DEFINE A == \A t \in live \cap live' :
                  kv[t].status = "closed" => eqNonCompaction(kv[t], kv'[t])
<1>1. Typed /\ IInv /\ [Next]_vars => [A]_vars
  <2> SUFFICES ASSUME Typed, IInv, [Next]_vars, NEW t \in live, kv[t].status = "closed"
               PROVE  eqNonCompaction(kv[t], kv'[t])
    OBVIOUS
  <2>1. CASE kv'[t] = kv[t]
    BY <2>1 DEF eqNonCompaction
  <2>2. CASE legalTransition(kv[t], kv'[t])
    BY <2>2 DEF legalTransition
  <2>3. QED
    BY <2>1, <2>2, StepIsLegal
<1>2. QED
  BY <1>1, StrongInvariant, PTL DEF Spec, ClosedIsFinal

(* The claim epoch of a live record never moves back, replayed claimed     *)
(* events with a guessed epoch included.                                   *)
THEOREM EpochMonotone == Spec => EpochNeverDecreases
<1> DEFINE A == \A t \in live \cap live' : kv'[t].claimEpoch >= kv[t].claimEpoch
<1>1. Typed /\ IInv /\ [Next]_vars => [A]_vars
  <2> SUFFICES ASSUME Typed, IInv, [Next]_vars, NEW t \in live
               PROVE  kv'[t].claimEpoch >= kv[t].claimEpoch
    OBVIOUS
  <2>1. kv[t].claimEpoch \in Nat
    BY DEF Typed, TypeOK, TaskRec
  <2>2. CASE kv'[t] = kv[t]
    BY <2>1, <2>2
  <2>3. QED
    BY <2>2, StepIsLegal
<1>2. QED
  BY <1>1, StrongInvariant, PTL DEF Spec, EpochNeverDecreases

-----------------------------------------------------------------------------
(* The claim fence.                                                        *)

(* A release closure and a close in flight carry the epoch of a claim that *)
(* was granted to their process; a close the server will accept is of the  *)
(* epoch the record has now.                                               *)
FencedBy(p) ==
    /\ \A t \in closure[p] : [proc |-> p, epoch |-> activeEpochs[p][t]] \in wins[t]
    /\ pc[p] # "idle" /\ tx[p].op = "unclaim" => tx[p].task \notin closure[p]
    /\ pc[p] # "idle" /\ tx[p].op = "close" =>
          [proc |-> p, epoch |-> tx[p].epoch] \in wins[tx[p].task]
    /\ pc[p] = "write" /\ tx[p].op = "close" /\ tx[p].rev = rev[tx[p].task] =>
          kv[tx[p].task].claimEpoch = tx[p].epoch

Fenced == \A p \in Proc : FencedBy(p)

(* A grant stays granted, and a record whose epoch changes has another     *)
(* revision.                                                               *)
StoreMoves ==
    \A t \in Task :
        /\ wins[t] \subseteq wins'[t]
        /\ \/ rev'[t] = rev[t] /\ kv'[t].claimEpoch = kv[t].claimEpoch
           \/ rev'[t] > rev[t]

(* A put moves the revision.                                               *)
LEMMA PutMoves ==
    ASSUME Typed, NEW t \in Task, NEW r, PutRecord(t, r)
    PROVE  \A u \in Task : \/ rev'[u] = rev[u] /\ kv'[u].claimEpoch = kv[u].claimEpoch
                           \/ rev'[u] > rev[u]
  BY DEF PutRecord, Typed, TypeOK

(* So does every step that touches a record.                               *)
LEMMA StepMoves == ASSUME Typed, IInv, [Next]_vars PROVE StoreMoves
<1>1. ASSUME UNCHANGED <<kv, rev, wins>> PROVE StoreMoves
  BY <1>1 DEF StoreMoves
<1>2. ASSUME NEW p \in Proc, NEW acked \in BOOLEAN, Write(p, acked) PROVE StoreMoves
  <2>1. PutRecord(tx[p].task, tx[p].next) /\ Granted(p)
    BY <1>2 DEF Write
  <2>2. tx[p].task \in Task /\ wins \in [Task -> SUBSET Win]
    BY DEF Typed, TypeOK, TxRec
  <2>3. \A t \in Task : wins[t] \subseteq wins'[t]
    BY <2>1, <2>2 DEF Granted
  <2>4. QED
    BY <2>1, <2>2, <2>3, PutMoves DEF StoreMoves
<1>3. ASSUME NEW p \in Proc, CreateWrite(p) PROVE StoreMoves
  <2>1. tx[p].task \in Task /\ UNCHANGED wins
    BY <1>3 DEF CreateWrite, Typed, TypeOK, TxRec
  <2>2. UNCHANGED kvVars \/ PutRecord(tx[p].task, FreshRecord(tx[p].seq))
    BY <1>3 DEF CreateWrite
  <2>3. QED
    BY <1>1, <2>1, <2>2, PutMoves DEF StoreMoves, kvVars
<1>4. ASSUME NEW t \in Task, CompactStamp(t) \/ Prune(t) PROVE StoreMoves
  <2>1. CASE CompactStamp(t)
    BY <2>1, PutMoves DEF CompactStamp, StoreMoves
  <2>2. CASE Prune(t)
    BY <2>2 DEF Prune, StoreMoves, Typed, TypeOK
  <2>3. QED
    BY <1>4, <2>1, <2>2
<1>5. CASE ReplayCreated \/ ReplayApply
  <2>1. Draining /\ UNCHANGED wins
    BY <1>5 DEF ReplayCreated, ReplayApply
  <2>2. recov.idx \in DOMAIN log /\ log[recov.idx] \in Event
    BY <2>1 DEF Draining, Typed, TypeOK, Recov
  <2>3. log[recov.idx].task \in Task
    BY <2>2 DEF Event
  <2>4. UNCHANGED kvVars \/ \E r : PutRecord(log[recov.idx].task, r)
    BY <1>5 DEF ReplayCreated, ReplayApply
  <2>5. QED
    BY <1>1, <2>1, <2>3, <2>4, PutMoves DEF StoreMoves, kvVars
<1>6. ASSUME NEW p \in Proc, Call(p) PROVE StoreMoves
  BY <1>1, <1>6, CallBegins DEF Begin, kvVars
<1>7. ASSUME NEW p \in Proc,
             Publish(p) \/ ReadOK(p) \/ ReadRefused(p) \/ WriteConflict(p) \/ Abort(p) \/ Crash(p)
      PROVE  StoreMoves
  BY <1>1, <1>7 DEF Publish, ReadOK, ReadRefused, WriteConflict, Abort, Crash, kvVars
<1>8. ASSUME HubStop \/ StartRecover \/ ReplaySkip \/ ReplayFail \/ RecoverDone \/ RecoverSkipped
      PROVE  StoreMoves
  BY <1>1, <1>8 DEF HubStop, StartRecover, ReplaySkip, ReplayFail, RecoverDone, RecoverSkipped,
                    kvVars
<1>9. CASE UNCHANGED vars
  BY <1>1, <1>9 DEF vars, kvVars
<1>10. QED
  BY <1>2, <1>3, <1>4, <1>5, <1>6, <1>7, <1>8, <1>9 DEF Next, TxStep, Recover

(* A process that does not move keeps its fence.                           *)
LEMMA FenceKept ==
    ASSUME Typed, IInv, StoreMoves, NEW q \in Proc, FencedBy(q),
           pc'[q] = pc[q], tx'[q] = tx[q], closure'[q] = closure[q],
           activeEpochs'[q] = activeEpochs[q]
    PROVE  FencedBy(q)'
<1>1. tx[q].task \in Task /\ closure[q] \subseteq Task
  BY DEF Typed, TypeOK, TxRec
<1>2. pc[q] = "write" => tx[q].rev <= rev[tx[q].task]
  BY DEF IInv, CASFresh
<1>3. rev[tx[q].task] \in Nat /\ tx[q].rev \in Nat
  BY <1>1 DEF Typed, TypeOK, TxRec
<1>4. pc[q] = "write" /\ tx[q].rev = rev'[tx[q].task] =>
         /\ rev'[tx[q].task] = rev[tx[q].task]
         /\ kv'[tx[q].task].claimEpoch = kv[tx[q].task].claimEpoch
  BY <1>1, <1>2, <1>3 DEF StoreMoves
<1>5. \A t \in Task : wins[t] \subseteq wins'[t]
  BY DEF StoreMoves
<1>6. QED
  BY <1>1, <1>4, <1>5 DEF FencedBy

(* What a verb that starts brings along.                                   *)
LEMMA CallFact ==
    ASSUME Typed, NEW p \in Proc, Call(p)
    PROVE  \E x :
              /\ Begin(p, x) /\ \A q \in Proc : closure'[q] \subseteq closure[q]
              /\ x.op = "close" => x.task \in closure[p] /\ x.epoch = activeEpochs[p][x.task]
              /\ x.op = "unclaim" => x.task \notin closure'[p]
              /\ x.op = "create" =>
                    ~Known(x.task) /\ \A q \in Proc : pc[q] # "idle" => tx[q].task # x.task
              /\ x.op # "create" => x.task \in live \/ x.task \in closure[p] \/ Known(x.task)
<1> DEFINE Fact(x) ==
              /\ Begin(p, x) /\ \A q \in Proc : closure'[q] \subseteq closure[q]
              /\ x.op = "close" => x.task \in closure[p] /\ x.epoch = activeEpochs[p][x.task]
              /\ x.op = "unclaim" => x.task \notin closure'[p]
              /\ x.op = "create" =>
                    ~Known(x.task) /\ \A q \in Proc : pc[q] # "idle" => tx[q].task # x.task
              /\ x.op # "create" => x.task \in live \/ x.task \in closure[p] \/ Known(x.task)
<1>1. PICK t \in Task :
        \/ BeginCreate(p, t)
        \/ BeginClaim(p, t)
        \/ BeginReclaim(p, t)
        \/ BeginHandoff(p, t)
        \/ BeginCliClaim(p, t)
        \/ BeginRelease(p, t)
        \/ BeginClose(p, t)
        \/ \E a \in {AgentOf[p], NoAgent} : BeginLegacyClose(p, t, a)
        \/ \E o \in Task : BeginLink(p, t, o)
        \/ \E f \in UpdateFlags, s \in Status, a \in AgentOrNone :
               BeginUpdate(p, t, f, s, a)
  BY DEF Call
<1>2. ASSUME NEW op \in Op, NEW x, x.op = op, x.task = t, Begin(p, x), UNCHANGED closure,
             op \notin {"create", "unclaim", "close"}, t \in live \/ Known(t)
      PROVE  \E y : Fact(y)
  BY <1>2
<1>3. ASSUME NEW op \in Op
      PROVE  Args(p, op, t).op = op /\ Args(p, op, t).task = t
  BY DEF Args, TxInit
<1>4. CASE BeginCreate(p, t)
  BY <1>3, <1>4 DEF BeginCreate, Op
<1>5. CASE BeginClaim(p, t)
  <2> DEFINE x == [Args(p, "claim", t) EXCEPT !.epoch = kv[t].claimEpoch + 1]
  <2>1. x.op = "claim" /\ x.task = t
    BY DEF Args, TxInit
  <2>2. Begin(p, x) /\ UNCHANGED closure /\ t \in live
    BY <1>5 DEF BeginClaim
  <2> HIDE DEF x
  <2>3. QED
    BY <1>2, <2>1, <2>2 DEF Op
<1>6. CASE BeginReclaim(p, t)
  <2> DEFINE x == [Args(p, "reclaim", t) EXCEPT !.epoch = kv[t].claimEpoch + 1]
  <2>1. x.op = "reclaim" /\ x.task = t
    BY DEF Args, TxInit
  <2>2. Begin(p, x) /\ UNCHANGED closure /\ t \in live
    BY <1>6 DEF BeginReclaim
  <2> HIDE DEF x
  <2>3. QED
    BY <1>2, <2>1, <2>2 DEF Op
<1>7. CASE BeginHandoff(p, t)
  <2> DEFINE x == [Args(p, "handoff", t) EXCEPT !.epoch = kv[t].claimEpoch + 1,
                                                !.from = kv[t].claimedBy]
  <2>1. x.op = "handoff" /\ x.task = t
    BY DEF Args, TxInit
  <2>2. Begin(p, x) /\ UNCHANGED closure /\ t \in live
    BY <1>7 DEF BeginHandoff
  <2> HIDE DEF x
  <2>3. QED
    BY <1>2, <2>1, <2>2 DEF Op
<1>8. CASE BeginCliClaim(p, t)
  BY <1>2, <1>3, <1>8 DEF BeginCliClaim, Op
<1>9. CASE BeginRelease(p, t)
  <2> DEFINE x == Args(p, "unclaim", t)
  <2>1. x.op = "unclaim" /\ x.task = t
    BY <1>3 DEF Op
  <2>2. Begin(p, x) /\ t \in closure[p] /\ closure' = [closure EXCEPT ![p] = @ \ {t}]
    BY <1>9 DEF BeginRelease
  <2> HIDE DEF x
  <2>3. closure \in [Proc -> SUBSET Task]
    BY DEF Typed, TypeOK
  <2>4. t \notin closure'[p] /\ \A q \in Proc : closure'[q] \subseteq closure[q]
    BY <2>2, <2>3
  <2>5. Fact(x)
    BY <2>1, <2>2, <2>4
  <2>6. QED
    BY <2>5
<1>10. CASE BeginClose(p, t)
  <2> DEFINE x == [Args(p, "close", t) EXCEPT !.epoch = activeEpochs[p][t]]
  <2>1. x.op = "close" /\ x.task = t /\ x.epoch = activeEpochs[p][t]
    BY DEF Args, TxInit
  <2>2. Begin(p, x) /\ UNCHANGED closure /\ t \in closure[p]
    BY <1>10 DEF BeginClose
  <2> HIDE DEF x
  <2>3. Fact(x)
    BY <2>1, <2>2
  <2>4. QED
    BY <2>3
<1>11. ASSUME NEW a, BeginLegacyClose(p, t, a) PROVE \E y : Fact(y)
  <2> DEFINE x == [Args(p, "legacyclose", t) EXCEPT !.agent = a]
  <2>1. x.op = "legacyclose" /\ x.task = t
    BY DEF Args, TxInit
  <2>2. Begin(p, x) /\ UNCHANGED closure /\ t \in live
    BY <1>11 DEF BeginLegacyClose
  <2> HIDE DEF x
  <2>3. QED
    BY <1>2, <2>1, <2>2 DEF Op
<1>12. ASSUME NEW o, BeginLink(p, t, o) PROVE \E y : Fact(y)
  <2> DEFINE x == [Args(p, "link", t) EXCEPT !.other = o]
  <2>1. x.op = "link" /\ x.task = t
    BY DEF Args, TxInit
  <2>2. Begin(p, x) /\ UNCHANGED closure /\ t \in live
    BY <1>12 DEF BeginLink
  <2> HIDE DEF x
  <2>3. QED
    BY <1>2, <2>1, <2>2 DEF Op
<1>13. ASSUME NEW f, NEW s, NEW a, BeginUpdate(p, t, f, s, a) PROVE \E y : Fact(y)
  <2> DEFINE w == [Args(p, "update", t) EXCEPT !.flags = f, !.status = s, !.from = a]
             after == updateMutator(w, kv[t])
             x == [w EXCEPT !.changed = diffTaskFields(kv[t], after), !.status = after.status]
  <2>1. x.op = "update" /\ x.task = t
    BY DEF Args, TxInit
  <2>2. Begin(p, x) /\ UNCHANGED closure /\ t \in live
    BY <1>13 DEF BeginUpdate
  <2> HIDE DEF x
  <2>3. QED
    BY <1>2, <2>1, <2>2 DEF Op
<1>14. QED
  BY <1>1, <1>4, <1>5, <1>6, <1>7, <1>8, <1>9, <1>10, <1>11, <1>12, <1>13

(* A transaction that ends: a granted claim is in wins, a release has no   *)
(* closure left.                                                           *)
LEMMA FinishFenced ==
    ASSUME Typed, StoreMoves, NEW p \in Proc, FencedBy(p), NEW ok \in BOOLEAN, Finish(p, ok),
           pc[p] # "idle",
           tx[p].op \in ClaimOp /\ ok =>
              [proc |-> p, epoch |-> tx[p].next.claimEpoch] \in wins'[tx[p].task]
    PROVE  FencedBy(p)'
<1> DEFINE x == tx[p]
<1>1. /\ pc \in [Proc -> {"idle", "publish", "read", "write"}]
      /\ closure \in [Proc -> SUBSET Task] /\ activeEpochs \in [Proc -> [Task -> Nat]]
      /\ x.task \in Task
  BY DEF Typed, TypeOK, TxRec
<1>2. pc'[p] = "idle"
  BY <1>1 DEF Finish
<1>3. ASSUME NEW t \in closure'[p]
      PROVE  [proc |-> p, epoch |-> activeEpochs'[p][t]] \in wins'[t]
  <2>1. CASE x.op \in ClaimOp /\ ok
    <3>1. /\ closure'[p] = closure[p] \cup {x.task}
          /\ activeEpochs'[p][x.task] = x.next.claimEpoch
          /\ \A u \in Task : u # x.task => activeEpochs'[p][u] = activeEpochs[p][u]
      BY <1>1, <2>1 DEF Finish
    <3>2. QED
      BY <1>1, <2>1, <3>1 DEF FencedBy, StoreMoves
  <2>2. CASE x.op = "unclaim"
    <3>1. /\ closure'[p] = closure[p] /\ x.task \notin closure[p]
          /\ \A u \in Task : u # x.task => activeEpochs'[p][u] = activeEpochs[p][u]
      BY <1>1, <2>2 DEF Finish, ClaimOp, FencedBy
    <3>2. QED
      BY <1>1, <3>1 DEF FencedBy, StoreMoves
  <2>3. CASE ~(x.op \in ClaimOp /\ ok) /\ x.op # "unclaim"
    <3>1. closure' = closure /\ activeEpochs' = activeEpochs
      BY <2>3 DEF Finish
    <3>2. QED
      BY <1>1, <3>1 DEF FencedBy, StoreMoves
  <2>4. QED
    BY <2>1, <2>2, <2>3
<1>4. QED
  BY <1>2, <1>3 DEF FencedBy

(* The other processes are not touched by it.                              *)
LEMMA FinishOthers ==
    ASSUME Typed, NEW p \in Proc, NEW ok, Finish(p, ok), NEW q \in Proc, q # p
    PROVE  /\ pc'[q] = pc[q] /\ tx'[q] = tx[q] /\ closure'[q] = closure[q]
           /\ activeEpochs'[q] = activeEpochs[q]
  BY DEF Finish, Typed, TypeOK

(* Steps of a process keep the fence.                                      *)
LEMMA TxFenced ==
    ASSUME Typed, IInv, Fenced, StoreMoves, NEW p \in Proc, TxStep(p) \/ Abort(p) \/ Crash(p)
    PROVE  Fenced'
<1> SUFFICES ASSUME NEW q \in Proc PROVE FencedBy(q)'
  BY DEF Fenced
<1>1. FencedBy(q) /\ FencedBy(p)
  BY DEF Fenced
<1>2. /\ pc \in [Proc -> {"idle", "publish", "read", "write"}] /\ tx \in [Proc -> TxRec]
      /\ closure \in [Proc -> SUBSET Task] /\ activeEpochs \in [Proc -> [Task -> Nat]]
      /\ wins \in [Task -> SUBSET Win] /\ tx[p].task \in Task
  BY DEF Typed, TypeOK, TxRec
<1>3. ASSUME NEW ok \in BOOLEAN, Finish(p, ok), pc[p] # "idle",
             tx[p].op \in ClaimOp /\ ok =>
                [proc |-> p, epoch |-> tx[p].next.claimEpoch] \in wins'[tx[p].task]
      PROVE  FencedBy(q)'
  <2>1. CASE q = p
    BY <1>1, <1>3, <2>1, FinishFenced
  <2>2. CASE q # p
    BY <1>1, <1>3, <2>2, FinishOthers, FenceKept
  <2>3. QED
    BY <2>1, <2>2
<1>4. ASSUME NEW s \in {"read", "write"}, NEW y, pc' = [pc EXCEPT ![p] = s],
             tx' = [tx EXCEPT ![p] = y], UNCHANGED <<closure, activeEpochs>>,
             y.op = tx[p].op, y.task = tx[p].task, y.epoch = tx[p].epoch, pc[p] # "idle",
             s = "write" /\ y.op = "close" => kv'[y.task].claimEpoch = y.epoch
      PROVE  FencedBy(q)'
  <2>1. CASE q = p
    <3>1. pc'[p] = s /\ tx'[p] = y /\ closure'[p] = closure[p]
          /\ activeEpochs'[p] = activeEpochs[p]
      BY <1>2, <1>4
    <3>2. QED
      BY <1>1, <1>2, <1>4, <2>1, <3>1 DEF FencedBy, StoreMoves
  <2>2. CASE q # p
    <3>1. pc'[q] = pc[q] /\ tx'[q] = tx[q]
      BY <1>2, <1>4, <2>2
    <3>2. QED
      BY <1>1, <1>4, <3>1, FenceKept
  <2>3. QED
    BY <2>1, <2>2
<1>5. CASE Publish(p)
  <2> DEFINE y == [tx[p] EXCEPT !.seq = Len(log) + 1]
  <2>1. y.op = tx[p].op /\ y.task = tx[p].task /\ y.epoch = tx[p].epoch
    BY <1>2 DEF TxRec
  <2>2. /\ pc' = [pc EXCEPT ![p] = "read"] /\ tx' = [tx EXCEPT ![p] = y] /\ pc[p] # "idle"
        /\ UNCHANGED <<closure, activeEpochs>>
    BY <1>5 DEF Publish, procVars
  <2> HIDE DEF y
  <2>3. QED
    BY <1>4, <2>1, <2>2
<1>6. CASE ReadOK(p)
  <2> DEFINE y == [tx[p] EXCEPT !.rev = rev[tx[p].task],
                                !.next = Stamped(tx[p], kv[tx[p].task], tx[p].seq)]
  <2>1. y.op = tx[p].op /\ y.task = tx[p].task /\ y.epoch = tx[p].epoch
    BY <1>2 DEF TxRec
  <2>2. /\ pc' = [pc EXCEPT ![p] = "write"] /\ tx' = [tx EXCEPT ![p] = y] /\ pc[p] # "idle"
        /\ UNCHANGED <<closure, activeEpochs, kv>> /\ Readable(tx[p], kv[tx[p].task])
    BY <1>6 DEF ReadOK, procVars, kvVars
  <2> HIDE DEF y
  <2>3. tx[p].op = "close" => kv[tx[p].task].claimEpoch = tx[p].epoch
    BY <2>2 DEF Readable, Accepts, closeMutatorOK
  <2>4. QED
    BY <1>4, <2>1, <2>2, <2>3
<1>7. CASE ReadRefused(p)
  BY <1>3, <1>7 DEF ReadRefused
<1>8. CASE WriteConflict(p)
  <2>1. CASE Finish(p, FALSE)
    BY <1>3, <1>8, <2>1 DEF WriteConflict
  <2>2. CASE /\ pc' = [pc EXCEPT ![p] = "read"]
             /\ tx' = [tx EXCEPT ![p].tries = @ + 1]
             /\ UNCHANGED procVars
    <3> DEFINE y == [tx[p] EXCEPT !.tries = @ + 1]
    <3>1. y.op = tx[p].op /\ y.task = tx[p].task /\ y.epoch = tx[p].epoch
      BY <1>2 DEF TxRec
    <3>2. tx' = [tx EXCEPT ![p] = y] /\ pc[p] # "idle"
      BY <1>8, <2>2 DEF WriteConflict
    <3> HIDE DEF y
    <3>3. QED
      BY <1>4, <2>2, <3>1, <3>2 DEF procVars
  <2>3. QED
    BY <1>8, <2>1, <2>2 DEF WriteConflict
<1>9. CASE CreateWrite(p)
  BY <1>3, <1>9 DEF CreateWrite, ClaimOp
<1>10. ASSUME NEW acked \in BOOLEAN, Write(p, acked) PROVE FencedBy(q)'
  <2>1. tx[p].op \in ClaimOp =>
           [proc |-> p, epoch |-> tx[p].next.claimEpoch] \in wins'[tx[p].task]
    BY <1>2, <1>10 DEF Write, Granted
  <2>2. QED
    BY <1>3, <1>10, <2>1 DEF Write
<1>11. CASE Abort(p)
  BY <1>3, <1>11 DEF Abort
<1>12. CASE Crash(p)
  <2>1. CASE q = p
    <3>1. pc'[p] = "idle" /\ closure'[p] = {}
      BY <1>2, <1>12 DEF Crash
    <3>2. QED
      BY <2>1, <3>1 DEF FencedBy
  <2>2. CASE q # p
    <3>1. /\ pc'[q] = pc[q] /\ tx'[q] = tx[q] /\ closure'[q] = closure[q]
          /\ activeEpochs'[q] = activeEpochs[q]
      BY <1>2, <1>12, <2>2 DEF Crash
    <3>2. QED
      BY <1>1, <3>1, FenceKept
  <2>3. QED
    BY <2>1, <2>2
<1>13. QED
  BY <1>5, <1>6, <1>7, <1>8, <1>9, <1>10, <1>11, <1>12 DEF TxStep

(* So do the verbs that start, and everything else.                        *)
LEMMA NextFenced == Typed /\ IInv /\ Fenced /\ [Next]_vars => Fenced'
<1> SUFFICES ASSUME Typed, IInv, Fenced, [Next]_vars PROVE Fenced'
  OBVIOUS
<1>1. StoreMoves
  BY StepMoves
<1>2. ASSUME UNCHANGED <<pc, tx, closure, activeEpochs>> PROVE Fenced'
  BY <1>1, <1>2, FenceKept DEF Fenced
<1>3. ASSUME NEW p \in Proc, Call(p) PROVE Fenced'
  <2>1. PICK x :
          /\ Begin(p, x) /\ \A q \in Proc : closure'[q] \subseteq closure[q]
          /\ x.op = "close" => x.task \in closure[p] /\ x.epoch = activeEpochs[p][x.task]
          /\ x.op = "unclaim" => x.task \notin closure'[p]
    BY <1>3, CallFact
  <2>2. /\ pc' = [pc EXCEPT ![p] = "publish"] /\ tx' = [tx EXCEPT ![p] = x]
        /\ UNCHANGED <<kv, rev, wins, activeEpochs>>
    BY <2>1 DEF Begin, kvVars
  <2>3. pc'[p] = "publish" /\ tx'[p] = x
    BY <2>2 DEF Typed, TypeOK
  <2>4. \A q \in Proc : q # p => pc'[q] = pc[q] /\ tx'[q] = tx[q]
    BY <2>2 DEF Typed, TypeOK
  <2>5. ASSUME NEW q \in Proc PROVE FencedBy(q)'
    <3>1. FencedBy(q)
      BY DEF Fenced
    <3>2. CASE q = p
      BY <2>1, <2>2, <2>3, <3>1, <3>2 DEF FencedBy
    <3>3. CASE q # p
      BY <2>1, <2>2, <2>4, <3>1, <3>3 DEF FencedBy
    <3>4. QED
      BY <3>2, <3>3
  <2>6. QED
    BY <2>5 DEF Fenced
<1>4. ASSUME NEW t \in Task, CompactStamp(t) \/ Prune(t) PROVE Fenced'
  BY <1>2, <1>4 DEF CompactStamp, Prune, txVars, procVars
<1>5. ASSUME HubStop \/ StartRecover \/ RecoverSkipped \/ RecoverDone \/ ReplaySkip
             \/ ReplayCreated \/ ReplayApply \/ ReplayFail
      PROVE  Fenced'
  BY <1>2, <1>5 DEF HubStop, StartRecover, RecoverSkipped, RecoverDone, ReplaySkip,
     ReplayCreated, ReplayApply, ReplayFail, txVars, procVars
<1>6. CASE UNCHANGED vars
  BY <1>2, <1>6 DEF vars, txVars, procVars
<1>7. ASSUME NEW p \in Proc, TxStep(p) \/ Abort(p) \/ Crash(p) PROVE Fenced'
  BY <1>1, <1>7, TxFenced
<1>8. QED
  BY <1>3, <1>4, <1>5, <1>6, <1>7 DEF Next, Recover

(* The claim fence holds for every interleaving: when the close of a       *)
(* process lands, no claim of the task is newer than its own.              *)
THEOREM FenceHolds == Spec => SupersededNeverCloses
<1> DEFINE Lands(p) ==
             /\ pc[p] = "write" /\ tx[p].op = "close"
             /\ kv[tx[p].task].status # "closed" /\ kv'[tx[p].task].status = "closed"
             /\ pc'[p] = "idle" /\ tx[p].task \notin archive
           Newest(p) == \A w \in wins[tx[p].task] :
                           /\ w.epoch <= tx[p].epoch
                           /\ w.epoch = tx[p].epoch => w.proc = p
<1>1. Init => Fenced
  BY DEF Init, Fenced, FencedBy
<1>2. Spec => [](Typed /\ IInv /\ Fenced)
  BY <1>1, InitTyped, NextTyped, InitIInv, NextIInv, NextFenced, PTL DEF Spec
<1>3. Typed /\ IInv /\ Fenced /\ [Next]_vars => [\A p \in Proc : Lands(p) => Newest(p)]_vars
  <2> SUFFICES ASSUME Typed, IInv, Fenced, Next, NEW p \in Proc, Lands(p)
               PROVE  Newest(p)
    OBVIOUS
  <2>1. tx[p].rev = rev[tx[p].task]
    <3>1. ASSUME NEW q \in Proc, Call(q) PROVE FALSE
      BY <3>1, CallBegins DEF Begin, kvVars
    <3>2. ASSUME NEW q \in Proc, Write(q, TRUE) \/ Write(q, FALSE) PROVE tx[p].rev = rev[tx[p].task]
      <4>1. CASE q = p
        BY <3>2, <4>1 DEF Write, RevisionMatches
      <4>2. CASE q # p
        BY <3>2, <4>2, FinishOthers DEF Write
      <4>3. QED
        BY <4>1, <4>2
    <3>3. ASSUME NEW q \in Proc, CreateWrite(q) PROVE FALSE
      <4>1. tx[q].task \in Task /\ Finish(q, TRUE)
        BY <3>3 DEF CreateWrite, Typed, TypeOK, TxRec
      <4>2. CASE q = p
        BY <3>3, <4>2 DEF CreateWrite
      <4>3. CASE q # p
        BY <4>1, <4>3, FinishOthers
      <4>4. QED
        BY <4>2, <4>3
    <3>4. ASSUME NEW q \in Proc,
                 Publish(q) \/ ReadOK(q) \/ ReadRefused(q) \/ WriteConflict(q) \/ Abort(q) \/ Crash(q)
          PROVE  FALSE
      BY <3>4 DEF Publish, ReadOK, ReadRefused, WriteConflict, Abort, Crash, kvVars
    <3>5. ASSUME NEW t \in Task, CompactStamp(t) \/ Prune(t) PROVE FALSE
      BY <3>5 DEF CompactStamp, Prune, txVars
    <3>6. ASSUME HubStop \/ StartRecover \/ RecoverSkipped \/ Recover PROVE FALSE
      BY <3>6 DEF HubStop, StartRecover, RecoverSkipped, Recover, RecoverDone, ReplaySkip,
         ReplayCreated, ReplayApply, ReplayFail, txVars
    <3>7. QED
      BY <3>1, <3>2, <3>3, <3>4, <3>5, <3>6 DEF Next, TxStep
  <2>2. /\ [proc |-> p, epoch |-> tx[p].epoch] \in wins[tx[p].task]
        /\ kv[tx[p].task].claimEpoch = tx[p].epoch
    BY <2>1 DEF Fenced, FencedBy
  <2>3. tx[p].task \in Task \ archive
    BY DEF Typed, TypeOK, TxRec
  <2>4. \A w \in wins[tx[p].task] :
           /\ w.epoch <= tx[p].epoch
           /\ w.epoch = tx[p].epoch => w = [proc |-> p, epoch |-> tx[p].epoch]
    BY <2>2, <2>3 DEF IInv, GrantsBelow, ClaimEpochsUnique
  <2>5. QED
    BY <2>4
<1>4. QED
  BY <1>2, <1>3, PTL DEF Spec, SupersededNeverCloses

-----------------------------------------------------------------------------
(* Recovery catches up.                                                    *)

(* A task's first event is the one that created it.                        *)
CreatedFirst ==
    \A i \in DOMAIN log : log[i].type = "created" =>
        \A j \in DOMAIN log : j < i => log[j].task # log[i].task

(* A verb knows the task it is about, unless it creates it.                *)
TasksKnown ==
    \A p \in Proc :
        /\ \A t \in closure[p] : Known(t)
        /\ pc[p] = "publish" /\ tx[p].op # "create" => Known(tx[p].task)
        /\ pc[p] = "publish" /\ tx[p].op = "create" =>
              /\ ~Known(tx[p].task)
              /\ \A q \in Proc : pc[q] = "publish" /\ q # p => tx[q].task # tx[p].task

(* A recovery with nothing in flight sees the records as they are, and has *)
(* caught up to the event it has come to.                                  *)
Drained ==
    hub = "recovering" /\ recov.quiet =>
        /\ recov.result = "none"
        /\ \A p \in Proc : pc[p] = "idle"
        /\ recov.idx <= Len(log) + 1
        /\ \A t \in Task : recov.seen[t] = IF t \in live THEN kv[t].lastEventSeq ELSE Unseen
        /\ \A i \in DOMAIN log : i < recov.idx =>
              log[i].task \in live /\ kv[log[i].task].lastEventSeq >= i

(* Steps after which no more transactions wait to publish.                 *)
LEMMA KnownKept ==
    ASSUME TasksKnown, UNCHANGED log,
           \A q \in Proc : /\ pc'[q] = "publish" => pc[q] = "publish" /\ tx'[q] = tx[q]
                           /\ \A t \in closure'[q] : t \in closure[q] \/ Known(t)
    PROVE  TasksKnown'
  BY DEF TasksKnown, Known

(* The first event of a task is of the verb that creates it.               *)
LEMMA PublishKnown ==
    ASSUME Typed, TasksKnown, CreatedFirst, NEW p \in Proc, Publish(p)
    PROVE  TasksKnown' /\ CreatedFirst'
<1> DEFINE e == EventOf(tx[p])
<1>1. /\ pc[p] = "publish" /\ log' = Append(log, e)
      /\ pc' = [pc EXCEPT ![p] = "read"] /\ tx' = [tx EXCEPT ![p].seq = Len(log) + 1]
      /\ UNCHANGED closure
  BY DEF Publish, procVars
<1>2. tx[p] \in TxRec /\ log \in Seq(Event) /\ e \in Event
  BY EventOfType DEF Typed, TypeOK
<1>3. e.task = tx[p].task /\ (e.type = "created" => tx[p].op = "create")
  BY <1>2 DEF EventOf, OpEvent, TxRec, Op
<1> HIDE DEF e
<1>4. /\ DOMAIN log = 1 .. Len(log) /\ DOMAIN log' = 1 .. (Len(log) + 1) /\ Len(log) \in Nat
      /\ \A i \in DOMAIN log : log'[i] = log[i]
      /\ log'[Len(log) + 1] = e
  BY <1>1, <1>2
<1>5. \A t : Known(t)' <=> Known(t) \/ t = tx[p].task
  BY <1>3, <1>4 DEF Known
<1>6. /\ pc'[p] = "read"
      /\ \A q \in Proc : q # p => pc'[q] = pc[q] /\ tx'[q] = tx[q]
  BY <1>1 DEF Typed, TypeOK
<1>7. TasksKnown'
  BY <1>1, <1>5, <1>6 DEF TasksKnown
<1>8. CreatedFirst'
  <2> SUFFICES ASSUME NEW i \in DOMAIN log', log'[i].type = "created",
                      NEW j \in DOMAIN log', j < i
               PROVE  log'[j].task # log'[i].task
    BY DEF CreatedFirst
  <2>1. j \in DOMAIN log
    BY <1>4
  <2>2. CASE i \in DOMAIN log
    BY <1>4, <2>1, <2>2 DEF CreatedFirst
  <2>3. CASE i = Len(log) + 1
    <3>1. ~Known(tx[p].task)
      BY <1>1, <1>3, <1>4, <2>3 DEF TasksKnown
    <3>2. QED
      BY <1>3, <1>4, <2>1, <2>3, <3>1 DEF Known
  <2>4. QED
    BY <1>4, <2>2, <2>3
<1>9. QED
  BY <1>7, <1>8

(* A verb that starts knows its task, or makes it.                         *)
LEMMA CallKnown ==
    ASSUME Typed, IInv, TasksKnown, NEW p \in Proc, Call(p) PROVE TasksKnown'
<1>1. PICK x :
        /\ Begin(p, x) /\ \A q \in Proc : closure'[q] \subseteq closure[q]
        /\ x.op = "create" =>
              ~Known(x.task) /\ \A q \in Proc : pc[q] # "idle" => tx[q].task # x.task
        /\ x.op # "create" => x.task \in live \/ x.task \in closure[p] \/ Known(x.task)
  BY CallFact
<1>2. /\ pc' = [pc EXCEPT ![p] = "publish"] /\ tx' = [tx EXCEPT ![p] = x] /\ UNCHANGED log
  BY <1>1 DEF Begin, logVars
<1>3. /\ pc'[p] = "publish" /\ tx'[p] = x
      /\ \A q \in Proc : q # p => pc'[q] = pc[q] /\ tx'[q] = tx[q]
  BY <1>2 DEF Typed, TypeOK
<1>4. \A t \in live : Known(t)
  BY DEF IInv, ProjectionMatchesStamp, Known
<1>5. x.op # "create" => Known(x.task)
  BY <1>1, <1>4 DEF TasksKnown
<1>6. \A t : Known(t)' <=> Known(t)
  BY <1>2 DEF Known
<1>7. ASSUME NEW q \in Proc
      PROVE  /\ \A t \in closure'[q] : Known(t)
             /\ pc'[q] = "publish" /\ tx'[q].op # "create" => Known(tx'[q].task)
             /\ pc'[q] = "publish" /\ tx'[q].op = "create" =>
                  /\ ~Known(tx'[q].task)
                  /\ \A r \in Proc : pc'[r] = "publish" /\ r # q => tx'[r].task # tx'[q].task
  <2>1. CASE q = p
    BY <1>1, <1>3, <1>5, <2>1 DEF TasksKnown
  <2>2. CASE q # p
    BY <1>1, <1>3, <1>5, <2>2 DEF TasksKnown
  <2>3. QED
    BY <2>1, <2>2
<1>8. QED
  BY <1>6, <1>7 DEF TasksKnown

(* A granted claim is of a task on the log, and its closure with it.       *)
LEMMA FinishKnown ==
    ASSUME Typed, IInv, TasksKnown, NEW p \in Proc, NEW ok \in BOOLEAN, Finish(p, ok),
           UNCHANGED log, ok => pc[p] \in {"read", "write"}
    PROVE  TasksKnown'
<1>1. /\ pc'[p] = "idle" /\ closure'[p] \subseteq closure[p] \cup (IF ok THEN {tx[p].task} ELSE {})
  BY DEF Finish, Typed, TypeOK
<1>2. ok => Known(tx[p].task)
  <2> SUFFICES ASSUME ok PROVE Known(tx[p].task)
    OBVIOUS
  <2>1. tx[p].seq \in DOMAIN log /\ log[tx[p].seq] = EventOf(tx[p])
    BY DEF IInv, InFlight
  <2>2. EventOf(tx[p]).task = tx[p].task
    BY DEF EventOf
  <2>3. QED
    BY <2>1, <2>2 DEF Known
<1>3. ASSUME NEW q \in Proc
      PROVE  /\ pc'[q] = "publish" => pc[q] = "publish" /\ tx'[q] = tx[q]
             /\ \A t \in closure'[q] : t \in closure[q] \/ Known(t)
  <2>1. CASE q = p
    BY <1>1, <1>2, <2>1
  <2>2. CASE q # p
    BY <2>2, FinishOthers
  <2>3. QED
    BY <2>1, <2>2
<1>4. QED
  BY <1>3, KnownKept

(* Every step keeps both.                                                  *)
LEMMA NextKnown ==
    Typed /\ IInv /\ TasksKnown /\ CreatedFirst /\ [Next]_vars => TasksKnown' /\ CreatedFirst'
<1> SUFFICES ASSUME Typed, IInv, TasksKnown, CreatedFirst, [Next]_vars
             PROVE  TasksKnown' /\ CreatedFirst'
  OBVIOUS
<1>1. ASSUME UNCHANGED log PROVE CreatedFirst'
  BY <1>1 DEF CreatedFirst
<1>2. ASSUME UNCHANGED <<log, pc, tx, closure>> PROVE TasksKnown'
  BY <1>2, KnownKept
<1>3. ASSUME NEW p \in Proc, Call(p) PROVE TasksKnown' /\ UNCHANGED log
  BY <1>3, CallKnown, CallBegins DEF Begin, logVars
<1>4. ASSUME NEW p \in Proc, ReadOK(p) PROVE TasksKnown' /\ UNCHANGED log
  <2>1. /\ pc' = [pc EXCEPT ![p] = "write"] /\ UNCHANGED <<log, closure>>
        /\ \E y : tx' = [tx EXCEPT ![p] = y]
    BY <1>4 DEF ReadOK, logVars, procVars
  <2>2. \A q \in Proc : pc'[q] = "publish" => pc[q] = "publish" /\ tx'[q] = tx[q]
    BY <2>1 DEF Typed, TypeOK
  <2>3. QED
    BY <2>1, <2>2, KnownKept
<1>5. ASSUME NEW p \in Proc, WriteConflict(p) PROVE TasksKnown' /\ UNCHANGED log
  <2>1. UNCHANGED log
    BY <1>5 DEF WriteConflict
  <2>2. CASE Finish(p, FALSE)
    BY <2>1, <2>2, FinishKnown
  <2>3. CASE /\ pc' = [pc EXCEPT ![p] = "read"]
             /\ tx' = [tx EXCEPT ![p].tries = @ + 1]
             /\ UNCHANGED procVars
    <3>1. \A q \in Proc : pc'[q] = "publish" => pc[q] = "publish" /\ tx'[q] = tx[q]
      BY <2>3 DEF Typed, TypeOK
    <3>2. QED
      BY <2>1, <2>3, <3>1, KnownKept DEF procVars
  <2>4. QED
    BY <1>5, <2>1, <2>2, <2>3 DEF WriteConflict
<1>6. ASSUME NEW p \in Proc, ReadRefused(p) \/ Abort(p) PROVE TasksKnown' /\ UNCHANGED log
  BY <1>6, FinishKnown DEF ReadRefused, Abort, logVars
<1>7. ASSUME NEW p \in Proc, CreateWrite(p) PROVE TasksKnown' /\ UNCHANGED log
  BY <1>7, FinishKnown DEF CreateWrite
<1>8. ASSUME NEW p \in Proc, NEW acked \in BOOLEAN, Write(p, acked)
      PROVE  TasksKnown' /\ UNCHANGED log
  BY <1>8, FinishKnown DEF Write, logVars
<1>9. ASSUME NEW p \in Proc, Crash(p) PROVE TasksKnown' /\ UNCHANGED log
  <2>1. UNCHANGED log
    BY <1>9 DEF Crash, logVars
  <2>2. \A q \in Proc : /\ pc'[q] = "publish" => pc[q] = "publish" /\ tx'[q] = tx[q]
                        /\ closure'[q] \subseteq closure[q]
    BY <1>9 DEF Crash, Typed, TypeOK
  <2>3. QED
    BY <2>1, <2>2, KnownKept
<1>10. ASSUME NEW t \in Task, CompactStamp(t) \/ Prune(t) PROVE UNCHANGED <<log, pc, tx, closure>>
  BY <1>10 DEF CompactStamp, Prune, logVars, txVars, procVars
<1>11. ASSUME HubStop \/ StartRecover \/ RecoverSkipped \/ Recover
       PROVE  UNCHANGED <<log, pc, tx, closure>>
  BY <1>11 DEF HubStop, StartRecover, RecoverSkipped, Recover, RecoverDone, ReplaySkip,
     ReplayCreated, ReplayApply, ReplayFail, logVars, txVars, procVars
<1>12. ASSUME UNCHANGED vars PROVE UNCHANGED <<log, pc, tx, closure>>
  BY <1>12 DEF vars, logVars, txVars, procVars
<1>13. ASSUME NEW p \in Proc, TxStep(p) PROVE TasksKnown' /\ CreatedFirst'
  BY <1>1, <1>4, <1>5, <1>6, <1>7, <1>8, <1>13, PublishKnown DEF TxStep
<1>14. QED
  BY <1>1, <1>2, <1>3, <1>6, <1>9, <1>10, <1>11, <1>12, <1>13 DEF Next

(* The event recovery has come to.                                         *)
LEMMA DrainFact ==
    ASSUME Typed, Draining
    PROVE  /\ recov.idx \in DOMAIN log /\ recov.idx \in Nat /\ log[recov.idx] \in Event
           /\ log[recov.idx].task \in Task /\ recov \in Recov /\ hub = "recovering"
<1>1. recov.idx \in DOMAIN log /\ recov.idx \in Nat /\ log[recov.idx] \in Event
  BY DEF Draining, Typed, TypeOK, Recov
<1>2. QED
  BY <1>1 DEF Draining, Typed, TypeOK, Event

(* One event is skipped, or its record read back: recovery still sees the  *)
(* records as they are.                                                    *)
LEMMA DrainStep ==
    ASSUME Typed, Drained, Draining, NEW t, t = log[recov.idx].task,
           UNCHANGED <<log, pc>>, hub' = hub,
           recov'.idx = recov.idx + 1, recov'.quiet = recov.quiet,
           recov'.result = recov.result,
           \A u \in Task : u # t => /\ recov'.seen[u] = recov.seen[u]
                                    /\ u \in live' <=> u \in live
                                    /\ kv'[u] = kv[u],
           recov.quiet => /\ t \in live' /\ recov'.seen[t] = kv'[t].lastEventSeq
                          /\ kv'[t].lastEventSeq >= recov.idx
                          /\ kv'[t].lastEventSeq \in Nat
    PROVE  Drained'
<1>1. /\ recov.idx \in DOMAIN log /\ recov.idx \in Nat /\ t \in Task /\ hub = "recovering"
      /\ DOMAIN log = 1 .. Len(log) /\ Len(log) \in Nat
  BY DrainFact DEF Typed, TypeOK
<1>2. \A i \in DOMAIN log : log[i].task \in Task
  <2>1. \A i \in DOMAIN log : log[i] \in Event
    BY DEF Typed, TypeOK
  <2>2. \A e \in Event : e.task \in Task
    BY DEF Event
  <2>3. QED
    BY <2>1, <2>2
<1> SUFFICES ASSUME recov.quiet PROVE Drained'
  BY DEF Drained
<1>3. /\ recov.result = "none" /\ \A p \in Proc : pc[p] = "idle"
      /\ \A u \in Task : recov.seen[u] = IF u \in live THEN kv[u].lastEventSeq ELSE Unseen
      /\ \A i \in DOMAIN log : i < recov.idx =>
            log[i].task \in live /\ kv[log[i].task].lastEventSeq >= i
  BY <1>1 DEF Drained
<1>4. \A u \in Task : recov'.seen[u] = IF u \in live' THEN kv'[u].lastEventSeq ELSE Unseen
  BY <1>3
<1>5. ASSUME NEW i \in DOMAIN log, i < recov'.idx
      PROVE  log[i].task \in live' /\ kv'[log[i].task].lastEventSeq >= i
  <2>1. i \in Nat /\ i <= recov.idx
    BY <1>1, <1>5
  <2>2. CASE log[i].task = t
    BY <1>1, <2>1, <2>2
  <2>3. CASE log[i].task # t
    <3>1. i < recov.idx
      BY <1>1, <2>1, <2>3
    <3>2. QED
      BY <1>2, <1>3, <2>3, <3>1
  <2>4. QED
    BY <2>2, <2>3
<1>6. QED
  BY <1>1, <1>3, <1>4, <1>5 DEF Drained

(* The steps of the drain.  A created event that is still to be replayed   *)
(* finds no record: it is the first of its task.                           *)
LEMMA RecoverDrained ==
    ASSUME Typed, IInv, CreatedFirst, Drained, ReplaySkip \/ ReplayCreated \/ ReplayApply
    PROVE  Drained'
<1> DEFINE t == log[recov.idx].task
<1>1. Draining /\ UNCHANGED <<log, pc, hub>>
  BY DEF ReplaySkip, ReplayCreated, ReplayApply, logVars, txVars
<1>2. /\ recov.idx \in DOMAIN log /\ recov.idx \in Nat /\ log[recov.idx] \in Event
      /\ t \in Task /\ recov \in Recov /\ hub = "recovering"
  BY <1>1, DrainFact
<1>3. recov.quiet => /\ recov.seen[t] = IF t \in live THEN kv[t].lastEventSeq ELSE Unseen
  BY <1>2 DEF Drained
<1>4. /\ kv \in [Task -> TaskRec] /\ kv[t] \in TaskRec /\ kv[t].lastEventSeq \in Nat
      /\ live \subseteq Task /\ recov.seen \in [Task -> Int]
  BY <1>2 DEF Typed, TypeOK, TaskRec, Recov
<1>5. CASE ReplaySkip
  <2>1. /\ recov' = [recov EXCEPT !.idx = @ + 1] /\ UNCHANGED <<kv, live>>
        /\ recov.seen[t] # Unseen /\ recov.seen[t] >= recov.idx
    BY <1>5 DEF ReplaySkip, AlreadyProjected, kvVars
  <2>2. /\ recov'.idx = recov.idx + 1 /\ recov'.quiet = recov.quiet /\ recov'.seen = recov.seen
        /\ recov'.result = recov.result
    BY <1>2, <2>1 DEF Recov
  <2> HIDE DEF t
  <2>3. QED
    BY <1>1, <1>3, <1>4, <2>1, <2>2, DrainStep DEF t
<1>6. ASSUME NEW r \in TaskRec, Replayed(t, r)
      PROVE  /\ recov'.idx = recov.idx + 1 /\ recov'.quiet = recov.quiet
             /\ recov'.seen[t] = r.lastEventSeq
             /\ recov'.result = recov.result
             /\ \A u \in Task : u # t => recov'.seen[u] = recov.seen[u]
  <2>1. recov' = [recov EXCEPT !.idx = recov.idx + 1,
                               !.seen = [recov.seen EXCEPT ![t] = r.lastEventSeq]]
    BY <1>6 DEF Replayed
  <2>2. recov'.idx = recov.idx + 1 /\ recov'.quiet = recov.quiet
        /\ recov'.seen = [recov.seen EXCEPT ![t] = r.lastEventSeq] /\ recov'.result = recov.result
    BY <1>2, <2>1 DEF Recov
  <2>3. QED
    BY <1>2, <1>4, <2>2
<1>7. ASSUME NEW r \in TaskRec, PutRecord(t, r), Replayed(t, r), r.lastEventSeq = recov.idx
      PROVE  Drained'
  <2>1. /\ t \in live' /\ kv'[t] = r
        /\ \A u \in Task : u # t => (u \in live' <=> u \in live) /\ kv'[u] = kv[u]
    BY <1>2, <1>4, <1>7 DEF PutRecord
  <2>2. /\ recov'.idx = recov.idx + 1 /\ recov'.quiet = recov.quiet
        /\ recov'.seen[t] = r.lastEventSeq
        /\ recov'.result = recov.result
        /\ \A u \in Task : u # t => recov'.seen[u] = recov.seen[u]
    BY <1>6, <1>7
  <2> HIDE DEF t
  <2>3. QED
    BY <1>1, <1>2, <1>7, <2>1, <2>2, DrainStep DEF t
<1>8. CASE ReplayCreated
  <2>1. /\ log[recov.idx].type = "created" /\ ~AlreadyProjected(t, recov.idx)
    BY <1>8 DEF ReplayCreated
  <2>2. CASE t \notin live
    <3>1. PutRecord(t, FreshRecord(recov.idx)) /\ Replayed(t, FreshRecord(recov.idx))
      BY <1>8, <2>2 DEF ReplayCreated
    <3>2. FreshRecord(recov.idx) \in TaskRec /\ FreshRecord(recov.idx).lastEventSeq = recov.idx
      BY <1>2, FreshRecordType DEF FreshRecord
    <3>3. QED
      BY <1>7, <3>1, <3>2
  <2>3. CASE t \in live
    <3>1. UNCHANGED kvVars /\ Replayed(t, kv[t])
      BY <1>8, <2>3 DEF ReplayCreated
    <3>2. /\ kv[t].lastEventSeq \in DOMAIN log /\ log[kv[t].lastEventSeq].task = t
      BY <2>3 DEF IInv, ProjectionMatchesStamp
    <3>3. ~(kv[t].lastEventSeq < recov.idx)
      BY <1>2, <2>1, <3>2 DEF CreatedFirst
    <3>4. kv[t].lastEventSeq >= recov.idx
      BY <1>2, <1>4, <3>3
    <3>5. /\ recov'.idx = recov.idx + 1 /\ recov'.quiet = recov.quiet
          /\ recov'.seen[t] = kv[t].lastEventSeq
          /\ recov'.result = recov.result
          /\ \A u \in Task : u # t => recov'.seen[u] = recov.seen[u]
      BY <1>4, <1>6, <3>1
    <3> HIDE DEF t
    <3>6. QED
      BY <1>1, <1>4, <2>3, <3>1, <3>4, <3>5, DrainStep DEF t, kvVars
  <2>4. QED
    BY <2>2, <2>3
<1>9. CASE ReplayApply
  <2> DEFINE r == applyEvent(log[recov.idx], recov.idx, kv[t])
  <2>1. PutRecord(t, r) /\ Replayed(t, r) /\ log[recov.idx].type # "created"
    BY <1>9 DEF ReplayApply
  <2>2. log[recov.idx].type = "linked" => log[recov.idx].other \in Task
    BY <1>2 DEF Typed, LinkTyped
  <2>3. r \in TaskRec /\ r.lastEventSeq = recov.idx
    BY <1>2, <1>4, <2>1, <2>2, ApplyEventType
  <2>4. QED
    BY <1>7, <2>1, <2>3
<1>10. QED
  BY <1>5, <1>8, <1>9

(* Nothing else happens during a recovery with nothing in flight.          *)
LEMMA NextDrained ==
    Typed /\ IInv /\ CreatedFirst /\ Drained /\ [Next]_vars => Drained'
<1> SUFFICES ASSUME Typed, IInv, CreatedFirst, Drained, [Next]_vars PROVE Drained'
  OBVIOUS
<1>1. ASSUME hub' # "recovering" PROVE Drained'
  BY <1>1 DEF Drained
<1>2. ASSUME UNCHANGED <<hub, recov, kv, live, log>>, \A p \in Proc : pc'[p] \in {pc[p], "idle"}
      PROVE  Drained'
  BY <1>2 DEF Drained
<1>3. ASSUME NEW p \in Proc, Call(p) PROVE Drained'
  <2>1. PICK x : Begin(p, x)
    BY <1>3, CallBegins
  <2>2. hub' = "serving"
    BY <2>1 DEF Begin, CanBegin, hubVars
  <2>3. QED
    BY <1>1, <2>2
<1>4. ASSUME NEW p \in Proc, TxStep(p) \/ Abort(p) PROVE Drained'
  <2>1. pc[p] # "idle" /\ UNCHANGED <<hub, recov>>
    BY <1>4 DEF TxStep, Abort, Publish, ReadOK, ReadRefused, Write, WriteConflict, CreateWrite,
       hubVars
  <2>2. QED
    BY <2>1 DEF Drained
<1>5. ASSUME NEW p \in Proc, Crash(p) PROVE Drained'
  <2>1. UNCHANGED <<hub, recov, kv, live, log>> /\ \A q \in Proc : pc'[q] \in {pc[q], "idle"}
    BY <1>5 DEF Crash, kvVars, logVars, hubVars, Typed, TypeOK
  <2>2. QED
    BY <1>2, <2>1
<1>6. ASSUME NEW t \in Task, CompactStamp(t) \/ Prune(t) PROVE Drained'
  BY <1>1, <1>6 DEF CompactStamp, Prune, hubVars
<1>7. CASE HubStop \/ ReplayFail \/ RecoverDone \/ RecoverSkipped
  BY <1>1, <1>7 DEF HubStop, ReplayFail, RecoverDone, RecoverSkipped
<1>8. CASE StartRecover
  <2>1. /\ recov' = [idx |-> 1,
                     seen |-> [t \in Task |-> IF t \in live THEN kv[t].lastEventSeq ELSE Unseen],
                     quiet |-> \A p \in Proc : pc[p] = "idle",
                     result |-> "none", failedAt |-> recov.failedAt]
        /\ UNCHANGED <<kv, live, log, pc>>
    BY <1>8 DEF StartRecover, kvVars, logVars, txVars
  <2>2. /\ recov'.idx = 1 /\ recov'.result = "none"
        /\ (recov'.quiet => \A p \in Proc : pc'[p] = "idle")
        /\ \A t \in Task : recov'.seen[t] = IF t \in live THEN kv[t].lastEventSeq ELSE Unseen
    BY <2>1
  <2>3. Len(log) \in Nat /\ \A i \in DOMAIN log : ~(i < 1)
    BY DEF Typed, TypeOK
  <2>4. QED
    BY <2>1, <2>2, <2>3 DEF Drained
<1>9. CASE ReplaySkip \/ ReplayCreated \/ ReplayApply
  BY <1>9, RecoverDrained
<1>10. CASE UNCHANGED vars
  BY <1>2, <1>10 DEF vars, kvVars, logVars, txVars, hubVars
<1>11. QED
  BY <1>3, <1>4, <1>5, <1>6, <1>7, <1>8, <1>9, <1>10 DEF Next, Recover

(* A recovery that reports success, nothing having been in flight when it  *)
(* began, has a record, stamped at or past it, for each event that the     *)
(* stream delivered (drainAndReplay).                                      *)
THEOREM RecoveryCatchesUp == Spec => RecoverCatchesUp
<1> DEFINE All == \A i \in DOMAIN log : i < recov.idx =>
                    log[i].task \in live /\ kv[log[i].task].lastEventSeq >= i
           Done == hub = "recovering" /\ recov.quiet /\ recov'.result = "done"
<1>1. Init => TasksKnown /\ CreatedFirst /\ Drained
  BY DEF Init, TasksKnown, CreatedFirst, Drained
<1>2. Spec => [](Typed /\ IInv /\ TasksKnown /\ CreatedFirst /\ Drained)
  BY <1>1, InitTyped, NextTyped, InitIInv, NextIInv, NextKnown, NextDrained, PTL DEF Spec
<1>3. Drained /\ [Next]_vars => [Done => All]_vars
  BY DEF Drained
<1>4. QED
  BY <1>2, <1>3, PTL DEF Spec, RecoverCatchesUp
=============================================================================
