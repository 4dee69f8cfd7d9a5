-------------------------- MODULE SwarmLease_proofs --------------------------
(***************************************************************************)
(* Theorems about SwarmLease, for any set of slots, processes, tasks and   *)
(* hosts, any choice of verbs and any bounds.  TypeOK and IInv together    *)
(* are inductive.  IInv adds to the two claim invariants that no two verbs *)
(* have a claim of one task, and that a renewal whose revision still       *)
(* matches carries the session that has the slot.                          *)
(***************************************************************************)
EXTENDS SwarmLease, TLAPS

USE DEF AgentOrNone, Slot

(* Labels of a verb that has its claim.                                    *)
ClaimAt == {"put", "pid", "land", "closetask", "unclaim"}

(* Labels at which the verb's task is that of an existing record.          *)
Known(l, c) ==
    \/ l \in ClaimAt \cup {"clear", "cleardel", "claim", "artifact", "bumpput", "lookup", "legacy"}
    \/ l = "resume" /\ c.verb = "tasksclose"

TasksExist ==
    /\ \A p \in Proc : Known(pc[p], call[p]) => call[p].task \in DOMAIN kv
    /\ \A s \in Slot : sess[s] # NoSession => sess[s].task \in DOMAIN kv

(* Two verbs never have a claim of the same task.                          *)
ClaimsDistinct ==
    \A p, q \in Proc :
        pc[p] \in ClaimAt /\ pc[q] \in ClaimAt /\ call[p].task = call[q].task => p = q

(* The record of a claim with locals c.                                    *)
Fence(c, r) == r.claimEpoch = c.epoch /\ (r.claimedBy = c.slot \/ r.status = "closed")

ClaimsFenced == \A p \in Proc : pc[p] \in ClaimAt => Fence(call[p], kv[call[p].task])

(* A renewal with locals c, before the slot's record x at revision r: if   *)
(* its write is let through it carries the session that is there.          *)
Fresh(c, x, r) ==
    /\ c.rev <= r
    /\ x # NoSession /\ r = c.rev => x.id = c.sid /\ x.task = c.task /\ x.host = c.host

BumpsFresh ==
    \A p \in Proc :
        pc[p] = "bumpput" => Fresh(call[p], sess[call[p].slot], rev[call[p].slot])

(* Only a reap has another slot to go to.                                  *)
ReapsNext == \A p \in Proc : pc[p] = "next" => call[p].verb = "reap"

IInv ==
    /\ TasksExist /\ ReapsNext
    /\ ClaimsDistinct /\ ClaimsFenced /\ ClaimsReturned
    /\ BumpsFresh

(* What the proofs carry from state to state.                              *)
Inv == TypeOK /\ IInv

(* What SessionsNeverReplaced says of one step.                            *)
SessionKept ==
    \A s \in Slot : sess'[s] \notin {NoSession, sess[s]} =>
        IF sess[s] = NoSession THEN sess'[s].id > made
        ELSE /\ sess'[s].id = sess[s].id
             /\ sess'[s].task = sess[s].task
             /\ sess'[s].host = sess[s].host

(* The task records that exist.                                            *)
Store(k) == DOMAIN k \subseteq Task /\ k \in [DOMAIN k -> TaskRec]

(* The types of what is neither bucket nor record nor process.             *)
Rest ==
    /\ wt \in [Slot -> {"absent", "clean", "dirty"}]
    /\ recovery \subseteq Slot
    /\ pidfile \in [Slot -> Proc \cup {NoPid, "dead"}]
    /\ watch \subseteq Slot
    /\ made \in Nat /\ landed \subseteq Nat /\ unproven \subseteq Nat
    /\ lost \subseteq Task
    /\ budget \in [verbs : Nat, crashes : Nat, faults : Nat]

Bucket == sess \in [Slot -> Session \cup {NoSession}] /\ rev \in [Slot -> Nat]

(* TypeOK in its parts.                                                    *)
LEMMA TypeParts ==
    /\ TypeOK <=> /\ Bucket /\ Store(kv) /\ Rest
                  /\ pc \in [Proc -> Label] /\ call \in [Proc -> CallRec]
  <1>1. (\E D \in SUBSET Task : kv \in [D -> TaskRec]) <=> Store(kv)
    BY DEF Store
  <1> QED
    BY <1>1 DEF TypeOK, Bucket, Rest

(* The same, of the state after a step.                                    *)
LEMMA TypePartsNext ==
    TypeOK' <=> /\ Bucket' /\ Store(kv') /\ Rest'
                /\ pc' \in [Proc -> Label] /\ call' \in [Proc -> CallRec]
  <1>1. (\E D \in SUBSET Task : kv' \in [D -> TaskRec]) <=> Store(kv')
    BY DEF Store
  <1> QED
    BY <1>1 DEF TypeOK, Bucket, Rest

(* The locals of an idle process are those of a verb.                      *)
LEMMA NoCallType == NoCall \in CallRec
  BY SlotAssumption, TaskAssumption, HostAssumption DEF NoCall, CallRec, Verb

(* The mutators return records; a claim raises the epoch and names its     *)
(* slot.                                                                   *)
LEMMA MutatorTypes ==
    ASSUME NEW r \in TaskRec, NEW x, x.agent \in AgentOrNone
    PROVE  /\ Claimed(x, r) \in TaskRec
           /\ Claimed(x, r).claimedBy = x.agent
           /\ Claimed(x, r).claimEpoch = r.claimEpoch + 1
           /\ Unclaimed(r) \in TaskRec
           /\ Unclaimed(r).status = "open"
           /\ applyClose(x, r, 0) \in TaskRec
           /\ applyClose(x, r, 0).status = "closed"
           /\ applyClose(x, r, 0).claimEpoch = r.claimEpoch
           /\ legacyClose(x, r, 0) \in TaskRec
           /\ legacyClose(x, r, 0).status = "closed"
           /\ legacyClose(x, r, 0).claimEpoch = r.claimEpoch
  <1>1. r.claimEpoch + 1 \in Nat
    BY DEF TaskRec
  <1> QED
    BY <1>1 DEF Claimed, Unclaimed, applyClose, legacyClose, TaskRec, Status

-----------------------------------------------------------------------------
(* What a step has to show.                                                *)

(* A renewal in flight stays fresh when every write of a slot's record     *)
(* that changes the session raises the revision.                           *)
Advances ==
    \A s \in Slot :
        \/ rev'[s] = rev[s] + 1
        \/ /\ rev'[s] = rev[s]
           /\ sess'[s] # NoSession =>
                 /\ sess[s] # NoSession /\ sess'[s].id = sess[s].id
                 /\ sess'[s].task = sess[s].task /\ sess'[s].host = sess[s].host

(* Such a step keeps a renewal fresh.                                      *)
LEMMA FreshKept ==
    ASSUME Bucket, NEW c \in CallRec, Fresh(c, sess[c.slot], rev[c.slot]), Advances
    PROVE  Fresh(c, sess'[c.slot], rev'[c.slot])
  <1>1. c.slot \in Slot /\ c.rev \in Nat /\ rev[c.slot] \in Nat
    BY DEF CallRec, Bucket
  <1>2. CASE rev'[c.slot] = rev[c.slot] + 1
    BY <1>1, <1>2 DEF Fresh
  <1>3. CASE rev'[c.slot] # rev[c.slot] + 1
    BY <1>1, <1>3 DEF Fresh, Advances
  <1> QED
    BY <1>2, <1>3

(* Process p goes to label l with locals c.                                *)
Moves(p, l, c) ==
    /\ l \in Label /\ c \in CallRec /\ (l = "next" => c.verb = "reap")
    /\ pc' = [pc EXCEPT ![p] = l] /\ call' = [call EXCEPT ![p] = c]

(* A step of process p, which takes it to label l and locals c: the task   *)
(* it names exists, the claim it has is fenced and nobody else's, what it  *)
(* gives up is not claimed any more, and it leaves the claims of the other *)
(* verbs alone.                                                            *)
LEMMA StepKept ==
    ASSUME Inv, NEW p \in Proc, NEW l, NEW c, Moves(p, l, c),
           Bucket', Store(kv'), Rest', DOMAIN kv \subseteq DOMAIN kv',
           Known(l, c) => c.task \in DOMAIN kv',
           \A s \in Slot : sess'[s] # NoSession => sess'[s].task \in DOMAIN kv',
           l \in ClaimAt =>
              /\ Fence(c, kv'[c.task])
              /\ \A q \in Proc \ {p} : pc[q] \in ClaimAt => call[q].task # c.task,
           \A q \in Proc \ {p} : pc[q] \in ClaimAt => Fence(call[q], kv'[call[q].task]),
           \A t \in DOMAIN kv' \ lost' : kv'[t].status = "claimed" =>
              \/ l \in ClaimAt /\ c.task = t
              \/ /\ t \in DOMAIN kv \ lost /\ kv[t].status = "claimed"
                 /\ ~(pc[p] \in ClaimAt /\ call[p].task = t),
           l = "bumpput" => Fresh(c, sess'[c.slot], rev'[c.slot]),
           Advances
    PROVE  Inv'
  <1>1. TypeOK'
    BY TypeParts, TypePartsNext DEF Inv, Moves
  <1>2. /\ pc'[p] = l /\ call'[p] = c
        /\ \A q \in Proc \ {p} : pc'[q] = pc[q] /\ call'[q] = call[q]
    BY DEF Inv, TypeOK, Moves
  <1>3. TasksExist' /\ ReapsNext'
    BY <1>2 DEF Inv, IInv, TasksExist, ReapsNext, Moves
  <1>4. ClaimsDistinct'
    BY <1>2 DEF Inv, IInv, ClaimsDistinct
  <1>5. ClaimsFenced'
    BY <1>2 DEF Inv, IInv, ClaimsFenced
  <1>6. ClaimsReturned'
    <2> SUFFICES ASSUME NEW t \in DOMAIN kv' \ lost', kv'[t].status = "claimed"
                 PROVE  \E q \in Proc : pc'[q] \in ClaimAt /\ call'[q].task = t
      BY DEF ClaimsReturned, HasClaim, ClaimAt
    <2>1. CASE l \in ClaimAt /\ c.task = t
      BY <1>2, <2>1
    <2>2. CASE /\ t \in DOMAIN kv \ lost /\ kv[t].status = "claimed"
               /\ ~(pc[p] \in ClaimAt /\ call[p].task = t)
      <3>1. PICK q \in Proc : pc[q] \in ClaimAt /\ call[q].task = t
        BY <2>2 DEF Inv, IInv, ClaimsReturned, HasClaim, ClaimAt
      <3> QED
        BY <1>2, <2>2, <3>1
    <2> QED
      BY <2>1, <2>2
  <1>7. BumpsFresh'
    <2> SUFFICES ASSUME NEW q \in Proc, pc'[q] = "bumpput"
                 PROVE  Fresh(call'[q], sess'[call'[q].slot], rev'[call'[q].slot])
      BY DEF BumpsFresh
    <2>1. CASE q = p
      BY <1>2, <2>1
    <2>2. CASE q # p
      <3>1. Bucket /\ call[q] \in CallRec /\ Fresh(call[q], sess[call[q].slot], rev[call[q].slot])
        BY <1>2, <2>2, TypeParts DEF Inv, IInv, BumpsFresh
      <3> QED
        BY <1>2, <2>2, <3>1, FreshKept
    <2> QED
      BY <2>1, <2>2
  <1> QED
    BY <1>1, <1>3, <1>4, <1>5, <1>6, <1>7 DEF Inv, IInv

(* A step that leaves the records alone, and neither takes nor gives up a  *)
(* claim.                                                                  *)
LEMMA RecordsSame ==
    ASSUME Inv, NEW p \in Proc, NEW l, NEW c, Moves(p, l, c),
           Bucket', Rest', UNCHANGED <<kv, lost>>,
           Known(l, c) => c.task \in DOMAIN kv,
           \A s \in Slot : sess'[s] # NoSession => sess'[s].task \in DOMAIN kv,
           l \in ClaimAt <=> pc[p] \in ClaimAt,
           l \in ClaimAt => /\ c.task = call[p].task /\ c.slot = call[p].slot
                            /\ c.epoch = call[p].epoch,
           l = "bumpput" => Fresh(c, sess'[c.slot], rev'[c.slot]),
           Advances
    PROVE  Inv'
  <1>1. Store(kv')
    BY TypeParts DEF Inv
  <1>2. l \in ClaimAt =>
              /\ Fence(c, kv'[c.task])
              /\ \A q \in Proc \ {p} : pc[q] \in ClaimAt => call[q].task # c.task
    BY DEF Inv, IInv, ClaimsFenced, ClaimsDistinct, Fence
  <1>3. \A q \in Proc \ {p} : pc[q] \in ClaimAt => Fence(call[q], kv'[call[q].task])
    BY DEF Inv, IInv, ClaimsFenced
  <1>4. \A t \in DOMAIN kv' \ lost' : kv'[t].status = "claimed" =>
              \/ l \in ClaimAt /\ c.task = t
              \/ /\ t \in DOMAIN kv \ lost /\ kv[t].status = "claimed"
                 /\ ~(pc[p] \in ClaimAt /\ call[p].task = t)
    OBVIOUS
  <1> QED
    BY <1>1, <1>2, <1>3, <1>4, StepKept

(* The bucket is left alone.                                               *)
LEMMA BucketSame ==
    ASSUME Inv, UNCHANGED <<sess, rev>>
    PROVE  /\ Bucket' /\ Advances /\ SessionKept
           /\ \A s \in Slot : sess'[s] # NoSession => sess'[s].task \in DOMAIN kv
  BY TypeParts DEF Inv, IInv, TasksExist, Bucket, Advances, SessionKept

(* A record is deleted.                                                    *)
LEMMA RemoveEffect ==
    ASSUME Inv, NEW s \in Slot, Remove(s)
    PROVE  /\ Bucket' /\ Advances /\ SessionKept
           /\ \A u \in Slot : sess'[u] # NoSession => sess'[u].task \in DOMAIN kv
  <1>1. Bucket
    BY TypeParts DEF Inv
  <1>2. /\ \A u \in Slot : sess'[u] = IF u = s THEN NoSession ELSE sess[u]
        /\ \A u \in Slot : rev'[u] = IF u = s THEN rev[u] + 1 ELSE rev[u]
    BY <1>1 DEF Remove, Write, Bucket
  <1>3. Bucket'
    BY <1>1 DEF Remove, Write, Bucket
  <1> QED
    BY <1>2, <1>3 DEF Inv, IInv, TasksExist, Advances, SessionKept

(* What every step is shown to do.                                         *)
Good == Inv' /\ SessionKept

(* A step that only moves p.                                               *)
LEMMA QuietKept ==
    ASSUME Inv, NEW p \in Proc, NEW l, NEW c, Moves(p, l, c),
           Rest', UNCHANGED <<sess, rev, kv, lost>>,
           Known(l, c) => c.task \in DOMAIN kv,
           l \in ClaimAt <=> pc[p] \in ClaimAt,
           l \in ClaimAt => /\ c.task = call[p].task /\ c.slot = call[p].slot
                            /\ c.epoch = call[p].epoch,
           l = "bumpput" => Fresh(c, sess[c.slot], rev[c.slot])
    PROVE  Good
  <1>1. /\ Bucket' /\ Advances /\ SessionKept
        /\ \A s \in Slot : sess'[s] # NoSession => sess'[s].task \in DOMAIN kv
    BY BucketSame
  <1>2. l = "bumpput" => Fresh(c, sess'[c.slot], rev'[c.slot])
    OBVIOUS
  <1> QED
    BY <1>1, <1>2, RecordsSame DEF Good

(* The locals of a verb that ends.                                         *)
LEMMA ReturnEffect ==
    ASSUME Inv, NEW p \in Proc, Return(p)
    PROVE  \E l \in {"idle", "next"} : \E c : Moves(p, l, c)
  <1> DEFINE n == [NoCall EXCEPT !.verb = "reap", !.todo = call[p].todo]
  <1>1. n \in CallRec /\ n.verb = "reap"
    <2>1. call[p].todo \in SUBSET Slot
      BY DEF Inv, TypeOK, CallRec
    <2> QED
      BY <2>1, NoCallType DEF CallRec, Verb
  <1>2. CASE call[p].verb = "reap"
    <2>1. pc' = [pc EXCEPT ![p] = "next"] /\ call' = [call EXCEPT ![p] = n]
      BY <1>2 DEF Return, Goto, Set
    <2> HIDE DEF n
    <2>2. Moves(p, "next", n)
      BY <1>1, <2>1 DEF Moves, Label
    <2> QED
      BY <2>2
  <1>3. CASE call[p].verb # "reap"
    <2>1. Moves(p, "idle", NoCall)
      BY <1>3, NoCallType DEF Return, Goto, Set, Moves, Label
    <2> QED
      BY <2>1
  <1> QED
    BY <1>2, <1>3

(* What is neither bucket nor record nor process stays as it is.           *)
LEMMA RestSame ==
    ASSUME Inv, UNCHANGED <<disk, watch, hist, budget>>
    PROVE  Rest' /\ lost' = lost
  BY TypeParts DEF Inv, Rest, disk, hist

(* A verb that has no claim ends.                                          *)
LEMMA ReturnKept ==
    ASSUME Inv, NEW p \in Proc, pc[p] \notin ClaimAt, Return(p),
           Rest', UNCHANGED <<sess, rev, kv, lost>>
    PROVE  Good
  <1>1. PICK l \in {"idle", "next"} : \E c : Moves(p, l, c)
    BY ReturnEffect
  <1>2. PICK c : Moves(p, l, c)
    BY <1>1
  <1>3. ~Known(l, c) /\ l \notin ClaimAt /\ l # "bumpput"
    BY DEF Known, ClaimAt
  <1> QED
    BY <1>2, <1>3, QuietKept

(* p goes on with the same locals.                                         *)
LEMMA GotoKept ==
    ASSUME Inv, NEW p \in Proc, NEW l \in Label \ {"bumpput", "next"}, Goto(p, l), UNCHANGED call,
           Rest', UNCHANGED <<sess, rev, kv, lost>>,
           Known(l, call[p]) => Known(pc[p], call[p]),
           l \in ClaimAt <=> pc[p] \in ClaimAt
    PROVE  Good
  <1>1. Moves(p, l, call[p])
    BY DEF Inv, TypeOK, Moves, Goto
  <1>2. Known(l, call[p]) => call[p].task \in DOMAIN kv
    BY DEF Inv, IInv, TasksExist
  <1> QED
    BY <1>1, <1>2, QuietKept

-----------------------------------------------------------------------------
(* A verb starts.                                                          *)

(* A call that fails.                                                      *)
LEMMA FaultType ==
    ASSUME Rest, Fault PROVE budget' \in [verbs : Nat, crashes : Nat, faults : Nat]
  BY DEF Rest, Fault

(* A start takes no claim; the task it names exists.                       *)
LEMMA StartKept ==
    ASSUME Inv, NEW p \in Proc, NEW verb \in Verb, NEW c \in CallRec,
           NEW l \in {"clear", "lookup", "probe", "resume", "keyget", "next"},
           Start(p, verb, c, l),
           l \in {"clear", "lookup"} => c.task \in DOMAIN kv,
           l = "resume" => verb # "tasksclose", l = "next" => verb = "reap"
    PROVE  Good
  <1> DEFINE d == [c EXCEPT !.verb = verb]
  <1>1. d \in CallRec /\ d.task = c.task /\ d.verb = verb
    BY DEF CallRec
  <1>2. /\ pc[p] = "idle" /\ budget.verbs > 0
        /\ budget' = [budget EXCEPT !.verbs = @ - 1]
        /\ pc' = [pc EXCEPT ![p] = l] /\ call' = [call EXCEPT ![p] = d]
        /\ pidfile' = [s \in Slot |-> IF pidfile[s] = p THEN "dead" ELSE pidfile[s]]
        /\ UNCHANGED <<sess, rev, kv, wt, recovery, watch, made, landed, unproven, lost>>
    BY DEF Start, Set, Goto, hist
  <1> HIDE DEF d
  <1>3. Moves(p, l, d)
    BY <1>1, <1>2 DEF Moves, Label
  <1>4. Rest'
    <2>1. Rest
      BY TypeParts DEF Inv
    <2>2. budget' \in [verbs : Nat, crashes : Nat, faults : Nat]
      BY <1>2, <2>1 DEF Rest
    <2>3. pidfile' \in [Slot -> Proc \cup {NoPid, "dead"}]
      BY <1>2, <2>1 DEF Rest
    <2> QED
      BY <1>2, <2>1, <2>2, <2>3 DEF Rest
  <1>5. /\ Known(l, d) => d.task \in DOMAIN kv
        /\ l \notin ClaimAt /\ pc[p] \notin ClaimAt /\ l # "bumpput"
    BY <1>1, <1>2 DEF Known, ClaimAt
  <1> QED
    BY <1>2, <1>3, <1>4, <1>5, QuietKept

(* Whichever verb it is.                                                   *)
LEMMA StartVerbKept == ASSUME Inv, NEW p \in Proc, StartVerb(p) PROVE Good
  <1>1. ASSUME NEW s \in Slot, NEW t \in Task, StartSwarm(p, s, t) PROVE Good
    <2> DEFINE c == [NoCall EXCEPT !.slot = s, !.task = t]
               d == [NoCall EXCEPT !.task = t]
    <2>1. c \in CallRec /\ d \in CallRec /\ c.task = t /\ d.task = t
      BY NoCallType DEF CallRec
    <2>2. \/ Start(p, "join", c, "clear") /\ t \in DOMAIN kv
          \/ Start(p, "force", c, "clear") /\ t \in DOMAIN kv
          \/ Start(p, "tasksclose", d, "lookup") /\ t \in DOMAIN kv
      BY <1>1 DEF StartSwarm
    <2>3. {"join", "force", "tasksclose"} \subseteq Verb
      BY DEF Verb
    <2> HIDE DEF c, d
    <2> QED
      BY <2>1, <2>2, <2>3, StartKept
  <1>2. ASSUME NEW s \in Slot, StartSlot(p, s) PROVE Good
    <2> DEFINE c == [NoCall EXCEPT !.slot = s]
    <2>1. c \in CallRec
      BY NoCallType DEF CallRec
    <2>2. \/ Start(p, "auto", c, "probe")
          \/ \E v \in {"commit", "close", "closeempty", "fail"} : Start(p, v, c, "resume")
          \/ Start(p, "cleanup", c, "keyget")
      BY <1>2 DEF StartSlot
    <2>3. {"auto", "commit", "close", "closeempty", "fail", "cleanup"} \subseteq Verb
      BY DEF Verb
    <2> HIDE DEF c
    <2> QED
      BY <2>1, <2>2, <2>3, StartKept
  <1>3. CASE findStale(p)
    <2> DEFINE c == [NoCall EXCEPT !.todo = Local(HostOf[p])]
    <2>1. c \in CallRec
      BY NoCallType DEF CallRec, Local
    <2>2. Start(p, "reap", c, "next") /\ "reap" \in Verb
      BY <1>3 DEF findStale, Verb
    <2> HIDE DEF c
    <2> QED
      BY <2>1, <2>2, StartKept
  <1> QED
    BY <1>1, <1>2, <1>3 DEF StartVerb

-----------------------------------------------------------------------------
(* The steps that leave the task records alone.                            *)

(* The slot of a verb.                                                     *)
LEMMA CallFields ==
    ASSUME Inv, NEW p \in Proc
    PROVE  /\ call[p] \in CallRec /\ call[p].slot \in Slot /\ call[p].task \in Task
           /\ call[p].rev \in Nat /\ call[p].tries \in Nat /\ call[p].epoch \in Nat
           /\ call[p].sid \in Nat /\ rev[call[p].slot] \in Nat
           /\ sess[call[p].slot] # NoSession => sess[call[p].slot] \in Session
  BY DEF Inv, TypeOK, CallRec

(* A step that deletes a record.                                           *)
LEMMA RemoveKept ==
    ASSUME Inv, NEW p \in Proc, NEW s \in Slot, Remove(s), NEW l, NEW c, Moves(p, l, c),
           Rest', UNCHANGED <<kv, lost>>,
           Known(l, c) => c.task \in DOMAIN kv,
           l \in ClaimAt <=> pc[p] \in ClaimAt,
           l \in ClaimAt => /\ c.task = call[p].task /\ c.slot = call[p].slot
                            /\ c.epoch = call[p].epoch,
           l # "bumpput"
    PROVE  Good
  BY RemoveEffect, RecordsSame DEF Good

(* clearExistingRecord reads the slot's record.                            *)
LEMMA ClearKept == ASSUME Inv, NEW p \in Proc, clearExistingRecord(p) PROVE Good
  <1> DEFINE c == call[p]
             d == [c EXCEPT !.rev = rev[c.slot]]
  <1>1. pc[p] = "clear" /\ UNCHANGED <<sess, rev, kv, lost>> /\ Rest'
    BY RestSame DEF clearExistingRecord
  <1>2. CASE Goto(p, "claim") /\ UNCHANGED call
    BY <1>1, <1>2, GotoKept DEF Known, ClaimAt, Label
  <1>3. CASE Set(p, d) /\ Goto(p, "cleardel")
    <2>1. d \in CallRec /\ d.task = c.task
      BY CallFields DEF CallRec
    <2>2. Moves(p, "cleardel", d)
      BY <1>3, <2>1 DEF Moves, Set, Goto, Label
    <2>3. c.task \in DOMAIN kv
      BY <1>1 DEF Inv, IInv, TasksExist, Known
    <2> HIDE DEF d
    <2> QED
      BY <1>1, <2>1, <2>2, <2>3, QuietKept DEF ClaimAt
  <1>4. CASE Return(p)
    BY <1>1, <1>4, ReturnKept DEF ClaimAt
  <1> QED
    BY <1>2, <1>3, <1>4 DEF clearExistingRecord

(* Its delete, or the conflict that ends the join.                         *)
LEMMA ClearDeleteKept == ASSUME Inv, NEW p \in Proc, clearDelete(p) PROVE Good
  <1>1. pc[p] = "cleardel" /\ UNCHANGED <<kv, lost>> /\ Rest'
    BY RestSame DEF clearDelete
  <1>2. CASE Remove(call[p].slot) /\ Goto(p, "claim") /\ UNCHANGED call
    <2>1. Moves(p, "claim", call[p])
      BY <1>2, CallFields DEF Moves, Goto, Label, Inv, TypeOK
    <2>2. call[p].task \in DOMAIN kv
      BY <1>1 DEF Inv, IInv, TasksExist, Known
    <2> QED
      BY <1>1, <1>2, <2>1, <2>2, CallFields, RemoveKept DEF ClaimAt
  <1>3. CASE Return(p) /\ UNCHANGED <<sess, rev>>
    BY <1>1, <1>3, ReturnKept DEF ClaimAt
  <1> QED
    BY <1>2, <1>3 DEF clearDelete

(* The Create of the session's record: the slot is free.                   *)
LEMMA PutSessionKept == ASSUME Inv, NEW p \in Proc, putSession(p) PROVE Good
  <1> DEFINE c == call[p]
             x == [task |-> c.task, host |-> HostOf[p], id |-> made + 1,
                   renewed |-> FALSE, stale |-> FALSE]
  <1>1. /\ pc[p] = "put" /\ pc[p] \in ClaimAt
        /\ UNCHANGED <<kv, disk, call, watch, landed, unproven, lost, budget>>
    BY DEF putSession, ClaimAt
  <1>2. Rest /\ Bucket /\ c.task \in DOMAIN kv
    BY <1>1, TypeParts DEF Inv, IInv, TasksExist, Known
  <1>3. CASE /\ sess[c.slot] = NoSession /\ Write(c.slot, x)
             /\ made' = made + 1 /\ Goto(p, "pid")
    <2>1. x \in Session /\ x.task = c.task /\ x.id = made + 1
      BY <1>2, CallFields, HostAssumption DEF Session, Rest
    <2> HIDE DEF x
    <2>2. Rest'
      BY <1>1, <1>2, <1>3 DEF Rest, disk
    <2>3. /\ \A u \in Slot : sess'[u] = IF u = c.slot THEN x ELSE sess[u]
          /\ \A u \in Slot : rev'[u] = IF u = c.slot THEN rev[u] + 1 ELSE rev[u]
      BY <1>2, <1>3, CallFields DEF Write, Bucket
    <2>4. Bucket'
      BY <1>2, <1>3, <2>1, CallFields DEF Write, Bucket
    <2>5. \A s \in Slot : sess'[s] # NoSession => sess'[s].task \in DOMAIN kv
      BY <1>2, <2>1, <2>3 DEF Inv, IInv, TasksExist
    <2>6. Advances
      BY <2>3 DEF Advances
    <2>7. SessionKept
      <3>1. made \in Nat
        BY <1>2 DEF Rest
      <3> QED
        BY <1>3, <2>1, <2>3, <3>1 DEF SessionKept
    <2>8. Moves(p, "pid", c) /\ "pid" \in ClaimAt
      BY <1>1, <1>3, CallFields DEF Moves, Goto, Label, Inv, TypeOK, ClaimAt
    <2> QED
      BY <1>1, <1>2, <2>2, <2>4, <2>5, <2>6, <2>7, <2>8, RecordsSame DEF Good
  <1>4. CASE Goto(p, "unclaim") /\ UNCHANGED <<sess, rev, made>>
    <2>1. Rest'
      BY <1>1, <1>2, <1>4 DEF Rest, disk
    <2> QED
      BY <1>1, <1>4, <2>1, GotoKept DEF Known, ClaimAt, Label
  <1> QED
    BY <1>3, <1>4 DEF putSession

(* The pid file, or the cleanup of a write that failed.                    *)
LEMMA WritePidFileKept == ASSUME Inv, NEW p \in Proc, writePidFile(p) PROVE Good
  <1> DEFINE c == call[p]
  <1>1. /\ pc[p] = "pid" /\ Goto(p, "unclaim")
        /\ UNCHANGED <<kv, wt, recovery, call, watch, made, landed, unproven, lost>>
    BY DEF writePidFile, hist
  <1>2. Rest /\ c.slot \in Slot
    BY TypeParts, CallFields DEF Inv
  <1>3. CASE pidfile' = [pidfile EXCEPT ![c.slot] = p] /\ UNCHANGED <<sess, rev, budget>>
    <2>1. Rest'
      BY <1>1, <1>2, <1>3 DEF Rest
    <2> QED
      BY <1>1, <1>3, <2>1, GotoKept DEF Known, ClaimAt, Label
  <1>4. CASE /\ Fault /\ UNCHANGED pidfile
             /\ IF sess[c.slot] # NoSession THEN Remove(c.slot) ELSE UNCHANGED <<sess, rev>>
    <2>1. Rest'
      BY <1>1, <1>2, <1>4, FaultType DEF Rest
    <2>2. CASE UNCHANGED <<sess, rev>>
      BY <1>1, <2>1, <2>2, GotoKept DEF Known, ClaimAt, Label
    <2>3. CASE Remove(c.slot)
      <3>1. Moves(p, "unclaim", c) /\ "unclaim" \in ClaimAt /\ pc[p] \in ClaimAt
        BY <1>1, CallFields DEF Moves, Goto, Label, Inv, TypeOK, ClaimAt
      <3>2. c.task \in DOMAIN kv
        BY <1>1, <3>1 DEF Inv, IInv, TasksExist, Known
      <3> QED
        BY <1>1, <1>2, <2>1, <2>3, <3>1, <3>2, RemoveKept
    <2> QED
      BY <1>4, <2>2, <2>3
  <1> QED
    BY <1>3, <1>4 DEF writePidFile

(* Resume binds the verb to the record it reads.                           *)
LEMMA ResumeKept == ASSUME Inv, NEW p \in Proc, Resume(p) PROVE Good
  <1> DEFINE c == call[p]
             x == sess[c.slot]
             d == [c EXCEPT !.task = x.task, !.rev = rev[c.slot], !.sid = x.id]
  <1>1. pc[p] = "resume" /\ UNCHANGED <<sess, rev, kv, lost>> /\ Rest'
    BY RestSame DEF Resume
  <1>2. CASE x # NoSession /\ Set(p, d) /\ Goto(p, AfterResume(c))
    <2>1. x \in Session /\ x.task \in DOMAIN kv
      BY <1>2, CallFields DEF Inv, IInv, TasksExist
    <2>2. d \in CallRec /\ d.task = x.task
      BY <2>1, CallFields DEF CallRec, Session
    <2>3. AfterResume(c) \in {"claim", "artifact"}
      BY DEF AfterResume
    <2>4. Moves(p, AfterResume(c), d)
      BY <1>2, <2>2, <2>3 DEF Moves, Set, Goto, Label
    <2> HIDE DEF d
    <2> QED
      BY <1>1, <2>1, <2>2, <2>3, <2>4, QuietKept DEF ClaimAt
  <1>3. CASE c.verb = "tasksclose" /\ Goto(p, "lookup") /\ UNCHANGED call
    BY <1>1, <1>3, GotoKept DEF Known, ClaimAt, Label
  <1>4. CASE Return(p)
    BY <1>1, <1>4, ReturnKept DEF ClaimAt
  <1> QED
    BY <1>2, <1>3, <1>4 DEF Resume, Get

(* bumpLastRenewed reads the record that it will write back.               *)
LEMMA BumpGetKept == ASSUME Inv, NEW p \in Proc, bumpGet(p) PROVE Good
  <1> DEFINE c == call[p]
             x == sess[c.slot]
             d == [c EXCEPT !.rev = rev[c.slot], !.sid = x.id, !.task = x.task, !.host = x.host]
  <1>1. pc[p] = "bumpget" /\ UNCHANGED <<sess, rev, kv, lost>> /\ Rest'
    BY RestSame DEF bumpGet
  <1>2. CASE x = NoSession
    BY <1>1, <1>2, ReturnKept DEF ClaimAt, bumpGet, Get
  <1>3. CASE x # NoSession
    <2>1. x \in Session /\ x.task \in DOMAIN kv /\ rev[c.slot] \in Nat
      BY <1>3, CallFields DEF Inv, IInv, TasksExist
    <2>2. /\ d \in CallRec /\ d.task = x.task /\ d.slot = c.slot /\ d.rev = rev[c.slot]
          /\ d.sid = x.id /\ d.host = x.host
      BY <2>1, CallFields DEF CallRec, Session
    <2>3. Set(p, d) /\ Goto(p, "bumpput")
      BY <1>3 DEF bumpGet, Get
    <2> HIDE DEF d
    <2>4. Moves(p, "bumpput", d)
      BY <2>2, <2>3 DEF Moves, Set, Goto, Label
    <2>5. Fresh(d, sess[d.slot], rev[d.slot])
      BY <2>1, <2>2 DEF Fresh
    <2> QED
      BY <1>1, <2>1, <2>2, <2>4, <2>5, QuietKept DEF ClaimAt
  <1> QED
    BY <1>2, <1>3

(* Its write: let through, it renews the session that has the slot.        *)
LEMMA BumpPutKept == ASSUME Inv, NEW p \in Proc, bumpPut(p) PROVE Good
  <1> DEFINE c == call[p]
             x == Renewed(p)
             d == [c EXCEPT !.tries = @ + 1]
  <1>1. pc[p] = "bumpput" /\ UNCHANGED <<kv, lost>> /\ Rest'
    BY RestSame DEF bumpPut
  <1>2. c.task \in DOMAIN kv /\ Fresh(c, sess[c.slot], rev[c.slot]) /\ Bucket
    BY <1>1, TypeParts DEF Inv, IInv, TasksExist, Known, BumpsFresh
  <1>3. CASE RevMatches(c.slot, c.rev) /\ Write(c.slot, x) /\ Return(p)
    <2>1. x \in Session /\ x.task = c.task /\ x.id = c.sid /\ x.host = c.host
      BY CallFields DEF Renewed, Session, CallRec
    <2>2. /\ sess[c.slot] # NoSession /\ sess[c.slot].id = x.id
          /\ sess[c.slot].task = x.task /\ sess[c.slot].host = x.host
      BY <1>2, <1>3, <2>1 DEF RevMatches, Fresh
    <2> HIDE DEF x
    <2>3. /\ \A u \in Slot : sess'[u] = IF u = c.slot THEN x ELSE sess[u]
          /\ \A u \in Slot : rev'[u] = IF u = c.slot THEN rev[u] + 1 ELSE rev[u]
      BY <1>2, <1>3, CallFields DEF Write, Bucket
    <2>4. Bucket'
      BY <1>2, <1>3, <2>1, CallFields DEF Write, Bucket
    <2>5. \A s \in Slot : sess'[s] # NoSession => sess'[s].task \in DOMAIN kv
      BY <1>2, <2>1, <2>3 DEF Inv, IInv, TasksExist
    <2>6. Advances
      BY <2>3 DEF Advances
    <2>7. SessionKept
      BY <2>2, <2>3 DEF SessionKept
    <2>8. PICK l \in {"idle", "next"} : \E e : Moves(p, l, e)
      BY <1>3, ReturnEffect
    <2>9. PICK e : Moves(p, l, e)
      BY <2>8
    <2>10. ~Known(l, e) /\ l \notin ClaimAt /\ l # "bumpput" /\ pc[p] \notin ClaimAt
      BY <1>1 DEF Known, ClaimAt
    <2> QED
      BY <1>1, <2>4, <2>5, <2>6, <2>7, <2>9, <2>10, RecordsSame DEF Good
  <1>4. CASE Return(p) /\ UNCHANGED <<sess, rev>>
    BY <1>1, <1>4, ReturnKept DEF ClaimAt
  <1>5. CASE Set(p, d) /\ Goto(p, "bumpget") /\ UNCHANGED <<sess, rev>>
    <2>1. d \in CallRec
      BY CallFields DEF CallRec
    <2>2. Moves(p, "bumpget", d)
      BY <1>5, <2>1 DEF Moves, Set, Goto, Label
    <2> HIDE DEF d
    <2> QED
      BY <1>1, <1>5, <2>2, QuietKept DEF ClaimAt, Known
  <1> QED
    BY <1>3, <1>4, <1>5 DEF bumpPut

(* checkArtifactPrecondition looks at the record again.                    *)
LEMMA ArtifactKept == ASSUME Inv, NEW p \in Proc, checkArtifactPrecondition(p) PROVE Good
  <1>1. pc[p] = "artifact" /\ UNCHANGED <<sess, rev, kv, lost>> /\ Rest'
    BY RestSame DEF checkArtifactPrecondition
  <1>2. CASE Goto(p, "claim") /\ UNCHANGED call
    BY <1>1, <1>2, GotoKept DEF Known, ClaimAt, Label
  <1>3. CASE Return(p)
    BY <1>1, <1>3, ReturnKept DEF ClaimAt
  <1> QED
    BY <1>2, <1>3 DEF checkArtifactPrecondition

(* The pid file is none of the invariant's business.                       *)
LEMMA RemovePidFileKept == ASSUME Inv, NEW p \in Proc, removePidFile(p) PROVE Good
  <1>1. /\ pc[p] = "pidrm" /\ Goto(p, "del")
        /\ UNCHANGED <<sess, rev, kv, wt, recovery, call, watch, made, landed, unproven, lost, budget>>
        /\ pidfile' = [pidfile EXCEPT ![call[p].slot] = NoPid]
    BY DEF removePidFile, hist
  <1>2. Rest'
    BY <1>1, TypeParts, CallFields DEF Inv, Rest
  <1> QED
    BY <1>1, <1>2, GotoKept DEF Known, ClaimAt, Label

(* After the delete: the worktree, or the end.                             *)
LEMMA AfterDeleteEffect ==
    ASSUME Inv, NEW p \in Proc, AfterDelete(p)
    PROVE  \E l \in {"idle", "next", "preserve"} : \E c : Moves(p, l, c)
  <1>1. CASE Goto(p, "preserve") /\ UNCHANGED call
    <2>1. Moves(p, "preserve", call[p])
      BY <1>1, CallFields DEF Moves, Goto, Label, Inv, TypeOK
    <2> QED
      BY <2>1
  <1>2. CASE Return(p)
    BY <1>2, ReturnEffect
  <1> QED
    BY <1>1, <1>2 DEF AfterDelete

(* deleteSessionRecord deletes by the revision it has.                     *)
LEMMA DeleteKept == ASSUME Inv, NEW p \in Proc, deleteSessionRecord(p) PROVE Good
  <1>1. pc[p] = "del" /\ UNCHANGED <<kv, lost>> /\ Rest'
    BY RestSame DEF deleteSessionRecord
  <1>2. CASE Remove(call[p].slot) /\ AfterDelete(p)
    <2>1. PICK l \in {"idle", "next", "preserve"} : \E c : Moves(p, l, c)
      BY <1>2, AfterDeleteEffect
    <2>2. PICK c : Moves(p, l, c)
      BY <2>1
    <2>3. ~Known(l, c) /\ l \notin ClaimAt /\ pc[p] \notin ClaimAt /\ l # "bumpput"
      BY <1>1 DEF Known, ClaimAt
    <2> QED
      BY <1>1, <1>2, <2>2, <2>3, CallFields, RemoveKept
  <1>3. CASE Goto(p, "reget") /\ UNCHANGED <<sess, rev, call>>
    BY <1>1, <1>3, GotoKept DEF Known, ClaimAt, Label
  <1> QED
    BY <1>2, <1>3 DEF deleteSessionRecord

(* Its second read, after a conflict.                                      *)
LEMMA RereadKept == ASSUME Inv, NEW p \in Proc, rereadRevision(p) PROVE Good
  <1> DEFINE c == call[p]
             d == [c EXCEPT !.rev = rev[c.slot], !.tries = @ + 1]
  <1>1. pc[p] = "reget" /\ UNCHANGED <<sess, rev, kv, lost>> /\ Rest'
    BY RestSame DEF rereadRevision
  <1>2. CASE AfterDelete(p)
    <2>1. PICK l \in {"idle", "next", "preserve"} : \E e : Moves(p, l, e)
      BY <1>2, AfterDeleteEffect
    <2>2. PICK e : Moves(p, l, e)
      BY <2>1
    <2>3. ~Known(l, e) /\ l \notin ClaimAt /\ pc[p] \notin ClaimAt /\ l # "bumpput"
      BY <1>1 DEF Known, ClaimAt
    <2> QED
      BY <1>1, <2>2, <2>3, QuietKept
  <1>3. CASE Set(p, d) /\ Goto(p, "del")
    <2>1. d \in CallRec
      <3>1. c \in CallRec /\ rev[c.slot] \in Nat /\ c.tries + 1 \in Nat
        BY CallFields
      <3> QED
        BY <3>1 DEF CallRec
    <2>2. Moves(p, "del", d)
      BY <1>3, <2>1 DEF Moves, Set, Goto, Label
    <2> HIDE DEF d
    <2> QED
      BY <1>1, <2>2, QuietKept DEF ClaimAt, Known
  <1>4. CASE Return(p)
    BY <1>1, <1>4, ReturnKept DEF ClaimAt
  <1> QED
    BY <1>2, <1>3, <1>4 DEF rereadRevision

(* The two steps on the worktree.                                          *)
LEMMA WorktreeKept ==
    ASSUME Inv, NEW p \in Proc, preserveWorktree(p) \/ removeWorktree(p) PROVE Good
  <1>1. CASE preserveWorktree(p)
    <2>1. /\ pc[p] = "preserve" /\ Goto(p, "wtrm") /\ recovery' = recovery \cup {call[p].slot}
          /\ UNCHANGED <<sess, rev, kv, wt, pidfile, call, watch, made, landed, unproven, lost, budget>>
      BY <1>1 DEF preserveWorktree, hist
    <2>2. Rest'
      BY <2>1, TypeParts, CallFields DEF Inv, Rest
    <2> QED
      BY <2>1, <2>2, GotoKept DEF Known, ClaimAt, Label
  <1>2. CASE removeWorktree(p)
    <2>1. /\ pc[p] = "wtrm" /\ Return(p) /\ wt' = [wt EXCEPT ![call[p].slot] = "absent"]
          /\ UNCHANGED <<sess, rev, kv, recovery, pidfile, watch, made, landed, unproven, lost, budget>>
      BY <1>2 DEF removeWorktree, hist
    <2>2. Rest'
      BY <2>1, TypeParts, CallFields DEF Inv, Rest
    <2> QED
      BY <2>1, <2>2, ReturnKept DEF ClaimAt
  <1> QED
    BY <1>1, <1>2

(* A reap goes to its next slot, or ends.                                  *)
LEMMA ReapAllKept == ASSUME Inv, NEW p \in Proc, reapAll(p) PROVE Good
  <1>1. pc[p] = "next" /\ UNCHANGED <<sess, rev, kv, lost>> /\ Rest'
    BY RestSame DEF reapAll
  <1>2. CASE Goto(p, "idle") /\ Set(p, NoCall)
    <2>1. Moves(p, "idle", NoCall)
      BY <1>2, NoCallType DEF Moves, Goto, Set, Label
    <2> QED
      BY <1>1, <2>1, QuietKept DEF Known, ClaimAt
  <1>3. ASSUME NEW s \in call[p].todo,
               Set(p, [call[p] EXCEPT !.slot = s, !.todo = @ \ {s}]), Goto(p, "resume")
        PROVE  Good
    <2> DEFINE d == [call[p] EXCEPT !.slot = s, !.todo = @ \ {s}]
    <2>1. d \in CallRec /\ d.verb = call[p].verb /\ d.task = call[p].task
      <3>1. s \in Slot /\ call[p].todo \ {s} \in SUBSET Slot
        BY CallFields DEF CallRec
      <3> QED
        BY <3>1, CallFields DEF CallRec
    <2>2. Moves(p, "resume", d)
      BY <1>3, <2>1 DEF Moves, Set, Goto, Label
    <2> HIDE DEF d
    <2>3. d.verb # "tasksclose"
      BY <1>1, <2>1 DEF Inv, IInv, ReapsNext
    <2> QED
      BY <1>1, <2>2, <2>3, QuietKept DEF Known, ClaimAt
  <1> QED
    BY <1>2, <1>3 DEF reapAll

(* `tasks close` finds a slot for its task, or none.                       *)
LEMMA LookupKept == ASSUME Inv, NEW p \in Proc, lookupSlotForTask(p) PROVE Good
  <1>1. pc[p] = "lookup" /\ UNCHANGED <<sess, rev, kv, lost>> /\ Rest'
    BY RestSame DEF lookupSlotForTask
  <1>2. CASE Goto(p, "legacy") /\ UNCHANGED call
    BY <1>1, <1>2, GotoKept DEF Known, ClaimAt, Label
  <1>3. ASSUME NEW s \in Slot, Set(p, [call[p] EXCEPT !.slot = s]), Goto(p, "resume")
        PROVE  Good
    <2> DEFINE d == [call[p] EXCEPT !.slot = s]
    <2>1. d \in CallRec /\ d.task = call[p].task
      BY CallFields DEF CallRec
    <2>2. Moves(p, "resume", d)
      BY <1>3, <2>1 DEF Moves, Set, Goto, Label
    <2> HIDE DEF d
    <2>3. call[p].task \in DOMAIN kv
      BY <1>1 DEF Inv, IInv, TasksExist, Known
    <2> QED
      BY <1>1, <2>1, <2>2, <2>3, QuietKept DEF ClaimAt
  <1> QED
    BY <1>2, <1>3 DEF lookupSlotForTask

(* The two round trips of a cleanup.                                       *)
LEMMA CleanupKept ==
    ASSUME Inv, NEW p \in Proc, cleanupGet(p) \/ cleanupDelete(p) PROVE Good
  <1>1. CASE cleanupGet(p)
    <2> DEFINE c == call[p]
               d == [c EXCEPT !.rev = rev[c.slot]]
    <2>1. pc[p] = "keyget" /\ UNCHANGED <<sess, rev, kv, lost>> /\ Rest'
      BY <1>1, RestSame DEF cleanupGet
    <2>2. CASE Goto(p, "wtrm") /\ UNCHANGED call
      BY <2>1, <2>2, GotoKept DEF Known, ClaimAt, Label
    <2>3. CASE Set(p, d) /\ Goto(p, "keydel")
      <3>1. d \in CallRec
        BY CallFields DEF CallRec
      <3>2. Moves(p, "keydel", d)
        BY <2>3, <3>1 DEF Moves, Set, Goto, Label
      <3> HIDE DEF d
      <3> QED
        BY <2>1, <3>2, QuietKept DEF ClaimAt, Known
    <2> QED
      BY <1>1, <2>2, <2>3 DEF cleanupGet
  <1>2. CASE cleanupDelete(p)
    <2>1. pc[p] = "keydel" /\ UNCHANGED <<kv, lost>> /\ Rest'
      BY <1>2, RestSame DEF cleanupDelete
    <2>2. CASE Remove(call[p].slot) /\ Goto(p, "wtrm") /\ UNCHANGED call
      <3>1. Moves(p, "wtrm", call[p])
        BY <2>2, CallFields DEF Moves, Goto, Label, Inv, TypeOK
      <3> QED
        BY <2>1, <2>2, <3>1, CallFields, RemoveKept DEF Known, ClaimAt
    <2>3. CASE Return(p) /\ UNCHANGED <<sess, rev>>
      BY <2>1, <2>3, ReturnKept DEF ClaimAt
    <2> QED
      BY <1>2, <2>2, <2>3 DEF cleanupDelete
  <1> QED
    BY <1>1, <1>2

-----------------------------------------------------------------------------
(* The steps on the task records.                                          *)

(* A verb that has its claim gives it up: the record is not claimed any    *)
(* more, or the claim is lost; no other verb has a claim of it.            *)
LEMMA GiveUpKept ==
    ASSUME Inv, NEW p \in Proc, pc[p] \in ClaimAt, NEW l, NEW c, Moves(p, l, c),
           l \notin ClaimAt, ~Known(l, c),
           Rest', UNCHANGED <<sess, rev>>,
           Store(kv'), DOMAIN kv' = DOMAIN kv,
           \A u \in DOMAIN kv \ {call[p].task} : kv'[u] = kv[u],
           lost \subseteq lost',
           kv'[call[p].task].status # "claimed" \/ call[p].task \in lost'
    PROVE  Good
  <1>1. /\ Bucket' /\ Advances /\ SessionKept
        /\ \A s \in Slot : sess'[s] # NoSession => sess'[s].task \in DOMAIN kv
    BY BucketSame
  <1>2. \A q \in Proc \ {p} : pc[q] \in ClaimAt =>
           call[q].task # call[p].task /\ call[q].task \in DOMAIN kv
    BY DEF Inv, IInv, ClaimsDistinct, TasksExist, Known
  <1>3. \A q \in Proc \ {p} : pc[q] \in ClaimAt => Fence(call[q], kv'[call[q].task])
    BY <1>2 DEF Inv, IInv, ClaimsFenced
  <1>4. \A t \in DOMAIN kv' \ lost' : kv'[t].status = "claimed" =>
           /\ t \in DOMAIN kv \ lost /\ kv[t].status = "claimed" /\ call[p].task # t
    OBVIOUS
  <1>5. l # "bumpput"
    BY DEF Known
  <1> QED
    BY <1>1, <1>3, <1>4, <1>5, StepKept DEF Good

(* The un-claim of a verb that has its claim.                              *)
LEMMA UnclaimEffect ==
    ASSUME Inv, NEW p \in Proc, pc[p] \in ClaimAt,
           kv' = IF unclaimMutatorOK(Args(p), kv[call[p].task])
                 THEN [kv EXCEPT ![call[p].task] = Unclaimed(@)] ELSE kv
    PROVE  /\ Store(kv') /\ DOMAIN kv' = DOMAIN kv
           /\ \A u \in DOMAIN kv \ {call[p].task} : kv'[u] = kv[u]
           /\ kv'[call[p].task].status # "claimed"
  <1> DEFINE t == call[p].task
  <1>1. t \in DOMAIN kv /\ Store(kv) /\ Fence(call[p], kv[t])
    BY TypeParts DEF Inv, IInv, TasksExist, Known, ClaimsFenced
  <1>2. kv[t] \in TaskRec /\ Args(p).agent = call[p].slot /\ call[p].slot \in Slot
    BY <1>1, CallFields DEF Store, Args
  <1>3. Unclaimed(kv[t]) \in TaskRec /\ Unclaimed(kv[t]).status = "open"
    BY <1>2, MutatorTypes
  <1>4. CASE unclaimMutatorOK(Args(p), kv[t])
    <2>1. kv' = [kv EXCEPT ![t] = Unclaimed(kv[t])]
      BY <1>4
    <2> QED
      BY <1>1, <1>3, <2>1 DEF Store
  <1>5. CASE ~unclaimMutatorOK(Args(p), kv[t])
    BY <1>1, <1>2, <1>5 DEF unclaimMutatorOK, Fence
  <1> QED
    BY <1>4, <1>5

(* Leaf.Claim: an open record is nobody's claim.                           *)
LEMMA OpenLeafAndClaimKept == ASSUME Inv, NEW p \in Proc, openLeafAndClaim(p) PROVE Good
  <1> DEFINE c == call[p]
             t == c.task
             r == Claimed(Args(p), kv[t])
             d == [c EXCEPT !.epoch = kv[t].claimEpoch + 1]
             l == AfterClaim(c)
  <1>1. /\ pc[p] = "claim"
        /\ wt' = IF Joining(c) /\ wt[c.slot] = "absent"
                 THEN [wt EXCEPT ![c.slot] = "clean"] ELSE wt
        /\ UNCHANGED <<sess, rev, recovery, pidfile, watch, made, landed, unproven>>
    BY DEF openLeafAndClaim
  <1>2. t \in DOMAIN kv /\ Store(kv) /\ Rest
    BY <1>1, TypeParts DEF Inv, IInv, TasksExist, Known
  <1>3. /\ budget' \in [verbs : Nat, crashes : Nat, faults : Nat]
        /\ lost' \in {lost, lost \cup {t}}
    <2>1. CASE UNCHANGED <<lost, budget>>
      BY <1>2, <2>1 DEF Rest
    <2>2. CASE Fault /\ lost' = lost \cup {t}
      BY <1>2, <2>2, FaultType
    <2> QED
      BY <2>1, <2>2 DEF openLeafAndClaim
  <1>0. Rest'
    BY <1>1, <1>2, <1>3, CallFields DEF Rest
  <1>4. CASE ClaimOK(p)
    <2>1. /\ kv' = [kv EXCEPT ![t] = r]
          /\ \/ Set(p, d) /\ Goto(p, l) /\ UNCHANGED lost
             \/ Return(p) /\ lost' = lost \cup {t}
      BY <1>4 DEF openLeafAndClaim
    <2>2. kv[t] \in TaskRec /\ Args(p).agent = c.slot /\ c.slot \in Slot
      BY <1>2, CallFields DEF Store, Args
    <2>3. r \in TaskRec /\ r.claimedBy = c.slot /\ r.claimEpoch = kv[t].claimEpoch + 1
      <3> DEFINE x == Args(p)
                 k == kv[t]
      <3>1. x.agent \in AgentOrNone /\ k \in TaskRec /\ x.agent = c.slot
        BY <2>2
      <3> HIDE DEF x, k
      <3>2. /\ Claimed(x, k) \in TaskRec /\ Claimed(x, k).claimedBy = c.slot
            /\ Claimed(x, k).claimEpoch = k.claimEpoch + 1
        BY <3>1, MutatorTypes
      <3> QED
        BY <3>2 DEF x, k
    <2>4. d \in CallRec /\ d.task = t /\ d.slot = c.slot /\ d.epoch = kv[t].claimEpoch + 1
      <3>1. c \in CallRec /\ kv[t].claimEpoch + 1 \in Nat
        BY <2>2, CallFields DEF TaskRec
      <3> QED
        BY <3>1 DEF CallRec
    <2>5. l \in {"put", "land", "closetask"}
      BY DEF AfterClaim
    <2> HIDE DEF d, l, r
    <2>7. Store(kv') /\ DOMAIN kv' = DOMAIN kv
      BY <1>2, <2>1, <2>3 DEF Store
    <2>8. kv'[t] = r /\ \A u \in DOMAIN kv \ {t} : kv'[u] = kv[u]
      BY <1>2, <2>1 DEF Store
    <2>9. \A q \in Proc : pc[q] \in ClaimAt => call[q].task # t /\ call[q].task \in DOMAIN kv
      <3> SUFFICES ASSUME NEW q \in Proc, pc[q] \in ClaimAt
                   PROVE  call[q].task # t /\ call[q].task \in DOMAIN kv
        OBVIOUS
      <3>1. kv[t].status = "open" /\ kv[t].claimedBy = NoAgent
        BY <1>4 DEF ClaimOK, claimMutatorOK
      <3>2. Fence(call[q], kv[call[q].task]) /\ call[q].slot \in Agent
        BY CallFields DEF Inv, IInv, ClaimsFenced
      <3>3. call[q].task \in DOMAIN kv
        BY DEF Inv, IInv, TasksExist, Known
      <3> QED
        BY <3>1, <3>2, <3>3, NoAgentAssumption DEF Fence
    <2>10. Fence(d, kv'[d.task])
      BY <2>3, <2>4, <2>8 DEF Fence
    <2>11. \A q \in Proc \ {p} : pc[q] \in ClaimAt => Fence(call[q], kv'[call[q].task])
      BY <2>8, <2>9 DEF Inv, IInv, ClaimsFenced
    <2>13. /\ Bucket' /\ Advances /\ SessionKept
           /\ \A s \in Slot : sess'[s] # NoSession => sess'[s].task \in DOMAIN kv
      BY <1>1, BucketSame
    <2>14. CASE Set(p, d) /\ Goto(p, l) /\ UNCHANGED lost
      <3>1. Moves(p, l, d)
        BY <2>4, <2>5, <2>14 DEF Moves, Set, Goto, Label
      <3>2. \A u \in DOMAIN kv' \ lost' : kv'[u].status = "claimed" =>
               \/ d.task = u
               \/ u \in DOMAIN kv \ lost /\ kv[u].status = "claimed"
        BY <2>4, <2>7, <2>8, <2>14
      <3>3. l \in ClaimAt /\ pc[p] \notin ClaimAt /\ l # "bumpput"
        BY <1>1, <2>5 DEF ClaimAt
      <3> QED
        BY <1>0, <1>2, <2>4, <2>7, <2>9, <2>10, <2>11, <2>13, <3>1, <3>2, <3>3, StepKept DEF Good
    <2>15. CASE Return(p) /\ lost' = lost \cup {t}
      <3>1. PICK m \in {"idle", "next"} : \E e : Moves(p, m, e)
        BY <2>15, ReturnEffect
      <3>2. PICK e : Moves(p, m, e)
        BY <3>1
      <3>3. m \notin ClaimAt /\ ~Known(m, e) /\ pc[p] \notin ClaimAt /\ m # "bumpput"
        BY <1>1 DEF Known, ClaimAt
      <3>4. \A u \in DOMAIN kv' \ lost' : kv'[u].status = "claimed" =>
               u \in DOMAIN kv \ lost /\ kv[u].status = "claimed"
        BY <2>7, <2>8, <2>15
      <3> QED
        BY <1>0, <2>7, <2>11, <2>13, <3>2, <3>3, <3>4, StepKept DEF Good
    <2> QED
      BY <2>1, <2>14, <2>15
  <1>5. CASE ~ClaimOK(p)
    <2>1. Return(p) /\ UNCHANGED <<kv, lost>>
      BY <1>5 DEF openLeafAndClaim
    <2> QED
      BY <1>0, <1>1, <2>1, ReturnKept DEF ClaimAt
  <1> QED
    BY <1>4, <1>5

(* A release that fails loses the claim, at worst.                         *)
LEMMA ReleaseFailsEffect ==
    ASSUME Inv, NEW p \in Proc, pc[p] \in ClaimAt, ReleaseFails(p)
    PROVE  /\ Store(kv') /\ DOMAIN kv' = DOMAIN kv
           /\ \A u \in DOMAIN kv \ {call[p].task} : kv'[u] = kv[u]
           /\ lost \subseteq lost' /\ lost' \subseteq Task
           /\ kv'[call[p].task].status # "claimed" \/ call[p].task \in lost'
           /\ budget' \in [verbs : Nat, crashes : Nat, faults : Nat]
  <1>1. Rest /\ Store(kv) /\ call[p].task \in Task
    BY TypeParts, CallFields DEF Inv
  <1>2. budget' \in [verbs : Nat, crashes : Nat, faults : Nat]
    BY <1>1, FaultType DEF ReleaseFails
  <1>3. CASE Unclaims(p) /\ UNCHANGED lost
    BY <1>1, <1>2, <1>3, UnclaimEffect DEF Unclaims, Rest
  <1>4. CASE lost' = lost \cup {call[p].task} /\ UNCHANGED kv
    BY <1>1, <1>2, <1>4 DEF Rest
  <1> QED
    BY <1>3, <1>4 DEF ReleaseFails

(* Claim.Release.                                                          *)
LEMMA ReleaseClaimKept == ASSUME Inv, NEW p \in Proc, ReleaseClaim(p) PROVE Good
  <1>1. /\ pc[p] = "unclaim" /\ pc[p] \in ClaimAt
        /\ UNCHANGED <<sess, rev, disk, watch, made, landed, unproven>>
    BY DEF ReleaseClaim, ClaimAt
  <1>2. /\ Store(kv') /\ DOMAIN kv' = DOMAIN kv
        /\ \A u \in DOMAIN kv \ {call[p].task} : kv'[u] = kv[u]
        /\ lost \subseteq lost' /\ lost' \subseteq Task
        /\ kv'[call[p].task].status # "claimed" \/ call[p].task \in lost'
        /\ budget' \in [verbs : Nat, crashes : Nat, faults : Nat]
    <2>1. CASE Unclaims(p) /\ UNCHANGED <<lost, budget>>
      BY <1>1, <2>1, UnclaimEffect, TypeParts DEF Unclaims, Inv, Rest
    <2>2. CASE ReleaseFails(p)
      BY <1>1, <2>2, ReleaseFailsEffect
    <2> QED
      BY <2>1, <2>2 DEF ReleaseClaim
  <1>3. Rest'
    BY <1>1, <1>2, TypeParts DEF Inv, Rest, disk
  <1>4. PICK l \in {"idle", "next", "bumpget", "pidrm"} : \E c : Moves(p, l, c)
    <2>1. CASE Return(p)
      BY <2>1, ReturnEffect
    <2>2. ASSUME NEW l \in {"bumpget", "pidrm"}, Goto(p, l), UNCHANGED call
          PROVE  Moves(p, l, call[p])
      BY <2>2, CallFields DEF Moves, Goto, Label, Inv, TypeOK
    <2> QED
      BY <2>1, <2>2 DEF ReleaseClaim
  <1>5. PICK c : Moves(p, l, c)
    BY <1>4
  <1>6. l \notin ClaimAt /\ ~Known(l, c)
    BY DEF Known, ClaimAt
  <1> QED
    BY <1>1, <1>2, <1>3, <1>5, <1>6, GiveUpKept

(* The checkin of a commit lands, or is refused and the claim given back.  *)
LEMMA CommitLandsKept == ASSUME Inv, NEW p \in Proc, CommitLands(p) PROVE Good
  <1> DEFINE c == call[p]
  <1>1. /\ pc[p] = "land" /\ pc[p] \in ClaimAt
        /\ UNCHANGED <<sess, rev, recovery, pidfile, watch, made, unproven>>
    BY DEF CommitLands, ClaimAt
  <1>2. Rest
    BY TypeParts DEF Inv
  <1>3. CASE /\ landed' = landed \cup {c.sid}
             /\ wt' = IF wt[c.slot] = "dirty" THEN [wt EXCEPT ![c.slot] = "clean"] ELSE wt
             /\ Goto(p, "unclaim") /\ UNCHANGED <<kv, call, lost, budget>>
    <2>1. Rest'
      BY <1>1, <1>2, <1>3, CallFields DEF Rest
    <2> QED
      BY <1>1, <1>3, <2>1, GotoKept DEF Known, ClaimAt, Label
  <1>4. CASE ReleaseFails(p) /\ Return(p) /\ UNCHANGED <<landed, wt>>
    <2>1. /\ Store(kv') /\ DOMAIN kv' = DOMAIN kv
          /\ \A u \in DOMAIN kv \ {c.task} : kv'[u] = kv[u]
          /\ lost \subseteq lost' /\ lost' \subseteq Task
          /\ kv'[c.task].status # "claimed" \/ c.task \in lost'
          /\ budget' \in [verbs : Nat, crashes : Nat, faults : Nat]
      BY <1>1, <1>4, ReleaseFailsEffect
    <2>2. Rest'
      BY <1>1, <1>2, <1>4, <2>1 DEF Rest
    <2>3. PICK l \in {"idle", "next"} : \E e : Moves(p, l, e)
      BY <1>4, ReturnEffect
    <2>4. PICK e : Moves(p, l, e)
      BY <2>3
    <2>5. l \notin ClaimAt /\ ~Known(l, e)
      BY DEF Known, ClaimAt
    <2> QED
      BY <1>1, <2>1, <2>2, <2>4, <2>5, GiveUpKept
  <1> QED
    BY <1>3, <1>4 DEF CommitLands

(* closeTaskAndReleaseClaim: closed, left behind, or on to the release.    *)
LEMMA CloseTaskKept == ASSUME Inv, NEW p \in Proc, closeTask(p) PROVE Good
  <1> DEFINE c == call[p]
             t == c.task
             r == applyClose(Args(p), kv[t], 0)
  <1>1. /\ pc[p] = "closetask" /\ pc[p] \in ClaimAt
        /\ UNCHANGED <<sess, rev, wt, recovery, pidfile, watch, made, landed>>
    BY DEF closeTask, ClaimAt, disk
  <1>2. Rest /\ Store(kv) /\ t \in DOMAIN kv /\ kv[t] \in TaskRec
    <2>1. Rest /\ Store(kv) /\ t \in DOMAIN kv
      BY <1>1, TypeParts DEF Inv, IInv, TasksExist, Known
    <2> QED
      BY <2>1 DEF Store
  <1>3. CASE /\ kv' = [kv EXCEPT ![t] = r]
             /\ unproven' = IF c.sid \in landed \/ c.verb = "closeempty"
                            THEN unproven ELSE unproven \cup {c.sid}
             /\ Goto(p, "pidrm") /\ UNCHANGED <<call, lost, budget>>
    <2>1. r \in TaskRec /\ r.status = "closed"
      <3> DEFINE x == Args(p)
                 k == kv[t]
      <3>1. x.agent \in AgentOrNone /\ k \in TaskRec
        BY <1>2, CallFields DEF Args
      <3> HIDE DEF x, k
      <3>2. applyClose(x, k, 0) \in TaskRec /\ applyClose(x, k, 0).status = "closed"
        BY <3>1, MutatorTypes
      <3> QED
        BY <3>2 DEF x, k
    <2> HIDE DEF r
    <2>2. Rest'
      BY <1>1, <1>2, <1>3, CallFields DEF Rest
    <2>3. Moves(p, "pidrm", c) /\ "pidrm" \notin ClaimAt /\ ~Known("pidrm", c)
      BY <1>3, CallFields DEF Moves, Goto, Label, Inv, TypeOK, ClaimAt, Known
    <2>4. /\ Store(kv') /\ DOMAIN kv' = DOMAIN kv /\ kv'[t].status # "claimed"
          /\ \A u \in DOMAIN kv \ {t} : kv'[u] = kv[u]
      BY <1>2, <1>3, <2>1 DEF Store
    <2> QED
      BY <1>1, <1>3, <2>2, <2>3, <2>4, GiveUpKept
  <1>4. CASE /\ budget' = [budget EXCEPT !.faults = IF @ > 0 THEN @ - 1 ELSE @]
             /\ lost' = lost \cup {t} /\ Return(p) /\ UNCHANGED <<kv, unproven>>
    <2>1. Rest'
      <3>1. budget' \in [verbs : Nat, crashes : Nat, faults : Nat]
        BY <1>2, <1>4 DEF Rest
      <3> QED
        BY <1>1, <1>2, <1>4, <3>1, CallFields DEF Rest
    <2>2. PICK l \in {"idle", "next"} : \E e : Moves(p, l, e)
      BY <1>4, ReturnEffect
    <2>3. PICK e : Moves(p, l, e)
      BY <2>2
    <2>4. l \notin ClaimAt /\ ~Known(l, e)
      BY DEF Known, ClaimAt
    <2> QED
      BY <1>1, <1>2, <1>4, <2>1, <2>3, <2>4, GiveUpKept
  <1>5. CASE Goto(p, "unclaim") /\ UNCHANGED <<kv, call, unproven, lost, budget>>
    <2>1. Rest'
      BY <1>1, <1>2, <1>5 DEF Rest
    <2> QED
      BY <1>1, <1>5, <2>1, GotoKept DEF Known, ClaimAt, Label
  <1> QED
    BY <1>3, <1>4, <1>5 DEF closeTask

(* legacyClose leaves the epoch alone, so whoever has the claim is fenced. *)
LEMMA CloseLegacyKept == ASSUME Inv, NEW p \in Proc, closeLegacy(p) PROVE Good
  <1> DEFINE t == call[p].task
             x == [agent |-> NoAgent]
             r == legacyClose(x, kv[t], 0)
  <1>1. /\ pc[p] = "legacy" /\ UNCHANGED <<sess, rev, lost>> /\ Rest' /\ Return(p)
        /\ kv' = IF kv[t].status = "closed" THEN kv ELSE [kv EXCEPT ![t] = r]
    BY RestSame DEF closeLegacy
  <1>2. Store(kv) /\ t \in DOMAIN kv /\ kv[t] \in TaskRec
    <2>1. Store(kv) /\ t \in DOMAIN kv
      BY <1>1, TypeParts DEF Inv, IInv, TasksExist, Known
    <2> QED
      BY <2>1 DEF Store
  <1>3. r \in TaskRec /\ r.status = "closed" /\ r.claimEpoch = kv[t].claimEpoch
    <2> DEFINE k == kv[t]
    <2>1. x.agent \in AgentOrNone /\ k \in TaskRec
      BY <1>2
    <2> HIDE DEF x, k
    <2>2. /\ legacyClose(x, k, 0) \in TaskRec /\ legacyClose(x, k, 0).status = "closed"
          /\ legacyClose(x, k, 0).claimEpoch = k.claimEpoch
      BY <2>1, MutatorTypes
    <2> QED
      BY <2>2 DEF k
  <1> HIDE DEF r
  <1>4. /\ Store(kv') /\ DOMAIN kv' = DOMAIN kv
        /\ kv'[t].status = "closed" /\ kv'[t].claimEpoch = kv[t].claimEpoch
        /\ \A u \in DOMAIN kv \ {t} : kv'[u] = kv[u]
    BY <1>1, <1>2, <1>3 DEF Store
  <1>5. \A q \in Proc \ {p} : pc[q] \in ClaimAt => Fence(call[q], kv'[call[q].task])
    <2> SUFFICES ASSUME NEW q \in Proc, pc[q] \in ClaimAt
                 PROVE  Fence(call[q], kv'[call[q].task])
      OBVIOUS
    <2>1. Fence(call[q], kv[call[q].task]) /\ call[q].task \in DOMAIN kv
      BY DEF Inv, IInv, ClaimsFenced, TasksExist, Known
    <2>2. CASE call[q].task = t
      BY <1>4, <2>1, <2>2 DEF Fence
    <2>3. CASE call[q].task # t
      BY <1>4, <2>1, <2>3 DEF Fence
    <2> QED
      BY <2>2, <2>3
  <1>6. \A u \in DOMAIN kv' \ lost' : kv'[u].status = "claimed" =>
           u \in DOMAIN kv \ lost /\ kv[u].status = "claimed"
    BY <1>1, <1>4
  <1>7. /\ Bucket' /\ Advances /\ SessionKept
        /\ \A s \in Slot : sess'[s] # NoSession => sess'[s].task \in DOMAIN kv
    BY <1>1, BucketSame
  <1>8. PICK l \in {"idle", "next"} : \E e : Moves(p, l, e)
    BY <1>1, ReturnEffect
  <1>9. PICK e : Moves(p, l, e)
    BY <1>8
  <1>10. l \notin ClaimAt /\ ~Known(l, e) /\ pc[p] \notin ClaimAt /\ l # "bumpput"
    BY <1>1 DEF Known, ClaimAt
  <1> QED
    BY <1>1, <1>4, <1>5, <1>6, <1>7, <1>9, <1>10, StepKept DEF Good

(* JoinAuto: the probe, and on the fresh path a new open record.           *)
LEMMA ProbeKept == ASSUME Inv, NEW p \in Proc, probeReEntry(p) PROVE Good
  <1>1. pc[p] = "probe" /\ UNCHANGED <<sess, rev, lost>> /\ Rest'
    BY RestSame DEF probeReEntry
  <1>2. CASE Return(p) /\ UNCHANGED kv
    BY <1>1, <1>2, ReturnKept DEF ClaimAt
  <1>3. CASE Goto(p, "bumpget") /\ UNCHANGED <<call, kv>>
    BY <1>1, <1>3, GotoKept DEF Known, ClaimAt, Label
  <1>4. ASSUME NEW t \in Task \ DOMAIN kv,
               kv' = [u \in DOMAIN kv \cup {t} |-> IF u = t THEN FreshRecord(0) ELSE kv[u]],
               Set(p, [call[p] EXCEPT !.task = t]), Goto(p, "clear")
        PROVE  Good
    <2> DEFINE d == [call[p] EXCEPT !.task = t]
    <2>1. d \in CallRec /\ d.task = t
      BY CallFields DEF CallRec
    <2>2. Moves(p, "clear", d)
      BY <1>4, <2>1 DEF Moves, Set, Goto, Label
    <2> HIDE DEF d
    <2>3. FreshRecord(0) \in TaskRec /\ FreshRecord(0).status = "open"
      BY DEF FreshRecord, TaskRec, Status
    <2>4. Store(kv)
      BY TypeParts DEF Inv
    <2>5. /\ DOMAIN kv' = DOMAIN kv \cup {t} /\ kv'[t] = FreshRecord(0)
          /\ \A u \in DOMAIN kv : kv'[u] = kv[u]
      BY <1>4
    <2>6. Store(kv')
      BY <1>4, <2>3, <2>4 DEF Store
    <2>7. \A q \in Proc \ {p} : pc[q] \in ClaimAt => Fence(call[q], kv'[call[q].task])
      BY <2>5 DEF Inv, IInv, ClaimsFenced, TasksExist, Known
    <2>8. \A u \in DOMAIN kv' \ lost' : kv'[u].status = "claimed" =>
             u \in DOMAIN kv \ lost /\ kv[u].status = "claimed"
      BY <1>1, <2>3, <2>5
    <2>9. /\ Bucket' /\ Advances /\ SessionKept
          /\ \A s \in Slot : sess'[s] # NoSession => sess'[s].task \in DOMAIN kv
      BY <1>1, BucketSame
    <2>10. "clear" \notin ClaimAt /\ pc[p] \notin ClaimAt
      BY <1>1 DEF ClaimAt
    <2> QED
      BY <1>1, <2>1, <2>2, <2>5, <2>6, <2>7, <2>8, <2>9, <2>10, StepKept DEF Good
  <1> QED
    BY <1>2, <1>3, <1>4 DEF probeReEntry

(* A killed verb's claim is lost.                                          *)
LEMMA CrashKept == ASSUME Inv, NEW p \in Proc, Crash(p) PROVE Good
  <1>1. /\ budget.crashes > 0 /\ budget' = [budget EXCEPT !.crashes = @ - 1]
        /\ lost' = IF HasClaim(p) THEN lost \cup {call[p].task} ELSE lost
        /\ UNCHANGED <<sess, rev, kv, wt, recovery, pidfile, watch, made, landed, unproven>>
    BY DEF Crash, disk
  <1>2. Moves(p, "idle", NoCall)
    BY NoCallType DEF Crash, Moves, Goto, Set, Label
  <1>3. Rest /\ Store(kv)
    BY TypeParts DEF Inv
  <1>4. Rest'
    <2>1. budget' \in [verbs : Nat, crashes : Nat, faults : Nat]
      BY <1>1, <1>3 DEF Rest
    <2> QED
      BY <1>1, <1>3, <2>1, CallFields DEF Rest
  <1>5. "idle" \notin ClaimAt /\ ~Known("idle", NoCall)
    BY DEF Known, ClaimAt
  <1>6. CASE HasClaim(p)
    <2>1. pc[p] \in ClaimAt
      BY <1>6 DEF HasClaim, ClaimAt
    <2> QED
      BY <1>1, <1>2, <1>3, <1>4, <1>5, <1>6, <2>1, GiveUpKept
  <1>7. CASE ~HasClaim(p)
    <2>1. pc[p] \notin ClaimAt
      BY <1>7 DEF HasClaim, ClaimAt
    <2> QED
      BY <1>1, <1>2, <1>4, <1>5, <1>7, <2>1, QuietKept
  <1> QED
    BY <1>6, <1>7

-----------------------------------------------------------------------------
(* The environment.                                                        *)

(* A step of nobody's verb.                                                *)
LEMMA EnvKept ==
    ASSUME Inv, UNCHANGED <<pc, call, kv, lost>>, Bucket', Rest', Advances,
           \A s \in Slot : sess'[s] # NoSession => sess'[s].task \in DOMAIN kv
    PROVE  Inv'
  <1>1. TypeOK'
    BY TypeParts, TypePartsNext DEF Inv
  <1>2. TasksExist' /\ ReapsNext' /\ ClaimsDistinct' /\ ClaimsFenced'
    BY DEF Inv, IInv, TasksExist, ReapsNext, ClaimsDistinct, ClaimsFenced
  <1>3. ClaimsReturned'
    BY DEF Inv, IInv, ClaimsReturned, HasClaim
  <1>4. BumpsFresh'
    <2> SUFFICES ASSUME NEW q \in Proc, pc[q] = "bumpput"
                 PROVE  Fresh(call[q], sess'[call[q].slot], rev'[call[q].slot])
      BY DEF BumpsFresh
    <2>1. Bucket /\ call[q] \in CallRec /\ Fresh(call[q], sess[call[q].slot], rev[call[q].slot])
      BY TypeParts DEF Inv, IInv, BumpsFresh
    <2> QED
      BY <2>1, FreshKept
  <1> QED
    BY <1>1, <1>2, <1>3, <1>4 DEF Inv, IInv

(* The watcher's tick, an edit, the pruning and a stuttering step.         *)
LEMMA OutsideKept ==
    ASSUME Inv, UNCHANGED <<sess, rev, pc, call, kv, lost>>, Rest' PROVE Good
  BY BucketSame, EnvKept DEF Good

(* The watcher's reap of one slot.                                         *)
LEMMA ReapOneKept == ASSUME Inv, NEW s \in Slot, reapOne(s) PROVE Good
  <1>1. /\ watch' = watch \ {s} /\ wt' \in {wt, [wt EXCEPT ![s] = "absent"]}
        /\ UNCHANGED <<kv, recovery, pidfile, pc, call, made, landed, unproven, lost, budget>>
    BY DEF reapOne, hist
  <1>2. Rest'
    BY <1>1, TypeParts DEF Inv, Rest
  <1>3. CASE Remove(s)
    BY <1>1, <1>2, <1>3, RemoveEffect, EnvKept DEF Good
  <1>4. CASE UNCHANGED <<sess, rev>>
    BY <1>1, <1>2, <1>4, OutsideKept
  <1> QED
    BY <1>3, <1>4 DEF reapOne

(* Time: the session stays the same until it is gone.                      *)
LEMMA TimeKept == ASSUME Inv, NEW s \in Slot, Age(s) \/ Evict(s) PROVE Good
  <1>1. UNCHANGED <<rev, kv, disk, pc, call, watch, hist, budget>> /\ sess[s] # NoSession
    BY DEF Age, Evict
  <1>2. Rest' /\ lost' = lost
    BY <1>1, RestSame
  <1>3. Bucket /\ sess[s] \in Session /\ sess[s].task \in DOMAIN kv
    BY <1>1, TypeParts DEF Inv, IInv, TasksExist, Bucket
  <1>4. CASE Age(s)
    <2> DEFINE x == [sess[s] EXCEPT !.stale = TRUE]
    <2>1. x \in Session /\ x.id = sess[s].id /\ x.task = sess[s].task /\ x.host = sess[s].host
      BY <1>3 DEF Session
    <2>2. sess' = [sess EXCEPT ![s] = x]
      BY <1>4 DEF Age
    <2> HIDE DEF x
    <2>3. \A u \in Slot : sess'[u] = IF u = s THEN x ELSE sess[u]
      BY <1>3, <2>2 DEF Bucket
    <2>4. Bucket'
      BY <1>1, <1>3, <2>1, <2>2 DEF Bucket
    <2>5. \A u \in Slot : sess'[u] # NoSession => sess'[u].task \in DOMAIN kv
      BY <1>3, <2>1, <2>3 DEF Inv, IInv, TasksExist
    <2>6. Advances /\ SessionKept
      BY <1>1, <2>1, <2>3 DEF Advances, SessionKept
    <2> QED
      BY <1>1, <1>2, <2>4, <2>5, <2>6, EnvKept DEF Good
  <1>5. CASE Evict(s)
    <2>1. \A u \in Slot : sess'[u] = IF u = s THEN NoSession ELSE sess[u]
      BY <1>3, <1>5 DEF Evict, Bucket
    <2>2. Bucket'
      BY <1>1, <1>3, <1>5 DEF Evict, Bucket
    <2>3. \A u \in Slot : sess'[u] # NoSession => sess'[u].task \in DOMAIN kv
      BY <2>1 DEF Inv, IInv, TasksExist
    <2>4. Advances /\ SessionKept
      BY <1>1, <2>1 DEF Advances, SessionKept
    <2> QED
      BY <1>1, <1>2, <2>2, <2>3, <2>4, EnvKept DEF Good
  <1> QED
    BY <1>4, <1>5

-----------------------------------------------------------------------------
(* The invariant of every behaviour.                                       *)

(* No session and no claim at first.                                       *)
LEMMA InitInv == Init => Inv
  <1> SUFFICES ASSUME Init PROVE Inv
    OBVIOUS
  <1>1. FreshRecord(0) \in TaskRec /\ FreshRecord(0).status = "open"
    BY DEF FreshRecord, TaskRec, Status
  <1>2. Store(kv) /\ \A t \in DOMAIN kv : kv[t].status = "open"
    BY <1>1, VerbAssumption DEF Init, Store
  <1>3. Bucket
    BY DEF Init, Bucket
  <1>4. Rest
    BY LimitAssumption DEF Init, Rest
  <1>5. pc \in [Proc -> Label] /\ call \in [Proc -> CallRec]
    BY NoCallType DEF Init, Label
  <1>6. TypeOK
    BY <1>2, <1>3, <1>4, <1>5, TypeParts
  <1>7. TasksExist /\ ReapsNext /\ ClaimsDistinct /\ ClaimsFenced /\ BumpsFresh
    BY DEF Init, TasksExist, Known, ReapsNext, ClaimsDistinct, ClaimsFenced, BumpsFresh, ClaimAt
  <1>8. ClaimsReturned
    BY <1>2 DEF ClaimsReturned
  <1> QED
    BY <1>6, <1>7, <1>8 DEF Inv, IInv

(* One step of a verb.                                                     *)
LEMMA StepGood == ASSUME Inv, NEW p \in Proc, Step(p) PROVE Good
  BY ClearKept, ClearDeleteKept, OpenLeafAndClaimKept, PutSessionKept, WritePidFileKept,
     ReleaseClaimKept, ProbeKept, ResumeKept, CommitLandsKept, BumpGetKept, BumpPutKept,
     ArtifactKept, CloseTaskKept, RemovePidFileKept, DeleteKept, RereadKept, WorktreeKept,
     ReapAllKept, LookupKept, CloseLegacyKept, CleanupKept DEF Step

(* Every step keeps the invariant and the sessions.                        *)
LEMMA NextGood == ASSUME Inv, [Next]_vars PROVE Good
  <1>1. CASE UNCHANGED vars
    BY <1>1, RestSame, OutsideKept DEF vars
  <1>2. CASE tickOnce
    <2>1. Rest' /\ lost' = lost
      BY <1>2, TypeParts DEF tickOnce, Inv, Rest, Local, disk, hist
    <2> QED
      BY <1>2, <2>1, OutsideKept DEF tickOnce
  <1>3. ASSUME NEW s \in Slot, AgentWrites(s) PROVE Good
    <2>1. Rest' /\ lost' = lost
      BY <1>3, TypeParts DEF AgentWrites, Inv, Rest, hist
    <2> QED
      BY <1>3, <2>1, OutsideKept DEF AgentWrites
  <1>4. CASE PruneDead
    <2>1. Rest' /\ lost' = lost
      BY <1>4, TypeParts DEF PruneDead, Inv, Rest, hist
    <2> QED
      BY <1>4, <2>1, OutsideKept DEF PruneDead
  <1> QED
    BY <1>1, <1>2, <1>3, <1>4, StartVerbKept, StepGood, CrashKept, ReapOneKept, TimeKept DEF Next

(* So it holds in every state.                                             *)
LEMMA Invariance == Spec => []Inv
  <1>1. Inv /\ [Next]_vars => Inv'
    BY NextGood DEF Good
  <1> QED
    BY <1>1, InitInv, PTL DEF Spec

(* Every behaviour keeps the bucket, the task records, the disk and the    *)
(* verbs in their types.                                                   *)
THEOREM TypeCorrect == Spec => []TypeOK
  <1>1. Inv => TypeOK
    BY DEF Inv
  <1> QED
    BY <1>1, Invariance, PTL

(* While a verb has its claim nobody un-claims it or takes it over, though *)
(* all verbs of a slot share one agent and a release compares no epoch.    *)
THEOREM VerbsAreFenced == Spec => []ClaimFenced
  <1>1. Inv => ClaimFenced
    BY DEF Inv, IInv, ClaimsFenced, Fence, ClaimFenced, HasClaim, ClaimAt
  <1> QED
    BY <1>1, Invariance, PTL

(* However a verb ends the claim is given back, unless the verb is killed  *)
(* or the claim, the close or the release itself fails.                    *)
THEOREM ClaimsComeBack == Spec => []ClaimsReturned
  <1>1. Inv => ClaimsReturned
    BY DEF Inv, IInv
  <1> QED
    BY <1>1, Invariance, PTL

(* No write replaces a live session by another one, and no late renewal    *)
(* brings back a session that has ended.                                   *)
THEOREM SessionsStay == Spec => SessionsNeverReplaced
  <1>1. Inv /\ [Next]_vars => [SessionKept]_vars
    BY NextGood DEF Good
  <1>2. Spec => [][SessionKept]_vars
    BY <1>1, Invariance, PTL DEF Spec
  <1> QED
    BY <1>2 DEF SessionsNeverReplaced, SessionKept
=============================================================================
