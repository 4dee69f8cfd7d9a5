---------------------------- MODULE Coord_proofs ----------------------------
(***************************************************************************)
(* Theorems about Coord, for any set of agents, processes, tasks and       *)
(* files, any lists of files and any bounds.  TypeOK and IInv together are *)
(* inductive: IInv says of each process what it still has to give back at  *)
(* every point of a claim, a rollback and a release, and any of these may  *)
(* fail.                                                                   *)
(***************************************************************************)
EXTENDS Coord, TLAPS

-----------------------------------------------------------------------------
(* The inductive invariant.  The parts about one process are operators of  *)
(* its label l, its locals c and its closures k, so that they can be said  *)
(* of the state before and of the state after a step.                      *)

(* A process that has stopped is in no call and has no closure left.       *)
StoppedIdle == \A p \in Proc \ alive : pc[p] = "idle" /\ closure[p] = {}

(* Where a call is in its loop over the task's files, and what it has      *)
(* announced by then.                                                      *)
Progress(l, c) ==
    /\ l \in {"dropold", "announce"} => c.i \in DOMAIN FilesOf[c.task]
    /\ l = "dropold" => c.held = {}
    /\ l = "announce" => c.held \subseteq FileSet(c.task)
    /\ l = "unclaim" => c.held = FileSet(c.task)

InProgress == \A p \in Proc : Progress(pc[p], call[p])

(* The closures that have both parts of their release before them.         *)
Whole(l, c, k) == IF l = "drop" THEN k \ {c.task} ELSE k

(* Claiming without the task of a release that has done its un-claim: if   *)
(* that task is claimed again, it is another process that claimed it.      *)
Owed(l, c, k) ==
    Whole(l, c, k) \cup
    IF l \in {"dropold", "announce", "rollback", "undo", "unclaim"} THEN {c.task} ELSE {}

ClaimsOwed ==
    \A t \in Task :
        kv[t].status = "claimed" =>
            \/ kv[t].claimedBy \in Bereft
            \/ t \in stuck
            \/ \E p \in alive : /\ AgentOf[p] = kv[t].claimedBy
                               /\ t \in Owed(pc[p], call[p], closure[p])

(* Carries without the files of a release that it has come past: if such a *)
(* file is held again, another process or another closure has it.          *)
Pledged(l, c, k) ==
    (IF l \in {"announce", "rollback", "drop", "unclaim"} THEN c.held ELSE {})
    \cup UNION {FileSet(t) : t \in Whole(l, c, k)}

HoldsPledged ==
    \A f \in File :
        \/ hold[f] \in Bereft \cup {NoAgent}
        \/ f \in stray
        \/ \E p \in alive : /\ AgentOf[p] = hold[f]
                           /\ f \in Pledged(pc[p], call[p], closure[p])

(* A commit that has lost no hold since its hold-gate looked at it has all *)
(* those it has found.                                                     *)
Gated == {"check", "gate", "commit"}

Covered ==
    \A p \in Proc \ exposed :
        pc[p] \in Gated => \A f \in call[p].held : hold[f] = AgentOf[p]

IInv == StoppedIdle /\ InProgress /\ ClaimsOwed /\ HoldsPledged /\ Covered

(* What the proofs carry from state to state.                              *)
Inv == TypeOK /\ IInv

USE DEF AgentOrNone

-----------------------------------------------------------------------------
(* The operators.                                                          *)

(* The locals of an idle process are those of a call.                      *)
LEMMA NoCallType == NoCall \in CallRec
  BY TaskAssumption DEF NoCall, CallRec, Verb

(* A task record lists files, at least one.                                *)
LEMMA FilesType ==
    ASSUME NEW t \in Task
    PROVE  /\ FilesOf[t] \in Seq(File)
           /\ DOMAIN FilesOf[t] = 1 .. Len(FilesOf[t])
           /\ Len(FilesOf[t]) \in Nat \ {0}
           /\ FileSet(t) \subseteq File
           /\ \A i \in DOMAIN FilesOf[t] : FilesOf[t][i] \in FileSet(t)
  <1>1. FilesOf[t] \in Seq(File) /\ FilesOf[t] # <<>>
    BY FilesAssumption
  <1>2. DOMAIN FilesOf[t] = 1 .. Len(FilesOf[t]) /\ Len(FilesOf[t]) \in Nat \ {0}
    BY <1>1
  <1>3. \A i \in DOMAIN FilesOf[t] : FilesOf[t][i] \in File
    BY <1>1, <1>2
  <1> QED
    BY <1>1, <1>2, <1>3 DEF FileSet

(* The mutators return records; a claim names its agent, an un-claim and a *)
(* close name none.                                                        *)
LEMMA MutatorTypes ==
    ASSUME NEW r \in TaskRec, NEW x, x.agent \in Agent
    PROVE  /\ Claimed(x, r) \in TaskRec
           /\ Claimed(x, r).claimedBy = x.agent
           /\ Unclaimed(r) \in TaskRec
           /\ Unclaimed(r).status = "open"
           /\ applyClose(x, r, 0) \in TaskRec
           /\ applyClose(x, r, 0).status = "closed"
  <1>1. r.claimEpoch + 1 \in Nat
    BY DEF TaskRec
  <1> QED
    BY <1>1 DEF Claimed, Unclaimed, applyClose, TaskRec, Status

(* Task t is claimed by p with the record r, and its call has locals c.    *)
ClaimTaken(p, t, r, c) ==
    /\ r.claimedBy = AgentOf[p]
    /\ kv' = [kv EXCEPT ![t] = r]
    /\ call' = [call EXCEPT ![p] = c]
    /\ c.task = t /\ c.i = 1 /\ c.held = {}
    /\ activeEpochs' \in [Proc -> [Task -> Nat]]
    /\ stuck' = stuck \ {t}
    /\ UNCHANGED <<hold, closure, exposed, stray, envVars>>

(* The task CAS of a claim, a reclaim or a handoff.                        *)
LEMMA TaskCASEffect ==
    ASSUME TypeOK, NEW p \in Proc, NEW t \in Task, NEW prev \in AgentOrNone,
           NEW op \in {"claim", "reclaim", "handoff"}, TaskCAS(p, t, op, prev)
    PROVE  \E r \in TaskRec, c \in CallRec : ClaimTaken(p, t, r, c)
  <1> DEFINE x == Args(p, t, op, prev)
             r == Claimed(x, kv[t])
             c == [NoCall EXCEPT !.op = op, !.task = t, !.prev = prev, !.i = 1]
  <1>1. x.agent = AgentOf[p] /\ x.op = op /\ AgentOf[p] \in Agent
    BY ProcAssumption DEF Args
  <1>2. r \in TaskRec /\ r.claimedBy = AgentOf[p]
    <2>1. kv[t] \in TaskRec
      BY DEF TypeOK
    <2> HIDE DEF x
    <2> QED
      BY <1>1, <2>1, MutatorTypes
  <1>3. Mutate(x, kv[t], 0) = r
    BY <1>1 DEF Mutate
  <1>4. kv' = [kv EXCEPT ![t] = r]
    BY <1>3 DEF TaskCAS
  <1>5. c \in CallRec /\ c.task = t /\ c.i = 1 /\ c.held = {}
    BY TaskAssumption DEF NoCall, CallRec, Verb
  <1>6. activeEpochs' \in [Proc -> [Task -> Nat]]
    <2>1. kv[t].claimEpoch + 1 \in Nat
      BY DEF TypeOK, TaskRec
    <2> QED
      BY <2>1 DEF TypeOK, TaskCAS
  <1>7. /\ call' = [call EXCEPT ![p] = c] /\ stuck' = stuck \ {t}
        /\ UNCHANGED <<hold, closure, exposed, stray, envVars>>
    BY DEF TaskCAS
  <1> HIDE DEF x, r, c
  <1> QED
    BY <1>2, <1>4, <1>5, <1>6, <1>7 DEF ClaimTaken

(* The un-claim: either the record is not the agent's, or it is open after *)
(* it.                                                                     *)
LEMMA UnclaimEffect ==
    ASSUME TypeOK, NEW p \in Proc, NEW t \in Task, Unclaim(p, t)
    PROVE  /\ kv' \in [Task -> TaskRec]
           /\ \A u \in Task \ {t} : kv'[u] = kv[u]
           /\ kv'[t].status = "claimed" => kv'[t] = kv[t] /\ kv[t].claimedBy # AgentOf[p]
                                            /\ (t \in stuck => t \in stuck')
           /\ stuck' \subseteq Task /\ stuck \subseteq stuck' \cup {t}
  <1> DEFINE x == Args(p, t, "unclaim", NoAgent)
  <1>1. kv[t] \in TaskRec /\ x.agent = AgentOf[p] /\ AgentOf[p] \in Agent
    BY ProcAssumption DEF TypeOK, Args
  <1>2. Unclaimed(kv[t]) \in TaskRec /\ Unclaimed(kv[t]).status = "open"
    BY <1>1, MutatorTypes
  <1> QED
    BY <1>1, <1>2 DEF TypeOK, Unclaim, unclaimMutatorOK

(* A release of a hold: the file, if the agent had it, has no holder, and  *)
(* the commits it covered are exposed.                                     *)
LEMMA ReleaseHoldEffect ==
    ASSUME TypeOK, NEW f, NEW a, ReleaseHold(f, a)
    PROVE  /\ hold' \in [File -> AgentOrNone]
           /\ \A g \in File : hold'[g] \in {hold[g], NoAgent}
           /\ f \in File /\ hold[f] = a => hold'[f] = NoAgent
           /\ exposed \subseteq exposed' /\ exposed' \subseteq Proc
           /\ stray' \subseteq stray
           /\ \A g \in File : hold'[g] = NoAgent \/ (g \in stray => g \in stray')
           /\ \A g \in File, q \in Proc :
                 hold'[g] # hold[g] /\ AgentOf[q] = hold[g] /\ g \in call[q].held
                    /\ pc[q] \in Gated => q \in exposed'
  <1>1. CASE hold[f] = a
    <2>1. hold' = [hold EXCEPT ![f] = NoAgent]
      BY <1>1 DEF ReleaseHold, Drop
    <2>2. \A g \in File : hold'[g] # hold[g] => g = f
      BY <2>1 DEF TypeOK
    <2>3. exposed' = exposed \cup
              {p \in Proc : AgentOf[p] = hold[f] /\ f \in call[p].held
                            /\ pc[p] \in {"check", "gate", "commit"}}
      BY <1>1 DEF ReleaseHold, Drop
    <2>4. stray' = stray \ {f}
      BY <1>1 DEF ReleaseHold, Drop
    <2> QED
      BY <2>1, <2>2, <2>3, <2>4 DEF TypeOK, Gated
  <1>2. CASE hold[f] # a
    BY <1>2 DEF ReleaseHold, TypeOK
  <1> QED
    BY <1>1, <1>2

(* One file of a rollback or of a release: the call goes on without it.    *)
LEMMA GiveBackEffect ==
    ASSUME TypeOK, NEW p \in Proc, GiveBack(p)
    PROVE  \E f : \E c \in CallRec :
              /\ ReleaseHold(f, AgentOf[p])
              /\ pc' = pc /\ call' = [call EXCEPT ![p] = c]
              /\ c.task = call[p].task /\ c.held = call[p].held \ {f}
  <1> DEFINE f == NextHeld(call[p])
             c == [call[p] EXCEPT !.held = @ \ {f}]
  <1>1. call[p] \in CallRec
    BY DEF TypeOK
  <1>2. c \in CallRec /\ c.task = call[p].task /\ c.held = call[p].held \ {f}
    <2> HIDE DEF f
    <2> QED
      BY <1>1 DEF CallRec
  <1>3. ReleaseHold(f, AgentOf[p]) /\ pc' = pc /\ call' = [call EXCEPT ![p] = c]
    BY DEF GiveBack
  <1> HIDE DEF f, c
  <1> QED
    BY <1>2, <1>3

-----------------------------------------------------------------------------
(* The steps of a process.                                                 *)

(* The environment, in a step of a process.                                *)
EnvKept == alive' = alive /\ present' \subseteq Agent /\ mishaps' \in Nat

LEMMA EnvUnchanged == ASSUME Inv, UNCHANGED envVars PROVE EnvKept
  BY DEF Inv, TypeOK, envVars, EnvKept

(* What a step of process p, which takes it to label l, locals c and       *)
(* closures k, has to show for the invariant: a claim or a hold of its own *)
(* agent stays accounted for by p if it was, a new one is accounted for by *)
(* p, and whoever is past a hold-gate and loses a hold is exposed.         *)
LEMMA StepKept ==
    ASSUME Inv, NEW p \in Proc, NEW l \in Label, NEW c \in CallRec, NEW k \in SUBSET Task,
           p \in alive,
           pc' = [pc EXCEPT ![p] = l], call' = [call EXCEPT ![p] = c],
           closure' = [closure EXCEPT ![p] = k],
           Progress(l, c),
           kv' \in [Task -> TaskRec], hold' \in [File -> AgentOrNone],
           activeEpochs' \in [Proc -> [Task -> Nat]],
           exposed' \subseteq Proc, stray' \subseteq File, stuck' \subseteq Task,
           EnvKept,
           \A t \in Task : kv'[t].status = "claimed" =>
              \/ /\ kv'[t] = kv[t]
                 /\ t \in stuck => t \in stuck'
                 /\ kv[t].claimedBy = AgentOf[p] /\ t \in Owed(pc[p], call[p], closure[p])
                       => t \in Owed(l, c, k) \/ t \in stuck'
              \/ kv'[t].claimedBy = AgentOf[p] /\ t \in Owed(l, c, k),
           \A f \in File :
              \/ hold'[f] = NoAgent
              \/ /\ hold'[f] = hold[f]
                 /\ f \in stray => f \in stray'
                 /\ hold[f] = AgentOf[p] /\ f \in Pledged(pc[p], call[p], closure[p])
                       => f \in Pledged(l, c, k) \/ f \in stray'
              \/ hold'[f] = AgentOf[p] /\ (f \in Pledged(l, c, k) \/ f \in stray'),
           p \notin exposed' /\ l \in Gated => \A f \in c.held : hold'[f] = AgentOf[p],
           \A q \in Proc \ {p} : q \notin exposed' /\ pc[q] \in Gated =>
              /\ q \notin exposed
              /\ \A f \in call[q].held : hold[f] = AgentOf[q] => hold'[f] = AgentOf[q]
    PROVE  Inv'
  <1>1. TypeOK'
    BY DEF Inv, TypeOK, EnvKept
  <1>2. /\ pc'[p] = l /\ call'[p] = c /\ closure'[p] = k
        /\ \A q \in Proc \ {p} : pc'[q] = pc[q] /\ call'[q] = call[q] /\ closure'[q] = closure[q]
        /\ alive' = alive /\ Bereft' = Bereft
    BY DEF Inv, TypeOK, EnvKept, Bereft
  <1>3. StoppedIdle'
    BY <1>2 DEF Inv, IInv, StoppedIdle
  <1>4. InProgress'
    BY <1>2 DEF Inv, IInv, InProgress
  <1>5. ClaimsOwed'
    <2> SUFFICES ASSUME NEW t \in Task, kv'[t].status = "claimed", kv'[t].claimedBy \notin Bereft,
                        t \notin stuck'
                 PROVE  \E q \in alive : /\ AgentOf[q] = kv'[t].claimedBy
                                        /\ t \in Owed(pc'[q], call'[q], closure'[q])
      BY <1>2 DEF ClaimsOwed
    <2>1. CASE kv'[t].claimedBy = AgentOf[p] /\ t \in Owed(l, c, k)
      BY <2>1, <1>2
    <2>2. CASE /\ kv'[t] = kv[t]
               /\ t \notin stuck
               /\ kv[t].claimedBy = AgentOf[p] /\ t \in Owed(pc[p], call[p], closure[p])
                     => t \in Owed(l, c, k)
      <3>1. PICK q \in alive : /\ AgentOf[q] = kv[t].claimedBy
                              /\ t \in Owed(pc[q], call[q], closure[q])
        BY <2>2 DEF Inv, IInv, ClaimsOwed
      <3>2. q \in Proc
        BY DEF Inv, TypeOK
      <3> QED
        BY <3>1, <3>2, <2>2, <1>2
    <2> QED
      BY <2>1, <2>2
  <1>6. HoldsPledged'
    <2> SUFFICES ASSUME NEW f \in File, hold'[f] \notin Bereft \cup {NoAgent}, f \notin stray'
                 PROVE  \E q \in alive : /\ AgentOf[q] = hold'[f]
                                        /\ f \in Pledged(pc'[q], call'[q], closure'[q])
      BY <1>2 DEF HoldsPledged
    <2>1. CASE hold'[f] = AgentOf[p] /\ f \in Pledged(l, c, k)
      BY <2>1, <1>2
    <2>2. CASE /\ hold'[f] = hold[f]
               /\ f \notin stray
               /\ hold[f] = AgentOf[p] /\ f \in Pledged(pc[p], call[p], closure[p])
                     => f \in Pledged(l, c, k)
      <3>1. PICK q \in alive : /\ AgentOf[q] = hold[f]
                              /\ f \in Pledged(pc[q], call[q], closure[q])
        BY <2>2 DEF Inv, IInv, HoldsPledged
      <3>2. q \in Proc
        BY DEF Inv, TypeOK
      <3> QED
        BY <3>1, <3>2, <2>2, <1>2
    <2> QED
      BY <2>1, <2>2
  <1>7. Covered'
    <2> SUFFICES ASSUME NEW q \in Proc, q \notin exposed', pc'[q] \in Gated,
                        NEW f \in call'[q].held
                 PROVE  hold'[f] = AgentOf[q]
      BY DEF Covered
    <2>1. CASE q = p
      BY <2>1, <1>2
    <2>2. CASE q # p
      BY <2>2, <1>2 DEF Inv, IInv, Covered
    <2> QED
      BY <2>1, <2>2
  <1> QED
    BY <1>1, <1>3, <1>4, <1>5, <1>6, <1>7 DEF Inv, IInv

(* Only a process that is running makes a step.                            *)
LEMMA BusyAlive == ASSUME Inv, NEW p \in Proc, pc[p] # "idle" PROVE p \in alive
  BY DEF Inv, IInv, StoppedIdle

(* A claim, a reclaim or a handoff, from the accepted task CAS on: p owes  *)
(* the claim it has taken.                                                 *)
LEMMA TaskCASKept ==
    ASSUME Inv, NEW p \in Proc, NEW t \in Task, NEW prev \in AgentOrNone,
           NEW op \in {"claim", "reclaim", "handoff"},
           NEW l \in {"announce", "dropold"},
           p \in alive, pc[p] \in {"idle", "cas"},
           TaskCAS(p, t, op, prev), Goto(p, l)
    PROVE  Inv'
  <1>1. TypeOK
    BY DEF Inv
  <1>2. PICK r \in TaskRec, c \in CallRec : ClaimTaken(p, t, r, c)
    BY <1>1, TaskCASEffect
  <1>3. /\ r.claimedBy = AgentOf[p]
        /\ kv' = [kv EXCEPT ![t] = r]
        /\ call' = [call EXCEPT ![p] = c]
        /\ c.task = t /\ c.i = 1 /\ c.held = {}
        /\ activeEpochs' \in [Proc -> [Task -> Nat]]
        /\ stuck' = stuck \ {t}
        /\ UNCHANGED <<hold, closure, exposed, stray, envVars>>
    BY <1>2 DEF ClaimTaken
  <1>4. l \in Label /\ closure[p] \in SUBSET Task /\ pc' = [pc EXCEPT ![p] = l]
    BY <1>1 DEF Label, TypeOK, Goto
  <1>5. closure' = [closure EXCEPT ![p] = closure[p]]
    BY <1>1, <1>3 DEF TypeOK
  <1>6. Progress(l, c)
    BY <1>3, FilesType DEF Progress
  <1>7. /\ kv' \in [Task -> TaskRec] /\ hold' \in [File -> AgentOrNone]
        /\ exposed' \subseteq Proc /\ stray' \subseteq File /\ stuck' \subseteq Task
    BY <1>1, <1>3 DEF TypeOK
  <1>8. \A u \in Task : kv'[u].status = "claimed" =>
           \/ /\ kv'[u] = kv[u] /\ (u \in stuck => u \in stuck')
              /\ u \in Owed(pc[p], call[p], closure[p]) => u \in Owed(l, c, closure[p])
           \/ kv'[u].claimedBy = AgentOf[p] /\ u \in Owed(l, c, closure[p])
    BY <1>1, <1>3 DEF TypeOK, Owed, Whole
  <1>9. \A f \in File :
           /\ hold'[f] = hold[f]
           /\ f \in Pledged(pc[p], call[p], closure[p]) => f \in Pledged(l, c, closure[p])
    BY <1>3 DEF Pledged, Whole
  <1>10. \A q \in Proc : exposed' = exposed /\ hold' = hold
    BY <1>3
  <1> QED
    BY <1>3, <1>4, <1>5, <1>6, <1>7, <1>8, <1>9, <1>10, StepKept, EnvUnchanged DEF Gated

(* A step that changes neither the records nor the holds nor the closures. *)
LEMMA QuietKept ==
    ASSUME Inv, NEW p \in Proc, NEW l \in Label, NEW c \in CallRec, p \in alive,
           pc' = [pc EXCEPT ![p] = l], call' = [call EXCEPT ![p] = c],
           UNCHANGED <<kv, hold, closure, activeEpochs, exposed, stray, stuck>>, EnvKept,
           Progress(l, c),
           Owed(pc[p], call[p], closure[p]) \subseteq Owed(l, c, closure[p]),
           Pledged(pc[p], call[p], closure[p]) \subseteq Pledged(l, c, closure[p]),
           p \notin exposed /\ l \in Gated => \A f \in c.held : hold[f] = AgentOf[p]
    PROVE  Inv'
  <1>1. /\ closure[p] \in SUBSET Task /\ closure' = [closure EXCEPT ![p] = closure[p]]
        /\ kv' \in [Task -> TaskRec] /\ hold' \in [File -> AgentOrNone]
        /\ activeEpochs' \in [Proc -> [Task -> Nat]]
        /\ exposed' \subseteq Proc /\ stray' \subseteq File /\ stuck' \subseteq Task
    BY DEF Inv, TypeOK
  <1> QED
    BY <1>1, StepKept

(* A call that has nothing left to give back returns.                      *)
LEMMA ReturnKept ==
    ASSUME Inv, NEW p \in Proc, pc[p] \in {"cas", "check", "gate", "commit"}, Return(p),
           UNCHANGED <<storeVars, procVars, histVars, envVars>>
    PROVE  Inv'
  <1>1. pc' = [pc EXCEPT ![p] = "idle"] /\ call' = [call EXCEPT ![p] = NoCall]
    BY DEF Return, Goto
  <1>2. Progress("idle", NoCall) /\ "idle" \in Label
    BY DEF Progress, Label
  <1>3. /\ Owed(pc[p], call[p], closure[p]) \subseteq Owed("idle", NoCall, closure[p])
        /\ Pledged(pc[p], call[p], closure[p]) \subseteq Pledged("idle", NoCall, closure[p])
    BY DEF Owed, Pledged, Whole
  <1> QED
    BY <1>1, <1>2, <1>3, NoCallType, BusyAlive, QuietKept, EnvUnchanged DEF storeVars, procVars, histVars, Gated

(* prepareReclaim has only read.                                           *)
LEMMA PrepareReclaimKept ==
    ASSUME Inv, NEW p \in Proc, NEW t \in Task, PrepareReclaim(p, t) PROVE Inv'
  <1> DEFINE c == [NoCall EXCEPT !.op = "reclaim", !.task = t, !.prev = kv[t].claimedBy]
  <1>1. /\ pc' = [pc EXCEPT ![p] = "cas"] /\ call' = [call EXCEPT ![p] = c]
        /\ p \in alive /\ pc[p] = "idle"
        /\ UNCHANGED <<kv, hold, closure, activeEpochs, exposed, stray, stuck, envVars>>
    BY DEF PrepareReclaim, MayStart, Starts, Goto, storeVars, procVars, histVars
  <1>2. c \in CallRec
    <2>1. kv[t].claimedBy \in AgentOrNone
      BY DEF Inv, TypeOK, TaskRec
    <2> QED
      BY <2>1, NoCallType DEF CallRec, Verb
  <1> HIDE DEF c
  <1>3. Progress("cas", c) /\ "cas" \in Label
    BY DEF Progress, Label
  <1>4. /\ Owed(pc[p], call[p], closure[p]) \subseteq Owed("cas", c, closure[p])
        /\ Pledged(pc[p], call[p], closure[p]) \subseteq Pledged("cas", c, closure[p])
    BY <1>1 DEF Owed, Pledged, Whole
  <1> QED
    BY <1>1, <1>2, <1>3, <1>4, QuietKept, EnvUnchanged DEF Gated

(* A refused announce leaves what p has announced to the rollback.         *)
LEMMA AnnounceHeldKept ==
    ASSUME Inv, NEW p \in Proc, AnnounceHeld(p) PROVE Inv'
  <1>1. /\ pc' = [pc EXCEPT ![p] = "rollback"] /\ call' = call
        /\ pc[p] = "announce"
        /\ UNCHANGED <<kv, hold, closure, activeEpochs, exposed, stray, stuck, envVars>>
    BY DEF AnnounceHeld, Goto, storeVars, procVars, histVars
  <1>2. call[p] \in CallRec /\ call' = [call EXCEPT ![p] = call[p]]
    BY <1>1 DEF Inv, TypeOK
  <1>3. Progress("rollback", call[p]) /\ "rollback" \in Label
    BY DEF Progress, Label
  <1>4. /\ Owed(pc[p], call[p], closure[p]) \subseteq Owed("rollback", call[p], closure[p])
        /\ Pledged(pc[p], call[p], closure[p]) \subseteq Pledged("rollback", call[p], closure[p])
    BY <1>1 DEF Owed, Pledged, Whole
  <1> QED
    BY <1>1, <1>2, <1>3, <1>4, BusyAlive, QuietKept, EnvUnchanged DEF Gated

(* The locals of a release of task t.                                      *)
Releasing(t) == [NoCall EXCEPT !.op = "release", !.task = t, !.held = FileSet(t)]

(* A release starts with all files of the task.                            *)
LEMMA ReleasingType ==
    ASSUME NEW t \in Task
    PROVE  /\ Releasing(t) \in CallRec
           /\ Releasing(t).task = t /\ Releasing(t).held = FileSet(t)
           /\ Progress("unclaim", Releasing(t)) /\ "unclaim" \in Label
           /\ \A c, k : /\ Owed("idle", c, k) \subseteq Owed("unclaim", Releasing(t), k)
                        /\ Pledged("idle", c, k) \subseteq Pledged("unclaim", Releasing(t), k)
  <1>1. FileSet(t) \in SUBSET File
    BY FilesType
  <1>2. /\ Releasing(t) \in CallRec
        /\ Releasing(t).task = t /\ Releasing(t).held = FileSet(t)
    BY <1>1, NoCallType DEF Releasing, CallRec, Verb
  <1> QED
    BY <1>2 DEF Progress, Label, Owed, Pledged, Whole

(* A release begins with the claim and all files to give back.             *)
LEMMA ReleaseKept ==
    ASSUME Inv, NEW p \in Proc, NEW t \in Task, Release(p, t) PROVE Inv'
  <1>1. /\ pc' = [pc EXCEPT ![p] = "unclaim"] /\ call' = [call EXCEPT ![p] = Releasing(t)]
        /\ p \in alive /\ pc[p] = "idle"
        /\ UNCHANGED <<kv, hold, closure, activeEpochs, exposed, stray, stuck, envVars>>
    BY DEF Release, Releasing, Goto, storeVars, procVars, histVars
  <1> QED
    BY <1>1, ReleasingType, QuietKept, EnvUnchanged DEF Gated

(* Leaf.Close: the record is closed, and the release begins.               *)
LEMMA CloseKept ==
    ASSUME Inv, NEW p \in Proc, NEW t \in Task, Close(p, t) PROVE Inv'
  <1> DEFINE x == Args(p, t, "close", NoAgent)
             r == applyClose(x, kv[t], 0)
             k == closure[p]
  <1>1. /\ pc' = [pc EXCEPT ![p] = "unclaim"] /\ call' = [call EXCEPT ![p] = Releasing(t)]
        /\ p \in alive /\ pc[p] = "idle" /\ kv' = [kv EXCEPT ![t] = r]
        /\ stuck' = stuck \ {t}
        /\ UNCHANGED <<hold, closure, activeEpochs, exposed, stray, envVars>>
    BY DEF Close, Starts, Releasing, Goto, procVars
  <1>2. r \in TaskRec /\ r.status = "closed"
    <2>1. x.agent \in Agent /\ kv[t] \in TaskRec
      BY ProcAssumption DEF Args, Inv, TypeOK
    <2> HIDE DEF x
    <2> QED
      BY <2>1, MutatorTypes
  <1> HIDE DEF r
  <1>3. /\ kv' \in [Task -> TaskRec] /\ hold' \in [File -> AgentOrNone]
        /\ k \in SUBSET Task /\ closure' = [closure EXCEPT ![p] = k]
        /\ activeEpochs' \in [Proc -> [Task -> Nat]]
        /\ exposed' \subseteq Proc /\ stray' \subseteq File /\ stuck' \subseteq Task
    BY <1>1, <1>2 DEF Inv, TypeOK
  <1>4. \A u \in Task : kv'[u].status = "claimed" => kv'[u] = kv[u] /\ (u \in stuck => u \in stuck')
    BY <1>1, <1>2 DEF Inv, TypeOK
  <1>5. /\ Owed(pc[p], call[p], k) \subseteq Owed("unclaim", Releasing(t), k)
        /\ Pledged(pc[p], call[p], k) \subseteq Pledged("unclaim", Releasing(t), k)
    BY <1>1, ReleasingType
  <1> QED
    BY <1>1, <1>3, <1>4, <1>5, ReleasingType, StepKept, EnvUnchanged DEF Gated

(* The hold-gate begins with nothing found yet.                            *)
LEMMA CheckHoldsKept ==
    ASSUME Inv, NEW p \in Proc, NEW t \in Task, NEW files \in SUBSET FileSet(t),
           checkHolds(p, t, files)
    PROVE  Inv'
  <1> DEFINE c == [NoCall EXCEPT !.op = "commit", !.task = t, !.todo = files]
             k == closure[p]
  <1>1. /\ pc' = [pc EXCEPT ![p] = "check"] /\ call' = [call EXCEPT ![p] = c]
        /\ p \in alive /\ pc[p] = "idle"
        /\ exposed' = exposed \ {p}
        /\ UNCHANGED <<kv, hold, closure, activeEpochs, stray, stuck, envVars>>
    BY DEF checkHolds, Starts, Goto, storeVars, procVars
  <1>2. c \in CallRec /\ c.held = {}
    <2>1. files \in SUBSET File
      BY FilesType
    <2> QED
      BY <2>1, TaskAssumption DEF NoCall, CallRec, Verb
  <1> HIDE DEF c
  <1>3. /\ kv' \in [Task -> TaskRec] /\ hold' \in [File -> AgentOrNone]
        /\ k \in SUBSET Task /\ closure' = [closure EXCEPT ![p] = k]
        /\ activeEpochs' \in [Proc -> [Task -> Nat]]
        /\ exposed' \subseteq Proc /\ stray' \subseteq File /\ stuck' \subseteq Task
    BY <1>1 DEF Inv, TypeOK
  <1>4. Progress("check", c) /\ "check" \in Label
    BY DEF Progress, Label
  <1>5. /\ Owed(pc[p], call[p], k) \subseteq Owed("check", c, k)
        /\ Pledged(pc[p], call[p], k) \subseteq Pledged("check", c, k)
    BY <1>1 DEF Owed, Pledged, Whole
  <1>6. \A q \in Proc \ {p} : q \notin exposed' => q \notin exposed
    BY <1>1
  <1>7. EnvKept
    BY <1>1, EnvUnchanged
  <1> QED
    BY <1>1, <1>2, <1>3, <1>4, <1>5, <1>6, <1>7, StepKept

(* One file of the hold-gate: the caller holds it.                         *)
LEMMA WhoHasKept ==
    ASSUME Inv, NEW p \in Proc, WhoHas(p) PROVE Inv'
  <1>1. PICK f \in call[p].todo :
           /\ hold[f] = AgentOf[p]
           /\ call' = [call EXCEPT ![p].todo = @ \ {f}, ![p].held = @ \cup {f}]
           /\ IF call[p].todo = {f} THEN Goto(p, "gate") ELSE UNCHANGED pc
    BY DEF WhoHas
  <1> DEFINE l == IF call[p].todo = {f} THEN "gate" ELSE "check"
             c == [call[p] EXCEPT !.todo = @ \ {f}, !.held = @ \cup {f}]
  <1>2. pc[p] = "check" /\ UNCHANGED <<kv, hold, closure, activeEpochs, exposed, stray, stuck, envVars>>
    BY DEF WhoHas, storeVars, procVars, histVars
  <1>3. c \in CallRec /\ c.held = call[p].held \cup {f}
    BY DEF Inv, TypeOK, CallRec
  <1>4. pc' = [pc EXCEPT ![p] = l] /\ call' = [call EXCEPT ![p] = c]
    <2>1. pc' = [pc EXCEPT ![p] = l]
      BY <1>1, <1>2 DEF Goto, Inv, TypeOK
    <2>2. call' = [call EXCEPT ![p] = c]
      BY <1>1 DEF Inv, TypeOK
    <2> QED
      BY <2>1, <2>2
  <1>5. l \in Label /\ l \in {"check", "gate"}
    BY DEF Label
  <1> HIDE DEF l, c
  <1>6. Progress(l, c)
    BY <1>5 DEF Progress
  <1>7. /\ Owed(pc[p], call[p], closure[p]) \subseteq Owed(l, c, closure[p])
        /\ Pledged(pc[p], call[p], closure[p]) \subseteq Pledged(l, c, closure[p])
    BY <1>2, <1>5 DEF Owed, Pledged, Whole
  <1>8. p \notin exposed => \A g \in c.held : hold[g] = AgentOf[p]
    BY <1>1, <1>2, <1>3 DEF Inv, IInv, Covered, Gated
  <1>9. p \in alive /\ EnvKept
    BY <1>2, BusyAlive, EnvUnchanged
  <1> QED
    BY <1>2, <1>3, <1>4, <1>5, <1>6, <1>7, <1>8, <1>9, QuietKept

(* The epoch-gate lets the commit go on, or ends it.                       *)
LEMMA CheckEpochKept ==
    ASSUME Inv, NEW p \in Proc, checkEpoch(p) PROVE Inv'
  <1>1. CASE Return(p)
    BY <1>1, ReturnKept DEF checkEpoch
  <1>2. CASE Goto(p, "commit") /\ UNCHANGED call
    <2>1. /\ pc' = [pc EXCEPT ![p] = "commit"] /\ call' = call
          /\ pc[p] = "gate"
          /\ UNCHANGED <<kv, hold, closure, activeEpochs, exposed, stray, stuck, envVars>>
      BY <1>2 DEF checkEpoch, Goto, storeVars, procVars, histVars
    <2>2. call[p] \in CallRec /\ call' = [call EXCEPT ![p] = call[p]]
      BY <2>1 DEF Inv, TypeOK
    <2>3. Progress("commit", call[p]) /\ "commit" \in Label
      BY DEF Progress, Label
    <2>4. /\ Owed(pc[p], call[p], closure[p]) \subseteq Owed("commit", call[p], closure[p])
          /\ Pledged(pc[p], call[p], closure[p]) \subseteq Pledged("commit", call[p], closure[p])
      BY <2>1 DEF Owed, Pledged, Whole
    <2>5. p \notin exposed => \A f \in call[p].held : hold[f] = AgentOf[p]
      BY <2>1 DEF Inv, IInv, Covered, Gated
    <2> QED
      BY <2>1, <2>2, <2>3, <2>4, <2>5, BusyAlive, QuietKept, EnvUnchanged
  <1> QED
    BY <1>1, <1>2 DEF checkEpoch

(* A step that gives up the hold of one file, and no claim.                *)
LEMMA HoldReleasedKept ==
    ASSUME Inv, NEW p \in Proc, NEW l \in Label, NEW c \in CallRec, NEW f, NEW a,
           p \in alive, l \notin Gated,
           pc' = [pc EXCEPT ![p] = l], call' = [call EXCEPT ![p] = c],
           ReleaseHold(f, a), UNCHANGED <<kv, closure, activeEpochs, stuck, envVars>>,
           Progress(l, c),
           Owed(pc[p], call[p], closure[p]) \subseteq Owed(l, c, closure[p]),
           \A g \in File : g \in Pledged(pc[p], call[p], closure[p]) =>
              g \in Pledged(l, c, closure[p]) \/ (g = f /\ a = AgentOf[p])
    PROVE  Inv'
  <1>1. TypeOK
    BY DEF Inv
  <1>2. /\ hold' \in [File -> AgentOrNone]
        /\ \A g \in File : hold'[g] \in {hold[g], NoAgent}
        /\ f \in File /\ hold[f] = a => hold'[f] = NoAgent
        /\ exposed \subseteq exposed' /\ exposed' \subseteq Proc
        /\ stray' \subseteq stray
        /\ \A g \in File : hold'[g] = NoAgent \/ (g \in stray => g \in stray')
        /\ \A g \in File, q \in Proc :
              hold'[g] # hold[g] /\ AgentOf[q] = hold[g] /\ g \in call[q].held
                 /\ pc[q] \in Gated => q \in exposed'
    BY <1>1, ReleaseHoldEffect
  <1>3. /\ kv' \in [Task -> TaskRec]
        /\ closure[p] \in SUBSET Task /\ closure' = [closure EXCEPT ![p] = closure[p]]
        /\ activeEpochs' \in [Proc -> [Task -> Nat]]
        /\ stray' \subseteq File /\ stuck' \subseteq Task
    BY <1>2 DEF Inv, TypeOK
  <1>4. \A g \in File :
           \/ hold'[g] = NoAgent
           \/ /\ hold'[g] = hold[g] /\ (g \in stray => g \in stray')
              /\ hold[g] = AgentOf[p] /\ g \in Pledged(pc[p], call[p], closure[p])
                    => g \in Pledged(l, c, closure[p])
    BY <1>2
  <1>5. \A q \in Proc \ {p} : q \notin exposed' /\ pc[q] \in Gated =>
           /\ q \notin exposed
           /\ \A g \in call[q].held : hold[g] = AgentOf[q] => hold'[g] = AgentOf[q]
    <2> SUFFICES ASSUME NEW q \in Proc, q \notin exposed', pc[q] \in Gated,
                        NEW g \in call[q].held, hold[g] = AgentOf[q]
                 PROVE  hold'[g] = AgentOf[q]
      BY <1>2
    <2>1. g \in File
      BY <1>1 DEF TypeOK, CallRec
    <2> QED
      BY <1>2, <2>1 DEF Gated
  <1> QED
    BY <1>2, <1>3, <1>4, <1>5, StepKept, EnvUnchanged

(* releaseOldHolds gives up holds of the previous claimer only.            *)
LEMMA ReleaseOldHoldKept ==
    ASSUME Inv, NEW p \in Proc, ReleaseOldHold(p) PROVE Inv'
  <1> DEFINE c == call[p]
             files == FilesOf[c.task]
             up == [c EXCEPT !.i = @ + 1]
             again == [c EXCEPT !.i = 1]
  <1>1. c \in CallRec /\ c.task \in Task /\ c.i \in DOMAIN files /\ c.held = {}
    BY DEF Inv, TypeOK, IInv, InProgress, Progress, ReleaseOldHold, CallRec
  <1>2. /\ pc[p] = "dropold" /\ ReleaseHold(files[c.i], c.prev)
        /\ UNCHANGED <<kv, closure, activeEpochs, stuck, envVars>>
    BY DEF ReleaseOldHold, procVars
  <1>3. DOMAIN files = 1 .. Len(files) /\ Len(files) \in Nat \ {0}
    BY <1>1, FilesType
  <1>4. /\ "dropold" \in Label \ Gated /\ "announce" \in Label \ Gated
        /\ p \in alive
    BY <1>2, BusyAlive DEF Label, Gated
  <1>5. CASE c.i < Len(files)
    <2>1. up \in CallRec /\ up.task = c.task /\ up.held = {} /\ up.i \in DOMAIN files
      BY <1>1, <1>3, <1>5 DEF CallRec
    <2>2. pc' = [pc EXCEPT ![p] = "dropold"] /\ call' = [call EXCEPT ![p] = up]
      BY <1>2, <1>5 DEF ReleaseOldHold, Inv, TypeOK
    <2> HIDE DEF up
    <2>3. Progress("dropold", up)
      BY <2>1 DEF Progress
    <2>4. /\ Owed(pc[p], c, closure[p]) \subseteq Owed("dropold", up, closure[p])
          /\ Pledged(pc[p], c, closure[p]) \subseteq Pledged("dropold", up, closure[p])
      BY <1>2, <2>1 DEF Owed, Pledged, Whole
    <2> QED
      BY <1>2, <1>4, <2>1, <2>2, <2>3, <2>4, HoldReleasedKept, EnvUnchanged
  <1>6. CASE ~(c.i < Len(files))
    <2>1. again \in CallRec /\ again.task = c.task /\ again.held = {} /\ again.i \in DOMAIN files
      BY <1>1, <1>3 DEF CallRec
    <2>2. pc' = [pc EXCEPT ![p] = "announce"] /\ call' = [call EXCEPT ![p] = again]
      BY <1>6 DEF ReleaseOldHold, Goto
    <2> HIDE DEF again
    <2>3. Progress("announce", again)
      BY <2>1 DEF Progress
    <2>4. /\ Owed(pc[p], c, closure[p]) \subseteq Owed("announce", again, closure[p])
          /\ Pledged(pc[p], c, closure[p]) \subseteq Pledged("announce", again, closure[p])
      BY <1>2, <2>1 DEF Owed, Pledged, Whole
    <2> QED
      BY <1>2, <1>4, <2>1, <2>2, <2>3, <2>4, HoldReleasedKept, EnvUnchanged
  <1> QED
    BY <1>5, <1>6

(* One file of a rollback or of a release.                                 *)
LEMMA GiveBackKept ==
    ASSUME Inv, NEW p \in Proc, pc[p] \in {"rollback", "drop"}, GiveBack(p),
           UNCHANGED <<kv, closure, activeEpochs, stuck, envVars>>
    PROVE  Inv'
  <1>1. TypeOK
    BY DEF Inv
  <1>2. PICK f, c : /\ c \in CallRec
                    /\ ReleaseHold(f, AgentOf[p])
                    /\ pc' = pc /\ call' = [call EXCEPT ![p] = c]
                    /\ c.task = call[p].task /\ c.held = call[p].held \ {f}
    BY <1>1, GiveBackEffect
  <1>3. pc' = [pc EXCEPT ![p] = pc[p]] /\ pc[p] \in Label /\ p \in alive
    BY <1>1, <1>2, BusyAlive DEF TypeOK
  <1>4. Progress(pc[p], c) /\ pc[p] \notin Gated
    BY DEF Progress, Gated
  <1>5. Owed(pc[p], call[p], closure[p]) \subseteq Owed(pc[p], c, closure[p])
    BY <1>2 DEF Owed, Whole
  <1>6. \A g \in File : g \in Pledged(pc[p], call[p], closure[p]) =>
           g \in Pledged(pc[p], c, closure[p]) \/ g = f
    BY <1>2 DEF Pledged, Whole
  <1> QED
    BY <1>2, <1>3, <1>4, <1>5, <1>6, HoldReleasedKept, EnvUnchanged

(* A rollback without files left goes on to the undo.                      *)
LEMMA RollbackKept ==
    ASSUME Inv, NEW p \in Proc, Rollback(p) PROVE Inv'
  <1>1. CASE call[p].held # {}
    BY <1>1, GiveBackKept DEF Rollback, procVars
  <1>2. CASE call[p].held = {}
    <2>1. /\ pc' = [pc EXCEPT ![p] = "undo"] /\ call' = call
          /\ pc[p] = "rollback"
          /\ UNCHANGED <<kv, hold, closure, activeEpochs, exposed, stray, stuck, envVars>>
      BY <1>2 DEF Rollback, Goto, procVars
    <2>2. call[p] \in CallRec /\ call' = [call EXCEPT ![p] = call[p]]
      BY <2>1 DEF Inv, TypeOK
    <2>3. Progress("undo", call[p]) /\ "undo" \in Label
      BY DEF Progress, Label
    <2>4. /\ Owed(pc[p], call[p], closure[p]) \subseteq Owed("undo", call[p], closure[p])
          /\ Pledged(pc[p], call[p], closure[p]) \subseteq Pledged("undo", call[p], closure[p])
      BY <1>2, <2>1 DEF Owed, Pledged, Whole
    <2> QED
      BY <2>1, <2>2, <2>3, <2>4, BusyAlive, QuietKept, EnvUnchanged DEF Gated
  <1> QED
    BY <1>1, <1>2

(* One file of claimAll: the hold is free or the agent's own, so no other  *)
(* agent past its hold-gate loses it, and p gives it back: as a file       *)
(* announced, or through the closure.                                      *)
LEMMA AnnounceKept ==
    ASSUME Inv, NEW p \in Proc, Announce(p) PROVE Inv'
  <1> DEFINE c == call[p]
             files == FilesOf[c.task]
             f == files[c.i]
             up == [c EXCEPT !.i = @ + 1, !.held = @ \cup {f}]
             k == closure[p]
  <1>1. /\ c \in CallRec /\ c.task \in Task /\ c.i \in DOMAIN files
        /\ c.held \subseteq FileSet(c.task)
    BY DEF Inv, TypeOK, IInv, InProgress, Progress, Announce, CallRec
  <1>2. /\ DOMAIN files = 1 .. Len(files) /\ Len(files) \in Nat \ {0}
        /\ f \in FileSet(c.task) /\ FileSet(c.task) \subseteq File
    BY <1>1, FilesType
  <1>3. /\ pc[p] = "announce" /\ hold[f] \in {NoAgent, AgentOf[p]}
        /\ hold' = [hold EXCEPT ![f] = AgentOf[p]] /\ stray' = stray \ {f}
        /\ UNCHANGED <<kv, activeEpochs, exposed, stuck, envVars>>
    BY DEF Announce, MayHold
  <1>4. p \in alive /\ AgentOf[p] \in Agent /\ k \in SUBSET Task
    BY <1>3, BusyAlive, ProcAssumption DEF Inv, TypeOK
  <1>5. /\ kv' \in [Task -> TaskRec] /\ hold' \in [File -> AgentOrNone]
        /\ activeEpochs' \in [Proc -> [Task -> Nat]]
        /\ exposed' \subseteq Proc /\ stray' \subseteq File /\ stuck' \subseteq Task
    BY <1>3, <1>4 DEF Inv, TypeOK
  <1>6. \A g \in File : hold'[g] = IF g = f THEN AgentOf[p] ELSE hold[g]
    BY <1>3 DEF Inv, TypeOK
  <1>7. \A q \in Proc \ {p} : q \notin exposed' /\ pc[q] \in Gated =>
           /\ q \notin exposed
           /\ \A g \in call[q].held : hold[g] = AgentOf[q] => hold'[g] = AgentOf[q]
    <2> SUFFICES ASSUME NEW q \in Proc, NEW g \in call[q].held, hold[g] = AgentOf[q]
                 PROVE  hold'[g] = AgentOf[q]
      BY <1>3
    <2>1. g \in File /\ AgentOf[q] \in Agent
      BY ProcAssumption DEF Inv, TypeOK, CallRec
    <2> QED
      BY <1>3, <1>6, <2>1, NoAgentAssumption
  <1>8. CASE c.i < Len(files)
    <2>1. /\ up \in CallRec /\ up.task = c.task /\ up.held = c.held \cup {f}
          /\ up.i \in DOMAIN files
      <3>1. c.i + 1 \in DOMAIN files /\ c.i + 1 \in Nat /\ c.held \cup {f} \in SUBSET File
        BY <1>1, <1>2, <1>8
      <3> HIDE DEF f
      <3> QED
        BY <1>1, <3>1 DEF CallRec
    <2>2. /\ pc' = [pc EXCEPT ![p] = "announce"] /\ call' = [call EXCEPT ![p] = up]
          /\ closure' = [closure EXCEPT ![p] = k]
      <3>1. pc' = pc /\ closure' = closure
        BY <1>8 DEF Announce
      <3>2. pc' = [pc EXCEPT ![p] = "announce"] /\ closure' = [closure EXCEPT ![p] = k]
        BY <1>3, <3>1 DEF Inv, TypeOK
      <3>3. call' = [call EXCEPT ![p] = up]
        BY <1>8 DEF Announce
      <3> QED
        BY <3>2, <3>3
    <2> HIDE DEF up
    <2>3. Progress("announce", up) /\ "announce" \in Label \ Gated
      BY <1>1, <1>2, <2>1 DEF Progress, Label, Gated
    <2>4. Owed(pc[p], c, k) \subseteq Owed("announce", up, k)
      BY <1>3, <2>1 DEF Owed, Whole
    <2>5. \A g \in File :
             g \in Pledged(pc[p], c, k) \/ g = f => g \in Pledged("announce", up, k)
      BY <1>3, <2>1 DEF Pledged, Whole
    <2> HIDE DEF f
    <2> QED
      BY <1>3, <1>4, <1>5, <1>6, <1>7, <2>1, <2>2, <2>3, <2>4, <2>5, StepKept, EnvUnchanged
  <1>9. CASE ~(c.i < Len(files))
    <2> DEFINE k2 == k \cup {c.task}
    <2>1. /\ pc' = [pc EXCEPT ![p] = "idle"] /\ call' = [call EXCEPT ![p] = NoCall]
          /\ closure' = [closure EXCEPT ![p] = k2] /\ k2 \in SUBSET Task
      BY <1>1, <1>4, <1>9 DEF Announce, Return, Goto
    <2>2. Progress("idle", NoCall) /\ "idle" \in Label \ Gated
      BY DEF Progress, Label, Gated
    <2>3. Owed(pc[p], c, k) \subseteq Owed("idle", NoCall, k2)
      BY <1>3 DEF Owed, Whole
    <2>4. \A g \in File :
             g \in Pledged(pc[p], c, k) \/ g = f => g \in Pledged("idle", NoCall, k2)
      BY <1>1, <1>2, <1>3 DEF Pledged, Whole
    <2> HIDE DEF f, k2
    <2> QED
      BY <1>3, <1>4, <1>5, <1>6, <1>7, <2>1, <2>2, <2>3, <2>4, NoCallType, StepKept, EnvUnchanged
  <1> QED
    BY <1>8, <1>9

(* The un-claim CAS of a rollback: after it the record is not claimed by   *)
(* p's agent, or not because of p.                                         *)
LEMMA UndoKept ==
    ASSUME Inv, NEW p \in Proc, undoTaskCAS(p) PROVE Inv'
  <1> DEFINE t == call[p].task
             k == closure[p]
  <1>1. /\ pc[p] = "undo" /\ Unclaim(p, t)
        /\ pc' = [pc EXCEPT ![p] = "idle"] /\ call' = [call EXCEPT ![p] = NoCall]
        /\ UNCHANGED <<hold, closure, exposed, stray, envVars>>
    BY DEF undoTaskCAS, Return, Goto
  <1>2. TypeOK /\ t \in Task
    BY DEF Inv, TypeOK, CallRec
  <1>3. /\ kv' \in [Task -> TaskRec]
        /\ \A u \in Task \ {t} : kv'[u] = kv[u]
        /\ kv'[t].status = "claimed" => kv'[t] = kv[t] /\ kv[t].claimedBy # AgentOf[p]
                                         /\ (t \in stuck => t \in stuck')
        /\ stuck' \subseteq Task /\ stuck \subseteq stuck' \cup {t}
    BY <1>1, <1>2, UnclaimEffect
  <1>4. /\ hold' \in [File -> AgentOrNone] /\ activeEpochs' \in [Proc -> [Task -> Nat]]
        /\ exposed' \subseteq Proc /\ stray' \subseteq File
        /\ k \in SUBSET Task /\ closure' = [closure EXCEPT ![p] = k]
    BY <1>1, <1>2 DEF TypeOK, undoTaskCAS
  <1>5. Progress("idle", NoCall) /\ "idle" \in Label \ Gated
    BY DEF Progress, Label, Gated
  <1>6. \A u \in Task : u \in Owed(pc[p], call[p], k) => u = t \/ u \in Owed("idle", NoCall, k)
    BY <1>1 DEF Owed, Whole
  <1>7. Pledged(pc[p], call[p], k) \subseteq Pledged("idle", NoCall, k)
    BY <1>1 DEF Pledged, Whole
  <1>8. \A u \in Task : kv'[u].status = "claimed" =>
           /\ kv'[u] = kv[u] /\ (u \in stuck => u \in stuck')
           /\ kv[u].claimedBy = AgentOf[p] /\ u \in Owed(pc[p], call[p], k)
                 => u \in Owed("idle", NoCall, k)
    BY <1>3, <1>6
  <1> QED
    BY <1>1, <1>3, <1>4, <1>5, <1>7, <1>8, NoCallType, BusyAlive, StepKept, EnvUnchanged

(* The un-claim CAS of a release: from here on p accounts for the files    *)
(* only.                                                                   *)
LEMMA ReleaseTaskCASKept ==
    ASSUME Inv, NEW p \in Proc, releaseTaskCAS(p) PROVE Inv'
  <1> DEFINE t == call[p].task
             k == closure[p]
  <1>1. /\ pc[p] = "unclaim" /\ Unclaim(p, t)
        /\ pc' = [pc EXCEPT ![p] = "drop"] /\ call' = call
        /\ UNCHANGED <<hold, closure, activeEpochs, exposed, stray, envVars>>
    BY DEF releaseTaskCAS, Goto, procVars
  <1>2. TypeOK /\ t \in Task /\ call[p] \in CallRec /\ call[p].held = FileSet(t)
    BY <1>1 DEF Inv, TypeOK, CallRec, IInv, InProgress, Progress
  <1>3. /\ kv' \in [Task -> TaskRec]
        /\ \A u \in Task \ {t} : kv'[u] = kv[u]
        /\ kv'[t].status = "claimed" => kv'[t] = kv[t] /\ kv[t].claimedBy # AgentOf[p]
                                         /\ (t \in stuck => t \in stuck')
        /\ stuck' \subseteq Task /\ stuck \subseteq stuck' \cup {t}
    BY <1>1, <1>2, UnclaimEffect
  <1>4. /\ hold' \in [File -> AgentOrNone] /\ activeEpochs' \in [Proc -> [Task -> Nat]]
        /\ exposed' \subseteq Proc /\ stray' \subseteq File
        /\ k \in SUBSET Task /\ closure' = [closure EXCEPT ![p] = k]
        /\ call' = [call EXCEPT ![p] = call[p]]
    BY <1>1, <1>2 DEF TypeOK
  <1>5. Progress("drop", call[p]) /\ "drop" \in Label \ Gated
    BY DEF Progress, Label, Gated
  <1>6. \A u \in Task : u \in Owed(pc[p], call[p], k) => u = t \/ u \in Owed("drop", call[p], k)
    BY <1>1 DEF Owed, Whole
  <1>7. Pledged(pc[p], call[p], k) \subseteq Pledged("drop", call[p], k)
    BY <1>1, <1>2 DEF Pledged, Whole
  <1>8. \A u \in Task : kv'[u].status = "claimed" =>
           /\ kv'[u] = kv[u] /\ (u \in stuck => u \in stuck')
           /\ kv[u].claimedBy = AgentOf[p] /\ u \in Owed(pc[p], call[p], k)
                 => u \in Owed("drop", call[p], k)
    BY <1>3, <1>6
  <1> QED
    BY <1>1, <1>2, <1>3, <1>4, <1>5, <1>7, <1>8, BusyAlive, StepKept, EnvUnchanged

(* The last part of a release, one file or the end of it.                  *)
LEMMA ReleaseHoldsKept ==
    ASSUME Inv, NEW p \in Proc, releaseHolds(p) PROVE Inv'
  <1> DEFINE c == call[p]
             k == closure[p] \ {c.task}
  <1>1. CASE c.held # {}
    BY <1>1, GiveBackKept DEF releaseHolds, procVars
  <1>2. CASE c.held = {}
    <2>1. /\ pc[p] = "drop"
          /\ pc' = [pc EXCEPT ![p] = "idle"] /\ call' = [call EXCEPT ![p] = NoCall]
          /\ closure' = [closure EXCEPT ![p] = k]
          /\ UNCHANGED <<kv, hold, exposed, stray, stuck, envVars>>
      BY <1>2 DEF releaseHolds, Return, Goto
    <2>2. /\ kv' \in [Task -> TaskRec] /\ hold' \in [File -> AgentOrNone]
          /\ exposed' \subseteq Proc /\ stray' \subseteq File /\ stuck' \subseteq Task
          /\ k \in SUBSET Task
      BY <2>1 DEF Inv, TypeOK
    <2>3. activeEpochs' \in [Proc -> [Task -> Nat]]
      BY <1>2 DEF Inv, TypeOK, releaseHolds, CallRec
    <2>4. Progress("idle", NoCall) /\ "idle" \in Label \ Gated
      BY DEF Progress, Label, Gated
    <2>5. /\ Owed(pc[p], c, closure[p]) \subseteq Owed("idle", NoCall, k)
          /\ Pledged(pc[p], c, closure[p]) \subseteq Pledged("idle", NoCall, k)
      BY <1>2, <2>1 DEF Owed, Pledged, Whole
    <2> HIDE DEF k
    <2> QED
      BY <2>1, <2>2, <2>3, <2>4, <2>5, NoCallType, BusyAlive, StepKept, EnvUnchanged
  <1> QED
    BY <1>1, <1>2

-----------------------------------------------------------------------------
(* The steps that fail.                                                    *)

(* An announce that fails leaves what p has announced to the rollback, and *)
(* the file it may have taken on record as stray.                          *)
LEMMA AnnounceFailsKept ==
    ASSUME Inv, NEW p \in Proc, AnnounceFails(p), EnvKept PROVE Inv'
  <1> DEFINE c == call[p]
             f == FilesOf[c.task][c.i]
             k == closure[p]
  <1>1. /\ c \in CallRec /\ c.task \in Task /\ c.i \in DOMAIN FilesOf[c.task]
    BY DEF Inv, TypeOK, IInv, InProgress, Progress, AnnounceFails, CallRec
  <1>2. f \in File
    BY <1>1, FilesType
  <1>3. /\ pc[p] = "announce"
        /\ pc' = [pc EXCEPT ![p] = "rollback"] /\ call' = [call EXCEPT ![p] = c]
        /\ closure' = [closure EXCEPT ![p] = k]
        /\ UNCHANGED <<kv, closure, activeEpochs, exposed, stuck>>
    BY DEF AnnounceFails, Goto, procVars, Inv, TypeOK
  <1>4. p \in alive /\ AgentOf[p] \in Agent /\ k \in SUBSET Task
    BY <1>3, BusyAlive, ProcAssumption DEF Inv, TypeOK
  <1>5. Progress("rollback", c) /\ "rollback" \in Label \ Gated
    BY DEF Progress, Label, Gated
  <1>6. /\ Owed(pc[p], c, k) \subseteq Owed("rollback", c, k)
        /\ Pledged(pc[p], c, k) \subseteq Pledged("rollback", c, k)
    BY <1>3 DEF Owed, Pledged, Whole
  <1>7. CASE UNCHANGED <<hold, stray>>
    BY <1>1, <1>3, <1>4, <1>5, <1>6, <1>7, QuietKept
  <1>8. CASE /\ hold[f] \in {NoAgent, AgentOf[p]}
             /\ hold' = [hold EXCEPT ![f] = AgentOf[p]]
             /\ stray' = stray \cup {f}
    <2>1. /\ kv' \in [Task -> TaskRec] /\ hold' \in [File -> AgentOrNone]
          /\ activeEpochs' \in [Proc -> [Task -> Nat]]
          /\ exposed' \subseteq Proc /\ stray' \subseteq File /\ stuck' \subseteq Task
      BY <1>2, <1>3, <1>4, <1>8 DEF Inv, TypeOK
    <2>2. \A g \in File : hold'[g] = IF g = f THEN AgentOf[p] ELSE hold[g]
      BY <1>8 DEF Inv, TypeOK
    <2>3. \A q \in Proc \ {p} : q \notin exposed' /\ pc[q] \in Gated =>
             /\ q \notin exposed
             /\ \A g \in call[q].held : hold[g] = AgentOf[q] => hold'[g] = AgentOf[q]
      <3> SUFFICES ASSUME NEW q \in Proc, NEW g \in call[q].held, hold[g] = AgentOf[q]
                   PROVE  hold'[g] = AgentOf[q]
        BY <1>3
      <3>1. g \in File /\ AgentOf[q] \in Agent
        BY ProcAssumption DEF Inv, TypeOK, CallRec
      <3> QED
        BY <1>8, <2>2, <3>1, NoAgentAssumption
    <2> HIDE DEF f
    <2> QED
      BY <1>1, <1>3, <1>4, <1>5, <1>6, <1>8, <2>1, <2>2, <2>3, StepKept
  <1> QED
    BY <1>7, <1>8 DEF AnnounceFails, MayHold

(* A previous claimer's hold that stays is as accounted for as it was.     *)
LEMMA ReleaseOldFailsKept ==
    ASSUME Inv, NEW p \in Proc, ReleaseOldFails(p), EnvKept PROVE Inv'
  <1> DEFINE c == call[p]
             files == FilesOf[c.task]
             l == IF c.i < Len(files) THEN "dropold" ELSE "announce"
             d == [c EXCEPT !.i = IF c.i < Len(files) THEN c.i + 1 ELSE 1]
  <1>1. c \in CallRec /\ c.task \in Task /\ c.i \in DOMAIN files /\ c.held = {}
    BY DEF Inv, TypeOK, IInv, InProgress, Progress, ReleaseOldFails, CallRec
  <1>2. DOMAIN files = 1 .. Len(files) /\ Len(files) \in Nat \ {0}
    BY <1>1, FilesType
  <1>3. d \in CallRec /\ d.task = c.task /\ d.held = {} /\ d.i \in DOMAIN files
    BY <1>1, <1>2 DEF CallRec
  <1>4. /\ pc[p] = "dropold"
        /\ UNCHANGED <<kv, hold, closure, activeEpochs, exposed, stray, stuck>>
    BY DEF ReleaseOldFails, storeVars, procVars, histVars
  <1>5. pc' = [pc EXCEPT ![p] = l]
    BY <1>4 DEF ReleaseOldFails, Goto, Inv, TypeOK
  <1>6. call' = [call EXCEPT ![p] = d]
    BY DEF ReleaseOldFails
  <1>7. l \in Label \ Gated /\ l \in {"dropold", "announce"}
    BY DEF Label, Gated
  <1> HIDE DEF l, d
  <1>8. Progress(l, d)
    BY <1>3, <1>7 DEF Progress
  <1>9. /\ Owed(pc[p], c, closure[p]) \subseteq Owed(l, d, closure[p])
        /\ Pledged(pc[p], c, closure[p]) \subseteq Pledged(l, d, closure[p])
    BY <1>3, <1>4, <1>7 DEF Owed, Pledged, Whole
  <1> QED
    BY <1>3, <1>4, <1>5, <1>6, <1>7, <1>8, <1>9, BusyAlive, QuietKept

(* A hold that p fails to give back is stray.                              *)
LEMMA ReleaseFailsKept ==
    ASSUME Inv, NEW p \in Proc, ReleaseFails(p), EnvKept PROVE Inv'
  <1> DEFINE f == NextHeld(call[p])
             c == [call[p] EXCEPT !.held = @ \ {f}]
             k == closure[p]
             l == pc[p]
  <1>1. call[p] \in CallRec /\ k \in SUBSET Task /\ l \in Label
    BY DEF Inv, TypeOK
  <1>2. /\ l \in {"rollback", "drop"}
        /\ call' = [call EXCEPT ![p] = c]
        /\ stray' = IF hold[f] = AgentOf[p] THEN stray \cup {f} ELSE stray
        /\ pc' = [pc EXCEPT ![p] = l] /\ closure' = [closure EXCEPT ![p] = k]
        /\ UNCHANGED <<kv, hold, activeEpochs, exposed, stuck>>
    BY DEF ReleaseFails, storeVars, procVars, Inv, TypeOK
  <1>3. f \in File
    BY <1>1 DEF ReleaseFails, CallRec
  <1>4. c \in CallRec /\ c.task = call[p].task /\ c.held = call[p].held \ {f}
    <2> HIDE DEF f
    <2> QED
      BY <1>1 DEF CallRec
  <1> HIDE DEF c
  <1>5. Progress(l, c) /\ l \notin Gated
    BY <1>2 DEF Progress, Gated
  <1>6. Owed(l, call[p], k) \subseteq Owed(l, c, k)
    BY <1>4 DEF Owed, Whole
  <1>7. \A g \in File : g \in Pledged(l, call[p], k) => g \in Pledged(l, c, k) \/ g = f
    <2> HIDE DEF f
    <2> QED
      BY <1>4 DEF Pledged, Whole
  <1>8. /\ kv' \in [Task -> TaskRec] /\ hold' \in [File -> AgentOrNone]
        /\ activeEpochs' \in [Proc -> [Task -> Nat]]
        /\ exposed' \subseteq Proc /\ stray' \subseteq File /\ stuck' \subseteq Task
    BY <1>2, <1>3 DEF Inv, TypeOK
  <1>9. p \in alive
    BY <1>2, BusyAlive
  <1>10. \A g \in File :
           /\ hold'[g] = hold[g] /\ (g \in stray => g \in stray')
           /\ hold[g] = AgentOf[p] /\ g \in Pledged(l, call[p], k)
                 => g \in Pledged(l, c, k) \/ g \in stray'
    <2> HIDE DEF f, l, k
    <2> QED
      BY <1>2, <1>7
  <1> HIDE DEF f, k, l
  <1>11. \A t \in Task : kv'[t] = kv[t] /\ (t \in Owed(l, call[p], k) => t \in Owed(l, c, k))
    BY <1>2, <1>6
  <1> QED
    BY <1>1, <1>2, <1>4, <1>5, <1>8, <1>9, <1>10, <1>11, StepKept DEF l, k

(* A claim that p fails to undo is stuck.                                  *)
LEMMA UnclaimFailsKept ==
    ASSUME Inv, NEW p \in Proc, UnclaimFails(p), EnvKept PROVE Inv'
  <1> DEFINE t == call[p].task
             k == closure[p]
             l == IF pc[p] = "undo" THEN "idle" ELSE "drop"
             c == IF pc[p] = "undo" THEN NoCall ELSE call[p]
  <1>1. /\ pc[p] \in {"undo", "unclaim"}
        /\ UNCHANGED <<kv, hold, closure, exposed, stray>>
        /\ stuck' = IF unclaimMutatorOK(Args(p, t, "unclaim", NoAgent), kv[t])
                    THEN stuck \cup {t} ELSE stuck
    BY DEF UnclaimFails, storeVars
  <1>2. TypeOK /\ t \in Task /\ call[p] \in CallRec
    BY DEF Inv, TypeOK, CallRec
  <1>3. pc' = [pc EXCEPT ![p] = l] /\ call' = [call EXCEPT ![p] = c]
    BY <1>1, <1>2 DEF UnclaimFails, Return, Goto, TypeOK
  <1>4. /\ activeEpochs' \in [Proc -> [Task -> Nat]] /\ stuck' \subseteq Task
        /\ kv' \in [Task -> TaskRec] /\ hold' \in [File -> AgentOrNone]
        /\ exposed' \subseteq Proc /\ stray' \subseteq File
        /\ k \in SUBSET Task /\ closure' = [closure EXCEPT ![p] = k]
    BY <1>1, <1>2 DEF UnclaimFails, TypeOK
  <1>5. l \in Label \ Gated /\ c \in CallRec /\ Progress(l, c)
    BY <1>2, NoCallType DEF Label, Gated, Progress
  <1>6. \A u \in Task : u \in Owed(pc[p], call[p], k) => u = t \/ u \in Owed(l, c, k)
    BY <1>1 DEF Owed, Whole
  <1>7. Pledged(pc[p], call[p], k) \subseteq Pledged(l, c, k)
    <2>1. pc[p] = "unclaim" => call[p].held = FileSet(t)
      BY DEF Inv, IInv, InProgress, Progress
    <2> QED
      BY <1>1, <2>1 DEF Pledged, Whole
  <1>8. kv[t].status = "claimed" /\ kv[t].claimedBy = AgentOf[p] => t \in stuck'
    BY <1>1 DEF unclaimMutatorOK, Args
  <1>9. \A u \in Task : kv'[u].status = "claimed" =>
           /\ kv'[u] = kv[u] /\ (u \in stuck => u \in stuck')
           /\ kv[u].claimedBy = AgentOf[p] /\ u \in Owed(pc[p], call[p], k)
                 => u \in Owed(l, c, k) \/ u \in stuck'
    <2> HIDE DEF t, l, c, k
    <2> QED
      BY <1>1, <1>6, <1>8
  <1> HIDE DEF l, c
  <1> QED
    BY <1>1, <1>3, <1>4, <1>5, <1>7, <1>9, BusyAlive, StepKept

-----------------------------------------------------------------------------
(* The environment.                                                        *)

(* A process that stops leaves what it owed to its agent, which has lost a *)
(* process from then on.                                                   *)
LEMMA ExitKept ==
    ASSUME Inv, NEW p \in Proc, NEW clean \in BOOLEAN, Exit(p, clean) PROVE Inv'
  <1>1. /\ p \in alive /\ alive' = alive \ {p}
        /\ pc' = [pc EXCEPT ![p] = "idle"] /\ call' = [call EXCEPT ![p] = NoCall]
        /\ closure' = [closure EXCEPT ![p] = {}]
        /\ activeEpochs' = [activeEpochs EXCEPT ![p] = [t \in Task |-> 0]]
        /\ present' \subseteq present
        /\ UNCHANGED <<kv, hold, exposed, stray, stuck, mishaps>>
    BY DEF Exit, Return, Goto, storeVars, histVars
  <1>2. TypeOK'
    BY <1>1, NoCallType DEF Inv, TypeOK, Label
  <1>3. /\ pc'[p] = "idle" /\ call'[p] = NoCall /\ closure'[p] = {}
        /\ \A q \in Proc \ {p} : pc'[q] = pc[q] /\ call'[q] = call[q] /\ closure'[q] = closure[q]
    BY <1>1 DEF Inv, TypeOK
  <1>4. Bereft \subseteq Bereft' /\ AgentOf[p] \in Bereft'
    BY <1>1 DEF Inv, TypeOK, Bereft
  <1>5. StoppedIdle'
    BY <1>1, <1>3 DEF Inv, IInv, StoppedIdle
  <1>6. InProgress'
    BY <1>3 DEF Inv, IInv, InProgress, Progress
  <1>7. ClaimsOwed'
    <2> SUFFICES ASSUME NEW t \in Task, kv[t].status = "claimed", kv[t].claimedBy \notin Bereft',
                        t \notin stuck
                 PROVE  \E q \in alive' : /\ AgentOf[q] = kv[t].claimedBy
                                         /\ t \in Owed(pc'[q], call'[q], closure'[q])
      BY <1>1 DEF ClaimsOwed
    <2>1. PICK q \in alive : /\ AgentOf[q] = kv[t].claimedBy
                            /\ t \in Owed(pc[q], call[q], closure[q])
      BY <1>4 DEF Inv, IInv, ClaimsOwed
    <2>2. q \in Proc /\ q # p
      BY <1>4, <2>1 DEF Inv, TypeOK
    <2> QED
      BY <1>1, <1>3, <2>1, <2>2
  <1>8. HoldsPledged'
    <2> SUFFICES ASSUME NEW f \in File, hold[f] \notin Bereft' \cup {NoAgent}, f \notin stray
                 PROVE  \E q \in alive' : /\ AgentOf[q] = hold[f]
                                         /\ f \in Pledged(pc'[q], call'[q], closure'[q])
      BY <1>1 DEF HoldsPledged
    <2>1. PICK q \in alive : /\ AgentOf[q] = hold[f]
                            /\ f \in Pledged(pc[q], call[q], closure[q])
      BY <1>4 DEF Inv, IInv, HoldsPledged
    <2>2. q \in Proc /\ q # p
      BY <1>4, <2>1 DEF Inv, TypeOK
    <2> QED
      BY <1>1, <1>3, <2>1, <2>2
  <1>9. Covered'
    <2> SUFFICES ASSUME NEW q \in Proc \ exposed, pc'[q] \in Gated, NEW f \in call'[q].held
                 PROVE  hold[f] = AgentOf[q]
      BY <1>1 DEF Covered
    <2>1. q # p
      BY <1>3 DEF Gated
    <2> QED
      BY <1>3, <2>1 DEF Inv, IInv, Covered
  <1> QED
    BY <1>2, <1>5, <1>6, <1>7, <1>8, <1>9 DEF Inv, IInv

(* A hold that runs out exposes the commits it covered.                    *)
LEMMA HoldLapsesKept ==
    ASSUME Inv, NEW f \in File, HoldLapses(f) PROVE Inv'
  <1>1. TypeOK /\ ReleaseHold(f, hold[f])
    BY DEF Inv, HoldLapses, ReleaseHold
  <1>2. /\ hold' \in [File -> AgentOrNone]
        /\ \A g \in File : hold'[g] \in {hold[g], NoAgent}
        /\ exposed \subseteq exposed' /\ exposed' \subseteq Proc
        /\ stray' \subseteq stray
        /\ \A g \in File : hold'[g] = NoAgent \/ (g \in stray => g \in stray')
        /\ \A g \in File, q \in Proc :
              hold'[g] # hold[g] /\ AgentOf[q] = hold[g] /\ g \in call[q].held
                 /\ pc[q] \in Gated => q \in exposed'
    BY <1>1, ReleaseHoldEffect
  <1>3. UNCHANGED <<kv, pc, call, closure, activeEpochs, stuck, present, alive>> /\ mishaps' = mishaps + 1
    BY DEF HoldLapses, procVars
  <1>4. TypeOK'
    BY <1>1, <1>2, <1>3 DEF TypeOK
  <1>5. StoppedIdle' /\ InProgress' /\ ClaimsOwed' /\ Bereft' = Bereft
    BY <1>3 DEF Inv, IInv, StoppedIdle, InProgress, ClaimsOwed, Bereft
  <1>6. HoldsPledged'
    BY <1>2, <1>3, <1>5 DEF Inv, IInv, HoldsPledged
  <1>7. Covered'
    <2> SUFFICES ASSUME NEW q \in Proc \ exposed', pc[q] \in Gated, NEW g \in call[q].held
                 PROVE  hold'[g] = AgentOf[q]
      BY <1>3 DEF Covered
    <2>1. g \in File /\ hold[g] = AgentOf[q]
      BY <1>1, <1>2 DEF Inv, IInv, Covered, TypeOK, CallRec
    <2> QED
      BY <1>2, <2>1 DEF Gated
  <1> QED
    BY <1>4, <1>5, <1>6, <1>7 DEF Inv, IInv

(* Presence is nothing the invariant speaks of.                            *)
LEMMA PresenceKept ==
    ASSUME Inv, present' \subseteq Agent, mishaps' \in Nat,
           UNCHANGED <<storeVars, pc, call, procVars, histVars, alive>>
    PROVE  Inv'
  <1>1. UNCHANGED <<kv, hold, pc, call, closure, activeEpochs, exposed, stray, stuck, alive>>
    BY DEF storeVars, procVars, histVars
  <1>2. TypeOK'
    BY <1>1 DEF Inv, TypeOK
  <1>3. IInv'
    BY <1>1 DEF Inv, IInv, StoppedIdle, InProgress, ClaimsOwed, HoldsPledged, Covered, Bereft
  <1> QED
    BY <1>2, <1>3 DEF Inv

-----------------------------------------------------------------------------
(* The invariant of every behaviour.                                       *)

(* Nothing is claimed or held at first.                                    *)
LEMMA InitInv == Init => Inv
  <1> SUFFICES ASSUME Init PROVE Inv
    OBVIOUS
  <1>1. \A t \in Task : FreshRecord(0) \in TaskRec /\ FreshRecord(0).status = "open"
    BY DEF FreshRecord, TaskRec, Status
  <1>2. TypeOK
    BY <1>1, NoCallType, ProcAssumption DEF Init, TypeOK, Label
  <1>3. StoppedIdle /\ InProgress /\ Covered
    BY DEF Init, StoppedIdle, InProgress, Progress, Covered, Gated
  <1>4. ClaimsOwed
    BY <1>1 DEF Init, ClaimsOwed
  <1>5. HoldsPledged
    BY DEF Init, HoldsPledged
  <1> QED
    BY <1>2, <1>3, <1>4, <1>5 DEF Inv, IInv

(* A call begins.                                                          *)
LEMMA CallKept == ASSUME Inv, NEW p \in Proc, Call(p) PROVE Inv'
  <1>1. ASSUME NEW t \in Task, Claim(p, t) PROVE Inv'
    BY <1>1, TaskCASKept DEF Claim, MayStart, Starts
  <1>2. ASSUME NEW t \in Task, NEW a \in Agent, HandoffClaim(p, t, a) PROVE Inv'
    BY <1>2, TaskCASKept DEF HandoffClaim, MayStart, Starts
  <1> QED
    BY <1>1, <1>2, PrepareReclaimKept, ReleaseKept, CloseKept, CheckHoldsKept DEF Call

(* A call goes on.                                                         *)
LEMMA StepInv == ASSUME Inv, NEW p \in Proc, Step(p) PROVE Inv'
  <1>1. CASE ReclaimCAS(p)
    <2>1. p \in alive /\ call[p].task \in Task /\ call[p].prev \in AgentOrNone
      BY <1>1, BusyAlive DEF ReclaimCAS, Inv, TypeOK, CallRec
    <2> QED
      BY <1>1, <2>1, TaskCASKept DEF ReclaimCAS
  <1>2. CASE ReclaimRefused(p)
    BY <1>2, ReturnKept DEF ReclaimRefused
  <1>3. CASE CommitLands(p)
    BY <1>3, ReturnKept DEF CommitLands
  <1>4. CASE CommitRefused(p)
    BY <1>4, ReturnKept DEF CommitRefused
  <1> QED
    BY <1>1, <1>2, <1>3, <1>4, WhoHasKept, ReleaseOldHoldKept, AnnounceKept, AnnounceHeldKept, RollbackKept,
       UndoKept, ReleaseTaskCASKept, ReleaseHoldsKept, CheckEpochKept DEF Step

(* A step of a call fails.                                                 *)
LEMMA FaultInv == ASSUME Inv, NEW p \in Proc, Fault(p) PROVE Inv'
  <1>1. EnvKept
    BY DEF Fault, Inv, TypeOK, EnvKept
  <1> QED
    BY <1>1, AnnounceFailsKept, ReleaseOldFailsKept, ReleaseFailsKept, UnclaimFailsKept DEF Fault

(* Every step keeps the invariant.                                         *)
LEMMA NextInv == Inv /\ [Next]_vars => Inv'
  <1> SUFFICES ASSUME Inv, [Next]_vars PROVE Inv'
    OBVIOUS
  <1>1. CASE UNCHANGED vars
    <2>1. present' \subseteq Agent /\ mishaps' \in Nat
      BY <1>1 DEF Inv, TypeOK, vars, envVars
    <2> QED
      BY <1>1, <2>1, PresenceKept DEF vars, envVars
  <1>2. ASSUME NEW p \in Proc, Heartbeat(p) PROVE Inv'
    <2>1. present' \subseteq Agent /\ mishaps' \in Nat
      BY <1>2, ProcAssumption DEF Heartbeat, Inv, TypeOK
    <2> QED
      BY <1>2, <2>1, PresenceKept DEF Heartbeat
  <1>3. ASSUME NEW a \in Agent, PresenceLapses(a) PROVE Inv'
    <2>1. present' \subseteq Agent /\ mishaps' \in Nat
      BY <1>3 DEF PresenceLapses, Inv, TypeOK
    <2> QED
      BY <1>3, <2>1, PresenceKept DEF PresenceLapses
  <1> QED
    BY <1>1, <1>2, <1>3, CallKept, StepInv, FaultInv, ExitKept, HoldLapsesKept DEF Next

(* So it holds in every state.                                             *)
LEMMA Invariance == Spec => []Inv
  BY InitInv, NextInv, PTL DEF Spec

(* Every behaviour keeps the stores, the calls in flight and presence in   *)
(* their types.                                                            *)
THEOREM TypeCorrect == Spec => []TypeOK
  <1>1. Inv => TypeOK
    BY DEF Inv
  <1> QED
    BY <1>1, Invariance, PTL

(* No hold is leaked, whatever the number of processes, files and claims,  *)
(* and in whatever order their announces, rollbacks and releases mix and   *)
(* fail, but for those that a failed announce or release itself has left.  *)
THEOREM NoHoldLeaked == Spec => []HoldsAccounted
  <1>1. Inv => HoldsAccounted
    <2> SUFFICES ASSUME Inv, NEW f \in File, hold[f] \notin Bereft \cup {NoAgent},
                        f \notin stray
                 PROVE  \E p \in alive : AgentOf[p] = hold[f] /\ f \in Carries(p)
      BY DEF HoldsAccounted
    <2>1. PICK p \in alive : /\ AgentOf[p] = hold[f]
                            /\ f \in Pledged(pc[p], call[p], closure[p])
      BY DEF Inv, IInv, HoldsPledged
    <2>2. f \in Carries(p)
      BY <2>1 DEF Pledged, Whole, Carries
    <2> QED
      BY <2>1, <2>2
  <1> QED
    BY <1>1, Invariance, PTL

(* Invariant 6: no claim is stuck but one whose own un-claim has failed,   *)
(* although the un-claim of a release and of an undo compares the agent    *)
(* only and siblings share it.                                             *)
THEOREM NoClaimStuck == Spec => []ClaimsAccounted
  <1>1. Inv => ClaimsAccounted
    <2> SUFFICES ASSUME Inv, NEW t \in Task, kv[t].status = "claimed",
                        kv[t].claimedBy \notin Bereft, t \notin stuck
                 PROVE  \E p \in alive : AgentOf[p] = kv[t].claimedBy /\ t \in Claiming(p)
      BY DEF ClaimsAccounted
    <2>1. PICK p \in alive : /\ AgentOf[p] = kv[t].claimedBy
                            /\ t \in Owed(pc[p], call[p], closure[p])
      BY DEF Inv, IInv, ClaimsOwed
    <2>2. t \in Claiming(p)
      BY <2>1 DEF Owed, Whole, Claiming
    <2> QED
      BY <2>1, <2>2
  <1> QED
    BY <1>1, Invariance, PTL

(* Invariant 20: two agents whose hold-gates have found one file held are  *)
(* never both covered by a hold, although a gate looks at one file at a    *)
(* time and holds come and go in between.                                  *)
THEOREM CommitsAreExclusive == Spec => []CommitsExclusive
  <1>1. Inv => CommitsExclusive
    BY DEF Inv, IInv, Covered, Gated, CommitsExclusive
  <1> QED
    BY <1>1, Invariance, PTL
=============================================================================
