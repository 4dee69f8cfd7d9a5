--------------------------- MODULE Dispatch_proofs ---------------------------
(***************************************************************************)
(* Theorems about Dispatch, for any plans, any number of slots, commands   *)
(* and workers, and any bounds.  Inv is inductive.  It has three parts,    *)
(* which share the tasks only: the tasks themselves, the commands with     *)
(* their manifest, and the parent with its workers.  A step of one part    *)
(* is a step of the tasks (Evolves) to the others.                         *)
(***************************************************************************)
EXTENDS Dispatch, TLAPS

TaskRec == [status : {"open", "claimed", "closed"}, by : {None, "self", "worker"}, epoch : Nat]

VerbRec == [at : {"idle", "create", "close", "check"}, plan : Plan \cup {None},
            made : SUBSET Nat, left : SUBSET Nat]

AutoRec == [at : {"idle", "claim", "post"}, task : Nat]

Message == [from : Worker, kind : Result]

ParentRec == [at : {"idle", "spawn", "wait", "handle"}, task : Nat, handoff : BOOLEAN,
              child : Worker \cup {None}, got : Message \cup {None}]

WorkerRec == [at : {"idle", "start", "hold", "close", "post", "release"}, task : Nat,
              handoff : BOOLEAN, result : Result, epoch : Nat]

IsClosed(t) == task[t].status = "closed"

-----------------------------------------------------------------------------
(* The inductive invariant.                                                *)

TasksTyped ==
    /\ task \in Seq(TaskRec)
    /\ budget \in [ops : Nat, faults : Nat]

VerbsTyped ==
    /\ manifest \in [plan : Plan \cup {None}, tasks : SUBSET DOMAIN task]
    /\ verb \in [Verb -> VerbRec] /\ overtaken \subseteq Verb
    /\ \A v \in Verb : verb[v].made \cup verb[v].left \subseteq DOMAIN task

(* A command about to write its manifest has seen no manifest of another   *)
(* plan, and none appeared since.                                          *)
Guarded ==
    /\ manifest.plan = None => manifest = NoManifest
    /\ \A v \in Verb : verb[v].at = "create" =>
          /\ verb[v].plan \in Plan
          /\ v \notin overtaken => manifest.plan \in {None, verb[v].plan}

(* A cancel has closed what it no longer has to close.                     *)
Canceling ==
    \A v \in Verb : verb[v].at = "close" /\ v \notin overtaken =>
        \A t \in manifest.tasks \ verb[v].left : IsClosed(t)

VerbsInv == VerbsTyped /\ Guarded /\ Canceling

AutoInv == auto \in AutoRec /\ auto.task \in {0} \cup DOMAIN task
           /\ (auto.at # "idle" => auto.task \in DOMAIN task)

WorkersTyped ==
    /\ parent \in ParentRec /\ inbox \subseteq Message
    /\ worker \in [Worker -> WorkerRec] /\ stuck \subseteq DOMAIN task
    /\ parent.task \in {0} \cup DOMAIN task
    /\ \A w \in Worker : worker[w].task \in {0} \cup DOMAIN task
    /\ parent.at # "idle" => parent.task \in DOMAIN task
    /\ \A w \in Worker : worker[w].at # "idle" => worker[w].task \in DOMAIN task

(* The worker of a waiting parent does the parent's task, or has ended.    *)
ChildWorks ==
    /\ parent.at \in {"wait", "handle"} => parent.child \in Worker
    /\ parent.at = "wait" /\ worker[parent.child].at # "idle" =>
          /\ worker[parent.child].task = parent.task
          /\ worker[parent.child].handoff = parent.handoff

(* A worker with a claim posts a success after the close only.             *)
PostsTrue ==
    \A w \in Worker :
        worker[w].at = "post" /\ worker[w].handoff /\ worker[w].result = "success" =>
            IsClosed(worker[w].task)

(* So what the parent will find on the thread from its worker is true.     *)
InboxTrue ==
    parent.at = "wait" /\ parent.handoff =>
        \A m \in inbox : m.from = parent.child /\ m.kind = "success" => IsClosed(parent.task)

WorkersInv ==
    /\ WorkersTyped
    /\ ChildWorks /\ PostsTrue /\ InboxTrue
    /\ WorkerClaimReturned /\ ReportedClosed

(* What the proofs carry from state to state.                              *)
Inv == TasksTyped /\ VerbsInv /\ AutoInv /\ WorkersInv

-----------------------------------------------------------------------------
(* What a step may do to the tasks, seen from the rest.                    *)

Evolves ==
    /\ task' \in Seq(TaskRec) /\ DOMAIN task \subseteq DOMAIN task'
    /\ \A t \in DOMAIN task : IsClosed(t) => task'[t].status = "closed"

(* No step but the handoff gives the worker's agent a claim.               *)
NoHandoff ==
    \A t \in DOMAIN task' :
        task'[t].status = "claimed" /\ task'[t].by = "worker" =>
            t \in DOMAIN task /\ HeldBy(t, "worker")

(* A task that is there has a record, and its epoch can be raised.         *)
LEMMA TaskFacts ==
    ASSUME TasksTyped, NEW t \in DOMAIN task
    PROVE  /\ task[t] \in TaskRec /\ task[t].epoch \in Nat /\ task[t].epoch + 1 \in Nat
           /\ t \in Nat
  <1>1. task[t] \in TaskRec /\ t \in Nat
    BY DEF TasksTyped
  <1>2. task[t].epoch \in Nat
    BY <1>1 DEF TaskRec
  <1> QED
    BY <1>1, <1>2

(* The tasks with one of them replaced.                                    *)
LEMMA UpdatedSeq ==
    ASSUME TasksTyped, NEW t, NEW e, t \in DOMAIN task => e \in TaskRec,
           NEW s, s = [task EXCEPT ![t] = e]
    PROVE  /\ s \in Seq(TaskRec) /\ DOMAIN s = DOMAIN task
           /\ \A i \in DOMAIN task : s[i] = IF i = t THEN e ELSE task[i]
  <1>1. task \in Seq(TaskRec) /\ DOMAIN task = 1 .. Len(task) /\ Len(task) \in Nat
    BY DEF TasksTyped
  <1>2. \A i \in 1 .. Len(task) : task[i] \in TaskRec
    BY <1>1
  <1>3. DOMAIN s = DOMAIN task /\ \A i \in DOMAIN task : s[i] = IF i = t THEN e ELSE task[i]
    BY <1>1
  <1>4. s \in [1 .. Len(task) -> TaskRec]
    BY <1>1, <1>2
  <1> QED
    BY <1>1, <1>3, <1>4

(* Such a step lets no closed task reopen, when a closed one stays closed. *)
LEMMA Replaced ==
    ASSUME TasksTyped, NEW t, NEW e, t \in DOMAIN task => e \in TaskRec,
           task' = [task EXCEPT ![t] = e],
           t \in DOMAIN task => ~IsClosed(t) \/ e.status = "closed"
    PROVE  /\ Evolves /\ DOMAIN task' = DOMAIN task
           /\ \A i \in DOMAIN task : task'[i] = IF i = t THEN e ELSE task[i]
           /\ e.by # "worker" => NoHandoff
  <1>1. /\ task' \in Seq(TaskRec) /\ DOMAIN task' = DOMAIN task
        /\ \A i \in DOMAIN task : task'[i] = IF i = t THEN e ELSE task[i]
    BY UpdatedSeq
  <1> QED
    BY <1>1 DEF Evolves, NoHandoff, IsClosed, HeldBy

(* A close of any task that is there.                                      *)
LEMMA CloseEvolves ==
    ASSUME TasksTyped, NEW t, task' = Closed(t)
    PROVE  /\ Evolves /\ NoHandoff /\ DOMAIN task' = DOMAIN task
           /\ t \in DOMAIN task => task'[t].status = "closed"
  <1> DEFINE e == [task[t] EXCEPT !.status = "closed", !.by = None]
  <1>1. task' = [task EXCEPT ![t] = e]
    BY DEF Closed
  <1>2. t \in DOMAIN task => e \in TaskRec /\ e.status = "closed" /\ e.by # "worker"
    BY NoneAssumption, TaskFacts DEF TaskRec
  <1> HIDE DEF e
  <1>3. CASE t \in DOMAIN task
    BY <1>1, <1>2, <1>3, Replaced
  <1>4. CASE t \notin DOMAIN task
    <2>1. task' = task
      BY <1>1, <1>4 DEF TasksTyped
    <2> QED
      BY <1>4, <2>1 DEF TasksTyped, Evolves, NoHandoff, IsClosed, HeldBy
  <1> QED
    BY <1>3, <1>4

(* A release, of a claim that is there.                                    *)
LEMMA ReleaseEvolves ==
    ASSUME TasksTyped, NEW t \in DOMAIN task, NEW agent, Release(t, agent)
    PROVE  /\ Evolves /\ NoHandoff /\ DOMAIN task' = DOMAIN task
           /\ ~(task'[t].status = "claimed" /\ task'[t].by = agent)
           /\ \A i \in DOMAIN task : i # t => task'[i] = task[i]
  <1>1. CASE HeldBy(t, agent)
    <2> DEFINE e == [task[t] EXCEPT !.status = "open", !.by = None]
    <2>1. task' = [task EXCEPT ![t] = e]
      BY <1>1 DEF Release, Unclaimed
    <2>2. e \in TaskRec /\ e.status = "open" /\ e.by # "worker"
      BY NoneAssumption, TaskFacts DEF TaskRec
    <2>3. ~IsClosed(t)
      BY <1>1 DEF HeldBy, IsClosed
    <2> HIDE DEF e
    <2> QED
      BY <2>1, <2>2, <2>3, Replaced
  <1>2. CASE ~HeldBy(t, agent)
    BY <1>2 DEF Release, TasksTyped, Evolves, NoHandoff, IsClosed, HeldBy
  <1> QED
    BY <1>1, <1>2

(* A claim of a task that is not closed.                                   *)
LEMMA ClaimEvolves ==
    ASSUME TasksTyped, NEW t \in DOMAIN task, NEW agent \in {"self", "worker"},
           NEW epoch \in Nat, task' = Claimed(t, agent, epoch), ~IsClosed(t)
    PROVE  /\ Evolves /\ DOMAIN task' = DOMAIN task /\ (agent = "self" => NoHandoff)
           /\ \A i \in DOMAIN task : i # t => task'[i] = task[i]
  <1> DEFINE e == [status |-> "claimed", by |-> agent, epoch |-> epoch]
  <1>1. task' = [task EXCEPT ![t] = e]
    BY DEF Claimed
  <1>2. e \in TaskRec /\ e.by = agent
    BY DEF TaskRec
  <1> HIDE DEF e
  <1> QED
    BY <1>1, <1>2, Replaced

(* A step that leaves the tasks alone.                                     *)
LEMMA SameTasks == ASSUME TasksTyped, UNCHANGED task PROVE Evolves /\ NoHandoff
  BY DEF TasksTyped, Evolves, NoHandoff, IsClosed, HeldBy

-----------------------------------------------------------------------------
(* What the steps of one part leave of the others.                         *)

(* The plan verbs, over a step of the tasks that evolves.                  *)
LEMMA VerbsStay ==
    ASSUME VerbsInv, Evolves, UNCHANGED <<manifest, verb, overtaken>>
    PROVE  VerbsInv'
  <1>1. VerbsTyped'
    BY DEF VerbsInv, VerbsTyped, Evolves
  <1>2. Guarded'
    BY DEF VerbsInv, Guarded
  <1>3. Canceling'
    BY DEF VerbsInv, VerbsTyped, Canceling, Evolves, IsClosed
  <1> QED
    BY <1>1, <1>2, <1>3 DEF VerbsInv

(* The autoclaim, over a step of the tasks that evolves.                   *)
LEMMA AutoStays == ASSUME AutoInv, Evolves, UNCHANGED auto PROVE AutoInv'
  BY DEF AutoInv, Evolves

(* The workers, over a step of the tasks that takes none from an agent.    *)
LEMMA WorkersStay ==
    ASSUME WorkersInv, Evolves, NoHandoff, UNCHANGED <<parent, inbox, worker, stuck>>
    PROVE  WorkersInv'
  <1>1. WorkersTyped' /\ ChildWorks'
    BY DEF WorkersInv, WorkersTyped, ChildWorks, Evolves
  <1>2. PostsTrue' /\ InboxTrue' /\ ReportedClosed'
    BY DEF WorkersInv, WorkersTyped, PostsTrue, InboxTrue, ReportedClosed, Evolves, IsClosed
  <1>3. WorkerClaimReturned'
    BY DEF WorkersInv, WorkerClaimReturned, NoHandoff, HeldBy
  <1> QED
    BY <1>1, <1>2, <1>3 DEF WorkersInv

(* Every way of spending the bounds.                                       *)
LEMMA BudgetTyped ==
    ASSUME TasksTyped, Begin \/ Fault \/ UNCHANGED budget
    PROVE  budget' \in [ops : Nat, faults : Nat]
  BY DEF TasksTyped, Begin, Fault

(* A step of a command, that keeps the commands' part.                     *)
LEMMA CommandStep ==
    ASSUME Inv, Evolves, NoHandoff, Begin \/ Fault \/ UNCHANGED budget,
           UNCHANGED <<auto, parent, inbox, worker, stuck>>, VerbsInv'
    PROVE  Inv'
  <1>1. TasksTyped'
    BY BudgetTyped DEF Inv, TasksTyped, Evolves
  <1> QED
    BY <1>1, AutoStays, WorkersStay DEF Inv

-----------------------------------------------------------------------------
(* The commands.                                                           *)

(* An ended command.                                                       *)
LEMMA NoVerbType ==
    /\ NoVerb \in VerbRec /\ NoVerb.at = "idle" /\ NoVerb.made = {} /\ NoVerb.left = {}
  BY DEF NoVerb, VerbRec

(* Command v goes to the locals r; the manifest stays.                     *)
LEMMA VerbMoves ==
    ASSUME Inv, Evolves, NEW v \in Verb, NEW r \in VerbRec, Run(v, r),
           UNCHANGED manifest, overtaken' \in {overtaken, overtaken \ {v}, overtaken \cup {v}},
           r.made \cup r.left \subseteq DOMAIN task',
           r.at = "create" => /\ r.plan \in Plan
                              /\ v \notin overtaken' => manifest.plan \in {None, r.plan},
           r.at = "close" /\ v \notin overtaken' =>
               \A t \in manifest.tasks \ r.left : task'[t].status = "closed"
    PROVE  VerbsInv'
  <1>1. verb \in [Verb -> VerbRec] /\ overtaken \subseteq Verb
    BY DEF Inv, VerbsInv, VerbsTyped
  <1>2. verb' \in [Verb -> VerbRec] /\ \A u \in Verb : verb'[u] = IF u = v THEN r ELSE verb[u]
    BY <1>1 DEF Run
  <1>3. VerbsTyped'
    BY <1>2 DEF Inv, VerbsInv, VerbsTyped, Evolves
  <1>4. Guarded'
    BY <1>2 DEF Inv, VerbsInv, Guarded
  <1>5. Canceling'
    <2> SUFFICES ASSUME NEW u \in Verb, verb'[u].at = "close", u \notin overtaken',
                        NEW t \in manifest.tasks \ verb'[u].left
                 PROVE  task'[t].status = "closed"
      BY DEF Canceling, IsClosed
    <2>1. CASE u = v
      BY <1>2, <2>1
    <2>2. CASE u # v
      <3>1. verb'[u] = verb[u] /\ u \notin overtaken
        BY <1>2, <2>2
      <3>2. IsClosed(t) /\ t \in DOMAIN task
        BY <3>1 DEF Inv, VerbsInv, VerbsTyped, Canceling
      <3> QED
        BY <3>2 DEF Evolves
    <2> QED
      BY <2>1, <2>2
  <1> QED
    BY <1>3, <1>4, <1>5 DEF VerbsInv

(* A command that ends.                                                    *)
LEMMA EndsStep ==
    ASSUME Inv, Evolves, NoHandoff, Begin \/ Fault \/ UNCHANGED budget,
           NEW v \in Verb, Ends(v),
           UNCHANGED <<manifest, auto, parent, inbox, worker, overtaken, stuck>>
    PROVE  Inv'
  <1>1. VerbsInv'
    BY VerbMoves, NoVerbType DEF Ends
  <1> QED
    BY <1>1, CommandStep

(* A command of a plan starts when no other plan has the manifest.         *)
LEMMA DispatchInv ==
    ASSUME Inv, NEW v \in Verb, NEW p \in Plan, StartDispatch(v, p) PROVE Inv'
  <1> DEFINE r == [NoVerb EXCEPT !.at = "create", !.plan = p]
  <1>1. r \in VerbRec /\ r.at = "create" /\ r.plan = p /\ r.made \cup r.left = {}
    BY DEF NoVerb, VerbRec
  <1>2. /\ Run(v, r) /\ manifest.plan \in {None, p} /\ Begin /\ overtaken' = overtaken \ {v}
        /\ UNCHANGED <<task, manifest, auto, parent, inbox, worker, stuck>>
    BY DEF StartDispatch, guardExistingDispatch
  <1> HIDE DEF r
  <1>3. Evolves /\ NoHandoff
    BY <1>2, SameTasks DEF Inv
  <1>4. VerbsInv'
    BY <1>1, <1>2, <1>3, VerbMoves
  <1> QED
    BY <1>2, <1>3, <1>4, CommandStep

(* A plan edited under its command: what the guard saw no longer counts.   *)
LEMMA PlanEditedInv ==
    ASSUME Inv, NEW v \in Verb, NEW p \in Plan, PlanEdited(v, p) PROVE Inv'
  <1> DEFINE r == [verb[v] EXCEPT !.plan = p]
  <1>1. /\ verb[v].at = "create" /\ Run(v, r) /\ Begin /\ overtaken' = overtaken \cup {v}
        /\ UNCHANGED <<task, manifest, auto, parent, inbox, worker, stuck>>
    BY DEF PlanEdited
  <1>2. verb[v] \in VerbRec /\ verb[v].made \cup verb[v].left \subseteq DOMAIN task
    BY DEF Inv, VerbsInv, VerbsTyped
  <1>3. /\ r \in VerbRec /\ r.at = "create" /\ r.plan = p
        /\ r.made = verb[v].made /\ r.left = verb[v].left
    BY <1>1, <1>2 DEF VerbRec
  <1> HIDE DEF r
  <1>4. Evolves /\ NoHandoff
    BY <1>1, SameTasks DEF Inv
  <1>5. VerbsInv'
    BY <1>1, <1>2, <1>3, <1>4, VerbMoves
  <1> QED
    BY <1>1, <1>4, <1>5, CommandStep

(* A new task is open.                                                     *)
LEMMA AppendEvolves ==
    ASSUME TasksTyped,
           task' = Append(task, [status |-> "open", by |-> None, epoch |-> 0])
    PROVE  Evolves /\ NoHandoff /\ Len(task) + 1 \in DOMAIN task'
  <1> DEFINE e == [status |-> "open", by |-> None, epoch |-> 0]
  <1>1. e \in TaskRec /\ e.status = "open"
    BY DEF TaskRec
  <1> HIDE DEF e
  <1>2. task \in Seq(TaskRec) /\ task' = Append(task, e)
    BY DEF TasksTyped, e
  <1>3. /\ task' \in Seq(TaskRec) /\ DOMAIN task' = DOMAIN task \cup {Len(task) + 1}
        /\ \A i \in DOMAIN task : task'[i] = task[i]
        /\ task'[Len(task) + 1] = e
    BY <1>1, <1>2
  <1> QED
    BY <1>1, <1>3 DEF Evolves, NoHandoff, IsClosed, HeldBy

(* A task of the plan is created.                                          *)
LEMMA CreateInv == ASSUME Inv, NEW v \in Verb, createTask(v) PROVE Inv'
  <1> DEFINE r == [verb[v] EXCEPT !.made = @ \cup {Len(task) + 1}]
  <1>1. /\ verb[v] \in VerbRec /\ verb[v].made \cup verb[v].left \subseteq DOMAIN task
        /\ Len(task) \in Nat
    BY DEF Inv, VerbsInv, VerbsTyped, TasksTyped
  <1>2. Len(task) + 1 \in Nat
    BY <1>1
  <1>3. /\ r \in VerbRec /\ r.at = verb[v].at /\ r.plan = verb[v].plan
        /\ r.made = verb[v].made \cup {Len(task) + 1} /\ r.left = verb[v].left
    BY <1>1, <1>2 DEF VerbRec
  <1>4. /\ Run(v, r) /\ verb[v].at = "create"
        /\ task' = Append(task, [status |-> "open", by |-> None, epoch |-> 0])
        /\ UNCHANGED <<manifest, auto, parent, inbox, worker, overtaken, stuck, budget>>
    BY DEF createTask
  <1> HIDE DEF r
  <1>5. Evolves /\ NoHandoff /\ Len(task) + 1 \in DOMAIN task'
    BY <1>4, AppendEvolves DEF Inv
  <1>6. r.made \cup r.left \subseteq DOMAIN task'
    BY <1>1, <1>3, <1>5 DEF Evolves
  <1>7. verb[v].plan \in Plan /\ (v \notin overtaken => manifest.plan \in {None, verb[v].plan})
    BY <1>4 DEF Inv, VerbsInv, Guarded
  <1>8. VerbsInv'
    BY <1>3, <1>4, <1>5, <1>6, <1>7, VerbMoves
  <1> QED
    BY <1>4, <1>5, <1>8, CommandStep

(* A new manifest overtakes every other command under way.                 *)
LEMMA WriteInv == ASSUME Inv, NEW v \in Verb, WriteManifest(v) PROVE Inv'
  <1>1. /\ verb[v].at = "create" /\ verb' = [verb EXCEPT ![v] = NoVerb]
        /\ manifest' = [plan |-> verb[v].plan, tasks |-> verb[v].made]
        /\ overtaken' = {u \in Verb \ {v} : verb[u].at # "idle"} \cup (overtaken \ {v})
        /\ UNCHANGED <<task, auto, parent, inbox, worker, stuck, budget>>
    BY DEF WriteManifest, Ends, Run
  <1>2. Evolves /\ NoHandoff
    BY <1>1, SameTasks DEF Inv
  <1>3. verb \in [Verb -> VerbRec] /\ overtaken \subseteq Verb
    BY DEF Inv, VerbsInv, VerbsTyped
  <1>4. verb' \in [Verb -> VerbRec] /\ \A u \in Verb : verb'[u] = IF u = v THEN NoVerb ELSE verb[u]
    BY <1>1, <1>3, NoVerbType
  <1>5. verb[v].plan \in Plan /\ verb[v].made \subseteq DOMAIN task
    BY <1>1 DEF Inv, VerbsInv, Guarded, VerbsTyped
  <1>6. \A u \in Verb : verb'[u].at # "idle" => u \in overtaken'
    BY <1>1, <1>4, NoVerbType
  <1>7. VerbsTyped'
    BY <1>1, <1>4, <1>5, NoVerbType DEF Inv, VerbsInv, VerbsTyped
  <1>8. Guarded'
    <2>1. manifest'.plan # None
      BY <1>1, <1>5, NoneAssumption
    <2>2. \A u \in Verb : verb'[u].at = "create" => verb'[u].plan \in Plan
      BY <1>4, NoVerbType DEF Inv, VerbsInv, Guarded
    <2> QED
      BY <1>6, <2>1, <2>2 DEF Guarded
  <1>9. Canceling'
    BY <1>6 DEF Canceling
  <1> QED
    BY <1>1, <1>2, <1>7, <1>8, <1>9, CommandStep DEF VerbsInv

(* A cancel and an advance take the tasks of the manifest that is there.   *)
LEMMA ReadInv ==
    ASSUME Inv, NEW v \in Verb, StartCancel(v) \/ StartAdvance(v) PROVE Inv'
  <1>1. PICK l \in {"close", "check"} :
           Run(v, [NoVerb EXCEPT !.at = l, !.left = manifest.tasks])
    BY DEF StartCancel, StartAdvance
  <1>2. /\ Begin /\ overtaken' = overtaken \ {v}
        /\ UNCHANGED <<task, manifest, auto, parent, inbox, worker, stuck>>
    BY DEF StartCancel, StartAdvance
  <1> DEFINE r == [NoVerb EXCEPT !.at = l, !.left = manifest.tasks]
  <1>3. manifest.tasks \subseteq DOMAIN task /\ manifest.tasks \subseteq Nat
    <2>1. manifest.tasks \subseteq DOMAIN task
      BY DEF Inv, VerbsInv, VerbsTyped
    <2> QED
      BY <2>1, TaskFacts DEF Inv
  <1>4. r \in VerbRec /\ r.at = l /\ r.made = {} /\ r.left = manifest.tasks
    BY <1>3 DEF NoVerb, VerbRec
  <1>5. Run(v, r)
    BY <1>1
  <1> HIDE DEF r
  <1>6. Evolves /\ NoHandoff
    BY <1>2, SameTasks DEF Inv
  <1>7. VerbsInv'
    BY <1>2, <1>3, <1>4, <1>5, <1>6, VerbMoves
  <1> QED
    BY <1>2, <1>6, <1>7, CommandStep

(* What a command that reads its list one by one goes to.                  *)
LEMMA DropType ==
    ASSUME Inv, NEW v \in Verb, NEW t
    PROVE  LET r == [verb[v] EXCEPT !.left = @ \ {t}]
           IN  /\ r \in VerbRec /\ r.at = verb[v].at /\ r.left = verb[v].left \ {t}
               /\ r.made \cup r.left \subseteq DOMAIN task
  <1>1. verb[v] \in VerbRec /\ verb[v].made \cup verb[v].left \subseteq DOMAIN task
    BY DEF Inv, VerbsInv, VerbsTyped
  <1> QED
    BY <1>1 DEF VerbRec

(* A close of the cancel: the task it drops from its list is closed.       *)
LEMMA CloseInv == ASSUME Inv, NEW v \in Verb, closeTask(v) PROVE Inv'
  <1> DEFINE t == Min(verb[v].left)
             r == [verb[v] EXCEPT !.left = @ \ {t}]
  <1>1. /\ verb[v].at = "close"
        /\ UNCHANGED <<manifest, auto, parent, inbox, worker, overtaken, stuck>>
    BY DEF closeTask
  <1>2. \/ task' = Closed(t) /\ Run(v, r) /\ UNCHANGED budget
        \/ Ends(v) /\ UNCHANGED task /\ (Fault \/ UNCHANGED budget)
    BY DEF closeTask, CancelFails
  <1>3. CASE task' = Closed(t) /\ Run(v, r) /\ UNCHANGED budget
    <2> HIDE DEF t
    <2>1. /\ Evolves /\ NoHandoff /\ DOMAIN task' = DOMAIN task
          /\ t \in DOMAIN task => task'[t].status = "closed"
      BY <1>3, CloseEvolves DEF Inv
    <2>2. /\ r \in VerbRec /\ r.at = "close" /\ r.left = verb[v].left \ {t}
          /\ r.made \cup r.left \subseteq DOMAIN task
      BY <1>1, DropType
    <2> HIDE DEF r
    <2>3. v \notin overtaken => \A u \in manifest.tasks \ r.left : task'[u].status = "closed"
      <3> SUFFICES ASSUME v \notin overtaken, NEW u \in manifest.tasks \ r.left
                   PROVE  task'[u].status = "closed"
        OBVIOUS
      <3>1. u \in DOMAIN task
        BY DEF Inv, VerbsInv, VerbsTyped
      <3>2. u = t \/ IsClosed(u)
        BY <1>1, <2>2 DEF Inv, VerbsInv, Canceling
      <3> QED
        BY <2>1, <3>1, <3>2 DEF Evolves
    <2>4. VerbsInv'
      BY <1>1, <1>3, <2>1, <2>2, <2>3, VerbMoves
    <2> QED
      BY <1>1, <1>3, <2>1, <2>4, CommandStep
  <1>4. CASE Ends(v) /\ UNCHANGED task /\ (Fault \/ UNCHANGED budget)
    <2>1. Evolves /\ NoHandoff
      BY <1>4, SameTasks DEF Inv
    <2> QED
      BY <1>1, <1>4, <2>1, EndsStep
  <1> QED
    BY <1>2, <1>3, <1>4

(* The end of a cancel leaves no manifest for the other commands.          *)
LEMMA RemoveInv == ASSUME Inv, NEW v \in Verb, RemoveManifest(v) PROVE Inv'
  <1>1. /\ verb' = [verb EXCEPT ![v] = NoVerb] /\ manifest' = NoManifest
        /\ UNCHANGED <<task, auto, parent, inbox, worker, overtaken, stuck, budget>>
    BY DEF RemoveManifest, Ends, Run
  <1>2. Evolves /\ NoHandoff
    BY <1>1, SameTasks DEF Inv
  <1>3. verb \in [Verb -> VerbRec]
    BY DEF Inv, VerbsInv, VerbsTyped
  <1>4. verb' \in [Verb -> VerbRec] /\ \A u \in Verb : verb'[u] = IF u = v THEN NoVerb ELSE verb[u]
    BY <1>1, <1>3, NoVerbType
  <1>5. /\ NoManifest \in [plan : Plan \cup {None}, tasks : SUBSET DOMAIN task]
        /\ NoManifest.plan = None /\ NoManifest.tasks = {}
    BY DEF NoManifest
  <1>6. VerbsTyped'
    BY <1>1, <1>4, <1>5, NoVerbType DEF Inv, VerbsInv, VerbsTyped
  <1>7. Guarded' /\ Canceling'
    BY <1>1, <1>4, <1>5, NoVerbType DEF Inv, VerbsInv, Guarded, Canceling
  <1> QED
    BY <1>1, <1>2, <1>6, <1>7, CommandStep DEF VerbsInv

(* An advance changes nothing but its own list.                            *)
LEMMA AdvanceInv == ASSUME Inv, NEW v \in Verb, Advance(v) PROVE Inv'
  <1> DEFINE t == Min(verb[v].left)
             r == [verb[v] EXCEPT !.left = @ \ {t}]
  <1>1. /\ verb[v].at = "check" /\ (Run(v, r) \/ Ends(v))
        /\ UNCHANGED <<task, manifest, auto, parent, inbox, worker, overtaken, stuck, budget>>
    BY DEF Advance
  <1>2. Evolves /\ NoHandoff
    BY <1>1, SameTasks DEF Inv
  <1>3. CASE Run(v, r)
    <2> HIDE DEF t
    <2>1. r \in VerbRec /\ r.at = verb[v].at /\ r.made \cup r.left \subseteq DOMAIN task
      BY DropType
    <2>2. verb[v].at = "check"
      BY DEF Advance
    <2> HIDE DEF r
    <2>3. VerbsInv'
      BY <1>1, <1>2, <1>3, <2>1, <2>2, VerbMoves
    <2> QED
      BY <1>1, <1>2, <2>3, CommandStep
  <1>4. CASE Ends(v)
    BY <1>1, <1>2, <1>4, EndsStep
  <1> QED
    BY <1>1, <1>3, <1>4

(* A verb is killed: the tasks it made stay.                               *)
LEMMA VerbDiesInv == ASSUME Inv, NEW v \in Verb, VerbDies(v) PROVE Inv'
  <1>1. /\ Fault /\ Ends(v)
        /\ UNCHANGED <<task, manifest, auto, parent, inbox, worker, overtaken, stuck>>
    BY DEF VerbDies
  <1>2. Evolves /\ NoHandoff
    BY <1>1, SameTasks DEF Inv
  <1> QED
    BY <1>1, <1>2, EndsStep

-----------------------------------------------------------------------------
(* tasks claim and tasks autoclaim.                                        *)

(* A step of the agent's own claims.                                       *)
LEMMA AutoStep ==
    ASSUME Inv, Evolves, NoHandoff, Begin \/ Fault \/ UNCHANGED budget,
           UNCHANGED <<manifest, verb, overtaken, parent, inbox, worker, stuck>>, AutoInv'
    PROVE  Inv'
  <1>1. TasksTyped'
    BY BudgetTyped DEF Inv, TasksTyped, Evolves
  <1> QED
    BY <1>1, VerbsStay, WorkersStay DEF Inv

(* `tasks claim` takes an open task.                                       *)
LEMMA TasksClaimInv == ASSUME Inv, NEW t \in DOMAIN task, TasksClaim(t) PROVE Inv'
  <1>1. /\ Begin /\ task' = Claimed(t, "self", task[t].epoch) /\ ~IsClosed(t)
        /\ UNCHANGED <<manifest, verb, auto, parent, inbox, worker, overtaken, stuck>>
    BY DEF TasksClaim, IsClosed
  <1>2. Evolves /\ NoHandoff
    BY <1>1, TaskFacts, ClaimEvolves DEF Inv
  <1>3. AutoInv'
    BY <1>1, <1>2, AutoStays DEF Inv
  <1> QED
    BY <1>1, <1>2, <1>3, AutoStep

(* The autoclaim picks a task it has not claimed yet.                      *)
LEMMA PrimeInv == ASSUME Inv, Prime PROVE Inv'
  <1>1. /\ Begin
        /\ UNCHANGED <<task, manifest, verb, parent, inbox, worker, overtaken, stuck>>
    BY DEF Prime
  <1>2. PICK t \in DOMAIN task : auto' = [at |-> "claim", task |-> t]
    BY DEF Prime
  <1>3. Evolves /\ NoHandoff
    BY <1>1, SameTasks DEF Inv
  <1>4. AutoInv'
    BY <1>1, <1>2, TaskFacts DEF Inv, AutoInv, AutoRec
  <1> QED
    BY <1>1, <1>3, <1>4, AutoStep

(* An autoclaim that ended.                                                *)
LEMMA NoAutoType == NoAuto \in AutoRec /\ NoAuto.at = "idle" /\ NoAuto.task = 0
  BY DEF NoAuto, AutoRec

(* It claims the task, or has lost the race.                               *)
LEMMA AutoClaimInv == ASSUME Inv, AutoClaim PROVE Inv'
  <1>1. /\ auto.at = "claim"
        /\ UNCHANGED <<manifest, verb, parent, inbox, worker, overtaken, stuck, budget>>
    BY DEF AutoClaim
  <1>2. auto \in AutoRec /\ auto.task \in DOMAIN task
    BY <1>1 DEF Inv, AutoInv
  <1>3. CASE task[auto.task].status = "open"
    <2>1. /\ task' = Claimed(auto.task, "self", task[auto.task].epoch + 1)
          /\ auto' = [auto EXCEPT !.at = "post"] /\ ~IsClosed(auto.task)
      BY <1>3 DEF AutoClaim, IsClosed
    <2>2. Evolves /\ NoHandoff
      BY <1>2, <2>1, TaskFacts, ClaimEvolves DEF Inv
    <2>3. AutoInv'
      BY <1>2, <2>1, <2>2 DEF AutoInv, AutoRec, Evolves
    <2> QED
      BY <1>1, <2>2, <2>3, AutoStep
  <1>4. CASE task[auto.task].status # "open"
    <2>1. auto' = NoAuto /\ UNCHANGED task
      BY <1>4 DEF AutoClaim
    <2>2. Evolves /\ NoHandoff
      BY <2>1, SameTasks DEF Inv
    <2>3. AutoInv'
      BY <2>1, NoAutoType DEF AutoInv
    <2> QED
      BY <1>1, <2>2, <2>3, AutoStep
  <1> QED
    BY <1>3, <1>4

(* It posts its notice, or gives the task back.                            *)
LEMMA PostNoticeInv == ASSUME Inv, postAutoclaimNotice PROVE Inv'
  <1>1. /\ auto.at = "post" /\ auto' = NoAuto /\ (Fault \/ UNCHANGED budget)
        /\ UNCHANGED <<manifest, verb, parent, inbox, worker, overtaken, stuck>>
        /\ (UNCHANGED task \/ Release(auto.task, "self"))
    BY DEF postAutoclaimNotice
  <1>2. auto.task \in DOMAIN task
    BY <1>1 DEF Inv, AutoInv
  <1>3. Evolves /\ NoHandoff
    BY <1>1, <1>2, SameTasks, ReleaseEvolves DEF Inv
  <1>4. AutoInv'
    BY <1>1, NoAutoType DEF AutoInv
  <1> QED
    BY <1>1, <1>3, <1>4, AutoStep

-----------------------------------------------------------------------------
(* tasks dispatch parent.                                                  *)

(* A step of the parent or a worker, that keeps their part.                *)
LEMMA WorkStep ==
    ASSUME Inv, Evolves, Begin \/ Fault \/ UNCHANGED budget,
           UNCHANGED <<manifest, verb, auto, overtaken>>, WorkersInv'
    PROVE  Inv'
  <1>1. TasksTyped'
    BY BudgetTyped DEF Inv, TasksTyped, Evolves
  <1> QED
    BY <1>1, VerbsStay, AutoStays DEF Inv

(* A parent and a worker that ended.                                       *)
LEMMA EndedTypes ==
    /\ NoParent \in ParentRec /\ NoParent.at = "idle" /\ NoParent.task = 0
    /\ NoWorker \in WorkerRec /\ NoWorker.at = "idle" /\ NoWorker.task = 0
  BY DEF NoParent, ParentRec, NoWorker, WorkerRec, Result

(* No worker moves, and none gets a claim.                                 *)
LEMMA ClaimsStay ==
    ASSUME Inv, NoHandoff, UNCHANGED <<worker, stuck>> PROVE WorkerClaimReturned'
  BY DEF Inv, WorkersInv, WorkerClaimReturned, NoHandoff, HeldBy

(* The parent ends, with the workers that end with it.                     *)
LEMMA ParentEnds ==
    ASSUME Inv, Evolves, parent' = NoParent, inbox' = {},
           worker' \in [Worker -> WorkerRec],
           \A w \in Worker : worker'[w] \in {worker[w], NoWorker},
           stuck' \subseteq DOMAIN task, WorkerClaimReturned'
    PROVE  WorkersInv'
  <1>1. WorkersTyped'
    BY EndedTypes DEF Inv, WorkersInv, WorkersTyped, Evolves
  <1>2. ChildWorks' /\ InboxTrue' /\ ReportedClosed'
    BY EndedTypes DEF ChildWorks, InboxTrue, ReportedClosed
  <1>3. PostsTrue'
    <2> SUFFICES ASSUME NEW w \in Worker, worker'[w].at = "post", worker'[w].handoff,
                        worker'[w].result = "success"
                 PROVE  task'[worker'[w].task].status = "closed"
      BY DEF PostsTrue, IsClosed
    <2>1. worker'[w] = worker[w]
      BY EndedTypes
    <2>2. IsClosed(worker[w].task) /\ worker[w].task \in DOMAIN task
      BY <2>1 DEF Inv, WorkersInv, WorkersTyped, PostsTrue
    <2> QED
      BY <2>1, <2>2 DEF Evolves
  <1> QED
    BY <1>1, <1>2, <1>3 DEF WorkersInv

(* The same, when no worker does.                                          *)
LEMMA ParentEndsAlone ==
    ASSUME Inv, Evolves, NoHandoff, parent' = NoParent, inbox' = {}, UNCHANGED <<worker, stuck>>
    PROVE  WorkersInv'
  <1>1. worker \in [Worker -> WorkerRec] /\ stuck \subseteq DOMAIN task
    BY DEF Inv, WorkersInv, WorkersTyped
  <1> QED
    BY <1>1, ClaimsStay, ParentEnds

(* The dispatching parent is killed; its worker goes on.                   *)
LEMMA ParentDiesInv == ASSUME Inv, ParentDies PROVE Inv'
  <1>1. /\ Fault /\ parent' = NoParent /\ inbox' = {}
        /\ UNCHANGED <<task, manifest, verb, auto, worker, overtaken, stuck>>
    BY DEF ParentDies
  <1>2. Evolves /\ NoHandoff
    BY <1>1, SameTasks DEF Inv
  <1> QED
    BY <1>1, <1>2, ParentEndsAlone, WorkStep

(* A close that may be refused.                                            *)
LEMMA HandleInv == ASSUME Inv, handleDispatchResult PROVE Inv'
  <1>1. /\ parent' = NoParent /\ inbox' = {}
        /\ UNCHANGED <<manifest, verb, auto, worker, overtaken, stuck, budget>>
        /\ (task' = Closed(parent.task) \/ UNCHANGED task)
    BY DEF handleDispatchResult, CloseTask, CloseRefused
  <1>2. Evolves /\ NoHandoff
    BY <1>1, SameTasks, CloseEvolves DEF Inv
  <1> QED
    BY <1>1, <1>2, ParentEndsAlone, WorkStep

(* A worker killed past its handoff leaves its claim.                      *)
LEMMA KillFacts ==
    ASSUME Inv, NEW w \in Worker, Kill(w), UNCHANGED task
    PROVE  /\ worker' \in [Worker -> WorkerRec]
           /\ \A u \in Worker : worker'[u] = IF u = w THEN NoWorker ELSE worker[u]
           /\ stuck' \subseteq DOMAIN task /\ WorkerClaimReturned'
  <1>1. /\ stuck' = IF worker[w].at \in {"idle", "start"} THEN stuck
                    ELSE stuck \cup {worker[w].task}
        /\ worker' = [worker EXCEPT ![w] = NoWorker]
    BY DEF Kill
  <1>2. worker \in [Worker -> WorkerRec]
    BY DEF Inv, WorkersInv, WorkersTyped
  <1>3. /\ worker' \in [Worker -> WorkerRec]
        /\ \A u \in Worker : worker'[u] = IF u = w THEN NoWorker ELSE worker[u]
    BY <1>1, <1>2, EndedTypes
  <1>4. stuck' \subseteq DOMAIN task
    BY <1>1 DEF Inv, WorkersInv, WorkersTyped
  <1>5. WorkerClaimReturned'
    <2> SUFFICES ASSUME NEW t \in DOMAIN task, HeldBy(t, "worker")
                 PROVE  \/ t \in stuck'
                        \/ \E u \in Worker :
                             /\ worker'[u].task = t /\ worker'[u].handoff
                             /\ worker'[u].at \in {"hold", "close", "post", "release"}
      BY DEF WorkerClaimReturned, HeldBy
    <2>1. CASE t \in stuck
      BY <1>1, <2>1
    <2>2. CASE \E u \in Worker : /\ worker[u].task = t /\ worker[u].handoff
                                 /\ worker[u].at \in {"hold", "close", "post", "release"}
      BY <1>1, <1>3, <2>2
    <2> QED
      BY <2>1, <2>2 DEF Inv, WorkersInv, WorkerClaimReturned
  <1> QED
    BY <1>3, <1>4, <1>5

(* The timeout.                                                            *)
LEMMA TimesOutInv == ASSUME Inv, WaitTimesOut PROVE Inv'
  <1>1. /\ parent.at = "wait" /\ Fault /\ parent' = NoParent /\ inbox' = {}
        /\ (Kill(parent.child) \/ UNCHANGED <<worker, stuck>>)
        /\ UNCHANGED <<task, manifest, verb, auto, overtaken>>
    BY DEF WaitTimesOut
  <1>2. Evolves /\ NoHandoff
    BY <1>1, SameTasks DEF Inv
  <1>3. CASE UNCHANGED <<worker, stuck>>
    BY <1>1, <1>2, <1>3, ParentEndsAlone, WorkStep
  <1>4. CASE Kill(parent.child)
    <2>1. parent.child \in Worker
      BY <1>1 DEF Inv, WorkersInv, ChildWorks
    <2>2. WorkersInv'
      BY <1>1, <1>2, <1>4, <2>1, KillFacts, ParentEnds
    <2> QED
      BY <1>1, <1>2, <2>2, WorkStep
  <1> QED
    BY <1>1, <1>3, <1>4

(* A worker killed while the parent deals with its answer.                 *)
LEMMA KilledLateInv == ASSUME Inv, KilledLate PROVE Inv'
  <1> DEFINE w == parent.child
  <1>1. /\ parent.at = "handle" /\ Fault /\ Kill(w)
        /\ UNCHANGED <<task, manifest, verb, auto, parent, inbox, overtaken>>
    BY DEF KilledLate
  <1>2. Evolves /\ NoHandoff
    BY <1>1, SameTasks DEF Inv
  <1>3. w \in Worker
    BY <1>1 DEF Inv, WorkersInv, ChildWorks
  <1> HIDE DEF w
  <1>4. /\ worker' \in [Worker -> WorkerRec]
        /\ \A u \in Worker : worker'[u] = IF u = w THEN NoWorker ELSE worker[u]
        /\ stuck' \subseteq DOMAIN task /\ WorkerClaimReturned'
    BY <1>1, <1>3, KillFacts
  <1>5. WorkersTyped'
    BY <1>1, <1>4, EndedTypes DEF Inv, WorkersInv, WorkersTyped
  <1>6. ChildWorks' /\ InboxTrue' /\ ReportedClosed'
    BY <1>1 DEF Inv, WorkersInv, ChildWorks, InboxTrue, ReportedClosed
  <1>7. PostsTrue'
    BY <1>1, <1>4, EndedTypes DEF Inv, WorkersInv, PostsTrue, IsClosed
  <1>8. WorkersInv'
    BY <1>4, <1>5, <1>6, <1>7 DEF WorkersInv
  <1> QED
    BY <1>1, <1>2, <1>8, WorkStep

(* The parent goes on, with the tasks and the workers as they are.         *)
LEMMA ParentMoves ==
    ASSUME Inv, NEW q \in ParentRec, parent' = q, inbox' \subseteq Message,
           UNCHANGED <<task, worker, stuck>>, q.task \in DOMAIN task,
           q.at \in {"spawn", "handle"}, q.at = "handle" => q.child \in Worker,
           q.at = "handle" /\ q.handoff /\ q.got.kind = "success" /\ q.got.from = q.child
              => IsClosed(q.task)
    PROVE  WorkersInv'
  <1>1. WorkersTyped'
    BY DEF Inv, WorkersInv, WorkersTyped
  <1>2. ChildWorks' /\ InboxTrue' /\ ReportedClosed'
    BY DEF ChildWorks, InboxTrue, ReportedClosed, IsClosed
  <1>3. PostsTrue' /\ WorkerClaimReturned'
    BY DEF Inv, WorkersInv, PostsTrue, WorkerClaimReturned, IsClosed, HeldBy
  <1> QED
    BY <1>1, <1>2, <1>3 DEF WorkersInv

(* A dispatch begins on a task that the parent's agent holds.              *)
LEMMA SpecInv ==
    ASSUME Inv, NEW t \in DOMAIN task, NEW h \in BOOLEAN, claimedDispatchSpec(t, h) PROVE Inv'
  <1> DEFINE q == [NoParent EXCEPT !.at = "spawn", !.task = t, !.handoff = h]
  <1>1. /\ Begin /\ parent' = q /\ inbox' = {}
        /\ UNCHANGED <<task, manifest, verb, auto, worker, overtaken, stuck>>
    BY DEF claimedDispatchSpec
  <1>2. q \in ParentRec /\ q.at = "spawn" /\ q.task = t
    <2>1. t \in Nat
      BY TaskFacts DEF Inv
    <2> QED
      BY <2>1 DEF NoParent, ParentRec
  <1> HIDE DEF q
  <1>3. Evolves
    BY <1>1, SameTasks DEF Inv
  <1>4. WorkersInv'
    BY <1>1, <1>2, ParentMoves
  <1> QED
    BY <1>1, <1>3, <1>4, WorkStep

(* What the parent takes from the thread is true of its own worker.        *)
LEMMA WaitInv == ASSUME Inv, NEW m \in inbox, waitDispatchResult(m) PROVE Inv'
  <1> DEFINE q == [parent EXCEPT !.at = "handle", !.got = m]
  <1>1. /\ parent.at = "wait" /\ parent' = q
        /\ UNCHANGED <<task, manifest, verb, auto, inbox, worker, overtaken, stuck, budget>>
    BY DEF waitDispatchResult
  <1>2. parent \in ParentRec /\ inbox \subseteq Message /\ parent.task \in DOMAIN task
    BY <1>1 DEF Inv, WorkersInv, WorkersTyped
  <1>3. /\ q \in ParentRec /\ q.at = "handle" /\ q.task = parent.task /\ q.got = m
        /\ q.handoff = parent.handoff /\ q.child = parent.child
    BY <1>2 DEF ParentRec
  <1> HIDE DEF q
  <1>4. Evolves
    BY <1>1, SameTasks DEF Inv
  <1>5. q.handoff /\ q.got.kind = "success" /\ q.got.from = q.child => IsClosed(q.task)
    BY <1>1, <1>3 DEF Inv, WorkersInv, InboxTrue
  <1>6. q.child \in Worker
    BY <1>1, <1>3 DEF Inv, WorkersInv, ChildWorks
  <1>7. WorkersInv'
    BY <1>1, <1>2, <1>3, <1>5, <1>6, ParentMoves
  <1> QED
    BY <1>1, <1>4, <1>7, WorkStep

-----------------------------------------------------------------------------
(* tasks dispatch worker.                                                  *)

(* A new worker has posted nothing the parent could take for its answer.   *)
LEMMA SpawnInv ==
    ASSUME Inv, NEW w \in Worker, NEW r \in Result, SpawnWorker(w, r) PROVE Inv'
  <1> DEFINE x == [at |-> "start", task |-> parent.task, result |-> r,
                   handoff |-> parent.handoff, epoch |-> 0]
             q == [parent EXCEPT !.at = "wait", !.child = w]
  <1>1. /\ parent.at = "spawn" /\ worker[w].at = "idle"
        /\ worker' = [worker EXCEPT ![w] = x] /\ parent' = q
        /\ inbox' = {m \in inbox : m.from # w}
        /\ UNCHANGED <<task, manifest, verb, auto, overtaken, stuck, budget>>
    BY DEF SpawnWorker
  <1>2. /\ parent \in ParentRec /\ inbox \subseteq Message /\ worker \in [Worker -> WorkerRec]
        /\ parent.task \in DOMAIN task
    BY <1>1 DEF Inv, WorkersInv, WorkersTyped
  <1>3. /\ x \in WorkerRec /\ x.at = "start" /\ x.task = parent.task
        /\ x.handoff = parent.handoff
    BY <1>2 DEF ParentRec, WorkerRec
  <1>4. /\ q \in ParentRec /\ q.at = "wait" /\ q.child = w /\ q.task = parent.task
        /\ q.handoff = parent.handoff
    BY <1>2 DEF ParentRec
  <1> HIDE DEF x, q
  <1>5. /\ worker' \in [Worker -> WorkerRec]
        /\ \A u \in Worker : worker'[u] = IF u = w THEN x ELSE worker[u]
    BY <1>1, <1>2, <1>3
  <1>6. Evolves
    BY <1>1, SameTasks DEF Inv
  <1>7. WorkersTyped'
    BY <1>1, <1>2, <1>3, <1>4, <1>5 DEF Inv, WorkersInv, WorkersTyped
  <1>8. ChildWorks' /\ InboxTrue' /\ ReportedClosed'
    BY <1>1, <1>3, <1>4, <1>5 DEF ChildWorks, InboxTrue, ReportedClosed
  <1>9. PostsTrue'
    BY <1>1, <1>3, <1>5 DEF Inv, WorkersInv, PostsTrue, IsClosed
  <1>10. WorkerClaimReturned'
    BY <1>1, <1>5 DEF Inv, WorkersInv, WorkerClaimReturned, HeldBy
  <1>11. WorkersInv'
    BY <1>7, <1>8, <1>9, <1>10 DEF WorkersInv
  <1> QED
    BY <1>1, <1>6, <1>11, WorkStep

(* A worker goes to the locals x, with the message it may have posted.     *)
LEMMA WorkerMoves ==
    ASSUME Inv, Evolves, NEW w \in Worker, NEW x \in WorkerRec, worker[w].at # "idle",
           worker' = [worker EXCEPT ![w] = x], UNCHANGED parent,
           stuck' \subseteq DOMAIN task,
           x.task \in {0} \cup DOMAIN task,
           x.at # "idle" => /\ x.task = worker[w].task
                            /\ x.handoff = worker[w].handoff,
           x.at = "post" /\ x.handoff /\ x.result = "success"
              => task'[x.task].status = "closed",
           \/ UNCHANGED inbox
           \/ /\ worker[w].at = "post"
              /\ inbox' = inbox \cup {[from |-> w, kind |-> worker[w].result]},
           WorkerClaimReturned'
    PROVE  WorkersInv'
  <1>1. /\ worker \in [Worker -> WorkerRec] /\ inbox \subseteq Message
        /\ worker[w] \in WorkerRec /\ worker[w].task \in DOMAIN task
    BY DEF Inv, WorkersInv, WorkersTyped
  <1>2. /\ worker' \in [Worker -> WorkerRec]
        /\ \A u \in Worker : worker'[u] = IF u = w THEN x ELSE worker[u]
    BY <1>1
  <1> DEFINE n == [from |-> w, kind |-> worker[w].result]
  <1>3. n \in Message /\ n.from = w /\ n.kind = worker[w].result
    BY <1>1 DEF Message, WorkerRec
  <1>4. inbox' \subseteq Message
    BY <1>1, <1>3
  <1>5. \A m \in inbox' : m \in inbox \/ (m = n /\ worker[w].at = "post")
    OBVIOUS
  <1> HIDE DEF n
  <1>6. WorkersTyped'
    BY <1>1, <1>2, <1>4 DEF Inv, WorkersInv, WorkersTyped, Evolves
  <1>7. ChildWorks'
    BY <1>2 DEF Inv, WorkersInv, ChildWorks
  <1>8. PostsTrue'
    <2> SUFFICES ASSUME NEW u \in Worker, worker'[u].at = "post", worker'[u].handoff,
                        worker'[u].result = "success"
                 PROVE  task'[worker'[u].task].status = "closed"
      BY DEF PostsTrue, IsClosed
    <2>1. CASE u = w
      BY <1>2, <2>1
    <2>2. CASE u # w
      <3>1. worker'[u] = worker[u]
        BY <1>2, <2>2
      <3>2. IsClosed(worker[u].task) /\ worker[u].task \in DOMAIN task
        BY <3>1 DEF Inv, WorkersInv, WorkersTyped, PostsTrue
      <3> QED
        BY <3>1, <3>2 DEF Evolves
    <2> QED
      BY <2>1, <2>2
  <1>9. InboxTrue'
    <2> SUFFICES ASSUME parent.at = "wait", parent.handoff, NEW m \in inbox',
                        m.from = parent.child, m.kind = "success"
                 PROVE  task'[parent.task].status = "closed"
      BY DEF InboxTrue, IsClosed
    <2>1. parent.task \in DOMAIN task
      BY DEF Inv, WorkersInv, WorkersTyped
    <2>2. CASE m \in inbox
      BY <2>1, <2>2 DEF Inv, WorkersInv, InboxTrue, Evolves
    <2>3. CASE m = n /\ worker[w].at = "post"
      <3>1. /\ worker[w].task = parent.task /\ worker[w].handoff
            /\ worker[w].result = "success"
        BY <1>3, <2>3 DEF Inv, WorkersInv, ChildWorks
      <3>2. IsClosed(parent.task)
        BY <2>3, <3>1 DEF Inv, WorkersInv, PostsTrue
      <3> QED
        BY <2>1, <3>2 DEF Evolves
    <2> QED
      BY <1>5, <2>2, <2>3
  <1>10. ReportedClosed'
    BY DEF Inv, WorkersInv, WorkersTyped, ReportedClosed, Evolves, IsClosed
  <1> QED
    BY <1>6, <1>7, <1>8, <1>9, <1>10 DEF WorkersInv

(* A worker under way.                                                     *)
LEMMA WorkerFacts ==
    ASSUME Inv, NEW w \in Worker, worker[w].at # "idle"
    PROVE  /\ worker \in [Worker -> WorkerRec] /\ worker[w] \in WorkerRec
           /\ worker[w].task \in DOMAIN task /\ stuck \subseteq DOMAIN task
  BY DEF Inv, WorkersInv, WorkersTyped

(* The claims of the worker's agent, when one worker w ends or goes on.    *)
LEMMA ClaimsMove ==
    ASSUME Inv, NEW w \in Worker, NEW x, worker' = [worker EXCEPT ![w] = x],
           stuck \subseteq stuck',
           \A t \in DOMAIN task' :
              task'[t].status = "claimed" /\ task'[t].by = "worker" =>
                 \/ t \in stuck'
                 \/ /\ t \in DOMAIN task /\ HeldBy(t, "worker")
                    /\ \/ t # worker[w].task \/ ~worker[w].handoff
                       \/ worker[w].at \notin {"hold", "close", "post", "release"}
                 \/ x.task = t /\ x.handoff /\ x.at \in {"hold", "close", "post", "release"}
    PROVE  WorkerClaimReturned'
  <1> SUFFICES ASSUME NEW t \in DOMAIN task', task'[t].status = "claimed",
                      task'[t].by = "worker", t \notin stuck'
               PROVE  \E u \in Worker : /\ worker'[u].task = t /\ worker'[u].handoff
                                        /\ worker'[u].at \in {"hold", "close", "post", "release"}
    BY DEF WorkerClaimReturned, HeldBy
  <1>1. worker \in [Worker -> WorkerRec]
    BY DEF Inv, WorkersInv, WorkersTyped
  <1>2. \A u \in Worker : worker'[u] = IF u = w THEN x ELSE worker[u]
    BY <1>1
  <1>3. CASE x.task = t /\ x.handoff /\ x.at \in {"hold", "close", "post", "release"}
    BY <1>2, <1>3
  <1>4. CASE /\ t \in DOMAIN task /\ HeldBy(t, "worker")
             /\ \/ t # worker[w].task \/ ~worker[w].handoff
                \/ worker[w].at \notin {"hold", "close", "post", "release"}
    <2>1. PICK u \in Worker : /\ worker[u].task = t /\ worker[u].handoff
                              /\ worker[u].at \in {"hold", "close", "post", "release"}
      BY <1>4 DEF Inv, WorkersInv, WorkerClaimReturned
    <2>2. u # w
      BY <1>4, <2>1
    <2> QED
      BY <1>2, <2>1, <2>2
  <1> QED
    BY <1>3, <1>4

(* A worker that only goes to another of the labels that have a claim.     *)
LEMMA GoesInv ==
    ASSUME Inv, Evolves, NoHandoff, Fault \/ UNCHANGED budget,
           NEW w \in Worker, worker[w].at # "idle",
           NEW l \in {"hold", "close", "post", "release"}, Goes(w, l),
           UNCHANGED <<manifest, verb, auto, parent, overtaken, stuck>>,
           l = "post" /\ worker[w].handoff /\ worker[w].result = "success"
              => task'[worker[w].task].status = "closed",
           \/ UNCHANGED inbox
           \/ /\ worker[w].at = "post"
              /\ inbox' = inbox \cup {[from |-> w, kind |-> worker[w].result]}
    PROVE  Inv'
  <1> DEFINE x == [worker[w] EXCEPT !.at = l]
  <1>1. worker' = [worker EXCEPT ![w] = x]
    BY DEF Goes
  <1>2. /\ x \in WorkerRec /\ x.at = l /\ x.task = worker[w].task
        /\ x.handoff = worker[w].handoff /\ x.result = worker[w].result
    BY WorkerFacts DEF WorkerRec
  <1> HIDE DEF x
  <1>3. WorkerClaimReturned'
    <2>1. \A t \in DOMAIN task' :
              task'[t].status = "claimed" /\ task'[t].by = "worker" =>
                 \/ /\ t \in DOMAIN task /\ HeldBy(t, "worker")
                    /\ \/ t # worker[w].task \/ ~worker[w].handoff
                       \/ worker[w].at \notin {"hold", "close", "post", "release"}
                 \/ x.task = t /\ x.handoff /\ x.at \in {"hold", "close", "post", "release"}
      BY <1>2, WorkerFacts DEF NoHandoff, WorkerRec
    <2> QED
      BY <1>1, <2>1, ClaimsMove
  <1>4. WorkersInv'
    BY <1>1, <1>2, <1>3, WorkerFacts, WorkerMoves
  <1> QED
    BY <1>4, WorkStep

(* The worker takes the claim of the parent, and will close or release it. *)
LEMMA HandoffInv == ASSUME Inv, NEW w \in Worker, maybeHandoffClaim(w) PROVE Inv'
  <1>1. /\ worker[w].at = "start"
        /\ UNCHANGED <<manifest, verb, auto, parent, inbox, overtaken, stuck, budget>>
    BY DEF maybeHandoffClaim
  <1> DEFINE t == worker[w].task
  <1>2. t \in DOMAIN task /\ worker[w] \in WorkerRec
    BY <1>1, WorkerFacts
  <1>3. CASE ~worker[w].handoff
    <2>1. Goes(w, "close") /\ UNCHANGED task
      BY <1>3 DEF maybeHandoffClaim
    <2>2. Evolves /\ NoHandoff
      BY <2>1, SameTasks DEF Inv
    <2> QED
      BY <1>1, <2>1, <2>2, GoesInv
  <1>4. CASE worker[w].handoff /\ HeldBy(t, "self")
    <2> DEFINE x == [worker[w] EXCEPT !.at = "hold", !.epoch = task[t].epoch + 1]
    <2>1. /\ task' = Claimed(t, "worker", task[t].epoch + 1)
          /\ worker' = [worker EXCEPT ![w] = x] /\ ~IsClosed(t)
      BY <1>4 DEF maybeHandoffClaim, HandoffClaim, HeldBy, IsClosed
    <2>2. task[t].epoch + 1 \in Nat
      BY <1>2, TaskFacts DEF Inv
    <2>3. x \in WorkerRec /\ x.at = "hold" /\ x.task = t /\ x.handoff = worker[w].handoff
      BY <1>2, <2>2 DEF WorkerRec
    <2> HIDE DEF x, t
    <2>4. /\ Evolves /\ DOMAIN task' = DOMAIN task
          /\ \A i \in DOMAIN task : i # t => task'[i] = task[i]
      BY <1>2, <2>1, <2>2, ClaimEvolves DEF Inv
    <2>5. WorkerClaimReturned'
      <3>1. \A u \in DOMAIN task' :
                task'[u].status = "claimed" /\ task'[u].by = "worker" =>
                   \/ u \in DOMAIN task /\ HeldBy(u, "worker") /\ u # t
                   \/ x.task = u /\ x.handoff /\ x.at \in {"hold", "close", "post", "release"}
        BY <1>4, <2>3, <2>4 DEF HeldBy
      <3>2. \A u \in DOMAIN task' :
                task'[u].status = "claimed" /\ task'[u].by = "worker" =>
                   \/ u \in stuck'
                   \/ /\ u \in DOMAIN task /\ HeldBy(u, "worker")
                      /\ \/ u # worker[w].task \/ ~worker[w].handoff
                         \/ worker[w].at \notin {"hold", "close", "post", "release"}
                   \/ x.task = u /\ x.handoff /\ x.at \in {"hold", "close", "post", "release"}
        BY <3>1 DEF t
      <3>3. worker' = [worker EXCEPT ![w] = x] /\ stuck \subseteq stuck'
        BY <1>1, <2>1
      <3> QED
        BY <3>2, <3>3, ClaimsMove
    <2>6. WorkersInv'
      BY <1>1, <1>2, <2>1, <2>3, <2>4, <2>5, WorkerFacts, WorkerMoves DEF t
    <2> QED
      BY <1>1, <2>4, <2>6, WorkStep
  <1>5. CASE worker[w].handoff /\ ~HeldBy(t, "self")
    <2>1. worker' = [worker EXCEPT ![w] = NoWorker] /\ UNCHANGED task
      BY <1>5 DEF maybeHandoffClaim, HandoffClaim, WorkerEnds
    <2>2. Evolves /\ NoHandoff
      BY <2>1, SameTasks DEF Inv
    <2>3. WorkerClaimReturned'
      BY <1>1, <2>1, <2>2, ClaimsMove DEF NoHandoff
    <2>4. WorkersInv'
      BY <1>1, <2>1, <2>2, <2>3, WorkerFacts, EndedTypes, WorkerMoves
    <2> QED
      BY <1>1, <2>2, <2>4, WorkStep
  <1> QED
    BY <1>2, <1>3, <1>4, <1>5 DEF WorkerRec

(* The close: a worker that has to close posts only when it did.           *)
LEMMA WorkerCloseInv == ASSUME Inv, NEW w \in Worker, maybeWorkerClose(w) PROVE Inv'
  <1> DEFINE t == worker[w].task
  <1>1. /\ worker[w].at = "close"
        /\ UNCHANGED <<manifest, verb, auto, parent, inbox, overtaken, stuck>>
    BY DEF maybeWorkerClose
  <1>2. t \in DOMAIN task
    BY <1>1, WorkerFacts
  <1>3. CASE worker[w].handoff /\ worker[w].result = "success"
    <2>1. \/ task' = Closed(t) /\ Goes(w, "post") /\ UNCHANGED budget
          \/ UNCHANGED task /\ Goes(w, "release") /\ (Fault \/ UNCHANGED budget)
      BY <1>3 DEF maybeWorkerClose, CloseTask, CloseRefused, CloseFails
    <2>2. CASE task' = Closed(t) /\ Goes(w, "post") /\ UNCHANGED budget
      <3>1. Evolves /\ NoHandoff /\ task'[t].status = "closed"
        BY <1>2, <2>2, CloseEvolves DEF Inv
      <3> QED
        BY <1>1, <2>2, <3>1, GoesInv
    <2>3. CASE UNCHANGED task /\ Goes(w, "release") /\ (Fault \/ UNCHANGED budget)
      <3>1. Evolves /\ NoHandoff
        BY <2>3, SameTasks DEF Inv
      <3> QED
        BY <1>1, <2>3, <3>1, GoesInv
    <2> QED
      BY <2>1, <2>2, <2>3
  <1>4. CASE ~(worker[w].handoff /\ worker[w].result = "success")
    <2>1. Goes(w, "post") /\ UNCHANGED <<task, budget>>
      BY <1>4 DEF maybeWorkerClose
    <2>2. Evolves /\ NoHandoff
      BY <2>1, SameTasks DEF Inv
    <2> QED
      BY <1>1, <1>4, <2>1, <2>2, GoesInv
  <1> QED
    BY <1>3, <1>4

(* The message tells what the worker did.                                  *)
LEMMA PostInv == ASSUME Inv, NEW w \in Worker, PostResult(w) PROVE Inv'
  <1>1. /\ worker[w].at = "post" /\ Goes(w, "release") /\ (Fault \/ UNCHANGED budget)
        /\ \/ UNCHANGED inbox
           \/ inbox' = inbox \cup {[from |-> w, kind |-> worker[w].result]}
        /\ UNCHANGED <<task, manifest, verb, auto, parent, overtaken, stuck>>
    BY DEF PostResult, PostFails
  <1>2. Evolves /\ NoHandoff
    BY <1>1, SameTasks DEF Inv
  <1> QED
    BY <1>1, <1>2, GoesInv

(* A worker that ends has given its claim back, or is known to have failed *)
(* to.                                                                     *)
LEMMA GiveBackInv ==
    ASSUME Inv, NEW w \in Worker, worker[w].at # "idle", WorkerEnds(w),
           \/ ~worker[w].handoff /\ UNCHANGED <<task, stuck>>
           \/ Release(worker[w].task, "worker") /\ UNCHANGED stuck
           \/ NotGivenBack(worker[w].task),
           Fault \/ UNCHANGED budget,
           UNCHANGED <<manifest, verb, auto, parent, inbox, overtaken>>
    PROVE  Inv'
  <1> DEFINE t == worker[w].task
  <1>1. t \in DOMAIN task /\ stuck \subseteq DOMAIN task
    BY WorkerFacts
  <1>2. worker' = [worker EXCEPT ![w] = NoWorker]
    BY DEF WorkerEnds
  <1>3. \/ ~worker[w].handoff /\ UNCHANGED <<task, stuck>>
        \/ Release(t, "worker") /\ UNCHANGED stuck
        \/ stuck' = stuck \cup {t} /\ UNCHANGED task
    BY DEF NotGivenBack
  <1> HIDE DEF t
  <1>4. Evolves /\ NoHandoff
    BY <1>1, <1>3, SameTasks, ReleaseEvolves DEF Inv
  <1>5. stuck \subseteq stuck' /\ stuck' \subseteq DOMAIN task
    BY <1>1, <1>3
  <1>6. \/ ~worker[w].handoff \/ t \in stuck'
        \/ ~(task'[t].status = "claimed" /\ task'[t].by = "worker")
    BY <1>1, <1>3, ReleaseEvolves DEF Inv
  <1>7. WorkerClaimReturned'
    <2>1. \A u \in DOMAIN task' :
              task'[u].status = "claimed" /\ task'[u].by = "worker" =>
                 \/ u \in stuck'
                 \/ /\ u \in DOMAIN task /\ HeldBy(u, "worker")
                    /\ \/ u # worker[w].task \/ ~worker[w].handoff
                       \/ worker[w].at \notin {"hold", "close", "post", "release"}
      BY <1>4, <1>6 DEF NoHandoff, t
    <2> QED
      BY <1>2, <1>5, <2>1, ClaimsMove
  <1>8. WorkersInv'
    BY <1>2, <1>4, <1>5, <1>7, EndedTypes, WorkerMoves
  <1> QED
    BY <1>4, <1>8, WorkStep

(* The holds of a claim just taken over, or the way back.                  *)
LEMMA ClaimAllInv == ASSUME Inv, NEW w \in Worker, claimAll(w) PROVE Inv'
  <1>1. worker[w].at = "hold" /\ UNCHANGED <<manifest, verb, auto, parent, inbox, overtaken>>
    BY DEF claimAll
  <1>2. CASE Goes(w, "close") /\ UNCHANGED <<task, stuck, budget>>
    <2>1. Evolves /\ NoHandoff
      BY <1>2, SameTasks DEF Inv
    <2> QED
      BY <1>1, <1>2, <2>1, GoesInv
  <1>3. CASE Fault /\ undoTaskCAS(worker[w].task) /\ WorkerEnds(w)
    BY <1>1, <1>3, GiveBackInv DEF undoTaskCAS
  <1> QED
    BY <1>2, <1>3 DEF claimAll

(* The deferred release.                                                   *)
LEMMA ReleaseInv == ASSUME Inv, NEW w \in Worker, releaseDispatchClaim(w) PROVE Inv'
  BY GiveBackInv DEF releaseDispatchClaim

-----------------------------------------------------------------------------
(* The invariant and the theorems.                                         *)

(* A step that changes nothing.                                            *)
LEMMA StutterInv == ASSUME Inv, UNCHANGED vars PROVE Inv'
  <1>1. /\ UNCHANGED <<task, manifest, verb, auto, parent, inbox, worker, overtaken, stuck>>
        /\ UNCHANGED budget
    BY DEF vars
  <1>2. Evolves /\ NoHandoff
    BY <1>1, SameTasks DEF Inv
  <1>3. VerbsInv'
    BY <1>1, <1>2, VerbsStay DEF Inv
  <1> QED
    BY <1>1, <1>2, <1>3, CommandStep

(* The invariant holds at the start.                                       *)
LEMMA InitInv == Init => Inv
  <1> SUFFICES ASSUME Init PROVE Inv
    OBVIOUS
  <1>1. /\ task = <<>> /\ manifest = NoManifest /\ verb = [v \in Verb |-> NoVerb]
        /\ auto = NoAuto /\ parent = NoParent /\ inbox = {}
        /\ worker = [w \in Worker |-> NoWorker] /\ overtaken = {} /\ stuck = {}
        /\ budget = [ops |-> MaxOps, faults |-> MaxFaults]
    BY DEF Init
  <1>2. task \in Seq(TaskRec) /\ DOMAIN task = {}
    BY <1>1
  <1>3. TasksTyped
    BY <1>1, <1>2, BoundAssumption DEF TasksTyped
  <1>4. VerbsTyped /\ Guarded /\ Canceling
    BY <1>1, <1>2, NoVerbType DEF VerbsTyped, Guarded, Canceling, NoManifest
  <1>5. AutoInv
    BY <1>1, NoAutoType DEF AutoInv
  <1>6. WorkersTyped
    BY <1>1, EndedTypes DEF WorkersTyped
  <1>7. ChildWorks /\ PostsTrue /\ InboxTrue /\ ReportedClosed
    BY <1>1, EndedTypes DEF ChildWorks, PostsTrue, InboxTrue, ReportedClosed
  <1>8. WorkerClaimReturned
    BY <1>2 DEF WorkerClaimReturned
  <1> QED
    BY <1>3, <1>4, <1>5, <1>6, <1>7, <1>8 DEF Inv, VerbsInv, WorkersInv

(* Every step of the commands, the claims, the parent and the workers.     *)
LEMMA NextInv == ASSUME Inv, Next PROVE Inv'
  <1>1. CASE \E v \in Verb :
                \/ \E p \in Plan : StartDispatch(v, p)
                \/ \E p \in Plan : PlanEdited(v, p)
                \/ createTask(v) \/ WriteManifest(v) \/ StartCancel(v) \/ closeTask(v)
                \/ RemoveManifest(v) \/ StartAdvance(v) \/ Advance(v) \/ VerbDies(v)
    BY <1>1, DispatchInv, PlanEditedInv, CreateInv, WriteInv, ReadInv, CloseInv, RemoveInv, AdvanceInv,
       VerbDiesInv
  <1>2. CASE \E t \in DOMAIN task :
                TasksClaim(t) \/ \E h \in BOOLEAN : claimedDispatchSpec(t, h)
    BY <1>2, TasksClaimInv, SpecInv
  <1>3. CASE \/ Prime \/ AutoClaim \/ postAutoclaimNotice
             \/ \E m \in inbox : waitDispatchResult(m)
             \/ WaitTimesOut \/ KilledLate \/ handleDispatchResult \/ ParentDies
    BY <1>3, PrimeInv, AutoClaimInv, PostNoticeInv, WaitInv, TimesOutInv,
       KilledLateInv, HandleInv, ParentDiesInv
  <1>4. CASE \E w \in Worker :
                \/ \E r \in Result : SpawnWorker(w, r)
                \/ maybeHandoffClaim(w) \/ claimAll(w) \/ maybeWorkerClose(w)
                \/ PostResult(w) \/ releaseDispatchClaim(w)
    BY <1>4, SpawnInv, HandoffInv, ClaimAllInv, WorkerCloseInv, PostInv, ReleaseInv
  <1> QED
    BY <1>1, <1>2, <1>3, <1>4 DEF Next

(* The inductive invariant holds in every reachable state.                 *)
LEMMA Invariance == Spec => []Inv
  <1>1. Inv /\ [Next]_vars => Inv'
    BY NextInv, StutterInv
  <1> QED
    BY InitInv, <1>1, PTL DEF Spec

(* Type correctness; every task that a manifest, a command, a parent or a  *)
(* worker names was created (createTask, claimedDispatchSpec).             *)
THEOREM TypeCorrect == Spec => []TypeOK
  <1>1. Inv => TypeOK
    <2> SUFFICES ASSUME Inv PROVE TypeOK
      OBVIOUS
    <2>1. \A t \in DOMAIN task :
            /\ task[t].status \in {"open", "claimed", "closed"}
            /\ task[t].by \in {None, "self", "worker"} /\ task[t].epoch \in Nat
      <3>1. \A t \in DOMAIN task : task[t] \in TaskRec
        BY TaskFacts DEF Inv
      <3> QED
        BY <3>1 DEF TaskRec
    <2> QED
      BY <2>1 DEF Inv, VerbsInv, VerbsTyped, AutoInv, WorkersInv, WorkersTyped, TypeOK
  <1> QED
    BY Invariance, <1>1, PTL

(* A task claimed by the worker's agent has a worker that will close or    *)
(* release it, unless one was killed on it or its attempt to give it back  *)
(* failed (the release deferred in TasksDispatchWorkerCmd.Run,             *)
(* HandoffClaim).                                                          *)
THEOREM WorkersGiveBack == Spec => []WorkerClaimReturned
  <1>1. Inv => WorkerClaimReturned
    BY DEF Inv, WorkersInv
  <1> QED
    BY Invariance, <1>1, PTL

(* A handed-over task reported as closed is closed (handleDispatchSuccess, *)
(* maybeWorkerClose).                                                      *)
THEOREM ReportsAreTrue == Spec => []ReportedClosed
  <1>1. Inv => ReportedClosed
    BY DEF Inv, WorkersInv
  <1> QED
    BY Invariance, <1>1, PTL

(* What GuardKeepsOther says of one step.                                  *)
OtherKept ==
    \A v \in Verb :
        WriteManifest(v) /\ manifest # NoManifest /\ manifest'.plan # manifest.plan
           => v \in overtaken

(* No command replaces the manifest of another plan but one it appeared    *)
(* under (guardExistingDispatch, createTasksAndManifest).                  *)
THEOREM OtherPlansStay == Spec => GuardKeepsOther
  <1>1. Inv => OtherKept
    BY DEF Inv, VerbsInv, Guarded, OtherKept, WriteManifest
  <1>2. Inv /\ [Next]_vars => [OtherKept]_vars
    BY <1>1
  <1>3. Spec => [][OtherKept]_vars
    BY Invariance, <1>2, PTL DEF Spec
  <1> QED
    BY <1>3 DEF GuardKeepsOther, OtherKept

(* What CancelClosesAll says of one step.                                  *)
AllClosed ==
    \A v \in Verb :
        RemoveManifest(v) /\ v \notin overtaken
           => \A t \in manifest.tasks : task[t].status = "closed"

(* A manifest goes only when every task it names is closed (Cancel,        *)
(* runCancel).                                                             *)
THEOREM CancelLeavesNone == Spec => CancelClosesAll
  <1>1. Inv => AllClosed
    BY DEF Inv, VerbsInv, Canceling, AllClosed, RemoveManifest, IsClosed
  <1>2. Inv /\ [Next]_vars => [AllClosed]_vars
    BY <1>1
  <1>3. Spec => [][AllClosed]_vars
    BY Invariance, <1>2, PTL DEF Spec
  <1> QED
    BY <1>3 DEF CancelClosesAll, AllClosed

==============================================================================
