------------------------------ MODULE Dispatch ------------------------------
(***************************************************************************)
(* swarm dispatch: one task per slot of a plan and a manifest of them;     *)
(* --advance and --cancel work from the manifest.  tasks autoclaim and     *)
(* tasks claim give this workspace's agent a task; tasks dispatch parent   *)
(* has a worker process do it and waits for the result on the task's       *)
(* thread.  All of them are processes of one workspace.                    *)
(*                                                                         *)
(* A task is the status, claimant and epoch of its record; the Tx that     *)
(* changes it is one step (TaskLog has its parts).                         *)
(***************************************************************************)
EXTENDS Naturals, Sequences, FiniteSets, FiniteSetsExt

CONSTANTS Plan,       \* plans, by their hash
          Slots,      \* slots of a plan
          Verb,       \* processes of swarm dispatch
          Worker,     \* worker processes
          None,       \* no plan, no agent, no process
          MaxTasks,   \* bound: tasks created
          MaxOps,     \* bound: commands started, plans edited
          MaxFaults   \* bound: failures, timeouts, processes killed

ASSUME NoneAssumption == None \notin Plan \cup Worker \cup {"self", "worker"}
ASSUME BoundAssumption ==
    /\ Slots \in Nat \ {0} /\ MaxTasks \in Nat /\ MaxOps \in Nat /\ MaxFaults \in Nat

VARIABLES
    task,      \* the tasks created, by number, in order of creation
    manifest,  \* .bones/swarm/dispatch.json
    verb,      \* the running swarm dispatch commands
    auto,      \* the running tasks autoclaim
    parent,    \* the running tasks dispatch parent
    inbox,     \* results on the task's thread since it subscribed
    worker,    \* the worker processes
    overtaken, \* history: commands a new manifest appeared under, or another
               \* content of their plan
    stuck,     \* history: tasks a worker was killed on or failed to give back
    budget     \* what is left of the bounds

vars == <<task, manifest, verb, auto, parent, inbox, worker, overtaken, stuck, budget>>

Result == {"success", "fork", "fail"}

NoManifest == [plan |-> None, tasks |-> {}]

NoVerb == [at |-> "idle", plan |-> None, made |-> {}, left |-> {}]

NoAuto == [at |-> "idle", task |-> 0]

NoParent == [at |-> "idle", task |-> 0, handoff |-> FALSE, child |-> None, got |-> None]

NoWorker == [at |-> "idle", task |-> 0, handoff |-> FALSE, result |-> "fail", epoch |-> 0]

Init ==
    /\ task = <<>>
    /\ manifest = NoManifest
    /\ verb = [v \in Verb |-> NoVerb]
    /\ auto = NoAuto /\ parent = NoParent /\ inbox = {}
    /\ worker = [w \in Worker |-> NoWorker]
    /\ overtaken = {} /\ stuck = {}
    /\ budget = [ops |-> MaxOps, faults |-> MaxFaults]

-----------------------------------------------------------------------------
Begin == budget.ops > 0 /\ budget' = [budget EXCEPT !.ops = @ - 1]

Fault == budget.faults > 0 /\ budget' = [budget EXCEPT !.faults = @ - 1]

Run(v, r) == verb' = [verb EXCEPT ![v] = r]

Ends(v) == Run(v, NoVerb)

HeldBy(t, agent) == task[t].status = "claimed" /\ task[t].by = agent

Claimed(t, agent, epoch) ==
    [task EXCEPT ![t] = [status |-> "claimed", by |-> agent, epoch |-> epoch]]

Unclaimed(t) == [task EXCEPT ![t].status = "open", ![t].by = None]

Closed(t) == [task EXCEPT ![t].status = "closed", ![t].by = None]

-----------------------------------------------------------------------------
(* swarm dispatch PLAN.  Another plan's manifest refuses the command; one  *)
(* of the same plan does not, and new tasks are created again.             *)

(* Mutant: any manifest is taken for the plan's own.                       *)
NoGuard(p) == TRUE

guardExistingDispatch(p) == manifest.plan \in {None, p}

StartDispatch(v, p) ==
    /\ verb[v].at = "idle" /\ Begin
    /\ guardExistingDispatch(p)
    /\ Run(v, [NoVerb EXCEPT !.at = "create", !.plan = p])
    /\ overtaken' = overtaken \ {v}
    /\ UNCHANGED <<task, manifest, auto, parent, inbox, worker, stuck>>

(* The plan is hashed for the guard and again, when the tasks are there,   *)
(* for the manifest: it may have been edited.                              *)
PlanEdited(v, p) ==
    /\ verb[v].at = "create" /\ verb[v].plan # p /\ Begin
    /\ Run(v, [verb[v] EXCEPT !.plan = p])
    /\ overtaken' = overtaken \cup {v}
    /\ UNCHANGED <<task, manifest, auto, parent, inbox, worker, stuck>>

createTask(v) ==
    /\ verb[v].at = "create" /\ Cardinality(verb[v].made) < Slots
    /\ Len(task) < MaxTasks
    /\ task' = Append(task, [status |-> "open", by |-> None, epoch |-> 0])
    /\ Run(v, [verb[v] EXCEPT !.made = @ \cup {Len(task) + 1}])
    /\ UNCHANGED <<manifest, auto, parent, inbox, worker, overtaken, stuck, budget>>

(* One wave holds every slot.  The file is replaced by a rename.           *)
WriteManifest(v) ==
    /\ verb[v].at = "create" /\ Cardinality(verb[v].made) = Slots
    /\ manifest' = [plan |-> verb[v].plan, tasks |-> verb[v].made]
    /\ Ends(v)
    /\ overtaken' = {u \in Verb \ {v} : verb[u].at # "idle"} \cup (overtaken \ {v})
    /\ UNCHANGED <<task, auto, parent, inbox, worker, stuck, budget>>

-----------------------------------------------------------------------------
(* swarm dispatch --cancel and --advance read the manifest once.           *)

StartCancel(v) ==
    /\ verb[v].at = "idle" /\ Begin
    /\ manifest # NoManifest
    /\ Run(v, [NoVerb EXCEPT !.at = "close", !.left = manifest.tasks])
    /\ overtaken' = overtaken \ {v}
    /\ UNCHANGED <<task, manifest, auto, parent, inbox, worker, stuck>>

(* Mutant: a task that cannot be closed is passed over.                    *)
SkipFailed(v) == Run(v, [verb[v] EXCEPT !.left = @ \ {Min(@)}])

(* The first error ends the command.                                       *)
CancelFails(v) == Ends(v)

(* The claimant is not asked.  A closed task may not be closed again.      *)
closeTask(v) ==
    LET t == Min(verb[v].left)
    IN /\ verb[v].at = "close" /\ verb[v].left # {}
       /\ \/ /\ task[t].status # "closed"
             /\ task' = Closed(t)
             /\ Run(v, [verb[v] EXCEPT !.left = @ \ {t}])
             /\ UNCHANGED budget
          \/ task[t].status = "closed" /\ CancelFails(v) /\ UNCHANGED <<task, budget>>
          \/ Fault /\ CancelFails(v) /\ UNCHANGED task
       /\ UNCHANGED <<manifest, auto, parent, inbox, worker, overtaken, stuck>>

RemoveManifest(v) ==
    /\ verb[v].at = "close" /\ verb[v].left = {}
    /\ manifest' = NoManifest
    /\ Ends(v)
    /\ UNCHANGED <<task, auto, parent, inbox, worker, overtaken, stuck, budget>>

StartAdvance(v) ==
    /\ verb[v].at = "idle" /\ Begin
    /\ manifest # NoManifest
    /\ Run(v, [NoVerb EXCEPT !.at = "check", !.left = manifest.tasks])
    /\ overtaken' = overtaken \ {v}
    /\ UNCHANGED <<task, manifest, auto, parent, inbox, worker, stuck>>

(* An open task refuses the promotion.  With a single wave there is no     *)
(* next one: all closed is reported, and the manifest stays as it is.      *)
Advance(v) ==
    /\ verb[v].at = "check"
    /\ \/ /\ verb[v].left # {} /\ task[Min(verb[v].left)].status = "closed"
          /\ Run(v, [verb[v] EXCEPT !.left = @ \ {Min(@)}])
       \/ /\ verb[v].left # {} /\ task[Min(verb[v].left)].status # "closed"
          /\ Ends(v)
       \/ verb[v].left = {} /\ Ends(v)
    /\ UNCHANGED <<task, manifest, auto, parent, inbox, worker, overtaken, stuck, budget>>

VerbDies(v) ==
    /\ verb[v].at # "idle" /\ Fault
    /\ Ends(v)
    /\ UNCHANGED <<task, manifest, auto, parent, inbox, worker, overtaken, stuck>>

-----------------------------------------------------------------------------
(* tasks claim leaves the epoch alone; tasks autoclaim claims through      *)
(* coord, which raises it.                                                 *)

TasksClaim(t) ==
    /\ Begin
    /\ task[t].status = "open"
    /\ task' = Claimed(t, "self", task[t].epoch)
    /\ UNCHANGED <<manifest, verb, auto, parent, inbox, worker, overtaken, stuck>>

(* The tasks of a plan have no edges: what is open is ready, oldest first. *)
FirstReady(t) ==
    task[t].status = "open" /\ \A u \in 1 .. t - 1 : task[u].status # "open"

(* The oldest open task, unless the agent has one already.                 *)
Prime ==
    /\ auto.at = "idle" /\ Begin
    /\ \A t \in DOMAIN task : ~HeldBy(t, "self")
    /\ \E t \in DOMAIN task : FirstReady(t) /\ auto' = [at |-> "claim", task |-> t]
    /\ UNCHANGED <<task, manifest, verb, parent, inbox, worker, overtaken, stuck>>

(* A task taken since then is a lost race.                                 *)
AutoClaim ==
    /\ auto.at = "claim"
    /\ IF task[auto.task].status = "open"
       THEN /\ task' = Claimed(auto.task, "self", task[auto.task].epoch + 1)
            /\ auto' = [auto EXCEPT !.at = "post"]
       ELSE auto' = NoAuto /\ UNCHANGED task
    /\ UNCHANGED <<manifest, verb, parent, inbox, worker, overtaken, stuck, budget>>

(* The release asks for the agent, not for the epoch.                      *)
Release(t, agent) == IF HeldBy(t, agent) THEN task' = Unclaimed(t) ELSE UNCHANGED task

postAutoclaimNotice ==
    /\ auto.at = "post"
    /\ \/ UNCHANGED <<task, budget>>
       \/ Fault /\ Release(auto.task, "self")
       \/ Fault /\ UNCHANGED task
    /\ auto' = NoAuto
    /\ UNCHANGED <<manifest, verb, parent, inbox, worker, overtaken, stuck>>

-----------------------------------------------------------------------------
(* tasks dispatch parent.                                                  *)

claimedDispatchSpec(t, h) ==
    /\ parent.at = "idle" /\ Begin
    /\ HeldBy(t, "self")
    /\ parent' = [NoParent EXCEPT !.at = "spawn", !.task = t, !.handoff = h]
    /\ inbox' = {}
    /\ UNCHANGED <<task, manifest, verb, auto, worker, overtaken, stuck>>

SpawnWorker(w, r) ==
    /\ parent.at = "spawn" /\ worker[w].at = "idle"
    /\ worker' = [worker EXCEPT ![w] = [at |-> "start", task |-> parent.task, result |-> r,
                                        handoff |-> parent.handoff, epoch |-> 0]]
    /\ parent' = [parent EXCEPT !.at = "wait", !.child = w]
    /\ inbox' = {m \in inbox : m.from # w}
    /\ UNCHANGED <<task, manifest, verb, auto, overtaken, stuck, budget>>

(* Any result on the thread is taken for the answer.                       *)
waitDispatchResult(m) ==
    /\ parent.at = "wait" /\ m \in inbox
    /\ parent' = [parent EXCEPT !.at = "handle", !.got = m]
    /\ UNCHANGED <<task, manifest, verb, auto, inbox, worker, overtaken, stuck, budget>>

Kill(w) ==
    /\ stuck' = IF worker[w].at \in {"idle", "start"} THEN stuck ELSE stuck \cup {worker[w].task}
    /\ worker' = [worker EXCEPT ![w] = NoWorker]

(* Both timers run for five seconds: the parent may be gone before the one *)
(* that kills the worker fires.                                            *)
WaitTimesOut ==
    /\ parent.at = "wait" /\ Fault
    /\ parent' = NoParent /\ inbox' = {}
    /\ Kill(parent.child) \/ UNCHANGED <<worker, stuck>>
    /\ UNCHANGED <<task, manifest, verb, auto, overtaken>>

(* The timer that kills the worker runs on while the parent has its answer *)
(* to deal with.                                                           *)
KilledLate ==
    /\ parent.at = "handle" /\ worker[parent.child].at # "idle" /\ Fault
    /\ Kill(parent.child)
    /\ UNCHANGED <<task, manifest, verb, auto, parent, inbox, overtaken>>

(* A process that has not claimed the task itself expects epoch 0.         *)
CloseTask(t, agent, epoch) == HeldBy(t, agent) /\ task[t].epoch = epoch /\ task' = Closed(t)

CloseRefused(t, agent, epoch) == ~(HeldBy(t, agent) /\ task[t].epoch = epoch) /\ UNCHANGED task

handleDispatchResult ==
    /\ parent.at = "handle"
    /\ \/ /\ parent.got.kind = "success" /\ ~parent.handoff
          /\ CloseTask(parent.task, "self", 0) \/ CloseRefused(parent.task, "self", 0)
       \/ /\ parent.got.kind # "success" \/ parent.handoff
          /\ UNCHANGED task
    /\ parent' = NoParent /\ inbox' = {}
    /\ UNCHANGED <<manifest, verb, auto, worker, overtaken, stuck, budget>>

ParentDies ==
    /\ parent.at \in {"spawn", "handle"} /\ Fault
    /\ parent' = NoParent /\ inbox' = {}
    /\ UNCHANGED <<task, manifest, verb, auto, worker, overtaken, stuck>>

-----------------------------------------------------------------------------
(* tasks dispatch worker.  Both workers of a task have the same agent id.  *)

Goes(w, at) == worker' = [worker EXCEPT ![w].at = at]

WorkerEnds(w) == worker' = [worker EXCEPT ![w] = NoWorker]

(* The record first, then the holds of its files.                          *)
HandoffClaim(w) ==
    LET t == worker[w].task
    IN IF HeldBy(t, "self")
       THEN /\ task' = Claimed(t, "worker", task[t].epoch + 1)
            /\ worker' = [worker EXCEPT ![w].at = "hold", ![w].epoch = task[t].epoch + 1]
       ELSE WorkerEnds(w) /\ UNCHANGED task

maybeHandoffClaim(w) ==
    /\ worker[w].at = "start"
    /\ IF worker[w].handoff THEN HandoffClaim(w) ELSE Goes(w, "close") /\ UNCHANGED task
    /\ UNCHANGED <<manifest, verb, auto, parent, inbox, overtaken, stuck, budget>>

NotGivenBack(t) == HeldBy(t, "worker") /\ stuck' = stuck \cup {t} /\ UNCHANGED task

(* A file held by another or an error gives the claim back, as far as the  *)
(* caller's context still allows.                                          *)
undoTaskCAS(t) == NotGivenBack(t) \/ (Release(t, "worker") /\ UNCHANGED stuck)

claimAll(w) ==
    /\ worker[w].at = "hold"
    /\ \/ Goes(w, "close") /\ UNCHANGED <<task, stuck, budget>>
       \/ Fault /\ undoTaskCAS(worker[w].task) /\ WorkerEnds(w)
    /\ UNCHANGED <<manifest, verb, auto, parent, inbox, overtaken>>

(* Mutant: an error of the close is dropped, and the result posted.        *)
PostsAnyway(w) == Goes(w, "post")

(* The error returns through the deferred release.                         *)
CloseFails(w) == Goes(w, "release")

maybeWorkerClose(w) ==
    LET t == worker[w].task
    IN /\ worker[w].at = "close"
       /\ IF worker[w].handoff /\ worker[w].result = "success"
          THEN \/ CloseTask(t, "worker", worker[w].epoch) /\ Goes(w, "post") /\ UNCHANGED budget
               \/ CloseRefused(t, "worker", worker[w].epoch) /\ CloseFails(w) /\ UNCHANGED budget
               \/ Fault /\ CloseFails(w) /\ UNCHANGED task
          ELSE Goes(w, "post") /\ UNCHANGED <<task, budget>>
       /\ UNCHANGED <<manifest, verb, auto, parent, inbox, overtaken, stuck>>

(* Mutant: the worker ends, and the release was never deferred.            *)
PostFailsBare(w) == WorkerEnds(w)

PostFails(w) == Goes(w, "release")

PostResult(w) ==
    /\ worker[w].at = "post"
    /\ \/ /\ inbox' = IF parent.at \in {"spawn", "wait"} /\ parent.task = worker[w].task
                      THEN inbox \cup {[from |-> w, kind |-> worker[w].result]} ELSE inbox
          /\ Goes(w, "release") /\ UNCHANGED budget
       \/ Fault /\ PostFails(w) /\ UNCHANGED inbox
    /\ UNCHANGED <<task, manifest, verb, auto, parent, overtaken, stuck>>

(* The error of the release is dropped.                                    *)
releaseDispatchClaim(w) ==
    LET t == worker[w].task
    IN /\ worker[w].at = "release"
       /\ \/ ~worker[w].handoff /\ UNCHANGED <<task, stuck, budget>>
          \/ worker[w].handoff /\ Release(t, "worker") /\ UNCHANGED <<stuck, budget>>
          \/ worker[w].handoff /\ Fault /\ NotGivenBack(t)
       /\ WorkerEnds(w)
       /\ UNCHANGED <<manifest, verb, auto, parent, inbox, overtaken>>

-----------------------------------------------------------------------------
Next ==
    \/ \E v \in Verb :
        \/ \E p \in Plan : StartDispatch(v, p) \/ PlanEdited(v, p)
        \/ createTask(v)
        \/ WriteManifest(v)
        \/ StartCancel(v)
        \/ closeTask(v)
        \/ RemoveManifest(v)
        \/ StartAdvance(v)
        \/ Advance(v)
        \/ VerbDies(v)
    \/ \E t \in DOMAIN task :
        \/ TasksClaim(t)
        \/ \E h \in BOOLEAN : claimedDispatchSpec(t, h)
    \/ Prime
    \/ AutoClaim
    \/ postAutoclaimNotice
    \/ \E m \in inbox : waitDispatchResult(m)
    \/ WaitTimesOut
    \/ KilledLate
    \/ handleDispatchResult
    \/ ParentDies
    \/ \E w \in Worker :
        \/ \E r \in Result : SpawnWorker(w, r)
        \/ maybeHandoffClaim(w)
        \/ claimAll(w)
        \/ maybeWorkerClose(w)
        \/ PostResult(w)
        \/ releaseDispatchClaim(w)

Spec == Init /\ [][Next]_vars

-----------------------------------------------------------------------------
(* The types; every task that a manifest or a process names exists.        *)
TypeOK ==
    /\ \A t \in DOMAIN task :
        /\ task[t].status \in {"open", "claimed", "closed"}
        /\ task[t].by \in {None, "self", "worker"} /\ task[t].epoch \in Nat
    /\ manifest.plan \in Plan \cup {None} /\ manifest.tasks \subseteq DOMAIN task
    /\ \A v \in Verb : verb[v].made \cup verb[v].left \subseteq DOMAIN task
    /\ auto.task \in {0} \cup DOMAIN task /\ parent.task \in {0} \cup DOMAIN task
    /\ \A w \in Worker : worker[w].task \in {0} \cup DOMAIN task
    /\ overtaken \subseteq Verb /\ stuck \subseteq DOMAIN task

(* "Preventing accidental cross-plan clobbers": a manifest of another plan *)
(* is replaced only by a command it appeared under, after that command had *)
(* looked, or whose plan was edited since; commands run one after the      *)
(* other never lose a dispatch, even when some of them die                 *)
(* (guardExistingDispatch, createTasksAndManifest).                        *)
GuardKeepsOther ==
    [][\A v \in Verb :
          WriteManifest(v) /\ manifest # NoManifest /\ manifest'.plan # manifest.plan
             => v \in overtaken]_vars

(* The manifest goes only when every task it names is closed: no task of a *)
(* canceled dispatch stays open behind a manifest that is gone, whatever   *)
(* fails on the way.  A manifest written after the cancel had read the     *)
(* earlier one is the exception (Cancel, runCancel).                       *)
CancelClosesAll ==
    [][\A v \in Verb :
          RemoveManifest(v) /\ v \notin overtaken
             => \A t \in manifest.tasks : task[t].status = "closed"]_vars

(* A task claimed by the worker's agent has a worker that will close or    *)
(* release it, unless one was killed on the task or its own attempt to     *)
(* give it back failed: every error path of the worker makes that attempt, *)
(* and no other step takes a claim out of a worker's hands (the release    *)
(* deferred in TasksDispatchWorkerCmd.Run, HandoffClaim).                  *)
WorkerClaimReturned ==
    \A t \in DOMAIN task :
        HeldBy(t, "worker") =>
            \/ t \in stuck
            \/ \E w \in Worker : /\ worker[w].task = t /\ worker[w].handoff
                                 /\ worker[w].at \in {"hold", "close", "post", "release"}

(* "worker-closed" is printed for a closed task: when a parent that handed *)
(* its claim over has a success of its own worker, the task is closed, and *)
(* not by the parent (handleDispatchSuccess, maybeWorkerClose).            *)
ReportedClosed ==
    parent.at = "handle" /\ parent.handoff /\ parent.got.kind = "success"
        /\ parent.got.from = parent.child
        => task[parent.task].status = "closed"

-----------------------------------------------------------------------------
(* What the repository says and the model refutes.                         *)

(* Cancel "removes the manifest and closes any tasks the manifest still    *)
(* references": a cancel that nothing disturbs leaves no manifest.         *)
CancelClears ==
    [][\A v \in Verb : closeTask(v) /\ verb'[v].at = "idle" => budget' # budget]_vars

(* guardExistingDispatch is there for "preventing accidental cross-plan    *)
(* clobbers": a manifest is not replaced by another plan's.                *)
NoClobber ==
    [][\A v \in Verb :
          WriteManifest(v) /\ manifest # NoManifest => manifest'.plan = manifest.plan]_vars

(* The parent closes "the claimed task accordingly": a success of its own  *)
(* worker closes a task that the parent's agent still has.                 *)
SuccessCloses ==
    [][handleDispatchResult /\ parent.got.kind = "success" /\ ~parent.handoff
          /\ HeldBy(parent.task, "self")
          => task'[parent.task].status = "closed"]_vars

=============================================================================
