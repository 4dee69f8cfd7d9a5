# A TLA+ model of bones

bones is a coordination layer for coding agents that share one workspace: a hub
process runs an embedded NATS server and a Fossil repository, leaf processes
claim tasks, hold files and commit, and every shared fact lives in JetStream
KV buckets and streams. This directory models the protocols those processes run
over the buckets, checks them with TLC on small instances, and proves the main
results with TLAPS for every instance.

## 1. The system

| Part | State | Operations | Hard because |
|---|---|---|---|
| Task store (`internal/tasks`) | KV record per task with `LastEventSeq`; append-only event stream | `Manager.Tx`: Create, Claim, Unclaim, Update, Link, Close; `Recover`; compaction and purge | publishes before it writes; crashes and refusals leave events the record does not show; replay runs over them later |
| Claim lifecycle (`internal/coord`) | task record, holds, presence, per-process closures and `activeEpochs` | Claim, Reclaim, HandoffClaim, release closure, CloseTask, Commit's gates | one call is many substrate steps, each visible to peers; rollback of a half-done claim |
| File holds (`internal/holds`) | KV entry per file with a deadline | Announce (bounded CAS loop), Release (read, then delete) | leases run out between two round trips of a call |
| Presence (`internal/presence`) | KV entry per agent with TTL | heartbeat, Close, Who | a dead agent is known only by the absence of its entry |
| Swarm sessions (`internal/swarm`, `internal/slotgc`, `cli/swarm_*`) | session record per slot in a bucket with TTL, worktree, pid file | join, join --force, join --auto, commit, close, reap, cleanup, TTL watcher, slot prune | nothing but the record lives between two verbs; all verbs of a slot share one agent; takeover of stale sessions races renewal and close |
| Hub lifecycle (`internal/hub`, `internal/registry`, `internal/workspace`) | `hub.pid`, workspace lock, registry entry, repository, ports | Start (foreground, detached), Stop, down, up, prune, reap | checks and acts on files another starter may be changing; any process may be killed between two of them |
| Trunk (`coord.Leaf`, Fossil, `swarm fan-in`) | repository of the hub and of each slot, worktrees | clone, pull, commit, push, merge | two leaves with the same tip fork it; a failed push arrives later |
| Dispatch (`internal/dispatch`, `tasks autoclaim`, `tasks dispatch`) | manifest, tasks, a worker process and its thread | dispatch, advance, cancel, autoclaim, parent, worker | read-then-replace of one file; timeout against a late answer |
| Setup (`cli/up.go`, `down.go`, `doctor.go`, `skills.go`, `internal/githook`) | skill files, `settings.json`, manifest, stamp, pre-commit hook | up, down, doctor | files shared with the operator; killed between two writes; binaries change |
| Apply (`cli/apply.go`) | git tree and index, `last-applied` marker | trunk mode, slot mode | writes many files after one check, into a tree somebody edits |
| Readiness (`tasks/ready.go`, `coord/ready.go`) | edges, defer times | Ready, Blocked | pure queries over one snapshot |
| Status, logs, telemetry, schemas, templates | | | output; nothing decides on them |

Interactions. Every CLI verb and every leaf is its own process and talks to the
hub's NATS server. A leaf's Coord calls the task store (`Tx` with a mutator),
the holds manager and the presence manager. The hub runs `tasks.Recover` after
NATS is bound and before its registry entry makes it discoverable; processes
that were already connected keep going. The swarm layer opens a leaf per verb
under one slot identity, so several processes can act as the same agent; each
verb claims the slot's task, acts and gives the claim back. A verb that finds no
healthy hub starts one (`workspace.Join`), and a hub start prunes the slots of dead
processes and starts the TTL watcher. `bones apply` takes what the swarm committed
to the hub's trunk into the operator's git tree.

What makes each part correct: the record must be explained by the log and a
recovery must bring it there; closed is terminal; claims are fenced by epochs;
a lease granted is kept; a failed or released claim leaves nothing behind; two
agents are never past the hold-gate on one file unless one has lost its hold;
nobody waits for anybody; the hub comes up whatever the log holds; a session is
never overwritten and an abandoned one is collected; racing starts make one hub,
and a crash never blocks the next start; trunk forks only by a race and fan-in
loses nothing; up converges, down removes what up wrote and neither touches what
is the operator's; apply overwrites no uncommitted edit; cancel leaves no open task
behind; a worker gives its claim back.

## 2. Modules

| Module | Models | |
|---|---|---|
| `TaskRecord` | one record: validation, mutators, per-event replay | operators only |
| `TaskLog` | log + KV + `Manager.Tx` + `Recover` + hub restarts | state machine |
| `TaskLog_proofs` | theorems about `TaskLog` | |
| `HoldSpec` | what `internal/holds` promises: a lease per file | abstract |
| `Holds` | Announce and Release at bucket round trips, TTL, clock | refines `HoldSpec` |
| `Holds_proofs` | theorems about `Holds` | |
| `Coord` | claim lifecycle over records, holds and presence | composes `TaskRecord`'s mutators with the stores |
| `Coord_proofs` | theorems about `Coord` | |
| `SwarmLease` | sessions, the verbs of a slot, TTL watcher, slot prune | composes `TaskRecord`'s mutators with the sessions |
| `SwarmLease_proofs` | theorems about `SwarmLease` | |
| `HubLifecycle` | starting and stopping the hub of one workspace | state machine |
| `HubLifecycle_proofs` | theorems about `HubLifecycle` | |
| `Trunk` | the hub's and the slots' repositories, fan-in | state machine |
| `Dispatch` | dispatch manifest, autoclaim, parent and worker | state machine |
| `Dispatch_proofs` | theorems about `Dispatch` | |
| `Scaffold` | up, down and doctor over the operator's files | state machine |
| `Scaffold_proofs` | theorems about `Scaffold` | |
| `Apply` | apply into the operator's git tree | state machine |
| `Repos_proofs` | theorems about `Trunk` and `Apply` | |
| `MC...` | instances for TLC: functions over model values, symmetry | |

**TaskRecord.** `legalTransition`, `checkInvariant11`, `eqNonCompaction` and
`validateTransition` are the functions of `tasks.go`. For each caller of `Tx`
there is the condition under which its mutator returns no error (`claimMutatorOK`
and so on, gathered in `Accepts`) and the record it returns (`Mutate`); `Stamped`
is the wrapper of `tx.go` that adds `LastEventSeq`. `apply...Event` are the
projections of `recovery.go`. Titles, files, context and timestamps are left
out; `closedAt` is the closing event's sequence, as distinct per transaction as
the clock reading in the code; edges have one type.

**TaskLog.** A process is idle or in one `Tx`, at `publish`, `read` or `write`. `Begin...` is the
code in front of the `Tx` (pre-reads and their early returns), `Publish` appends the event,
`ReadOK`/`ReadRefused` are `updateAttempt`'s Get, mutate and validate, `Write`/`WriteConflict` its
conditional put and the retry until `MaxRetries`. `Write` may lose its acknowledgment, any call may
`Abort`, a process may `Crash`. A publish whose acknowledgment is lost is `Publish` and then
`Abort`. The hub is `serving`, `down` or `recovering`; recovery snapshots the records
(`StartRecover`), then takes the events one at a time: skipped by the `LastEventSeq` guard, created,
applied, or failing the drain (`ReplayFail`), after which the hub serves all the same;
`RecoverSkipped` is the failed dial and the five-second limit. A drain ends at the first `Fetch`
that stays empty for 250 ms, so `RecoverDone` may come before the end of the log and still report
success. `wins`, `refused` and `recov.failedAt` are history variables. Coarser than the code: the
CAS of one replayed event and its read-back are one step, and so are the compaction's list and stamp
of one task.

**HoldSpec and Holds.** The abstract lease has `Take`, `Leave` and `Drop` (or `Stay`),
`Expire`.
`Holds` splits Announce into read, decide and conditional write with retries, and
Release into a read and a delete that names no revision. `Purge` is the bucket's
TTL. The lease's `leaving`, the releases under way, is mapped to the processes whose
Release has read its own live hold and not yet deleted. The strongest `Drop` the code
meets is that a release *begun while its agent held the file* empties it, which is
what the read-then-delete leaves of "only the owner". Clocks of different hosts are
taken to agree, as `hold.go` does.

**Coord.** A call is a sequence of substrate steps, each of which may fail while the process lives,
because the caller's ctx is cancelled or NATS does not answer (`AnnounceFails`, `ReleaseOldFails`,
`ReleaseFails`, `UnclaimFails`, gathered in `Fault`); rollback, undo and closure go on without what
the failed step should have done, as the code drops those errors. A failed Announce may have been
applied all the same. One task CAS, one Announce, one Release are single steps (the other two
modules have their insides). `Claim`: task CAS, then `Announce` per file in record order, on refusal
`Rollback` per file and `undoTaskCAS`. `PrepareReclaim` reads the record and presence, `ReclaimCAS`
runs the mutator, which looks at neither again, then `ReleaseOldHold` per file and the Announces.
`Who` lists the agents of the caller's project only (`ProjectOf`), as `presence.Who` filters by its
prefix. `Release`/`Close` un-claim first and then drop holds in record order, as `releaseClosure`
does. `checkHolds` looks at one file per step (a `WhoHas` round trip each), then come `checkEpoch`
and `CommitLands`, the checkin. Presence is `present`, with `Heartbeat`, `PresenceLapses` and both
kinds of `Exit`. History: `exposed` are processes that lost a hold which their running commit had
found, `stray` files whose hold a failed call left behind, `stuck` tasks whose un-claim failed. A
process keeps one closure per task.

**SwarmLease.** `sess` is the bucket, `rev` the revision of each key (a delete leaves
a marker, so it moves on; the bucket's TTL, `Evict`, does not move it). A process is one
run of a verb; `pc` names the round trip it is about to make and `call` its locals.
`join` is `clearExistingRecord`, its delete, `openLeafAndClaim`, the Create
(`putSession`), the pid file, the un-claim. `commit` and `close` start at `Resume`, claim
again under the slot's agent and go through `CommitLands` and the renewal, or
`checkArtifactPrecondition`, `closeTask`, the pid file, the delete by revision with its
re-read, and for a success the worktree. `reap` is a snapshot and a close per slot; `tasks
close` looks the slot up first and falls back to the legacy close; `cleanup` and the TTL
watcher delete by key. Claims, un-claims and closes are single steps with the mutators of
`TaskRecord`; each may fail, the un-claim too (`ReleaseFails`: its five seconds run out, or its CAS
loop ends), after which join, commit and close go on without it and the claim stays. Time is
`stale`, past every age threshold. History: `lost` are tasks whose claim a killed verb or a failed
claim, close or release left, `landed` and `unproven` sessions
with and without a commit, `made` numbers the sessions. The watcher's delete by key
is one step that may also lose to a verb in flight on the slot.

**HubLifecycle.** A process id is used once. `StartLabel` are the steps of `Start` in the process of
the verb: the look at `hub.pid`, the lock's four steps, the ports, the fork, the waits for TCP, pid
and registry, the release. `BootLabel` are those of a hub in its own process. `stop`, `down`, `up`,
`hub reap` and registry listings take no lock. `registry.Register` in `up` is a read, for a dead
entry a removal, and a write (`RegisterRead`, `RegisterPrune`, `RegisterWrite`), as every registry
read that finds a dead entry is a read and a removal (`Prune`); a hub's own write of its entry may
fail, and the hub serves (`RegistryWriteFails`). `unlisted` are the hubs whose entry was not written
or was overwritten by such a reader. A killed process drops its flock and ports and leaves its
files; a child its starter never waited for is a zombie that signal 0 still finds. `meddled` records
the overlaps that neither the lock nor `hub.pid` guards (a stop, down or reap within a start; a
foreground start within another start; the death of a detaching starter while its child boots). The
three properties are about states without one, and the run does not go past one; `HubRace.cfg` is
what one of them does.

**Trunk.** A checkin is its number in `log`; a repository is a set of checkins; content is the set
of edits a file holds, so a merge can be seen to lose one. A commit is holds, pull, checkin (parent:
the slot's tip of trunk, on trunk or on a synthetic slot's own branch), push. Failed pulls and
pushes, `--no-autosync`, and a slot that joins again over its old clone are in. A fan-in lists the
leaves and opens its checkout at the most recent one (`openLeavesOnTrunk`), merges the others one at
a time (`mergeLeaf`, the loop of `SwarmFanInCmd.mergeLeaves`), commits (`mergeLeaves`), and may fail
in between. Fossil's own part (tip of a branch, leaves, three-way merge, the refusal to fork) is
external. `raced` records that two commits to trunk overlapped, that is, one was made without the
other in its repository; `fanned` that a fan-in had listed only leaves of trunk and nothing came
since.

**Dispatch.** Tasks are status, claimant and epoch. Two dispatch commands read, create,
close and replace the manifest one round trip at a time; `autoclaim` picks, claims and
posts; the parent subscribes, spawns a worker and waits; a worker may take the claim over,
closes, posts and releases. Taking the claim over is the record first and the holds of its files
after it (`claimAll`), which may be refused and undone; the undo and the last release may fail,
and their errors are dropped (`NotGivenBack`). The timer that kills the worker also fires while the
parent deals with its answer (`KilledLate`), and the plan may be edited between its two hashes
(`PlanEdited`). The plan parser makes one wave of all slots, so `Advance` never
finds a next one. `overtaken` are commands under which a manifest appeared after they had
looked, or whose plan was edited; `stuck` tasks a worker was killed on or failed to give back.

**Scaffold.** A file's bytes are the old or the new bundle's, or the operator's. Every verb is a
sequence of single file operations, one skill file at a time: reading or hashing a file and writing
or removing it are two (`skills`/`skillwrite`, `settings`/`merge`, `unlink`, `trim`, the hook's
look, rename and write), the operator may write it in between, and the verb may be killed between
any two. Adding the line to `.gitignore` may fail, which is a warning. `raced` is set when the
operator writes the file of the step whose read is done. `doubt` is the oldest binary whose files
may differ from the manifest after an interrupted verb, `blind` that the manifest on disk is not by
the up that wrote the files; `DownRemovesAll` excepts an upgrade over either, which
`ScaffoldUpgrade.cfg` shows to be needed. `meddled` is an edit by the operator during the verb or
after it.

**Apply.** The working tree, HEAD and the index by path; trunk may move to any tree at any time, and
the operator writes, deletes, renames, stages and commits files at any time. What git status prints
is not what is dirty: names in `Quoted` come in quotes and are not unquoted, and of a rename only
the new name is read (`Renamed`: git pairs additions with removals as it finds them alike, any
pairing here), so `ap.unseen` are paths no check of this apply can see. Trunk mode checks the tip
out and reads its name afterwards; then the dirty check, the plan, the writes one by one (deletions
last), the staging, the marker. A revision written by libfossil lists no files (`manifestAtRev`), as
`fossil ls` does. `late` are edits made after the check of the running apply, `ap.moved` that trunk
moved between the checkout and the question for its revision. An edit of a file that trunk has
dropped is not looked at by the check and is excepted in `ApplyKeepsTracked`; so are files git does
not track.

`PROJECT.json` maps every definition to its lines.

## 3. Runs

| Run | Instance | Shows |
|---|---|---|
| `task_claims` | 2 processes, 2 agents, 1 task, 5 events, 1 restart, 2 attempts per CAS | the coord verbs: stamps, fencing, closed is final |
| `task_verbs` | the same with 3 events, under `FairSpec` | the operator's verbs, which bypass the epoch: recovery catches up, the hub comes up |
| `holds_lease` | 3 processes of 2 agents, 1 file, clock to 3, 3 writes | refinement of the lease, leases kept, renewals never shorten |
| `coord_claims` | 2 agents, 2 tasks listing 2 files in opposite orders, 1 mishap, 1 exit | no leak, no waiting, exclusive commits |
| `swarm_verbs` | 1 slot, 2 tasks, 2 processes, 3 verbs of any kind, 1 kill, 1 fault | claims fenced and returned, sessions never replaced |
| `swarm_live` | 2 slots on 2 hosts, 2 verbs, 1 kill, 1 fault, under `FairSpec` | verbs end, abandoned sessions are collected |
| `hub` | 5 process ids, every verb, 2 faults | one hub, discoverable unless its entry was lost, a lone start succeeds |
| `scaffold` | 2 skill files, 2 user hooks, 3 verbs, 1 edit, 1 kill or failed `.gitignore`, 1 upgrade | up converges and is idempotent, down removes all, user content kept |
| `trunk` | 2 slots, each plan-driven or synthetic, 2 files, 4 checkins, 2 edits, 1 fault | forks explained, fan-in collapses and keeps work |
| `apply` | 2 files, 2 applies, 2 edits, deletions, renames or stagings, 1 kill | the revision recorded as applied is there, no tracked edit lost, deletions only of trunk's files |
| `dispatch` | 2 plans of 2 slots, 2 commands at a time, 2 workers, 4 tasks, 5 commands or edits of a plan, 2 faults | manifests guarded, cancel complete, worker's claim returned, reports true |
| `hub_race` | 3 process ids, no fault | counterexample: a foreground start wipes a serving hub's repository |

Each configuration below is run by hand (`tlc -config X.cfg M`). All but the first end in
a counterexample to a statement of the repository (section 5). Where a second property is
named, the file says where it goes.

| Configuration | Module | Property |
|---|---|---|
| `CoordSiblings.cfg` | `MCCoord` | passes: the properties of `coord_claims` with two processes of one agent and a peer |
| `CoordReclaim.cfg` | `MCCoord` | `ReclaimSparesLive` |
| `CoordFaults.cfg` | `MCCoord` | `ClaimAtomic` |
| `HoldsRelease.cfg` | `MCHolds` | `ReleaseRemovesOnlyOwn` |
| `TaskLogSpuriousClaim.cfg` | `MCTaskLog` | `ReplayNeverClobbersClaim` |
| `TaskLogRetry.cfg` | `MCTaskLog` | `RetryGetsFurther`; in its place `RecoverSeesAll` |
| `TaskLogLink.cfg` | `MCTaskLog` | `NoDuplicateEdges` |
| `SwarmArtifact.cfg` | `MCSwarmLease` | `SuccessHasArtifact` |
| `SwarmSalvage.cfg` | `MCSwarmLease` | `DestroyedWorkHasCopy` |
| `HubNil.cfg` | `MCHubLifecycle` | `StartReturnsBound` |
| `HubUp.cfg` | `MCHubLifecycle` | `RegisterKeepsHub` |
| `ScaffoldUpgrade.cfg` | `Scaffold` | `DownRemovesAllUpgraded` |
| `ScaffoldHook.cfg` | `Scaffold` | `DownRestoresHook` |
| `ScaffoldTwoHooks.cfg` | `Scaffold` | `HooksPreserved` |
| `ScaffoldRaced.cfg` | `Scaffold` | `NothingOverwritten`; in its place `OptOutRespected` |
| `ApplyQuoted.cfg` | `Apply` | `EditsRefused` |
| `ApplyMoved.cfg` | `Apply` | `MarkerNamesApplied`; in its place `EditsRefused`, by a rename |
| `DispatchCancel.cfg` | `MCDispatch` | `CancelClears`; in its place `SuccessCloses` or `NoClobber` |

Bounds. Five events are a create, two claims, a release and a close (or a reclaim):
long enough for a superseded claimer's late close and for a recovery between any
two. Three events suffice for the verbs: a create and two racing verbs. Two CAS
attempts reach both a retry and exhaustion; `MaxRetries` is 8 in the code. Three
processes of two agents give a conflict between siblings of one slot and with a
stranger. Crossed file lists are what the CLI can create, since it keeps the
operator's order. One mishap (a hold or a presence
entry that runs out, or a failed call) and one exit are enough for each to hit any step of a claim;
`CoordSiblings.cfg` has two. Three verbs on a slot are a join, and two verbs that race over its
session, or a takeover of what the second left. Five process ids are two starters with a child
each and a third process that stops or kills, or a start over the remains of another. Three setup
verbs are an up, an interrupted verb and a down or up after it, with the upgrade at any
place between. Four checkins are the seed, two that fork and the merge. Two applies are one killed
and one after it. Five commands are two dispatches, a claim, a parent and a cancel; two faults
are a failed post and the failed release after it. Deadlock is
not checked: the bounds stop the models, and the real system may also idle. Progress is
stated as `NobodyWaits`, `HubComesUp`, `VerbsEnd` and `AbandonedCollected` instead. Symmetry
is used only in runs of invariants and action properties, over sets no constant tells apart; in
`coord_claims` it exchanges a process together with its agent (`SwapPairs`), as `AgentOf` ties them,
and the file lists stay as they are. `hub` and `dispatch` have a VIEW, which
leaves out of a state's fingerprint what no guard and no property of the run reads: what a
process that has ended ran, spawned or was sent, and `nilStart`; the epoch of a closed task, which
of the results other than a success a worker had, and that a command now ended was overtaken.

Fairness. `TaskLog!FairSpec` has weak fairness of `StartRecover` (an operator or the next
verb starts a stopped hub) and of `Recover`'s steps (a straight loop in the hub
process); none of processes. `SwarmLease!FairSpec` has weak fairness of each running verb (a
process the system schedules; its round trips return or fail), of `Age` (time passes), and of
the watcher's tick and reap (a ticker in the hub process). No verb is assumed to be started,
nothing is assumed of the bucket's TTL, and kills and faults need no fairness.

## 4. Proofs

Assumptions: only the named ASSUMEs of the component modules. They say that null values
differ from the others (no agent, no task, no process id, the contents of `Apply`, the hooks
of `Scaffold`), that `AgentOf`, `HostOf` and `FilesOf` are functions (a task lists at least
one file), that there is a file, a task, a slot, that bounds are naturals and that
`0 < TTL <= HoldTTLMax`. No theorem has a hypothesis of its own. Where a call that should undo
something fails, the code does not keep what it promises, and the properties say so: they except
exactly what such a failure left (`stray`, `stuck`, `lost`, `unlisted`). Where the repository
promises otherwise, a configuration run by hand has the counterexample (section 5).
Every theorem is about the `Spec` that the runs check, without fairness. In each module
every action of `Next` is shown to preserve the inductive invariant, and the properties
follow from it, the action properties from it and one step.

`TaskLog_proofs`. First `Typed` (`TypeOK`, and every edge and linked event names a
task). Then `IInv`: `ProjectionMatchesStamp` alone is not inductive, because a
transaction about to write carries a record nobody has checked against the log.
`InFlight` says that a transaction past its publish owns the event its sequence
names and that what it will write is explained by it; `CASFresh` says that a write
whose revision still matches is a legal successor of the record as it stands;
`GrantsBelow` says that no grant is ahead of its record, which gives
`ClaimEpochsUnique`. Step by step: `TypeCorrect`, `StampIsExplained`,
`GrantsAreUnique`, `PendingWritesFresh`, and from them the action properties
`ClosedStaysClosed` and `EpochMonotone`. `FenceHolds` (`SupersededNeverCloses`) adds `Fenced`:
a closure and a close in flight carry an epoch that was granted to their process, and a close
whose revision still matches carries the record's own; as no grant is ahead of the record,
none supersedes it. `RecoveryCatchesUp` adds that a task's first event is the one that
created it (`CreatedFirst`, which needs `TasksKnown`: verbs publish about tasks on the log
only) and `Drained`: a recovery with nothing in flight sees the records as they are and has
caught up to the event it has come to, which is all that its success says: every event the stream
*delivered* to it. Without `CreatedFirst`, a created event found after
its record would be passed over with the stamp behind it.

`Holds_proofs`. `IInv` is `AttemptFresh` for each call in flight (an update whose
revision still matches is still allowed, although the clock has moved, and its
deadline is not before the stored one), `Deadlines` (a deadline is at most TTL
after the put, so the bucket's TTL never purges a live hold) and `LeaseIsKept`.
From it: `LeasesAreKept`, `RenewalsExtend`, and `ImplementsLease`, the refinement
`Spec => LeaseSpec` (`HoldSpec` with `leaving <- Leaving`).

`Coord_proofs`. `NoHoldLeaked`, `NoClaimStuck`, `CommitsAreExclusive`. The invariants as the runs
check them let a release account for a file it has come past; if another process takes that
file, it is that process that must account for it. So the induction needs sharper accounts:
`ClaimsOwed` and `HoldsPledged` count only what a process still has before it, `InProgress`
ties the loop's position to what has been announced, `StoppedIdle` says that an exit took
the closures along, and `Covered` that a commit which lost no hold it had found still has every
file its hold-gate has looked at. The accounts except a file whose own announce or release failed
(`stray`) and a task whose own un-claim failed (`stuck`), and nothing else: a failure at one file
excuses no other.

`SwarmLease_proofs`. `TypeCorrect`, `VerbsAreFenced`, `ClaimsComeBack`, `SessionsStay`. All verbs of
a slot claim under one agent, so agent names fence nothing among them. `ClaimsDistinct` (no two
verbs have a claim of one task) and `ClaimsFenced` (the record has the epoch the verb took) carry
`VerbsAreFenced` and `ClaimsComeBack`, which excepts the tasks in `lost` only; `BumpsFresh` (a
renewal whose revision still matches carries the session that is there, although a session may have
been deleted and made again) the last.

`HubLifecycle_proofs`. `HubsExclude`, `HubsAreFound`, `LoneStartsSucceed`. `Base` holds whatever
overlaps (types, which verb is where, the lock and ports belong to the living). `Guard` holds until
`meddled`: starts and stops keep apart; a child's starter has the lock (`Locked`); there is
one hub and `hub.pid` and the registry name it (`Single`); a start that looked and found no hub still
has none behind it where it relies on that (`NoHub`); the repository is as far as the hub on
its way up (`Seeded`); a stop's target is the hub (`Stops`); a start that nothing overlaps meets
neither a foreign port nor a child without an entry (`Undisturbed`). `HubsAreFound` excepts the
registry entry of a hub that is `unlisted`, and for it still promises `hub.pid`, ports and repository;
`LoneStartsSucceed` is about a start whose hub got its entry. `OneHub` alone is far from
inductive: that a child may wipe the repository rests on its starter's lock and on its own
second look at `hub.pid`.

`Dispatch_proofs`. `WorkersGiveBack`, `ReportsAreTrue`, `OtherPlansStay`, `CancelLeavesNone`. Tasks,
commands with the manifest, and parent with workers share the tasks only, so the proof is
in three parts, and a step of one part is to the others a step of the tasks that closes and
never re-opens (`Evolves`) and hands nothing to the worker (`NoHandoff`). `ReportedClosed` needs
the chain `PostsTrue`, `InboxTrue`, `ChildWorks`: a success is posted after the close only, stays
true on the thread, and comes from the worker of this task.

`Scaffold_proofs`. `UpsConverge`, `DownsRemoveAll`, `UpsAreIdempotent`, `UserContentIsKept`.
`UpProgress` and `DownProgress` say what an up has put in place and a down has removed by each
step, `UpLeft` and `DownLeft` what is left of it until something else happens. For the skill
files: with nothing in doubt the manifest and the files agree (`Certain`); in doubt but not
upgraded since, one binary wrote everything (`OneBinary`) and a manifest of its making has every
file (`Sighted`); so a down knows the files it has to remove (`DownFiles`). `AsWritten` says
that what a verb read is still there when it writes, unless the operator wrote it since (`raced`).
`UserContentIsKept` is for any number of hooks; it excepts that window, and a hook that an up finds
beside a saved one (section 5). `UpsConverge` has the line in `.gitignore` unless the up warned.

`Repos_proofs` is about two specifications, `Trunk` and `Apply`, which meet in the hub's
trunk only: no variable is shared, and each theorem names the one it is about (`Spec` is
`Trunk`'s; `Apply`'s names carry `Apply`).

For `Trunk`: `TrunkTypeCorrect`, `ForksAreExplained`, `FanInsCollapse`, `FanInsKeepWork`.
`Genealogy`: ancestors are earlier checkins, and an ancestor's ancestors are ancestors.
`Copies`: a repository has the ancestors of what it has, since clone, pull and push copy whole
repositories. `UpToDate`: a commit that pulled and was not overtaken has all of the hub.
`Chain`: as long as commits to trunk did not overlap, each checkin of trunk *anywhere*, pushed
or not, descends from every earlier one. This is what `ForksExplained` alone lacks: it speaks of
the hub, and a fork comes into being in a slot's repository, long before a late push brings it.
With `Chain`, a leaf of the hub's trunk is the latest checkin of trunk there (`ChainLeaf`), so
there is one. `Merging` says what a running fan-in has so far: its parents are the leaves done,
its ancestors theirs, and each edit of a leaf done is in the merged tree or was seen by another
leaf (`KeptOf`); where a merge drops an edit because the other side does not have it any more,
the pivot had it, and the pivot is an ancestor of both (`MergeFileFact`, `MergeOneFact`). After
the last leaf that is `FanInKeepsWork`, and with `LeafAbove` (every checkin of the hub is an
ancestor of a leaf) it is `FanInCollapses`. That `Max` of a set of checkins is its greatest
element (`MaxFact`) is proved from the well-foundedness of the naturals.

For `Apply`: `ApplyTypeCorrect`, `MarkerIsTrue`, `EditsSurvive`, `ForeignFilesStay`. `MarkerIsTrue`
is about the revision the marker comes to name, deletions and the empty plan included: `Named` says
that it is the one checked out unless trunk moved before it was asked for. `Checked`: what the apply
is about to overwrite has no tracked edit that the check could have seen; `Written`: what is not
left to write and was not edited since is there, and what is not left to delete is not; `OnTrunk`
and `DeletesPlanned`: what will be deleted was trunk's.

What the proofs changed in the model. `ApplyKeepsTracked` now says exactly what an edit may
give way to: another edit of the operator's. In `Scaffold`, the history variable that says
when nothing is in doubt took a down that left no skill file of bones for one that also left no
manifest: `Completed` now asks that the manifest be gone.
`SlotAssumption` and the wider `PidAssumption` say what the code takes for granted. In `Trunk`,
the merge of a fan-in was one fold over the leaves, about which nothing can be proved without an
induction over data; as a step per leaf it is an invariant of the loop, in the order of the
code's loop, and the fan-in can now fail between two merges.

Only model-checked: `HubComesUp`, `VerbsEnd`, `AbandonedCollected` (liveness under fairness) and
`NobodyWaits` (ENABLED), which are out of the prover's reach.

## 5. What the code does not keep

PROJECT.json quotes the lines; the configurations are in section 3.

1. A claim refused after its publish can be replayed over the winner at the next
   hub start (`TaskLogSpuriousClaim`).
2. An ordinary `Leaf.Close` leaves an `unclaimed` event behind `closed`; recovery ends
   at it, now and at every later start (`TaskLogRetry`).
3. Concurrent `Link` calls duplicate an edge (`TaskLogLink`).
4. `Release` can delete the hold of an agent that took the file over (`HoldsRelease`).
5. `Reclaim` can take a task from a live agent that reclaimed it first (`CoordReclaim`).
6. A foreground hub start that looked at `hub.pid` before another start's lock was released
   wipes the repository of the hub that serves by then (run `hub_race`).
7. `Start` returns nil while the hub it found has nothing bound yet (`HubNil`).
8. A session can be closed as success without a commit: `join --auto` over a session counts as
   a renewal, and a record that is gone passes the check (`SwarmArtifact`).
9. A dirty worktree is removed without a copy by the TTL watcher, `cleanup --slot`, the
   prune at hub start, or when it is written between copy and removal (`SwarmSalvage`).
10. A second user hook is overwritten while a saved one exists (`ScaffoldTwoHooks`); an up
    killed between the rename and the write leaves the hook renamed after down (`ScaffoldHook`).
11. Skill files of an interrupted up outlive a down after an upgrade (`ScaffoldUpgrade`).
12. A dispatch with one closed task cannot be canceled (`DispatchCancel`).
13. The later of two dispatches that run at the same time replaces the other plan's manifest
    (`NoClobber`, `DispatchCancel`).
14. The parent's close after a worker's success is refused for a task taken by
    `autoclaim`: the parent's process has no epoch (`SuccessCloses`, `DispatchCancel`).
15. `Recover` reports success at the first `Fetch` that stays empty for 250 ms, although a
    repeated call may then replay more (`RecoverSeesAll`, `TaskLogRetry`).
16. A failed Claim's rollback and undo run under the ctx that may have made it fail, and their
    errors are dropped: a live process keeps a hold or the claim (`CoordFaults`).
17. `registry.Register` and every read that finds a dead entry may overwrite or remove the entry
    of a hub that registered in between; the hub serves and is not listed (`HubUp`).
18. `settings.json`, skill files and the hook are read and written in two steps: what the operator
    writes in between is lost (`ScaffoldRaced`).
19. A line removed from `.gitignore` comes back with the next up (`OptOutRespected`, `ScaffoldRaced`).
20. An edit of a file whose name git quotes, or under the old name of a rename, is not seen by
    apply and overwritten (`ApplyQuoted`, `ApplyMoved`).
21. `last-applied` may name a revision that was not applied (`MarkerNamesApplied`, `ApplyMoved`).

Also seen while modelling: a pruned task is re-created by the next recovery with epoch 0, which is
why the properties about epochs except archived tasks; the release closure drops holds in
acquisition order where Invariant 16 says reverse; `join --force` also takes over a session of
another host; neither `cleanup --slot` nor the watcher closes a synthetic slot's task; a worker
whose post fails drops the error of its release too, and the task stays claimed; a verb that cannot
give its claim back leaves a task that refuses every later close of the slot; a reap of a slot whose
verb was killed with the claim fails at its own claim and leaves the session to the watcher;
dispatching the same plan again orphans the first tasks; `swarm commit` without file names ships
every file of the worktree, stale ones too; apply does not look at untracked files before it
overwrites them.

## 6. Not modelled

- `Tx.SlotChange` and `CompactPerTask`, which nothing calls; `tasks.Migrate` and the workspace
  layout migration, one-shot rewrites with no concurrent peer.
- `FreshLease.Abort` (a join rolled back on a signal, the same steps as its error paths),
  the rollback of `Leaf.AnnounceHolds`, apply's recovery-slot mode.
- Events the replay cannot parse, which it passes over; torn writes (a file truncated and not yet
  written, when the process is killed inside `os.WriteFile`); files the operator deletes between
  down's plan and its walk.
- The operator's own lines in `.gitignore`, the content of the index, two applies or two setup verbs at
  the same time, the slots of an edited plan. `Drifted` compares the hook entries and not their
  positions; doctor's drift check and the read of its reset are one step; an
  empty hook file is no hook.
- Watch channels of holds, presence and tasks, chat messages other than dispatch results: no
  state depends on what they deliver.
- Ready and Blocked over edges and defer times: pure functions of one snapshot.
- Status, logs, doctor's report-only checks, plan validation, telemetry, schemas, templates:
  they read and print.

## 7. Plan

The model is complete along its plan, and every safety property of the passing runs but
`NobodyWaits` is a theorem. What could follow: the refinement of the task records by an abstract
register per task, and further action properties (presence, sessions of a killed verb)
where the code makes a promise that no run states yet.
