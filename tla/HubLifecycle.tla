---------------------------- MODULE HubLifecycle ----------------------------
(***************************************************************************)
(* internal/hub and internal/registry for one workspace: the start lock    *)
(* (hub.lock and hub.lock.pid), hub.pid, the seeded repository, the        *)
(* registry entry, and the processes that race over them.  Every verb may  *)
(* start the hub (workspace.Join); `hub start` without --detach serves in  *)
(* its own process; `hub stop`, `down`, `up` and `hub reap` take no lock;  *)
(* anything may be killed at any step, and what it left on disk is what    *)
(* the next start finds.                                                   *)
(*                                                                         *)
(* A process id is used once.  The ports are those of the URL files, which *)
(* every start of the workspace reads back, so one process at a time can   *)
(* have them bound.                                                        *)
(***************************************************************************)
EXTENDS Naturals, FiniteSets

CONSTANTS Pid,       \* process ids
          NoPid,     \* no pid file, no entry, nobody
          Verbs,     \* the verbs of this instance
          MaxFaults  \* bound: kills, ports taken, seeds that fail, early timeouts

Verb == {"join", "foreground", "stop", "down", "up", "list", "reap", "reappid"}

ASSUME PidAssumption ==
    NoPid \notin Pid \cup {"idle", "foreign"} /\ {"idle", "foreign"} \cap Pid = {}
ASSUME VerbsAssumption == Verbs \subseteq Verb /\ MaxFaults \in Nat

VARIABLES
    pc,        \* per process: where it is
    verb,      \* per process: the verb it runs, "none" in a detached child
    kid,       \* a detaching starter's child; a stopper's target
    termed,    \* hubs whose context a SIGTERM has cancelled
    hubpid,    \* .bones/hub.pid
    lockpid,   \* .bones/hub.lock.pid
    flock,     \* who has .bones/hub.lock flocked
    repo,      \* .bones/hub.fossil: absent, unseeded, seeded
    bound,     \* who has the ports bound
    reg,       \* the registry entry: its HubPID, "idle" for PID 0, or none
    marker,    \* .bones/agent.id
    urls,      \* the URL files
    alone,     \* history: starts that nothing else has overlapped
    failed,    \* history: starts that returned an error
    meddled,   \* history: an overlap the lock does not guard
    nilStart,  \* history: a Start returned nil with nothing bound
    unlisted,  \* history: hubs whose registry entry was not written, or was
               \* lost to a reader of the entry before it
    faults

disk == <<hubpid, lockpid, flock, repo, reg, marker, urls>>
hist == <<alone, failed, meddled, nilStart, unlisted>>
vars == <<pc, verb, kid, termed, disk, bound, hist, faults>>

Entry == Pid \cup {NoPid, "idle"}

(* A Start in the process of the verb; a hub in its own.                   *)
StartLabel == {"check", "lock", "drop", "flock", "retry", "lockpid", "ports", "spawn",
               "tcp", "verify", "wait", "prune", "killkid", "unlockpid", "unlock"}

BootLabel == {"wipe", "writepid", "newhub", "seed", "recover", "register"}

HubLabel == BootLabel \cup {"serve", "rmpid", "rmreg"}

StopLabel == {"target", "term", "grace", "stoprm", "downreg", "downdir"}

UpLabel == {"upread", "upprune", "upwrite"}

Label == {"unborn", "dead", "kid"} \cup StartLabel \cup HubLabel \cup StopLabel \cup UpLabel

(* What signal 0 finds: a running process, or the zombie of a child that   *)
(* its starter, which never waits for it, has outlived.                    *)
Alive(p) ==
    /\ p # NoPid
    /\ \/ pc[p] \notin {"unborn", "dead"}
       \/ pc[p] = "dead" /\ \E q \in Pid : pc[q] \in StartLabel /\ kid[q] = p

Starting == {p \in Pid : pc[p] \in StartLabel \cup BootLabel \cup {"kid"}}

Stopping == {p \in Pid : pc[p] \in StopLabel \/ (p \in termed /\ pc[p] # "dead")}

Hubs == {p \in Pid : pc[p] \in HubLabel}

Init ==
    /\ pc = [p \in Pid |-> "unborn"]
    /\ verb = [p \in Pid |-> "none"]
    /\ kid = [p \in Pid |-> NoPid]
    /\ termed = {}
    /\ hubpid = NoPid /\ lockpid = NoPid /\ flock = NoPid
    /\ repo = "absent" /\ bound = NoPid
    /\ reg = "idle" /\ marker = TRUE /\ urls = FALSE
    /\ alone = {} /\ failed = {} /\ meddled = FALSE /\ nilStart = FALSE
    /\ unlisted = {}
    /\ faults = 0

-----------------------------------------------------------------------------
Goto(p, label) == pc' = [pc EXCEPT ![p] = label]

(* A step that changes nothing but where its process is.                   *)
Moves(p, label) ==
    /\ Goto(p, label)
    /\ UNCHANGED <<verb, kid, termed, disk, bound, hist, faults>>

(* Process exit, whatever the cause: its sockets and its flock go with it. *)
Dies(p) ==
    /\ Goto(p, "dead")
    /\ bound' = IF bound = p THEN NoPid ELSE bound
    /\ flock' = IF flock = p THEN NoPid ELSE flock

Fault == faults < MaxFaults /\ faults' = faults + 1

Detached(p) == verb[p] # "foreground"

-----------------------------------------------------------------------------
(* A verb begins.  meddled records the overlaps that the lock and hub.pid  *)
(* do not guard: a stop, down or reap within a start, a foreground start,  *)
(* which does not look at hub.pid again once it has the lock, within       *)
(* another start, and a starter that dies while its child boots.           *)

Begin(p, v, label) ==
    /\ pc[p] = "unborn" /\ v \in Verbs
    /\ Goto(p, label)
    /\ verb' = [verb EXCEPT ![p] = v]
    /\ UNCHANGED <<kid, termed, disk, bound, failed, nilStart, unlisted, faults>>

(* `hub start`, or a verb's Join, which calls it when hub.pid is not live  *)
(* or /healthz does not answer.                                            *)
BeginStart(p, v) ==
    /\ marker
    /\ v = "join" => ~(Alive(hubpid) /\ pc[hubpid] = "serve")
    /\ Begin(p, v, "check")
    /\ alone' = IF Starting \cup Stopping = {} /\ bound # "foreign" THEN {p} ELSE {}
    /\ meddled' = (meddled \/ Stopping # {}
                           \/ \E q \in Starting : ~Detached(q) \/ v = "foreground")

(* planStopHub plans a stop only where hub.pid exists.                     *)
BeginStop(p, v) ==
    /\ Begin(p, v, IF v = "down" /\ hubpid = NoPid THEN "downreg" ELSE "target")
    /\ alone' = {}
    /\ meddled' = (meddled \/ Starting # {})

-----------------------------------------------------------------------------
(* Start, up to the fork.                                                  *)

Refused(p) == Goto(p, "dead") /\ failed' = failed \cup {p}

(* hub.pid names a live process: Start returns nil at once.                *)
CheckLive(p) ==
    /\ pc[p] = "check"
    /\ Goto(p, IF Alive(hubpid) THEN "dead" ELSE "lock")
    /\ nilStart' = (nilStart \/ (Alive(hubpid) /\ bound = NoPid))
    /\ UNCHANGED <<verb, kid, termed, disk, bound, alone, failed, meddled, unlisted, faults>>

(* Mutant: a recorded holder is taken to be alive.                         *)
HolderRecorded(p) == lockpid \notin {NoPid, p}

HolderAlive(p) == lockpid # p /\ Alive(lockpid)

(* AcquireWorkspaceLock's look at hub.lock.pid: a live holder refuses, a   *)
(* dead one's file is removed in a step of its own.                        *)
CheckHolder(p) ==
    /\ pc[p] = "lock"
    /\ \/ HolderAlive(p) /\ Refused(p)
       \/ /\ ~HolderAlive(p)
          /\ Goto(p, IF lockpid \in {NoPid, p} THEN "flock" ELSE "drop")
          /\ UNCHANGED failed
    /\ UNCHANGED <<verb, kid, termed, disk, bound, alone, meddled, nilStart, unlisted, faults>>

DropStaleHolder(p) ==
    /\ pc[p] = "drop"
    /\ lockpid' = NoPid
    /\ Goto(p, "flock")
    /\ UNCHANGED <<verb, kid, termed, hubpid, flock, repo, reg, marker, urls, bound,
                   hist, faults>>

(* flock(LOCK_EX|LOCK_NB); on failure one retry if the holder now recorded *)
(* is dead, else ErrLockHeld.                                              *)
TryLock(p) ==
    /\ pc[p] \in {"flock", "retry"}
    /\ \/ flock = NoPid /\ flock' = p /\ Goto(p, "lockpid") /\ UNCHANGED <<lockpid, failed>>
       \/ /\ flock # NoPid /\ pc[p] = "flock" /\ lockpid # NoPid /\ ~Alive(lockpid)
          /\ lockpid' = NoPid
          /\ Goto(p, "retry") /\ UNCHANGED <<flock, failed>>
       \/ /\ flock # NoPid
          /\ pc[p] = "retry" \/ lockpid = NoPid \/ Alive(lockpid)
          /\ Refused(p) /\ UNCHANGED <<flock, lockpid>>
    /\ UNCHANGED <<verb, kid, termed, hubpid, repo, reg, marker, urls, bound,
                   alone, meddled, nilStart, unlisted, faults>>

WriteHolder(p) ==
    /\ pc[p] = "lockpid"
    /\ lockpid' = p
    /\ Goto(p, "ports")
    /\ UNCHANGED <<verb, kid, termed, hubpid, flock, repo, reg, marker, urls, bound,
                   hist, faults>>

(* resolvePorts writes the URL files; then the fork, or the hub itself.    *)
ResolvePorts(p) ==
    /\ pc[p] = "ports"
    /\ urls' = TRUE
    /\ Goto(p, IF Detached(p) THEN "spawn" ELSE "wipe")
    /\ UNCHANGED <<verb, kid, termed, hubpid, lockpid, flock, repo, reg, marker, bound,
                   hist, faults>>

-----------------------------------------------------------------------------
(* spawnDetachedChild, in the starter.                                     *)

SpawnChild(p, c) ==
    /\ pc[p] = "spawn" /\ pc[c] = "unborn"
    /\ pc' = [pc EXCEPT ![p] = "tcp", ![c] = "kid"]
    /\ kid' = [kid EXCEPT ![p] = c]
    /\ UNCHANGED <<verb, termed, disk, bound, hist, faults>>

(* A wait for the child runs out: the child is gone, or it has no registry *)
(* entry, or it is only slow.                                              *)
TimesOut(p) ==
    /\ Goto(p, "killkid")
    /\ IF pc[kid[p]] = "dead" \/ kid[p] \in unlisted THEN UNCHANGED <<alone, faults>> ELSE Fault /\ alone' = {}
    /\ UNCHANGED <<failed, meddled, nilStart, unlisted>>

(* waitForTCP: whoever answers will do.                                    *)
WaitForTCP(p) ==
    /\ pc[p] = "tcp"
    /\ \/ bound # NoPid /\ Goto(p, "verify") /\ UNCHANGED <<hist, faults>>
       \/ bound = NoPid /\ TimesOut(p)
    /\ UNCHANGED <<verb, kid, termed, disk, bound>>

(* hub.pid must name the child.                                            *)
VerifyPid(p) ==
    /\ pc[p] = "verify"
    /\ Moves(p, IF hubpid = kid[p] THEN "wait" ELSE "killkid")

(* waitForRegistry: it ends when the entry names the child.  Its Read      *)
(* takes a dead entry for crud, and removes the file in a step of its own. *)
WaitForRegistry(p) ==
    /\ pc[p] = "wait"
    /\ \/ reg = kid[p] /\ Alive(reg) /\ Goto(p, "unlockpid") /\ UNCHANGED <<hist, faults>>
       \/ reg \in Pid /\ ~Alive(reg) /\ Goto(p, "prune") /\ UNCHANGED <<hist, faults>>
       \/ reg # kid[p] /\ TimesOut(p)
    /\ UNCHANGED <<verb, kid, termed, disk, bound>>

(* The entry becomes e.  A hub that has written one since it was read is   *)
(* not listed any more.                                                    *)
Overwrite(e) ==
    /\ reg' = e
    /\ IF reg \in Pid /\ Alive(reg)
       THEN unlisted' = unlisted \cup {reg} /\ alone' = {}
       ELSE UNCHANGED <<unlisted, alone>>

Prune(p) ==
    /\ pc[p] = "prune"
    /\ Overwrite(NoPid)
    /\ Goto(p, IF verb[p] = "list" THEN "dead" ELSE "wait")
    /\ UNCHANGED <<verb, kid, termed, hubpid, lockpid, flock, repo, marker, urls, bound,
                   failed, meddled, nilStart, faults>>

(* cmd.Process.Kill, and the error.                                        *)
KillChild(p) ==
    /\ pc[p] = "killkid"
    /\ pc' = [pc EXCEPT ![p] = "unlockpid", ![kid[p]] = "dead"]
    /\ bound' = IF bound = kid[p] THEN NoPid ELSE bound
    /\ failed' = failed \cup {p}
    /\ UNCHANGED <<verb, kid, termed, disk, alone, meddled, nilStart, unlisted, faults>>

(* The deferred release: the pid file first, then the lock.                *)
ReleaseHolder(p) ==
    /\ pc[p] = "unlockpid"
    /\ lockpid' = NoPid
    /\ Goto(p, "unlock")
    /\ UNCHANGED <<verb, kid, termed, hubpid, flock, repo, reg, marker, urls, bound,
                   hist, faults>>

ReleaseLock(p) ==
    /\ pc[p] = "unlock"
    /\ Dies(p)
    /\ UNCHANGED <<verb, kid, termed, hubpid, lockpid, repo, reg, marker, urls, hist, faults>>

-----------------------------------------------------------------------------
(* The hub process: Start again in a detached child, then runForeground.   *)

(* Mutant: the child trusts its parent's look at hub.pid.                  *)
ChildUnchecked(c) ==
    /\ pc[c] = "kid"
    /\ Moves(c, "wipe")

ChildCheck(c) ==
    /\ pc[c] = "kid"
    /\ Moves(c, IF Alive(hubpid) THEN "dead" ELSE "wipe")

(* Mutant: what a killed hub left of the repository is kept.               *)
KeepRepo(c) ==
    /\ pc[c] = "wipe"
    /\ Moves(c, "writepid")

(* A fresh start begins from an empty substrate.                           *)
WipeRepo(c) ==
    /\ pc[c] = "wipe"
    /\ repo' = IF Alive(hubpid) THEN repo ELSE "absent"
    /\ Goto(c, "writepid")
    /\ UNCHANGED <<verb, kid, termed, hubpid, lockpid, flock, reg, marker, urls, bound,
                   hist, faults>>

WritePid(c) ==
    /\ pc[c] = "writepid"
    /\ hubpid' = c
    /\ Goto(c, "newhub")
    /\ UNCHANGED <<verb, kid, termed, lockpid, flock, repo, reg, marker, urls, bound,
                   hist, faults>>

(* Bring-up failed: the repository and hub.pid are removed on the way out, *)
(* and a foreground start returns the error through its deferred release.  *)
BringUpFails(c) ==
    /\ repo' = "absent"
    /\ hubpid' = NoPid
    /\ lockpid' = IF Detached(c) THEN lockpid ELSE NoPid
    /\ failed' = IF Detached(c) THEN failed ELSE failed \cup {c}
    /\ Dies(c)
    /\ UNCHANGED <<reg, marker, urls>>

(* NewHub binds the ports and creates a missing repository.                *)
NewHub(c) ==
    /\ pc[c] = "newhub"
    /\ \/ /\ bound = NoPid
          /\ bound' = c
          /\ repo' = IF repo = "absent" THEN "unseeded" ELSE repo
          /\ Goto(c, IF repo = "absent" THEN "seed" ELSE "recover")
          /\ UNCHANGED <<hubpid, lockpid, flock, reg, marker, urls, failed>>
       \/ bound # NoPid /\ BringUpFails(c)
    /\ UNCHANGED <<verb, kid, termed, alone, meddled, nilStart, unlisted, faults>>

SeedHubRepo(c) ==
    /\ pc[c] = "seed"
    /\ repo' = IF repo = "absent" THEN repo ELSE "seeded"
    /\ Goto(c, "recover")
    /\ UNCHANGED <<verb, kid, termed, hubpid, lockpid, flock, reg, marker, urls, bound,
                   hist, faults>>

SeedFails(c) ==
    /\ pc[c] = "seed"
    /\ Fault
    /\ BringUpFails(c)
    /\ alone' = {}
    /\ UNCHANGED <<verb, kid, termed, meddled, nilStart, unlisted>>

(* runTaskRecovery, then registry.Write.                                   *)
RunTaskRecovery(c) ==
    /\ pc[c] = "recover"
    /\ Moves(c, "register")

RegistryWrite(c) ==
    /\ pc[c] = "register"
    /\ reg' = c
    /\ Goto(c, "serve")
    /\ UNCHANGED <<verb, kid, termed, hubpid, lockpid, flock, repo, marker, urls, bound,
                   hist, faults>>

(* A failed write is logged, and the hub serves all the same.              *)
RegistryWriteFails(c) ==
    /\ pc[c] = "register"
    /\ Fault
    /\ unlisted' = unlisted \cup {c}
    /\ alone' = {}
    /\ Goto(c, "serve")
    /\ UNCHANGED <<verb, kid, termed, disk, bound, failed, meddled, nilStart>>

(* Signalled, the hub drains, gives up its ports, and removes hub.pid and  *)
(* the registry entry of the workspace, whoever they name by then.         *)
Drain(c) ==
    /\ pc[c] = "serve" /\ c \in termed
    /\ bound' = IF bound = c THEN NoPid ELSE bound
    /\ Goto(c, "rmpid")
    /\ UNCHANGED <<verb, kid, termed, disk, hist, faults>>

RemovePid(c) ==
    /\ pc[c] = "rmpid"
    /\ hubpid' = NoPid
    /\ Goto(c, "rmreg")
    /\ UNCHANGED <<verb, kid, termed, lockpid, flock, repo, reg, marker, urls, bound,
                   hist, faults>>

RemoveEntry(c) ==
    /\ pc[c] = "rmreg"
    /\ reg' = NoPid
    /\ lockpid' = IF Detached(c) THEN lockpid ELSE NoPid
    /\ Dies(c)
    /\ UNCHANGED <<verb, kid, termed, hubpid, repo, marker, urls, hist, faults>>

-----------------------------------------------------------------------------
(* hub.Stop, `bones down` and `hub reap`, none of which takes the lock.    *)

ReadTarget(p) ==
    /\ pc[p] = "target"
    /\ kid' = [kid EXCEPT ![p] = hubpid]
    /\ Goto(p, "term")
    /\ UNCHANGED <<verb, termed, disk, bound, hist, faults>>

AfterStop(p) == IF verb[p] = "reappid" THEN "dead" ELSE "stoprm"

(* terminateProcess and killPID: SIGTERM cancels the hub's context, which  *)
(* it looks at once it serves; SIGKILL when the grace runs out first.      *)
Terminate(p) ==
    /\ pc[p] = "term"
    /\ Goto(p, IF Alive(kid[p]) THEN "grace" ELSE AfterStop(p))
    /\ termed' = IF Alive(kid[p]) THEN termed \cup {kid[p]} ELSE termed
    /\ UNCHANGED <<verb, kid, disk, bound, hist, faults>>

Gone(p) ==
    /\ pc[p] = "grace" /\ ~Alive(kid[p])
    /\ Moves(p, AfterStop(p))

GraceEnds(p) ==
    LET q == kid[p]
    IN /\ pc[p] = "grace" /\ Alive(q)
       /\ pc' = [pc EXCEPT ![p] = AfterStop(p), ![q] = "dead"]
       /\ bound' = IF bound = q THEN NoPid ELSE bound
       /\ flock' = IF flock = q THEN NoPid ELSE flock
       /\ UNCHANGED <<verb, kid, termed, hubpid, lockpid, repo, reg, marker, urls, hist, faults>>

(* Stop removes hub.pid, ReapEntry the registry entry, whoever they name   *)
(* by now.                                                                 *)
StopRemoves(p) ==
    /\ pc[p] = "stoprm"
    /\ hubpid' = IF verb[p] = "reap" THEN hubpid ELSE NoPid
    /\ reg' = IF verb[p] = "reap" THEN NoPid ELSE reg
    /\ Goto(p, IF verb[p] = "down" THEN "downreg" ELSE "dead")
    /\ UNCHANGED <<verb, kid, termed, lockpid, flock, repo, marker, urls, bound, hist, faults>>

DownRemovesEntry(p) ==
    /\ pc[p] = "downreg"
    /\ reg' = NoPid
    /\ Goto(p, "downdir")
    /\ UNCHANGED <<verb, kid, termed, hubpid, lockpid, flock, repo, marker, urls, bound,
                   hist, faults>>

(* RemoveAll(.bones).  A flock on the unlinked lock file binds nobody who  *)
(* opens the new one.                                                      *)
DownRemovesDir(p) ==
    /\ pc[p] = "downdir"
    /\ hubpid' = NoPid /\ lockpid' = NoPid /\ flock' = NoPid
    /\ repo' = "absent" /\ marker' = FALSE /\ urls' = FALSE
    /\ Goto(p, "dead")
    /\ UNCHANGED <<verb, kid, termed, reg, bound, hist, faults>>

(* `bones up`: the marker, and then registry.Register.                     *)
BeginUp(p) ==
    /\ pc[p] = "unborn" /\ "up" \in Verbs
    /\ marker' = TRUE
    /\ Goto(p, "upread")
    /\ verb' = [verb EXCEPT ![p] = "up"]
    /\ alone' = {}
    /\ UNCHANGED <<kid, termed, hubpid, lockpid, flock, repo, reg, urls, bound,
                   failed, meddled, nilStart, unlisted, faults>>

(* Register's Read: a live hub's entry is left alone, a dead one's file is *)
(* removed in a step of its own.                                           *)
RegisterRead(p) ==
    /\ pc[p] = "upread"
    /\ Moves(p, IF reg \notin Pid THEN "upwrite"
                ELSE IF Alive(reg) THEN "dead" ELSE "upprune")

RegisterPrune(p) ==
    /\ pc[p] = "upprune"
    /\ Overwrite(NoPid)
    /\ Goto(p, "upwrite")
    /\ UNCHANGED <<verb, kid, termed, hubpid, lockpid, flock, repo, marker, urls, bound,
                   failed, meddled, nilStart, faults>>

(* Its Write of the idle entry, whatever the entry is by now; an error is  *)
(* a warning.                                                              *)
RegisterWrite(p) ==
    /\ pc[p] = "upwrite"
    /\ Overwrite("idle") \/ UNCHANGED <<reg, unlisted, alone>>
    /\ Goto(p, "dead")
    /\ UNCHANGED <<verb, kid, termed, hubpid, lockpid, flock, repo, marker, urls, bound,
                   failed, meddled, nilStart, faults>>

(* A verb that lists the registry (status --all, doctor, reap) finds an    *)
(* entry whose hub is dead.                                                *)
BeginList(p) ==
    /\ reg \in Pid /\ ~Alive(reg)
    /\ Begin(p, "list", "prune")
    /\ UNCHANGED <<alone, meddled>>

(* AllOrphanHubs, run from any workspace: a live hub whose workspace has   *)
(* lost its marker, or a hub process the registry has no entry for.        *)
IsOrphan(h, v) ==
    /\ h \in Hubs \cup {c \in Pid : pc[c] = "kid"}
    /\ \/ v = "reap" /\ reg = h /\ ~marker
       \/ v = "reappid" /\ reg = NoPid

BeginReap(p, h, v) ==
    /\ pc[p] = "unborn" /\ v \in Verbs
    /\ IsOrphan(h, v)
    /\ Goto(p, "term")
    /\ verb' = [verb EXCEPT ![p] = v]
    /\ kid' = [kid EXCEPT ![p] = h]
    /\ alone' = {}
    /\ meddled' = (meddled \/ Starting # {})
    /\ UNCHANGED <<termed, disk, bound, failed, nilStart, unlisted, faults>>

(* Another program takes the recorded port while no hub has it.            *)
PortTaken ==
    /\ bound = NoPid
    /\ Fault
    /\ bound' = "foreign"
    /\ alone' = {}
    /\ UNCHANGED <<pc, verb, kid, termed, disk, failed, meddled, nilStart, unlisted>>

(* A process is killed from outside: kill -9, out of memory, a reboot.     *)
Kill(p) ==
    /\ pc[p] \notin {"unborn", "dead"}
    /\ Fault
    /\ Dies(p)
    /\ alone' = {}
    /\ meddled' = (meddled \/ (pc[p] \in StartLabel /\ kid[p] # NoPid))
    /\ UNCHANGED <<verb, kid, termed, hubpid, lockpid, repo, reg, marker, urls,
                   failed, nilStart, unlisted>>

-----------------------------------------------------------------------------
StartStep(p) ==
    \/ CheckLive(p) \/ CheckHolder(p) \/ DropStaleHolder(p) \/ TryLock(p)
    \/ WriteHolder(p) \/ ResolvePorts(p)
    \/ \E c \in Pid : SpawnChild(p, c)
    \/ WaitForTCP(p) \/ VerifyPid(p) \/ WaitForRegistry(p) \/ Prune(p) \/ KillChild(p)
    \/ ReleaseHolder(p) \/ ReleaseLock(p)

HubStep(c) ==
    \/ ChildCheck(c) \/ WipeRepo(c) \/ WritePid(c) \/ NewHub(c)
    \/ SeedHubRepo(c) \/ SeedFails(c) \/ RunTaskRecovery(c) \/ RegistryWrite(c)
    \/ RegistryWriteFails(c)
    \/ Drain(c) \/ RemovePid(c) \/ RemoveEntry(c)

StopStep(p) ==
    \/ ReadTarget(p) \/ Terminate(p) \/ Gone(p) \/ GraceEnds(p) \/ StopRemoves(p)
    \/ DownRemovesEntry(p) \/ DownRemovesDir(p)

UpStep(p) == RegisterRead(p) \/ RegisterPrune(p) \/ RegisterWrite(p)

Next ==
    \/ PortTaken
    \/ \E p \in Pid :
        \/ BeginStart(p, "join") \/ BeginStart(p, "foreground")
        \/ BeginStop(p, "stop") \/ BeginStop(p, "down")
        \/ BeginUp(p) \/ UpStep(p) \/ BeginList(p) \/ Kill(p)
        \/ \E h \in Pid, v \in {"reap", "reappid"} : BeginReap(p, h, v)
        \/ StartStep(p) \/ HubStep(p) \/ StopStep(p)

Spec == Init /\ [][Next]_vars

-----------------------------------------------------------------------------
(* Types; and the lock and the ports belong to processes that run.         *)
TypeOK ==
    /\ pc \in [Pid -> Label]
    /\ verb \in [Pid -> Verb \cup {"none"}]
    /\ kid \in [Pid -> Pid \cup {NoPid}]
    /\ termed \subseteq Pid
    /\ {hubpid, lockpid, flock} \subseteq Pid \cup {NoPid}
    /\ bound \in Pid \cup {NoPid, "foreign"}
    /\ repo \in {"absent", "unseeded", "seeded"}
    /\ reg \in Entry
    /\ {marker, urls, meddled, nilStart} \subseteq BOOLEAN
    /\ alone \cup failed \subseteq Pid
    /\ faults \in 0..MaxFaults
    /\ {flock, bound} \cap {p \in Pid : pc[p] \in {"unborn", "dead"}} = {}

(* However many starts race, and whatever kills, failed seeds and early    *)
(* timeouts left behind, at most one process at a time is past the fork of *)
(* a hub: the workspace lock, its stale-holder recovery, hub.pid and the   *)
(* child's own check of it keep a second hub from touching the repository  *)
(* (Start, AcquireWorkspaceLock).  Only a stop, down or reap overlapping a *)
(* start, or the death of a detaching starter, can break it.               *)
OneHub == ~meddled => Cardinality(Hubs) <= 1

(* A hub that serves is the one hub.pid and the ports lead to, and it      *)
(* serves a seeded repository, never one an interrupted start left half    *)
(* made; and the registry leads to it, unless it could not write its entry *)
(* or a reader of the one before has removed it or written over it         *)
(* (runForeground, Stop, registry).                                        *)
HubDiscoverable ==
    ~meddled =>
        \A c \in Pid : pc[c] = "serve" /\ c \notin termed =>
            /\ hubpid = c /\ bound = c /\ repo = "seeded"
            /\ reg = c \/ c \in unlisted

(* A start that nothing overlaps, and whose child is not itself killed,    *)
(* too slow or without its registry entry, does not fail, whatever an      *)
(* earlier crash left in hub.pid, the lock, the repository or the registry *)
(* (Start, AcquireWorkspaceLock).                                          *)
AloneSucceeds == ~meddled => alone \cap failed = {}

(* An up leaves the entry of a live hub alone (the comment on Register).   *)
RegisterKeepsHub == [][(reg \in Pid /\ Alive(reg)) => reg' # "idle"]_vars

(* No two concurrent starts can leave a serving hub without its repository *)
(* (the comment on the lock guard in Start).                               *)
HubKeepsRepo == \A c \in Pid : pc[c] = "serve" => repo # "absent"

(* A nil return of Start means that the ports are bound (joinLogic).       *)
StartReturnsBound == ~nilStart
=============================================================================
