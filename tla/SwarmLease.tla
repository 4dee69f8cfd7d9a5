----------------------------- MODULE SwarmLease -----------------------------
(***************************************************************************)
(* internal/swarm and the verbs built on it: one session record per slot   *)
(* in a KV bucket with a TTL, and a task claim that each verb takes and    *)
(* gives back.  Nothing lives between two verbs but the record, the slot's *)
(* worktree and its pid file, so every verb starts from what it reads, and *)
(* any other verb, the hub's TTL watcher or a crash may come between two   *)
(* of its round trips.                                                     *)
(*                                                                         *)
(* A process is one run of a verb.  All processes of a slot act as the     *)
(* agent "<slot>-leaf", so Slot stands for the agent identities of         *)
(* TaskRecord.  One claim, un-claim or close of a task is one step: Coord  *)
(* and TaskLog have them at a finer grain.                                 *)
(***************************************************************************)
EXTENDS TaskRecord, FiniteSets

CONSTANTS Proc,        \* processes running a verb
          Host, HubHost, HostOf,  \* hosts, the hub's, and where a process runs
          PlanTask,    \* tasks that exist from the start
          Verbs,       \* the verbs of this instance
          NoSession,   \* the slot has no record
          MaxRetries,  \* jskv.MaxRetries
          MaxVerbs,    \* bound: verbs started
          MaxCrashes,  \* bound: processes killed
          MaxFaults    \* bound: round trips that fail

Slot == Agent

Verb == {"join", "force", "auto", "commit", "close", "closeempty", "fail",
         "reap", "tasksclose", "cleanup"}

ASSUME SlotAssumption == Slot # {}
ASSUME HostAssumption == HostOf \in [Proc -> Host] /\ HubHost \in Host
ASSUME VerbAssumption == Verbs \subseteq Verb /\ PlanTask \subseteq Task
ASSUME LimitAssumption ==
    /\ MaxRetries \in Nat \ {0}
    /\ MaxVerbs \in Nat /\ MaxCrashes \in Nat /\ MaxFaults \in Nat

VARIABLES
    sess,      \* the bones-swarm-sessions bucket
    rev,       \* per slot, the key's last revision
    kv,        \* the task records that exist
    wt,        \* the slot's worktree on disk
    recovery,  \* slots whose work has a copy under .bones/recovery
    pidfile,   \* the process the slot's leaf.pid names
    pc, call,  \* where each process is in its verb, and the verb's locals
    watch,     \* the TTL watcher: stale slots its tick has still to reap
    made,      \* history: sessions created so far
    landed,    \* history: sessions with a commit of their own
    unproven,  \* history: sessions closed as success with none of their own
    lost,      \* history: tasks whose claim was left by a kill or a failed call
    budget     \* what is left of the three bounds

disk == <<wt, recovery, pidfile>>
hist == <<made, landed, unproven, lost>>
vars == <<sess, rev, kv, disk, pc, call, watch, hist, budget>>

(* id tells the sessions of one slot apart; renewed is LastRenewed later   *)
(* than StartedAt; stale is past every age threshold.                      *)
Session == [task : Task, host : Host, id : Nat, renewed : BOOLEAN, stale : BOOLEAN]

(* task, rev, sid and host as last read from the slot's record; epoch is   *)
(* that of the claim taken; tries counts CAS retries; todo is what a reap  *)
(* has left to do.                                                         *)
CallRec == [verb : Verb, slot : Slot, task : Task, rev : Nat, sid : Nat,
            host : Host, epoch : Nat, tries : Nat, todo : SUBSET Slot]

NoCall == [verb |-> "join", slot |-> CHOOSE s \in Slot : TRUE,
           task |-> CHOOSE t \in Task : TRUE, rev |-> 0, sid |-> 0,
           host |-> HubHost, epoch |-> 0, tries |-> 0, todo |-> {}]

NoPid == "none"

Label == {"idle", "probe", "clear", "cleardel", "claim", "put", "pid",
          "resume", "artifact", "land", "closetask", "unclaim", "bumpget",
          "bumpput", "pidrm", "del", "reget", "preserve", "wtrm", "next", "lookup",
          "legacy", "keyget", "keydel"}

Init ==
    /\ sess = [s \in Slot |-> NoSession]
    /\ rev = [s \in Slot |-> 0]
    /\ kv = [t \in PlanTask |-> FreshRecord(0)]
    /\ wt = [s \in Slot |-> "absent"]
    /\ recovery = {}
    /\ pidfile = [s \in Slot |-> NoPid]
    /\ pc = [p \in Proc |-> "idle"]
    /\ call = [p \in Proc |-> NoCall]
    /\ watch = {}
    /\ made = 0 /\ landed = {} /\ unproven = {} /\ lost = {}
    /\ budget = [verbs |-> MaxVerbs, crashes |-> MaxCrashes, faults |-> MaxFaults]

-----------------------------------------------------------------------------
(* Locals and control.                                                     *)

Goto(p, label) == pc' = [pc EXCEPT ![p] = label]

Set(p, c) == call' = [call EXCEPT ![p] = c]

(* A call that fails uses up one of the bound.                             *)
Fault == budget.faults > 0 /\ budget' = [budget EXCEPT !.faults = @ - 1]

(* The verb is over; a reap goes on with its next slot.                    *)
Return(p) ==
    IF call[p].verb = "reap"
    THEN Goto(p, "next") /\ Set(p, [NoCall EXCEPT !.verb = "reap", !.todo = call[p].todo])
    ELSE Goto(p, "idle") /\ Set(p, NoCall)

(* A pid file outlives the process it names.                               *)
Running(p) == pc[p] # "idle"

Start(p, verb, c, label) ==
    /\ pc[p] = "idle" /\ verb \in Verbs /\ budget.verbs > 0
    /\ budget' = [budget EXCEPT !.verbs = @ - 1]
    /\ Set(p, [c EXCEPT !.verb = verb])
    /\ Goto(p, label)
    /\ pidfile' = [s \in Slot |-> IF pidfile[s] = p THEN "dead" ELSE pidfile[s]]
    /\ UNCHANGED <<sess, rev, kv, wt, recovery, watch, hist>>

StartSwarm(p, s, t) ==
    LET c == [NoCall EXCEPT !.slot = s, !.task = t]
    IN \/ Start(p, "join", c, "clear") /\ t \in DOMAIN kv
       \/ Start(p, "force", c, "clear") /\ t \in DOMAIN kv
       \/ Start(p, "tasksclose", [NoCall EXCEPT !.task = t], "lookup") /\ t \in DOMAIN kv

StartSlot(p, s) ==
    LET c == [NoCall EXCEPT !.slot = s]
    IN \/ /\ Start(p, "auto", c, "probe")
          /\ Cardinality(Task \ DOMAIN kv) > Cardinality({q \in Proc : pc[q] = "probe"})
       \/ Start(p, "commit", c, "resume")
       \/ Start(p, "close", c, "resume")
       \/ Start(p, "closeempty", c, "resume")
       \/ Start(p, "fail", c, "resume")
       \/ Start(p, "cleanup", c, "keyget")

-----------------------------------------------------------------------------
(* The bucket (swarm.go): Create, Update and Delete, the last two gated by *)
(* the revision read.  A delete leaves a marker, so the revision moves on. *)

Get(s) == sess[s]

(* Mutant: the write is not gated.                                         *)
UngatedMatch(s, r) == TRUE

RevMatches(s, r) == sess[s] # NoSession /\ rev[s] = r

Write(s, x) ==
    /\ sess' = [sess EXCEPT ![s] = x]
    /\ rev' = [rev EXCEPT ![s] = @ + 1]

(* Mutant: a delete blanks the record and keeps its key.                   *)
LeaveMarker(s) == Write(s, [sess[s] EXCEPT !.host = NoSession])

Remove(s) == Write(s, NoSession)

-----------------------------------------------------------------------------
(* Acquire: `bones swarm join`.                                            *)

(* clearExistingRecord's read: a free slot goes on, a stale or forced one  *)
(* is cleared first, a live or foreign one is refused.                     *)
clearExistingRecord(p) ==
    LET c == call[p]
        old == Get(c.slot)
    IN /\ pc[p] = "clear"
       /\ \/ old = NoSession /\ Goto(p, "claim") /\ UNCHANGED call
          \/ /\ old # NoSession
             /\ c.verb = "force" \/ (old.stale /\ old.host = HostOf[p])
             /\ Set(p, [c EXCEPT !.rev = rev[c.slot]])
             /\ Goto(p, "cleardel")
          \/ /\ old # NoSession
             /\ c.verb # "force" /\ ~(old.stale /\ old.host = HostOf[p])
             /\ Return(p)
       /\ UNCHANGED <<sess, rev, kv, disk, watch, hist, budget>>

(* Its delete; a conflict fails the join.                                  *)
clearDelete(p) ==
    LET c == call[p]
    IN /\ pc[p] = "cleardel"
       /\ IF RevMatches(c.slot, c.rev)
          THEN Remove(c.slot) /\ Goto(p, "claim") /\ UNCHANGED call
          ELSE Return(p) /\ UNCHANGED <<sess, rev>>
       /\ UNCHANGED <<kv, disk, watch, hist, budget>>

Joining(c) == c.verb \in {"join", "force", "auto"}

Args(p) == [op |-> "claim", agent |-> call[p].slot, epoch |-> call[p].epoch,
            from |-> NoAgent]

AfterClaim(c) ==
    IF Joining(c) THEN "put" ELSE IF c.verb = "commit" THEN "land" ELSE "closetask"

(* Mutant: the record's status is not looked at.                           *)
ClaimsAnyway(p) == kv[call[p].task].status # "closed"

ClaimOK(p) == claimMutatorOK(Args(p), kv[call[p].task])

(* openLeaf, for a join the worktree, and Leaf.Claim on the task; a claim  *)
(* that lands and fails all the same (its answer lost, or its own undo) is *)
(* left behind.                                                            *)
openLeafAndClaim(p) ==
    LET c == call[p]
        t == c.task
    IN /\ pc[p] = "claim"
       /\ wt' = IF Joining(c) /\ wt[c.slot] = "absent"
                THEN [wt EXCEPT ![c.slot] = "clean"] ELSE wt
       /\ \/ /\ ClaimOK(p)
             /\ kv' = [kv EXCEPT ![t] = Claimed(Args(p), @)]
             /\ Set(p, [c EXCEPT !.epoch = kv[t].claimEpoch + 1])
             /\ Goto(p, AfterClaim(c))
             /\ UNCHANGED <<lost, budget>>
          \/ /\ ClaimOK(p) /\ Fault
             /\ kv' = [kv EXCEPT ![t] = Claimed(Args(p), @)]
             /\ lost' = lost \cup {t}
             /\ Return(p)
          \/ /\ ~ClaimOK(p)
             /\ Return(p)
             /\ UNCHANGED <<kv, lost, budget>>
       /\ UNCHANGED <<sess, rev, recovery, pidfile, watch, made, landed, unproven>>

(* Mutant: a conflict returns the error and keeps the claim.               *)
PutKeepsClaim(p) ==
    LET c == call[p]
    IN /\ pc[p] = "put"
       /\ IF sess[c.slot] = NoSession
          THEN /\ Write(c.slot, [task |-> c.task, host |-> HostOf[p], id |-> made + 1,
                                 renewed |-> FALSE, stale |-> FALSE])
               /\ made' = made + 1
               /\ Goto(p, "pid") /\ UNCHANGED call
          ELSE Return(p) /\ UNCHANGED <<sess, rev, made>>
       /\ UNCHANGED <<kv, disk, watch, landed, unproven, lost, budget>>

(* writeSessionAndPid: the Create; a conflict gives the claim back.        *)
putSession(p) ==
    LET c == call[p]
    IN /\ pc[p] = "put"
       /\ IF sess[c.slot] = NoSession
          THEN /\ Write(c.slot, [task |-> c.task, host |-> HostOf[p], id |-> made + 1,
                                 renewed |-> FALSE, stale |-> FALSE])
               /\ made' = made + 1
               /\ Goto(p, "pid")
          ELSE Goto(p, "unclaim") /\ UNCHANGED <<sess, rev, made>>
       /\ UNCHANGED <<kv, disk, call, watch, landed, unproven, lost, budget>>

(* The pid file, then the claim is released; a failed write takes the      *)
(* record at the slot down again, whichever it now is.                     *)
writePidFile(p) ==
    LET c == call[p]
    IN /\ pc[p] = "pid"
       /\ \/ /\ pidfile' = [pidfile EXCEPT ![c.slot] = p]
             /\ UNCHANGED <<sess, rev, budget>>
          \/ /\ Fault
             /\ IF sess[c.slot] # NoSession THEN Remove(c.slot) ELSE UNCHANGED <<sess, rev>>
             /\ UNCHANGED pidfile
       /\ Goto(p, "unclaim")
       /\ UNCHANGED <<kv, wt, recovery, call, watch, hist>>

(* Claim.Release un-claims what the slot's agent has claimed.              *)
Unclaims(p) ==
    kv' = IF unclaimMutatorOK(Args(p), kv[call[p].task])
          THEN [kv EXCEPT ![call[p].task] = Unclaimed(@)] ELSE kv

(* A release that fails, out of time or of CAS retries, leaves the claim;  *)
(* or it landed and only its answer is lost.                               *)
ReleaseFails(p) ==
    /\ Fault
    /\ \/ Unclaims(p) /\ UNCHANGED lost
       \/ lost' = lost \cup {call[p].task} /\ UNCHANGED kv

(* A join and a commit drop the release's error; a fail or a reap stops at *)
(* it.                                                                     *)
ReleaseClaim(p) ==
    LET c == call[p]
        failed == ReleaseFails(p)
        given == Unclaims(p) /\ UNCHANGED <<lost, budget>>
    IN /\ pc[p] = "unclaim"
       /\ \/ Joining(c) /\ (given \/ failed) /\ Return(p)
          \/ /\ c.verb = "commit" /\ (given \/ failed)
             /\ Goto(p, "bumpget") /\ UNCHANGED call
          \/ /\ ~Joining(c) /\ c.verb # "commit"
             /\ \/ given /\ Goto(p, "pidrm") /\ UNCHANGED call
                \/ failed /\ Return(p)
       /\ UNCHANGED <<sess, rev, disk, watch, made, landed, unproven>>

(* JoinAuto: probeReEntry, and on the fresh path openSyntheticTask.        *)
probeReEntry(p) ==
    LET c == call[p]
        old == Get(c.slot)
    IN /\ pc[p] = "probe"
       /\ \/ /\ old # NoSession /\ old.host # HostOf[p]
             /\ Return(p) /\ UNCHANGED kv
          \/ /\ old # NoSession /\ old.host = HostOf[p]
             /\ Goto(p, "bumpget") /\ UNCHANGED <<call, kv>>
          \/ /\ old = NoSession
             /\ \E t \in Task \ DOMAIN kv :
                   /\ kv' = [u \in DOMAIN kv \cup {t} |->
                                IF u = t THEN FreshRecord(0) ELSE kv[u]]
                   /\ Set(p, [c EXCEPT !.task = t])
             /\ Goto(p, "clear")
       /\ UNCHANGED <<sess, rev, disk, watch, hist, budget>>

-----------------------------------------------------------------------------
(* Resume, and the commit verb.                                            *)

AfterResume(c) ==
    CASE c.verb = "commit" -> "claim"
      [] c.verb \in {"close", "tasksclose"} -> "artifact"
      [] OTHER -> "claim"

Resume(p) ==
    LET c == call[p]
        x == Get(c.slot)
    IN /\ pc[p] = "resume"
       /\ \/ /\ x # NoSession /\ x.host = HostOf[p]
             /\ Set(p, [c EXCEPT !.task = x.task, !.rev = rev[c.slot], !.sid = x.id])
             /\ Goto(p, AfterResume(c))
          \/ /\ x = NoSession /\ c.verb = "tasksclose"
             /\ Goto(p, "lookup") /\ UNCHANGED call
          \/ /\ (x = NoSession /\ c.verb # "tasksclose")
                \/ (x # NoSession /\ x.host # HostOf[p])
             /\ Return(p)
       /\ UNCHANGED <<sess, rev, kv, disk, watch, hist, budget>>

(* commitViaLeaf after the claim: the checkin lands, or its holds, pull or *)
(* epoch-gate refuse it; either way the deferred release follows, which    *)
(* may fail for the reason the checkin did.                                *)
CommitLands(p) ==
    LET c == call[p]
    IN /\ pc[p] = "land"
       /\ \/ /\ kv[c.task].claimEpoch = c.epoch
             /\ landed' = landed \cup {c.sid}
             /\ wt' = IF wt[c.slot] = "dirty" THEN [wt EXCEPT ![c.slot] = "clean"] ELSE wt
             /\ Goto(p, "unclaim")
             /\ UNCHANGED <<kv, call, lost, budget>>
          \/ ReleaseFails(p) /\ Return(p) /\ UNCHANGED <<landed, wt>>
       /\ UNCHANGED <<sess, rev, recovery, pidfile, watch, made, unproven>>

(* bumpLastRenewed and bumpReEntry: whatever record the slot now has is    *)
(* re-read and written back renewed.                                       *)
bumpGet(p) ==
    LET c == call[p]
    IN /\ pc[p] = "bumpget"
       /\ IF Get(c.slot) = NoSession
          THEN Return(p)
          ELSE /\ Set(p, [c EXCEPT !.rev = rev[c.slot], !.sid = Get(c.slot).id,
                                   !.task = Get(c.slot).task,
                                   !.host = Get(c.slot).host])
               /\ Goto(p, "bumpput")
       /\ UNCHANGED <<sess, rev, kv, disk, watch, hist, budget>>

Renewed(p) ==
    LET c == call[p]
    IN [task |-> c.task, host |-> c.host, id |-> c.sid, renewed |-> TRUE, stale |-> FALSE]

bumpPut(p) ==
    LET c == call[p]
    IN /\ pc[p] = "bumpput"
       /\ IF RevMatches(c.slot, c.rev)
          THEN Write(c.slot, Renewed(p)) /\ Return(p)
          ELSE /\ IF c.verb = "auto" \/ c.tries + 1 = MaxRetries
                  THEN Return(p)
                  ELSE Set(p, [c EXCEPT !.tries = @ + 1]) /\ Goto(p, "bumpget")
               /\ UNCHANGED <<sess, rev>>
       /\ UNCHANGED <<kv, disk, watch, hist, budget>>

-----------------------------------------------------------------------------
(* Close: `swarm close`, `swarm reap` and the slot path of `tasks close`.  *)

Succeeds(c) == c.verb \in {"close", "closeempty", "tasksclose"}

(* checkArtifactPrecondition: renewed since it started, or gone.           *)
checkArtifactPrecondition(p) ==
    LET x == Get(call[p].slot)
    IN /\ pc[p] = "artifact"
       /\ IF x = NoSession \/ x.renewed
          THEN Goto(p, "claim") /\ UNCHANGED call
          ELSE Return(p)
       /\ UNCHANGED <<sess, rev, kv, disk, watch, hist, budget>>

(* closeTaskAndReleaseClaim: Leaf.Close on success, else the release.  A   *)
(* close that fails leaves the claim behind.                               *)
closeTask(p) ==
    LET c == call[p]
    IN /\ pc[p] = "closetask"
       /\ \/ /\ Succeeds(c) /\ closeMutatorOK(Args(p), kv[c.task])
             /\ kv' = [kv EXCEPT ![c.task] = applyClose(Args(p), @, 0)]
             /\ unproven' = IF c.sid \in landed \/ c.verb = "closeempty" THEN unproven ELSE unproven \cup {c.sid}
             /\ Goto(p, "pidrm")
             /\ UNCHANGED <<call, lost, budget>>
          \/ /\ Succeeds(c)
             /\ ~closeMutatorOK(Args(p), kv[c.task]) \/ budget.faults > 0
             /\ budget' = [budget EXCEPT !.faults = IF @ > 0 THEN @ - 1 ELSE @]
             /\ lost' = lost \cup {c.task}
             /\ Return(p)
             /\ UNCHANGED <<kv, unproven>>
          \/ /\ ~Succeeds(c)
             /\ Goto(p, "unclaim")
             /\ UNCHANGED <<kv, call, unproven, lost, budget>>
       /\ UNCHANGED <<sess, rev, disk, watch, made, landed>>

removePidFile(p) ==
    /\ pc[p] = "pidrm"
    /\ pidfile' = [pidfile EXCEPT ![call[p].slot] = NoPid]
    /\ Goto(p, "del")
    /\ UNCHANGED <<sess, rev, kv, wt, recovery, call, watch, hist, budget>>

(* On success the worktree goes too, unless --keep-wt.                     *)
AfterDelete(p) ==
    \/ Succeeds(call[p]) /\ Goto(p, "preserve") /\ UNCHANGED call
    \/ Return(p)

(* deleteSessionRecord: delete by revision; on a conflict read the         *)
(* revision again and delete that.                                         *)
deleteSessionRecord(p) ==
    LET c == call[p]
    IN /\ pc[p] = "del"
       /\ \/ RevMatches(c.slot, c.rev) /\ Remove(c.slot) /\ AfterDelete(p)
          \/ /\ ~RevMatches(c.slot, c.rev)
             /\ Goto(p, "reget")
             /\ UNCHANGED <<sess, rev, call>>
       /\ UNCHANGED <<kv, disk, watch, hist, budget>>

rereadRevision(p) ==
    LET c == call[p]
    IN /\ pc[p] = "reget"
       /\ \/ Get(c.slot) = NoSession /\ AfterDelete(p)
          \/ /\ Get(c.slot) # NoSession /\ c.tries + 1 < MaxRetries
             /\ Set(p, [c EXCEPT !.rev = rev[c.slot], !.tries = @ + 1])
             /\ Goto(p, "del")
          \/ Get(c.slot) # NoSession /\ c.tries + 1 >= MaxRetries /\ Return(p)
       /\ UNCHANGED <<sess, rev, kv, disk, watch, hist, budget>>

(* Whatever is in the worktree is copied, then all of it is removed.       *)
preserveWorktree(p) ==
    /\ pc[p] = "preserve"
    /\ recovery' = recovery \cup {call[p].slot}
    /\ Goto(p, "wtrm")
    /\ UNCHANGED <<sess, rev, kv, wt, pidfile, call, watch, hist, budget>>

removeWorktree(p) ==
    /\ pc[p] = "wtrm"
    /\ wt' = [wt EXCEPT ![call[p].slot] = "absent"]
    /\ Return(p)
    /\ UNCHANGED <<sess, rev, kv, recovery, pidfile, watch, hist, budget>>

Local(h) == {s \in Slot : sess[s] # NoSession /\ sess[s].stale /\ sess[s].host = h}

(* `swarm reap`: findStale's snapshot, then one Resume and Close per slot. *)
findStale(p) == Start(p, "reap", [NoCall EXCEPT !.todo = Local(HostOf[p])], "next")

(* Mutant: a slot that cannot be closed is tried again.                    *)
ReapAgain(p) ==
    LET todo == call[p].todo
    IN /\ pc[p] = "next"
       /\ \/ /\ todo = {}
             /\ Goto(p, "idle") /\ Set(p, NoCall)
          \/ \E s \in todo :
                /\ Set(p, [call[p] EXCEPT !.slot = s,
                              !.todo = IF sess[s] = NoSession THEN @ \ {s} ELSE @])
                /\ Goto(p, "resume")
       /\ UNCHANGED <<sess, rev, kv, disk, watch, hist, budget>>

reapAll(p) ==
    LET todo == call[p].todo
    IN /\ pc[p] = "next"
       /\ \/ todo = {} /\ Goto(p, "idle") /\ Set(p, NoCall)
          \/ \E s \in todo :
                /\ Set(p, [call[p] EXCEPT !.slot = s, !.todo = @ \ {s}])
                /\ Goto(p, "resume")
       /\ UNCHANGED <<sess, rev, kv, disk, watch, hist, budget>>

(* `tasks close`: lookupSlotForTask picks the slot path or legacyClose.    *)
lookupSlotForTask(p) ==
    LET c == call[p]
        bound == {s \in Slot : sess[s] # NoSession /\ sess[s].task = c.task}
    IN /\ pc[p] = "lookup"
       /\ \/ \E s \in bound : Set(p, [c EXCEPT !.slot = s]) /\ Goto(p, "resume")
          \/ bound = {} /\ Goto(p, "legacy") /\ UNCHANGED call
       /\ UNCHANGED <<sess, rev, kv, disk, watch, hist, budget>>

closeLegacy(p) ==
    LET t == call[p].task
    IN /\ pc[p] = "legacy"
       /\ kv' = IF kv[t].status = "closed" THEN kv
                ELSE [kv EXCEPT ![t] = legacyClose([agent |-> NoAgent], @, 0)]
       /\ Return(p)
       /\ UNCHANGED <<sess, rev, disk, watch, hist, budget>>

-----------------------------------------------------------------------------
(* Cleanup without a lease: deleteByKey reads the revision and deletes it. *)

(* SlotCleanup of `bones cleanup --slot`; a record already gone is fine, a *)
(* conflict is an error.                                                   *)
cleanupGet(p) ==
    LET c == call[p]
    IN /\ pc[p] = "keyget"
       /\ IF Get(c.slot) = NoSession
          THEN Goto(p, "wtrm") /\ UNCHANGED call
          ELSE Set(p, [c EXCEPT !.rev = rev[c.slot]]) /\ Goto(p, "keydel")
       /\ UNCHANGED <<sess, rev, kv, disk, watch, hist, budget>>

cleanupDelete(p) ==
    LET c == call[p]
    IN /\ pc[p] = "keydel"
       /\ IF RevMatches(c.slot, c.rev)
          THEN Remove(c.slot) /\ Goto(p, "wtrm") /\ UNCHANGED call
          ELSE Return(p) /\ UNCHANGED <<sess, rev>>
       /\ UNCHANGED <<kv, disk, watch, hist, budget>>

(* TTLWatcher.tickOnce: the stale sessions of the hub's host.              *)
tickOnce ==
    /\ watch = {} /\ Local(HubHost) # {}
    /\ watch' = Local(HubHost)
    /\ UNCHANGED <<sess, rev, kv, disk, pc, call, hist, budget>>

(* Mutant: the watcher reaps through the lease, which needs the claim.     *)
ReapThroughLease(s) ==
    /\ s \in watch
    /\ watch' = watch \ {s}
    /\ IF sess[s] # NoSession /\ kv[sess[s].task].status = "open"
       THEN Remove(s) /\ wt' = [wt EXCEPT ![s] = "absent"]
       ELSE UNCHANGED <<sess, rev, wt>>
    /\ UNCHANGED <<kv, recovery, pidfile, pc, call, hist, budget>>

(* Its reapOne, for a slot of the snapshot: the record the slot has by now *)
(* is deleted, unless a write gets in between, and the worktree removed.   *)
reapOne(s) ==
    /\ s \in watch
    /\ watch' = watch \ {s}
    /\ \/ /\ IF sess[s] # NoSession THEN Remove(s) ELSE UNCHANGED <<sess, rev>>
          /\ wt' = [wt EXCEPT ![s] = "absent"]
       \/ /\ \E p \in Proc : Running(p) /\ call[p].slot = s
          /\ UNCHANGED <<sess, rev, wt>>
    /\ UNCHANGED <<kv, recovery, pidfile, pc, call, hist, budget>>

(* slotgc.PruneDead, run by hub start when no hub (and so no verb) is up:  *)
(* a slot directory goes when the process its pid file names is gone.      *)
PruneDead ==
    LET dead == {s \in Slot : pidfile[s] # NoPid}
    IN /\ \A p \in Proc : ~Running(p)
       /\ dead # {}
       /\ wt' = [s \in Slot |-> IF s \in dead THEN "absent" ELSE wt[s]]
       /\ pidfile' = [s \in Slot |-> NoPid]
       /\ UNCHANGED <<sess, rev, kv, recovery, pc, call, watch, hist, budget>>

-----------------------------------------------------------------------------
(* The environment.                                                        *)

(* No renewal for longer than the thresholds.                              *)
Age(s) ==
    /\ sess[s] # NoSession /\ ~sess[s].stale
    /\ sess' = [sess EXCEPT ![s].stale = TRUE]
    /\ UNCHANGED <<rev, kv, disk, pc, call, watch, hist, budget>>

(* The bucket's TTL removes the message; no marker is left.                *)
Evict(s) ==
    /\ sess[s] # NoSession /\ sess[s].stale
    /\ sess' = [sess EXCEPT ![s] = NoSession]
    /\ UNCHANGED <<rev, kv, disk, pc, call, watch, hist, budget>>

(* The agent edits files in its slot's worktree.                           *)
AgentWrites(s) ==
    /\ sess[s] # NoSession /\ wt[s] = "clean"
    /\ wt' = [wt EXCEPT ![s] = "dirty"]
    /\ recovery' = recovery \ {s}
    /\ UNCHANGED <<sess, rev, kv, pidfile, pc, call, watch, hist, budget>>

(* A process between its claim and its un-claim.                           *)
HasClaim(p) == pc[p] \in {"put", "pid", "land", "closetask", "unclaim"}

(* A verb is killed: what it claimed stays claimed.                        *)
Crash(p) ==
    /\ Running(p) /\ budget.crashes > 0
    /\ budget' = [budget EXCEPT !.crashes = @ - 1]
    /\ lost' = IF HasClaim(p) THEN lost \cup {call[p].task} ELSE lost
    /\ Goto(p, "idle") /\ Set(p, NoCall)
    /\ UNCHANGED <<sess, rev, kv, disk, watch, made, landed, unproven>>

-----------------------------------------------------------------------------
StartVerb(p) ==
    \/ \E s \in Slot, t \in Task : StartSwarm(p, s, t)
    \/ \E s \in Slot : StartSlot(p, s)
    \/ findStale(p)

Step(p) ==
    \/ clearExistingRecord(p) \/ clearDelete(p) \/ openLeafAndClaim(p)
    \/ putSession(p) \/ writePidFile(p) \/ ReleaseClaim(p) \/ probeReEntry(p)
    \/ Resume(p) \/ CommitLands(p) \/ bumpGet(p) \/ bumpPut(p)
    \/ checkArtifactPrecondition(p) \/ closeTask(p) \/ removePidFile(p)
    \/ deleteSessionRecord(p) \/ rereadRevision(p) \/ preserveWorktree(p)
    \/ removeWorktree(p) \/ reapAll(p) \/ lookupSlotForTask(p) \/ closeLegacy(p)
    \/ cleanupGet(p) \/ cleanupDelete(p)

Next ==
    \/ \E p \in Proc : StartVerb(p) \/ Step(p) \/ Crash(p)
    \/ tickOnce
    \/ \E s \in Slot : reapOne(s) \/ Age(s) \/ Evict(s) \/ AgentWrites(s)
    \/ PruneDead

Spec == Init /\ [][Next]_vars

(* A running verb is scheduled, time passes, and the hub's watcher ticks.  *)
Fairness ==
    /\ \A p \in Proc : WF_vars(Step(p))
    /\ \A s \in Slot : WF_vars(Age(s)) /\ WF_vars(reapOne(s))
    /\ WF_vars(tickOnce)

FairSpec == Spec /\ Fairness

-----------------------------------------------------------------------------
(* The types of the bucket, the task records, the disk and the verbs in    *)
(* flight.                                                                 *)
TypeOK ==
    /\ sess \in [Slot -> Session \cup {NoSession}]
    /\ rev \in [Slot -> Nat]
    /\ \E D \in SUBSET Task : kv \in [D -> TaskRec]
    /\ wt \in [Slot -> {"absent", "clean", "dirty"}]
    /\ recovery \subseteq Slot
    /\ pidfile \in [Slot -> Proc \cup {NoPid, "dead"}]
    /\ pc \in [Proc -> Label]
    /\ call \in [Proc -> CallRec]
    /\ watch \subseteq Slot
    /\ made \in Nat /\ landed \subseteq Nat /\ unproven \subseteq Nat
    /\ lost \subseteq Task
    /\ budget \in [verbs : Nat, crashes : Nat, faults : Nat]

(* While a verb has its claim the record is under the epoch it took, and   *)
(* claimed by its slot or closed: although a release compares the agent    *)
(* and not the epoch, and all verbs of a slot share one agent, no verb     *)
(* un-claims or takes over the claim of another.                           *)
ClaimFenced ==
    \A p \in Proc :
        HasClaim(p) =>
            /\ kv[call[p].task].claimEpoch = call[p].epoch
            /\ \/ kv[call[p].task].claimedBy = call[p].slot
               \/ kv[call[p].task].status = "closed"

(* No verb leaves its claim behind, however it ends: refused, in conflict, *)
(* failed halfway or done.  The exceptions are in lost: it was killed, or  *)
(* the claim, the close or the release itself failed.  No verb gives those *)
(* claims back.                                                            *)
ClaimsReturned ==
    \A t \in DOMAIN kv \ lost :
        kv[t].status = "claimed" => \E p \in Proc : HasClaim(p) /\ call[p].task = t

(* A session ends before another takes its slot: no write replaces a live  *)
(* record by that of another session, and a session that ended, however    *)
(* late a renewal of it arrives, does not come back.                       *)
SessionsNeverReplaced ==
    [][\A s \in Slot : sess'[s] \notin {NoSession, sess[s]} =>
          IF sess[s] = NoSession THEN sess'[s].id > made
          ELSE /\ sess'[s].id = sess[s].id
               /\ sess'[s].task = sess[s].task
               /\ sess'[s].host = sess[s].host]_vars

(* A session on the hub's host that nobody renews any more is removed, in  *)
(* whatever state its verbs left the task: a killed verb's claim makes     *)
(* every close and reap of the slot fail, and a closed task every verb.    *)
AbandonedCollected ==
    \A s \in Slot : <>[](sess[s] = NoSession \/ sess[s].host # HubHost)

(* Every verb ends: its retries, and the slots of a reap, run out.         *)
VerbsEnd == \A p \in Proc : Running(p) ~> ~Running(p)

-----------------------------------------------------------------------------
(* What the repository says and the model refutes.                         *)

(* ErrCloseRequiresArtifact: a session closed as success without           *)
(* --no-artifact has a commit of its own.                                  *)
SuccessHasArtifact == unproven = {}

(* The safety net of preserveWorktree: work that bones removes has a copy. *)
DestroyedWorkHasCopy ==
    [][\A s \in Slot : wt[s] = "dirty" /\ wt'[s] = "absent" => s \in recovery]_vars
=============================================================================
