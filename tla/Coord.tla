-------------------------------- MODULE Coord --------------------------------
(***************************************************************************)
(* internal/coord: the claim lifecycle over three shared stores, the task  *)
(* records, the file holds and the presence entries.  A process is one     *)
(* open Coord (a leaf).  A call is a sequence of substrate steps, and other *)
(* processes may act between any two of them: the task CAS first, then one *)
(* Announce per file, then, on failure, the rollback of each and the undo  *)
(* CAS.  Each of these may fail while the process lives, because the       *)
(* caller's ctx is cancelled or NATS does not answer; the code goes on      *)
(* without what a failed rollback, undo or release should have done.       *)
(*                                                                         *)
(* One task CAS, one Announce and one Release are single steps here:       *)
(* TaskLog and Holds have them at round-trip grain, and Holds_proofs shows *)
(* that Announce is a single step of HoldSpec.                             *)
(***************************************************************************)
EXTENDS TaskRecord, FiniteSets

CONSTANTS Proc,       \* processes
          AgentOf,    \* the agent identity each runs under
          ProjectOf,  \* agent -> the project its identity starts with
          File,       \* file paths
          FilesOf,    \* the files each task record lists, in record order
          Calls,      \* the verbs the processes of this instance call
          MaxEpoch,   \* bound: claims of one task
          MaxMishaps, \* bound: holds and presence entries lost, and calls that fail
          MaxExits    \* bound: process exits

Verb == {"claim", "reclaim", "handoff", "commit", "close"}

ASSUME ProcAssumption == AgentOf \in [Proc -> Agent]
ASSUME ProjectAssumption == DOMAIN ProjectOf = Agent
ASSUME FilesAssumption == FilesOf \in [Task -> Seq(File) \ {<<>>}]
ASSUME CallsAssumption == Calls \subseteq Verb
ASSUME BoundAssumption ==
    MaxEpoch \in Nat /\ MaxMishaps \in Nat /\ MaxExits \in Nat

VARIABLES
    kv,            \* the task records
    hold,          \* file -> holder
    present,       \* agents with a presence entry
    alive,         \* processes that are running
    pc, call,      \* where each process is in its call, and the call's locals
    closure,       \* tasks whose release closure the process has
    activeEpochs,  \* Coord.activeEpochs; 0 = absent
    exposed,       \* history: processes that lost a hold their commit has looked at
    stray,         \* history: files whose hold a failed call has left in the bucket
    stuck,         \* history: claimed tasks whose un-claim has failed
    mishaps

storeVars == <<kv, hold>>
procVars == <<closure, activeEpochs>>
histVars == <<exposed, stray, stuck>>
envVars == <<present, alive, mishaps>>
vars == <<storeVars, pc, call, procVars, histVars, envVars>>

(* op, task and prev are the call's arguments; i is the loop index over    *)
(* the task's files; held is what it has announced and not yet released,   *)
(* or, in a commit, the files it has found held; todo is what the commit's *)
(* hold-gate has still to look at.                                         *)
CallRec == [op : Verb \cup {"release"}, task : Task, prev : AgentOrNone,
            i : Nat, held : SUBSET File, todo : SUBSET File]

NoCall == [op |-> "claim", task |-> CHOOSE t \in Task : TRUE,
           prev |-> NoAgent, i |-> 0, held |-> {}, todo |-> {}]

Label == {"idle", "cas", "dropold", "announce", "rollback", "undo",
          "unclaim", "drop", "check", "gate", "commit"}

FileSet(t) == {FilesOf[t][i] : i \in DOMAIN FilesOf[t]}

Init ==
    /\ kv = [t \in Task |-> FreshRecord(0)]
    /\ hold = [f \in File |-> NoAgent]
    /\ present = {AgentOf[p] : p \in Proc}
    /\ alive = Proc
    /\ pc = [p \in Proc |-> "idle"]
    /\ call = [p \in Proc |-> NoCall]
    /\ closure = [p \in Proc |-> {}]
    /\ activeEpochs = [p \in Proc |-> [t \in Task |-> 0]]
    /\ exposed = {} /\ stray = {} /\ stuck = {}
    /\ mishaps = 0

-----------------------------------------------------------------------------
Goto(p, label) == pc' = [pc EXCEPT ![p] = label]

Return(p) == Goto(p, "idle") /\ call' = [call EXCEPT ![p] = NoCall]

Starts(p, op) == p \in alive /\ pc[p] = "idle" /\ op \in Calls

(* The mutators' argument record for process p on task t.                  *)
Args(p, t, op, from) ==
    [op |-> op, agent |-> AgentOf[p], epoch |-> activeEpochs[p][t], from |-> from]

(* One file loses its holder.  Commits of that agent whose hold-gate has   *)
(* looked at it are no longer covered by it.                               *)
Drop(f) ==
    /\ hold' = [hold EXCEPT ![f] = NoAgent]
    /\ stray' = stray \ {f}
    /\ exposed' = exposed \cup
          {p \in Proc : AgentOf[p] = hold[f] /\ f \in call[p].held
                        /\ pc[p] \in {"check", "gate", "commit"}}

(* holds.Release(f, a): nothing happens unless a is the holder.            *)
ReleaseHold(f, a) ==
    IF hold[f] = a THEN Drop(f) ELSE UNCHANGED <<hold, exposed, stray>>

-----------------------------------------------------------------------------
(* Claim, Reclaim, HandoffClaim.                                           *)

(* A process keeps one closure per task; claims of a task are bounded.     *)
MayStart(p, t, op) ==
    Starts(p, op) /\ t \notin closure[p] /\ kv[t].claimEpoch < MaxEpoch

(* The task CAS of any of the three, when its mutator accepts: the record  *)
(* is claimed under a new epoch, which the Coord remembers.                *)
TaskCAS(p, t, op, prev) ==
    /\ Accepts(Args(p, t, op, prev), kv[t])
    /\ kv' = [kv EXCEPT ![t] = Mutate(Args(p, t, op, prev), @, 0)]
    /\ activeEpochs' = [activeEpochs EXCEPT ![p][t] = kv[t].claimEpoch + 1]
    /\ call' = [call EXCEPT ![p] =
                   [NoCall EXCEPT !.op = op, !.task = t, !.prev = prev, !.i = 1]]
    /\ stuck' = stuck \ {t}
    /\ UNCHANGED <<hold, closure, exposed, stray, envVars>>

(* acquireTaskCAS: its pre-read refuses what claimMutator refuses.         *)
Claim(p, t) ==
    /\ MayStart(p, t, "claim")
    /\ TaskCAS(p, t, "claim", NoAgent)
    /\ Goto(p, "announce")

HandoffClaim(p, t, from) ==
    /\ MayStart(p, t, "handoff")
    /\ TaskCAS(p, t, "handoff", from)
    /\ Goto(p, "dropold")

(* presence.Who: the entries of the asking agent's own project.            *)
Who(p) == {a \in present : ProjectOf[a] = ProjectOf[AgentOf[p]]}

(* prepareReclaim: the claimer is read, and found absent from presence.    *)
PrepareReclaim(p, t) ==
    /\ MayStart(p, t, "reclaim")
    /\ kv[t].status = "claimed" /\ kv[t].claimedBy # AgentOf[p]
    /\ kv[t].claimedBy \notin Who(p)
    /\ call' = [call EXCEPT ![p] = [NoCall EXCEPT !.op = "reclaim", !.task = t,
                                                  !.prev = kv[t].claimedBy]]
    /\ Goto(p, "cas")
    /\ UNCHANGED <<storeVars, procVars, histVars, envVars>>

(* reclaimMutator looks at the record again, at neither prev nor presence. *)
ReclaimCAS(p) ==
    /\ pc[p] = "cas"
    /\ TaskCAS(p, call[p].task, "reclaim", call[p].prev)
    /\ Goto(p, "dropold")

ReclaimRefused(p) ==
    /\ pc[p] = "cas"
    /\ ~Accepts(Args(p, call[p].task, "reclaim", NoAgent), kv[call[p].task])
    /\ Return(p)
    /\ UNCHANGED <<storeVars, procVars, histVars, envVars>>

(* releaseOldHolds, one file: Release on behalf of the previous claimer.   *)
ReleaseOldHold(p) ==
    LET c == call[p]
        files == FilesOf[c.task]
    IN /\ pc[p] = "dropold"
       /\ ReleaseHold(files[c.i], c.prev)
       /\ IF c.i < Len(files)
          THEN call' = [call EXCEPT ![p].i = @ + 1] /\ UNCHANGED pc
          ELSE call' = [call EXCEPT ![p].i = 1] /\ Goto(p, "announce")
       /\ UNCHANGED <<kv, procVars, stuck, envVars>>

MayHold(p, f) == hold[f] \in {NoAgent, AgentOf[p]}

(* claimAll, one file.  After the last one the closure is handed out.      *)
Announce(p) ==
    LET c == call[p]
        files == FilesOf[c.task]
    IN /\ pc[p] = "announce"
       /\ MayHold(p, files[c.i])
       /\ hold' = [hold EXCEPT ![files[c.i]] = AgentOf[p]]
       /\ stray' = stray \ {files[c.i]}
       /\ IF c.i < Len(files)
          THEN /\ call' = [call EXCEPT ![p].i = @ + 1, ![p].held = @ \cup {files[c.i]}]
               /\ UNCHANGED <<pc, closure>>
          ELSE /\ closure' = [closure EXCEPT ![p] = @ \cup {c.task}]
               /\ Return(p)
       /\ UNCHANGED <<kv, activeEpochs, exposed, stuck, envVars>>

(* Mutant: wait for the holder instead of failing.                         *)
AnnounceWaits(p) == FALSE /\ UNCHANGED vars

(* ErrHeldByAnother: what was announced is rolled back.                    *)
AnnounceHeld(p) ==
    LET c == call[p]
    IN /\ pc[p] = "announce"
       /\ ~MayHold(p, FilesOf[c.task][c.i])
       /\ Goto(p, "rollback")
       /\ UNCHANGED <<storeVars, call, procVars, histVars, envVars>>

(* The file the rollback and release loops come to next, in record order.  *)
NextHeld(c) ==
    LET i == CHOOSE i \in DOMAIN FilesOf[c.task] :
                 /\ FilesOf[c.task][i] \in c.held
                 /\ \A j \in 1 .. i - 1 : FilesOf[c.task][j] \notin c.held
    IN FilesOf[c.task][i]

(* holds.Release of that file, by its own agent.                           *)
GiveBack(p) ==
    LET f == NextHeld(call[p])
    IN /\ ReleaseHold(f, AgentOf[p])
       /\ call' = [call EXCEPT ![p].held = @ \ {f}]
       /\ UNCHANGED pc

(* Mutant: rollback forgets the last file announced.                       *)
RollbackOneShort(p) ==
    /\ pc[p] = "rollback"
    /\ IF Cardinality(call[p].held) > 1
       THEN GiveBack(p)
       ELSE /\ Goto(p, "undo")
            /\ call' = [call EXCEPT ![p].held = {}]
            /\ UNCHANGED <<hold, exposed, stray>>
    /\ UNCHANGED <<kv, procVars, stuck, envVars>>

(* rollback, one file.                                                     *)
Rollback(p) ==
    /\ pc[p] = "rollback"
    /\ IF call[p].held # {}
       THEN GiveBack(p)
       ELSE Goto(p, "undo") /\ UNCHANGED <<call, hold, exposed, stray>>
    /\ UNCHANGED <<kv, procVars, stuck, envVars>>

(* The un-claim CAS of undoTaskCAS and releaseTaskCAS: only the agent is   *)
(* compared, not the epoch.                                                *)
Unclaim(p, t) ==
    IF unclaimMutatorOK(Args(p, t, "unclaim", NoAgent), kv[t])
    THEN kv' = [kv EXCEPT ![t] = Unclaimed(@)] /\ stuck' = stuck \ {t}
    ELSE UNCHANGED <<kv, stuck>>

(* Mutant: the record is left claimed.                                     *)
UndoForgotten(p) ==
    /\ pc[p] = "undo"
    /\ activeEpochs' = [activeEpochs EXCEPT ![p][call[p].task] = 0]
    /\ Return(p)
    /\ UNCHANGED <<kv, hold, closure, histVars, envVars>>

undoTaskCAS(p) ==
    /\ pc[p] = "undo"
    /\ Unclaim(p, call[p].task)
    /\ activeEpochs' = [activeEpochs EXCEPT ![p][call[p].task] = 0]
    /\ Return(p)
    /\ UNCHANGED <<hold, closure, exposed, stray, envVars>>

-----------------------------------------------------------------------------
(* The release closure, and Leaf.Close which runs it after CloseTask.      *)

Release(p, t) ==
    /\ p \in alive /\ pc[p] = "idle" /\ t \in closure[p]
    /\ call' = [call EXCEPT ![p] = [NoCall EXCEPT !.op = "release", !.task = t,
                                                  !.held = FileSet(t)]]
    /\ Goto(p, "unclaim")
    /\ UNCHANGED <<storeVars, procVars, histVars, envVars>>

releaseTaskCAS(p) ==
    /\ pc[p] = "unclaim"
    /\ Unclaim(p, call[p].task)
    /\ Goto(p, "drop")
    /\ UNCHANGED <<hold, call, procVars, exposed, stray, envVars>>

(* releaseHolds, one file; after the last one the epoch is forgotten.  The *)
(* closure is a sync.Once: it is spent, whatever has failed in it.         *)
releaseHolds(p) ==
    LET c == call[p]
    IN /\ pc[p] = "drop"
       /\ IF c.held # {}
          THEN GiveBack(p) /\ UNCHANGED procVars
          ELSE /\ closure' = [closure EXCEPT ![p] = @ \ {c.task}]
               /\ activeEpochs' = [activeEpochs EXCEPT ![p][c.task] = 0]
               /\ Return(p)
               /\ UNCHANGED <<hold, exposed, stray>>
       /\ UNCHANGED <<kv, stuck, envVars>>

(* CloseTask under closeMutator's fence; a refusal leaves the claim with   *)
(* its closure.                                                            *)
Close(p, t) ==
    LET x == Args(p, t, "close", NoAgent)
    IN /\ Starts(p, "close") /\ t \in closure[p]
       /\ closeMutatorOK(x, kv[t])
       /\ kv' = [kv EXCEPT ![t] = applyClose(x, @, 0)]
       /\ stuck' = stuck \ {t}
       /\ call' = [call EXCEPT ![p] = [NoCall EXCEPT !.op = "release", !.task = t,
                                                     !.held = FileSet(t)]]
       /\ Goto(p, "unclaim")
       /\ UNCHANGED <<hold, procVars, exposed, stray, envVars>>

-----------------------------------------------------------------------------
(* The same steps, failing in a process that lives on.                     *)

(* Any other error of Announce: the put has not landed, or it has and its  *)
(* answer is lost, and then the rollback does not know of the file.        *)
AnnounceFails(p) ==
    LET f == FilesOf[call[p].task][call[p].i]
    IN /\ pc[p] = "announce"
       /\ \/ UNCHANGED <<hold, stray>>
          \/ /\ MayHold(p, f)
             /\ hold' = [hold EXCEPT ![f] = AgentOf[p]]
             /\ stray' = stray \cup {f}
       /\ Goto(p, "rollback")
       /\ UNCHANGED <<kv, call, procVars, exposed, stuck>>

(* releaseOldHolds, rollback and releaseHolds drop the error of a Release, *)
(* or keep it for the closure's result, and go on with the next file.      *)
ReleaseOldFails(p) ==
    LET c == call[p]
    IN /\ pc[p] = "dropold"
       /\ IF c.i < Len(FilesOf[c.task])
          THEN call' = [call EXCEPT ![p].i = @ + 1] /\ UNCHANGED pc
          ELSE call' = [call EXCEPT ![p].i = 1] /\ Goto(p, "announce")
       /\ UNCHANGED <<storeVars, procVars, histVars>>

ReleaseFails(p) ==
    LET f == NextHeld(call[p])
    IN /\ pc[p] \in {"rollback", "drop"} /\ call[p].held # {}
       /\ f \in call[p].held
       /\ call' = [call EXCEPT ![p].held = @ \ {f}]
       /\ stray' = IF hold[f] = AgentOf[p] THEN stray \cup {f} ELSE stray
       /\ UNCHANGED <<storeVars, pc, procVars, exposed, stuck>>

(* The un-claim transaction fails: undoTaskCAS forgets the epoch all the   *)
(* same and returns, the closure goes on to the holds.                     *)
UnclaimFails(p) ==
    LET t == call[p].task
    IN /\ pc[p] \in {"undo", "unclaim"}
       /\ stuck' = IF unclaimMutatorOK(Args(p, t, "unclaim", NoAgent), kv[t])
                   THEN stuck \cup {t} ELSE stuck
       /\ IF pc[p] = "undo"
          THEN activeEpochs' = [activeEpochs EXCEPT ![p][t] = 0] /\ Return(p)
          ELSE Goto(p, "drop") /\ UNCHANGED <<activeEpochs, call>>
       /\ UNCHANGED <<storeVars, closure, exposed, stray>>

-----------------------------------------------------------------------------
(* Leaf.Commit: hold-gate, epoch-gate, then the write.                     *)

checkHolds(p, t, files) ==
    /\ Starts(p, "commit") /\ t \in closure[p]
    /\ call' = [call EXCEPT ![p] = [NoCall EXCEPT !.op = "commit", !.task = t,
                                                  !.todo = files]]
    /\ exposed' = exposed \ {p}
    /\ Goto(p, "check")
    /\ UNCHANGED <<storeVars, procVars, stray, stuck, envVars>>

(* Mutant: somebody holds the file, but it need not be the caller.         *)
HeldByAny(p) ==
    /\ pc[p] = "check"
    /\ \E f \in call[p].todo :
          /\ hold[f] # NoAgent
          /\ call' = [call EXCEPT ![p].todo = @ \ {f}, ![p].held = @ \cup {f}]
          /\ IF call[p].todo = {f} THEN Goto(p, "gate") ELSE UNCHANGED pc
    /\ UNCHANGED <<storeVars, procVars, histVars, envVars>>

(* One WhoHas of its loop, in the order the caller lists the files.        *)
WhoHas(p) ==
    /\ pc[p] = "check"
    /\ \E f \in call[p].todo :
          /\ hold[f] = AgentOf[p]
          /\ call' = [call EXCEPT ![p].todo = @ \ {f}, ![p].held = @ \cup {f}]
          /\ IF call[p].todo = {f} THEN Goto(p, "gate") ELSE UNCHANGED pc
    /\ UNCHANGED <<storeVars, procVars, histVars, envVars>>

(* ErrNotHeld, or an error of the read: one such file and nothing is       *)
(* committed, whatever the rest of the loop reads.                         *)
CommitRefused(p) ==
    /\ pc[p] = "check"
    /\ Return(p)
    /\ UNCHANGED <<storeVars, procVars, histVars, envVars>>

checkEpoch(p) ==
    /\ pc[p] = "gate"
    /\ IF kv[call[p].task].claimEpoch = activeEpochs[p][call[p].task]
       THEN Goto(p, "commit") /\ UNCHANGED call
       ELSE Return(p)
    /\ UNCHANGED <<storeVars, procVars, histVars, envVars>>

(* The checkin lands in the repository.                                    *)
CommitLands(p) ==
    /\ pc[p] = "commit"
    /\ Return(p)
    /\ UNCHANGED <<storeVars, procVars, histVars, envVars>>

-----------------------------------------------------------------------------
(* The environment: leases run out, processes stop and presence follows.   *)

HoldLapses(f) ==
    /\ hold[f] # NoAgent /\ mishaps < MaxMishaps
    /\ mishaps' = mishaps + 1
    /\ Drop(f)
    /\ UNCHANGED <<kv, pc, call, procVars, stuck, present, alive>>

(* A clean exit (Coord.Close: presence.Close deletes the entry, closures   *)
(* that run later are swallowed as ErrClosed) or a crash (the entry stays  *)
(* until its TTL).  Claims and holds stay behind either way.               *)
Exit(p, clean) ==
    /\ p \in alive /\ Cardinality(Proc \ alive) < MaxExits
    /\ clean => pc[p] = "idle"
    /\ alive' = alive \ {p}
    /\ present' = IF clean THEN present \ {AgentOf[p]} ELSE present
    /\ Return(p)
    /\ closure' = [closure EXCEPT ![p] = {}]
    /\ activeEpochs' = [activeEpochs EXCEPT ![p] = [t \in Task |-> 0]]
    /\ UNCHANGED <<storeVars, histVars, mishaps>>

(* The bucket's TTL removes an entry that nobody renews any more, or whose *)
(* process is running and was paused or cut off for that long.             *)
PresenceLapses(a) ==
    /\ a \in present
    /\ \/ (\A p \in alive : AgentOf[p] # a) /\ UNCHANGED mishaps
       \/ mishaps < MaxMishaps /\ mishaps' = mishaps + 1
    /\ present' = present \ {a}
    /\ UNCHANGED <<storeVars, pc, call, procVars, histVars, alive>>

(* A running process's next heartbeat.                                     *)
Heartbeat(p) ==
    /\ p \in alive /\ AgentOf[p] \notin present
    /\ present' = present \cup {AgentOf[p]}
    /\ UNCHANGED <<storeVars, pc, call, procVars, histVars, alive, mishaps>>

-----------------------------------------------------------------------------
Call(p) ==
    \E t \in Task :
        \/ Claim(p, t)
        \/ \E a \in Agent : HandoffClaim(p, t, a)
        \/ PrepareReclaim(p, t)
        \/ Release(p, t)
        \/ Close(p, t)
        \/ \E files \in SUBSET FileSet(t) \ {{}} : checkHolds(p, t, files)

Step(p) ==
    \/ ReclaimCAS(p)
    \/ ReclaimRefused(p)
    \/ ReleaseOldHold(p)
    \/ Announce(p)
    \/ AnnounceHeld(p)
    \/ Rollback(p)
    \/ undoTaskCAS(p)
    \/ releaseTaskCAS(p)
    \/ releaseHolds(p)
    \/ WhoHas(p)
    \/ CommitRefused(p)
    \/ checkEpoch(p)
    \/ CommitLands(p)

Fault(p) ==
    /\ mishaps < MaxMishaps /\ mishaps' = mishaps + 1
    /\ \/ AnnounceFails(p)
       \/ ReleaseOldFails(p)
       \/ ReleaseFails(p)
       \/ UnclaimFails(p)
    /\ UNCHANGED <<present, alive>>

Next ==
    \/ \E p \in Proc : Call(p) \/ Step(p) \/ Fault(p) \/ Heartbeat(p)
    \/ \E p \in Proc, clean \in BOOLEAN : Exit(p, clean)
    \/ \E f \in File : HoldLapses(f)
    \/ \E a \in Agent : PresenceLapses(a)

Spec == Init /\ [][Next]_vars

-----------------------------------------------------------------------------
(* The types of the stores, the calls in flight and presence under every   *)
(* verb of Coord.                                                          *)
TypeOK ==
    /\ kv \in [Task -> TaskRec]
    /\ hold \in [File -> AgentOrNone]
    /\ present \subseteq Agent
    /\ alive \subseteq Proc
    /\ pc \in [Proc -> Label]
    /\ call \in [Proc -> CallRec]
    /\ closure \in [Proc -> SUBSET Task]
    /\ activeEpochs \in [Proc -> [Task -> Nat]]
    /\ exposed \subseteq Proc /\ stray \subseteq File /\ stuck \subseteq Task
    /\ mishaps \in Nat

(* What a process still has to give back: a claim in progress or a release *)
(* in progress, and the closures it was handed.                            *)
Claiming(p) ==
    IF pc[p] \in {"dropold", "announce", "rollback", "undo", "unclaim"}
    THEN closure[p] \cup {call[p].task} ELSE closure[p]

Carries(p) ==
    (IF pc[p] \in {"announce", "rollback", "drop", "unclaim"} THEN call[p].held ELSE {})
    \cup UNION {FileSet(t) : t \in closure[p]}

(* Agents that have lost a process: what it left behind waits for the lease *)
(* to run out, or for a Reclaim.                                           *)
Bereft == {AgentOf[p] : p \in Proc \ alive}

(* No hold is leaked by the order of things: whoever holds a file has a    *)
(* process that will give it back, however its claim was refused, rolled   *)
(* back, taken over or released, unless the very call that should have     *)
(* given it back, or recorded it as held, has failed.                      *)
HoldsAccounted ==
    \A f \in File :
        hold[f] \in Bereft \cup {NoAgent}
        \/ f \in stray
        \/ \E p \in alive : AgentOf[p] = hold[f] /\ f \in Carries(p)

(* Invariant 6: no claim is stuck.  A record says claimed only while some  *)
(* process of that agent will still un-claim or close it, or since its     *)
(* un-claim has failed.                                                    *)
ClaimsAccounted ==
    \A t \in Task :
        kv[t].status = "claimed" =>
            \/ kv[t].claimedBy \in Bereft
            \/ t \in stuck
            \/ \E p \in alive : AgentOf[p] = kv[t].claimedBy /\ t \in Claiming(p)

(* Invariant 20, over the whole commit, from the first file its hold-gate  *)
(* finds held: two agents rely on the hold of one file only if one of them *)
(* has lost a hold it had found, be it while the gate looked at the next.  *)
CommitsExclusive ==
    \A p, q \in Proc \ exposed :
        /\ pc[p] \in {"check", "gate", "commit"} /\ pc[q] \in {"check", "gate", "commit"}
        /\ AgentOf[p] # AgentOf[q]
        => call[p].held \cap call[q].held = {}

(* Claims of tasks with overlapping files, listed in whatever order, never *)
(* wait for each other: a call in progress can always take its next step,  *)
(* and needs no failure for it.                                            *)
NobodyWaits == \A p \in Proc : pc[p] # "idle" => ENABLED Step(p)

-----------------------------------------------------------------------------
(* What docs/invariants.md 6 says of a claim, and failed calls refute: it  *)
(* "either secures every requested file or secures none. Partial           *)
(* acquisition is rolled back before the error return."                    *)
ClaimAtomic ==
    [][\A p \in alive' :
          /\ pc[p] = "undo" /\ pc'[p] = "idle"
          /\ closure[p] = {} /\ \A q \in Proc \ {p} : AgentOf[q] # AgentOf[p]
          => /\ \A f \in FileSet(call[p].task) : hold'[f] # AgentOf[p]
             /\ kv'[call[p].task].claimedBy # AgentOf[p]]_vars

(* What the repository says and the model refutes: Reclaim's precondition  *)
(* that "the current claimed_by agent must be absent from coord.Who".      *)
ReclaimSparesLive ==
    [][\A p \in Proc : pc[p] = "cas" /\ pc'[p] = "dropold"
          => kv[call[p].task].claimedBy \notin present]_vars
=============================================================================
