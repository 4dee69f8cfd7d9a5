------------------------------- MODULE Trunk -------------------------------
(***************************************************************************)
(* The shared trunk: every slot has a fossil repository of its own, cloned *)
(* from the hub's, and a worktree extracted when it joins.  swarm commit   *)
(* ships files of the worktree as a checkin of the slot's repository and   *)
(* pushes it to the hub; swarm fan-in merges the leaves of the hub.        *)
(*                                                                         *)
(* A checkin is its place in log, in order of creation; the content of a   *)
(* file is the set of edits it holds, {} when the file does not exist.     *)
(* Claims and the per-path steps of the holds are in SwarmLease and Coord: *)
(* here all paths of a commit are announced in one step.                   *)
(***************************************************************************)
EXTENDS Naturals, Sequences, FiniteSets, FiniteSetsExt

CONSTANTS Slot,        \* slots
          Path,        \* file names
          Seeded,      \* the files of the hub's seed checkin
          Trunk,       \* the branch trunk; a slot names its agent branch
          Free,        \* nobody holds the path
          Autosyncs,   \* values --no-autosync takes: TRUE is the default
          MaxCommits,  \* bound: checkins, the seed included
          MaxEdits,    \* bound: edits made by agents
          MaxFaults    \* bound: round trips that fail, processes killed

ASSUME SlotAssumption == Trunk \notin Slot /\ Free \notin Slot
ASSUME SeedAssumption == Seeded \subseteq Path /\ Autosyncs \subseteq BOOLEAN
ASSUME BoundAssumption == MaxCommits \in Nat /\ MaxEdits \in Nat /\ MaxFaults \in Nat

VARIABLES
    synthetic, \* slots that commit on a branch of their own, fixed at the start
    log,      \* every checkin made so far
    hub,      \* the checkins in the hub's repository
    repo,     \* per slot, those in its leaf.fossil; {} before the clone
    wt,       \* per slot, its worktree
    joined,   \* slots whose worktree exists
    held,     \* the holds bucket
    pc, ship, \* per slot, where its swarm commit is and what it commits
    fan,      \* the leaves a running fan-in listed; {} when none runs
    todo,     \* those it has still to merge
    merge,    \* its private checkout: the checkin it will commit
    edits,    \* edits made so far
    behind,   \* history: slots whose pull another checkin has overtaken
    raced,    \* history: commits to trunk have overlapped
    fanned,   \* history: the fan-in listed trunk only and nothing came since
    faults    \* what is left of MaxFaults

slotVars == <<repo, wt, joined, held, pc, ship>>
fanVars == <<fan, todo, merge>>
histVars == <<behind, raced, fanned>>
vars == <<synthetic, log, hub, slotVars, fanVars, edits, histVars, faults>>

Edit == 0 .. MaxEdits

Tree == [Path -> SUBSET Edit]

EmptyTree == [p \in Path |-> {}]

(* cli tells the checkins of the fossil binary from those of libfossil;    *)
(* anc are the ancestors, the checkin included.                            *)
Checkin == [branch : Slot \cup {Trunk}, parents : SUBSET Nat, anc : SUBSET Nat,
            tree : Tree, cli : BOOLEAN]

Seed == [branch |-> Trunk, parents |-> {}, anc |-> {1}, cli |-> FALSE,
         tree |-> [p \in Path |-> IF p \in Seeded THEN {0} ELSE {}]]

NoShip == [files |-> {}, tree |-> EmptyTree, autosync |-> TRUE]

Init ==
    /\ synthetic \in SUBSET Slot
    /\ log = <<Seed>>
    /\ hub = {1}
    /\ repo = [s \in Slot |-> {}]
    /\ wt = [s \in Slot |-> EmptyTree]
    /\ joined = {}
    /\ held = [p \in Path |-> Free]
    /\ pc = [s \in Slot |-> "idle"]
    /\ ship = [s \in Slot |-> NoShip]
    /\ fan = {} /\ todo = {} /\ merge = Seed
    /\ edits = 0
    /\ behind = {} /\ raced = FALSE /\ fanned = FALSE
    /\ faults = MaxFaults

-----------------------------------------------------------------------------
(* What the fossil repositories answer.                                    *)

(* The head of a branch is its latest checkin, forked or not.              *)
Tip(R, b) == Max({c \in R : log[c].branch = b})

(* A leaf has no child on its own branch.                                  *)
Leaves(R) == {c \in R : ~\E d \in R : c \in log[d].parents /\ log[d].branch = log[c].branch}

Existing(t) == {p \in Path : t[p] # {}}

(* The branch tags a checkin carries.                                      *)
BranchOf(s) == IF s \in synthetic THEN s ELSE Trunk

Outside(R) == {c \in DOMAIN log : c \notin R /\ log[c].branch = Trunk}

-----------------------------------------------------------------------------
(* swarm join and swarm close, as far as the files go.  The clone happens  *)
(* only where there is no leaf.fossil yet, and nothing pulls: a slot that  *)
(* joins again starts from what its repository last saw.                   *)

Cloned(s) == IF repo[s] = {} THEN hub ELSE repo[s]

OpenWorktree(s) ==
    LET r == Cloned(s)
    IN /\ s \notin joined
       /\ repo' = [repo EXCEPT ![s] = r]
       /\ wt' = [wt EXCEPT ![s] = log[Tip(r, Trunk)].tree]
       /\ joined' = joined \cup {s}
       /\ UNCHANGED <<log, hub, held, pc, ship, fanVars, edits, histVars, faults>>

CloseWorktree(s) ==
    /\ s \in joined /\ pc[s] = "idle"
    /\ joined' = joined \ {s}
    /\ wt' = [wt EXCEPT ![s] = EmptyTree]
    /\ UNCHANGED <<log, hub, repo, held, pc, ship, fanVars, edits, histVars, faults>>

EditFile(s, p) ==
    /\ s \in joined /\ pc[s] = "idle" /\ edits < MaxEdits
    /\ edits' = edits + 1
    /\ wt' = [wt EXCEPT ![s][p] = @ \cup {edits + 1}]
    /\ UNCHANGED <<log, hub, repo, joined, held, pc, ship, fanVars, behind, raced, fanned, faults>>

-----------------------------------------------------------------------------
(* swarm commit: one file by name, or every regular file of the worktree.  *)

gatherCommitFiles(s, files) ==
    \/ \E p \in Existing(wt[s]) : files = {p}
    \/ files = Existing(wt[s]) /\ files # {}

(* A path that another slot holds refuses the commit, and nothing changes. *)
AnnounceHolds(s, files, autosync) ==
    /\ s \in joined /\ pc[s] = "idle" /\ Len(log) < MaxCommits
    /\ gatherCommitFiles(s, files)
    /\ \A p \in files : held[p] \in {s, Free}
    /\ held' = [p \in Path |-> IF p \in files THEN s ELSE held[p]]
    /\ ship' = [ship EXCEPT ![s] = [files |-> files, tree |-> wt[s], autosync |-> autosync]]
    /\ pc' = [pc EXCEPT ![s] = "pull"]
    /\ UNCHANGED <<log, hub, repo, wt, joined, fanVars, edits, histVars, faults>>

Return(s) ==
    /\ pc' = [pc EXCEPT ![s] = "idle"]
    /\ ship' = [ship EXCEPT ![s] = NoShip]

ReleaseHolds(s) == held' = [p \in Path |-> IF held[p] = s THEN Free ELSE held[p]]

(* Mutant: the commit goes on with the tip the slot last saw.              *)
PullIgnored(s) ==
    /\ pc' = [pc EXCEPT ![s] = "write"]
    /\ UNCHANGED <<log, hub, repo, wt, joined, held, ship, fanVars, edits, histVars>>

(* A pull that fails ends the commit.  A process killed here ends the same *)
(* way once its holds have expired.                                        *)
PullFails(s) ==
    /\ Return(s) /\ ReleaseHolds(s)
    /\ UNCHANGED <<log, hub, repo, wt, joined, fanVars, edits, histVars>>

pullFromHub(s) ==
    /\ pc[s] = "pull"
    /\ \/ /\ repo' = [repo EXCEPT ![s] = IF ship[s].autosync THEN @ \cup hub ELSE @]
          /\ pc' = [pc EXCEPT ![s] = "write"]
          /\ behind' = behind \ {s}
          /\ UNCHANGED <<log, hub, wt, joined, held, ship, fanVars, edits, raced, fanned, faults>>
       \/ /\ ship[s].autosync /\ faults > 0
          /\ faults' = faults - 1
          /\ PullFails(s)

(* The parent is the tip of trunk in the slot's repository, on whichever   *)
(* branch the checkin lands; the files of the parent that are not shipped  *)
(* are carried forward.                                                    *)
NewCheckin(s) ==
    LET parent == Tip(repo[s], Trunk)
    IN [branch |-> BranchOf(s), parents |-> {parent}, cli |-> FALSE,
        anc |-> log[parent].anc \cup {Len(log) + 1},
        tree |-> [p \in Path |-> IF p \in ship[s].files THEN ship[s].tree[p]
                                 ELSE log[parent].tree[p]]]

(* The holds are given back when commitViaLeaf returns, before the push.   *)
Commit(s) ==
    /\ pc[s] = "write" /\ Len(log) < MaxCommits
    /\ log' = Append(log, NewCheckin(s))
    /\ repo' = [repo EXCEPT ![s] = @ \cup {Len(log) + 1}]
    /\ ReleaseHolds(s)
    /\ pc' = [pc EXCEPT ![s] = "push"]
    /\ raced' = (raced \/ (BranchOf(s) = Trunk
                           /\ (s \in behind \/ ~ship[s].autosync \/ Outside(hub) # {})))
    /\ UNCHANGED <<hub, wt, joined, ship, fanVars, edits, behind, fanned, faults>>

(* A push that fails, or a process killed before it, leaves the checkin in *)
(* the slot's repository for a later push.                                 *)
Push(s) ==
    /\ pc[s] = "push"
    /\ Return(s)
    /\ \/ /\ hub' = hub \cup repo[s]
          /\ behind' = behind \cup {t \in Slot : pc[t] = "write"}
          /\ fanned' = FALSE
          /\ UNCHANGED faults
       \/ /\ faults > 0 /\ faults' = faults - 1
          /\ UNCHANGED <<hub, behind, fanned>>
    /\ UNCHANGED <<log, repo, wt, joined, held, fanVars, edits, raced>>

-----------------------------------------------------------------------------
(* swarm fan-in.  The checkout is private to it, so only the listing and   *)
(* the final commit meet the rest of the system.                           *)

(* Mutant: the newest of the others is not merged.                         *)
OthersButOne(leaves) == leaves \ {Max(leaves), Max(leaves \ {Max(leaves)})}

(* The most recent leaf is canonical; the others are merged into it.       *)
Others(leaves) == leaves \ {Max(leaves)}

(* Every branch is listed.  The checkout is opened at the canonical leaf,  *)
(* and the merge will land on its branch.                                  *)
openLeavesOnTrunk ==
    LET leaves == Leaves(hub)
        canonical == Max(leaves)
    IN /\ fan = {} /\ Cardinality(leaves) > 1 /\ Len(log) < MaxCommits
       /\ fan' = leaves
       /\ todo' = Others(leaves)
       /\ merge' = [log[canonical] EXCEPT !.parents = {canonical}, !.cli = TRUE]
       /\ fanned' = FALSE
       /\ UNCHANGED <<log, hub, slotVars, edits, behind, raced, faults>>

(* A three-way merge of one file.  Both sides changed: their edits are     *)
(* combined, or they conflict and the commit is refused (FanInFails).      *)
MergeFile(base, ours, theirs) ==
    IF theirs = base THEN ours ELSE IF ours = base THEN theirs ELSE ours \cup theirs

Pivot(x, y) == Max(x.anc \cap y.anc)

(* Mutant: the files are merged and the leaf is not made a parent.         *)
CherryPick(x, c) ==
    LET b == log[Pivot(x, log[c])].tree
    IN [x EXCEPT !.tree = [p \in Path |-> MergeFile(b[p], x.tree[p], log[c].tree[p])]]

MergeOne(x, c) ==
    LET y == log[c]
        b == log[Pivot(x, y)].tree
    IN [x EXCEPT !.parents = @ \cup {c}, !.anc = @ \cup y.anc,
                 !.tree = [p \in Path |-> MergeFile(b[p], x.tree[p], y.tree[p])]]

(* One leaf after the other, the most recent first.                        *)
mergeLeaf ==
    /\ todo # {}
    /\ merge' = MergeOne(merge, Max(todo))
    /\ todo' = todo \ {Max(todo)}
    /\ UNCHANGED <<log, hub, slotVars, fan, edits, histVars, faults>>

FanInEnds == fan' = {} /\ todo' = {} /\ merge' = Seed

(* fossil refuses a commit that would fork the branch.                     *)
mergeLeaves ==
    /\ fan # {} /\ todo = {} /\ Len(log) < MaxCommits
    /\ Max(fan) \in Leaves(hub)
    /\ log' = Append(log, [merge EXCEPT !.anc = @ \cup {Len(log) + 1}])
    /\ hub' = hub \cup {Len(log) + 1}
    /\ FanInEnds
    /\ behind' = behind \cup {s \in Slot : pc[s] = "write"}
    /\ raced' = (raced \/ Outside(hub) # {})
    /\ fanned' = (Leaves(hub) = fan /\ \A c \in fan : log[c].branch = Trunk)
    /\ UNCHANGED <<slotVars, edits, faults>>

(* A merge or the commit fails, or the process is killed.                  *)
FanInFails ==
    /\ fan # {}
    /\ FanInEnds
    /\ UNCHANGED <<log, hub, slotVars, edits, histVars, faults>>

-----------------------------------------------------------------------------
Step ==
    \/ \E s \in Slot :
        \/ OpenWorktree(s)
        \/ CloseWorktree(s)
        \/ \E p \in Path : EditFile(s, p)
        \/ \E files \in SUBSET Path, a \in Autosyncs : AnnounceHolds(s, files, a)
        \/ pullFromHub(s)
        \/ Commit(s)
        \/ Push(s)
    \/ openLeavesOnTrunk
    \/ mergeLeaf
    \/ mergeLeaves
    \/ FanInFails

Next == Step /\ UNCHANGED synthetic

Spec == Init /\ [][Next]_vars

-----------------------------------------------------------------------------
(* The types of the repositories, the worktrees and the commits under way. *)
TypeOK ==
    /\ synthetic \subseteq Slot
    /\ log \in Seq(Checkin)
    /\ hub \subseteq DOMAIN log /\ 1 \in hub
    /\ repo \in [Slot -> SUBSET DOMAIN log]
    /\ wt \in [Slot -> Tree] /\ joined \subseteq Slot
    /\ held \in [Path -> Slot \cup {Free}]
    /\ pc \in [Slot -> {"idle", "pull", "write", "push"}]
    /\ ship \in [Slot -> [files : SUBSET Path, tree : Tree, autosync : BOOLEAN]]
    /\ fan \subseteq hub /\ todo \subseteq fan /\ merge \in Checkin
    /\ behind \subseteq Slot /\ raced \in BOOLEAN /\ fanned \in BOOLEAN
    /\ edits \in Edit /\ faults \in 0 .. MaxFaults

(* With autosync a commit "advances a shared trunk": the hub's trunk has a *)
(* second leaf only if commits overlapped, that is, if some commit was     *)
(* made without a pull, or while another checkin had not reached the hub,  *)
(* or after one had arrived since the pull.  In particular a failed pull,  *)
(* a slot that joins again over an old repository and a late push of a     *)
(* checkin whose first push failed never fork a trunk by themselves        *)
(* (Leaf.Commit, pullFromHub, Push).                                       *)
ForksExplained ==
    Cardinality({c \in Leaves(hub) : log[c].branch = Trunk}) > 1 => raced

(* After a fan-in over leaves of trunk that nothing raced with, one leaf   *)
(* is left and every checkin of the hub's trunk is among its ancestors     *)
(* (mergeLeaves: canonical and all the others).                            *)
FanInCollapses ==
    fanned => /\ Cardinality(Leaves(hub)) = 1
              /\ \A c \in hub : c \in log[Max(hub)].anc

(* A merge keeps what only one leaf has: an edit that no ancestor of the   *)
(* other leaves ever held is in the merged file, whichever leaf is         *)
(* canonical (mergeLeaves; the merge itself is fossil's).                  *)
FanInKeepsWork ==
    [][mergeLeaves =>
         \A c \in fan, p \in Path : \A e \in log[c].tree[p] :
            \/ e \in log'[Len(log')].tree[p]
            \/ \E d \in fan \ {c} : \E a \in log[d].anc : e \in log[a].tree[p]]_vars

=============================================================================
