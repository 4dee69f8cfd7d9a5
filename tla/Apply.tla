------------------------------- MODULE Apply -------------------------------
(***************************************************************************)
(* bones apply: the files of the hub's trunk, or of one synthetic slot's   *)
(* branch, are written into the operator's git working tree while the      *)
(* swarm commits and the operator edits.  Module Trunk has the swarm; here *)
(* a branch may move to any tree at any time.  Init, Next, Spec and TypeOK *)
(* carry the module's name: Repos_proofs extends Trunk and this module.    *)
(*                                                                         *)
(* Of git: the content of each path in the working tree and in HEAD, and   *)
(* the paths in the index.  One apply runs at a time.                      *)
(***************************************************************************)
EXTENDS Naturals

CONSTANTS File,        \* file names
          Version,     \* contents that checkins give to files
          Own,         \* contents the operator gives to files
          None,        \* the content of a file that does not exist
          Quoted,      \* names that git status prints in quotes
          MaxOwnEdits, \* bound: files the operator edits, renames or stages
          MaxApplies,  \* bound: applies started
          MaxKills     \* bound: applies killed

ASSUME ContentAssumption == Own \cap Version = {} /\ None \notin Version \cup Own
ASSUME NameAssumption == Quoted \subseteq File
ASSUME ApplyBounds ==
    /\ MaxOwnEdits \in Nat /\ MaxApplies \in Nat /\ MaxKills \in Nat

VARIABLES
    tip,               \* the latest checkin of the hub's trunk
    work, head, index, \* the operator's git repository
    marker,            \* .bones/last-applied: the checkin it names
    ap,                \* the running apply
    mine,              \* history: files whose last writer is the operator,
                       \* not committed since
    onTrunk,           \* history: files some checkin of trunk had
    late,              \* history: files the operator wrote or staged since the git
                       \* status of the running apply
    budget             \* what is left of the bounds

git == <<work, head, index>>
hist == <<onTrunk, mine>>
applyVars == <<tip, git, marker, ap, hist, late, budget>>

Checkout == [File -> Version \cup {None}]

WorkTree == [File -> Version \cup Own \cup {None}]

NoFiles == [p \in File |-> None]

(* cli tells the checkins of the fossil binary from those of libfossil.    *)
Revision == [tree : Checkout, cli : BOOLEAN]

(* No marker: no earlier file is known.                                    *)
Unmarked == [tree |-> NoFiles, cli |-> FALSE]

(* at is the next step; slot the mode; tree the private checkout; rev what *)
(* the marker will say, moved whether trunk moved since the checkout; todo *)
(* the files to write; done those to stage; unseen the paths that git      *)
(* status did not print under their name.                                  *)
NoApply == [at |-> "idle", slot |-> FALSE, tree |-> NoFiles, rev |-> Unmarked, moved |-> FALSE,
            todo |-> {}, done |-> {}, unseen |-> {}]

ApplyInit ==
    /\ \E t \in Checkout :
        /\ tip = [tree |-> t, cli |-> FALSE]
        /\ work = t /\ head = t
        /\ index = {p \in File : t[p] # None}
        /\ onTrunk = index
    /\ marker = Unmarked /\ ap = NoApply
    /\ mine = {} /\ late = {}
    /\ budget = [edits |-> MaxOwnEdits, applies |-> MaxApplies, faults |-> MaxKills]

Present(t) == {p \in File : t[p] # None}

-----------------------------------------------------------------------------
(* The swarm and the operator, at any time.                                *)

CheckinArrives(c) ==
    /\ tip' = c
    /\ onTrunk' = onTrunk \cup Present(c.tree)
    /\ ap' = [ap EXCEPT !.moved = @ \/ ap.at = "rev"]
    /\ UNCHANGED <<git, marker, mine, late, budget>>

OperatorActs ==
    /\ budget.edits > 0
    /\ budget' = [budget EXCEPT !.edits = @ - 1]
    /\ UNCHANGED <<tip, head, marker, ap, onTrunk>>

Touches(files) ==
    late' = IF ap.at \in {"idle", "rev", "check"} THEN {} ELSE late \cup files

Writes(files, w) ==
    /\ work' = w
    /\ mine' = {p \in mine \cup files : w[p] # head[p]}
    /\ Touches(files)

(* A file is written or, with o = None, deleted.                           *)
OperatorEdits(p, o) ==
    /\ OperatorActs /\ work[p] # o
    /\ Writes({p}, [work EXCEPT ![p] = o])
    /\ UNCHANGED index

(* git add -A of one file.                                                 *)
OperatorStages(p) ==
    /\ OperatorActs /\ (p \in index) # (work[p] # None)
    /\ index' = IF work[p] = None THEN index \ {p} ELSE index \cup {p}
    /\ Touches({p})
    /\ UNCHANGED <<work, mine>>

(* git mv.                                                                 *)
OperatorRenames(p, q) ==
    /\ OperatorActs /\ p \in index /\ work[p] # None /\ work[q] = None
    /\ Writes({p, q}, [work EXCEPT ![p] = None, ![q] = work[p]])
    /\ index' = (index \ {p}) \cup {q}

Tracked(p) == p \in index \/ head[p] # None

(* git commit -a.                                                          *)
OperatorCommits ==
    /\ \E p \in File : Tracked(p) /\ work[p] # head[p]
    /\ head' = [p \in File |-> IF Tracked(p) THEN work[p] ELSE head[p]]
    /\ index' = {p \in File : Tracked(p) /\ work[p] # None}
    /\ mine' = {p \in mine : ~Tracked(p)}
    /\ UNCHANGED <<tip, work, marker, ap, onTrunk, late, budget>>

-----------------------------------------------------------------------------
(* The verb.                                                               *)

Start(a) ==
    /\ ap.at = "idle" /\ budget.applies > 0
    /\ budget' = [budget EXCEPT !.applies = @ - 1]
    /\ ap' = a
    /\ UNCHANGED <<tip, git, marker, hist, late>>

Done == ap' = NoApply /\ late' = {}

(* Trunk mode checks out the tip first and asks for its name afterwards.   *)
openTempCheckout == Start([NoApply EXCEPT !.at = "rev", !.tree = tip.tree])

trunkRev ==
    /\ ap.at = "rev"
    /\ ap' = [ap EXCEPT !.at = "check", !.rev = tip]
    /\ UNCHANGED <<tip, git, marker, hist, late, budget>>

(* Slot mode checks out the tip of the slot's branch, which may hold any   *)
(* files.                                                                  *)
runSyntheticSlotMode(t) == Start([NoApply EXCEPT !.at = "check", !.slot = TRUE, !.tree = t])

(* What git status --untracked-files=no has a line for: a staged addition  *)
(* or removal, or a change.                                                *)
Dirty(p) == (p \in index) # (head[p] # None) \/ (p \in index /\ work[p] # head[p])

(* It may print an addition as a rename from a path removed from the       *)
(* index, each from one, as far as their contents are alike.               *)
Renamed ==
    LET added == {q \in index : head[q] = None}
        removed == {p \in File \ index : head[p] # None}
    IN {{from[q] : q \in added} \cap removed : from \in [added -> File]}

(* Mutant: a file that is modified and not staged is not seen.             *)
StagedOnly(manifest, unseen) == {p \in manifest \ unseen : p \in index /\ head[p] = None}

(* A name in quotes is not unquoted, and of a rename the new name is read: *)
(* such paths match no path of the checkout.                               *)
dirtyTrackedPaths(manifest, unseen) == {p \in manifest \ unseen : Dirty(p)}

refuseIfDirty ==
    /\ ap.at = "check"
    /\ \E renamed \in Renamed :
          IF dirtyTrackedPaths(Present(ap.tree), Quoted \cup renamed) # {} THEN Done
          ELSE /\ ap' = [ap EXCEPT !.at = "plan", !.unseen = Quoted \cup renamed]
               /\ UNCHANGED late
    /\ UNCHANGED <<tip, git, marker, hist, budget>>

(* fossil ls finds no file at a revision that libfossil wrote.             *)
manifestAtRev(c) == IF c.cli THEN Present(c.tree) ELSE {}

loadPrevManifest == IF ap.slot THEN {} ELSE manifestAtRev(marker)

(* Mutant: a file that exists is taken to be up to date.                   *)
AddedOnly == {p \in Present(ap.tree) : work[p] = None}

AddedOrModified == {p \in Present(ap.tree) : work[p] # ap.tree[p]}

(* Mutant: what trunk lacks is deleted, whether it ever had it or not.     *)
DeletedAlways == {p \in File : ap.tree[p] = None /\ work[p] # None}

Deleted == {p \in loadPrevManifest : ap.tree[p] = None /\ work[p] # None}

(* Nothing to do writes the marker too; a dry run stops here.              *)
classifyDiff ==
    LET plan == AddedOrModified \cup Deleted
    IN /\ ap.at = "plan"
       /\ \/ /\ plan = {}
             /\ marker' = IF ap.slot THEN marker ELSE ap.rev
             /\ Done
          \/ /\ plan # {}
             /\ ap' = [ap EXCEPT !.at = "write", !.todo = plan, !.done = plan]
             /\ UNCHANGED <<marker, late>>
          \/ plan # {} /\ Done /\ UNCHANGED marker
       /\ UNCHANGED <<tip, git, hist, budget>>

(* One file after the other, added and modified before deleted.            *)
WriteFile(p) ==
    /\ ap.at = "write" /\ p \in ap.todo
    /\ ap.tree[p] = None => \A q \in ap.todo : ap.tree[q] = None
    /\ work' = [work EXCEPT ![p] = ap.tree[p]]
    /\ mine' = mine \ {p} /\ late' = late \ {p}
    /\ ap' = [ap EXCEPT !.todo = @ \ {p}, !.at = IF ap.todo = {p} THEN "add" ELSE "write"]
    /\ UNCHANGED <<tip, head, index, marker, onTrunk, budget>>

(* git add -A; a branch is staged only with --staged, and has no marker.   *)
StageFiles ==
    /\ ap.at = "add"
    /\ \/ /\ index' = {p \in index \cup ap.done : p \in ap.done => work[p] # None}
          /\ IF ap.slot THEN Done
             ELSE ap' = [ap EXCEPT !.at = "mark"] /\ UNCHANGED late
       \/ ap.slot /\ Done /\ UNCHANGED index
    /\ UNCHANGED <<tip, work, head, marker, hist, budget>>

writeLastAppliedMarker ==
    /\ ap.at = "mark"
    /\ marker' = ap.rev
    /\ Done
    /\ UNCHANGED <<tip, git, hist, budget>>

ApplyDies ==
    /\ ap.at # "idle" /\ budget.faults > 0
    /\ budget' = [budget EXCEPT !.faults = @ - 1]
    /\ Done
    /\ UNCHANGED <<tip, git, marker, hist>>

-----------------------------------------------------------------------------
ApplyNext ==
    \/ \E c \in Revision : CheckinArrives(c)
    \/ \E p \in File, o \in Own \cup {None} : OperatorEdits(p, o)
    \/ \E p \in File : OperatorStages(p)
    \/ \E p, q \in File : OperatorRenames(p, q)
    \/ OperatorCommits
    \/ openTempCheckout
    \/ trunkRev
    \/ \E t \in Checkout : runSyntheticSlotMode(t)
    \/ refuseIfDirty
    \/ classifyDiff
    \/ \E p \in File : WriteFile(p)
    \/ StageFiles
    \/ writeLastAppliedMarker
    \/ ApplyDies

ApplySpec == ApplyInit /\ [][ApplyNext]_applyVars

-----------------------------------------------------------------------------
(* The types of the git repository, the marker and the running apply.      *)
ApplyTypeOK ==
    /\ tip \in Revision /\ marker \in Revision /\ ap.rev \in Revision
    /\ work \in WorkTree /\ head \in WorkTree /\ index \subseteq File
    /\ ap.at \in {"idle", "rev", "check", "plan", "write", "add", "mark"}
    /\ ap.tree \in Checkout /\ ap.todo \subseteq ap.done /\ ap.done \subseteq File
    /\ ap.unseen \subseteq File
    /\ mine \subseteq File /\ late \subseteq File

(* "Refuse if fossil would clobber the user's work": no step of an apply   *)
(* changes an edit of a git-tracked file that is not committed, a deletion *)
(* or a rename either, unless it was made or staged after that apply had   *)
(* looked (refuseIfDirty, dirtyTrackedPaths), however many applies were    *)
(* killed half-way before, or git status printed another name for it.  A   *)
(* file that trunk no longer has is not looked at (see the README).        *)
ApplyKeepsTracked ==
    [][ap' # ap =>
          \A p \in mine \ (late \cup ap.unseen) :
             Tracked(p) /\ ap.tree[p] # None => work'[p] = work[p]]_applyVars

(* An apply removes a file only when a checkin of trunk had it and trunk's *)
(* tree that it checked out does not: files the swarm never had stay       *)
(* (classifyDiff, loadPrevManifest).                                       *)
DeletesOnlyTrunkFiles ==
    [][ap' # ap =>
          \A p \in File :
             work[p] # None /\ work'[p] = None =>
                /\ ap.tree[p] = None
                /\ p \in onTrunk]_applyVars

Recorded ==
    \A p \in File \ late :
        /\ marker'.tree[p] # None => work[p] = marker'.tree[p]
        /\ p \in manifestAtRev(marker) /\ marker'.tree[p] = None => work[p] = None

(* The revision that becomes the one last applied is in the working tree,  *)
(* on every path that records one: each of its files as it has it, and of  *)
(* the files of the revision before none that it lacks, however many       *)
(* applies were killed before.  Except where the operator edited since the *)
(* check, and unless trunk moved between the checkout and the question for *)
(* its name (trunkRev, classifyDiff, applyPlanToTree).                     *)
AppliedIsTrunk == [][marker' # marker /\ ~ap.moved => Recorded]_applyVars

-----------------------------------------------------------------------------
(* What the repository says and the model refutes.                         *)

(* An apply refuses whenever it would clobber the user's work.             *)
EditsRefused ==
    [][ap' # ap =>
          \A p \in mine \ late :
             Tracked(p) /\ ap.tree[p] # None => work'[p] = work[p]]_applyVars

(* last-applied names the revision that was applied.                       *)
MarkerNamesApplied == [][marker' # marker => Recorded]_applyVars
=============================================================================
