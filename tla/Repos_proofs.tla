---------------------------- MODULE Repos_proofs ----------------------------
(***************************************************************************)
(* Theorems about the repositories: Trunk, for any slots, files and        *)
(* bounds, and Apply, for any files, contents and bounds.                  *)
(***************************************************************************)
EXTENDS Trunk, Apply, FiniteSetTheorems, WellFoundedInduction, TLAPS

-----------------------------------------------------------------------------
(* Trunk.  TypeOK and TrunkInv together are inductive.                     *)

(* Ancestors come before, and those of an ancestor are ancestors.          *)
Genealogy ==
    \A c \in DOMAIN log :
        /\ {1, c} \subseteq log[c].anc /\ log[c].anc \subseteq 1 .. c
        /\ log[c].parents \subseteq log[c].anc \ {c}
        /\ \A a \in log[c].anc : log[a].anc \subseteq log[c].anc

(* A repository has the ancestors of what it has: clone, pull and push     *)
(* copy whole repositories.                                                *)
Closed(R) == \A c \in R : log[c].anc \subseteq R

Copies ==
    /\ Closed(hub) /\ log[1].branch = Trunk
    /\ \A s \in Slot : /\ Closed(repo[s])
                       /\ s \in joined => 1 \in repo[s]
                       /\ pc[s] # "idle" => s \in joined

(* A commit that has pulled and was not overtaken since has all of the hub.*)
UpToDate ==
    \A s \in Slot :
        pc[s] = "write" /\ s \notin behind /\ ship[s].autosync => hub \subseteq repo[s]

(* The checkins of trunk, wherever they are.                               *)
TrunkLine == {c \in DOMAIN log : log[c].branch = Trunk}

(* As long as no two commits to trunk overlapped, each checkin of trunk    *)
(* descends from all the earlier ones, and has a child on trunk if it is   *)
(* not the last.                                                           *)
Chain ==
    \A c, d \in TrunkLine : c < d =>
        /\ c \in log[d].anc
        /\ \E e \in TrunkLine : c \in log[e].parents /\ e \in log[d].anc

(* What leaf c has at p is in the merged tree t, or another leaf or one of *)
(* its ancestors had it too.                                               *)
KeptOf(c, p, t) ==
    \A e \in log[c].tree[p] :
        \/ e \in t[p]
        \/ \E d \in fan \ {c} : \E a \in log[d].anc : e \in log[a].tree[p]

(* What a running fan-in has merged so far.                                *)
Merging ==
    /\ fan = {} => todo = {}
    /\ fan # {} =>
          /\ Max(fan) \in fan \ todo
          /\ merge.branch = log[Max(fan)].branch
          /\ merge.parents = fan \ todo
          /\ merge.anc = UNION {log[c].anc : c \in fan \ todo}
          /\ \A c \in fan \ todo, p \in Path : KeptOf(c, p, merge.tree)

TrunkInv ==
    /\ Genealogy /\ Copies /\ UpToDate /\ (~raced => Chain) /\ Merging /\ FanInCollapses

-----------------------------------------------------------------------------
(* Sets of checkins.                                                       *)

(* A bounded set of numbers has a greatest element, and Max is it.         *)
LEMMA MaxFact ==
    ASSUME NEW S, S # {}, NEW n \in Nat, S \subseteq 0 .. n
    PROVE  Max(S) \in S /\ \A y \in S : Max(S) >= y
<1> DEFINE T == {n - x : x \in S}
           R == {ss \in Nat \X Nat : ss[1] < ss[2]}
<1>1. T \subseteq Nat /\ T # {}
  <2>1. \A x \in S : n - x \in Nat
    OBVIOUS
  <2>2. PICK x : x \in S
    OBVIOUS
  <2>3. n - x \in T
    BY <2>2
  <2>4. QED
    BY <2>1, <2>3
<1>2. \E m \in T : \A k \in T : ~(<<k, m>> \in R)
  <2>1. IsWellFoundedOn(R, Nat)
    BY NatLessThanWellFounded DEF OpToRel
  <2> HIDE DEF T, R
  <2>2. QED
    BY <1>1, <2>1, WFMin
<1>3. PICK m \in T : \A k \in T : ~(<<k, m>> \in R)
  BY <1>2
<1>4. \A k \in T : ~(k < m)
  BY <1>1, <1>3
<1>5. PICK x \in S : m = n - x
  OBVIOUS
<1>6. \A y \in S : x >= y
  <2> SUFFICES ASSUME NEW y \in S PROVE x >= y
    OBVIOUS
  <2>1. n - y \in T
    OBVIOUS
  <2>2. ~(n - y < n - x)
    BY <1>4, <1>5, <2>1
  <2>3. QED
    BY <2>2
<1>7. QED
  BY <1>6 DEF Max

(* A set without two elements has at most one.                             *)
LEMMA AtMostOne ==
    ASSUME NEW S, \A x, y \in S : x = y
    PROVE  ~(Cardinality(S) > 1)
<1>1. CASE S = {}
  BY <1>1, FS_EmptySet
<1>2. CASE S # {}
  <2>1. PICK x : S = {x}
    BY <1>2
  <2>2. QED
    BY <2>1, FS_Singleton
<1>3. QED
  BY <1>1, <1>2

(* The checkins are numbers, bounded by the length of the log.             *)
LEMMA LogFact ==
    ASSUME TypeOK
    PROVE  /\ Len(log) \in Nat /\ DOMAIN log = 1 .. Len(log)
           /\ DOMAIN log \subseteq 0 .. Len(log)
           /\ 1 \in DOMAIN log /\ hub \subseteq DOMAIN log
           /\ \A s \in Slot : repo[s] \subseteq DOMAIN log
           /\ \A c \in DOMAIN log : log[c] \in Checkin
  BY DEF TypeOK

(* A set of checkins has a latest one.                                     *)
LEMMA LatestFact ==
    ASSUME TypeOK, NEW S, S # {}, S \subseteq DOMAIN log
    PROVE  Max(S) \in S /\ \A y \in S : Max(S) >= y
  BY LogFact, MaxFact

(* The tip of trunk in a repository that has the seed.                     *)
LEMMA TipFact ==
    ASSUME TypeOK, log[1].branch = Trunk, NEW R, R \subseteq DOMAIN log, 1 \in R
    PROVE  /\ Tip(R, Trunk) \in R /\ log[Tip(R, Trunk)].branch = Trunk
           /\ \A c \in R : log[c].branch = Trunk => Tip(R, Trunk) >= c
<1> DEFINE S == {c \in R : log[c].branch = Trunk}
<1>1. S # {} /\ S \subseteq DOMAIN log
  OBVIOUS
<1>2. Max(S) \in S /\ \A y \in S : Max(S) >= y
  <2> HIDE DEF S
  <2>1. QED
    BY <1>1, LatestFact
<1>3. QED
  BY <1>2 DEF Tip

(* Every checkin of the hub is an ancestor of a leaf.                      *)
LEMMA LeafAbove ==
    ASSUME TypeOK, Genealogy, NEW c \in hub
    PROVE  \E d \in Leaves(hub) : c \in log[d].anc
<1> DEFINE S == {d \in hub : c \in log[d].anc}
<1>1. S \subseteq DOMAIN log /\ S # {}
  BY LogFact DEF Genealogy
<1>2. \E m \in S : \A y \in S : m >= y
  <2> HIDE DEF S
  <2>1. QED
    BY <1>1, LatestFact
<1>3. PICK m \in S : \A y \in S : m >= y
  BY <1>2
<1>4. ASSUME NEW e \in hub, m \in log[e].parents PROVE FALSE
  <2>1. e \in DOMAIN log /\ m \in DOMAIN log /\ c \in log[m].anc
    BY LogFact
  <2>2. m \in log[e].anc /\ m # e
    BY <1>4, <2>1 DEF Genealogy
  <2>3. m < e
    BY <2>1, <2>2, LogFact DEF Genealogy
  <2>4. e \in S
    BY <2>1, <2>2 DEF Genealogy
  <2>5. m >= e
    BY <1>3, <2>4
  <2>6. QED
    BY <2>1, <2>3, <2>5, LogFact
<1>5. QED
  BY <1>4 DEF Leaves

(* As long as trunk is a chain, a repository has one leaf of it at most,   *)
(* and that is the latest checkin of trunk it has.                         *)
LEMMA ChainLeaf ==
    ASSUME TypeOK, Genealogy, Chain, Closed(hub),
           NEW c \in Leaves(hub), log[c].branch = Trunk,
           NEW d \in hub, log[d].branch = Trunk
    PROVE  d <= c
<1>1. c \in TrunkLine /\ d \in TrunkLine /\ c \in Nat /\ d \in Nat
  BY LogFact DEF TrunkLine, Leaves
<1>2. ASSUME c < d PROVE FALSE
  <2>1. PICK e \in TrunkLine : c \in log[e].parents /\ e \in log[d].anc
    BY <1>1, <1>2 DEF Chain
  <2>2. e \in hub /\ log[e].branch = Trunk
    BY <2>1 DEF Closed, TrunkLine
  <2>3. QED
    BY <2>1, <2>2 DEF Leaves
<1>3. QED
  BY <1>1, <1>2

LEMMA ForksFact ==
    ASSUME TypeOK, TrunkInv PROVE ForksExplained
<1> SUFFICES ASSUME ~raced
             PROVE  ~(Cardinality({c \in Leaves(hub) : log[c].branch = Trunk}) > 1)
  BY DEF ForksExplained
<1>1. \A c, d \in {c \in Leaves(hub) : log[c].branch = Trunk} : c = d
  <2> SUFFICES ASSUME NEW c \in Leaves(hub), NEW d \in Leaves(hub),
                      log[c].branch = Trunk, log[d].branch = Trunk
               PROVE  c = d
    OBVIOUS
  <2>1. c \in hub /\ d \in hub /\ c \in Nat /\ d \in Nat
    BY LogFact DEF Leaves
  <2>2. d <= c /\ c <= d
    BY <2>1, ChainLeaf DEF TrunkInv, Copies
  <2>3. QED
    BY <2>1, <2>2
<1>2. QED
  BY <1>1, AtMostOne

-----------------------------------------------------------------------------
(* The log grows at its end.                                               *)

LogKept ==
    /\ DOMAIN log \subseteq DOMAIN log'
    /\ \A c \in DOMAIN log : log'[c] = log[c]

(* A checkin with the ancestors B is appended.                             *)
LEMMA AppendFact ==
    ASSUME TypeOK, Genealogy, NEW x \in Checkin, log' = Append(log, x),
           NEW B, B \subseteq DOMAIN log, 1 \in B, x.anc = B \cup {Len(log) + 1},
           x.parents \subseteq B, \A a \in B : log[a].anc \subseteq B
    PROVE  /\ Genealogy' /\ LogKept /\ log' \in Seq(Checkin)
           /\ DOMAIN log' = DOMAIN log \cup {Len(log) + 1}
           /\ log'[Len(log) + 1] = x /\ Len(log) + 1 \notin DOMAIN log
           /\ Len(log) + 1 \in Nat /\ \A c \in DOMAIN log : c < Len(log) + 1
<1> DEFINE n == Len(log) + 1
<1>1. /\ LogKept /\ log' \in Seq(Checkin) /\ DOMAIN log' = DOMAIN log \cup {n}
      /\ log'[n] = x /\ n \notin DOMAIN log /\ n \in Nat /\ DOMAIN log = 1 .. (n - 1)
      /\ \A c \in DOMAIN log : c < n
  BY LogFact DEF TypeOK, LogKept
<1> HIDE DEF n
<1>2. ASSUME NEW c \in DOMAIN log
      PROVE  /\ {1, c} \subseteq log'[c].anc /\ log'[c].anc \subseteq 1 .. c
             /\ log'[c].parents \subseteq log'[c].anc \ {c}
             /\ \A a \in log'[c].anc : log'[a].anc \subseteq log'[c].anc
  <2>1. log'[c] = log[c] /\ log[c].anc \subseteq DOMAIN log
    BY <1>1 DEF Genealogy, LogKept
  <2>2. QED
    BY <2>1 DEF Genealogy, LogKept
<1>3. /\ {1, n} \subseteq log'[n].anc /\ log'[n].anc \subseteq 1 .. n
      /\ log'[n].parents \subseteq log'[n].anc \ {n}
  BY <1>1 DEF n
<1>4. ASSUME NEW a \in log'[n].anc PROVE log'[a].anc \subseteq log'[n].anc
  <2>1. CASE a = n
    BY <2>1
  <2>2. CASE a \in B
    BY <1>1, <2>2 DEF LogKept, n
  <2>3. QED
    BY <1>1, <1>4, <2>1, <2>2 DEF n
<1>5. Genealogy'
  BY <1>1, <1>2, <1>3, <1>4 DEF Genealogy
<1>6. QED
  BY <1>1, <1>5 DEF n

(* What a repository had stays as it was.                                  *)
LEMMA ClosedKept ==
    ASSUME TypeOK, LogKept, NEW R, R \subseteq DOMAIN log, Closed(R)
    PROVE  \A c \in R : log'[c].anc \subseteq R
  BY DEF LogKept, Closed

LEMMA LeavesKept ==
    ASSUME TypeOK, LogKept, UNCHANGED hub
    PROVE  Leaves(hub)' = Leaves(hub)
<1>1. \A c \in hub : log'[c] = log[c]
  BY LogFact DEF LogKept
<1>2. QED
  BY <1>1 DEF Leaves

LEMMA CollapsedKept ==
    ASSUME TypeOK, LogKept, UNCHANGED hub, fanned' => fanned, FanInCollapses
    PROVE  FanInCollapses'
<1>1. Leaves(hub)' = Leaves(hub)
  BY LeavesKept
<1>2. Max(hub) \in DOMAIN log
  <2>1. hub # {} /\ hub \subseteq DOMAIN log
    BY DEF TypeOK
  <2>2. QED
    BY <2>1, LatestFact
<1>3. QED
  BY <1>1, <1>2 DEF FanInCollapses, LogKept

(* The merge under way.                                                    *)
LEMMA MergingKept ==
    ASSUME TypeOK, Genealogy, LogKept, UNCHANGED fanVars, Merging
    PROVE  Merging'
<1> SUFFICES ASSUME fan # {} PROVE Merging'
  BY DEF Merging, fanVars
<1>1. fan \subseteq DOMAIN log /\ Max(fan) \in fan
  BY LogFact DEF TypeOK, Merging
<1>2. \A c \in fan : log'[c] = log[c] /\ log[c].anc \subseteq DOMAIN log
  BY <1>1, LogFact DEF LogKept, Genealogy
<1>3. UNION {log'[c].anc : c \in fan \ todo} = UNION {log[c].anc : c \in fan \ todo}
  BY <1>2
<1>4. ASSUME NEW c \in fan \ todo, NEW p \in Path PROVE KeptOf(c, p, merge.tree)'
  <2>1. KeptOf(c, p, merge.tree)
    BY <1>4 DEF Merging
  <2>2. \A d \in fan : \A a \in log[d].anc : a \in DOMAIN log /\ log'[a] = log[a]
    BY <1>2 DEF LogKept
  <2>3. QED
    BY <1>2, <2>1, <2>2 DEF KeptOf, fanVars
<1>5. QED
  BY <1>1, <1>2, <1>3, <1>4 DEF Merging, fanVars

(* A checkin of another branch leaves trunk as it is.                      *)
LEMMA ChainKept ==
    ASSUME TypeOK, LogKept, Genealogy, TrunkLine' = TrunkLine, Chain
    PROVE  Chain'
<1>1. \A c \in TrunkLine : c \in DOMAIN log /\ log'[c] = log[c]
  BY DEF TrunkLine, LogKept
<1>2. QED
  BY <1>1 DEF Chain

(* A checkin of trunk that has the latest one for a parent.                *)
LEMMA ChainGrows ==
    ASSUME TypeOK, LogKept, Genealogy, Chain,
           NEW n \in Nat, NEW p \in TrunkLine, TrunkLine' = TrunkLine \cup {n},
           p \in log'[n].parents, n \in log'[n].anc, log[p].anc \subseteq log'[n].anc,
           \A c \in TrunkLine : c <= p /\ c < n
    PROVE  Chain'
<1>1. \A c \in TrunkLine : c \in DOMAIN log /\ log'[c] = log[c] /\ c \in Nat
  BY LogFact DEF TrunkLine, LogKept
<1> SUFFICES ASSUME NEW c \in TrunkLine', NEW d \in TrunkLine', c < d
             PROVE  /\ c \in log'[d].anc
                    /\ \E e \in TrunkLine' : c \in log'[e].parents /\ e \in log'[d].anc
  BY DEF Chain
<1>2. c \in TrunkLine
  <2>1. c # n
    <3>1. ~(n < d)
      BY <1>1
    <3>2. QED
      BY <3>1
  <2>2. QED
    BY <2>1
<1>3. CASE d \in TrunkLine
  BY <1>1, <1>2, <1>3 DEF Chain
<1>4. CASE d = n /\ c = p
  <2>1. c \in log[c].anc
    BY <1>1, <1>2 DEF Genealogy
  <2>2. c \in log'[n].anc /\ n \in TrunkLine' /\ c \in log'[n].parents
    BY <1>4, <2>1
  <2>3. QED
    BY <1>4, <2>2
<1>5. CASE d = n /\ c # p
  <2>1. c < p
    <3>1. c \in Nat /\ p \in Nat
      BY <1>1, <1>2
    <3>2. c <= p
      BY <1>2
    <3>3. QED
      BY <1>5, <3>1, <3>2
  <2>2. /\ c \in log[p].anc
        /\ \E e \in TrunkLine : c \in log[e].parents /\ e \in log[p].anc
    BY <1>2, <2>1 DEF Chain
  <2>3. QED
    BY <1>1, <1>5, <2>2
<1>6. QED
  BY <1>3, <1>4, <1>5

-----------------------------------------------------------------------------
(* The initial states.                                                     *)

LEMMA SeedType == Seed \in Checkin /\ EmptyTree \in Tree /\ NoShip.tree \in Tree
<1>1. 0 \in Edit
  BY BoundAssumption DEF Edit
<1>2. Seed.tree \in Tree /\ EmptyTree \in Tree
  BY <1>1 DEF Seed, Tree, EmptyTree
<1>3. QED
  BY <1>2 DEF Seed, Checkin, NoShip

LEMMA InitTrunk == Init => TypeOK /\ TrunkInv
<1> SUFFICES ASSUME Init PROVE TypeOK /\ TrunkInv
  OBVIOUS
<1>1. log \in Seq(Checkin) /\ DOMAIN log = {1} /\ log[1] = Seed
  BY SeedType DEF Init
<1>2. TypeOK
  <2>1. NoShip \in [files : SUBSET Path, tree : Tree, autosync : BOOLEAN]
    BY SeedType DEF NoShip
  <2>2. 0 \in Edit /\ MaxFaults \in 0 .. MaxFaults
    BY BoundAssumption DEF Edit
  <2>3. QED
    BY <1>1, <2>1, <2>2, SeedType DEF Init, TypeOK
<1>3. Genealogy /\ Copies /\ UpToDate /\ Merging
  BY <1>1 DEF Init, Genealogy, Copies, Closed, UpToDate, Merging, Seed
<1>4. Chain
  BY <1>1 DEF Chain, TrunkLine
<1>5. QED
  BY <1>2, <1>3, <1>4 DEF TrunkInv, FanInCollapses, Init

-----------------------------------------------------------------------------
(* Steps that make no checkin and send none to the hub.                    *)

(* Only a slot's worktree, its commit or its copy of the hub changes.      *)
LEMMA LocalStep ==
    ASSUME TypeOK, TrunkInv, UNCHANGED <<log, hub, raced, fanned>>,
           Copies', UpToDate', Merging'
    PROVE  TrunkInv'
<1>1. Genealogy' /\ (~raced => Chain)'
  BY DEF TrunkInv, Genealogy, Chain, TrunkLine
<1>2. FanInCollapses'
  BY CollapsedKept DEF TrunkInv, LogKept
<1>3. QED
  BY <1>1, <1>2 DEF TrunkInv

(* The fan-in is not concerned.                                            *)
LEMMA SlotStep ==
    ASSUME TypeOK, TrunkInv, UNCHANGED <<log, hub, raced, fanned, fanVars>>,
           Copies', UpToDate'
    PROVE  TrunkInv'
<1>1. Merging'
  BY MergingKept DEF TrunkInv, LogKept
<1>2. QED
  BY <1>1, LocalStep

(* Neither is the slot's repository.                                       *)
LEMMA WorktreeStep ==
    ASSUME TypeOK, TrunkInv, UNCHANGED <<log, hub, raced, fanned, fanVars, repo, behind>>,
           \A s \in Slot : /\ pc'[s] # "idle" => s \in joined'
                           /\ s \in joined' => s \in joined
                           /\ pc'[s] = "write" => pc[s] = "write" /\ ship'[s] = ship[s]
    PROVE  TrunkInv'
<1>1. Copies'
  BY DEF TrunkInv, Copies, Closed
<1>2. UpToDate'
  BY DEF TrunkInv, UpToDate
<1>3. QED
  BY <1>1, <1>2, SlotStep

LEMMA OpenWorktreeInv ==
    ASSUME TypeOK, TrunkInv, NEW s \in Slot, OpenWorktree(s), UNCHANGED synthetic
    PROVE  TypeOK' /\ TrunkInv'
<1> DEFINE r == Cloned(s)
<1>1. /\ repo' = [repo EXCEPT ![s] = r] /\ joined' = joined \cup {s}
      /\ wt' = [wt EXCEPT ![s] = log[Tip(r, Trunk)].tree]
      /\ UNCHANGED <<log, hub, held, pc, ship, fanVars, edits, histVars, faults>>
  BY DEF OpenWorktree
<1>2. r \subseteq DOMAIN log /\ 1 \in r /\ Closed(r) /\ (repo[s] # {} => r = repo[s])
  <2>1. repo[s] # {} => 1 \in repo[s]
    BY LogFact DEF TrunkInv, Copies, Closed, Genealogy
  <2>2. QED
    BY <2>1, LogFact DEF Cloned, TypeOK, TrunkInv, Copies
<1> HIDE DEF r
<1>3. log[Tip(r, Trunk)].tree \in Tree
  BY <1>2, TipFact, LogFact DEF TrunkInv, Copies, Checkin
<1>4. TypeOK'
  BY <1>1, <1>2, <1>3 DEF TypeOK, fanVars, histVars
<1>5. Copies'
  BY <1>1, <1>2 DEF TypeOK, TrunkInv, Copies, Closed
<1>6. UpToDate'
  BY <1>1, <1>2 DEF TypeOK, TrunkInv, UpToDate, histVars
<1>7. QED
  BY <1>1, <1>4, <1>5, <1>6, SlotStep DEF histVars

LEMMA CloseWorktreeInv ==
    ASSUME TypeOK, TrunkInv, NEW s \in Slot, CloseWorktree(s), UNCHANGED synthetic
    PROVE  TypeOK' /\ TrunkInv'
<1>1. TypeOK'
  BY SeedType DEF CloseWorktree, TypeOK, fanVars, histVars
<1>2. TrunkInv'
  BY WorktreeStep DEF CloseWorktree, TrunkInv, Copies, histVars
<1>3. QED
  BY <1>1, <1>2

LEMMA EditFileInv ==
    ASSUME TypeOK, TrunkInv, NEW s \in Slot, NEW p \in Path, EditFile(s, p), UNCHANGED synthetic
    PROVE  TypeOK' /\ TrunkInv'
<1>1. edits' \in Edit /\ edits' = edits + 1
  BY BoundAssumption DEF EditFile, TypeOK, Edit
<1>2. wt' \in [Slot -> Tree]
  <2>1. wt[s] \in Tree
    BY DEF TypeOK
  <2>2. [wt[s] EXCEPT ![p] = @ \cup {edits + 1}] \in Tree
    BY <1>1, <2>1 DEF Tree
  <2>3. wt' = [wt EXCEPT ![s] = [wt[s] EXCEPT ![p] = @ \cup {edits + 1}]]
    BY DEF EditFile
  <2>4. QED
    BY <2>2, <2>3 DEF TypeOK
<1>3. TypeOK'
  BY <1>1, <1>2 DEF EditFile, TypeOK, fanVars
<1>4. TrunkInv'
  BY WorktreeStep DEF EditFile, TrunkInv, Copies
<1>5. QED
  BY <1>3, <1>4

LEMMA AnnounceHoldsInv ==
    ASSUME TypeOK, TrunkInv, NEW s \in Slot, NEW files \in SUBSET Path, NEW a \in Autosyncs,
           AnnounceHolds(s, files, a), UNCHANGED synthetic
    PROVE  TypeOK' /\ TrunkInv'
<1>1. /\ [files |-> files, tree |-> wt[s], autosync |-> a]
            \in [files : SUBSET Path, tree : Tree, autosync : BOOLEAN]
  BY SeedAssumption DEF TypeOK
<1>2. TypeOK'
  BY <1>1 DEF AnnounceHolds, TypeOK, fanVars, histVars
<1>3. \A t \in Slot : /\ pc'[t] # "idle" => t \in joined'
                      /\ pc'[t] = "write" => pc[t] = "write" /\ ship'[t] = ship[t]
  BY DEF AnnounceHolds, TypeOK, TrunkInv, Copies
<1>4. TrunkInv'
  BY <1>3, WorktreeStep DEF AnnounceHolds, histVars
<1>5. QED
  BY <1>2, <1>4

(* A commit returns.                                                       *)
LEMMA ReturnFact ==
    ASSUME TypeOK, TrunkInv, NEW s \in Slot, Return(s), UNCHANGED joined
    PROVE  /\ pc' \in [Slot -> {"idle", "pull", "write", "push"}]
           /\ ship' \in [Slot -> [files : SUBSET Path, tree : Tree, autosync : BOOLEAN]]
           /\ \A t \in Slot : /\ pc'[t] # "idle" => t \in joined'
                              /\ pc'[t] = "write" => pc[t] = "write" /\ ship'[t] = ship[t]
                              /\ pc'[t] \in {"idle", pc[t]}
  BY SeedType DEF Return, NoShip, TypeOK, TrunkInv, Copies

LEMMA HeldFact ==
    ASSUME TypeOK, NEW s \in Slot, ReleaseHolds(s)
    PROVE  held' \in [Path -> Slot \cup {Free}]
  BY DEF ReleaseHolds, TypeOK

LEMMA PullInv ==
    ASSUME TypeOK, TrunkInv, NEW s \in Slot, pullFromHub(s), UNCHANGED synthetic
    PROVE  TypeOK' /\ TrunkInv'
<1>1. CASE /\ repo' = [repo EXCEPT ![s] = IF ship[s].autosync THEN @ \cup hub ELSE @]
           /\ pc' = [pc EXCEPT ![s] = "write"]
           /\ behind' = behind \ {s}
           /\ UNCHANGED <<log, hub, wt, joined, held, ship, fanVars, edits, raced, fanned, faults>>
  <2>1. TypeOK'
    BY <1>1 DEF TypeOK, fanVars
  <2>2. s \in joined
    BY DEF pullFromHub, TrunkInv, Copies
  <2>3. Copies'
    BY <1>1, <2>2 DEF TypeOK, TrunkInv, Copies, Closed
  <2>4. UpToDate'
    BY <1>1 DEF TypeOK, TrunkInv, UpToDate
  <2>5. QED
    BY <1>1, <2>1, <2>3, <2>4, SlotStep
<1>2. CASE faults > 0 /\ faults' = faults - 1 /\ PullFails(s)
  <2>1. /\ Return(s) /\ ReleaseHolds(s)
        /\ UNCHANGED <<log, hub, repo, wt, joined, fanVars, edits, histVars>>
    BY <1>2 DEF PullFails
  <2>2. faults' \in 0 .. MaxFaults
    BY <1>2, BoundAssumption DEF TypeOK
  <2>3. TypeOK'
    BY <2>1, <2>2, ReturnFact, HeldFact DEF TypeOK, fanVars, histVars
  <2>4. TrunkInv'
    BY <2>1, ReturnFact, WorktreeStep DEF histVars
  <2>5. QED
    BY <2>3, <2>4
<1>3. QED
  BY <1>1, <1>2 DEF pullFromHub

-----------------------------------------------------------------------------
(* A slot makes a checkin, and sends what it has to the hub.               *)

(* The checkin's ancestors are those of the tip it was made on.            *)
LEMMA NewCheckinFact ==
    ASSUME TypeOK, TrunkInv, NEW s \in Slot, pc[s] = "write"
    PROVE  LET k == Tip(repo[s], Trunk) x == NewCheckin(s)
           IN /\ k \in repo[s] /\ k \in TrunkLine
              /\ \A c \in repo[s] : log[c].branch = Trunk => k >= c
              /\ x \in Checkin /\ x.parents = {k} /\ x.branch = BranchOf(s)
              /\ x.anc = log[k].anc \cup {Len(log) + 1}
<1> DEFINE k == Tip(repo[s], Trunk)
<1>1. 1 \in repo[s] /\ log[1].branch = Trunk /\ repo[s] \subseteq DOMAIN log
  BY LogFact DEF TrunkInv, Copies
<1>2. /\ k \in repo[s] /\ log[k].branch = Trunk
      /\ \A c \in repo[s] : log[c].branch = Trunk => k >= c
  BY <1>1, TipFact
<1>3. k \in DOMAIN log /\ log[k] \in Checkin /\ Len(log) + 1 \in Nat /\ k \in Nat
  BY <1>1, <1>2, LogFact
<1> HIDE DEF k
<1>4. BranchOf(s) \in Slot \cup {Trunk}
  BY DEF BranchOf
<1>5. [p \in Path |-> IF p \in ship[s].files THEN ship[s].tree[p] ELSE log[k].tree[p]] \in Tree
  BY <1>3 DEF TypeOK, Checkin, Tree
<1>6. /\ NewCheckin(s) \in Checkin /\ NewCheckin(s).parents = {k}
      /\ NewCheckin(s).branch = BranchOf(s)
      /\ NewCheckin(s).anc = log[k].anc \cup {Len(log) + 1}
  BY <1>3, <1>4, <1>5 DEF NewCheckin, Checkin, k
<1>7. QED
  BY <1>2, <1>3, <1>6 DEF k, TrunkLine

LEMMA CommitInv ==
    ASSUME TypeOK, TrunkInv, NEW s \in Slot, Commit(s), UNCHANGED synthetic
    PROVE  TypeOK' /\ TrunkInv'
<1> DEFINE k == Tip(repo[s], Trunk)
           x == NewCheckin(s)
           n == Len(log) + 1
<1>1. /\ pc[s] = "write" /\ log' = Append(log, x)
      /\ repo' = [repo EXCEPT ![s] = @ \cup {n}]
      /\ ReleaseHolds(s) /\ pc' = [pc EXCEPT ![s] = "push"]
      /\ raced' = (raced \/ (BranchOf(s) = Trunk
                             /\ (s \in behind \/ ~ship[s].autosync \/ Outside(hub) # {})))
      /\ UNCHANGED <<hub, wt, joined, ship, fanVars, edits, behind, fanned, faults>>
  BY DEF Commit
<1>2. /\ k \in repo[s] /\ k \in TrunkLine /\ k \in DOMAIN log
      /\ \A c \in repo[s] : log[c].branch = Trunk => k >= c
      /\ x \in Checkin /\ x.parents = {k} /\ x.branch = BranchOf(s)
      /\ x.anc = log[k].anc \cup {n}
  BY <1>1, NewCheckinFact DEF TrunkLine
<1> HIDE DEF k, x
<1>3. /\ log[k].anc \subseteq DOMAIN log /\ 1 \in log[k].anc /\ k \in log[k].anc
      /\ \A a \in log[k].anc : log[a].anc \subseteq log[k].anc
  BY <1>2, LogFact DEF TrunkInv, Genealogy
<1>4. /\ Genealogy' /\ LogKept /\ log' \in Seq(Checkin)
      /\ DOMAIN log' = DOMAIN log \cup {n} /\ log'[n] = x /\ n \notin DOMAIN log
      /\ n \in Nat /\ \A c \in DOMAIN log : c < n
  BY <1>1, <1>2, <1>3, AppendFact DEF TrunkInv
<1> HIDE DEF n
<1>5. TypeOK'
  BY <1>1, <1>4, HeldFact DEF TypeOK, fanVars
<1>6. Copies'
  <2>1. \A t \in Slot : /\ repo[t] \subseteq DOMAIN log
                        /\ \A c \in repo[t] : log'[c].anc \subseteq repo[t]
    BY <1>4, ClosedKept, LogFact DEF TrunkInv, Copies
  <2>2. \A c \in hub : log'[c].anc \subseteq hub
    BY <1>4, ClosedKept, LogFact DEF TrunkInv, Copies
  <2>3. log'[1].branch = Trunk
    BY <1>4, LogFact DEF LogKept, TrunkInv, Copies
  <2>4. log'[n].anc \subseteq repo[s] \cup {n}
    BY <1>2, <1>4 DEF TrunkInv, Copies, Closed
  <2>5. \A t \in Slot : \A c \in repo'[t] : log'[c].anc \subseteq repo'[t]
    BY <1>1, <2>1, <2>4 DEF TypeOK
  <2>6. \A t \in Slot : (t \in joined' => 1 \in repo'[t]) /\ (pc'[t] # "idle" => t \in joined')
    BY <1>1 DEF TypeOK, TrunkInv, Copies
  <2>7. QED
    BY <1>1, <2>2, <2>3, <2>5, <2>6 DEF Copies, Closed
<1>7. UpToDate'
  BY <1>1 DEF TypeOK, TrunkInv, UpToDate
<1>8. Merging' /\ FanInCollapses'
  BY <1>1, <1>4, MergingKept, CollapsedKept DEF TrunkInv
<1>9. ASSUME ~raced' PROVE Chain'
  <2>1. Chain /\ ~raced
    BY <1>1, <1>9 DEF TypeOK, TrunkInv
  <2>2. CASE BranchOf(s) # Trunk
    <3>1. TrunkLine' = TrunkLine
      BY <1>2, <1>4, <2>2 DEF TrunkLine, LogKept
    <3>2. QED
      BY <1>4, <2>1, <3>1, ChainKept DEF TrunkInv
  <2>3. CASE BranchOf(s) = Trunk
    <3>1. s \notin behind /\ ship[s].autosync /\ Outside(hub) = {}
      BY <1>1, <1>9, <2>3
    <3>2. TrunkLine \subseteq hub /\ hub \subseteq repo[s]
      BY <1>1, <3>1 DEF TrunkLine, Outside, TrunkInv, UpToDate
    <3>3. \A c \in TrunkLine : c <= k /\ c < n
      <4>1. \A c \in TrunkLine : c \in repo[s] /\ log[c].branch = Trunk /\ c \in DOMAIN log
        BY <3>2 DEF TrunkLine
      <4>2. \A c \in TrunkLine : k >= c
        BY <1>2, <4>1
      <4>3. \A c \in TrunkLine : c \in Nat /\ k \in Nat
        BY <1>2, <4>1, LogFact
      <4>4. QED
        BY <1>4, <4>1, <4>2, <4>3
    <3>4. TrunkLine' = TrunkLine \cup {n}
      BY <1>2, <1>4, <2>3 DEF TrunkLine, LogKept
    <3>5. k \in log'[n].parents /\ n \in log'[n].anc /\ log[k].anc \subseteq log'[n].anc
      BY <1>2, <1>4
    <3>6. QED
      BY <1>2, <1>4, <2>1, <3>3, <3>4, <3>5, ChainGrows DEF TrunkInv
  <2>4. QED
    BY <2>2, <2>3
<1>10. QED
  BY <1>4, <1>5, <1>6, <1>7, <1>8, <1>9 DEF TrunkInv

LEMMA PushInv ==
    ASSUME TypeOK, TrunkInv, NEW s \in Slot, Push(s), UNCHANGED synthetic
    PROVE  TypeOK' /\ TrunkInv'
<1>1. Return(s) /\ UNCHANGED <<log, repo, wt, joined, held, fanVars, edits, raced>>
  BY DEF Push
<1>2. CASE faults > 0 /\ faults' = faults - 1 /\ UNCHANGED <<hub, behind, fanned>>
  <2>1. faults' \in 0 .. MaxFaults
    BY <1>2, BoundAssumption DEF TypeOK
  <2>2. TypeOK'
    BY <1>1, <1>2, <2>1, ReturnFact DEF TypeOK, fanVars
  <2>3. TrunkInv'
    BY <1>1, <1>2, ReturnFact, WorktreeStep
  <2>4. QED
    BY <2>2, <2>3
<1>3. CASE /\ hub' = hub \cup repo[s]
           /\ behind' = behind \cup {t \in Slot : pc[t] = "write"}
           /\ fanned' = FALSE /\ UNCHANGED faults
  <2>1. TypeOK'
    BY <1>1, <1>3, ReturnFact DEF TypeOK, fanVars
  <2>2. Copies'
    <3>1. \A t \in Slot : pc'[t] # "idle" => t \in joined'
      BY <1>1, ReturnFact
    <3>2. QED
      BY <1>1, <1>3, <3>1 DEF TrunkInv, Copies, Closed
  <2>3. UpToDate'
    <3>1. \A t \in Slot : pc'[t] = "write" => t \in behind'
      BY <1>1, <1>3, ReturnFact
    <3>2. QED
      BY <3>1 DEF UpToDate
  <2>4. Genealogy' /\ (~raced => Chain)'
    BY <1>1 DEF TrunkInv, Genealogy, Chain, TrunkLine
  <2>5. Merging'
    BY <1>1, MergingKept DEF TrunkInv, LogKept
  <2>6. FanInCollapses'
    BY <1>3 DEF FanInCollapses
  <2>7. QED
    BY <2>1, <2>2, <2>3, <2>4, <2>5, <2>6 DEF TrunkInv
<1>4. QED
  BY <1>2, <1>3 DEF Push

-----------------------------------------------------------------------------
(* The fan-in.                                                             *)

LEMMA OpenLeavesInv ==
    ASSUME TypeOK, TrunkInv, openLeavesOnTrunk, UNCHANGED synthetic
    PROVE  TypeOK' /\ TrunkInv'
<1> PICK L : L = Leaves(hub)
  OBVIOUS
<1> PICK k : k = Max(L)
  OBVIOUS
<1>1. /\ Cardinality(L) > 1 /\ fan' = L /\ todo' = L \ {k}
      /\ merge' = [log[k] EXCEPT !.parents = {k}, !.cli = TRUE]
      /\ fanned' = FALSE
      /\ UNCHANGED <<log, hub, slotVars, edits, behind, raced, faults>>
  BY DEF openLeavesOnTrunk, Others
<1>2. L # {} /\ L \subseteq hub /\ L \subseteq DOMAIN log
  <2>1. L # {}
    BY <1>1, FS_EmptySet
  <2>2. QED
    BY <2>1, LogFact DEF Leaves
<1>3. k \in L
  BY <1>2, LatestFact
<1>4. k \in DOMAIN log /\ log[k] \in Checkin /\ k \in Nat
  BY <1>2, <1>3, LogFact
<1>5. /\ merge' \in Checkin /\ merge'.parents = {k} /\ merge'.branch = log[k].branch
      /\ merge'.anc = log[k].anc /\ merge'.tree = log[k].tree
  BY <1>1, <1>4 DEF Checkin
<1>6. TypeOK'
  BY <1>1, <1>2, <1>5 DEF TypeOK, slotVars
<1>7. fan' \ todo' = {k} /\ Max(fan') = k
  BY <1>1, <1>3
<1>8. Merging'
  <2>1. merge'.anc = UNION {log'[c].anc : c \in fan' \ todo'}
    BY <1>1, <1>5, <1>7
  <2>2. \A p \in Path : KeptOf(k, p, merge.tree)'
    BY <1>1, <1>5 DEF KeptOf
  <2>3. QED
    BY <1>1, <1>3, <1>5, <1>7, <2>1, <2>2 DEF Merging
<1>9. Copies' /\ UpToDate'
  BY <1>1 DEF TrunkInv, Copies, UpToDate, Closed, slotVars
<1>10. Genealogy' /\ (~raced => Chain)' /\ FanInCollapses'
  BY <1>1 DEF TrunkInv, Genealogy, Chain, TrunkLine, FanInCollapses
<1>11. QED
  BY <1>6, <1>8, <1>9, <1>10 DEF TrunkInv

(* A merged file has what both sides have, or what the common ancestor had.*)
LEMMA MergeFileFact ==
    ASSUME NEW base, NEW ours, NEW theirs
    PROVE  /\ \A e \in ours : e \in MergeFile(base, ours, theirs) \/ e \in base
           /\ \A e \in theirs : e \in MergeFile(base, ours, theirs) \/ e \in base
           /\ MergeFile(base, ours, theirs) \subseteq ours \cup theirs
  BY DEF MergeFile

(* One more leaf is merged.                                                *)
LEMMA MergeOneFact ==
    ASSUME TypeOK, TrunkInv, fan # {}, NEW c \in todo
    PROVE  LET x == MergeOne(merge, c)
           IN /\ x \in Checkin /\ x.parents = merge.parents \cup {c}
              /\ x.anc = merge.anc \cup log[c].anc /\ x.branch = merge.branch
              /\ \A p \in Path :
                   LET b == log[Pivot(merge, log[c])].tree
                   IN x.tree[p] = MergeFile(b[p], merge.tree[p], log[c].tree[p])
              /\ Pivot(merge, log[c]) \in merge.anc \cap log[c].anc
<1> DEFINE y == log[c]
           v == Pivot(merge, y)
           b == log[v].tree
           t == [p \in Path |-> MergeFile(b[p], merge.tree[p], y.tree[p])]
<1>1. c \in DOMAIN log /\ y \in Checkin /\ merge \in Checkin /\ c \in Nat
  BY LogFact DEF TypeOK
<1>2. v \in merge.anc \cap y.anc
  <2>1. fan \subseteq DOMAIN log
    BY LogFact DEF TypeOK
  <2>2. PICK d : d \in fan \ todo
    BY DEF TrunkInv, Merging
  <2>3. 1 \in merge.anc /\ 1 \in y.anc /\ y.anc \subseteq DOMAIN log
    BY <1>1, <2>1, <2>2, LogFact DEF TrunkInv, Merging, Genealogy
  <2>4. merge.anc \cap y.anc # {} /\ merge.anc \cap y.anc \subseteq DOMAIN log
    BY <2>3
  <2>5. QED
    BY <2>4, LatestFact DEF Pivot
<1> HIDE DEF v
<1>3. v \in DOMAIN log /\ b \in Tree
  <2>1. v \in DOMAIN log
    BY <1>1, <1>2, LogFact DEF TrunkInv, Genealogy
  <2>2. QED
    BY <2>1, LogFact DEF Checkin
<1>4. t \in Tree
  <2>1. \A p \in Path : merge.tree[p] \in SUBSET Edit /\ y.tree[p] \in SUBSET Edit
    BY <1>1 DEF Checkin, Tree
  <2>2. \A p \in Path : MergeFile(b[p], merge.tree[p], y.tree[p]) \in SUBSET Edit
    BY <2>1, MergeFileFact
  <2>3. QED
    BY <2>2 DEF Tree
<1>5. MergeOne(merge, c) = [merge EXCEPT !.parents = merge.parents \cup {c},
                                         !.anc = merge.anc \cup y.anc, !.tree = t]
  BY DEF MergeOne, v
<1>6. \A p \in Path : t[p] = MergeFile(b[p], merge.tree[p], y.tree[p])
  OBVIOUS
<1> HIDE DEF t, b, y
<1>7. /\ MergeOne(merge, c) \in Checkin
      /\ MergeOne(merge, c).parents = merge.parents \cup {c}
      /\ MergeOne(merge, c).anc = merge.anc \cup y.anc
      /\ MergeOne(merge, c).branch = merge.branch /\ MergeOne(merge, c).tree = t
  <2>1. merge.parents \cup {c} \in SUBSET Nat /\ merge.anc \cup y.anc \in SUBSET Nat
    BY <1>1 DEF Checkin
  <2>2. QED
    BY <1>1, <1>4, <1>5, <2>1 DEF Checkin
<1>8. QED
  BY <1>2, <1>6, <1>7 DEF v, b, y

LEMMA MergeLeafInv ==
    ASSUME TypeOK, TrunkInv, mergeLeaf, UNCHANGED synthetic
    PROVE  TypeOK' /\ TrunkInv'
<1> PICK c : c = Max(todo)
  OBVIOUS
<1> PICK v : v = Pivot(merge, log[c])
  OBVIOUS
<1>1. /\ todo # {} /\ merge' = MergeOne(merge, c) /\ todo' = todo \ {c}
      /\ UNCHANGED <<log, hub, slotVars, fan, edits, histVars, faults>>
  BY DEF mergeLeaf
<1>2. fan # {} /\ todo \subseteq fan /\ fan \subseteq DOMAIN log
  BY <1>1, LogFact DEF TypeOK
<1>3. c \in todo
  BY <1>1, <1>2, LatestFact
<1>4. /\ merge' \in Checkin /\ merge'.parents = merge.parents \cup {c}
      /\ merge'.anc = merge.anc \cup log[c].anc /\ merge'.branch = merge.branch
      /\ \A p \in Path : merge'.tree[p] = MergeFile(log[v].tree[p], merge.tree[p], log[c].tree[p])
      /\ v \in merge.anc /\ v \in log[c].anc
  BY <1>1, <1>2, <1>3, MergeOneFact
<1>5. TypeOK'
  BY <1>1, <1>4 DEF TypeOK, slotVars, histVars
<1>6. fan' \ todo' = (fan \ todo) \cup {c} /\ c \in fan /\ c \notin fan \ todo
  BY <1>1, <1>2, <1>3
<1>7. ASSUME NEW d \in fan \ todo, NEW p \in Path PROVE KeptOf(d, p, merge.tree)'
  <2> SUFFICES ASSUME NEW e \in log[d].tree[p]
               PROVE  \/ e \in merge'.tree[p]
                      \/ \E f \in fan \ {d} : \E a \in log[f].anc : e \in log[a].tree[p]
    BY <1>1 DEF KeptOf
  <2>1. \/ e \in merge.tree[p]
        \/ \E f \in fan \ {d} : \E a \in log[f].anc : e \in log[a].tree[p]
    BY <1>2 DEF TrunkInv, Merging, KeptOf
  <2>2. e \in merge.tree[p] => e \in merge'.tree[p] \/ e \in log[v].tree[p]
    BY <1>4, MergeFileFact
  <2>3. c \in fan \ {d}
    BY <1>6
  <2>4. QED
    BY <1>4, <2>1, <2>2, <2>3
<1>8. ASSUME NEW p \in Path PROVE KeptOf(c, p, merge.tree)'
  <2> SUFFICES ASSUME NEW e \in log[c].tree[p]
               PROVE  \/ e \in merge'.tree[p]
                      \/ \E f \in fan \ {c} : \E a \in log[f].anc : e \in log[a].tree[p]
    BY <1>1 DEF KeptOf
  <2>1. e \in merge'.tree[p] \/ e \in log[v].tree[p]
    BY <1>4, MergeFileFact
  <2>2. PICK f \in fan \ todo : v \in log[f].anc
    BY <1>2, <1>4 DEF TrunkInv, Merging
  <2>3. QED
    BY <1>6, <2>1, <2>2
<1>9. Merging'
  <2>1. Max(fan) \in fan' \ todo' /\ merge'.branch = log'[Max(fan)].branch
    BY <1>1, <1>2, <1>4, <1>6 DEF TrunkInv, Merging
  <2>2. merge'.parents = fan' \ todo'
    BY <1>2, <1>4, <1>6 DEF TrunkInv, Merging
  <2>3. merge'.anc = UNION {log'[d].anc : d \in fan' \ todo'}
    <3>1. merge.anc = UNION {log[d].anc : d \in fan \ todo}
      BY <1>2 DEF TrunkInv, Merging
    <3>2. QED
      BY <1>1, <1>4, <1>6, <3>1
  <2>4. \A d \in fan' \ todo', p \in Path : KeptOf(d, p, merge.tree)'
    BY <1>6, <1>7, <1>8
  <2>5. QED
    BY <1>1, <1>2, <2>1, <2>2, <2>3, <2>4 DEF Merging
<1>10. Copies' /\ UpToDate'
  BY <1>1 DEF TrunkInv, Copies, UpToDate, Closed, slotVars, histVars
<1>11. QED
  BY <1>1, <1>5, <1>9, <1>10, LocalStep DEF histVars

LEMMA FanInFailsInv ==
    ASSUME TypeOK, TrunkInv, FanInFails, UNCHANGED synthetic
    PROVE  TypeOK' /\ TrunkInv'
<1>1. TypeOK'
  BY SeedType DEF FanInFails, FanInEnds, TypeOK, slotVars, histVars
<1>2. Copies' /\ UpToDate' /\ Merging'
  BY DEF FanInFails, FanInEnds, TrunkInv, Copies, UpToDate, Closed, Merging, slotVars, histVars
<1>3. QED
  BY <1>1, <1>2, LocalStep DEF FanInFails, histVars

(* The checkin that a fan-in commits.                                      *)
LEMMA MergedFact ==
    ASSUME TypeOK, TrunkInv, mergeLeaves
    PROVE  LET x == [merge EXCEPT !.anc = @ \cup {Len(log) + 1}]
           IN /\ fan # {} /\ todo = {} /\ x \in Checkin /\ log' = Append(log, x)
              /\ x.parents = fan /\ x.tree = merge.tree /\ x.branch = log[Max(fan)].branch
              /\ x.anc = merge.anc \cup {Len(log) + 1}
              /\ merge.anc = UNION {log[c].anc : c \in fan}
              /\ fan \subseteq merge.anc /\ 1 \in merge.anc /\ merge.anc \subseteq hub
              /\ \A a \in merge.anc : log[a].anc \subseteq merge.anc
<1>1. fan # {} /\ todo = {} /\ log' = Append(log, [merge EXCEPT !.anc = @ \cup {Len(log) + 1}])
  BY DEF mergeLeaves
<1>2. merge \in Checkin /\ Len(log) + 1 \in Nat /\ fan \subseteq hub /\ hub \subseteq DOMAIN log
  BY LogFact DEF TypeOK
<1>3. /\ merge.parents = fan /\ merge.branch = log[Max(fan)].branch
      /\ merge.anc = UNION {log[c].anc : c \in fan} /\ Max(fan) \in fan
  BY <1>1 DEF TrunkInv, Merging
<1>4. /\ fan \subseteq merge.anc /\ 1 \in merge.anc /\ merge.anc \subseteq hub
      /\ \A a \in merge.anc : log[a].anc \subseteq merge.anc
  BY <1>2, <1>3 DEF TrunkInv, Genealogy, Copies, Closed
<1>5. merge.anc \cup {Len(log) + 1} \in SUBSET Nat
  BY <1>2 DEF Checkin
<1>6. QED
  BY <1>1, <1>2, <1>3, <1>4, <1>5 DEF Checkin

LEMMA MergeLeavesInv ==
    ASSUME TypeOK, TrunkInv, mergeLeaves, UNCHANGED synthetic
    PROVE  TypeOK' /\ TrunkInv'
<1> DEFINE x == [merge EXCEPT !.anc = @ \cup {Len(log) + 1}]
<1> PICK n : n = Len(log) + 1
  OBVIOUS
<1> PICK k : k = Max(fan)
  OBVIOUS
<1>1. /\ k \in Leaves(hub) /\ hub' = hub \cup {n} /\ FanInEnds
      /\ behind' = behind \cup {s \in Slot : pc[s] = "write"}
      /\ raced' = (raced \/ Outside(hub) # {})
      /\ fanned' = (Leaves(hub) = fan /\ \A c \in fan : log[c].branch = Trunk)
      /\ UNCHANGED <<slotVars, edits, faults>>
  BY DEF mergeLeaves
<1>2. /\ fan # {} /\ todo = {} /\ x \in Checkin /\ log' = Append(log, x)
      /\ x.parents = fan /\ x.branch = log[k].branch /\ x.anc = merge.anc \cup {n}
      /\ merge.anc = UNION {log[c].anc : c \in fan}
      /\ fan \subseteq merge.anc /\ 1 \in merge.anc /\ merge.anc \subseteq hub
      /\ \A a \in merge.anc : log[a].anc \subseteq merge.anc
  BY MergedFact
<1> HIDE DEF x
<1>3. k \in fan /\ k \in hub /\ hub \subseteq DOMAIN log
  BY <1>2, LogFact DEF TypeOK, TrunkInv, Merging
<1>4. /\ Genealogy' /\ LogKept /\ log' \in Seq(Checkin)
      /\ DOMAIN log' = DOMAIN log \cup {n} /\ log'[n] = x /\ n \notin DOMAIN log
      /\ n \in Nat /\ \A c \in DOMAIN log : c < n
  <2>1. merge.anc \subseteq DOMAIN log
    BY <1>2, <1>3
  <2>2. QED
    BY <1>2, <2>1, AppendFact DEF TrunkInv
<1>5. TypeOK'
  BY <1>1, <1>4, SeedType, LogFact DEF TypeOK, FanInEnds, slotVars
<1>6. Copies'
  <2>1. \A c \in hub : log'[c].anc \subseteq hub
    BY <1>4, ClosedKept, LogFact DEF TrunkInv, Copies
  <2>2. \A t \in Slot : \A c \in repo[t] : log'[c].anc \subseteq repo[t]
    BY <1>4, ClosedKept, LogFact DEF TrunkInv, Copies
  <2>3. log'[1].branch = Trunk
    BY <1>4, LogFact DEF LogKept, TrunkInv, Copies
  <2>4. QED
    BY <1>1, <1>2, <1>4, <2>1, <2>2, <2>3 DEF TrunkInv, Copies, Closed, slotVars
<1>7. UpToDate'
  BY <1>1 DEF UpToDate, slotVars
<1>8. Merging'
  BY <1>1 DEF Merging, FanInEnds
<1>9. ASSUME ~raced' PROVE Chain'
  <2>1. Chain /\ ~raced /\ Outside(hub) = {}
    BY <1>1, <1>9 DEF TypeOK, TrunkInv
  <2>2. CASE log[k].branch # Trunk
    <3>1. TrunkLine' = TrunkLine
      BY <1>2, <1>4, <2>2 DEF TrunkLine, LogKept
    <3>2. QED
      BY <1>4, <2>1, <3>1, ChainKept DEF TrunkInv
  <2>3. CASE log[k].branch = Trunk
    <3>1. TrunkLine \subseteq hub /\ k \in TrunkLine
      BY <1>3, <2>1, <2>3 DEF TrunkLine, Outside
    <3>2. \A c \in TrunkLine : c <= k
      BY <1>1, <2>1, <2>3, <3>1, ChainLeaf DEF TrunkInv, Copies, TrunkLine
    <3>3. \A c \in TrunkLine : c < n
      BY <1>4 DEF TrunkLine
    <3>4. TrunkLine' = TrunkLine \cup {n}
      BY <1>2, <1>4, <2>3 DEF TrunkLine, LogKept
    <3>5. k \in log'[n].parents /\ n \in log'[n].anc /\ log[k].anc \subseteq log'[n].anc
      BY <1>2, <1>3, <1>4
    <3>6. QED
      BY <1>4, <2>1, <3>1, <3>2, <3>3, <3>4, <3>5, ChainGrows DEF TrunkInv
  <2>4. QED
    BY <2>2, <2>3
<1>10. ASSUME fanned'
       PROVE  Leaves(hub)' = {n} /\ Max(hub') = n /\ \A c \in hub' : c \in log'[n].anc
  <2>1. Leaves(hub) = fan /\ \A c \in fan : log[c].branch = Trunk
    BY <1>1, <1>10
  <2>2. \A c \in hub : log'[c] = log[c] /\ c # n /\ c < n /\ c \in Nat
    BY <1>3, <1>4, LogFact DEF LogKept
  <2>3. ASSUME NEW c \in hub PROVE c \notin Leaves(hub)'
    <3>1. CASE c \in Leaves(hub)
      <4>1. c \in log'[n].parents /\ log'[n].branch = log'[c].branch /\ n \in hub'
        BY <1>1, <1>2, <1>3, <1>4, <2>1, <2>2, <3>1
      <4>2. QED
        BY <4>1 DEF Leaves
    <3>2. CASE c \notin Leaves(hub)
      <4>1. PICK d \in hub : c \in log[d].parents /\ log[d].branch = log[c].branch
        BY <2>3, <3>2 DEF Leaves
      <4>2. d \in hub' /\ c \in log'[d].parents /\ log'[d].branch = log'[c].branch
        BY <1>1, <2>2, <2>3, <4>1
      <4>3. QED
        BY <4>2 DEF Leaves
    <3>3. QED
      BY <3>1, <3>2
  <2>4. n \in Leaves(hub)'
    <3>1. \A d \in hub' : n \notin log'[d].parents
      <4>1. n \notin log'[n].parents
        BY <1>2, <1>3, <1>4 DEF TypeOK
      <4>2. \A d \in hub : log[d].parents \subseteq DOMAIN log
        BY <1>3, LogFact DEF TrunkInv, Genealogy
      <4>3. QED
        BY <1>1, <1>4, <2>2, <4>1, <4>2
    <3>2. QED
      BY <1>1, <3>1 DEF Leaves
  <2>5. Leaves(hub)' = {n}
    <3>1. Leaves(hub)' \subseteq hub'
      BY DEF Leaves
    <3>2. Leaves(hub)' \subseteq {n}
      BY <1>1, <2>3, <3>1
    <3>3. QED
      BY <2>4, <3>2
  <2>6. Max(hub') = n
    <3>1. hub' # {} /\ hub' \subseteq 0 .. n
      BY <1>1, <1>4, <2>2
    <3>2. Max(hub') \in hub' /\ Max(hub') >= n
      BY <1>1, <1>4, <3>1, MaxFact
    <3>3. QED
      BY <1>1, <1>4, <2>2, <3>2
  <2>7. \A c \in hub' : c \in log'[n].anc
    <3>1. \A c \in hub : \E d \in fan : c \in log[d].anc
      BY <2>1, LeafAbove DEF TrunkInv
    <3>2. \A c \in hub : c \in merge.anc
      BY <1>2, <3>1
    <3>3. QED
      BY <1>1, <1>2, <1>4, <3>2
  <2>8. QED
    BY <2>5, <2>6, <2>7
<1>11. FanInCollapses'
  BY <1>10, FS_Singleton DEF FanInCollapses
<1>12. QED
  BY <1>4, <1>5, <1>6, <1>7, <1>8, <1>9, <1>11 DEF TrunkInv

LEMMA NextTrunk == TypeOK /\ TrunkInv /\ [Next]_vars => TypeOK' /\ TrunkInv'
<1> SUFFICES ASSUME TypeOK, TrunkInv, [Next]_vars PROVE TypeOK' /\ TrunkInv'
  OBVIOUS
<1>1. CASE UNCHANGED vars
  <2>1. TypeOK'
    BY <1>1 DEF TypeOK, vars, slotVars, fanVars, histVars
  <2>2. TrunkInv'
    BY <1>1, WorktreeStep DEF vars, slotVars, histVars, TrunkInv, Copies
  <2>3. QED
    BY <2>1, <2>2
<1>2. CASE Step /\ UNCHANGED synthetic
  BY <1>2, OpenWorktreeInv, CloseWorktreeInv, EditFileInv, AnnounceHoldsInv, PullInv, CommitInv,
     PushInv, OpenLeavesInv, MergeLeafInv, MergeLeavesInv, FanInFailsInv DEF Step
<1>3. QED
  BY <1>1, <1>2 DEF Next

(* What the proofs carry from state to state.                              *)
LEMMA TrunkInvHolds == Spec => [](TypeOK /\ TrunkInv)
  BY InitTrunk, NextTrunk, PTL DEF Spec

(* The hub's and the slots' repositories, the worktrees, the holds and the *)
(* fan-in's checkout are always of their types.                            *)
THEOREM TrunkTypeCorrect == Spec => []TypeOK
  BY TrunkInvHolds, PTL

(* The hub's trunk forks only where commits overlapped: a failed pull, a   *)
(* push that comes late, a slot that joins again over its old repository   *)
(* and a fan-in never fork it by themselves (Leaf.Commit, pullFromHub,     *)
(* Push, mergeLeaves).                                                     *)
THEOREM ForksAreExplained == Spec => []ForksExplained
<1>1. TypeOK /\ TrunkInv => ForksExplained
  BY ForksFact
<1>2. QED
  BY <1>1, TrunkInvHolds, PTL

(* After a fan-in over leaves of trunk that nothing raced with, the hub    *)
(* has one leaf, and everything in the hub is among its ancestors          *)
(* (openLeavesOnTrunk, mergeLeaf, mergeLeaves).                            *)
THEOREM FanInsCollapse == Spec => []FanInCollapses
<1>1. TrunkInv => FanInCollapses
  BY DEF TrunkInv
<1>2. QED
  BY <1>1, TrunkInvHolds, PTL

(* No fan-in loses an edit that only one of the leaves has, however many   *)
(* leaves there are and whichever is canonical (mergeLeaves).              *)
THEOREM FanInsKeepWork == Spec => FanInKeepsWork
<1> DEFINE Kept == \A c \in fan, p \in Path : \A e \in log[c].tree[p] :
                     \/ e \in log'[Len(log')].tree[p]
                     \/ \E d \in fan \ {c} : \E a \in log[d].anc : e \in log[a].tree[p]
<1>1. TypeOK /\ TrunkInv /\ [Next]_vars => [mergeLeaves => Kept]_vars
  <2> SUFFICES ASSUME TypeOK, TrunkInv, mergeLeaves,
                      NEW c \in fan, NEW p \in Path, NEW e \in log[c].tree[p]
               PROVE  \/ e \in log'[Len(log')].tree[p]
                      \/ \E d \in fan \ {c} : \E a \in log[d].anc : e \in log[a].tree[p]
    OBVIOUS
  <2>1. log'[Len(log')].tree = merge.tree /\ todo = {}
    <3> DEFINE x == [merge EXCEPT !.anc = @ \cup {Len(log) + 1}]
    <3>1. todo = {} /\ x \in Checkin /\ log' = Append(log, x) /\ x.tree = merge.tree
      BY MergedFact
    <3> HIDE DEF x
    <3>2. log'[Len(log')] = x
      BY <3>1 DEF TypeOK
    <3>3. QED
      BY <3>1, <3>2
  <2>2. KeptOf(c, p, merge.tree)
    BY <2>1 DEF TrunkInv, Merging
  <2>3. QED
    BY <2>1, <2>2 DEF KeptOf
<1>2. QED
  BY <1>1, TrunkInvHolds, PTL DEF Spec, FanInKeepsWork

-----------------------------------------------------------------------------
(***************************************************************************)
(* Apply, for any set of files and contents and any bounds.  Typed and     *)
(* ApplyIInv together are inductive: ApplyIInv says what the check, the    *)
(* plan and the writes done so far mean for the working tree that the      *)
(* operator goes on editing.                                               *)
(***************************************************************************)

(* The running apply.                                                      *)
ApplyRec == [at : {"idle", "rev", "check", "plan", "write", "add", "mark"},
             slot : BOOLEAN, tree : Checkout, rev : Revision, moved : BOOLEAN,
             todo : SUBSET File, done : SUBSET File, unseen : SUBSET File]

Budget == [edits : Nat, applies : Nat, faults : Nat]

(* ApplyTypeOK, with the record types it leaves open.                      *)
Typed ==
    /\ ApplyTypeOK
    /\ ap \in ApplyRec /\ onTrunk \subseteq File
    /\ budget \in Budget

(* An edit that counts as the operator's differs from HEAD: git status     *)
(* would show it.                                                          *)
EditsShow == \A p \in mine : work[p] # head[p]

(* Past the check, what the checkout would overwrite has no tracked edit   *)
(* that the check could have seen.                                         *)
Checked ==
    ap.at \in {"plan", "write"} =>
        \A p \in mine \ (late \cup ap.unseen) : ~(Tracked(p) /\ ap.tree[p] # None)

(* The revision that the marker will name is the one checked out, unless   *)
(* trunk moved before it was asked for.                                    *)
Named ==
    /\ ap.at \in {"rev", "mark"} => ~ap.slot
    /\ ap.at = "rev" /\ ~ap.moved => tip.tree = ap.tree
    /\ ap.at \notin {"idle", "rev"} /\ ~ap.moved /\ ~ap.slot => ap.rev.tree = ap.tree

(* Trunk's history has every file that a checkout or a marker may name.    *)
OnTrunk ==
    /\ Present(tip.tree) \subseteq onTrunk
    /\ Present(marker.tree) \subseteq onTrunk
    /\ Present(ap.rev.tree) \subseteq onTrunk

(* A file that is still to be deleted was trunk's.                         *)
DeletesPlanned ==
    ap.at = "write" => \A p \in ap.todo : ap.tree[p] = None => p \in onTrunk

(* What is not left to write, and not edited since the check, is there,    *)
(* and what is not left to delete is not.                                  *)
Written ==
    /\ ap.at \in {"write", "add", "mark"} =>
          \A p \in Present(ap.tree) \ (late \cup ap.todo) : work[p] = ap.tree[p]
    /\ ap.at \in {"write", "add", "mark"} /\ ~ap.slot =>
          \A p \in manifestAtRev(marker) \ (late \cup ap.todo) :
             ap.tree[p] = None => work[p] = None
    /\ ap.at \in {"add", "mark"} => ap.todo = {}

ApplyIInv == EditsShow /\ Checked /\ Named /\ OnTrunk /\ DeletesPlanned /\ Written

(* What the proofs carry from state to state.                              *)
ApplyInv == Typed /\ ApplyIInv

(* What the three action properties say of one step.                       *)
EditKept ==
    ap' # ap =>
        \A p \in mine \ (late \cup ap.unseen) :
           Tracked(p) /\ ap.tree[p] # None => work'[p] = work[p]

TrunkFileGone ==
    ap' # ap =>
        \A p \in File :
           work[p] # None /\ work'[p] = None =>
              /\ ap.tree[p] = None
              /\ p \in onTrunk

MarkerTrue == marker' # marker /\ ~ap.moved => Recorded

(* What every step is shown to do.                                         *)
Good == ApplyInv' /\ EditKept /\ TrunkFileGone /\ MarkerTrue

-----------------------------------------------------------------------------
(* The running apply of a workspace where none runs.                       *)
LEMMA NoApplyType ==
    /\ NoApply \in ApplyRec /\ NoFiles \in Checkout /\ Unmarked \in Revision
    /\ NoApply.at = "idle" /\ NoApply.tree = NoFiles /\ NoApply.rev = Unmarked
    /\ NoApply.todo = {} /\ NoApply.done = {} /\ NoApply.unseen = {}
    /\ NoApply.slot = FALSE /\ NoApply.moved = FALSE
    /\ Present(NoFiles) = {} /\ Unmarked.tree = NoFiles
  <1>1. NoFiles \in Checkout /\ Present(NoFiles) = {}
    BY DEF NoFiles, Checkout, Present
  <1>2. Unmarked \in Revision /\ Unmarked.tree = NoFiles
    BY <1>1 DEF Unmarked, Revision
  <1> QED
    BY <1>1, <1>2 DEF NoApply, ApplyRec

(* A step that leaves the files and the operator's git alone: the apply    *)
(* goes to the locals a.                                                   *)
LEMMA ApplyStep ==
    ASSUME ApplyInv, NEW a \in ApplyRec, ap' = a, a.todo \subseteq a.done,
           UNCHANGED <<tip, work, head, index, onTrunk, mine>>,
           marker' \in Revision, Present(marker'.tree) \subseteq onTrunk,
           MarkerTrue,
           Present(a.rev.tree) \subseteq onTrunk,
           late' \subseteq File,
           budget' \in Budget,
           a.at \in {"plan", "write"} =>
              \A p \in mine \ (late' \cup a.unseen) : ~(Tracked(p) /\ a.tree[p] # None),
           a.at \in {"rev", "mark"} => ~a.slot,
           a.at = "rev" /\ ~a.moved => tip.tree = a.tree,
           a.at \notin {"idle", "rev"} /\ ~a.moved /\ ~a.slot => a.rev.tree = a.tree,
           a.at = "write" => \A p \in a.todo : a.tree[p] = None => p \in onTrunk,
           a.at \in {"write", "add", "mark"} =>
              \A p \in Present(a.tree) \ (late' \cup a.todo) : work[p] = a.tree[p],
           a.at \in {"write", "add", "mark"} /\ ~a.slot =>
              \A p \in manifestAtRev(marker') \ (late' \cup a.todo) :
                 a.tree[p] = None => work[p] = None,
           a.at \in {"add", "mark"} => a.todo = {}
    PROVE  Good
  <1>1. Typed'
    BY DEF ApplyInv, Typed, ApplyTypeOK, ApplyRec, Budget
  <1>2. EditsShow' /\ Checked' /\ Named' /\ OnTrunk' /\ DeletesPlanned'
    BY DEF ApplyInv, ApplyIInv, EditsShow, Checked, Named, OnTrunk, DeletesPlanned,
       Tracked, Present
  <1>3. Written'
    BY DEF Written, Present, manifestAtRev
  <1>4. EditKept /\ TrunkFileGone
    BY DEF EditKept, TrunkFileGone
  <1> QED
    BY <1>1, <1>2, <1>3, <1>4 DEF Good, ApplyInv, ApplyIInv

(* An apply that ends, with the marker it leaves.                          *)
LEMMA DoneGood ==
    ASSUME ApplyInv, Done, UNCHANGED <<tip, work, head, index, onTrunk, mine>>,
           marker' \in Revision, Present(marker'.tree) \subseteq onTrunk, MarkerTrue,
           budget' \in Budget
    PROVE  Good
  BY NoApplyType, ApplyStep DEF Done

(* What the steps of a running apply start from.                           *)
LEMMA ApplyFacts ==
    ASSUME ApplyInv
    PROVE  /\ ap \in ApplyRec /\ ap.todo \subseteq ap.done
           /\ tip \in Revision /\ marker \in Revision /\ late \subseteq File
           /\ budget \in Budget
           /\ Present(tip.tree) \subseteq onTrunk
           /\ Present(marker.tree) \subseteq onTrunk
           /\ Present(ap.rev.tree) \subseteq onTrunk
  BY DEF ApplyInv, Typed, ApplyTypeOK, ApplyIInv, OnTrunk

(* The swarm's checkin: an apply that has not asked for the name of the    *)
(* tip yet will be told another one.                                       *)
LEMMA CheckinGood == ASSUME ApplyInv, NEW c \in Revision, CheckinArrives(c) PROVE Good
  <1>1. /\ tip' = c /\ onTrunk' = onTrunk \cup Present(c.tree)
        /\ UNCHANGED <<work, head, index, marker, mine, late, budget>>
    BY DEF CheckinArrives, git
  <1> DEFINE m == ap.moved \/ ap.at = "rev"
  <1>2. ap' = [ap EXCEPT !.moved = m]
    BY DEF CheckinArrives
  <1>3. m \in BOOLEAN
    BY ApplyFacts DEF ApplyRec
  <1>4. m <=> ap.moved \/ ap.at = "rev"
    OBVIOUS
  <1> HIDE DEF m
  <1>5. /\ ap' \in ApplyRec /\ ap'.at = ap.at /\ ap'.slot = ap.slot /\ ap'.tree = ap.tree
        /\ ap'.rev = ap.rev /\ ap'.todo = ap.todo /\ ap'.done = ap.done
        /\ ap'.unseen = ap.unseen /\ ap'.moved = m
    BY <1>2, <1>3, ApplyFacts DEF ApplyRec
  <1>6. Typed'
    BY <1>1, <1>5 DEF ApplyInv, Typed, ApplyTypeOK, Present
  <1>7. EditsShow' /\ Checked' /\ OnTrunk' /\ DeletesPlanned' /\ Written'
    BY <1>1, <1>5 DEF ApplyInv, ApplyIInv, EditsShow, Checked, OnTrunk, DeletesPlanned, Written,
       Tracked, Present, manifestAtRev
  <1>8. Named'
    BY <1>1, <1>4, <1>5 DEF ApplyInv, ApplyIInv, Named
  <1>9. EditKept /\ TrunkFileGone /\ MarkerTrue
    BY <1>1 DEF EditKept, TrunkFileGone, MarkerTrue
  <1> QED
    BY <1>6, <1>7, <1>8, <1>9 DEF Good, ApplyInv, ApplyIInv

(* What the operator does to some files, the check that follows will see,  *)
(* or it is late.                                                          *)
LEMMA TouchGood ==
    ASSUME ApplyInv, OperatorActs, NEW files \in SUBSET File, Touches(files),
           work' \in WorkTree, index' \subseteq File,
           \A q \in File \ files : work'[q] = work[q] /\ (q \in index' <=> q \in index),
           mine' \subseteq mine \cup files, \A q \in mine' : work'[q] # head[q]
    PROVE  Good
  <1>1. /\ budget.edits > 0 /\ budget' = [budget EXCEPT !.edits = @ - 1]
        /\ UNCHANGED <<tip, head, marker, ap, onTrunk>>
    BY DEF OperatorActs
  <1>2. mine \subseteq File /\ late \subseteq File
    BY DEF ApplyInv, Typed, ApplyTypeOK
  <1>3. budget' \in Budget
    BY <1>1 DEF ApplyInv, Typed, Budget
  <1>4. /\ late' \subseteq File
        /\ ap.at \in {"plan", "write", "add", "mark"} => late' = late \cup files
    BY <1>2 DEF Touches
  <1>5. Typed'
    BY <1>1, <1>2, <1>3, <1>4 DEF ApplyInv, Typed, ApplyTypeOK
  <1>6. EditsShow' /\ Named' /\ OnTrunk' /\ DeletesPlanned'
    BY <1>1 DEF ApplyInv, ApplyIInv, EditsShow, Named, OnTrunk, DeletesPlanned, Present
  <1>7. Checked'
    BY <1>1, <1>2, <1>4 DEF ApplyInv, ApplyIInv, Checked, Tracked
  <1>8. Written'
    BY <1>1, <1>4 DEF ApplyInv, ApplyIInv, Written, Present, manifestAtRev
  <1>9. EditKept /\ TrunkFileGone /\ MarkerTrue
    BY <1>1 DEF EditKept, TrunkFileGone, MarkerTrue
  <1> QED
    BY <1>5, <1>6, <1>7, <1>8, <1>9 DEF Good, ApplyInv, ApplyIInv

(* The operator writes or deletes a file.                                  *)
LEMMA EditGood ==
    ASSUME ApplyInv, NEW p \in File, NEW o \in Own \cup {None}, OperatorEdits(p, o) PROVE Good
  <1> DEFINE w == [work EXCEPT ![p] = o]
  <1>1. /\ OperatorActs /\ Touches({p}) /\ work' = w /\ index' = index
        /\ mine' = {q \in mine \cup {p} : w[q] # head[q]}
    BY DEF OperatorEdits, Writes
  <1>2. work \in WorkTree /\ index \subseteq File /\ mine \subseteq File
    BY DEF ApplyInv, Typed, ApplyTypeOK
  <1>3. w \in WorkTree /\ \A q \in File \ {p} : w[q] = work[q]
    BY <1>2 DEF WorkTree
  <1> HIDE DEF w
  <1>4. \A q \in File \ {p} : work'[q] = work[q] /\ (q \in index' <=> q \in index)
    BY <1>1, <1>3
  <1>5. mine' \subseteq mine \cup {p} /\ \A q \in mine' : work'[q] # head[q]
    BY <1>1
  <1> QED
    BY <1>1, <1>2, <1>3, <1>4, <1>5, TouchGood

(* The operator stages a file.                                             *)
LEMMA OperatorStagesGood == ASSUME ApplyInv, NEW p \in File, OperatorStages(p) PROVE Good
  <1>1. /\ OperatorActs /\ Touches({p}) /\ work' = work /\ mine' = mine
        /\ index' = IF work[p] = None THEN index \ {p} ELSE index \cup {p}
    BY DEF OperatorStages
  <1>2. work \in WorkTree /\ index \subseteq File
    BY DEF ApplyInv, Typed, ApplyTypeOK
  <1>3. index' \subseteq File /\ \A q \in File \ {p} : q \in index' <=> q \in index
    BY <1>1, <1>2
  <1>4. \A q \in mine' : work'[q] # head[q]
    BY <1>1 DEF ApplyInv, ApplyIInv, EditsShow
  <1> QED
    BY <1>1, <1>2, <1>3, <1>4, TouchGood

(* The operator renames a file.                                            *)
LEMMA OperatorRenamesGood ==
    ASSUME ApplyInv, NEW p \in File, NEW q \in File, OperatorRenames(p, q) PROVE Good
  <1> DEFINE w == [work EXCEPT ![p] = None, ![q] = work[p]]
  <1>1. /\ OperatorActs /\ Touches({p, q}) /\ work' = w
        /\ index' = (index \ {p}) \cup {q}
        /\ mine' = {x \in mine \cup {p, q} : w[x] # head[x]}
    BY DEF OperatorRenames, Writes
  <1>2. work \in WorkTree /\ index \subseteq File /\ mine \subseteq File
    BY DEF ApplyInv, Typed, ApplyTypeOK
  <1>3. w \in WorkTree /\ \A x \in File \ {p, q} : w[x] = work[x]
    BY <1>2 DEF WorkTree
  <1> HIDE DEF w
  <1>4. /\ index' \subseteq File
        /\ \A x \in File \ {p, q} : work'[x] = work[x] /\ (x \in index' <=> x \in index)
    BY <1>1, <1>2, <1>3
  <1>5. mine' \subseteq mine \cup {p, q} /\ \A x \in mine' : work'[x] # head[x]
    BY <1>1
  <1> QED
    BY <1>1, <1>2, <1>3, <1>4, <1>5, TouchGood

(* git commit -a takes in the tracked edits; what is not tracked stays so. *)
LEMMA CommitGood == ASSUME ApplyInv, OperatorCommits PROVE Good
  <1>1. /\ head' = [p \in File |-> IF Tracked(p) THEN work[p] ELSE head[p]]
        /\ index' = {p \in File : Tracked(p) /\ work[p] # None}
        /\ mine' = {p \in mine : ~Tracked(p)}
        /\ UNCHANGED <<tip, work, marker, ap, onTrunk, late, budget>>
    BY DEF OperatorCommits
  <1>2. mine \subseteq File /\ index \subseteq File
    BY DEF ApplyInv, Typed, ApplyTypeOK
  <1>3. Typed'
    BY <1>1 DEF ApplyInv, Typed, ApplyTypeOK, WorkTree
  <1>4. EditsShow'
    BY <1>1, <1>2 DEF ApplyInv, ApplyIInv, EditsShow
  <1>5. Checked'
    <2>1. \A p \in mine' : p \in File /\ p \in mine /\ ~Tracked(p)
      BY <1>1, <1>2
    <2>2. \A p \in mine' : p \notin index' /\ head'[p] = None
      BY <1>1, <2>1 DEF Tracked
    <2> QED
      BY <1>1, <2>2 DEF Checked, Tracked
  <1>6. Named' /\ OnTrunk' /\ DeletesPlanned' /\ Written'
    BY <1>1 DEF ApplyInv, ApplyIInv, Named, OnTrunk, DeletesPlanned, Written, Present,
       manifestAtRev
  <1>7. EditKept /\ TrunkFileGone /\ MarkerTrue
    BY <1>1 DEF EditKept, TrunkFileGone, MarkerTrue
  <1> QED
    BY <1>3, <1>4, <1>5, <1>6, <1>7 DEF Good, ApplyInv, ApplyIInv

(* Both modes start before the check.                                      *)
LEMMA StartGood ==
    ASSUME ApplyInv, NEW a \in ApplyRec, Start(a), a.at \in {"rev", "check"},
           a.rev = Unmarked, a.todo = {},
           a.at = "rev" => ~a.slot /\ tip.tree = a.tree, a.at = "check" => a.slot
    PROVE  Good
  <1>1. /\ ap' = a /\ budget.applies > 0 /\ budget' = [budget EXCEPT !.applies = @ - 1]
        /\ UNCHANGED <<tip, work, head, index, marker, onTrunk, mine, late>>
    BY DEF Start, git, hist
  <1>2. budget' \in Budget
    BY <1>1, ApplyFacts DEF Budget
  <1>3. Present(a.rev.tree) \subseteq onTrunk /\ MarkerTrue
    BY <1>1, NoApplyType DEF MarkerTrue
  <1> QED
    BY <1>1, <1>2, <1>3, ApplyFacts, ApplyStep

(* Trunk mode.                                                             *)
LEMMA OpenGood == ASSUME ApplyInv, openTempCheckout PROVE Good
  <1> DEFINE a == [NoApply EXCEPT !.at = "rev", !.tree = tip.tree]
  <1>1. tip.tree \in Checkout
    BY DEF ApplyInv, Typed, ApplyTypeOK, Revision
  <1>2. /\ a \in ApplyRec /\ a.at = "rev" /\ a.rev = Unmarked /\ a.todo = {}
        /\ a.slot = FALSE /\ a.tree = tip.tree
    BY <1>1, NoApplyType DEF ApplyRec
  <1>3. Start(a)
    BY DEF openTempCheckout
  <1> HIDE DEF a
  <1> QED
    BY <1>2, <1>3, StartGood

(* Slot mode.                                                              *)
LEMMA SlotModeGood == ASSUME ApplyInv, NEW t \in Checkout, runSyntheticSlotMode(t) PROVE Good
  <1> DEFINE a == [NoApply EXCEPT !.at = "check", !.slot = TRUE, !.tree = t]
  <1>1. /\ a \in ApplyRec /\ a.at = "check" /\ a.rev = Unmarked /\ a.todo = {}
        /\ a.slot = TRUE
    BY NoApplyType DEF ApplyRec
  <1>2. Start(a)
    BY DEF runSyntheticSlotMode
  <1> HIDE DEF a
  <1> QED
    BY <1>1, <1>2, StartGood

(* The name of the tip is asked for before anything is checked.            *)
LEMMA RevGood == ASSUME ApplyInv, trunkRev PROVE Good
  <1> DEFINE a == [ap EXCEPT !.at = "check", !.rev = tip]
  <1>1. /\ a \in ApplyRec /\ a.at = "check" /\ a.rev = tip /\ a.tree = ap.tree
        /\ a.todo = ap.todo /\ a.done = ap.done /\ a.moved = ap.moved /\ a.slot = ap.slot
    BY ApplyFacts DEF ApplyRec
  <1>2. ap' = a /\ UNCHANGED <<tip, work, head, index, marker, onTrunk, mine, late, budget>>
    BY DEF trunkRev, git, hist
  <1> HIDE DEF a
  <1>3. ~a.moved => a.rev.tree = a.tree
    BY <1>1 DEF trunkRev, ApplyInv, ApplyIInv, Named
  <1>4. MarkerTrue
    BY <1>2 DEF MarkerTrue
  <1> QED
    BY <1>1, <1>2, <1>3, <1>4, ApplyFacts, ApplyStep

(* The check sees every tracked edit of a name it can read, since each     *)
(* differs from HEAD.                                                      *)
LEMMA RefuseGood == ASSUME ApplyInv, refuseIfDirty PROVE Good
  <1>1. UNCHANGED <<tip, work, head, index, marker, onTrunk, mine, budget>> /\ ap.at = "check"
    BY DEF refuseIfDirty, git, hist
  <1>2. MarkerTrue
    BY <1>1 DEF MarkerTrue
  <1>3. PICK renamed \in Renamed :
           IF dirtyTrackedPaths(Present(ap.tree), Quoted \cup renamed) # {} THEN Done
           ELSE /\ ap' = [ap EXCEPT !.at = "plan", !.unseen = Quoted \cup renamed]
                /\ UNCHANGED late
    BY DEF refuseIfDirty
  <1> DEFINE u == Quoted \cup renamed
  <1>4. u \in SUBSET File
    BY <1>3, NameAssumption DEF Renamed
  <1>5. CASE Done
    BY <1>1, <1>2, <1>5, ApplyFacts, DoneGood
  <1>6. CASE ~Done
    <2>1. /\ dirtyTrackedPaths(Present(ap.tree), u) = {}
          /\ ap' = [ap EXCEPT !.at = "plan", !.unseen = u] /\ late' = late
      BY <1>3, <1>6
    <2> HIDE DEF u
    <2> DEFINE a == [ap EXCEPT !.at = "plan", !.unseen = u]
    <2>2. /\ a \in ApplyRec /\ a.at = "plan" /\ a.rev = ap.rev /\ a.tree = ap.tree
          /\ a.todo = ap.todo /\ a.done = ap.done /\ a.unseen = u
          /\ a.moved = ap.moved /\ a.slot = ap.slot
      BY <1>4, ApplyFacts DEF ApplyRec
    <2>3. ap' = a
      BY <2>1
    <2> HIDE DEF a
    <2>4. \A p \in mine \ (late' \cup u) : ~(Tracked(p) /\ ap.tree[p] # None)
      <3> SUFFICES ASSUME NEW p \in mine, p \notin u, Tracked(p), ap.tree[p] # None
                   PROVE  FALSE
        OBVIOUS
      <3>1. p \in File /\ work[p] # head[p]
        BY DEF ApplyInv, Typed, ApplyTypeOK, ApplyIInv, EditsShow
      <3>2. p \in Present(ap.tree) \ u
        BY <3>1 DEF Present
      <3>3. Dirty(p)
        BY <3>1 DEF Dirty, Tracked
      <3> QED
        BY <2>1, <3>2, <3>3 DEF dirtyTrackedPaths
    <2>5. ~a.moved /\ ~a.slot => a.rev.tree = a.tree
      BY <1>1, <2>2 DEF ApplyInv, ApplyIInv, Named
    <2> QED
      BY <1>1, <1>2, <2>1, <2>2, <2>3, <2>4, <2>5, ApplyFacts, ApplyStep
  <1> QED
    BY <1>5, <1>6

(* The plan: it deletes only what the marker's checkin had, and where      *)
(* there is nothing to do the tree is there already.                       *)
LEMMA ClassifyGood == ASSUME ApplyInv, classifyDiff PROVE Good
  <1> DEFINE plan == AddedOrModified \cup Deleted
  <1>1. ap.at = "plan" /\ UNCHANGED <<tip, work, head, index, onTrunk, mine, budget>>
    BY DEF classifyDiff, git, hist
  <1>2. \/ Done /\ plan = {} /\ marker' = IF ap.slot THEN marker ELSE ap.rev
        \/ Done /\ marker' = marker
        \/ /\ ap' = [ap EXCEPT !.at = "write", !.todo = plan, !.done = plan]
           /\ marker' = marker /\ late' = late
    BY DEF classifyDiff
  <1>3. ~ap.moved /\ ~ap.slot => ap.rev.tree = ap.tree
    BY <1>1 DEF ApplyInv, ApplyIInv, Named
  <1>4. \A p \in Present(ap.tree) \ plan : work[p] = ap.tree[p]
    BY DEF AddedOrModified
  <1>5. ~ap.slot => \A p \in manifestAtRev(marker) \ plan : ap.tree[p] = None => work[p] = None
    BY DEF Deleted, loadPrevManifest, manifestAtRev, Present
  <1>6. \A p \in plan : p \in File /\ (ap.tree[p] = None => p \in onTrunk)
    BY ApplyFacts DEF AddedOrModified, Deleted, loadPrevManifest, manifestAtRev, Present
  <1> HIDE DEF plan
  <1>7. MarkerTrue
    <2>1. CASE marker' = marker
      BY <2>1 DEF MarkerTrue
    <2>2. CASE marker' # marker
      <3>1. plan = {} /\ ~ap.slot /\ marker' = ap.rev
        BY <1>2, <2>2
      <3> QED
        BY <1>3, <1>4, <1>5, <3>1 DEF MarkerTrue, Recorded, Present
    <2> QED
      BY <2>1, <2>2
  <1>8. CASE Done
    <2>1. marker' \in {marker, ap.rev}
      BY <1>2
    <2>2. ap.rev \in Revision
      BY ApplyFacts DEF ApplyRec
    <2>3. marker' \in Revision /\ Present(marker'.tree) \subseteq onTrunk
      BY <2>1, <2>2, ApplyFacts
    <2> QED
      BY <1>1, <1>7, <1>8, <2>3, ApplyFacts, DoneGood
  <1>9. CASE /\ ap' = [ap EXCEPT !.at = "write", !.todo = plan, !.done = plan]
             /\ marker' = marker /\ late' = late
    <2> DEFINE a == [ap EXCEPT !.at = "write", !.todo = plan, !.done = plan]
    <2>1. /\ a \in ApplyRec /\ a.at = "write" /\ a.rev = ap.rev /\ a.tree = ap.tree
          /\ a.todo = plan /\ a.done = plan /\ a.unseen = ap.unseen
          /\ a.moved = ap.moved /\ a.slot = ap.slot
      BY <1>6, ApplyFacts DEF ApplyRec
    <2>2. \A p \in mine \ (late \cup ap.unseen) : ~(Tracked(p) /\ ap.tree[p] # None)
      BY <1>1 DEF ApplyInv, ApplyIInv, Checked
    <2>3. ap' = a
      BY <1>9
    <2> HIDE DEF a
    <2>4. \A p \in manifestAtRev(marker') \ plan : ~a.slot /\ a.tree[p] = None => work[p] = None
      BY <1>5, <1>9, <2>1
    <2> QED
      BY <1>1, <1>3, <1>4, <1>6, <1>7, <1>9, <2>1, <2>2, <2>3, <2>4, ApplyFacts, ApplyStep
  <1> QED
    BY <1>2, <1>8, <1>9

(* A file is written: no tracked edit that the check could have seen is    *)
(* among them, and none is deleted that was not trunk's.                   *)
LEMMA WriteGood == ASSUME ApplyInv, NEW p \in File, WriteFile(p) PROVE Good
  <1>1. /\ ap.at = "write" /\ p \in ap.todo
        /\ work' = [work EXCEPT ![p] = ap.tree[p]]
        /\ mine' = mine \ {p} /\ late' = late \ {p}
        /\ UNCHANGED <<tip, head, index, marker, onTrunk, budget>>
    BY DEF WriteFile
  <1> DEFINE t == ap.todo \ {p}
             w == IF ap.todo = {p} THEN "add" ELSE "write"
             a == [ap EXCEPT !.todo = t, !.at = w]
  <1>2. t \in SUBSET File /\ w \in {"write", "add"} /\ (w = "add" => t = {})
    BY ApplyFacts DEF ApplyRec
  <1>3. ap' = a
    BY DEF WriteFile
  <1>4. t = ap.todo \ {p}
    OBVIOUS
  <1> HIDE DEF t, w
  <1>5. /\ a \in ApplyRec /\ a.at \in {"write", "add"} /\ a.rev = ap.rev /\ a.tree = ap.tree
        /\ a.todo = ap.todo \ {p} /\ a.done = ap.done /\ (a.at = "add" => a.todo = {})
        /\ a.unseen = ap.unseen /\ a.moved = ap.moved /\ a.slot = ap.slot
    BY ApplyFacts, <1>2, <1>4 DEF ApplyRec
  <1> HIDE DEF a
  <1>6. /\ work \in [File -> Version \cup Own \cup {None}] /\ mine \subseteq File
        /\ ap.tree \in [File -> Version \cup {None}]
    BY DEF ApplyInv, Typed, ApplyTypeOK, WorkTree, Checkout
  <1>7. \A q \in File : work'[q] = IF q = p THEN ap.tree[q] ELSE work[q]
    BY <1>1, <1>6
  <1>8. Typed'
    <2>1. work' \in WorkTree
      BY <1>1, <1>6 DEF WorkTree
    <2>2. ap'.todo \subseteq ap'.done
      BY <1>5, <1>3, ApplyFacts
    <2> QED
      BY <1>1, <1>5, <1>3, <2>1, <2>2 DEF ApplyInv, Typed, ApplyTypeOK, ApplyRec
  <1>9. EditsShow'
    BY <1>1, <1>6, <1>7 DEF ApplyInv, ApplyIInv, EditsShow
  <1>10. Checked' /\ OnTrunk' /\ DeletesPlanned'
    BY <1>1, <1>5, <1>3 DEF ApplyInv, ApplyIInv, Checked, OnTrunk, DeletesPlanned, Tracked, Present
  <1>11. Named'
    BY <1>1, <1>5, <1>3 DEF ApplyInv, ApplyIInv, Named
  <1>12. Written'
    <2>1. \A q \in Present(ap'.tree) \ (late' \cup ap'.todo) : work'[q] = ap'.tree[q]
      BY <1>1, <1>5, <1>3, <1>7 DEF ApplyInv, ApplyIInv, Written, Present
    <2>2. ~ap'.slot => \A q \in manifestAtRev(marker') \ (late' \cup ap'.todo) :
                          ap'.tree[q] = None => work'[q] = None
      BY <1>1, <1>5, <1>3, <1>7 DEF ApplyInv, ApplyIInv, Written, manifestAtRev, Present
    <2> QED
      BY <1>5, <1>3, <2>1, <2>2 DEF Written
  <1>13. EditKept
    BY <1>1, <1>6, <1>7 DEF ApplyInv, ApplyIInv, Checked, EditKept
  <1>14. TrunkFileGone /\ MarkerTrue
    BY <1>1, <1>7 DEF ApplyInv, ApplyIInv, DeletesPlanned, TrunkFileGone, MarkerTrue
  <1> QED
    BY <1>8, <1>9, <1>10, <1>11, <1>12, <1>13, <1>14 DEF Good, ApplyInv, ApplyIInv

(* The staging changes the index only.                                     *)
LEMMA StageGood == ASSUME ApplyInv, StageFiles PROVE Good
  <1>1. /\ ap.at = "add" /\ UNCHANGED <<tip, work, head, marker, onTrunk, mine, budget>>
        /\ index' = index \/ index' = {p \in index \cup ap.done : p \in ap.done => work[p] # None}
    BY DEF StageFiles, hist
  <1>2. index' \subseteq File
    BY <1>1, ApplyFacts DEF ApplyInv, Typed, ApplyTypeOK, ApplyRec
  <1>3. Done \/ (ap' = [ap EXCEPT !.at = "mark"] /\ late' = late /\ ~ap.slot)
    BY DEF StageFiles
  <1>4. /\ ap' \in ApplyRec /\ ap'.at \in {"idle", "mark"} /\ ap'.todo = {}
        /\ Present(ap'.rev.tree) \subseteq onTrunk /\ late' \subseteq File
        /\ ap'.at = "mark" => /\ ap'.tree = ap.tree /\ ap'.rev = ap.rev /\ late' = late
                              /\ ap'.moved = ap.moved /\ ap'.slot = ap.slot /\ ~ap.slot
    <2>1. CASE Done
      BY <2>1, NoApplyType DEF Done
    <2>2. CASE ap' = [ap EXCEPT !.at = "mark"] /\ late' = late /\ ~ap.slot
      <3>1. ap.todo = {}
        BY <1>1 DEF ApplyInv, ApplyIInv, Written
      <3> QED
        BY <2>2, <3>1, ApplyFacts DEF ApplyRec
    <2> QED
      BY <1>3, <2>1, <2>2
  <1>5. Typed'
    BY <1>1, <1>2, <1>4 DEF ApplyInv, Typed, ApplyTypeOK, ApplyRec
  <1>6. EditsShow' /\ Checked' /\ Named' /\ OnTrunk' /\ DeletesPlanned'
    BY <1>1, <1>4 DEF ApplyInv, ApplyIInv, EditsShow, Checked, Named, OnTrunk, DeletesPlanned,
       Present
  <1>7. Written'
    BY <1>1, <1>4 DEF ApplyInv, ApplyIInv, Written, Present, manifestAtRev
  <1>8. EditKept /\ TrunkFileGone /\ MarkerTrue
    BY <1>1 DEF EditKept, TrunkFileGone, MarkerTrue
  <1> QED
    BY <1>5, <1>6, <1>7, <1>8 DEF Good, ApplyInv, ApplyIInv

(* The marker names a checkin of trunk, and unless trunk moved the one     *)
(* that has just been written out.                                         *)
LEMMA MarkGood == ASSUME ApplyInv, writeLastAppliedMarker PROVE Good
  <1>1. /\ ap.at = "mark" /\ marker' = ap.rev /\ Done
        /\ UNCHANGED <<tip, work, head, index, onTrunk, mine, budget>>
    BY DEF writeLastAppliedMarker, git, hist
  <1>2. ap.rev \in Revision
    BY ApplyFacts DEF ApplyRec
  <1>3. ~ap.slot /\ ap.todo = {} /\ (~ap.moved => ap.rev.tree = ap.tree)
    BY <1>1 DEF ApplyInv, ApplyIInv, Named, Written
  <1>4. MarkerTrue
    BY <1>1, <1>3 DEF ApplyInv, ApplyIInv, Written, MarkerTrue, Recorded, Present, manifestAtRev
  <1> QED
    BY <1>1, <1>2, <1>4, ApplyFacts, DoneGood

(* A killed apply leaves the files it wrote and no marker.                 *)
LEMMA DiesGood == ASSUME ApplyInv, ApplyDies PROVE Good
  <1>1. /\ Done /\ budget.faults > 0 /\ budget' = [budget EXCEPT !.faults = @ - 1]
        /\ UNCHANGED <<tip, work, head, index, marker, onTrunk, mine>>
    BY DEF ApplyDies, git, hist
  <1>2. budget' \in Budget /\ MarkerTrue
    BY <1>1, ApplyFacts DEF Budget, MarkerTrue
  <1> QED
    BY <1>1, <1>2, ApplyFacts, DoneGood

(* Where nothing happens nothing changes.                                  *)
LEMMA ApplyStutters == ASSUME ApplyInv, UNCHANGED applyVars PROVE ApplyInv'
  BY DEF applyVars, git, hist, ApplyInv, Typed, ApplyTypeOK, ApplyIInv, EditsShow, Checked, Named,
         OnTrunk, DeletesPlanned, Written, Tracked, Present, manifestAtRev

(* Every step of the swarm, the operator and the verb.                     *)
LEMMA NextGood == ASSUME ApplyInv, ApplyNext PROVE Good
  BY CheckinGood, EditGood, OperatorStagesGood, OperatorRenamesGood, CommitGood, OpenGood, RevGood, SlotModeGood, RefuseGood,
     ClassifyGood, WriteGood, StageGood, MarkGood, DiesGood DEF ApplyNext

(* A checkout just cloned.                                                 *)
LEMMA ApplyInitInv == ApplyInit => ApplyInv
  <1> SUFFICES ASSUME ApplyInit PROVE ApplyInv
    OBVIOUS
  <1>1. PICK t \in Checkout :
           /\ tip = [tree |-> t, cli |-> FALSE] /\ work = t /\ head = t
           /\ index = {p \in File : t[p] # None} /\ onTrunk = index
    BY DEF ApplyInit
  <1>2. /\ marker = Unmarked /\ ap = NoApply /\ mine = {} /\ late = {}
        /\ budget = [edits |-> MaxOwnEdits, applies |-> MaxApplies, faults |-> MaxKills]
    BY DEF ApplyInit
  <1>3. work \in WorkTree
    BY <1>1 DEF Checkout, WorkTree
  <1>4. tip \in Revision /\ Present(tip.tree) = onTrunk
    BY <1>1 DEF Revision, Present
  <1>5. Typed
    BY <1>1, <1>2, <1>3, <1>4, NoApplyType, ApplyBounds DEF Typed, ApplyTypeOK, ApplyRec, Budget
  <1>6. ApplyIInv
    BY <1>2, <1>4, NoApplyType DEF ApplyIInv, EditsShow, Checked, Named, OnTrunk, DeletesPlanned, Written
  <1> QED
    BY <1>5, <1>6 DEF ApplyInv

(* The inductive invariant holds in every reachable state.                 *)
LEMMA ApplyInvHolds == ApplySpec => []ApplyInv
  <1>1. ApplyInv /\ [ApplyNext]_applyVars => ApplyInv'
    BY NextGood, ApplyStutters DEF Good
  <1> QED
    BY ApplyInitInv, <1>1, PTL DEF ApplySpec

(* Type correctness: the repository, the marker and the running apply keep *)
(* their types (all of apply.go's steps).                                  *)
THEOREM ApplyTypeCorrect == ApplySpec => []ApplyTypeOK
  <1>1. ApplyInv => ApplyTypeOK
    BY DEF ApplyInv, Typed
  <1> QED
    BY ApplyInvHolds, <1>1, PTL

(* The revision that becomes the one last applied is in the working tree,  *)
(* and the files it dropped are not, whatever was killed before, unless    *)
(* trunk moved between the checkout and the question for its name          *)
(* (trunkRev, classifyDiff, applyPlanToTree, writeLastAppliedMarker).      *)
THEOREM MarkerIsTrue == ApplySpec => AppliedIsTrunk
  <1>1. ApplyInv /\ [ApplyNext]_applyVars => [MarkerTrue]_applyVars
    BY NextGood DEF Good
  <1>2. ApplySpec => [][MarkerTrue]_applyVars
    BY ApplyInvHolds, <1>1, PTL DEF ApplySpec
  <1> QED
    BY <1>2 DEF AppliedIsTrunk, MarkerTrue

(* An uncommitted edit of a tracked file that git status printed under its *)
(* name is overwritten by no apply (refuseIfDirty, dirtyTrackedPaths).     *)
THEOREM EditsSurvive == ApplySpec => ApplyKeepsTracked
  <1>1. ApplyInv /\ [ApplyNext]_applyVars => [EditKept]_applyVars
    BY NextGood DEF Good
  <1>2. ApplySpec => [][EditKept]_applyVars
    BY ApplyInvHolds, <1>1, PTL DEF ApplySpec
  <1> QED
    BY <1>2 DEF ApplyKeepsTracked, EditKept

(* An apply deletes no file that no checkin of trunk had                   *)
(* (loadPrevManifest, classifyDiff).                                       *)
THEOREM ForeignFilesStay == ApplySpec => DeletesOnlyTrunkFiles
  <1>1. ApplyInv /\ [ApplyNext]_applyVars => [TrunkFileGone]_applyVars
    BY NextGood DEF Good
  <1>2. ApplySpec => [][TrunkFileGone]_applyVars
    BY ApplyInvHolds, <1>1, PTL DEF ApplySpec
  <1> QED
    BY <1>2 DEF DeletesOnlyTrunkFiles, TrunkFileGone

=============================================================================
