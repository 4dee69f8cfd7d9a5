------------------------- MODULE HubLifecycle_proofs -------------------------
(***************************************************************************)
(* Theorems about HubLifecycle, for any number of processes, any choice of *)
(* verbs and any bound on the faults.  Inv is inductive.  Base holds       *)
(* whatever overlaps; Guard is what the lock, hub.pid and the child's own  *)
(* look at it keep true until an overlap they do not guard.                *)
(***************************************************************************)
EXTENDS HubLifecycle, TLAPS, FiniteSetTheorems

Fg(p) == verb[p] = "foreground"

(* Labels of a start that has the lock; of one that has a child.           *)
HoldAt == {"lockpid", "ports", "spawn", "tcp", "verify", "wait", "prune", "killkid",
           "unlockpid", "unlock"}

WaitAt == {"tcp", "verify", "wait", "prune", "killkid"}

(* Labels of a start that found no hub and has no child yet.               *)
PreAt == {"lock", "drop", "flock", "retry", "lockpid", "ports", "spawn"}

(* A hub from its pid file on, until it removes it; with its ports; with   *)
(* its repository.                                                         *)
PidAt == {"newhub", "seed", "recover", "register", "serve", "rmpid"}

BoundAt == {"seed", "recover", "register", "serve"}

ReadyAt == {"recover", "register", "serve"}

(* A start, or a hub that is not up yet; a stop, or a hub it has told.     *)
Starter(p) == pc[p] \in StartLabel \cup BootLabel \cup {"kid"} /\ verb[p] # "list"

Stopper(p) == pc[p] \in StopLabel \/ (p \in termed /\ pc[p] # "dead")

-----------------------------------------------------------------------------
(* The inductive invariant: what holds whatever overlaps.                  *)

Typed ==
    /\ pc \in [Pid -> Label]
    /\ verb \in [Pid -> Verb \cup {"none"}]
    /\ kid \in [Pid -> Pid \cup {NoPid}]
    /\ termed \subseteq Pid
    /\ hubpid \in Pid \cup {NoPid} /\ lockpid \in Pid \cup {NoPid}
    /\ flock \in Pid \cup {NoPid}
    /\ bound \in Pid \cup {NoPid, "foreign"}
    /\ repo \in {"absent", "unseeded", "seeded"}
    /\ reg \in Entry
    /\ marker \in BOOLEAN /\ urls \in BOOLEAN /\ meddled \in BOOLEAN /\ nilStart \in BOOLEAN
    /\ alone \subseteq Pid /\ failed \subseteq Pid /\ unlisted \subseteq Pid
    /\ faults \in 0 .. MaxFaults

(* Where the process of a verb can be.                                     *)
VerbPlaces ==
    \A p \in Pid :
        /\ verb[p] = "none" => pc[p] \in {"unborn", "dead", "kid"} \cup HubLabel
        /\ verb[p] = "join" => pc[p] \in StartLabel \cup {"dead"}
        /\ verb[p] = "foreground" =>
              pc[p] \in {"check", "dead"} \cup (PreAt \ {"spawn"}) \cup HubLabel
        /\ verb[p] = "list" => pc[p] \in {"prune", "dead"}
        /\ verb[p] \in {"stop", "down", "reap", "reappid"} => pc[p] \in StopLabel \cup {"dead"}
        /\ verb[p] = "up" => pc[p] \in UpLabel \cup {"dead"}

(* Nothing names a process that was never born.                            *)
UnbornUnnamed ==
    \A p \in Pid : pc[p] = "unborn" =>
        /\ verb[p] = "none" /\ kid[p] = NoPid /\ p \notin failed \cup alone \cup termed \cup unlisted
        /\ hubpid # p /\ lockpid # p /\ flock # p /\ bound # p /\ reg # p
        /\ \A q \in Pid : kid[q] # p

(* A start past its fork has a child, one before it none.                  *)
Kids ==
    \A p \in Pid : pc[p] \in StartLabel =>
        IF pc[p] \in WaitAt \cup {"unlockpid", "unlock"} /\ verb[p] = "join"
        THEN kid[p] \in Pid /\ verb[kid[p]] = "none"
        ELSE kid[p] = NoPid

(* Who has the ports, the lock, and its pid file; who may be in hub.pid    *)
(* and in the registry.                                                    *)
Owners ==
    /\ \A c \in Pid : pc[c] \in BoundAt <=> bound = c
    /\ \A p \in Pid : flock = p => \/ pc[p] \in HoldAt /\ verb[p] # "list"
                                   \/ pc[p] \in HubLabel /\ Fg(p)
    /\ \A p \in Pid : lockpid = p => \/ pc[p] \in HoldAt /\ verb[p] # "list"
                                     \/ pc[p] \in HubLabel /\ Fg(p)
                                     \/ pc[p] = "dead" /\ verb[p] # "none"
    /\ \A p \in Pid : hubpid = p => pc[p] \in PidAt \cup {"rmreg", "dead"}
    /\ \A p \in Pid : reg = p => pc[p] \in {"serve", "rmpid", "rmreg", "dead"}
    /\ \A p \in Pid : pc[p] \in {"rmpid", "rmreg"} => p \in termed

Base == Typed /\ VerbPlaces /\ UnbornUnnamed /\ Kids /\ Owners

-----------------------------------------------------------------------------
(* Until an overlap that the lock does not guard.                          *)

(* Starts and stops exclude each other, and a foreground start every other.*)
Apart ==
    /\ \A p, q \in Pid : ~(Starter(p) /\ Stopper(q))
    /\ \A p, q \in Pid : Starter(p) /\ Fg(p) /\ Starter(q) => p = q

(* The lock is had by one start at a time, and a child's starter has it.   *)
Locked ==
    /\ \A p \in Pid :
          \/ pc[p] \in HoldAt /\ verb[p] # "list"
          \/ pc[p] \in BootLabel /\ Fg(p)
          => flock = p
    /\ \A c \in Pid :
          pc[c] \in BootLabel \cup {"kid"} /\ verb[c] = "none" =>
             \E p \in Pid : pc[p] \in WaitAt /\ kid[p] = c

(* One hub; hub.pid and the registry name it.                              *)
Single ==
    /\ \A c, d \in Pid : pc[c] \in HubLabel /\ pc[d] \in HubLabel => c = d
    /\ \A c \in Pid : pc[c] \in PidAt => hubpid = c
    /\ \A c \in Pid : pc[c] = "serve" => reg = c \/ c \in unlisted

(* No hub behind a start that looked and may rely on it.                   *)
NoHub ==
    \A p \in Pid :
        \/ pc[p] \in PreAt /\ (Fg(p) \/ p \in alone)
        \/ pc[p] = "wipe"
        => ~Alive(hubpid) /\ \A d \in Pid : pc[d] \in HubLabel => d = p

(* The repository of a hub on its way up.                                  *)
Seeded ==
    \A c \in Pid :
        /\ pc[c] \in {"writepid", "newhub"} => repo = "absent"
        /\ pc[c] = "seed" => repo = "unseeded"
        /\ pc[c] \in ReadyAt => repo = "seeded"

(* A stop has no hub to look for but its target, and none in the end.      *)
Stops ==
    \A p, c \in Pid :
        pc[c] \in {"serve", "rmpid"} =>
            /\ pc[p] \in {"term", "grace"} => kid[p] = c
            /\ pc[p] \notin {"stoprm", "downreg", "downdir"}

(* A start that nothing overlaps.                                          *)
Undisturbed ==
    \A p \in alone :
        /\ p \notin failed /\ pc[p] # "killkid" /\ verb[p] \in {"join", "foreground"}
        /\ Starter(p) =>
              /\ bound # "foreign"
              /\ \A q \in Pid : Starter(q) => q \in {p, kid[p]}
        /\ pc[p] \in WaitAt =>
              /\ pc[kid[p]] # "dead" /\ kid[p] \notin unlisted
              /\ pc[kid[p]] = "kid" =>
                    ~Alive(hubpid) /\ \A d \in Pid : pc[d] \notin HubLabel
        /\ pc[p] = "verify" => pc[kid[p]] \in BoundAt

Guard == Apart /\ Locked /\ Single /\ NoHub /\ Seeded /\ Stops /\ Undisturbed

(* What the proofs carry from state to state.                              *)
Inv == Base /\ (~meddled => Guard)

-----------------------------------------------------------------------------
USE DEF StartLabel, BootLabel, HubLabel, StopLabel, UpLabel, Label, HoldAt, WaitAt, PreAt, PidAt,
        BoundAt, ReadyAt

(* What moves one process, pointwise.                                      *)
LEMMA GotoFact ==
    ASSUME Base, NEW p \in Pid, NEW l \in Label, Goto(p, l)
    PROVE  /\ pc' \in [Pid -> Label]
           /\ \A q \in Pid : pc'[q] = IF q = p THEN l ELSE pc[q]
  BY DEF Base, Typed, Goto

(* What holds of the dead: they stay dead, and no start takes them over.   *)
Calm ==
    \A x \in Pid :
        pc[x] = "dead" =>
            /\ pc'[x] = "dead"
            /\ \A q \in Pid : pc'[q] \in StartLabel /\ kid'[q] = x => pc[q] \in StartLabel /\ kid[q] = x

(* So a hub.pid that names no live process never comes to name one.        *)
LEMMA StaysDead ==
    ASSUME Base, ~Alive(hubpid), hubpid' \in {hubpid, NoPid}, Calm
    PROVE  ~Alive(hubpid)'
  BY PidAssumption DEF Base, Typed, Owners, Alive, Calm

(* A start that nothing overlaps, and its child.                           *)
LEMMA AloneFacts ==
    ASSUME Base, Guard, NEW a \in alone
    PROVE  /\ a \in Pid /\ verb[a] \in {"join", "foreground"}
           /\ pc[a] \in WaitAt => /\ Starter(a) /\ kid[a] \in Pid /\ kid[a] # a
                                  /\ verb[kid[a]] = "none" /\ pc[kid[a]] \in {"kid"} \cup HubLabel
           /\ pc[a] \in PreAt \cup {"check"} => Starter(a) /\ kid[a] = NoPid
  <1>1. a \in Pid /\ verb[a] \in {"join", "foreground"}
    BY DEF Base, Typed, Guard, Undisturbed
  <1>2. pc[a] \in WaitAt => verb[a] = "join" /\ kid[a] \in Pid /\ verb[kid[a]] = "none"
    BY <1>1 DEF Base, VerbPlaces, Kids
  <1>3. pc[a] \in WaitAt => pc[kid[a]] \in {"kid"} \cup HubLabel
    BY <1>1, <1>2 DEF Base, VerbPlaces, UnbornUnnamed, Guard, Undisturbed
  <1>4. pc[a] \in PreAt \cup {"check"} => kid[a] = NoPid
    BY <1>1 DEF Base, Kids
  <1> QED
    BY <1>1, <1>2, <1>3, <1>4 DEF Starter

-----------------------------------------------------------------------------
(* The start, up to its end.                                               *)

(* What a step of start p does to the lock.                                *)
LockStep(p, l) ==
    \/ flock' = flock /\ (pc[p] \in HoldAt <=> l \in HoldAt)
    \/ flock = NoPid /\ flock' = p /\ l \in HoldAt
    \/ l = "dead" /\ flock' = IF flock = p THEN NoPid ELSE flock

(* The registry entry is left alone, or removed or made idle; a live hub   *)
(* that had written it is unlisted from then on.                           *)
EntryStep ==
    \/ UNCHANGED <<reg, unlisted>>
    \/ reg' \in {NoPid, "idle"} /\ ~(reg \in Pid /\ Alive(reg)) /\ unlisted' = unlisted
    \/ reg' \in {NoPid, "idle"} /\ reg \in Pid /\ unlisted' = unlisted \cup {reg} /\ alone' = {}

(* Nobody loses the entry unnoticed.                                       *)
LEMMA EntryFacts ==
    ASSUME Base, EntryStep
    PROVE  /\ reg' \in {reg, NoPid, "idle"}
           /\ unlisted \subseteq unlisted' /\ unlisted' \subseteq Pid
           /\ \A x \in Pid : pc[x] = "unborn" => x \notin unlisted'
           /\ \A c \in Pid : pc[c] = "serve" /\ (reg = c \/ c \in unlisted) =>
                                reg' = c \/ c \in unlisted'
           /\ unlisted' = unlisted \/ alone' = {}
  <1>1. /\ unlisted \subseteq Pid
        /\ \A x \in Pid : pc[x] = "unborn" => x \notin unlisted /\ reg # x
    BY DEF Base, Typed, UnbornUnnamed
  <1>2. \A c \in Pid : pc[c] = "serve" /\ reg = c => reg \in Pid /\ Alive(reg)
    BY PidAssumption DEF Alive
  <1> QED
    BY <1>1, <1>2 DEF EntryStep

(* A step of start p to label l, that touches nothing of a hub but its     *)
(* registry entry.                                                         *)
LEMMA StartMoves ==
    ASSUME Inv, NEW p \in Pid, NEW l \in StartLabel \cup {"dead"},
           pc[p] \in StartLabel, Goto(p, l),
           UNCHANGED <<verb, kid, termed, hubpid, repo, bound, marker>>,
           urls' \in BOOLEAN, nilStart' \in BOOLEAN, meddled' \in BOOLEAN, faults' \in 0 .. MaxFaults,
           EntryStep,
           meddled => meddled',
           verb[p] = "list" => l = "dead",
           verb[p] = "foreground" => l \in (PreAt \ {"spawn"}) \cup {"dead"},
           l # "dead" => (l \in WaitAt \cup {"unlockpid", "unlock"} <=>
                          pc[p] \in WaitAt \cup {"unlockpid", "unlock"}),
           l \in WaitAt => pc[p] \in WaitAt,
           LockStep(p, l),
           lockpid' \in {lockpid, NoPid} \/ lockpid' = p,
           lockpid' = p => l \in HoldAt \cup {"dead"},
           alone' \subseteq alone, failed' \subseteq failed \cup {p},
           ~meddled' /\ pc[p] \in WaitAt /\ verb[p] # "list" /\ l \notin WaitAt =>
               pc[kid[p]] \notin BootLabel \cup {"kid"},
           ~meddled' /\ l \in PreAt /\ (Fg(p) \/ p \in alone) =>
               \/ pc[p] \in PreAt
               \/ ~Alive(hubpid) /\ \A d \in Pid : pc[d] \notin HubLabel,
           ~meddled' /\ p \in alone' =>
               p \notin failed' /\ l # "killkid" /\ (l = "verify" => pc[kid[p]] \in BoundAt)
    PROVE  Inv'
  <1>1. pc' \in [Pid -> Label] /\ \A q \in Pid : pc'[q] = IF q = p THEN l ELSE pc[q]
    BY GotoFact DEF Inv
  <1>0. /\ reg' \in {reg, NoPid, "idle"}
        /\ unlisted \subseteq unlisted' /\ unlisted' \subseteq Pid
        /\ \A x \in Pid : pc[x] = "unborn" => x \notin unlisted'
        /\ \A c \in Pid : pc[c] = "serve" /\ (reg = c \/ c \in unlisted) =>
                             reg' = c \/ c \in unlisted'
        /\ unlisted' = unlisted \/ alone' = {}
    BY EntryFacts DEF Inv
  <1>2. Typed'
    BY <1>0, <1>1 DEF Inv, Base, Typed, LockStep, Entry
  <1>3. VerbPlaces' /\ UnbornUnnamed' /\ Kids'
    BY <1>0, <1>1, PidAssumption DEF Inv, Base, Typed, VerbPlaces, UnbornUnnamed, Kids, LockStep
  <1>4. Owners'
    BY <1>0, <1>1, PidAssumption DEF Inv, Base, Typed, VerbPlaces, Owners, LockStep, Fg
  <1>5. ASSUME ~meddled' PROVE Guard'
    <2>1. Guard /\ Base
      BY <1>5 DEF Inv
    <2>2. Apart'
      BY <2>1, <1>1 DEF Guard, Apart, Starter, Stopper, Fg
    <2>3. Locked'
      BY <2>1, <1>1, <1>5, PidAssumption DEF Base, VerbPlaces, Kids, Guard, Locked, Fg, LockStep
    <2>4. Single' /\ Seeded' /\ Stops'
      BY <2>1, <1>0, <1>1, <1>5 DEF Guard, Single, Seeded, Stops
    <2>5. Calm
      BY <1>1 DEF Calm
    <2>6. ~Alive(hubpid) => ~Alive(hubpid)'
      BY <2>1, <2>5, StaysDead
    <2>7. NoHub'
      BY <2>1, <2>6, <1>1, <1>5 DEF Guard, NoHub, Fg
    <2>8. Undisturbed'
      <3> SUFFICES ASSUME NEW a \in alone'
                   PROVE  /\ a \notin failed' /\ pc'[a] # "killkid"
                          /\ verb[a] \in {"join", "foreground"}
                          /\ Starter(a)' => /\ bound # "foreign"
                                            /\ \A q \in Pid : Starter(q)' => q \in {a, kid[a]}
                          /\ pc'[a] \in WaitAt =>
                                /\ pc'[kid[a]] # "dead" /\ kid[a] \notin unlisted'
                                /\ pc'[kid[a]] = "kid" =>
                                      ~Alive(hubpid)' /\ \A d \in Pid : pc'[d] \notin HubLabel
                          /\ pc'[a] = "verify" => pc'[kid[a]] \in BoundAt
        BY DEF Undisturbed
      <3>1. a \in alone /\ a \in Pid
        BY DEF Inv, Base, Typed
      <3>2. a \notin failed' /\ pc'[a] # "killkid" /\ verb[a] \in {"join", "foreground"}
        BY <2>1, <1>1, <1>5, <3>1 DEF Guard, Undisturbed
      <3>3. Starter(a)' => Starter(a)
        BY <1>1, <3>1 DEF Starter
      <3>4. Starter(a)' => /\ bound # "foreign"
                           /\ \A q \in Pid : Starter(q)' => q \in {a, kid[a]}
        BY <2>1, <1>1, <3>1, <3>3 DEF Guard, Undisturbed, Starter
      <3>5. pc'[a] \in WaitAt => /\ pc[a] \in WaitAt /\ kid[a] \in Pid /\ kid[a] # p
                                 /\ pc[kid[a]] \in {"kid"} \cup HubLabel
        <4>1. pc'[a] \in WaitAt => pc[a] \in WaitAt
          BY <1>1, <3>1
        <4>2. pc[a] \in WaitAt => /\ kid[a] \in Pid /\ verb[kid[a]] = "none"
                                  /\ pc[kid[a]] \in {"kid"} \cup HubLabel
          BY <2>1, <3>1, AloneFacts
        <4>3. pc[a] \in WaitAt => kid[a] # p
          BY <4>2
        <4> QED
          BY <4>1, <4>2, <4>3
      <3>6. pc'[a] \in WaitAt => pc'[kid[a]] = pc[kid[a]]
        BY <1>1, <3>5
      <3>7. pc'[a] \in WaitAt /\ pc'[kid[a]] = "kid" =>
                ~Alive(hubpid)' /\ \A d \in Pid : pc'[d] \notin HubLabel
        BY <2>1, <2>6, <1>1, <3>1, <3>5, <3>6 DEF Guard, Undisturbed
      <3>8. pc'[a] = "verify" => pc'[kid[a]] \in BoundAt
        BY <2>1, <1>1, <1>5, <3>1, <3>6 DEF Guard, Undisturbed
      <3>9. pc'[a] \in WaitAt => kid[a] \notin unlisted'
        BY <2>1, <1>0, <3>1, <3>5 DEF Guard, Undisturbed
      <3> QED
        BY <3>2, <3>4, <3>5, <3>6, <3>7, <3>8, <3>9
    <2> QED
      BY <2>2, <2>3, <2>4, <2>7, <2>8 DEF Guard
  <1> QED
    BY <1>2, <1>3, <1>4, <1>5 DEF Inv, Base

(* Where no hub is up or coming, nothing that looks at hub.pid relies on   *)
(* one: a hub past its pid file is in it, and one before it is a start.    *)
LEMMA NoHubHere ==
    ASSUME Base, Guard, NEW p \in Pid, Starter(p), ~Alive(hubpid),
           \A q \in Pid : Starter(q) => pc[q] \notin BootLabel
    PROVE  \A d \in Pid : pc[d] \notin HubLabel
  <1> SUFFICES ASSUME NEW d \in Pid, pc[d] \in HubLabel PROVE FALSE
    OBVIOUS
  <1>1. verb[d] # "list"
    BY DEF Base, VerbPlaces
  <1>2. pc[d] \notin BootLabel
    BY <1>1 DEF Starter
  <1>3. pc[d] \notin {"serve", "rmpid"}
    BY PidAssumption DEF Guard, Single, Alive
  <1>4. pc[d] # "rmreg"
    BY DEF Base, Owners, Guard, Apart, Stopper
  <1> QED
    BY <1>2, <1>3, <1>4

(* Start returns at once, or goes on without a hub.                        *)
LEMMA CheckLiveInv == ASSUME Inv, NEW p \in Pid, CheckLive(p) PROVE Inv'
  <1>1. PICK l \in {"dead", "lock"} : Goto(p, l) /\ (l = "lock" <=> ~Alive(hubpid))
    BY DEF CheckLive
  <1>2. /\ pc[p] = "check" /\ nilStart' \in BOOLEAN
        /\ UNCHANGED <<verb, kid, termed, hubpid, lockpid, flock, repo, reg, marker, urls>>
        /\ UNCHANGED <<bound, alone, failed, meddled, unlisted, faults>>
    BY DEF CheckLive, disk
  <1>3. /\ verb[p] # "list" /\ Starter(p) /\ lockpid # p
    BY <1>2 DEF Inv, Base, VerbPlaces, Owners, Starter
  <1>4. ~meddled' /\ l \in PreAt /\ (Fg(p) \/ p \in alone) =>
            ~Alive(hubpid) /\ \A d \in Pid : pc[d] \notin HubLabel
    <2> SUFFICES ASSUME ~meddled, l = "lock", Fg(p) \/ p \in alone
                 PROVE  ~Alive(hubpid) /\ \A d \in Pid : pc[d] \notin HubLabel
      BY <1>2
    <2>1. Base /\ Guard
      BY DEF Inv
    <2>2. kid[p] = NoPid
      BY <2>1, <1>2 DEF Base, Kids
    <2>3. \A q \in Pid : Starter(q) => q = p
      BY <2>1, <2>2, <1>3, PidAssumption DEF Guard, Apart, Undisturbed
    <2> QED
      BY <2>1, <2>3, <1>1, <1>2, <1>3, NoHubHere
  <1>5. ~meddled' /\ p \in alone' => p \notin failed'
    BY <1>2 DEF Inv, Guard, Undisturbed
  <1>6. LockStep(p, l)
    BY <1>2 DEF LockStep
  <1> QED
    BY <1>1, <1>2, <1>3, <1>4, <1>5, <1>6, StartMoves DEF Inv, Base, Typed, EntryStep

(* A start that nothing overlaps meets no other holder of the lock, nor of *)
(* its pid file.                                                           *)
LEMMA NoHolder ==
    ASSUME Base, Guard, NEW p \in alone, pc[p] \in PreAt \ HoldAt
    PROVE  ~HolderAlive(p) /\ flock = NoPid
  <1>1. p \in Pid /\ kid[p] = NoPid /\ Starter(p)
    BY AloneFacts
  <1>2. \A q \in Pid : Starter(q) => q = p
    BY <1>1, PidAssumption DEF Guard, Undisturbed
  <1>3. \A q \in Pid : pc[q] \notin HubLabel
    BY <1>1 DEF Guard, NoHub
  <1>4. \A q \in Pid : pc[q] \in HoldAt /\ verb[q] # "list" => FALSE
    BY <1>2 DEF Starter
  <1>5. flock = NoPid
    BY <1>3, <1>4 DEF Base, Typed, Owners
  <1>6. ASSUME HolderAlive(p) PROVE FALSE
    <2>1. lockpid \in Pid /\ Alive(lockpid)
      BY <1>6 DEF Base, Typed, HolderAlive, Alive
    <2>2. pc[lockpid] = "dead" /\ verb[lockpid] # "none"
      BY <2>1, <1>3, <1>4 DEF Base, Owners
    <2>3. PICK q \in Pid : pc[q] \in StartLabel /\ kid[q] = lockpid
      BY <2>1, <2>2 DEF Alive
    <2> QED
      BY <2>1, <2>2, <2>3, PidAssumption DEF Base, Kids
  <1> QED
    BY <1>5, <1>6

(* A start that nothing overlaps finds no live holder.                     *)
LEMMA CheckHolderInv == ASSUME Inv, NEW p \in Pid, CheckHolder(p) PROVE Inv'
  <1>1. PICK l \in {"dead", "flock", "drop"} :
           /\ Goto(p, l) /\ (l = "dead" => HolderAlive(p))
           /\ failed' \subseteq failed \cup {p} /\ (l # "dead" => failed' = failed)
    BY DEF CheckHolder, Refused
  <1>2. /\ pc[p] = "lock" /\ UNCHANGED <<verb, kid, termed, hubpid, lockpid, flock, repo, reg>>
        /\ UNCHANGED <<marker, urls, bound, alone, meddled, nilStart, unlisted, faults>>
    BY DEF CheckHolder, disk
  <1>3. verb[p] # "list" /\ lockpid # p
    BY <1>2 DEF Inv, Base, VerbPlaces, Owners
  <1>4. ~meddled' /\ p \in alone' => p \notin failed'
    BY <1>1, <1>2, NoHolder DEF Inv, Guard, Undisturbed
  <1>5. LockStep(p, l)
    BY <1>1, <1>2 DEF LockStep
  <1> QED
    BY <1>1, <1>2, <1>3, <1>4, <1>5, StartMoves DEF Inv, Base, Typed, EntryStep

(* The file of a dead holder is removed.                                   *)
LEMMA DropInv == ASSUME Inv, NEW p \in Pid, DropStaleHolder(p) PROVE Inv'
  <1>1. /\ pc[p] = "drop" /\ Goto(p, "flock") /\ lockpid' = NoPid
        /\ UNCHANGED <<verb, kid, termed, hubpid, flock, repo, reg, marker, urls>>
        /\ UNCHANGED <<bound, alone, failed, meddled, nilStart, unlisted, faults>>
    BY DEF DropStaleHolder, hist
  <1>2. verb[p] # "list"
    BY <1>1 DEF Inv, Base, VerbPlaces
  <1>3. ~meddled' /\ p \in alone' => p \notin failed'
    BY <1>1 DEF Inv, Guard, Undisturbed
  <1>4. LockStep(p, "flock")
    BY <1>1 DEF LockStep
  <1> QED
    BY <1>1, <1>2, <1>3, <1>4, StartMoves, PidAssumption DEF Inv, Base, Typed, EntryStep

(* One start gets the flock; one that nothing overlaps does.               *)
LEMMA TryLockInv == ASSUME Inv, NEW p \in Pid, TryLock(p) PROVE Inv'
  <1>1. /\ pc[p] \in {"flock", "retry"}
        /\ UNCHANGED <<verb, kid, termed, hubpid, repo, reg, marker, urls>>
        /\ UNCHANGED <<bound, alone, meddled, nilStart, unlisted, faults>>
    BY DEF TryLock
  <1>2. verb[p] # "list" /\ lockpid # p
    BY <1>1 DEF Inv, Base, VerbPlaces, Owners
  <1>3. PICK l \in {"lockpid", "retry", "dead"} :
           /\ Goto(p, l) /\ lockpid' \in {lockpid, NoPid} /\ failed' \subseteq failed \cup {p}
           /\ (l = "lockpid" => flock = NoPid /\ flock' = p /\ failed' = failed)
           /\ (l = "retry" => flock' = flock /\ failed' = failed)
           /\ (l = "dead" => flock # NoPid /\ flock' = flock)
    BY DEF TryLock, Refused
  <1>4. ~meddled' /\ p \in alone' => p \notin failed'
    BY <1>1, <1>3, NoHolder DEF Inv, Guard, Undisturbed
  <1>5. LockStep(p, l)
    BY <1>1, <1>3 DEF LockStep
  <1> QED
    BY <1>1, <1>2, <1>3, <1>4, <1>5, StartMoves, PidAssumption DEF Inv, Base, Typed, EntryStep

(* The holder writes its pid file.                                         *)
LEMMA WriteHolderInv == ASSUME Inv, NEW p \in Pid, WriteHolder(p) PROVE Inv'
  <1>1. /\ pc[p] = "lockpid" /\ Goto(p, "ports") /\ lockpid' = p
        /\ UNCHANGED <<verb, kid, termed, hubpid, flock, repo, reg, marker, urls>>
        /\ UNCHANGED <<bound, alone, failed, meddled, nilStart, unlisted, faults>>
    BY DEF WriteHolder, hist
  <1>2. verb[p] # "list"
    BY <1>1 DEF Inv, Base, VerbPlaces
  <1>3. ~meddled' /\ p \in alone' => p \notin failed'
    BY <1>1 DEF Inv, Guard, Undisturbed
  <1>4. LockStep(p, "ports")
    BY <1>1 DEF LockStep
  <1> QED
    BY <1>1, <1>2, <1>3, <1>4, StartMoves DEF Inv, Base, Typed, EntryStep

(* The fork is next.                                                       *)
LEMMA PortsInv == ASSUME Inv, NEW p \in Pid, ResolvePorts(p), Detached(p) PROVE Inv'
  <1>1. /\ pc[p] = "ports" /\ Goto(p, "spawn") /\ urls' = TRUE
        /\ UNCHANGED <<verb, kid, termed, hubpid, lockpid, flock, repo, reg, marker>>
        /\ UNCHANGED <<bound, alone, failed, meddled, nilStart, unlisted, faults>>
    BY DEF ResolvePorts, hist
  <1>2. verb[p] \notin {"list", "foreground"}
    BY <1>1 DEF Inv, Base, VerbPlaces, Detached
  <1>3. ~meddled' /\ p \in alone' => p \notin failed'
    BY <1>1 DEF Inv, Guard, Undisturbed
  <1>4. LockStep(p, "spawn")
    BY <1>1 DEF LockStep
  <1> QED
    BY <1>1, <1>2, <1>3, <1>4, StartMoves DEF Inv, Base, Typed, EntryStep

(* A start that waits for its child has one, and the lock stays its own.   *)
LEMMA WaiterFacts ==
    ASSUME Base, NEW p \in Pid, pc[p] \in WaitAt \cup {"unlockpid", "unlock"}, verb[p] # "list"
    PROVE  verb[p] = "join" /\ kid[p] \in Pid /\ verb[kid[p]] = "none"
  <1>1. verb[p] = "join"
    BY DEF Base, Typed, VerbPlaces, Verb
  <1> QED
    BY <1>1 DEF Base, Kids

(* Only an early timeout makes an undisturbed start kill its child.        *)
LEMMA TimesOutInv ==
    ASSUME Inv, NEW p \in Pid, pc[p] \in {"tcp", "wait"}, TimesOut(p),
           UNCHANGED <<verb, kid, termed, disk, bound>>
    PROVE  Inv'
  <1>1. /\ Goto(p, "killkid")
        /\ UNCHANGED <<verb, kid, termed, hubpid, lockpid, flock, repo, reg, marker, urls>>
        /\ UNCHANGED <<bound, failed, meddled, nilStart, unlisted>>
    BY DEF TimesOut, disk
  <1>2. \/ /\ pc[kid[p]] = "dead" \/ kid[p] \in unlisted
           /\ alone' = alone /\ faults' = faults
        \/ alone' = {} /\ faults' \in 0 .. MaxFaults
    BY VerbsAssumption DEF TimesOut, Fault, Inv, Base, Typed
  <1>3. verb[p] # "list"
    BY DEF Inv, Base, VerbPlaces
  <1>4. verb[p] = "join"
    BY <1>3, WaiterFacts DEF Inv
  <1>5. ~meddled' => p \notin alone'
    <2> SUFFICES ASSUME ~meddled, p \in alone, alone' = alone PROVE FALSE
      BY <1>1, <1>2
    <2>1. pc[kid[p]] # "dead" /\ kid[p] \notin unlisted
      BY DEF Inv, Guard, Undisturbed
    <2> QED
      BY <1>2, <2>1
  <1>6. LockStep(p, "killkid")
    BY <1>1 DEF LockStep
  <1>7. alone' \subseteq alone /\ faults' \in 0 .. MaxFaults
    BY <1>2 DEF Inv, Base, Typed
  <1> QED
    BY <1>1, <1>3, <1>4, <1>5, <1>6, <1>7, StartMoves DEF Inv, Base, Typed, EntryStep

(* Who answers a start that nothing overlaps is its child.                 *)
LEMMA WaitTCPInv == ASSUME Inv, NEW p \in Pid, WaitForTCP(p) PROVE Inv'
  <1>1. CASE bound = NoPid /\ TimesOut(p)
    BY <1>1, TimesOutInv DEF WaitForTCP
  <1>2. CASE bound # NoPid /\ Goto(p, "verify") /\ UNCHANGED <<hist, faults>>
    <2>1. /\ pc[p] = "tcp" /\ UNCHANGED <<verb, kid, termed, hubpid, lockpid, flock, repo, reg>>
          /\ UNCHANGED <<marker, urls, bound, alone, failed, meddled, nilStart, unlisted, faults>>
      BY <1>2 DEF WaitForTCP, disk, hist
    <2>2. verb[p] # "list"
      BY <2>1 DEF Inv, Base, VerbPlaces
    <2>3. verb[p] = "join"
      BY <2>1, <2>2, WaiterFacts DEF Inv
    <2>4. ASSUME ~meddled, p \in alone PROVE p \notin failed /\ pc[kid[p]] \in BoundAt
      <3>1. Base /\ Guard
        BY <2>4 DEF Inv
      <3>2. /\ Starter(p) /\ kid[p] \in Pid /\ pc[kid[p]] \in {"kid"} \cup HubLabel
        BY <2>1, <2>4, <3>1, AloneFacts
      <3>3. bound \in Pid /\ pc[bound] \in BoundAt
        BY <1>2, <2>4, <3>1, <3>2 DEF Base, Typed, Owners, Guard, Undisturbed
      <3>4. pc[kid[p]] # "kid"
        BY <2>1, <2>4, <3>1, <3>3 DEF Guard, Undisturbed
      <3>5. kid[p] = bound
        BY <3>1, <3>2, <3>3, <3>4 DEF Guard, Single
      <3> QED
        BY <2>4, <3>1, <3>3, <3>5 DEF Guard, Undisturbed
    <2>5. LockStep(p, "verify")
      BY <2>1 DEF LockStep
    <2> QED
      BY <1>2, <2>1, <2>2, <2>3, <2>4, <2>5, StartMoves DEF Inv, Base, Typed, EntryStep
  <1> QED
    BY <1>1, <1>2 DEF WaitForTCP

(* And hub.pid names that child.                                           *)
LEMMA VerifyInv == ASSUME Inv, NEW p \in Pid, VerifyPid(p) PROVE Inv'
  <1>1. PICK l \in {"wait", "killkid"} : Goto(p, l) /\ (l = "killkid" => hubpid # kid[p])
    BY DEF VerifyPid, Moves
  <1>2. /\ pc[p] = "verify" /\ UNCHANGED <<verb, kid, termed, hubpid, lockpid, flock, repo, reg>>
        /\ UNCHANGED <<marker, urls, bound, alone, failed, meddled, nilStart, unlisted, faults>>
    BY DEF VerifyPid, Moves, disk, hist
  <1>3. verb[p] # "list"
    BY <1>2 DEF Inv, Base, VerbPlaces
  <1>4. verb[p] = "join" /\ kid[p] \in Pid
    BY <1>2, <1>3, WaiterFacts DEF Inv
  <1>5. ~meddled' /\ p \in alone' => p \notin failed' /\ l # "killkid"
    BY <1>1, <1>2, <1>4 DEF Inv, Guard, Undisturbed, Single
  <1>6. LockStep(p, l)
    BY <1>1, <1>2 DEF LockStep
  <1> QED
    BY <1>1, <1>2, <1>3, <1>4, <1>5, <1>6, StartMoves DEF Inv, Base, Typed, EntryStep

(* The wait ends with the child's entry, so with a hub that serves.        *)
LEMMA WaitRegInv == ASSUME Inv, NEW p \in Pid, WaitForRegistry(p) PROVE Inv'
  <1>1. CASE TimesOut(p)
    BY <1>1, TimesOutInv DEF WaitForRegistry
  <1>2. CASE ~TimesOut(p)
    <2>1. PICK l \in {"unlockpid", "prune"} : Goto(p, l) /\ (l = "unlockpid" => reg = kid[p])
      BY <1>2 DEF WaitForRegistry
    <2>2. /\ pc[p] = "wait" /\ UNCHANGED <<verb, kid, termed, hubpid, lockpid, flock, repo, reg>>
          /\ UNCHANGED <<marker, urls, bound, alone, failed, meddled, nilStart, unlisted, faults>>
      BY <1>2 DEF WaitForRegistry, disk, hist
    <2>3. verb[p] # "list"
      BY <2>2 DEF Inv, Base, VerbPlaces
    <2>4. verb[p] = "join" /\ kid[p] \in Pid
      BY <2>2, <2>3, WaiterFacts DEF Inv
    <2>5. l \notin WaitAt => pc[kid[p]] \notin BootLabel \cup {"kid"}
      BY <2>1, <2>4 DEF Inv, Base, Owners
    <2>6. ~meddled' /\ p \in alone' => p \notin failed'
      BY <2>2 DEF Inv, Guard, Undisturbed
    <2>7. LockStep(p, l)
      BY <2>1, <2>2 DEF LockStep
    <2> QED
      BY <2>1, <2>2, <2>3, <2>4, <2>5, <2>6, <2>7, StartMoves DEF Inv, Base, Typed, EntryStep
  <1> QED
    BY <1>1, <1>2

(* A step that overwrites the entry.                                       *)
LEMMA OverwriteStep ==
    ASSUME NEW e \in {NoPid, "idle"}, Overwrite(e)
    PROVE  EntryStep /\ alone' \in {alone, {}}
  <1>1. CASE reg \in Pid /\ Alive(reg)
    BY <1>1 DEF Overwrite, EntryStep
  <1>2. CASE ~(reg \in Pid /\ Alive(reg))
    BY <1>2 DEF Overwrite, EntryStep
  <1> QED
    BY <1>1, <1>2

(* A hub whose entry the prune removes is unlisted.                        *)
LEMMA PruneInv == ASSUME Inv, NEW p \in Pid, Prune(p) PROVE Inv'
  <1>1. PICK l \in {"wait", "dead"} : Goto(p, l) /\ (l = "dead" <=> verb[p] = "list")
    BY DEF Prune
  <1>2. /\ pc[p] = "prune" /\ Overwrite(NoPid)
        /\ UNCHANGED <<verb, kid, termed, hubpid, lockpid, flock, repo, marker, urls>>
        /\ UNCHANGED <<bound, failed, meddled, nilStart, faults>>
    BY DEF Prune
  <1>3. EntryStep /\ alone' \in {alone, {}}
    BY <1>2, OverwriteStep
  <1>4. verb[p] # "foreground"
    BY <1>2 DEF Inv, Base, VerbPlaces
  <1>5. ~meddled' /\ p \in alone' => p \notin failed'
    BY <1>2, <1>3 DEF Inv, Guard, Undisturbed
  <1>6. LockStep(p, l)
    BY <1>1, <1>2 DEF LockStep, Inv, Base, Owners
  <1> QED
    BY <1>1, <1>2, <1>3, <1>4, <1>5, <1>6, StartMoves DEF Inv, Base, Typed

(* The pid file goes before the lock.                                      *)
LEMMA ReleaseHolderInv == ASSUME Inv, NEW p \in Pid, ReleaseHolder(p) PROVE Inv'
  <1>1. /\ pc[p] = "unlockpid" /\ Goto(p, "unlock") /\ lockpid' = NoPid
        /\ UNCHANGED <<verb, kid, termed, hubpid, flock, repo, reg, marker, urls>>
        /\ UNCHANGED <<bound, alone, failed, meddled, nilStart, unlisted, faults>>
    BY DEF ReleaseHolder, hist
  <1>2. verb[p] # "list"
    BY <1>1 DEF Inv, Base, VerbPlaces
  <1>3. verb[p] = "join"
    BY <1>1, <1>2, WaiterFacts DEF Inv
  <1>4. ~meddled' /\ p \in alone' => p \notin failed'
    BY <1>1 DEF Inv, Guard, Undisturbed
  <1>5. LockStep(p, "unlock")
    BY <1>1 DEF LockStep
  <1> QED
    BY <1>1, <1>2, <1>3, <1>4, <1>5, StartMoves, PidAssumption DEF Inv, Base, Typed, EntryStep

(* The lock goes with the process of the start.                            *)
LEMMA ReleaseLockInv == ASSUME Inv, NEW p \in Pid, ReleaseLock(p) PROVE Inv'
  <1>1. /\ pc[p] = "unlock" /\ Goto(p, "dead")
        /\ flock' = IF flock = p THEN NoPid ELSE flock
        /\ bound' = IF bound = p THEN NoPid ELSE bound
        /\ UNCHANGED <<verb, kid, termed, hubpid, lockpid, repo, reg, marker, urls>>
        /\ UNCHANGED <<alone, failed, meddled, nilStart, unlisted, faults>>
    BY DEF ReleaseLock, Dies, hist
  <1>2. bound' = bound
    BY <1>1 DEF Inv, Base, Owners
  <1>3. ~meddled' /\ p \in alone' => p \notin failed'
    BY <1>1 DEF Inv, Guard, Undisturbed
  <1>4. LockStep(p, "dead")
    BY <1>1 DEF LockStep
  <1> QED
    BY <1>1, <1>2, <1>3, <1>4, StartMoves DEF Inv, Base, Typed, EntryStep

(* While start p runs, no other start is undisturbed.                      *)
LEMMA OnlyStart ==
    ASSUME Base, Guard, NEW p \in Pid, Starter(p), verb[p] # "none", NEW a \in alone, a # p
    PROVE  ~Starter(a)
  <1> SUFFICES ASSUME Starter(a) PROVE FALSE
    OBVIOUS
  <1>1. a \in Pid /\ verb[a] \in {"join", "foreground"}
    BY AloneFacts
  <1>2. kid[a] = p
    BY <1>1 DEF Guard, Undisturbed
  <1>3. pc[a] \notin StartLabel
    BY <1>1, <1>2, PidAssumption DEF Base, Kids
  <1>4. Fg(a)
    BY <1>1, <1>3 DEF Base, VerbPlaces, Starter, Fg
  <1> QED
    BY <1>1, <1>4 DEF Guard, Apart

(* The fork: the child is nobody's yet.                                    *)
LEMMA SpawnInv == ASSUME Inv, NEW p \in Pid, NEW c \in Pid, SpawnChild(p, c) PROVE Inv'
  <1>1. /\ pc[p] = "spawn" /\ pc[c] = "unborn"
        /\ UNCHANGED <<verb, termed, hubpid, lockpid, flock, repo, reg, marker, urls>>
        /\ UNCHANGED <<bound, alone, failed, meddled, nilStart, unlisted, faults>>
    BY DEF SpawnChild, disk, hist
  <1>2. /\ pc' \in [Pid -> Label]
        /\ \A q \in Pid : pc'[q] = IF q = c THEN "kid" ELSE IF q = p THEN "tcp" ELSE pc[q]
        /\ kid' \in [Pid -> Pid \cup {NoPid}]
        /\ \A q \in Pid : kid'[q] = IF q = p THEN c ELSE kid[q]
    BY <1>1 DEF SpawnChild, Inv, Base, Typed
  <1>3. /\ verb[p] = "join" /\ Starter(p) /\ c # p
        /\ verb[c] = "none" /\ kid[p] = NoPid /\ kid[c] = NoPid
        /\ c \notin alone \cup failed \cup termed \cup unlisted
    <2>1. verb[p] \in Verb \cup {"none"}
      BY DEF Inv, Base, Typed
    <2>2. verb[p] = "join"
      BY <2>1, <1>1 DEF Inv, Base, VerbPlaces, Verb
    <2> QED
      BY <2>2, <1>1 DEF Inv, Base, Kids, UnbornUnnamed, Starter
  <1>4. Typed'
    BY <1>1, <1>2 DEF Inv, Base, Typed
  <1>5. VerbPlaces' /\ UnbornUnnamed' /\ Kids'
    BY <1>1, <1>2, <1>3, PidAssumption DEF Inv, Base, VerbPlaces, UnbornUnnamed, Kids
  <1>6. Owners'
    BY <1>1, <1>2, <1>3 DEF Inv, Base, Owners, Fg
  <1>7. ASSUME ~meddled' PROVE Guard'
    <2>1. Guard /\ Base
      BY <1>1, <1>7 DEF Inv
    <2>2. Apart'
      BY <2>1, <1>1, <1>2, <1>3 DEF Guard, Apart, Starter, Stopper, Fg
    <2>3. Locked'
      BY <2>1, <1>1, <1>2, <1>3 DEF Guard, Locked, Fg
    <2>4. Single' /\ Seeded' /\ Stops'
      BY <2>1, <1>1, <1>2 DEF Guard, Single, Seeded, Stops
    <2>5. Calm
      BY <1>1, <1>2 DEF Calm
    <2>6. ~Alive(hubpid) => ~Alive(hubpid)'
      BY <2>1, <2>5, <1>1, StaysDead
    <2>7. NoHub'
      BY <2>1, <2>6, <1>1, <1>2 DEF Guard, NoHub, Fg
    <2>8. Undisturbed'
      <3>1. ASSUME NEW a \in alone, a # p PROVE ~Starter(a)
        BY <2>1, <1>3, <3>1, OnlyStart
      <3>2. ASSUME NEW a \in alone, a # p
            PROVE  pc'[a] = pc[a] /\ kid'[a] = kid[a] /\ ~Starter(a)' /\ pc[a] \notin WaitAt
        <4>1. a \in Pid /\ a # c /\ verb[a] \in {"join", "foreground"}
          BY <2>1, <1>3, AloneFacts
        <4> QED
          BY <1>1, <1>2, <3>1, <3>2, <4>1 DEF Starter
      <3>3. p \in alone =>
               /\ p \notin failed /\ verb[p] \in {"join", "foreground"}
               /\ bound # "foreign" /\ ~Alive(hubpid)
               /\ \A q \in Pid : Starter(q) => q = p
               /\ \A d \in Pid : pc[d] \notin HubLabel
        BY <2>1, <1>1, <1>3, PidAssumption DEF Guard, Undisturbed, NoHub
      <3>4. p \in alone => /\ \A q \in Pid : Starter(q)' => q \in {p, c}
                           /\ \A d \in Pid : pc'[d] \notin HubLabel
        BY <1>1, <1>2, <3>3 DEF Starter
      <3> QED
        BY <2>1, <2>6, <1>1, <1>2, <1>3, <3>2, <3>3, <3>4 DEF Guard, Undisturbed
    <2> QED
      BY <2>2, <2>3, <2>4, <2>7, <2>8 DEF Guard
  <1> QED
    BY <1>4, <1>5, <1>6, <1>7 DEF Inv, Base

(* A start that gives up kills its child and keeps the lock for now.       *)
LEMMA KillChildInv == ASSUME Inv, NEW p \in Pid, KillChild(p) PROVE Inv'
  <1>1. /\ pc[p] = "killkid" /\ failed' = failed \cup {p}
        /\ bound' = IF bound = kid[p] THEN NoPid ELSE bound
        /\ UNCHANGED <<verb, kid, termed, hubpid, lockpid, flock, repo, reg, marker, urls>>
        /\ UNCHANGED <<alone, meddled, nilStart, unlisted, faults>>
    BY DEF KillChild, disk
  <1>2. verb[p] = "join" /\ kid[p] \in Pid /\ verb[kid[p]] = "none" /\ kid[p] # p
    <2>1. verb[p] # "list"
      BY <1>1 DEF Inv, Base, VerbPlaces
    <2>2. verb[p] = "join" /\ kid[p] \in Pid /\ verb[kid[p]] = "none"
      BY <1>1, <2>1, WaiterFacts DEF Inv
    <2> QED
      BY <2>2
  <1>3. /\ pc' \in [Pid -> Label]
        /\ \A q \in Pid : pc'[q] = IF q = kid[p] THEN "dead" ELSE IF q = p THEN "unlockpid" ELSE pc[q]
    BY <1>2 DEF KillChild, Inv, Base, Typed
  <1>4. Typed'
    BY <1>1, <1>3 DEF Inv, Base, Typed
  <1>5. VerbPlaces' /\ UnbornUnnamed' /\ Kids'
    BY <1>1, <1>2, <1>3, PidAssumption DEF Inv, Base, VerbPlaces, UnbornUnnamed, Kids
  <1>6. Owners'
    BY <1>1, <1>2, <1>3, PidAssumption DEF Inv, Base, VerbPlaces, Owners, Fg
  <1>7. ASSUME ~meddled' PROVE Guard'
    <2>1. Guard /\ Base /\ Starter(p)
      BY <1>1, <1>2, <1>7 DEF Inv, Starter
    <2>2. Apart'
      BY <2>1, <1>1, <1>2, <1>3 DEF Guard, Apart, Starter, Stopper, Fg
    <2>3. Locked'
      BY <2>1, <1>1, <1>2, <1>3 DEF Guard, Locked, Fg
    <2>4. Single' /\ Seeded' /\ Stops'
      BY <2>1, <1>1, <1>3 DEF Guard, Single, Seeded, Stops
    <2>5. Calm
      BY <1>1, <1>3 DEF Calm
    <2>6. ~Alive(hubpid) => ~Alive(hubpid)'
      BY <2>1, <2>5, <1>1, StaysDead
    <2>7. NoHub'
      BY <2>1, <2>6, <1>1, <1>3 DEF Guard, NoHub, Fg
    <2>8. ASSUME NEW a \in alone
          PROVE  /\ a \in Pid /\ a # p /\ a # kid[p] /\ a \notin failed /\ ~Starter(a)
                 /\ verb[a] \in {"join", "foreground"} /\ pc'[a] = pc[a]
      <3>1. a # p /\ a \notin failed
        BY <2>1, <1>1 DEF Guard, Undisturbed
      <3>2. a \in Pid /\ verb[a] \in {"join", "foreground"}
        BY <2>1, AloneFacts
      <3> QED
        BY <2>1, <1>2, <1>3, <3>1, <3>2, OnlyStart
    <2>9. Undisturbed'
      BY <2>8, <1>1 DEF Undisturbed, Starter
    <2> QED
      BY <2>2, <2>3, <2>4, <2>7, <2>9 DEF Guard
  <1> QED
    BY <1>4, <1>5, <1>6, <1>7 DEF Inv, Base

(* A foreground start becomes the hub.                                     *)
LEMMA PortsServeInv == ASSUME Inv, NEW p \in Pid, ResolvePorts(p), ~Detached(p) PROVE Inv'
  <1>1. /\ pc[p] = "ports" /\ Goto(p, "wipe") /\ urls' = TRUE
        /\ UNCHANGED <<verb, kid, termed, hubpid, lockpid, flock, repo, reg, marker>>
        /\ UNCHANGED <<bound, alone, failed, meddled, nilStart, unlisted, faults>>
    BY DEF ResolvePorts, hist
  <1>2. verb[p] = "foreground" /\ Fg(p) /\ Starter(p)
    BY <1>1 DEF Detached, Fg, Starter
  <1>3. pc' \in [Pid -> Label] /\ \A q \in Pid : pc'[q] = IF q = p THEN "wipe" ELSE pc[q]
    BY <1>1, GotoFact DEF Inv
  <1>4. Typed'
    BY <1>1, <1>3 DEF Inv, Base, Typed
  <1>5. VerbPlaces' /\ UnbornUnnamed' /\ Kids'
    BY <1>1, <1>2, <1>3, PidAssumption DEF Inv, Base, VerbPlaces, UnbornUnnamed, Kids
  <1>6. Owners'
    BY <1>1, <1>2, <1>3, PidAssumption DEF Inv, Base, VerbPlaces, Owners, Fg
  <1>7. ASSUME ~meddled' PROVE Guard'
    <2>1. Guard /\ Base
      BY <1>1, <1>7 DEF Inv
    <2>2. Apart'
      BY <2>1, <1>1, <1>2, <1>3 DEF Guard, Apart, Starter, Stopper, Fg
    <2>3. Locked'
      BY <2>1, <1>1, <1>2, <1>3 DEF Guard, Locked, Fg
    <2>4. ~Alive(hubpid) /\ \A d \in Pid : pc[d] \notin HubLabel
      BY <2>1, <1>1, <1>2 DEF Guard, NoHub
    <2>5. Single' /\ Seeded' /\ Stops'
      BY <2>1, <2>4, <1>1, <1>3 DEF Guard, Single, Seeded, Stops
    <2>6. ~Alive(hubpid)'
      <3>1. Calm
        BY <1>1, <1>3 DEF Calm
      <3> QED
        BY <2>1, <2>4, <3>1, <1>1, StaysDead
    <2>7. \A q \in Pid : Starter(q) => q = p
      BY <2>1, <1>2 DEF Guard, Apart
    <2>8. \A q \in Pid : pc[q] \in PreAt => q = p
      BY <2>1, <2>7 DEF Starter, Base, VerbPlaces
    <2>9. NoHub'
      BY <2>4, <2>6, <2>8, <1>3 DEF NoHub
    <2>10. ASSUME NEW a \in alone
           PROVE  /\ a \in Pid /\ a \notin failed /\ verb[a] \in {"join", "foreground"}
                  /\ a # p => pc'[a] = pc[a] /\ ~Starter(a)
                  /\ a = p => bound # "foreign"
      <3>1. a \in Pid /\ verb[a] \in {"join", "foreground"}
        BY <2>1, AloneFacts
      <3> QED
        BY <2>1, <2>7, <1>2, <1>3, <3>1 DEF Guard, Undisturbed
    <2>11. \A q \in Pid : Starter(q)' => q = p
      BY <2>7, <1>1, <1>3 DEF Starter
    <2>12. Undisturbed'
      BY <2>10, <2>11, <1>1, <1>3 DEF Undisturbed, Starter
    <2> QED
      BY <2>2, <2>3, <2>5, <2>9, <2>12 DEF Guard
  <1> QED
    BY <1>4, <1>5, <1>6, <1>7 DEF Inv, Base

-----------------------------------------------------------------------------
(* The hub, until it serves.                                               *)

(* A start that nothing overlaps, while a detached hub comes up, waits for *)
(* it.                                                                     *)
LEMMA AloneWaits ==
    ASSUME Base, Guard, NEW c \in Pid, Starter(c), NEW a \in alone, a # c, pc[a] \in WaitAt
    PROVE  kid[a] = c
  <1>1. a \in Pid /\ Starter(a)
    BY AloneFacts
  <1> QED
    BY <1>1 DEF Guard, Undisturbed

(* The child looks at hub.pid again: by then its starter has the lock, so  *)
(* no other hub is on its way up.                                          *)
LEMMA ChildCheckInv == ASSUME Inv, NEW c \in Pid, ChildCheck(c) PROVE Inv'
  <1>1. PICK l \in {"wipe", "dead"} : Goto(c, l) /\ (l = "dead" <=> Alive(hubpid))
    BY DEF ChildCheck, Moves
  <1>2. /\ pc[c] = "kid" /\ UNCHANGED <<verb, kid, termed, hubpid, lockpid, flock, repo, reg>>
        /\ UNCHANGED <<marker, urls, bound, alone, failed, meddled, nilStart, unlisted, faults>>
    BY DEF ChildCheck, Moves, disk, hist
  <1>3. verb[c] = "none" /\ Starter(c)
    BY <1>2 DEF Inv, Base, Typed, VerbPlaces, Verb, Starter
  <1>4. pc' \in [Pid -> Label] /\ \A q \in Pid : pc'[q] = IF q = c THEN l ELSE pc[q]
    BY <1>1, GotoFact DEF Inv
  <1>5. Typed'
    BY <1>2, <1>4 DEF Inv, Base, Typed
  <1>6. VerbPlaces' /\ UnbornUnnamed' /\ Kids'
    BY <1>2, <1>3, <1>4, PidAssumption DEF Inv, Base, VerbPlaces, UnbornUnnamed, Kids
  <1>7. Owners'
    BY <1>2, <1>3, <1>4, PidAssumption DEF Inv, Base, VerbPlaces, Owners, Fg
  <1>8. ASSUME ~meddled' PROVE Guard'
    <2>1. Guard /\ Base
      BY <1>2, <1>8 DEF Inv
    <2>2. Apart'
      BY <2>1, <1>2, <1>3, <1>4 DEF Guard, Apart, Starter, Stopper, Fg
    <2>3. Locked'
      BY <2>1, <1>2, <1>3, <1>4 DEF Guard, Locked, Fg
    <2>4. \A q \in Pid : Starter(q) => pc[q] \notin BootLabel
      <3> SUFFICES ASSUME NEW q \in Pid, Starter(q), pc[q] \in BootLabel PROVE FALSE
        OBVIOUS
      <3>1. verb[q] = "none"
        <4>1. ~Fg(q)
          BY <2>1, <1>2, <1>3 DEF Guard, Apart
        <4> QED
          BY <2>1, <4>1 DEF Base, Typed, VerbPlaces, Verb, Fg
      <3>2. PICK p1 \in Pid : pc[p1] \in WaitAt /\ kid[p1] = c
        BY <2>1, <1>2, <1>3 DEF Guard, Locked
      <3>3. PICK p2 \in Pid : pc[p2] \in WaitAt /\ kid[p2] = q
        BY <2>1, <3>1 DEF Guard, Locked
      <3>4. verb[p1] # "list" /\ verb[p2] # "list"
        BY <2>1, <3>2, <3>3, PidAssumption DEF Base, Kids
      <3> QED
        BY <2>1, <1>2, <3>2, <3>3, <3>4 DEF Guard, Locked
    <2>5. l = "wipe" => \A d \in Pid : pc[d] \notin HubLabel
      BY <2>1, <2>4, <1>1, <1>3, NoHubHere
    <2>6. Single' /\ Seeded' /\ Stops'
      BY <2>1, <2>5, <1>2, <1>4 DEF Guard, Single, Seeded, Stops
    <2>7. ~Alive(hubpid) => ~Alive(hubpid)'
      <3>1. Calm
        BY <1>2, <1>4 DEF Calm
      <3> QED
        BY <2>1, <3>1, <1>2, StaysDead
    <2>8. \A p \in Pid : ~(pc[p] \in PreAt /\ (Fg(p) \/ p \in alone))
      <3> SUFFICES ASSUME NEW p \in Pid, pc[p] \in PreAt, Fg(p) \/ p \in alone PROVE FALSE
        OBVIOUS
      <3>1. Starter(p) /\ p # c
        BY <2>1, <1>2 DEF Base, VerbPlaces, Starter
      <3>2. CASE Fg(p)
        BY <2>1, <1>3, <3>1, <3>2 DEF Guard, Apart
      <3>3. CASE p \in alone
        BY <2>1, <1>3, <3>1, <3>3, AloneFacts, PidAssumption DEF Guard, Undisturbed
      <3> QED
        BY <3>2, <3>3
    <2>9. NoHub'
      BY <2>1, <2>5, <2>7, <2>8, <1>1, <1>2, <1>4 DEF Guard, NoHub, Fg
    <2>10. ASSUME NEW a \in alone
           PROVE  /\ a \in Pid /\ a # c /\ a \notin failed /\ pc[a] # "killkid"
                  /\ verb[a] \in {"join", "foreground"} /\ pc'[a] = pc[a]
                  /\ Starter(a) => bound # "foreign"
                  /\ Starter(a) => \A q \in Pid : Starter(q) => q \in {a, kid[a]}
                  /\ pc[a] \in WaitAt => kid[a] = c /\ pc'[kid[a]] = "wipe" /\ c \notin unlisted
                  /\ pc[a] # "verify"
      <3>1. a \in Pid /\ a # c /\ verb[a] \in {"join", "foreground"}
        BY <2>1, <1>3, AloneFacts
      <3>2. pc[a] \in WaitAt => kid[a] = c
        BY <2>1, <1>3, <3>1, AloneWaits
      <3>3. pc[a] \in WaitAt => l = "wipe"
        BY <2>1, <1>1, <1>2, <3>2 DEF Guard, Undisturbed
      <3> QED
        BY <2>1, <1>2, <1>4, <3>1, <3>2, <3>3 DEF Guard, Undisturbed
    <2>11. \A q \in Pid : Starter(q)' => Starter(q)
      BY <1>2, <1>3, <1>4 DEF Starter
    <2>12. Undisturbed'
      BY <2>10, <2>11, <1>2 DEF Undisturbed, Starter
    <2> QED
      BY <2>2, <2>3, <2>6, <2>9, <2>12 DEF Guard
  <1> QED
    BY <1>5, <1>6, <1>7, <1>8 DEF Inv, Base

(* What the boot of c does to the registry: it lists the hub, or fails to. *)
Listing(c, l) ==
    \/ reg' = (IF l = "serve" THEN c ELSE reg) /\ UNCHANGED <<alone, unlisted, faults>>
    \/ UNCHANGED reg /\ unlisted' = unlisted \cup {c} /\ alone' = {} /\ faults' \in 0 .. MaxFaults

(* A step of booting hub c to label l.                                     *)
LEMMA BootMoves ==
    ASSUME Inv, NEW c \in Pid, NEW l \in (BootLabel \ {"wipe"}) \cup {"serve"},
           pc[c] \in BootLabel, Goto(c, l),
           UNCHANGED <<verb, kid, termed, lockpid, flock, marker, urls, failed, meddled, nilStart>>,
           Listing(c, l),
           repo' \in {"absent", "unseeded", "seeded"},
           hubpid' = IF l = "newhub" THEN c ELSE hubpid,
           l \in PidAt \ {"newhub"} <=> pc[c] \in PidAt,
           bound' = bound \/ (bound = NoPid /\ bound' = c),
           l \in BoundAt <=> bound' = c,
           pc[c] \in BoundAt => l \in BoundAt,
           ~meddled => /\ l \in {"writepid", "newhub"} => repo' = "absent"
                       /\ l = "seed" => repo' = "unseeded"
                       /\ l \in ReadyAt => repo' = "seeded"
    PROVE  Inv'
  <1>1. pc' \in [Pid -> Label] /\ \A q \in Pid : pc'[q] = IF q = c THEN l ELSE pc[q]
    BY GotoFact DEF Inv
  <1>2. Starter(c) /\ verb[c] \in {"none", "foreground"}
    BY DEF Inv, Base, Typed, VerbPlaces, Verb, Starter
  <1>3. Typed'
    BY <1>1 DEF Inv, Base, Typed, Entry, Listing
  <1>4. VerbPlaces' /\ UnbornUnnamed' /\ Kids'
    BY <1>1, <1>2, PidAssumption DEF Inv, Base, VerbPlaces, UnbornUnnamed, Kids, Listing
  <1>5. Owners'
    BY <1>1, <1>2, PidAssumption DEF Inv, Base, VerbPlaces, Owners, Fg, Listing
  <1>6. ASSUME ~meddled' PROVE Guard'
    <2>1. Guard /\ Base
      BY <1>6 DEF Inv
    <2>2. Apart'
      BY <2>1, <1>1, <1>2 DEF Guard, Apart, Starter, Stopper, Fg
    <2>3. Locked'
      BY <2>1, <1>1 DEF Guard, Locked, Fg
    <2>4. \A d \in Pid : pc[d] \in HubLabel => d = c
      BY <2>1 DEF Guard, Single
    <2>5. \A p \in Pid : pc[p] \notin StopLabel
      BY <2>1, <1>2 DEF Guard, Apart, Stopper
    <2>6. Single' /\ Seeded' /\ Stops'
      BY <2>1, <2>4, <2>5, <1>1, <1>6 DEF Guard, Single, Seeded, Stops, Listing
    <2>7. alone' \subseteq alone
      BY DEF Listing
    <2>8. NoHub'
      BY <2>1, <2>4, <2>7, <1>1 DEF Guard, NoHub, Fg
    <2>9. ASSUME NEW a \in alone
          PROVE  /\ a \in Pid /\ a \notin failed /\ pc[a] # "killkid"
                 /\ verb[a] \in {"join", "foreground"} /\ (a # c => pc'[a] = pc[a])
                 /\ Starter(a) => bound # "foreign"
                 /\ Starter(a) => \A q \in Pid : Starter(q) => q \in {a, kid[a]}
                 /\ a # c /\ pc[a] \in WaitAt => kid[a] = c
                 /\ pc[a] \in WaitAt => kid[a] \notin unlisted
                 /\ pc[a] = "verify" => pc[kid[a]] \in BoundAt
      <3>1. a \in Pid /\ verb[a] \in {"join", "foreground"}
        BY <2>1, AloneFacts
      <3>2. a # c /\ pc[a] \in WaitAt => kid[a] = c
        BY <2>1, <1>2, AloneWaits
      <3> QED
        BY <3>1, <3>2, <2>1, <1>1 DEF Guard, Undisturbed
    <2>10. \A q \in Pid : Starter(q)' => Starter(q)
      BY <1>1, <1>2 DEF Starter
    <2>11. bound # "foreign" => bound' # "foreign"
      BY PidAssumption
    <2>12. alone' # {} => unlisted' = unlisted
      BY DEF Listing
    <2>13. Undisturbed'
      BY <2>7, <2>9, <2>10, <2>11, <2>12, <1>1 DEF Undisturbed, Starter
    <2> QED
      BY <2>2, <2>3, <2>6, <2>8, <2>13 DEF Guard
  <1> QED
    BY <1>3, <1>4, <1>5, <1>6 DEF Inv, Base

(* Bring-up fails: hub c is gone, and so are its files.                    *)
LEMMA BootFails ==
    ASSUME Inv, NEW c \in Pid, pc[c] \in {"newhub", "seed"}, BringUpFails(c),
           UNCHANGED <<verb, kid, termed, meddled, nilStart, unlisted>>, faults' \in 0 .. MaxFaults,
           alone' \subseteq alone,
           ~meddled => \A a \in alone' : a # c /\ (pc[a] \in WaitAt => kid[a] # c)
    PROVE  Inv'
  <1>1. /\ Goto(c, "dead") /\ repo' = "absent" /\ hubpid' = NoPid
        /\ bound' = IF bound = c THEN NoPid ELSE bound
        /\ flock' = IF flock = c THEN NoPid ELSE flock
        /\ lockpid' \in {lockpid, NoPid} /\ failed' \subseteq failed \cup {c}
        /\ UNCHANGED <<reg, marker, urls>>
    BY DEF BringUpFails, Dies
  <1>2. pc' \in [Pid -> Label] /\ \A q \in Pid : pc'[q] = IF q = c THEN "dead" ELSE pc[q]
    BY <1>1, GotoFact DEF Inv
  <1>3. Starter(c) /\ verb[c] \in {"none", "foreground"}
    BY DEF Inv, Base, Typed, VerbPlaces, Verb, Starter
  <1>4. Typed'
    BY <1>1, <1>2 DEF Inv, Base, Typed
  <1>5. VerbPlaces' /\ UnbornUnnamed' /\ Kids'
    BY <1>1, <1>2, <1>3, PidAssumption DEF Inv, Base, VerbPlaces, UnbornUnnamed, Kids
  <1>6. Owners'
    BY <1>1, <1>2, <1>3, PidAssumption DEF Inv, Base, VerbPlaces, Owners, Fg
  <1>7. ASSUME ~meddled' PROVE Guard'
    <2>1. Guard /\ Base
      BY <1>7 DEF Inv
    <2>2. Apart'
      BY <2>1, <1>1, <1>2, <1>3 DEF Guard, Apart, Starter, Stopper, Fg
    <2>3. Locked'
      BY <2>1, <1>1, <1>2 DEF Guard, Locked, Fg
    <2>4. \A d \in Pid : pc'[d] \notin HubLabel
      BY <2>1, <1>2 DEF Guard, Single
    <2>5. Single' /\ Seeded' /\ Stops'
      BY <2>4 DEF Single, Seeded, Stops
    <2>6. NoHub'
      BY <2>4, <1>1 DEF NoHub, Alive
    <2>7. ASSUME NEW a \in alone'
          PROVE  /\ a \in Pid /\ a \notin failed' /\ pc'[a] # "killkid"
                 /\ verb[a] \in {"join", "foreground"} /\ pc'[a] = pc[a]
                 /\ Starter(a) => bound # "foreign"
                 /\ Starter(a) => \A q \in Pid : Starter(q) => q \in {a, kid[a]}
                 /\ pc[a] \notin WaitAt
      <3>1. a \in Pid /\ verb[a] \in {"join", "foreground"} /\ a # c
        BY <2>1, <1>7, AloneFacts
      <3>2. pc[a] \notin WaitAt
        BY <2>1, <1>3, <1>7, <3>1, AloneWaits
      <3> QED
        BY <2>1, <1>1, <1>2, <3>1, <3>2 DEF Guard, Undisturbed
    <2>8. \A q \in Pid : Starter(q)' => Starter(q)
      BY <1>2 DEF Starter
    <2>9. bound # "foreign" => bound' # "foreign"
      BY <1>1, PidAssumption
    <2>10. Undisturbed'
      BY <2>7, <2>8, <2>9 DEF Undisturbed, Starter
    <2> QED
      BY <2>2, <2>3, <2>5, <2>6, <2>10 DEF Guard
  <1> QED
    BY <1>4, <1>5, <1>6, <1>7 DEF Inv, Base

(* A hub that comes up starts from no repository: hub.pid names no live    *)
(* process while it wipes.                                                 *)
LEMMA WipeInv == ASSUME Inv, NEW c \in Pid, WipeRepo(c) PROVE Inv'
  <1>1. /\ pc[c] = "wipe" /\ Goto(c, "writepid")
        /\ repo' = IF Alive(hubpid) THEN repo ELSE "absent"
        /\ UNCHANGED <<verb, kid, termed, hubpid, lockpid, flock, reg, marker, urls>>
        /\ UNCHANGED <<bound, alone, failed, meddled, nilStart, unlisted, faults>>
    BY DEF WipeRepo, hist
  <1>2. ~meddled => repo' = "absent"
    BY <1>1 DEF Inv, Guard, NoHub
  <1>3. bound # c /\ repo' \in {"absent", "unseeded", "seeded"}
    BY <1>1 DEF Inv, Base, Typed, Owners
  <1> QED
    BY <1>1, <1>2, <1>3, BootMoves DEF Listing

(* hub.pid names the hub before it binds anything.                         *)
LEMMA WritePidInv == ASSUME Inv, NEW c \in Pid, WritePid(c) PROVE Inv'
  <1>1. /\ pc[c] = "writepid" /\ Goto(c, "newhub") /\ hubpid' = c
        /\ UNCHANGED <<verb, kid, termed, lockpid, flock, repo, reg, marker, urls>>
        /\ UNCHANGED <<bound, alone, failed, meddled, nilStart, unlisted, faults>>
    BY DEF WritePid, hist
  <1>2. ~meddled => repo' = "absent"
    BY <1>1 DEF Inv, Guard, Seeded
  <1>3. bound # c /\ repo' \in {"absent", "unseeded", "seeded"}
    BY <1>1 DEF Inv, Base, Typed, Owners
  <1> QED
    BY <1>1, <1>2, <1>3, BootMoves DEF Listing

(* The ports are free for the hub of a start that nothing overlaps.        *)
LEMMA NewHubInv == ASSUME Inv, NEW c \in Pid, NewHub(c) PROVE Inv'
  <1>1. /\ pc[c] = "newhub"
        /\ UNCHANGED <<verb, kid, termed, alone, meddled, nilStart, unlisted, faults>>
    BY DEF NewHub
  <1>2. CASE bound = NoPid
    <2>1. PICK l \in {"seed", "recover"} : Goto(c, l) /\ (l = "seed" <=> repo = "absent")
      BY <1>2 DEF NewHub
    <2>2. /\ bound' = c /\ repo' = IF repo = "absent" THEN "unseeded" ELSE repo
          /\ UNCHANGED <<hubpid, lockpid, flock, reg, marker, urls, failed>>
      BY <1>2 DEF NewHub
    <2>3. ~meddled => repo = "absent"
      BY <1>1 DEF Inv, Guard, Seeded
    <2>4. repo' \in {"absent", "unseeded", "seeded"}
      BY <2>2 DEF Inv, Base, Typed
    <2> QED
      BY <1>1, <1>2, <2>1, <2>2, <2>3, <2>4, BootMoves DEF Listing
  <1>3. CASE bound # NoPid
    <2>1. BringUpFails(c)
      BY <1>3 DEF NewHub
    <2>2. Starter(c)
      BY <1>1 DEF Inv, Base, VerbPlaces, Starter
    <2>3. ASSUME ~meddled, NEW a \in alone PROVE a # c /\ (pc[a] \in WaitAt => kid[a] # c)
      <3>1. Base /\ Guard
        BY <2>3 DEF Inv
      <3>2. bound \in Pid => FALSE
        BY <1>1, <3>1 DEF Base, Owners, Guard, Single
      <3>3. bound = "foreign"
        BY <1>3, <3>1, <3>2 DEF Base, Typed
      <3>4. a \in Pid /\ ~Starter(a)
        BY <2>3, <3>1, <3>3, AloneFacts DEF Guard, Undisturbed
      <3> QED
        BY <2>2, <3>1, <3>4, AloneFacts
    <2>4. faults' \in 0 .. MaxFaults
      BY <1>1 DEF Inv, Base, Typed
    <2> QED
      BY <1>1, <2>1, <2>3, <2>4, BootFails
  <1> QED
    BY <1>2, <1>3

(* The repository is seeded, or the bring-up fails.                        *)
LEMMA SeedInv == ASSUME Inv, NEW c \in Pid, SeedHubRepo(c) PROVE Inv'
  <1>1. /\ pc[c] = "seed" /\ Goto(c, "recover")
        /\ repo' = IF repo = "absent" THEN repo ELSE "seeded"
        /\ UNCHANGED <<verb, kid, termed, hubpid, lockpid, flock, reg, marker, urls>>
        /\ UNCHANGED <<bound, alone, failed, meddled, nilStart, unlisted, faults>>
    BY DEF SeedHubRepo, hist
  <1>2. ~meddled => repo' = "seeded"
    BY <1>1 DEF Inv, Guard, Seeded
  <1>3. bound = c /\ repo' \in {"absent", "unseeded", "seeded"}
    BY <1>1 DEF Inv, Base, Typed, Owners
  <1> QED
    BY <1>1, <1>2, <1>3, BootMoves DEF Listing

(* A seed that fails is a fault.                                           *)
LEMMA SeedFailsInv == ASSUME Inv, NEW c \in Pid, SeedFails(c) PROVE Inv'
  <1>1. /\ pc[c] = "seed" /\ BringUpFails(c) /\ alone' = {} /\ Fault
        /\ UNCHANGED <<verb, kid, termed, meddled, nilStart, unlisted>>
    BY DEF SeedFails
  <1>2. faults' \in 0 .. MaxFaults
    BY <1>1, VerbsAssumption DEF Fault, Inv, Base, Typed
  <1> QED
    BY <1>1, <1>2, BootFails

(* The tasks are recovered.                                                *)
LEMMA RecoveryInv == ASSUME Inv, NEW c \in Pid, RunTaskRecovery(c) PROVE Inv'
  <1>1. /\ pc[c] = "recover" /\ Goto(c, "register")
        /\ UNCHANGED <<verb, kid, termed, hubpid, lockpid, flock, repo, reg, marker, urls>>
        /\ UNCHANGED <<bound, alone, failed, meddled, nilStart, unlisted, faults>>
    BY DEF RunTaskRecovery, Moves, disk, hist
  <1>2. ~meddled => repo' = "seeded"
    BY <1>1 DEF Inv, Guard, Seeded
  <1>3. bound = c /\ repo' \in {"absent", "unseeded", "seeded"}
    BY <1>1 DEF Inv, Base, Typed, Owners
  <1> QED
    BY <1>1, <1>2, <1>3, BootMoves DEF Listing

(* The hub serves, and the registry names it.                              *)
LEMMA RegisterInv == ASSUME Inv, NEW c \in Pid, RegistryWrite(c) PROVE Inv'
  <1>1. /\ pc[c] = "register" /\ Goto(c, "serve") /\ reg' = c
        /\ UNCHANGED <<verb, kid, termed, hubpid, lockpid, flock, repo, marker, urls>>
        /\ UNCHANGED <<bound, alone, failed, meddled, nilStart, unlisted, faults>>
    BY DEF RegistryWrite, hist
  <1>2. ~meddled => repo' = "seeded"
    BY <1>1 DEF Inv, Guard, Seeded
  <1>3. bound = c /\ repo' \in {"absent", "unseeded", "seeded"}
    BY <1>1 DEF Inv, Base, Typed, Owners
  <1> QED
    BY <1>1, <1>2, <1>3, BootMoves DEF Listing

(* A hub that cannot write its entry serves unlisted.                      *)
LEMMA RegisterFailsInv == ASSUME Inv, NEW c \in Pid, RegistryWriteFails(c) PROVE Inv'
  <1>1. /\ pc[c] = "register" /\ Goto(c, "serve") /\ Fault
        /\ unlisted' = unlisted \cup {c} /\ alone' = {}
        /\ UNCHANGED <<verb, kid, termed, hubpid, lockpid, flock, repo, reg, marker, urls>>
        /\ UNCHANGED <<bound, failed, meddled, nilStart>>
    BY DEF RegistryWriteFails, disk
  <1>2. ~meddled => repo' = "seeded"
    BY <1>1 DEF Inv, Guard, Seeded
  <1>3. bound = c /\ repo' \in {"absent", "unseeded", "seeded"}
    BY <1>1 DEF Inv, Base, Typed, Owners
  <1>4. Listing(c, "serve")
    BY <1>1, VerbsAssumption DEF Listing, Fault, Inv, Base, Typed
  <1> QED
    BY <1>1, <1>2, <1>3, <1>4, BootMoves

-----------------------------------------------------------------------------
(* Stops, and the hubs they have told.                                     *)

(* With no start under way, only the hubs and the stops are left to keep.  *)
LEMMA NoStarters ==
    ASSUME Base', \A q \in Pid : ~Starter(q)',
           \A a \in alone' : a \notin failed' /\ verb'[a] \in {"join", "foreground"}
    PROVE  Apart' /\ Locked' /\ NoHub' /\ Undisturbed'
  <1>1. \A q \in Pid : pc'[q] \in StartLabel \cup BootLabel \cup {"kid"} => verb'[q] = "list"
    BY DEF Starter
  <1>2. \A q \in Pid : pc'[q] \in StartLabel \cup BootLabel \cup {"kid"} => pc'[q] = "prune"
    BY <1>1 DEF Base, VerbPlaces
  <1>3. Apart'
    BY DEF Apart
  <1>4. Locked' /\ NoHub'
    BY <1>1, <1>2 DEF Locked, NoHub
  <1>5. alone' \subseteq Pid
    BY DEF Base, Typed
  <1>6. Undisturbed'
    BY <1>1, <1>2, <1>5 DEF Undisturbed
  <1> QED
    BY <1>3, <1>4, <1>6

(* What is alone, once no start is under way.                              *)
LEMMA AloneRests ==
    ASSUME Inv, ~meddled, NEW a \in alone
    PROVE  a \in Pid /\ a \notin failed /\ verb[a] \in {"join", "foreground"}
  BY AloneFacts DEF Inv, Guard, Undisturbed

(* A step after which neither p nor q, who may die of it, starts anything: *)
(* p is a stop or a hub that one has told, q is its target.                *)
LEMMA StopMoves ==
    ASSUME Inv, Base', NEW p \in Pid, Stopper(p),
           NEW q \in Pid, pc' \in [Pid -> Label],
           \A x \in Pid : pc'[x] # pc[x] =>
              \/ x = p /\ pc'[x] \in StopLabel \cup {"dead", "rmpid", "rmreg"}
              \/ x = q /\ pc'[x] = "dead",
           UNCHANGED <<verb, alone, failed, meddled, unlisted>>,
           ~meddled => Single' /\ Seeded' /\ Stops'
    PROVE  Inv'
  <1>1. ASSUME ~meddled' PROVE Guard'
    <2>1. ~meddled /\ Guard
      BY <1>1 DEF Inv
    <2>2. \A x \in Pid : ~Starter(x)
      BY <2>1 DEF Guard, Apart
    <2>3. \A x \in Pid : ~Starter(x)'
      BY <2>2 DEF Starter
    <2>4. \A a \in alone' : a \notin failed' /\ verb'[a] \in {"join", "foreground"}
      BY <2>1, AloneRests
    <2>5. Apart' /\ Locked' /\ NoHub' /\ Undisturbed'
      BY <2>3, <2>4, NoStarters
    <2> QED
      BY <2>1, <2>5 DEF Guard
  <1> QED
    BY <1>1 DEF Inv

(* The only hub, once a stop is under way.                                 *)
LEMMA StopFacts ==
    ASSUME Inv, ~meddled, NEW p \in Pid, Stopper(p)
    PROVE  \A c \in Pid : pc[c] \in HubLabel => pc[c] \in {"serve", "rmpid", "rmreg"}
  <1>1. \A c \in Pid : ~Starter(c)
    BY DEF Inv, Guard, Apart
  <1> QED
    BY <1>1 DEF Starter, Inv, Base, VerbPlaces

(* Told, the hub gives up its ports.                                       *)
LEMMA DrainInv == ASSUME Inv, NEW c \in Pid, Drain(c) PROVE Inv'
  <1>1. /\ pc[c] = "serve" /\ c \in termed /\ Goto(c, "rmpid")
        /\ bound' = IF bound = c THEN NoPid ELSE bound
        /\ UNCHANGED <<verb, kid, termed, hubpid, lockpid, flock, repo, reg, marker, urls>>
        /\ UNCHANGED <<alone, failed, meddled, nilStart, unlisted, faults>>
    BY DEF Drain, disk, hist
  <1>2. pc' \in [Pid -> Label] /\ \A q \in Pid : pc'[q] = IF q = c THEN "rmpid" ELSE pc[q]
    BY <1>1, GotoFact DEF Inv
  <1>3. Typed'
    BY <1>1, <1>2 DEF Inv, Base, Typed
  <1>4. VerbPlaces' /\ UnbornUnnamed' /\ Kids'
    BY <1>1, <1>2, PidAssumption DEF Inv, Base, VerbPlaces, UnbornUnnamed, Kids
  <1>5. Owners'
    BY <1>1, <1>2, PidAssumption DEF Inv, Base, VerbPlaces, Owners, Fg
  <1>6. ~meddled => Single' /\ Seeded' /\ Stops'
    BY <1>1, <1>2 DEF Inv, Guard, Single, Seeded, Stops
  <1>7. Stopper(c)
    BY <1>1 DEF Stopper
  <1> QED
    BY <1>1, <1>2, <1>3, <1>4, <1>5, <1>6, <1>7, StopMoves DEF Base

(* It removes hub.pid.                                                     *)
LEMMA RemovePidInv == ASSUME Inv, NEW c \in Pid, RemovePid(c) PROVE Inv'
  <1>1. /\ pc[c] = "rmpid" /\ Goto(c, "rmreg") /\ hubpid' = NoPid
        /\ UNCHANGED <<verb, kid, termed, lockpid, flock, repo, reg, marker, urls>>
        /\ UNCHANGED <<bound, alone, failed, meddled, nilStart, unlisted, faults>>
    BY DEF RemovePid, hist
  <1>2. pc' \in [Pid -> Label] /\ \A q \in Pid : pc'[q] = IF q = c THEN "rmreg" ELSE pc[q]
    BY <1>1, GotoFact DEF Inv
  <1>3. Typed'
    BY <1>1, <1>2 DEF Inv, Base, Typed
  <1>4. VerbPlaces' /\ UnbornUnnamed' /\ Kids'
    BY <1>1, <1>2, PidAssumption DEF Inv, Base, VerbPlaces, UnbornUnnamed, Kids
  <1>5. Owners'
    BY <1>1, <1>2, PidAssumption DEF Inv, Base, VerbPlaces, Owners, Fg
  <1>6. ~meddled => Single' /\ Seeded' /\ Stops'
    BY <1>1, <1>2 DEF Inv, Guard, Single, Seeded, Stops
  <1>7. Stopper(c)
    BY <1>1 DEF Stopper, Inv, Base, Owners
  <1> QED
    BY <1>1, <1>2, <1>3, <1>4, <1>5, <1>6, <1>7, StopMoves DEF Base

(* It removes the registry entry, and ends.                                *)
LEMMA RemoveEntryInv == ASSUME Inv, NEW c \in Pid, RemoveEntry(c) PROVE Inv'
  <1>1. /\ pc[c] = "rmreg" /\ Goto(c, "dead") /\ reg' = NoPid
        /\ lockpid' = IF Detached(c) THEN lockpid ELSE NoPid
        /\ bound' = IF bound = c THEN NoPid ELSE bound
        /\ flock' = IF flock = c THEN NoPid ELSE flock
        /\ UNCHANGED <<verb, kid, termed, hubpid, repo, marker, urls>>
        /\ UNCHANGED <<alone, failed, meddled, nilStart, unlisted, faults>>
    BY DEF RemoveEntry, Dies, hist
  <1>2. pc' \in [Pid -> Label] /\ \A q \in Pid : pc'[q] = IF q = c THEN "dead" ELSE pc[q]
    BY <1>1, GotoFact DEF Inv
  <1>3. Typed'
    BY <1>1, <1>2 DEF Inv, Base, Typed, Entry
  <1>4. VerbPlaces' /\ UnbornUnnamed' /\ Kids'
    BY <1>1, <1>2, PidAssumption DEF Inv, Base, VerbPlaces, UnbornUnnamed, Kids
  <1>5. Owners'
    BY <1>1, <1>2, PidAssumption DEF Inv, Base, VerbPlaces, Owners, Fg, Detached
  <1>6. ~meddled => Single' /\ Seeded' /\ Stops'
    BY <1>1, <1>2 DEF Inv, Guard, Single, Seeded, Stops
  <1>7. Stopper(c)
    BY <1>1 DEF Stopper, Inv, Base, Owners
  <1> QED
    BY <1>1, <1>2, <1>3, <1>4, <1>5, <1>6, <1>7, StopMoves DEF Base

(* The stop reads hub.pid: it names the only hub.                          *)
LEMMA ReadTargetInv == ASSUME Inv, NEW p \in Pid, ReadTarget(p) PROVE Inv'
  <1>1. /\ pc[p] = "target" /\ Goto(p, "term")
        /\ UNCHANGED <<verb, termed, hubpid, lockpid, flock, repo, reg, marker, urls>>
        /\ UNCHANGED <<bound, alone, failed, meddled, nilStart, unlisted, faults>>
    BY DEF ReadTarget, disk, hist
  <1>2. /\ kid' \in [Pid -> Pid \cup {NoPid}]
        /\ \A q \in Pid : kid'[q] = IF q = p THEN hubpid ELSE kid[q]
    BY DEF ReadTarget, Inv, Base, Typed
  <1>3. pc' \in [Pid -> Label] /\ \A q \in Pid : pc'[q] = IF q = p THEN "term" ELSE pc[q]
    BY <1>1, GotoFact DEF Inv
  <1>4. Typed'
    BY <1>1, <1>2, <1>3 DEF Inv, Base, Typed
  <1>5. VerbPlaces' /\ UnbornUnnamed' /\ Kids'
    BY <1>1, <1>2, <1>3, PidAssumption DEF Inv, Base, VerbPlaces, UnbornUnnamed, Kids
  <1>6. Owners'
    BY <1>1, <1>3, PidAssumption DEF Inv, Base, VerbPlaces, Owners, Fg
  <1>7. ~meddled => Single' /\ Seeded' /\ Stops'
    BY <1>1, <1>2, <1>3 DEF Inv, Guard, Single, Seeded, Stops
  <1>8. Stopper(p)
    BY <1>1 DEF Stopper
  <1> QED
    BY <1>1, <1>3, <1>4, <1>5, <1>6, <1>7, <1>8, StopMoves DEF Base

(* The stop tells its target, or finds it gone.                            *)
LEMMA TermInv ==
    ASSUME Inv, NEW p \in Pid, NEW l \in {"grace", "stoprm", "dead"},
           pc[p] \in {"term", "grace"}, Goto(p, l), l # "grace" => ~Alive(kid[p]),
           termed' = termed \/ (Alive(kid[p]) /\ termed' = termed \cup {kid[p]}),
           UNCHANGED <<verb, kid, disk, bound, hist, faults>>
    PROVE  Inv'
  <1>1. /\ UNCHANGED <<verb, kid, hubpid, lockpid, flock, repo, reg, marker, urls>>
        /\ UNCHANGED <<bound, alone, failed, meddled, nilStart, unlisted, faults>>
    BY DEF disk, hist
  <1>2. pc' \in [Pid -> Label] /\ \A q \in Pid : pc'[q] = IF q = p THEN l ELSE pc[q]
    BY GotoFact DEF Inv
  <1>3. kid[p] \in Pid \cup {NoPid} /\ (Alive(kid[p]) => kid[p] \in Pid /\ pc[kid[p]] # "unborn")
    BY DEF Inv, Base, Typed, Alive
  <1>4. Typed'
    BY <1>1, <1>2, <1>3 DEF Inv, Base, Typed
  <1>5. VerbPlaces' /\ UnbornUnnamed' /\ Kids'
    BY <1>1, <1>2, <1>3, PidAssumption DEF Inv, Base, VerbPlaces, UnbornUnnamed, Kids
  <1>6. Owners'
    BY <1>1, <1>2, PidAssumption DEF Inv, Base, VerbPlaces, Owners, Fg
  <1>7. l # "grace" => kid[p] = NoPid \/ pc[kid[p]] \in {"unborn", "dead"}
    BY <1>3 DEF Alive
  <1>8. ~meddled => Single' /\ Seeded' /\ Stops'
    BY <1>1, <1>2, <1>7, PidAssumption DEF Inv, Guard, Single, Seeded, Stops
  <1>9. Stopper(p)
    BY DEF Stopper
  <1> QED
    BY <1>1, <1>2, <1>4, <1>5, <1>6, <1>8, <1>9, StopMoves DEF Base

(* SIGTERM.                                                                *)
LEMMA TerminateInv == ASSUME Inv, NEW p \in Pid, Terminate(p) PROVE Inv'
  <1>1. CASE Alive(kid[p])
    BY <1>1, TermInv DEF Terminate
  <1>2. CASE ~Alive(kid[p])
    <2>1. PICK l \in {"stoprm", "dead"} : Goto(p, l)
      BY <1>2 DEF Terminate, AfterStop
    <2> QED
      BY <1>2, <2>1, TermInv DEF Terminate
  <1> QED
    BY <1>1, <1>2

(* The target ends within the grace.                                       *)
LEMMA GoneInv == ASSUME Inv, NEW p \in Pid, Gone(p) PROVE Inv'
  <1>1. PICK l \in {"stoprm", "dead"} : Goto(p, l)
    BY DEF Gone, Moves, AfterStop
  <1> QED
    BY <1>1, TermInv DEF Gone, Moves

(* The grace runs out: SIGKILL.                                            *)
LEMMA GraceEndsInv == ASSUME Inv, NEW p \in Pid, GraceEnds(p) PROVE Inv'
  <1> DEFINE q == kid[p]
  <1>1. /\ pc[p] = "grace"
        /\ bound' = IF bound = q THEN NoPid ELSE bound
        /\ flock' = IF flock = q THEN NoPid ELSE flock
        /\ UNCHANGED <<verb, kid, termed, hubpid, lockpid, repo, reg, marker, urls>>
        /\ UNCHANGED <<alone, failed, meddled, nilStart, unlisted, faults>>
    BY DEF GraceEnds, hist
  <1>2. q \in Pid /\ pc[q] # "unborn"
    BY DEF GraceEnds, Inv, Base, Typed, Alive
  <1>3. PICK l \in {"stoprm", "dead"} : pc' = [pc EXCEPT ![p] = l, ![q] = "dead"]
    BY DEF GraceEnds, AfterStop
  <1>4. /\ pc' \in [Pid -> Label]
        /\ \A x \in Pid : pc'[x] = IF x = q THEN "dead" ELSE IF x = p THEN l ELSE pc[x]
    BY <1>2, <1>3 DEF Inv, Base, Typed
  <1> HIDE DEF q
  <1>5. Typed'
    BY <1>1, <1>4 DEF Inv, Base, Typed
  <1>6. VerbPlaces' /\ UnbornUnnamed' /\ Kids'
    BY <1>1, <1>2, <1>4, PidAssumption DEF Inv, Base, VerbPlaces, UnbornUnnamed, Kids
  <1>7. Owners'
    BY <1>1, <1>2, <1>4, PidAssumption DEF Inv, Base, VerbPlaces, Owners, Fg
  <1>8. ~meddled => Single' /\ Seeded' /\ Stops'
    BY <1>1, <1>2, <1>4 DEF Inv, Guard, Single, Seeded, Stops, q
  <1>9. Stopper(p)
    BY <1>1 DEF Stopper
  <1> QED
    BY <1>1, <1>2, <1>4, <1>5, <1>6, <1>7, <1>8, <1>9, StopMoves DEF Base

(* What the last steps of a stop remove, no hub relies on any more.        *)
LEMMA CleanUp ==
    ASSUME Inv, NEW p \in Pid, pc[p] \in {"stoprm", "downreg", "downdir"},
           NEW l \in {"downreg", "downdir", "dead"}, Goto(p, l),
           UNCHANGED <<verb, kid, termed, bound, alone, failed, meddled, nilStart, unlisted, faults>>,
           hubpid' \in {hubpid, NoPid}, lockpid' \in {lockpid, NoPid},
           flock' \in {flock, NoPid}, reg' \in {reg, NoPid}, repo' \in {repo, "absent"},
           marker' \in BOOLEAN, urls' \in BOOLEAN
    PROVE  Inv'
  <1>1. pc' \in [Pid -> Label] /\ \A q \in Pid : pc'[q] = IF q = p THEN l ELSE pc[q]
    BY GotoFact DEF Inv
  <1>2. Typed'
    BY <1>1 DEF Inv, Base, Typed, Entry
  <1>3. VerbPlaces' /\ UnbornUnnamed' /\ Kids'
    BY <1>1, PidAssumption DEF Inv, Base, VerbPlaces, UnbornUnnamed, Kids
  <1>4. Owners'
    BY <1>1, PidAssumption DEF Inv, Base, VerbPlaces, Owners, Fg
  <1>5. Stopper(p)
    BY DEF Stopper
  <1>6. ~meddled => \A c \in Pid : pc[c] \in HubLabel => pc[c] = "rmreg"
    BY <1>5, StopFacts DEF Inv, Guard, Stops
  <1>7. ~meddled => Single' /\ Seeded' /\ Stops'
    BY <1>1, <1>6 DEF Inv, Guard, Single, Seeded, Stops
  <1> QED
    BY <1>1, <1>2, <1>3, <1>4, <1>5, <1>7, StopMoves DEF Base

(* hub.pid or the entry; the entry; the directory.                         *)
LEMMA CleanUpsInv ==
    ASSUME Inv, NEW p \in Pid, StopRemoves(p) \/ DownRemovesEntry(p) \/ DownRemovesDir(p)
    PROVE  Inv'
  <1>1. CASE StopRemoves(p)
    <2>1. /\ pc[p] = "stoprm"
          /\ UNCHANGED <<verb, kid, termed, lockpid, flock, repo, marker, urls>>
          /\ UNCHANGED <<bound, alone, failed, meddled, nilStart, unlisted, faults>>
          /\ hubpid' \in {hubpid, NoPid} /\ reg' \in {reg, NoPid}
      BY <1>1 DEF StopRemoves, hist
    <2>2. PICK l \in {"downreg", "dead"} : Goto(p, l)
      BY <1>1 DEF StopRemoves
    <2> QED
      BY <2>1, <2>2, CleanUp DEF Inv, Base, Typed
  <1>2. CASE DownRemovesEntry(p)
    <2>1. /\ pc[p] = "downreg" /\ Goto(p, "downdir")
          /\ UNCHANGED <<verb, kid, termed, hubpid, lockpid, flock, repo, marker, urls>>
          /\ UNCHANGED <<bound, alone, failed, meddled, nilStart, unlisted, faults>> /\ reg' = NoPid
      BY <1>2 DEF DownRemovesEntry, hist
    <2> QED
      BY <2>1, CleanUp DEF Inv, Base, Typed
  <1>3. CASE DownRemovesDir(p)
    <2>1. /\ pc[p] = "downdir" /\ Goto(p, "dead")
          /\ UNCHANGED <<verb, kid, termed, reg, bound, alone, failed, meddled, nilStart, unlisted, faults>>
          /\ hubpid' = NoPid /\ lockpid' = NoPid /\ flock' = NoPid
          /\ repo' = "absent" /\ marker' = FALSE /\ urls' = FALSE
      BY <1>3 DEF DownRemovesDir, hist
    <2> QED
      BY <2>1, CleanUp
  <1> QED
    BY <1>1, <1>2, <1>3

(* A stop that begins within no start.                                     *)
LEMMA StopBegins ==
    ASSUME Inv, Base', NEW p \in Pid, pc[p] = "unborn", NEW l \in StopLabel, Goto(p, l),
           NEW v \in {"stop", "down", "reap", "reappid"}, verb' = [verb EXCEPT ![p] = v],
           alone' = {}, meddled' = (meddled \/ Starting # {}),
           ~meddled' => Single' /\ Seeded' /\ Stops'
    PROVE  Inv'
  <1>1. ASSUME ~meddled' PROVE Guard'
    <2>1. \A x \in Pid : ~Starter(x)
      BY <1>1 DEF Starting, Starter
    <2>2. \A x \in Pid : pc'[x] = IF x = p THEN l ELSE pc[x]
      BY GotoFact DEF Inv
    <2>3. \A x \in Pid : x # p => verb'[x] = verb[x]
      BY DEF Inv, Base, Typed
    <2>4. \A x \in Pid : ~Starter(x)'
      BY <2>1, <2>2, <2>3 DEF Starter
    <2>5. Apart' /\ Locked' /\ NoHub' /\ Undisturbed'
      BY <2>4, NoStarters
    <2> QED
      BY <1>1, <2>5 DEF Guard
  <1> QED
    BY <1>1 DEF Inv

(* `hub stop`, `down`.                                                     *)
LEMMA BeginStopInv ==
    ASSUME Inv, NEW p \in Pid, NEW v \in {"stop", "down"}, BeginStop(p, v)
    PROVE  Inv'
  <1>1. PICK l \in {"downreg", "target"} : Goto(p, l) /\ (l = "downreg" => hubpid = NoPid)
    BY DEF BeginStop, Begin
  <1>2. /\ pc[p] = "unborn" /\ v \in Verbs /\ verb' = [verb EXCEPT ![p] = v]
        /\ alone' = {} /\ meddled' = (meddled \/ Starting # {})
        /\ UNCHANGED <<kid, termed, hubpid, lockpid, flock, repo, reg, marker, urls>>
        /\ UNCHANGED <<bound, failed, nilStart, unlisted, faults>>
    BY DEF BeginStop, Begin, disk
  <1>3. pc' \in [Pid -> Label] /\ \A q \in Pid : pc'[q] = IF q = p THEN l ELSE pc[q]
    BY <1>1, GotoFact DEF Inv
  <1>4. /\ verb' \in [Pid -> Verb \cup {"none"}]
        /\ \A q \in Pid : verb'[q] = IF q = p THEN v ELSE verb[q]
    BY <1>2 DEF Inv, Base, Typed, Verb
  <1>5. Typed'
    BY <1>2, <1>3, <1>4 DEF Inv, Base, Typed
  <1>6. VerbPlaces' /\ UnbornUnnamed' /\ Kids'
    BY <1>2, <1>3, <1>4, PidAssumption DEF Inv, Base, VerbPlaces, UnbornUnnamed, Kids
  <1>7. Owners'
    BY <1>2, <1>3, <1>4, PidAssumption DEF Inv, Base, VerbPlaces, UnbornUnnamed, Owners, Fg
  <1>8. ~meddled' => Single' /\ Seeded' /\ Stops'
    <2>1. ~meddled /\ l = "downreg" => \A c \in Pid : pc[c] \notin {"serve", "rmpid"}
      BY <1>1, PidAssumption DEF Inv, Guard, Single
    <2> QED
      BY <2>1, <1>1, <1>2, <1>3 DEF Inv, Guard, Single, Seeded, Stops
  <1> QED
    BY <1>1, <1>2, <1>5, <1>6, <1>7, <1>8, StopBegins DEF Base

(* `hub reap`: within no start, its target is the only hub.                *)
LEMMA BeginReapInv ==
    ASSUME Inv, NEW p \in Pid, NEW h \in Pid, NEW v \in {"reap", "reappid"}, BeginReap(p, h, v)
    PROVE  Inv'
  <1>1. /\ pc[p] = "unborn" /\ Goto(p, "term") /\ verb' = [verb EXCEPT ![p] = v]
        /\ alone' = {} /\ meddled' = (meddled \/ Starting # {})
        /\ UNCHANGED <<termed, hubpid, lockpid, flock, repo, reg, marker, urls>>
        /\ UNCHANGED <<bound, failed, nilStart, unlisted, faults>>
    BY DEF BeginReap, disk
  <1>2. pc[h] \in HubLabel \cup {"kid"}
    BY DEF BeginReap, IsOrphan, Hubs
  <1>3. pc' \in [Pid -> Label] /\ \A q \in Pid : pc'[q] = IF q = p THEN "term" ELSE pc[q]
    BY <1>1, GotoFact DEF Inv
  <1>4. /\ verb' \in [Pid -> Verb \cup {"none"}]
        /\ \A q \in Pid : verb'[q] = IF q = p THEN v ELSE verb[q]
    BY <1>1 DEF Inv, Base, Typed, Verb
  <1>5. /\ kid' \in [Pid -> Pid \cup {NoPid}]
        /\ \A q \in Pid : kid'[q] = IF q = p THEN h ELSE kid[q]
    BY DEF BeginReap, Inv, Base, Typed
  <1>6. Typed'
    BY <1>1, <1>3, <1>4, <1>5 DEF Inv, Base, Typed
  <1>7. VerbPlaces' /\ UnbornUnnamed' /\ Kids'
    BY <1>1, <1>2, <1>3, <1>4, <1>5, PidAssumption
       DEF Inv, Base, VerbPlaces, UnbornUnnamed, Kids
  <1>8. Owners'
    BY <1>1, <1>3, <1>4, PidAssumption DEF Inv, Base, VerbPlaces, UnbornUnnamed, Owners, Fg
  <1>9. ~meddled' => pc[h] \in HubLabel
    BY <1>1, <1>2 DEF Starting
  <1>10. ~meddled' => Single' /\ Seeded' /\ Stops'
    <2>1. ~meddled' => Guard /\ \A c \in Pid : pc[c] \in HubLabel => c = h
      BY <1>1, <1>9 DEF Inv, Guard, Single
    <2>2. ~meddled' => Single' /\ Seeded'
      BY <2>1, <1>1, <1>3 DEF Guard, Single, Seeded
    <2>3. ~meddled' => Stops'
      BY <2>1, <1>1, <1>3, <1>5 DEF Guard, Stops
    <2> QED
      BY <2>2, <2>3
  <1> QED
    BY <1>1, <1>6, <1>7, <1>8, <1>10, StopBegins DEF Base

-----------------------------------------------------------------------------
(* The other verbs, and the faults.                                        *)

(* A start begins: with another start if both detach, else alone.          *)
LEMMA BeginStartInv ==
    ASSUME Inv, NEW p \in Pid, NEW v \in {"join", "foreground"}, BeginStart(p, v)
    PROVE  Inv'
  <1>1. /\ pc[p] = "unborn" /\ Goto(p, "check") /\ verb' = [verb EXCEPT ![p] = v]
        /\ alone' = IF Starting \cup Stopping = {} /\ bound # "foreign" THEN {p} ELSE {}
        /\ UNCHANGED <<kid, termed, hubpid, lockpid, flock, repo, reg, marker, urls>>
        /\ UNCHANGED <<bound, failed, nilStart, unlisted, faults>>
    BY DEF BeginStart, Begin, disk
  <1>2. /\ meddled' \in BOOLEAN
        /\ ~meddled' => /\ ~meddled /\ Stopping = {}
                        /\ \A q \in Starting : Detached(q) /\ v # "foreground"
    BY DEF BeginStart, Inv, Base, Typed
  <1>3. pc' \in [Pid -> Label] /\ \A q \in Pid : pc'[q] = IF q = p THEN "check" ELSE pc[q]
    BY <1>1, GotoFact DEF Inv
  <1>4. /\ verb' \in [Pid -> Verb \cup {"none"}]
        /\ \A q \in Pid : verb'[q] = IF q = p THEN v ELSE verb[q]
    BY <1>1 DEF Inv, Base, Typed, Verb
  <1>5. Typed'
    BY <1>1, <1>2, <1>3, <1>4 DEF Inv, Base, Typed
  <1>6. VerbPlaces' /\ UnbornUnnamed' /\ Kids'
    BY <1>1, <1>3, <1>4, PidAssumption DEF Inv, Base, VerbPlaces, UnbornUnnamed, Kids
  <1>7. Owners'
    BY <1>1, <1>3, <1>4, PidAssumption DEF Inv, Base, VerbPlaces, UnbornUnnamed, Owners, Fg
  <1>8. ASSUME ~meddled' PROVE Guard'
    <2>1. Guard /\ Base
      BY <1>2, <1>8 DEF Inv
    <2>2. p \notin termed \cup failed
      BY <2>1, <1>1 DEF Base, UnbornUnnamed
    <2>3. \A q \in Pid : Starter(q) => q \in Starting /\ q # p /\ ~Fg(q) /\ v = "join"
      BY <1>1, <1>2, <1>8 DEF Starter, Starting, Fg, Detached
    <2>4. \A q \in Pid : ~Stopper(q)
      BY <1>2, <1>8 DEF Stopping, Stopper
    <2>5. /\ \A q \in Pid : Starter(q)' => Starter(q) \/ q = p
          /\ \A q \in Pid : ~Stopper(q)'
      BY <2>2, <2>4, <1>1, <1>3, <1>4 DEF Starter, Stopper
    <2>6. Apart'
      BY <2>3, <2>5, <1>4 DEF Apart, Fg
    <2>7. Locked'
      BY <2>1, <1>1, <1>3, <1>4 DEF Guard, Locked, Fg
    <2>8. Single' /\ Seeded' /\ Stops'
      BY <2>1, <1>1, <1>3 DEF Guard, Single, Seeded, Stops
    <2>9. ~Alive(hubpid) => ~Alive(hubpid)'
      <3>1. kid[p] = NoPid
        BY <2>1, <1>1 DEF Base, UnbornUnnamed
      <3>2. Calm
        BY <3>1, <1>1, <1>3, PidAssumption DEF Calm
      <3> QED
        BY <2>1, <3>2, <1>1, StaysDead
    <2>10. alone' \subseteq {p}
      BY <1>1
    <2>11. NoHub'
      BY <2>1, <2>9, <2>10, <1>1, <1>3, <1>4 DEF Guard, NoHub, Fg
    <2>12. p \in alone' => bound # "foreign" /\ \A q \in Pid : Starter(q)' => q = p
      BY <2>3, <2>5, <1>1
    <2>13. Undisturbed'
      BY <2>2, <2>10, <2>12, <1>1, <1>3, <1>4 DEF Undisturbed
    <2> QED
      BY <2>6, <2>7, <2>8, <2>11, <2>13 DEF Guard
  <1> QED
    BY <1>5, <1>6, <1>7, <1>8 DEF Inv, Base

(* A listing of the registry is no start.                                  *)
LEMMA BeginListInv == ASSUME Inv, NEW p \in Pid, BeginList(p) PROVE Inv'
  <1>1. /\ pc[p] = "unborn" /\ Goto(p, "prune") /\ verb' = [verb EXCEPT ![p] = "list"]
        /\ UNCHANGED <<kid, termed, hubpid, lockpid, flock, repo, reg, marker, urls>>
        /\ UNCHANGED <<bound, alone, failed, meddled, nilStart, unlisted, faults>>
    BY DEF BeginList, Begin, disk
  <1>2. pc' \in [Pid -> Label] /\ \A q \in Pid : pc'[q] = IF q = p THEN "prune" ELSE pc[q]
    BY <1>1, GotoFact DEF Inv
  <1>3. /\ verb' \in [Pid -> Verb \cup {"none"}]
        /\ \A q \in Pid : verb'[q] = IF q = p THEN "list" ELSE verb[q]
    BY <1>1 DEF Inv, Base, Typed, Verb
  <1>4. /\ kid[p] = NoPid /\ p \notin termed \cup failed \cup alone
        /\ \A q \in Pid : kid[q] # p
    BY <1>1 DEF Inv, Base, UnbornUnnamed
  <1>5. Typed'
    BY <1>1, <1>2, <1>3 DEF Inv, Base, Typed
  <1>6. VerbPlaces' /\ UnbornUnnamed' /\ Kids'
    BY <1>1, <1>2, <1>3, <1>4, PidAssumption DEF Inv, Base, VerbPlaces, UnbornUnnamed, Kids
  <1>7. Owners'
    BY <1>1, <1>2, <1>3, PidAssumption DEF Inv, Base, VerbPlaces, UnbornUnnamed, Owners, Fg
  <1>8. ASSUME ~meddled' PROVE Guard'
    <2>1. Guard /\ Base
      BY <1>1, <1>8 DEF Inv
    <2>2. \A q \in Pid : Starter(q)' => Starter(q) /\ q # p
      BY <1>2, <1>3 DEF Starter
    <2>3. \A q \in Pid : Stopper(q)' => Stopper(q)
      BY <1>1, <1>2, <1>4 DEF Stopper
    <2>4. Apart'
      BY <2>1, <2>2, <2>3, <1>3 DEF Guard, Apart, Fg
    <2>5. Locked'
      BY <2>1, <1>1, <1>2, <1>3 DEF Guard, Locked, Fg
    <2>6. Single' /\ Seeded' /\ Stops'
      BY <2>1, <1>1, <1>2 DEF Guard, Single, Seeded, Stops
    <2>7. ~Alive(hubpid) => ~Alive(hubpid)'
      <3>1. Calm
        BY <1>1, <1>2, <1>4, PidAssumption DEF Calm
      <3> QED
        BY <2>1, <3>1, <1>1, StaysDead
    <2>8. NoHub'
      BY <2>1, <2>7, <1>1, <1>2, <1>3 DEF Guard, NoHub, Fg
    <2>9. ASSUME NEW a \in alone
          PROVE  /\ a \in Pid /\ a # p /\ pc'[a] = pc[a] /\ verb'[a] = verb[a]
                 /\ pc[a] \in WaitAt => kid[a] \in Pid /\ pc'[kid[a]] = pc[kid[a]]
      <3>1. a \in Pid /\ a # p /\ (pc[a] \in WaitAt => kid[a] \in Pid)
        BY <2>1, <1>4, AloneFacts
      <3> QED
        BY <1>2, <1>3, <1>4, <3>1
    <2>10. \A d \in Pid : pc'[d] \in HubLabel => pc[d] \in HubLabel
      BY <1>2
    <2>11. Undisturbed'
      BY <2>1, <2>2, <2>7, <2>9, <2>10, <1>1 DEF Guard, Undisturbed
    <2> QED
      BY <2>4, <2>5, <2>6, <2>8, <2>11 DEF Guard
  <1> QED
    BY <1>5, <1>6, <1>7, <1>8 DEF Inv, Base

(* `up` begins.                                                            *)
LEMMA BeginUpInv == ASSUME Inv, NEW p \in Pid, BeginUp(p) PROVE Inv'
  <1>1. /\ pc[p] = "unborn" /\ Goto(p, "upread") /\ verb' = [verb EXCEPT ![p] = "up"]
        /\ marker' = TRUE /\ alone' = {}
        /\ UNCHANGED <<kid, termed, hubpid, lockpid, flock, repo, reg, urls>>
        /\ UNCHANGED <<bound, failed, meddled, nilStart, unlisted, faults>>
    BY DEF BeginUp
  <1>2. pc' \in [Pid -> Label] /\ \A q \in Pid : pc'[q] = IF q = p THEN "upread" ELSE pc[q]
    BY <1>1, GotoFact DEF Inv
  <1>3. /\ verb' \in [Pid -> Verb \cup {"none"}]
        /\ \A q \in Pid : verb'[q] = IF q = p THEN "up" ELSE verb[q]
    BY <1>1 DEF Inv, Base, Typed, Verb
  <1>4. kid[p] = NoPid /\ p \notin termed
    BY <1>1 DEF Inv, Base, UnbornUnnamed
  <1>5. Typed'
    BY <1>1, <1>2, <1>3 DEF Inv, Base, Typed
  <1>6. VerbPlaces' /\ UnbornUnnamed' /\ Kids'
    BY <1>1, <1>2, <1>3, PidAssumption DEF Inv, Base, VerbPlaces, UnbornUnnamed, Kids
  <1>7. Owners'
    BY <1>1, <1>2, <1>3, PidAssumption DEF Inv, Base, VerbPlaces, UnbornUnnamed, Owners, Fg
  <1>8. ASSUME ~meddled' PROVE Guard'
    <2>1. Guard /\ Base
      BY <1>1, <1>8 DEF Inv
    <2>2. Apart'
      BY <2>1, <1>1, <1>2, <1>3, <1>4 DEF Guard, Apart, Starter, Stopper, Fg
    <2>3. Locked'
      BY <2>1, <1>1, <1>2, <1>3 DEF Guard, Locked, Fg
    <2>4. Single' /\ Seeded' /\ Stops'
      BY <2>1, <1>1, <1>2 DEF Guard, Single, Seeded, Stops
    <2>5. ~Alive(hubpid) => ~Alive(hubpid)'
      <3>1. Calm
        BY <1>1, <1>2 DEF Calm
      <3> QED
        BY <2>1, <3>1, <1>1, StaysDead
    <2>6. NoHub'
      BY <2>1, <2>5, <1>1, <1>2, <1>3 DEF Guard, NoHub, Fg
    <2>7. Undisturbed'
      BY <1>1 DEF Undisturbed
    <2> QED
      BY <2>2, <2>3, <2>4, <2>6, <2>7 DEF Guard
  <1> QED
    BY <1>5, <1>6, <1>7, <1>8 DEF Inv, Base

(* A step of `up` touches the registry entry only.                         *)
LEMMA UpMoves ==
    ASSUME Inv, NEW p \in Pid, NEW l \in UpLabel \cup {"dead"}, pc[p] \in UpLabel, Goto(p, l),
           UNCHANGED <<verb, kid, termed, hubpid, lockpid, flock, repo, marker, urls>>,
           UNCHANGED <<bound, failed, meddled, nilStart, faults>>,
           EntryStep, alone' \in {alone, {}}
    PROVE  Inv'
  <1>1. pc' \in [Pid -> Label] /\ \A q \in Pid : pc'[q] = IF q = p THEN l ELSE pc[q]
    BY GotoFact DEF Inv
  <1>2. /\ reg' \in {reg, NoPid, "idle"}
        /\ unlisted \subseteq unlisted' /\ unlisted' \subseteq Pid
        /\ \A x \in Pid : pc[x] = "unborn" => x \notin unlisted'
        /\ \A c \in Pid : pc[c] = "serve" /\ (reg = c \/ c \in unlisted) =>
                             reg' = c \/ c \in unlisted'
        /\ unlisted' = unlisted \/ alone' = {}
    BY EntryFacts DEF Inv
  <1>3. Typed'
    BY <1>1, <1>2 DEF Inv, Base, Typed, Entry
  <1>4. VerbPlaces' /\ UnbornUnnamed' /\ Kids'
    BY <1>1, <1>2, PidAssumption DEF Inv, Base, VerbPlaces, UnbornUnnamed, Kids
  <1>5. Owners'
    BY <1>1, <1>2, PidAssumption DEF Inv, Base, VerbPlaces, Owners, Fg
  <1>6. ASSUME ~meddled' PROVE Guard'
    <2>1. Guard /\ Base
      BY <1>6 DEF Inv
    <2>2. Apart'
      BY <2>1, <1>1 DEF Guard, Apart, Starter, Stopper, Fg
    <2>3. Locked'
      BY <2>1, <1>1 DEF Guard, Locked, Fg
    <2>4. Single' /\ Seeded' /\ Stops'
      BY <2>1, <1>1, <1>2 DEF Guard, Single, Seeded, Stops
    <2>5. ~Alive(hubpid) => ~Alive(hubpid)'
      <3>1. Calm
        BY <1>1 DEF Calm
      <3> QED
        BY <2>1, <3>1, StaysDead
    <2>6. NoHub'
      BY <2>1, <2>5, <1>1 DEF Guard, NoHub, Fg
    <2>7. ASSUME NEW a \in alone'
          PROVE  /\ a \in alone /\ a \in Pid /\ a # p /\ pc'[a] = pc[a] /\ unlisted' = unlisted
                 /\ pc[a] \in WaitAt => kid[a] \in Pid /\ kid[a] # p
      <3>1. a \in alone /\ a \in Pid /\ verb[a] \in {"join", "foreground"} /\ unlisted' = unlisted
        BY <2>1, <1>2, AloneFacts
      <3>2. pc[a] \in WaitAt => kid[a] \in Pid /\ verb[kid[a]] = "none"
        BY <2>1, <3>1, AloneFacts
      <3>3. verb[p] \notin {"none", "join", "foreground"}
        BY <2>1 DEF Base, VerbPlaces
      <3> QED
        BY <1>1, <3>1, <3>2, <3>3
    <2>8. /\ \A q \in Pid : Starter(q)' => Starter(q)
          /\ \A q \in Pid : q # p => pc'[q] = pc[q]
          /\ \A d \in Pid : pc'[d] \in HubLabel => pc[d] \in HubLabel
      BY <1>1 DEF Starter
    <2>9. Undisturbed'
      BY <2>1, <2>5, <2>7, <2>8 DEF Guard, Undisturbed
    <2> QED
      BY <2>2, <2>3, <2>4, <2>6, <2>9 DEF Guard
  <1> QED
    BY <1>3, <1>4, <1>5, <1>6 DEF Inv, Base

(* Register: the Read, the removal of a dead entry, the Write.             *)
LEMMA UpStepInv == ASSUME Inv, NEW p \in Pid, UpStep(p) PROVE Inv'
  <1>1. CASE RegisterRead(p)
    <2>1. PICK l \in UpLabel \cup {"dead"} : Goto(p, l)
      BY <1>1 DEF RegisterRead, Moves
    <2> QED
      BY <1>1, <2>1, UpMoves DEF RegisterRead, Moves, EntryStep, disk, hist
  <1>2. CASE RegisterPrune(p)
    BY <1>2, OverwriteStep, UpMoves DEF RegisterPrune
  <1>3. CASE RegisterWrite(p)
    <2>1. EntryStep /\ alone' \in {alone, {}}
      BY <1>3, OverwriteStep DEF RegisterWrite, EntryStep
    <2> QED
      BY <1>3, <2>1, UpMoves DEF RegisterWrite
  <1> QED
    BY <1>1, <1>2, <1>3 DEF UpStep

(* Another program takes the port.                                         *)
LEMMA PortTakenInv == ASSUME Inv, PortTaken PROVE Inv'
  <1>1. /\ bound = NoPid /\ bound' = "foreign" /\ alone' = {} /\ Fault
        /\ UNCHANGED <<pc, verb, kid, termed, hubpid, lockpid, flock, repo, reg, marker, urls>>
        /\ UNCHANGED <<failed, meddled, nilStart, unlisted>>
    BY DEF PortTaken, disk
  <1>2. faults' \in 0 .. MaxFaults
    BY <1>1, VerbsAssumption DEF Fault, Inv, Base, Typed
  <1>3. Typed'
    BY <1>1, <1>2 DEF Inv, Base, Typed
  <1>4. VerbPlaces' /\ UnbornUnnamed' /\ Kids'
    BY <1>1, PidAssumption DEF Inv, Base, VerbPlaces, UnbornUnnamed, Kids
  <1>5. Owners'
    BY <1>1, PidAssumption DEF Inv, Base, Owners, Fg
  <1>6. ASSUME ~meddled' PROVE Guard'
    <2>1. Guard
      BY <1>1, <1>6 DEF Inv
    <2>2. Apart' /\ Locked'
      BY <2>1, <1>1 DEF Guard, Apart, Locked, Starter, Stopper, Fg
    <2>3. Single' /\ Seeded' /\ Stops'
      BY <2>1, <1>1 DEF Guard, Single, Seeded, Stops
    <2>4. NoHub'
      BY <2>1, <1>1 DEF Guard, NoHub, Alive, Fg
    <2>5. Undisturbed'
      BY <1>1 DEF Undisturbed
    <2> QED
      BY <2>2, <2>3, <2>4, <2>5 DEF Guard
  <1> QED
    BY <1>3, <1>4, <1>5, <1>6 DEF Inv, Base

(* A kill, but of a start that has a child.                                *)
LEMMA KillInv == ASSUME Inv, NEW p \in Pid, Kill(p) PROVE Inv'
  <1>1. /\ pc[p] \notin {"unborn", "dead"} /\ Goto(p, "dead") /\ alone' = {} /\ Fault
        /\ bound' = IF bound = p THEN NoPid ELSE bound
        /\ flock' = IF flock = p THEN NoPid ELSE flock
        /\ meddled' = (meddled \/ (pc[p] \in StartLabel /\ kid[p] # NoPid))
        /\ UNCHANGED <<verb, kid, termed, hubpid, lockpid, repo, reg, marker, urls>>
        /\ UNCHANGED <<failed, nilStart, unlisted>>
    BY DEF Kill, Dies
  <1>2. faults' \in 0 .. MaxFaults
    BY <1>1, VerbsAssumption DEF Fault, Inv, Base, Typed
  <1>3. pc' \in [Pid -> Label] /\ \A q \in Pid : pc'[q] = IF q = p THEN "dead" ELSE pc[q]
    BY <1>1, GotoFact DEF Inv
  <1>4. Typed'
    BY <1>1, <1>2, <1>3 DEF Inv, Base, Typed
  <1>5. VerbPlaces' /\ UnbornUnnamed' /\ Kids'
    BY <1>1, <1>3, PidAssumption DEF Inv, Base, VerbPlaces, UnbornUnnamed, Kids
  <1>6. Owners'
    BY <1>1, <1>3, PidAssumption DEF Inv, Base, VerbPlaces, Owners, Fg
  <1>7. ASSUME ~meddled' PROVE Guard'
    <2>1. Guard /\ Base /\ (pc[p] \in StartLabel => kid[p] = NoPid)
      BY <1>1, <1>7 DEF Inv
    <2>2. Apart'
      BY <2>1, <1>1, <1>3 DEF Guard, Apart, Starter, Stopper, Fg
    <2>3. Locked'
      BY <2>1, <1>1, <1>3, PidAssumption DEF Guard, Locked, Fg
    <2>4. Single' /\ Seeded' /\ Stops'
      BY <2>1, <1>1, <1>3 DEF Guard, Single, Seeded, Stops
    <2>5. ~Alive(hubpid) => ~Alive(hubpid)'
      <3>1. Calm
        BY <1>1, <1>3 DEF Calm
      <3> QED
        BY <2>1, <3>1, <1>1, StaysDead
    <2>6. NoHub'
      BY <2>1, <2>5, <1>1, <1>3 DEF Guard, NoHub, Fg
    <2>7. Undisturbed'
      BY <1>1 DEF Undisturbed
    <2> QED
      BY <2>2, <2>3, <2>4, <2>6, <2>7 DEF Guard
  <1> QED
    BY <1>4, <1>5, <1>6, <1>7 DEF Inv, Base

-----------------------------------------------------------------------------
(* The invariance of Inv.                                                  *)

(* A fresh workspace satisfies the invariant.                              *)
LEMMA InitInv == ASSUME Init PROVE Inv
  <1>1. /\ \A p \in Pid : pc[p] = "unborn" /\ verb[p] = "none" /\ kid[p] = NoPid
        /\ termed = {} /\ alone = {} /\ failed = {} /\ unlisted = {}
        /\ hubpid = NoPid /\ lockpid = NoPid /\ flock = NoPid /\ bound = NoPid /\ reg = "idle"
    BY DEF Init
  <1>2. Typed
    <2>1. pc \in [Pid -> Label] /\ verb \in [Pid -> Verb \cup {"none"}]
      BY DEF Init
    <2>2. kid \in [Pid -> Pid \cup {NoPid}]
      BY DEF Init
    <2>3. repo = "absent" /\ marker = TRUE /\ urls = FALSE /\ meddled = FALSE /\ nilStart = FALSE
      BY DEF Init
    <2>4. faults \in 0 .. MaxFaults
      BY VerbsAssumption DEF Init
    <2> QED
      BY <1>1, <2>1, <2>2, <2>3, <2>4 DEF Typed, Entry
  <1>3. VerbPlaces /\ UnbornUnnamed /\ Kids /\ Owners
    BY <1>1, PidAssumption DEF VerbPlaces, UnbornUnnamed, Kids, Owners
  <1>4. Apart /\ Locked
    BY <1>1 DEF Apart, Locked, Starter
  <1>5. Single /\ NoHub /\ Seeded /\ Stops /\ Undisturbed
    BY <1>1 DEF Single, NoHub, Seeded, Stops, Undisturbed
  <1> QED
    BY <1>2, <1>3, <1>4, <1>5 DEF Inv, Base, Guard

(* A step that changes nothing.                                            *)
LEMMA StutterInv == ASSUME Inv, UNCHANGED vars PROVE Inv'
  <1>1. /\ UNCHANGED <<pc, verb, kid, termed, hubpid, lockpid, flock, repo, reg, marker, urls>>
        /\ UNCHANGED <<bound, alone, failed, meddled, nilStart, unlisted, faults>>
    BY DEF vars, disk, hist
  <1>2. Base'
    BY <1>1 DEF Inv, Base, Typed, VerbPlaces, UnbornUnnamed, Kids, Owners, Fg
  <1>3. ASSUME ~meddled' PROVE Guard'
    <2>1. Guard
      BY <1>1, <1>3 DEF Inv
    <2>2. Apart' /\ Locked'
      BY <2>1, <1>1 DEF Guard, Apart, Locked, Starter, Stopper, Fg
    <2>3. Single' /\ Seeded' /\ Stops'
      BY <2>1, <1>1 DEF Guard, Single, Seeded, Stops
    <2>4. NoHub'
      BY <2>1, <1>1 DEF Guard, NoHub, Alive, Fg
    <2>5. Undisturbed'
      BY <2>1, <1>1 DEF Guard, Undisturbed, Starter, Alive
    <2> QED
      BY <2>2, <2>3, <2>4, <2>5 DEF Guard
  <1> QED
    BY <1>2, <1>3 DEF Inv

(* Every step keeps the invariant.                                         *)
LEMMA NextInv == ASSUME Inv, [Next]_vars PROVE Inv'
  <1>1. CASE UNCHANGED vars
    BY <1>1, StutterInv
  <1>2. CASE PortTaken
    BY <1>2, PortTakenInv
  <1>3. ASSUME NEW p \in Pid, StartStep(p) PROVE Inv'
    <2>1. CASE \/ CheckLive(p) \/ CheckHolder(p) \/ DropStaleHolder(p) \/ TryLock(p)
               \/ WriteHolder(p)
      BY <2>1, CheckLiveInv, CheckHolderInv, DropInv, TryLockInv, WriteHolderInv
    <2>2. CASE ResolvePorts(p)
      BY <2>2, PortsInv, PortsServeInv
    <2>3. CASE \E c \in Pid : SpawnChild(p, c)
      BY <2>3, SpawnInv
    <2>4. CASE WaitForTCP(p) \/ VerifyPid(p) \/ WaitForRegistry(p) \/ Prune(p)
      BY <2>4, WaitTCPInv, VerifyInv, WaitRegInv, PruneInv
    <2>5. CASE KillChild(p) \/ ReleaseHolder(p) \/ ReleaseLock(p)
      BY <2>5, KillChildInv, ReleaseHolderInv, ReleaseLockInv
    <2> QED
      BY <1>3, <2>1, <2>2, <2>3, <2>4, <2>5 DEF StartStep
  <1>4. ASSUME NEW c \in Pid, HubStep(c) PROVE Inv'
    <2>1. CASE ChildCheck(c) \/ WipeRepo(c) \/ WritePid(c) \/ NewHub(c)
      BY <2>1, ChildCheckInv, WipeInv, WritePidInv, NewHubInv
    <2>2. CASE SeedHubRepo(c) \/ SeedFails(c) \/ RunTaskRecovery(c) \/ RegistryWrite(c)
               \/ RegistryWriteFails(c)
      BY <2>2, SeedInv, SeedFailsInv, RecoveryInv, RegisterInv, RegisterFailsInv
    <2>3. CASE Drain(c) \/ RemovePid(c) \/ RemoveEntry(c)
      BY <2>3, DrainInv, RemovePidInv, RemoveEntryInv
    <2> QED
      BY <1>4, <2>1, <2>2, <2>3 DEF HubStep
  <1>5. ASSUME NEW p \in Pid, StopStep(p) PROVE Inv'
    <2>1. CASE ReadTarget(p) \/ Terminate(p) \/ Gone(p) \/ GraceEnds(p)
      BY <2>1, ReadTargetInv, TerminateInv, GoneInv, GraceEndsInv
    <2>2. CASE StopRemoves(p) \/ DownRemovesEntry(p) \/ DownRemovesDir(p)
      BY <2>2, CleanUpsInv
    <2> QED
      BY <1>5, <2>1, <2>2 DEF StopStep
  <1>6. ASSUME NEW p \in Pid,
               \/ BeginStart(p, "join") \/ BeginStart(p, "foreground")
               \/ BeginStop(p, "stop") \/ BeginStop(p, "down")
               \/ BeginUp(p) \/ UpStep(p) \/ BeginList(p) \/ Kill(p)
        PROVE  Inv'
    BY <1>6, BeginStartInv, BeginStopInv, BeginUpInv, UpStepInv, BeginListInv, KillInv
  <1>7. ASSUME NEW p \in Pid, NEW h \in Pid, NEW v \in {"reap", "reappid"}, BeginReap(p, h, v)
        PROVE  Inv'
    BY <1>7, BeginReapInv
  <1> QED
    BY <1>1, <1>2, <1>3, <1>4, <1>5, <1>6, <1>7 DEF Next

(* The invariant holds in every reachable state.                           *)
LEMMA Invariance == Spec => []Inv
  BY InitInv, NextInv, PTL DEF Spec

-----------------------------------------------------------------------------
(* Every variable keeps its type, and the flock and the ports belong to    *)
(* processes that run, whatever is killed and whatever overlaps.           *)
THEOREM TypeCorrect == Spec => []TypeOK
  <1>1. Inv => TypeOK
    <2> SUFFICES ASSUME Inv PROVE TypeOK
      OBVIOUS
    <2>1. /\ {hubpid, lockpid, flock} \subseteq Pid \cup {NoPid}
          /\ {marker, urls, meddled, nilStart} \subseteq BOOLEAN
          /\ alone \cup failed \subseteq Pid
      BY DEF Inv, Base, Typed
    <2>2. {flock, bound} \cap {p \in Pid : pc[p] \in {"unborn", "dead"}} = {}
      BY DEF Inv, Base, Owners
    <2> QED
      BY <2>1, <2>2 DEF TypeOK, Inv, Base, Typed
  <1> QED
    BY <1>1, Invariance, PTL

(* However many starts race, and whatever kills, failed seeds and early    *)
(* timeouts left behind, at most one process at a time is past the fork of *)
(* a hub, unless an overlap that the lock does not guard has happened:     *)
(* AcquireWorkspaceLock, Start and the child's own look at hub.pid.        *)
THEOREM HubsExclude == Spec => []OneHub
  <1>1. Inv => OneHub
    <2> SUFFICES ASSUME Inv, ~meddled PROVE Cardinality(Hubs) <= 1
      BY DEF OneHub
    <2>1. \A c, d \in Hubs : c = d
      BY DEF Inv, Guard, Single, Hubs
    <2>2. CASE Hubs = {}
      BY <2>2, FS_EmptySet
    <2>3. CASE Hubs # {}
      <3>1. PICK c : c \in Hubs
        BY <2>3
      <3>2. Hubs = {c}
        BY <2>1, <3>1
      <3> QED
        BY <3>2, FS_Singleton
    <2> QED
      BY <2>2, <2>3
  <1> QED
    BY <1>1, Invariance, PTL

(* Until such an overlap, a hub that serves and has not been told to stop  *)
(* is the one that hub.pid and the ports lead to, and its repository is    *)
(* seeded; and the registry leads to it, unless its write of the entry     *)
(* failed, or an up or a listing that had read an earlier entry has since  *)
(* written over it or removed it (runForeground, Register, registry.Read). *)
THEOREM HubsAreFound == Spec => []HubDiscoverable
  <1>1. Inv => HubDiscoverable
    BY DEF Inv, Base, Owners, Guard, Single, Seeded, HubDiscoverable
  <1> QED
    BY <1>1, Invariance, PTL

(* Until such an overlap, a start that nothing else overlaps, and whose    *)
(* hub gets its entry into the registry, never fails, whatever a crash     *)
(* left in hub.pid, the lock, its pid file, the repository and the         *)
(* registry (Start, AcquireWorkspaceLock).                                 *)
THEOREM LoneStartsSucceed == Spec => []AloneSucceeds
  <1>1. Inv => AloneSucceeds
    BY DEF Inv, Guard, Undisturbed, AloneSucceeds
  <1> QED
    BY <1>1, Invariance, PTL
==============================================================================
