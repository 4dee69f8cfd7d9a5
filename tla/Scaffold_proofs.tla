-------------------------- MODULE Scaffold_proofs --------------------------
(***************************************************************************)
(* Theorems about Scaffold, for any number of files in the bundle, any     *)
(* hooks of the operator and any bounds.                                   *)
(***************************************************************************)
EXTENDS Scaffold, TLAPS

UpSteps == {"init", "legacy", "skills", "skillwrite", "settings", "merge", "stamp", "manifest",
            "hook", "hookmove", "hookwrite", "ignore"}
DownSteps == {"githook", "hookremove", "restore", "bonesdir", "legacy", "skills", "unlink",
              "manifest", "hooks", "trim", "claude"}
DoctorSteps == {"migrate", "migratewrite", "restamp", "adopt", "reset", "resetwrite", "rewrite"}

(* Steps that write what an earlier one has looked at.                     *)
Windows == {"skillwrite", "unlink", "merge", "trim", "migratewrite", "resetwrite",
            "hookmove", "hookwrite", "hookremove", "restore"}

(* Steps of up after the one named.                                        *)
AfterInit == UpSteps \ {"init"}
AfterLegacy == AfterInit \ {"legacy"}
AfterSkills == AfterLegacy \ {"skills", "skillwrite"}
AfterSettings == AfterSkills \ {"settings", "merge"}
AfterStamp == AfterSettings \ {"stamp"}
AfterManifest == AfterStamp \ {"manifest"}

(* Steps of down until the one named is done.                              *)
ToHook == {"githook", "hookremove"}
ToDir == {"githook", "hookremove", "restore", "bonesdir"}
ToLegacy == ToDir \cup {"legacy"}

Flag == {"stealth", "keepskills", "keephooks", "nofix", "reset"}
Item == {"githook", "bonesdir", "legacy", "skills", "hooks", "claude"}

Run == [verb : {"none", "up", "down", "doctor"},
        step : {"idle"} \cup UpSteps \cup DownSteps \cup DoctorSteps,
        flags : SUBSET Flag, n : File, git : BOOLEAN, created : BOOLEAN, plan : SUBSET Item,
        failed : BOOLEAN, seen : Settings, raced : BOOLEAN]

Hist == [last : {"none", "up", "down", "doctor"}, meddled : BOOLEAN, quiet : BOOLEAN,
         flags : SUBSET Flag, doubt : Version \cup {"absent"}, blind : BOOLEAN,
         warned : BOOLEAN]

Typed ==
    /\ bin \in Version /\ git \in BOOLEAN
    /\ skill \in [File -> Content]
    /\ dirs \subseteq {"claude", "skills", "theirs", "legacy"}
    /\ settings \in Settings /\ manifest \in Manifest
    /\ state \in [marker : BOOLEAN, stamp : Version \cup {"absent"}]
    /\ hook \in [now : UserHooks \cup {"none", "bones"}, saved : UserHooks \cup {"none"}]
    /\ ignored \in {"never", "listed", "removed"}
    /\ run \in Run /\ hist \in Hist

(* Where each verb can be.                                                 *)
Places ==
    /\ run.verb = "none" => run = Idle
    /\ run.verb = "up" => run.step \in UpSteps /\ ~run.failed
    /\ run.verb = "down" => run.step \in DownSteps
    /\ run.verb = "doctor" => run.step \in DoctorSteps /\ ~run.failed
    /\ run.verb = "up" /\ run.step \in {"init", "legacy"} => run.n = 1
    /\ run.verb = "down" /\ run.step \in ToLegacy => run.n = 1

(* What is not there has no content; what a binary wrote, it knows.        *)
Shape ==
    /\ \/ \E f \in File : skill[f] # "absent"
       \/ manifest.exists
       \/ dirs \cap {"theirs", "legacy"} # {}
       => "skills" \in dirs
    /\ ~settings.exists => settings = NoFile
    /\ ~manifest.exists => manifest = NoManifest
    /\ bin = "old" => /\ hist.doubt # "new"
                      /\ \A f \in File : skill[f] # "new" /\ manifest.files[f] # "new"
    /\ run.step \in {"resetwrite", "rewrite"} => manifest.exists

(* The file that down has come to is as bones wrote it.                    *)
AsWritten == Unmodified(run.n)

(* What a step is about to write is as it was looked at, unless the        *)
(* operator came in between.                                               *)
Window ==
    /\ run.raced => hist.meddled /\ run.step \in Windows
    /\ run.step \in SettingsWrites =>
          /\ run.seen.valid /\ (run.step # "merge" => run.seen.exists)
          /\ run.step = "trim" => "hooks" \in run.plan
          /\ ~run.raced => settings = run.seen
    /\ run.step = "skillwrite" =>
          /\ {"claude", "skills"} \subseteq dirs
          /\ hist.doubt = "absent" => manifest.files[run.n] = "absent"
          /\ ~run.raced => skill[run.n] = "absent"
    /\ run.step = "unlink" =>
          /\ "skills" \in run.plan
          /\ hist.doubt = "absent" => skill[run.n] # "absent"
          /\ ~run.raced => AsWritten
    /\ run.step = "hookmove" => git /\ hook.now # "bones" /\ hook.saved = "none"
    /\ run.step = "hookwrite" =>
          /\ git /\ hook.now # "bones"
          /\ ~run.raced /\ hook.now # "none" => hook.saved # "none"
    /\ run.step = "hookremove" /\ ~run.raced => hook.now = "bones"
    /\ run.step = "restore" /\ ~run.raced => hook.now = "none"

-----------------------------------------------------------------------------
(* up.                                                                     *)

HooksIn(flags) ==
    \/ "stealth" \in flags \/ ~git
    \/ /\ settings.exists /\ settings.hooks \cap Legacy = {}
       /\ \A c \in {"prime", "hub"} : settings.hooks \cap Shapes(c) # {}

ManifestFresh ==
    /\ manifest.exists /\ manifest.adopted = {} /\ manifest.hooks = settings.hooks \cap Owned
    /\ \A f \in File : skill[f] = bin => manifest.files[f] # "absent"

UpDone(flags) ==
    /\ state = [marker |-> TRUE, stamp |-> bin]
    /\ "legacy" \notin dirs /\ {"claude", "skills"} \subseteq dirs
    /\ \A f \in File : skill[f] # "absent"
    /\ HooksIn(flags) /\ ManifestFresh
    /\ git => hook.now = "bones"

(* What an up has done so far, unless the operator has meddled since.      *)
UpProgress ==
    run.verb = "up" /\ ~hist.meddled =>
        /\ run.step \in AfterInit => state.marker /\ run.git = git
        /\ run.step \in AfterLegacy => "legacy" \notin dirs
        /\ run.step \in {"skills", "skillwrite"} =>
              /\ \A f \in File : f < run.n => skill[f] # "absent"
              /\ run.n > 1 => {"claude", "skills"} \subseteq dirs
        /\ run.step \in AfterSkills =>
              /\ \A f \in File : skill[f] # "absent"
              /\ {"claude", "skills"} \subseteq dirs
        /\ run.step = "merge" => "stealth" \notin run.flags /\ git
        /\ run.step \in AfterSettings => HooksIn(run.flags)
        /\ run.step \in AfterStamp => state.stamp = bin
        /\ run.step \in AfterManifest => ManifestFresh
        /\ run.step = "ignore" /\ git => hook.now = "bones"

(* What the last up left, until something else happens.                    *)
UpLeft ==
    /\ hist.quiet => /\ ~hist.meddled /\ UpDone(hist.flags) /\ ignored = "listed"
                     /\ run.verb \in {"none", "up"}
    /\ hist.quiet /\ run.verb = "up" => run.flags = hist.flags /\ ~run.created
    /\ hist.last # "none" => run = Idle
    /\ hist.last = "up" /\ ~hist.meddled => UpDone({}) /\ (ignored = "listed" \/ hist.warned)

-----------------------------------------------------------------------------
(* down.                                                                   *)

Clean == [marker |-> FALSE, stamp |-> "absent"]

(* What a down has removed so far, or need not remove.                     *)
DownProgress ==
    run.verb = "down" /\ run.flags = {} /\ ~hist.meddled =>
        /\ run.step \notin ToHook \/ "githook" \notin run.plan => ~(git /\ hook.now = "bones")
        /\ run.step \notin ToDir \/ "bonesdir" \notin run.plan => state = Clean
        /\ run.step \notin ToLegacy \/ "legacy" \notin run.plan => "legacy" \notin dirs
        /\ "skills" \notin run.plan => "skills" \notin dirs
        /\ run.step \in {"hooks", "trim", "claude"} => ~manifest.exists
        /\ "hooks" \notin run.plan => ~settings.exists
        /\ run.step = "claude" => run.failed \/ settings.hooks \cap (Owned \cup Legacy) = {}

(* What the last down left, the skill files apart.                         *)
DownLeft ==
    hist.last = "down" /\ ~hist.meddled =>
        /\ ~(git /\ hook.now = "bones") /\ state = Clean
        /\ "legacy" \notin dirs /\ ~manifest.exists
        /\ settings.hooks \cap (Owned \cup Legacy) = {}

-----------------------------------------------------------------------------
(* The skill files and the manifest.                                       *)

(* An up that has not written its manifest yet.                            *)
Unrecorded ==
    /\ run.verb = "up"
    /\ run.step \in {"skills", "skillwrite", "settings", "merge", "stamp", "manifest"}

(* No verb was interrupted and no file deleted: every file of bones is in  *)
(* the manifest as it is, and what the manifest has is there.              *)
Certain ==
    hist.doubt = "absent" =>
        \A f \in File :
            /\ skill[f] \in Version =>
                  \/ manifest.files[f] = skill[f]
                  \/ Unrecorded /\ skill[f] = bin /\ manifest.files[f] = "absent"
            /\ manifest.files[f] # "absent" =>
                  \/ skill[f] # "absent"
                  \/ /\ run.verb = "down" /\ "skills" \in run.plan
                     /\ run.step \in {"skills", "unlink", "manifest"}

(* Interrupted, and not upgraded since: one binary wrote it all.           *)
OneBinary ==
    hist.doubt = bin =>
        \A f \in File : /\ skill[f] \in {bin, "absent", "mine"}
                        /\ manifest.files[f] \in {bin, "absent"}

(* And a manifest of its making has every file of bones.                   *)
Sighted ==
    hist.doubt = bin /\ ~hist.blind /\ manifest.exists =>
        \A f \in File : skill[f] = bin => manifest.files[f] = bin \/ Unrecorded

Told == hist.doubt = "absent" \/ (hist.doubt = bin /\ ~hist.blind)

(* So down knows every file of bones.                                      *)
DownFiles ==
    /\ run.verb = "down" /\ "skills" \in run.plan /\ Told =>
          /\ run.step \in {"skills", "unlink"} =>
                \A f \in File : f < run.n => skill[f] \notin Version
          /\ run.step = "manifest" => \A f \in File : skill[f] \notin Version
          /\ run.step \in {"hooks", "trim", "claude"} =>
                run.failed \/ \A f \in File : skill[f] \notin Version
    /\ run.step = "manifest" /\ run.verb = "down" => "skills" \in run.plan
    /\ hist.last = "down" /\ ~hist.meddled /\ Told => \A f \in File : skill[f] \notin Version

Inv ==
    /\ Typed /\ Places /\ Shape /\ Window /\ UpProgress /\ UpLeft /\ DownProgress /\ DownLeft
    /\ Certain /\ OneBinary /\ Sighted /\ DownFiles

-----------------------------------------------------------------------------
USE DEF UpSteps, DownSteps, DoctorSteps, AfterInit, AfterLegacy, AfterSkills, AfterSettings,
        AfterStamp, AfterManifest, ToHook, ToDir, ToLegacy, Windows, SettingsWrites, HookWrites

(* What a move to another step leaves of the verb.                         *)
SameVerb ==
    /\ run'.verb = run.verb /\ run'.flags = run.flags /\ run'.plan = run.plan
    /\ run.verb # "down" => run'.failed = run.failed
    /\ run.failed => run'.failed

(* A move to another step.                                                 *)
LEMMA GotoFact ==
    ASSUME Typed, NEW s \in UpSteps \cup DownSteps \cup DoctorSteps, Goto(s)
    PROVE  /\ run' \in Run /\ SameVerb
           /\ run'.step = s /\ run'.n = run.n /\ run'.git = run.git /\ run'.created = run.created
           /\ run'.failed = run.failed /\ ~run'.raced
  <1>1. NoFile \in Settings
    BY DEF NoFile, Settings
  <1> QED
    BY <1>1 DEF Typed, Goto, Run, SameVerb

(* settings.json is read.                                                  *)
LEMMA ReadFact ==
    ASSUME Typed, NEW s \in UpSteps \cup DownSteps \cup DoctorSteps, ReadSettings(s)
    PROVE  /\ run' \in Run /\ SameVerb
           /\ run'.step = s /\ run'.n = run.n /\ run'.git = run.git /\ run'.created = run.created
           /\ run'.failed = run.failed /\ run'.raced = run.raced /\ run'.seen = settings
  BY DEF Typed, ReadSettings, Run, SameVerb

(* The walk over the bundle: the next file, or after the last the next     *)
(* step.                                                                   *)
LEMMA NextFileFact ==
    ASSUME Typed, NEW s \in UpSteps \cup DownSteps, NextFile(s)
    PROVE  /\ run' \in Run /\ SameVerb /\ run'.git = run.git /\ run'.created = run.created
           /\ run'.failed = run.failed /\ ~run'.raced
           /\ \/ run.n = NFiles /\ run'.n = 1 /\ run'.step = s
              \/ run.n # NFiles /\ run'.n = run.n + 1 /\ run'.step = "skills"
  <1>1. run.n \in 1 .. NFiles /\ NFiles \in Nat \ {0} /\ 1 \in File
    BY FileAssumption DEF Typed, Run, File
  <1>2. CASE run.n = NFiles
    <2>1. run' = [run EXCEPT !.step = s, !.n = 1, !.raced = FALSE]
      BY <1>2 DEF NextFile
    <2> QED
      BY <1>1, <1>2, <2>1 DEF Typed, Run, SameVerb
  <1>3. CASE run.n # NFiles
    <2>1. run.n + 1 \in File
      BY <1>1, <1>3 DEF File
    <2>2. run' = [run EXCEPT !.step = "skills", !.n = run.n + 1, !.raced = FALSE]
      BY <1>3 DEF NextFile
    <2> QED
      BY <1>3, <2>1, <2>2 DEF Typed, Run, SameVerb
  <1> QED
    BY <1>2, <1>3

(* No verb.                                                                *)
LEMMA IdleFact ==
    /\ Idle \in Run /\ Idle.verb = "none" /\ Idle.step = "idle" /\ Idle.flags = {}
    /\ Idle.n = 1 /\ Idle.plan = {} /\ ~Idle.failed /\ ~Idle.created /\ ~Idle.raced
  <1>1. 1 \in File /\ NoFile \in Settings
    BY FileAssumption DEF File, NoFile, Settings
  <1> QED
    BY <1>1 DEF Idle, Run

(* A verb that is interrupted.                                             *)
LEMMA InterruptedFact ==
    ASSUME Typed
    PROVE  /\ Interrupted \in Hist /\ ~Interrupted.quiet
           /\ Interrupted.last = hist.last /\ Interrupted.meddled = hist.meddled
           /\ Interrupted.blind = (hist.blind \/ (run.verb = "up" /\ manifest.exists))
           /\ Interrupted.doubt = IF run.verb = "doctor" \/ hist.doubt # "absent"
                                  THEN hist.doubt ELSE Oldest
  <1>1. Oldest \in Version
    BY DEF Typed, Oldest, Version
  <1> DEFINE b == hist.blind \/ (run.verb = "up" /\ manifest.exists)
             d == IF run.verb = "doctor" \/ hist.doubt # "absent" THEN hist.doubt ELSE Oldest
  <1>2. b \in BOOLEAN /\ d \in Version \cup {"absent"} /\ hist \in Hist
    BY <1>1 DEF Typed, Hist
  <1>3. Interrupted = [hist EXCEPT !.quiet = FALSE, !.flags = {}, !.blind = b, !.doubt = d]
    BY DEF Interrupted
  <1> HIDE DEF b, d
  <1>4. /\ Interrupted \in Hist /\ ~Interrupted.quiet
        /\ Interrupted.last = hist.last /\ Interrupted.meddled = hist.meddled
        /\ Interrupted.blind = b /\ Interrupted.doubt = d
    BY <1>2, <1>3 DEF Hist
  <1> QED
    BY <1>4 DEF b, d

(* The oldest binary in the manifest, as the next binary will find it.     *)
LEMMA OldestFact ==
    ASSUME Typed, Shape, Oldest = bin
    PROVE  \A f \in File : manifest.files[f] \in {bin, "absent"}
  <1>1. \A f \in File : manifest.files[f] \in {"old", "new", "absent"}
    BY DEF Typed, Manifest, Version
  <1>2. bin \in {"old", "new"}
    BY DEF Typed, Version
  <1> QED
    BY <1>1, <1>2 DEF Oldest, Shape

(* What the operator does is recorded.                                     *)
LEMMA MeddledFact ==
    ASSUME Typed
    PROVE  /\ Meddled \in Hist /\ Meddled.last = "none" /\ ~Meddled.quiet /\ Meddled.meddled
           /\ Meddled.doubt = hist.doubt /\ Meddled.blind = hist.blind
  BY DEF Typed, Meddled, Hist

-----------------------------------------------------------------------------
(* What most steps have in common.                                         *)

(* A step within a verb: what the last verb left is not in question, but   *)
(* for an up that repeats the last.                                        *)
LEMMA Within ==
    ASSUME Inv, run.verb # "none", UNCHANGED <<bin, git, hist>>, SameVerb,
           run.verb = "up" /\ hist.quiet => UNCHANGED tree /\ ~run'.created
    PROVE  /\ UpLeft' /\ DownLeft' /\ hist'.last = "none"
  <1>1. run # Idle
    BY IdleFact
  <1>2. hist.last = "none"
    BY <1>1 DEF Inv, UpLeft
  <1>3. hist.quiet => /\ run.verb = "up" /\ ~run'.created /\ UpDone(hist.flags)'
                      /\ ignored' = "listed"
    BY DEF Inv, UpLeft, tree, UpDone, HooksIn, ManifestFresh
  <1> QED
    BY <1>2, <1>3 DEF Inv, UpLeft, DownLeft, SameVerb

(* A step of up or doctor that touches neither skill files nor manifest.   *)
LEMMA FilesStay ==
    ASSUME Inv, run.verb \in {"up", "doctor"}, SameVerb, hist'.last = "none",
           UNCHANGED <<bin, skill, manifest, hist>>, Unrecorded => Unrecorded'
    PROVE  Certain' /\ OneBinary' /\ Sighted' /\ DownFiles'
  <1>1. run'.verb \in {"up", "doctor"}
    BY DEF SameVerb
  <1>2. Certain'
    BY DEF Inv, Certain
  <1>3. OneBinary' /\ Sighted'
    BY DEF Inv, OneBinary, Sighted
  <1>4. DownFiles'
    BY <1>1 DEF DownFiles
  <1> QED
    BY <1>2, <1>3, <1>4

(* A step of down that touches neither.                                    *)
LEMMA FilesStayDown ==
    ASSUME Inv, run.verb = "down", SameVerb, hist'.last = "none",
           UNCHANGED <<bin, skill, manifest, hist>>, run'.n = run.n,
           "skills" \in run.plan => run.step \notin {"skills", "unlink", "manifest"},
           run'.step \notin {"unlink", "manifest"},
           run'.step = "skills" => run.n = 1,
           "skills" \in run.plan /\ run'.step \in {"hooks", "trim", "claude"} =>
               run.step \in {"hooks", "trim", "claude"}
    PROVE  Certain' /\ OneBinary' /\ Sighted' /\ DownFiles'
  <1>1. run'.verb = "down" /\ run'.plan = run.plan /\ (run.failed => run'.failed)
    BY DEF SameVerb
  <1>2. ~Unrecorded
    BY DEF Unrecorded
  <1>3. Certain'
    BY <1>1, <1>2 DEF Inv, Certain, DownFiles
  <1>4. OneBinary' /\ Sighted'
    BY <1>2 DEF Inv, OneBinary, Sighted
  <1>5. run.n \in Nat
    BY DEF Inv, Typed, Run, File
  <1>6. \A f \in File : ~(f < 1)
    BY DEF File
  <1>7. DownFiles'
    BY <1>1, <1>6 DEF Inv, DownFiles, Told
  <1> QED
    BY <1>3, <1>4, <1>7

(* A verb stops halfway: nobody claims that it is done.                    *)
LEMMA Interrupts ==
    ASSUME Inv, run.verb # "none", run' = Idle, hist' = Interrupted, UNCHANGED <<bin, git>>,
           UNCHANGED <<skill, settings, manifest, state, hook, ignored>>,
           dirs' \in {dirs, dirs \ {"claude"}}
    PROVE  Inv'
  <1>1. /\ hist' \in Hist /\ ~hist'.quiet /\ hist'.last = "none"
        /\ hist'.blind = (hist.blind \/ (run.verb = "up" /\ manifest.exists))
        /\ hist'.doubt = IF run.verb = "doctor" \/ hist.doubt # "absent" THEN hist.doubt ELSE Oldest
    <2>1. run # Idle
      BY IdleFact
    <2> QED
      BY <2>1, InterruptedFact DEF Inv, UpLeft
  <1>2. run'.verb = "none" /\ run'.step = "idle" /\ ~run'.raced
    BY IdleFact
  <1>3. Typed' /\ Window'
    BY <1>1, <1>2, IdleFact DEF Inv, Typed, Window
  <1>4. Places' /\ UpProgress' /\ UpLeft' /\ DownProgress' /\ DownLeft' /\ DownFiles'
    BY <1>1, <1>2 DEF Places, UpProgress, UpLeft, DownProgress, DownLeft, DownFiles
  <1>5. Oldest \in {"old", bin} /\ bin \in {"old", "new"}
    BY DEF Oldest, Inv, Typed, Version
  <1>6. Shape'
    BY <1>1, <1>2, <1>5 DEF Inv, Shape
  <1>7. hist'.doubt = bin /\ hist.doubt # bin => hist.doubt = "absent" /\ Oldest = bin
    BY <1>1
  <1>8. Oldest = bin => \A f \in File : manifest.files[f] \in {bin, "absent"}
    BY OldestFact DEF Inv
  <1>9. \A f \in File : skill[f] \in Content
    BY DEF Inv, Typed
  <1>10. OneBinary'
    BY <1>1, <1>5, <1>7, <1>8, <1>9 DEF Inv, OneBinary, Certain, Content, Version
  <1>11. hist'.doubt = "absent" => run.verb = "doctor" /\ hist.doubt = "absent"
    BY <1>1, <1>5
  <1>12. Certain'
    BY <1>2, <1>11 DEF Inv, Certain, Unrecorded
  <1>13. Sighted'
    <2> SUFFICES ASSUME hist'.doubt = bin, ~hist'.blind, manifest.exists,
                        NEW f \in File, skill[f] = bin
                 PROVE  manifest.files[f] = bin
      BY DEF Sighted
    <2>1. run.verb # "up" /\ ~hist.blind /\ ~Unrecorded
      BY <1>1 DEF Unrecorded
    <2>2. CASE hist.doubt = bin
      BY <2>1, <2>2 DEF Inv, Sighted
    <2>3. CASE hist.doubt # bin
      BY <1>7, <2>1, <2>3, <1>5 DEF Inv, Certain, Version
    <2> QED
      BY <2>2, <2>3
  <1> QED
    BY <1>3, <1>4, <1>6, <1>10, <1>12, <1>13 DEF Inv

-----------------------------------------------------------------------------
(* A verb begins.                                                          *)

(* What every verb finds when it begins; down also has its plan.           *)
LEMMA StartFact ==
    ASSUME Inv, NEW v \in {"up", "down", "doctor"}, NEW flags, NEW s, NEW r \in Run,
           Start(v, flags, s, r), s \in UpSteps \cup DownSteps \cup DoctorSteps
    PROVE  /\ run = Idle /\ flags \in Flags(v) /\ flags \subseteq Flag
           /\ run' \in Run /\ run'.verb = v /\ run'.flags = flags /\ run'.step = s
           /\ run'.n = r.n /\ run'.plan = r.plan /\ run'.failed = r.failed
           /\ run'.created = r.created /\ run'.raced = r.raced
           /\ hist' \in Hist /\ hist'.last = "none" /\ ~hist'.meddled
           /\ hist'.doubt = hist.doubt /\ hist'.blind = hist.blind /\ hist'.flags = hist.flags
           /\ hist'.quiet => hist.quiet /\ v = "up" /\ flags = hist.flags
           /\ UNCHANGED <<bin, git, skill, dirs, settings, manifest, state, hook, ignored>>
  <1>1. /\ run = Idle /\ flags \in Flags(v)
        /\ UNCHANGED <<bin, git, skill, dirs, settings, manifest, state, hook, ignored>>
    BY DEF Start, tree
  <1>2. flags \subseteq Flag
    BY <1>1 DEF Flags, Flag
  <1>3. run' = [r EXCEPT !.verb = v, !.flags = flags, !.step = s]
    BY DEF Start
  <1>4. /\ run' \in Run /\ run'.verb = v /\ run'.flags = flags /\ run'.step = s
        /\ run'.n = r.n /\ run'.plan = r.plan /\ run'.failed = r.failed
        /\ run'.created = r.created /\ run'.raced = r.raced
    BY <1>2, <1>3 DEF Run
  <1> DEFINE q == hist.quiet /\ v = "up" /\ flags = hist.flags
  <1>5. hist \in Hist /\ q \in BOOLEAN
    BY DEF Inv, Typed, Hist
  <1>6. hist' = [hist EXCEPT !.last = "none", !.meddled = FALSE, !.warned = FALSE, !.quiet = q]
    BY DEF Start
  <1> HIDE DEF q
  <1>7. /\ hist' \in Hist /\ hist'.last = "none" /\ ~hist'.meddled /\ hist'.quiet = q
        /\ hist'.doubt = hist.doubt /\ hist'.blind = hist.blind /\ hist'.flags = hist.flags
    BY <1>5, <1>6 DEF Hist
  <1> QED
    BY <1>1, <1>2, <1>4, <1>7 DEF q

(* up and doctor begin with nothing planned.                               *)
LEMMA StartInv ==
    ASSUME Inv, NEW v \in {"up", "doctor"}, NEW flags,
           Start(v, flags, IF v = "up" THEN "init" ELSE "migrate", Idle)
    PROVE  Inv'
  <1> DEFINE s == IF v = "up" THEN "init" ELSE "migrate"
  <1>1. s \in UpSteps \cup DownSteps \cup DoctorSteps /\ Start(v, flags, s, Idle)
    OBVIOUS
  <1>2. /\ run = Idle /\ run.verb = "none"
        /\ run' \in Run /\ run'.verb = v /\ run'.flags = flags /\ run'.step = s
        /\ run'.n = 1 /\ ~run'.failed /\ ~run'.created /\ ~run'.raced
        /\ hist' \in Hist /\ hist'.last = "none" /\ ~hist'.meddled
        /\ hist'.doubt = hist.doubt /\ hist'.blind = hist.blind /\ hist'.flags = hist.flags
        /\ hist'.quiet => hist.quiet /\ v = "up" /\ flags = hist.flags
        /\ UNCHANGED <<bin, git, skill, dirs, settings, manifest, state, hook, ignored>>
    BY <1>1, StartFact, IdleFact
  <1>3. run'.step = (IF v = "up" THEN "init" ELSE "migrate")
    BY <1>2
  <1> HIDE DEF s
  <1>4. Typed'
    BY <1>2 DEF Inv, Typed
  <1>5. Places' /\ Shape' /\ Window'
    BY <1>2, <1>3 DEF Inv, Places, Shape, Window
  <1>6. UpProgress' /\ DownProgress' /\ DownLeft'
    BY <1>2, <1>3 DEF UpProgress, DownProgress, DownLeft
  <1>7. hist.quiet => UpDone(hist.flags)' /\ ignored' = "listed"
    BY <1>2 DEF Inv, UpLeft, UpDone, HooksIn, ManifestFresh
  <1>8. UpLeft'
    BY <1>2, <1>7 DEF UpLeft
  <1>9. Certain' /\ OneBinary' /\ Sighted' /\ DownFiles'
    BY <1>2, <1>3 DEF Inv, Certain, OneBinary, Sighted, DownFiles, Unrecorded
  <1> QED
    BY <1>4, <1>5, <1>6, <1>8, <1>9 DEF Inv

(* down begins with its plan: what is not in it is not there.              *)
LEMMA StartDownInv == ASSUME Inv, NEW flags, StartDown(flags) PROVE Inv'
  <1> DEFINE r == [Idle EXCEPT !.plan = planDown(flags),
                               !.created = manifest.exists /\ manifest.created]
  <1>1. planDown(flags) \subseteq Item
    BY DEF planDown, Item
  <1>2. (manifest.exists /\ manifest.created) \in BOOLEAN
    BY DEF Inv, Typed, Manifest
  <1>3. r \in Run /\ r.n = 1 /\ r.plan = planDown(flags) /\ ~r.failed /\ ~r.raced
    BY <1>1, <1>2, IdleFact DEF Run
  <1>4. Start("down", flags, "githook", r)
    BY DEF StartDown
  <1> HIDE DEF r
  <1>5. /\ run = Idle /\ run.verb = "none"
        /\ run' \in Run /\ run'.verb = "down" /\ run'.flags = flags /\ run'.step = "githook"
        /\ run'.n = 1 /\ run'.plan = planDown(flags) /\ ~run'.failed /\ ~run'.raced
        /\ hist' \in Hist /\ hist'.last = "none" /\ ~hist'.meddled
        /\ hist'.doubt = hist.doubt /\ hist'.blind = hist.blind /\ hist'.flags = hist.flags
        /\ ~hist'.quiet
        /\ UNCHANGED <<bin, git, skill, dirs, settings, manifest, state, hook, ignored>>
    BY <1>3, <1>4, StartFact, IdleFact
  <1>6. Typed'
    BY <1>5 DEF Inv, Typed
  <1>7. Places' /\ Shape' /\ Window'
    BY <1>5 DEF Inv, Places, Shape, Window
  <1>8. flags = {} =>
           /\ "githook" \notin planDown(flags) => ~(git /\ hook.now = "bones")
           /\ "bonesdir" \notin planDown(flags) => ~state.marker /\ state.stamp = "absent"
           /\ "legacy" \notin planDown(flags) => "legacy" \notin dirs
           /\ "skills" \notin planDown(flags) => "skills" \notin dirs
           /\ "hooks" \notin planDown(flags) => ~settings.exists
    BY DEF planDown
  <1>9. ~state.marker /\ state.stamp = "absent" => state = Clean
    BY DEF Inv, Typed, Clean
  <1>10. UpProgress' /\ DownProgress' /\ DownLeft' /\ UpLeft'
    BY <1>5, <1>8, <1>9 DEF UpProgress, DownProgress, DownLeft, UpLeft, Clean
  <1>11. Certain' /\ OneBinary' /\ Sighted' /\ DownFiles'
    BY <1>5 DEF Inv, Certain, OneBinary, Sighted, DownFiles, Unrecorded
  <1> QED
    BY <1>6, <1>7, <1>10, <1>11 DEF Inv

-----------------------------------------------------------------------------
(* up.  Each step also finds its work done when the up repeats the last.   *)

(* A step of up that leaves the skill files, the manifest and the hook.    *)
LEMMA UpMoves ==
    ASSUME Inv, run.verb = "up", NEW s \in AfterInit,
           run' \in Run, SameVerb, run'.step = s, run'.n = run.n,
           s = "legacy" => run.step = "init",
           UNCHANGED <<bin, git, skill, manifest, ignored, hist>>,
           dirs' \subseteq {"claude", "skills", "theirs", "legacy"}, settings' \in Settings,
           state' \in [marker : BOOLEAN, stamp : Version \cup {"absent"}],
           hook' \in [now : UserHooks \cup {"none", "bones"}, saved : UserHooks \cup {"none"}],
           Shape', UpProgress', hist.quiet => UNCHANGED tree /\ ~run'.created,
           ~run'.raced, s \in Windows => Window',
           Unrecorded => s \in {"skills", "skillwrite", "settings", "merge", "stamp", "manifest"}
    PROVE  Inv' /\ (hist.quiet => UNCHANGED tree)
  <1>1. Typed' /\ Window'
    BY DEF Inv, Typed, Window
  <1>2. run'.verb = "up" /\ ~run'.failed
    BY DEF SameVerb, Inv, Places
  <1>3. Places'
    BY <1>2 DEF Inv, Places
  <1>4. UpLeft' /\ DownLeft' /\ hist'.last = "none"
    BY Within
  <1>5. DownProgress'
    BY <1>2 DEF DownProgress
  <1>6. Certain' /\ OneBinary' /\ Sighted' /\ DownFiles'
    BY <1>2, <1>4, FilesStay DEF Unrecorded
  <1> QED
    BY <1>1, <1>3, <1>4, <1>5, <1>6 DEF Inv

(* The workspace is made or joined; a join may fail.                       *)
LEMMA InitWorkspaceInv ==
    ASSUME Inv, initOrJoinWorkspace PROVE Inv' /\ (hist.quiet => UNCHANGED tree)
  <1>1. /\ run.verb = "up" /\ run.step = "init"
        /\ UNCHANGED <<bin, git, skill, dirs, settings, manifest, hook, ignored>>
    BY DEF initOrJoinWorkspace, At
  <1>2. CASE /\ state' = [state EXCEPT !.marker = TRUE]
             /\ run' = [run EXCEPT !.step = "legacy", !.git = git]
             /\ UNCHANGED <<hist, budget>>
    <2>1. /\ state' \in [marker : BOOLEAN, stamp : Version \cup {"absent"}]
          /\ state'.marker /\ (state.marker => state' = state)
      BY <1>2 DEF Inv, Typed
    <2>2. /\ run' \in Run /\ SameVerb /\ run'.step = "legacy" /\ run'.n = run.n /\ run'.git = git
          /\ run'.created = run.created /\ ~run'.raced
      BY <1>1, <1>2 DEF Inv, Typed, Run, SameVerb, Window
    <2>3. hist.quiet => UNCHANGED tree /\ ~run'.created
      BY <1>1, <2>1, <2>2 DEF Inv, UpLeft, UpDone, tree
    <2>4. Shape'
      BY <1>1, <1>2, <2>2 DEF Inv, Shape
    <2>5. UpProgress'
      BY <1>1, <2>1, <2>2 DEF UpProgress
    <2>6. ~Unrecorded
      BY <1>1 DEF Unrecorded
    <2> QED
      BY <1>1, <1>2, <2>1, <2>2, <2>3, <2>4, <2>5, <2>6, UpMoves DEF Inv, Typed
  <1>3. CASE run' = Idle /\ hist' = Interrupted /\ UNCHANGED state
    BY <1>1, <1>3, Interrupts DEF tree
  <1> QED
    BY <1>2, <1>3 DEF initOrJoinWorkspace

(* Skills of earlier releases go.                                          *)
LEMMA LegacySkillsInv ==
    ASSUME Inv, removeLegacyBonesSkills PROVE Inv' /\ (hist.quiet => UNCHANGED tree)
  <1>1. /\ run.verb = "up" /\ run.step = "legacy" /\ Goto("skills")
        /\ UNCHANGED <<bin, git, skill, settings, manifest, state, hook, ignored, hist>>
    BY DEF removeLegacyBonesSkills, At
  <1>2. /\ run' \in Run /\ SameVerb /\ run'.step = "skills" /\ run'.n = run.n
        /\ run'.created = run.created /\ run'.git = run.git /\ run.n = 1 /\ ~run'.raced
    BY <1>1, GotoFact DEF Inv, Places
  <1>3. \/ dirs' = dirs \ {"legacy"}
        \/ /\ dirs' = (dirs \ {"legacy"}) \ {"skills"}
           /\ Empty(dirs \ {"legacy"}) /\ ~manifest.exists
    BY DEF removeLegacyBonesSkills
  <1>4. hist.quiet => UNCHANGED tree /\ ~run'.created
    BY <1>1, <1>2, <1>3 DEF Inv, UpLeft, UpDone, ManifestFresh, tree, Empty
  <1>5. \A f \in File : ~(f < 1)
    BY DEF File
  <1>6. UpProgress'
    BY <1>1, <1>2, <1>3, <1>5 DEF Inv, UpProgress, SameVerb
  <1>7. Shape'
    BY <1>1, <1>2, <1>3 DEF Inv, Shape, Empty
  <1> QED
    BY <1>1, <1>2, <1>3, <1>4, <1>6, <1>7, UpMoves DEF Inv, Typed

(* settings.json is read.                                                  *)
LEMMA ReadSettingsInv ==
    ASSUME Inv, readSettings PROVE Inv' /\ (hist.quiet => UNCHANGED tree)
  <1>1. /\ run.verb = "up" /\ run.step = "settings"
        /\ UNCHANGED <<bin, git, skill, dirs, settings, manifest, state, hook, ignored>>
    BY DEF readSettings, At, tree
  <1>2. CASE /\ "stealth" \in run.flags \/ ~run.git
             /\ Goto("stamp") /\ UNCHANGED hist
    <2>1. /\ run' \in Run /\ SameVerb /\ run'.step = "stamp" /\ run'.n = run.n
          /\ run'.git = run.git /\ run'.created = run.created /\ ~run'.raced
      BY <1>2, GotoFact DEF Inv
    <2>2. UpProgress'
      BY <1>1, <1>2, <2>1 DEF Inv, UpProgress, HooksIn, SameVerb
    <2>3. Shape'
      BY <1>1, <1>2, <2>1 DEF Inv, Shape
    <2>4. hist.quiet => UNCHANGED tree /\ ~run'.created
      BY <1>1, <1>2, <2>1 DEF Inv, UpLeft, tree
    <2> QED
      BY <1>1, <1>2, <2>1, <2>2, <2>3, <2>4, UpMoves DEF Inv, Typed
  <1>3. CASE /\ "stealth" \notin run.flags /\ run.git /\ settings.valid
             /\ ReadSettings("merge") /\ UNCHANGED hist
    <2>1. /\ run' \in Run /\ SameVerb /\ run'.step = "merge" /\ run'.n = run.n
          /\ run'.git = run.git /\ run'.created = run.created /\ ~run'.raced
          /\ run'.seen = settings
      BY <1>1, <1>3, ReadFact DEF Inv, Window
    <2>2. UpProgress'
      BY <1>1, <1>3, <2>1 DEF Inv, UpProgress, SameVerb
    <2>3. Shape' /\ Window'
      BY <1>1, <1>3, <2>1 DEF Inv, Shape, Window
    <2>4. hist.quiet => UNCHANGED tree /\ ~run'.created
      BY <1>1, <2>1 DEF Inv, UpLeft, tree
    <2> QED
      BY <1>1, <1>3, <2>1, <2>2, <2>3, <2>4, UpMoves DEF Inv, Typed
  <1>4. CASE run' = Idle /\ hist' = Interrupted
    BY <1>1, <1>4, Interrupts DEF tree
  <1> QED
    BY <1>2, <1>3, <1>4 DEF readSettings

(* And written with the entries of this release.                           *)
LEMMA SettingsInv ==
    ASSUME Inv, mergeSettings PROVE Inv' /\ (hist.quiet => UNCHANGED tree)
  <1> DEFINE h == addHook(addHook(run.seen.hooks \ Legacy, "prime"), "hub")
  <1>1. /\ run.verb = "up" /\ run.step = "merge" /\ dirs' = dirs \cup {"claude"}
        /\ settings' = [run.seen EXCEPT !.exists = TRUE, !.hooks = h]
        /\ run' = [run EXCEPT !.step = "stamp", !.created = ~run.seen.exists,
                              !.seen = NoFile, !.raced = FALSE]
        /\ UNCHANGED <<bin, git, skill, manifest, state, hook, ignored, hist>>
    BY DEF mergeSettings, At
  <1>2. run.seen \in Settings /\ run.seen.hooks \subseteq Hook /\ NoFile \in Settings
    BY DEF Inv, Typed, Run, Settings, NoFile
  <1>3. /\ run' \in Run /\ SameVerb /\ run'.step = "stamp" /\ run'.n = run.n
        /\ run'.git = run.git /\ run'.created = ~run.seen.exists /\ ~run'.raced
    BY <1>1, <1>2 DEF Inv, Typed, Run, Settings, SameVerb
  <1>4. /\ h \subseteq Hook /\ h \cap Legacy = {}
        /\ h \cap Shapes("prime") # {} /\ h \cap Shapes("hub") # {}
        /\ run.seen.hooks \cap Legacy = {} /\ run.seen.hooks \cap Shapes("prime") # {}
              /\ run.seen.hooks \cap Shapes("hub") # {} => h = run.seen.hooks
    BY <1>2 DEF addHook, Shapes, Hook, Owned, Legacy
  <1> HIDE DEF h
  <1>5. /\ settings' \in Settings /\ settings'.exists /\ settings'.hooks = h
        /\ run.seen.exists /\ h = run.seen.hooks => settings' = run.seen
    BY <1>1, <1>2, <1>4 DEF Settings
  <1>6. hist.quiet => UNCHANGED tree /\ ~run'.created
    <2> SUFFICES ASSUME hist.quiet PROVE UNCHANGED tree /\ ~run'.created
      OBVIOUS
    <2>1. run.flags = hist.flags /\ UpDone(hist.flags) /\ ~hist.meddled
      BY <1>1 DEF Inv, UpLeft
    <2>2. run.seen = settings
      BY <1>1, <2>1 DEF Inv, Window
    <2>3. HooksIn(run.flags) /\ "stealth" \notin run.flags /\ git
      BY <1>1, <2>1 DEF Inv, UpProgress, UpDone
    <2>4. settings.exists /\ h = run.seen.hooks
      BY <1>4, <2>2, <2>3 DEF HooksIn
    <2>5. settings' = settings
      BY <1>5, <2>2, <2>4
    <2> QED
      BY <1>1, <1>3, <2>1, <2>2, <2>4, <2>5 DEF UpDone, tree
  <1>7. UpProgress'
    BY <1>1, <1>3, <1>4, <1>5 DEF Inv, UpProgress, HooksIn, SameVerb
  <1>8. Shape'
    BY <1>1, <1>3, <1>5 DEF Inv, Shape
  <1> QED
    BY <1>1, <1>3, <1>5, <1>6, <1>7, <1>8, UpMoves DEF Inv, Typed

(* The version stamp.                                                      *)
LEMMA StampInv ==
    ASSUME Inv, writeStamp PROVE Inv' /\ (hist.quiet => UNCHANGED tree)
  <1>1. /\ run.verb = "up" /\ run.step = "stamp" /\ Goto("manifest")
        /\ state' = [state EXCEPT !.stamp = bin]
        /\ UNCHANGED <<bin, git, skill, dirs, settings, manifest, hook, ignored, hist>>
    BY DEF writeStamp, At
  <1>2. /\ run' \in Run /\ SameVerb /\ run'.step = "manifest" /\ run'.n = run.n
        /\ run'.created = run.created /\ run'.git = run.git /\ ~run'.raced
    BY <1>1, GotoFact DEF Inv
  <1>3. /\ state' \in [marker : BOOLEAN, stamp : Version \cup {"absent"}]
        /\ state'.marker = state.marker /\ state'.stamp = bin
        /\ state.stamp = bin => state' = state
    BY <1>1 DEF Inv, Typed
  <1>4. hist.quiet => UNCHANGED tree /\ ~run'.created
    BY <1>1, <1>2, <1>3 DEF Inv, UpLeft, UpDone, tree
  <1>5. UpProgress'
    BY <1>1, <1>2, <1>3 DEF Inv, UpProgress, HooksIn, SameVerb
  <1>6. Shape'
    BY <1>1, <1>2 DEF Inv, Shape
  <1> QED
    BY <1>1, <1>2, <1>3, <1>4, <1>5, <1>6, UpMoves DEF Inv, Typed


(* A file of the bundle is looked at.                                      *)
LEMMA ReadSkillsInv ==
    ASSUME Inv, writeBonesSkills PROVE Inv' /\ (hist.quiet => UNCHANGED tree)
  <1>1. /\ run.verb = "up" /\ run.step = "skills" /\ dirs' = dirs \cup {"claude", "skills"}
        /\ UNCHANGED <<bin, git, skill, settings, manifest, state, hook, ignored, hist>>
        /\ \/ skill[run.n] = "absent" /\ Goto("skillwrite")
           \/ skill[run.n] # "absent" /\ NextFile("settings")
    BY DEF writeBonesSkills, At
  <1>2. PICK s \in {"skillwrite", "settings", "skills"} :
          /\ run' \in Run /\ SameVerb /\ run'.git = run.git /\ run'.created = run.created
          /\ ~run'.raced /\ run'.step = s
          /\ \/ s = "skillwrite" /\ run'.n = run.n /\ skill[run.n] = "absent"
             \/ s = "settings" /\ run.n = NFiles /\ run'.n = 1 /\ skill[run.n] # "absent"
             \/ s = "skills" /\ run'.n = run.n + 1 /\ skill[run.n] # "absent"
    BY <1>1, GotoFact, NextFileFact DEF Inv
  <1>3. run.n \in File
    BY DEF Inv, Typed, Run
  <1>4. \A f \in File : /\ f < run.n + 1 => f < run.n \/ f = run.n
                        /\ run.n = NFiles => f < run.n \/ f = run.n
    BY <1>3, FileAssumption DEF File
  <1>5. run'.verb = "up" /\ ~run'.failed /\ run'.flags = run.flags
    BY <1>1, <1>2 DEF SameVerb, Inv, Places
  <1>6. hist.quiet => UNCHANGED tree /\ ~run'.created
    BY <1>1, <1>2, <1>3 DEF Inv, UpLeft, UpDone, tree
  <1>7. UpLeft' /\ DownLeft' /\ hist'.last = "none"
    BY <1>1, <1>2, <1>6, Within
  <1>8. Typed' /\ Places'
    BY <1>1, <1>2, <1>5 DEF Inv, Typed, Places
  <1>9. Shape'
    BY <1>1, <1>2 DEF Inv, Shape
  <1>10. UpProgress' /\ DownProgress'
    BY <1>1, <1>2, <1>4, <1>5 DEF Inv, UpProgress, DownProgress
  <1>11. Certain' /\ OneBinary' /\ Sighted' /\ DownFiles'
    BY <1>1, <1>2, <1>5, <1>7, FilesStay DEF Unrecorded
  <1>12. Window'
    BY <1>1, <1>2, <1>3 DEF Inv, Window, Certain
  <1> QED
    BY <1>6, <1>7, <1>8, <1>9, <1>10, <1>11, <1>12 DEF Inv

(* A missing one is written: the manifest does not have it yet, and this   *)
(* up will record it.                                                      *)
LEMMA WriteSkillInv ==
    ASSUME Inv, materializeSkillFile PROVE Inv' /\ (hist.quiet => UNCHANGED tree)
  <1> DEFINE n == run.n
  <1>1. /\ run.verb = "up" /\ run.step = "skillwrite" /\ NextFile("settings")
        /\ skill' = [skill EXCEPT ![n] = bin]
        /\ UNCHANGED <<bin, git, dirs, settings, manifest, state, hook, ignored, hist>>
    BY DEF materializeSkillFile, At
  <1>2. /\ run' \in Run /\ SameVerb /\ run'.git = run.git /\ run'.created = run.created
        /\ ~run'.raced
        /\ \/ run.n = NFiles /\ run'.n = 1 /\ run'.step = "settings"
           \/ run.n # NFiles /\ run'.n = run.n + 1 /\ run'.step = "skills"
    BY <1>1, NextFileFact DEF Inv
  <1>3. n \in File /\ bin \in {"old", "new"} /\ skill \in [File -> Content]
    BY DEF Inv, Typed, Run, Version
  <1>4. /\ skill' \in [File -> Content]
        /\ \A f \in File : skill'[f] = IF f = n THEN bin ELSE skill[f]
    BY <1>1, <1>3 DEF Content, Version
  <1>5. run'.verb = "up" /\ ~run'.failed /\ run'.flags = run.flags
    BY <1>1, <1>2 DEF SameVerb, Inv, Places
  <1>6. Unrecorded /\ Unrecorded'
    BY <1>1, <1>2, <1>5 DEF Unrecorded
  <1>7. /\ {"claude", "skills"} \subseteq dirs
        /\ hist.doubt = "absent" => manifest.files[n] = "absent"
        /\ ~hist.meddled => skill[n] = "absent"
    BY <1>1 DEF Inv, Window
  <1>8. ~hist.quiet
    BY <1>1, <1>3, <1>7 DEF Inv, UpLeft, UpDone
  <1>9. UpLeft' /\ DownLeft' /\ hist'.last = "none"
    BY <1>1, <1>2, <1>8, Within
  <1>10. Typed' /\ Places' /\ Window'
    BY <1>1, <1>2, <1>4, <1>5 DEF Inv, Typed, Places, Window
  <1>11. Shape'
    BY <1>1, <1>2, <1>4, <1>7 DEF Inv, Shape
  <1>12. \A f \in File : (f < n + 1 => f < n \/ f = n) /\ (n = NFiles => f < n \/ f = n)
    BY <1>3, FileAssumption DEF File
  <1>13. UpProgress' /\ DownProgress'
    <2>1. ~hist.meddled => \A f \in File : f < n \/ f = n => skill'[f] # "absent"
      BY <1>1, <1>3, <1>4 DEF Inv, UpProgress
    <2> QED
      BY <1>1, <1>2, <1>5, <1>7, <1>12, <2>1 DEF Inv, UpProgress, DownProgress
  <1>14. Certain'
    <2> SUFFICES ASSUME hist.doubt = "absent", NEW f \in File
                 PROVE  /\ skill'[f] \in Version =>
                              manifest.files[f] = skill'[f]
                              \/ (skill'[f] = bin /\ manifest.files[f] = "absent")
                        /\ manifest.files[f] # "absent" => skill'[f] # "absent"
      BY <1>1, <1>6 DEF Certain
    <2> QED
      BY <1>1, <1>3, <1>4, <1>7 DEF Inv, Certain
  <1>15. OneBinary' /\ Sighted' /\ DownFiles'
    BY <1>1, <1>4, <1>5, <1>6, <1>9 DEF Inv, OneBinary, Sighted, DownFiles
  <1> QED
    BY <1>8, <1>9, <1>10, <1>11, <1>13, <1>14, <1>15 DEF Inv

(* What is recorded of a file.                                             *)
LEMMA WalkFact ==
    ASSUME Typed, NEW f \in File
    PROVE  /\ walkSkillFile(f) \in Version \cup {"absent"}
           /\ walkSkillFile(f) \in {manifest.files[f], "absent", bin}
           /\ skill[f] = bin => walkSkillFile(f) # "absent"
           /\ walkSkillFile(f) # "absent" => skill[f] # "absent"
           /\ manifest.files[f] # "absent" /\ skill[f] # "absent" =>
                 walkSkillFile(f) = manifest.files[f]
           /\ manifest.files[f] = "absent" => walkSkillFile(f) = IF skill[f] = bin THEN bin
                                                                 ELSE "absent"
  <1>1. bin \in {"old", "new"} /\ manifest.files[f] \in Version \cup {"absent"}
    BY DEF Typed, Manifest, Version
  <1> QED
    BY <1>1 DEF walkSkillFile, Version

(* The manifest as it is written anew.                                     *)
LEMMA RewrittenFact ==
    ASSUME Typed, NEW c \in BOOLEAN
    PROVE  LET m == Rewritten(c)
           IN /\ m \in Manifest /\ m.exists /\ m.adopted = {}
              /\ m.hooks = settings.hooks \cap Owned /\ m.created = (manifest.created \/ c)
              /\ \A f \in File : m.files[f] = walkSkillFile(f)
  <1>1. [f \in File |-> walkSkillFile(f)] \in [File -> Version \cup {"absent"}]
    BY WalkFact
  <1>2. StickyCreated(c) \in BOOLEAN /\ StickyCreated(c) = (manifest.created \/ c)
    BY DEF StickyCreated, Typed, Manifest
  <1> QED
    BY <1>1, <1>2 DEF Rewritten, Manifest

(* After it every file of bones is in the manifest as it is.               *)
LEMMA RewrittenKnows ==
    ASSUME Inv, manifest' \in Manifest, UNCHANGED <<bin, skill>>, ~Unrecorded',
           \A f \in File : manifest'.files[f] = walkSkillFile(f),
           hist'.doubt = hist.doubt, run.verb # "down"
    PROVE  /\ Certain' /\ OneBinary' /\ Sighted'
           /\ bin = "old" => \A f \in File : manifest'.files[f] # "new"
           /\ \A f \in File : skill[f] = bin => manifest'.files[f] # "absent"
  <1>1. bin \in {"old", "new"}
    BY DEF Inv, Typed, Version
  <1>2. ASSUME NEW f \in File
        PROVE  /\ walkSkillFile(f) \in {manifest.files[f], "absent", bin}
               /\ skill[f] = bin => walkSkillFile(f) # "absent"
               /\ walkSkillFile(f) # "absent" => skill[f] # "absent"
               /\ manifest.files[f] # "absent" /\ skill[f] # "absent" =>
                     walkSkillFile(f) = manifest.files[f]
               /\ manifest.files[f] = "absent" =>
                     walkSkillFile(f) = IF skill[f] = bin THEN bin ELSE "absent"
    BY WalkFact DEF Inv
  <1>3. Certain'
    <2> SUFFICES ASSUME hist.doubt = "absent", NEW f \in File
                 PROVE  /\ skill[f] \in Version => walkSkillFile(f) = skill[f]
                        /\ walkSkillFile(f) # "absent" => skill[f] # "absent"
      BY DEF Certain
    <2>1. "absent" \notin Version
      BY DEF Version
    <2> QED
      BY <1>1, <1>2, <2>1 DEF Inv, Certain
  <1>4. OneBinary'
    BY <1>2 DEF Inv, OneBinary
  <1>5. Sighted'
    BY <1>2, <1>4 DEF Sighted, OneBinary
  <1> QED
    BY <1>1, <1>2, <1>3, <1>4, <1>5 DEF Inv, Shape

(* The manifest is written, unless settings.json does not parse.           *)
LEMMA WriteManifestInv ==
    ASSUME Inv, writeManifest PROVE Inv' /\ (hist.quiet => UNCHANGED tree)
  <1>1. /\ run.verb = "up" /\ run.step = "manifest"
        /\ UNCHANGED <<bin, git, skill, settings, state, hook, ignored>>
    BY DEF writeManifest, At
  <1>2. CASE run' = Idle /\ hist' = Interrupted /\ UNCHANGED <<manifest, dirs>>
    BY <1>1, <1>2, Interrupts DEF tree
  <1>3. CASE /\ manifest' = Rewritten(run.created)
             /\ dirs' = dirs \cup {"claude", "skills"}
             /\ Goto("hook") /\ UNCHANGED hist
    <2>1. /\ run' \in Run /\ SameVerb /\ run'.step = "hook" /\ run'.n = run.n
          /\ run'.git = run.git /\ run'.created = run.created /\ ~run'.raced
      BY <1>3, GotoFact DEF Inv
    <2>2. run'.verb = "up" /\ ~run'.failed /\ run'.flags = run.flags /\ ~Unrecorded'
      BY <1>1, <2>1 DEF SameVerb, Inv, Places, Unrecorded
    <2>3. run.created \in BOOLEAN
      BY DEF Inv, Typed, Run
    <2>4. /\ manifest' \in Manifest /\ manifest'.exists /\ manifest'.adopted = {}
          /\ manifest'.hooks = settings.hooks \cap Owned
          /\ manifest'.created = (manifest.created \/ run.created)
          /\ \A f \in File : manifest'.files[f] = walkSkillFile(f)
      BY <1>3, <2>3, RewrittenFact DEF Inv
    <2>5. /\ Certain' /\ OneBinary' /\ Sighted'
          /\ bin = "old" => \A f \in File : manifest'.files[f] # "new"
          /\ \A f \in File : skill[f] = bin => manifest'.files[f] # "absent"
      BY <1>1, <1>3, <2>2, <2>4, RewrittenKnows
    <2>6. hist.quiet => UNCHANGED tree /\ ~run'.created
      <3> SUFFICES ASSUME hist.quiet PROVE UNCHANGED tree /\ ~run'.created
        OBVIOUS
      <3>1. UpDone(hist.flags) /\ ~run.created
        BY <1>1 DEF Inv, UpLeft
      <3>2. manifest \in Manifest
        BY DEF Inv, Typed
      <3>3. ASSUME NEW f \in File PROVE manifest'.files[f] = manifest.files[f]
        BY <2>4, <3>1, WalkFact DEF Inv, UpDone, ManifestFresh
      <3>4. manifest'.files = manifest.files
        BY <2>4, <3>2, <3>3 DEF Manifest
      <3>5. /\ manifest'.created = manifest.created /\ manifest'.exists = manifest.exists
            /\ manifest'.adopted = manifest.adopted /\ manifest'.hooks = manifest.hooks
        BY <2>4, <3>1, <3>2 DEF Manifest, UpDone, ManifestFresh
      <3>6. manifest' = manifest
        BY <2>4, <3>2, <3>4, <3>5 DEF Manifest
      <3> QED
        BY <1>1, <1>3, <2>1, <3>1, <3>6 DEF UpDone, tree
    <2>7. UpLeft' /\ DownLeft' /\ hist'.last = "none"
      BY <1>1, <1>3, <2>1, <2>6, Within
    <2>8. Typed' /\ Places' /\ Window'
      BY <1>1, <1>3, <2>1, <2>2, <2>4 DEF Inv, Typed, Places, Window
    <2>9. Shape'
      BY <1>1, <1>3, <2>1, <2>4, <2>5 DEF Inv, Shape
    <2>10. UpProgress' /\ DownProgress' /\ DownFiles'
      BY <1>1, <1>3, <2>1, <2>2, <2>4, <2>5, <2>7
      DEF Inv, UpProgress, HooksIn, ManifestFresh, DownProgress, DownFiles
    <2> QED
      BY <2>5, <2>6, <2>7, <2>8, <2>9, <2>10 DEF Inv
  <1> QED
    BY <1>2, <1>3 DEF writeManifest

(* The pre-commit hook is looked at.                                       *)
LEMMA InstallInv ==
    ASSUME Inv, Install PROVE Inv' /\ (hist.quiet => UNCHANGED tree)
  <1>1. /\ run.verb = "up" /\ run.step = "hook"
        /\ UNCHANGED <<bin, git, skill, dirs, settings, manifest, state, hook, ignored, hist>>
    BY DEF Install, At, tree
  <1>2. PICK s \in {"ignore", "hookmove", "hookwrite"} :
          /\ Goto(s)
          /\ s = "ignore" => ~git \/ hook.now = "bones"
          /\ s # "ignore" => git /\ hook.now # "bones"
          /\ s = "hookmove" => hook.saved = "none"
          /\ s = "hookwrite" /\ hook.now # "none" => hook.saved # "none"
    BY DEF Install
  <1>3. /\ run' \in Run /\ SameVerb /\ run'.step = s /\ run'.n = run.n
        /\ run'.git = run.git /\ run'.created = run.created /\ ~run'.raced
    BY <1>2, GotoFact DEF Inv
  <1>4. UpProgress'
    BY <1>1, <1>2, <1>3 DEF Inv, UpProgress, HooksIn, ManifestFresh, SameVerb
  <1>5. Shape' /\ Window'
    BY <1>1, <1>2, <1>3 DEF Inv, Shape, Window
  <1>6. hist.quiet => UNCHANGED tree /\ ~run'.created
    BY <1>1, <1>3 DEF Inv, UpLeft, tree
  <1>7. ~Unrecorded
    BY <1>1 DEF Unrecorded
  <1> QED
    BY <1>1, <1>3, <1>4, <1>5, <1>6, <1>7, UpMoves DEF Inv, Typed

(* The operator's is moved aside.                                          *)
LEMMA InstallMoveInv ==
    ASSUME Inv, InstallMove PROVE Inv' /\ (hist.quiet => UNCHANGED tree)
  <1>1. /\ run.verb = "up" /\ run.step = "hookmove"
        /\ UNCHANGED <<bin, git, skill, dirs, settings, manifest, state, ignored>>
    BY DEF InstallMove, At
  <1>2. git /\ hook.now # "bones"
    BY <1>1 DEF Inv, Window
  <1>3. CASE run' = Idle /\ hist' = Interrupted /\ UNCHANGED hook
    BY <1>1, <1>3, Interrupts DEF tree
  <1>4. CASE /\ hook' = [now |-> "none", saved |-> hook.now] /\ Goto("hookwrite")
             /\ UNCHANGED hist
    <2>1. /\ run' \in Run /\ SameVerb /\ run'.step = "hookwrite" /\ run'.n = run.n
          /\ run'.git = run.git /\ run'.created = run.created /\ ~run'.raced
      BY <1>4, GotoFact DEF Inv
    <2>2. /\ hook' \in [now : UserHooks \cup {"none", "bones"}, saved : UserHooks \cup {"none"}]
          /\ hook'.now = "none"
      BY <1>2, <1>4 DEF Inv, Typed
    <2>3. UpProgress'
      BY <1>1, <1>4, <2>1 DEF Inv, UpProgress, HooksIn, ManifestFresh, SameVerb
    <2>4. Shape' /\ Window'
      BY <1>1, <1>2, <1>4, <2>1, <2>2 DEF Inv, Shape, Window
    <2>5. ~hist.quiet
      BY <1>2 DEF Inv, UpLeft, UpDone
    <2>6. ~Unrecorded
      BY <1>1 DEF Unrecorded
    <2> QED
      BY <1>1, <1>4, <2>1, <2>2, <2>3, <2>4, <2>5, <2>6, UpMoves DEF Inv, Typed
  <1> QED
    BY <1>3, <1>4 DEF InstallMove

(* And the bones hook written.                                             *)
LEMMA InstallWriteInv ==
    ASSUME Inv, InstallWrite PROVE Inv' /\ (hist.quiet => UNCHANGED tree)
  <1>1. /\ run.verb = "up" /\ run.step = "hookwrite" /\ Goto("ignore")
        /\ hook' = [hook EXCEPT !.now = "bones"]
        /\ UNCHANGED <<bin, git, skill, dirs, settings, manifest, state, ignored, hist>>
    BY DEF InstallWrite, At
  <1>2. /\ run' \in Run /\ SameVerb /\ run'.step = "ignore" /\ run'.n = run.n
        /\ run'.git = run.git /\ run'.created = run.created /\ ~run'.raced
    BY <1>1, GotoFact DEF Inv
  <1>3. /\ hook' \in [now : UserHooks \cup {"none", "bones"}, saved : UserHooks \cup {"none"}]
        /\ hook'.now = "bones"
    BY <1>1 DEF Inv, Typed
  <1>4. ~Unrecorded
    BY <1>1 DEF Unrecorded
  <1>5. UpProgress'
    BY <1>1, <1>2, <1>3 DEF Inv, UpProgress, HooksIn, ManifestFresh, SameVerb
  <1>6. Shape'
    BY <1>1, <1>2 DEF Inv, Shape
  <1>7. ~hist.quiet
    BY <1>1 DEF Inv, UpLeft, UpDone, Window
  <1> QED
    BY <1>1, <1>2, <1>3, <1>4, <1>5, <1>6, <1>7, UpMoves DEF Inv, Typed

-----------------------------------------------------------------------------
(* A verb that returns nil: an up may have repaired what was in doubt, a   *)
(* down removed it.                                                        *)
Repaired == run.verb = "up" /\ hist.doubt = bin /\ ~hist.meddled
Gone == run.verb = "down" /\ ~manifest.exists /\ \A f \in File : skill[f] \notin Version

(* What is then remembered of the workspace.                               *)
LEMMA CompletedFact ==
    ASSUME Typed
    PROVE  /\ Completed \in Hist /\ Completed.meddled = hist.meddled
           /\ Completed.last = (IF run.flags = {} THEN run.verb ELSE "none")
           /\ Completed.quiet = (run.verb = "up" /\ ~hist.meddled)
           /\ Completed.flags = (IF run.verb = "up" THEN run.flags ELSE {})
           /\ Completed.doubt = (IF Repaired \/ Gone THEN "absent" ELSE hist.doubt)
           /\ Completed.blind = (hist.blind /\ ~Repaired /\ ~Gone)
  <1> DEFINE l == IF run.flags = {} THEN run.verb ELSE "none"
             q == run.verb = "up" /\ ~hist.meddled
             g == IF run.verb = "up" THEN run.flags ELSE {}
             d == IF Repaired \/ Gone THEN "absent" ELSE hist.doubt
             b == hist.blind /\ ~Repaired /\ ~Gone
  <1>1. /\ l \in {"none", "up", "down", "doctor"} /\ q \in BOOLEAN /\ b \in BOOLEAN
        /\ d \in Version \cup {"absent"} /\ g \in SUBSET Flag /\ hist \in Hist
    BY DEF Typed, Hist, Run, Repaired, Gone
  <1>2. Completed = [hist EXCEPT !.last = l, !.quiet = q, !.flags = g, !.doubt = d,
                                 !.blind = b]
    BY DEF Completed, Repaired, Gone
  <1> HIDE DEF l, q, g, d, b
  <1>3. /\ Completed \in Hist /\ Completed.meddled = hist.meddled /\ Completed.last = l
        /\ Completed.quiet = q /\ Completed.flags = g /\ Completed.doubt = d
        /\ Completed.blind = b
    BY <1>1, <1>2 DEF Hist
  <1> QED
    BY <1>3 DEF l, q, g, d, b

(* The last step of up.                                                    *)
LEMMA GitignoreInv ==
    ASSUME Inv, ensureBonesGitignore PROVE Inv' /\ (hist.quiet => UNCHANGED tree)
  <1>1. /\ run.verb = "up" /\ run.step = "ignore"
        /\ UNCHANGED <<bin, git, skill, dirs, settings, manifest, state, hook>>
    BY DEF ensureBonesGitignore, At
  <1>2. /\ run' = Idle
        /\ \/ ignored' = "listed" /\ hist' = Completed
           \/ /\ UNCHANGED ignored /\ ignored # "listed"
              /\ hist' = [Completed EXCEPT !.warned = TRUE, !.quiet = FALSE]
    BY <1>1 DEF ensureBonesGitignore, Finish, Inv, Places
  <1>3. /\ hist' \in Hist /\ hist'.meddled = hist.meddled
        /\ hist'.last = (IF run.flags = {} THEN "up" ELSE "none")
        /\ hist'.quiet => ~hist.meddled /\ ignored' = "listed"
        /\ ignored' = "listed" \/ hist'.warned
        /\ hist'.flags = run.flags
        /\ hist'.doubt = (IF Repaired THEN "absent" ELSE hist.doubt)
        /\ hist'.blind = (hist.blind /\ ~Repaired)
    <2>1. /\ Completed \in Hist /\ Completed.meddled = hist.meddled
          /\ Completed.last = (IF run.flags = {} THEN "up" ELSE "none")
          /\ Completed.quiet = ~hist.meddled /\ Completed.flags = run.flags
          /\ Completed.doubt = (IF Repaired THEN "absent" ELSE hist.doubt)
          /\ Completed.blind = (hist.blind /\ ~Repaired)
      BY <1>1, CompletedFact DEF Inv, Gone
    <2> QED
      BY <1>2, <2>1 DEF Hist
  <1>4. /\ run' \in Run /\ run'.verb = "none" /\ run'.step = "idle" /\ run'.flags = {}
        /\ run'.n = 1 /\ run'.plan = {} /\ ~run'.failed /\ ~run'.raced
    BY <1>2, IdleFact
  <1>5. hist.quiet => UNCHANGED tree
    BY <1>1, <1>2 DEF Inv, UpLeft, UpDone, tree
  <1>6. Typed' /\ Places' /\ Window'
    BY <1>1, <1>2, <1>3, <1>4 DEF Inv, Typed, Places, Window
  <1>7. bin \in {"old", "new"}
    BY DEF Inv, Typed, Version
  <1>8. Shape'
    BY <1>1, <1>3, <1>4, <1>7 DEF Inv, Shape
  <1>9. ~hist.meddled => UpDone(hist.flags)' /\ (hist'.flags = {} => UpDone({})')
    <2>1. state \in [marker : BOOLEAN, stamp : Version \cup {"absent"}]
      BY DEF Inv, Typed
    <2>2. ~hist.meddled => state = [marker |-> TRUE, stamp |-> bin]
      BY <1>1, <2>1 DEF Inv, UpProgress
    <2> QED
      BY <1>1, <1>3, <2>2 DEF Inv, UpProgress, UpDone, HooksIn, ManifestFresh
  <1>10. UpLeft'
    BY <1>2, <1>3, <1>4, <1>9 DEF UpLeft
  <1>11. UpProgress' /\ DownProgress' /\ DownLeft' /\ DownFiles'
    BY <1>3, <1>4 DEF UpProgress, DownProgress, DownLeft, DownFiles
  <1>12. ~Unrecorded
    BY <1>1 DEF Unrecorded
  <1>13. Certain'
    <2>1. CASE Repaired
      <3>1. \A f \in File : /\ skill[f] # "absent"
                            /\ skill[f] = bin => manifest.files[f] # "absent"
        BY <1>1, <2>1 DEF Repaired, Inv, UpProgress, ManifestFresh
      <3>2. \A f \in File : /\ skill[f] \in {bin, "absent", "mine"}
                            /\ manifest.files[f] \in {bin, "absent"}
        BY <2>1 DEF Repaired, Inv, OneBinary
      <3> QED
        BY <1>1, <3>1, <3>2 DEF Certain, Version
    <2>2. CASE ~Repaired
      BY <1>1, <1>3, <1>12, <2>2 DEF Inv, Certain
    <2> QED
      BY <2>1, <2>2
  <1>14. OneBinary' /\ Sighted'
    BY <1>1, <1>3, <1>7, <1>12 DEF Inv, OneBinary, Sighted
  <1> QED
    BY <1>5, <1>6, <1>8, <1>10, <1>11, <1>13, <1>14 DEF Inv

-----------------------------------------------------------------------------
(* down.                                                                   *)

(* A step of down that leaves the skill files and the manifest.            *)
LEMMA DownMoves ==
    ASSUME Inv, run.verb = "down", NEW s \in DownSteps \ {"githook", "unlink", "manifest"},
           run' \in Run, SameVerb, run'.step = s, run'.n = run.n,
           UNCHANGED <<bin, git, skill, manifest, ignored, hist>>,
           dirs' \subseteq {"claude", "skills", "theirs", "legacy"}, settings' \in Settings,
           state' \in [marker : BOOLEAN, stamp : Version \cup {"absent"}],
           hook' \in [now : UserHooks \cup {"none", "bones"}, saved : UserHooks \cup {"none"}],
           Shape', DownProgress', ~run'.raced, s \in Windows => Window',
           s \in ToLegacy \cup {"skills"} => run.step \in ToLegacy,
           s = "hooks" => run.step = "skills" /\ "skills" \notin run.plan,
           s \in {"trim", "claude"} => run.step \in {"hooks", "trim"}
    PROVE  Inv'
  <1>1. run'.verb = "down"
    BY DEF SameVerb
  <1>2. Typed' /\ Window'
    BY DEF Inv, Typed, Window
  <1>3. Places' /\ (s \in ToLegacy \cup {"skills"} => run.n = 1)
    BY <1>1 DEF Inv, Places
  <1>4. UpLeft' /\ DownLeft' /\ hist'.last = "none"
    BY Within
  <1>5. UpProgress'
    BY <1>1 DEF UpProgress
  <1>6. Certain' /\ OneBinary' /\ Sighted' /\ DownFiles'
    <2>1. "skills" \in run.plan => run.step \notin {"skills", "unlink", "manifest"}
      BY DEF Inv, DownFiles, Window
    <2> QED
      BY <1>3, <1>4, <2>1, FilesStayDown
  <1> QED
    BY <1>2, <1>3, <1>4, <1>5, <1>6 DEF Inv

(* What is not in the plan was not there, and is not now.                  *)
LEMMA SkipInv ==
    ASSUME Inv, NEW s, NEW t, Skip(s, t),
           <<s, t>> \in {<<"githook", "bonesdir">>, <<"bonesdir", "legacy">>,
                         <<"legacy", "skills">>, <<"skills", "hooks">>, <<"hooks", "claude">>}
    PROVE  Inv'
  <1>1. /\ run.verb = "down" /\ run.step = s /\ s \notin run.plan /\ Goto(t)
        /\ UNCHANGED <<bin, git, skill, dirs, settings, manifest, state, hook, ignored, hist>>
    BY DEF Skip, At, tree
  <1>2. \/ s = "githook" /\ t = "bonesdir"
        \/ s = "bonesdir" /\ t = "legacy"
        \/ s = "legacy" /\ t = "skills"
        \/ s = "skills" /\ t = "hooks"
        \/ s = "hooks" /\ t = "claude"
    OBVIOUS
  <1>3. run' \in Run /\ SameVerb /\ run'.step = t /\ run'.n = run.n /\ ~run'.raced
    BY <1>1, <1>2, GotoFact DEF Inv
  <1>4. Shape'
    BY <1>1, <1>2, <1>3 DEF Inv, Shape
  <1>5. NoFile.hooks = {}
    BY DEF NoFile
  <1>6. DownProgress'
    BY <1>1, <1>2, <1>3, <1>5 DEF Inv, DownProgress, SameVerb, Shape
  <1> QED
    BY <1>1, <1>2, <1>3, <1>4, <1>6, DownMoves DEF Inv, Typed

(* The hook is looked at: an operator's stays.                             *)
LEMMA UninstallInv == ASSUME Inv, Uninstall PROVE Inv'
  <1>1. /\ run.verb = "down" /\ run.step = "githook" /\ "githook" \in run.plan
        /\ UNCHANGED <<bin, git, skill, dirs, settings, manifest, state, hook, ignored, hist>>
    BY DEF Uninstall, At, tree
  <1>2. PICK s \in {"hookremove", "restore", "bonesdir"} :
          /\ Goto(s)
          /\ s = "hookremove" => hook.now = "bones"
          /\ s = "restore" => hook.now = "none"
          /\ s = "bonesdir" => hook.now # "bones"
    <2>1. CASE hook.now = "bones"
      BY <2>1 DEF Uninstall
    <2>2. CASE hook.now = "none"
      BY <2>2 DEF Uninstall
    <2>3. CASE hook.now # "bones" /\ hook.now # "none"
      BY <2>3 DEF Uninstall
    <2> QED
      BY <2>1, <2>2, <2>3
  <1>3. run' \in Run /\ SameVerb /\ run'.step = s /\ run'.n = run.n /\ ~run'.raced
    BY <1>2, GotoFact DEF Inv
  <1>4. Shape' /\ Window'
    BY <1>1, <1>2, <1>3 DEF Inv, Shape, Window
  <1>5. DownProgress'
    BY <1>1, <1>2, <1>3 DEF Inv, DownProgress, SameVerb
  <1> QED
    BY <1>1, <1>2, <1>3, <1>4, <1>5, DownMoves DEF Inv, Typed

(* The bones hook goes.                                                    *)
LEMMA UninstallRemoveInv == ASSUME Inv, UninstallRemove PROVE Inv'
  <1>1. /\ run.verb = "down" /\ run.step = "hookremove"
        /\ UNCHANGED <<bin, git, skill, dirs, settings, manifest, state, ignored, hist>>
    BY DEF UninstallRemove, At
  <1>2. CASE hook' = [hook EXCEPT !.now = "none"] /\ Goto("restore")
    <2>1. run' \in Run /\ SameVerb /\ run'.step = "restore" /\ run'.n = run.n /\ ~run'.raced
      BY <1>2, GotoFact DEF Inv
    <2>2. /\ hook' \in [now : UserHooks \cup {"none", "bones"}, saved : UserHooks \cup {"none"}]
          /\ hook'.now = "none"
      BY <1>2 DEF Inv, Typed
    <2>3. Shape' /\ Window'
      BY <1>1, <2>1, <2>2 DEF Inv, Shape, Window
    <2>4. DownProgress'
      BY <1>1, <2>1, <2>2 DEF Inv, DownProgress, SameVerb
    <2> QED
      BY <1>1, <2>1, <2>2, <2>3, <2>4, DownMoves DEF Inv, Typed
  <1>3. CASE /\ hook.now = "none" /\ UNCHANGED hook
             /\ run' = [run EXCEPT !.step = "bonesdir", !.failed = TRUE, !.raced = FALSE]
    <2>1. run' \in Run /\ SameVerb /\ run'.step = "bonesdir" /\ run'.n = run.n /\ ~run'.raced
      BY <1>1, <1>3 DEF Inv, Typed, Run, SameVerb
    <2>2. Shape'
      BY <1>1, <1>3, <2>1 DEF Inv, Shape
    <2>3. DownProgress'
      BY <1>1, <1>3, <2>1 DEF Inv, DownProgress, SameVerb
    <2> QED
      BY <1>1, <1>3, <2>1, <2>2, <2>3, DownMoves DEF Inv, Typed
  <1> QED
    BY <1>2, <1>3 DEF UninstallRemove

(* What was moved aside comes back: it is not the bones hook.              *)
LEMMA RestoreInv == ASSUME Inv, restoreSaved PROVE Inv'
  <1>1. /\ run.verb = "down" /\ run.step = "restore" /\ Goto("bonesdir")
        /\ UNCHANGED <<bin, git, skill, dirs, settings, manifest, state, ignored, hist>>
    BY DEF restoreSaved, At
  <1>2. run' \in Run /\ SameVerb /\ run'.step = "bonesdir" /\ run'.n = run.n /\ ~run'.raced
    BY <1>1, GotoFact DEF Inv
  <1>3. ~hist.meddled => hook.now = "none"
    BY <1>1 DEF Inv, Window
  <1>4. /\ hook' \in [now : UserHooks \cup {"none", "bones"}, saved : UserHooks \cup {"none"}]
        /\ ~hist.meddled => hook'.now # "bones"
    BY <1>3, HookAssumption DEF restoreSaved, Inv, Typed
  <1>5. Shape'
    BY <1>1, <1>2 DEF Inv, Shape
  <1>6. DownProgress'
    BY <1>1, <1>2, <1>4 DEF Inv, DownProgress, SameVerb
  <1> QED
    BY <1>1, <1>2, <1>4, <1>5, <1>6, DownMoves DEF Inv, Typed

(* .bones goes.                                                            *)
LEMMA BonesDirInv == ASSUME Inv, RemoveBonesDir PROVE Inv'
  <1>1. /\ run.verb = "down" /\ run.step = "bonesdir" /\ Goto("legacy") /\ state' = Clean
        /\ UNCHANGED <<bin, git, skill, dirs, settings, manifest, hook, ignored, hist>>
    BY DEF RemoveBonesDir, At, Clean
  <1>2. run' \in Run /\ SameVerb /\ run'.step = "legacy" /\ run'.n = run.n /\ ~run'.raced
    BY <1>1, GotoFact DEF Inv
  <1>3. state' \in [marker : BOOLEAN, stamp : Version \cup {"absent"}]
    BY <1>1 DEF Clean
  <1>4. Shape'
    BY <1>1, <1>2 DEF Inv, Shape
  <1>5. DownProgress'
    BY <1>1, <1>2 DEF Inv, DownProgress, SameVerb, Clean
  <1> QED
    BY <1>1, <1>2, <1>3, <1>4, <1>5, DownMoves DEF Inv, Typed

(* Skills of earlier releases go.                                          *)
LEMMA DownLegacyInv == ASSUME Inv, RemoveLegacy PROVE Inv'
  <1>1. /\ run.verb = "down" /\ run.step = "legacy" /\ Goto("skills")
        /\ dirs' = dirs \ {"legacy"}
        /\ UNCHANGED <<bin, git, skill, settings, manifest, state, hook, ignored, hist>>
    BY DEF RemoveLegacy, At
  <1>2. run' \in Run /\ SameVerb /\ run'.step = "skills" /\ run'.n = run.n /\ ~run'.raced
    BY <1>1, GotoFact DEF Inv
  <1>3. Shape'
    BY <1>1, <1>2 DEF Inv, Shape
  <1>4. DownProgress'
    BY <1>1, <1>2 DEF Inv, DownProgress, SameVerb
  <1> QED
    BY <1>1, <1>2, <1>3, <1>4, DownMoves DEF Inv, Typed

(* settings.json is read; one that does not parse is left.                 *)
LEMMA ReadHooksInv == ASSUME Inv, readBonesHooks PROVE Inv'
  <1>1. /\ run.verb = "down" /\ run.step = "hooks" /\ "hooks" \in run.plan
        /\ UNCHANGED <<bin, git, skill, dirs, settings, manifest, state, hook, ignored, hist>>
    BY DEF readBonesHooks, At, tree
  <1>2. ~settings.exists => settings.hooks = {}
    BY DEF Inv, Shape, NoFile
  <1>3. CASE settings.exists /\ settings.valid /\ ReadSettings("trim")
    <2>1. /\ run' \in Run /\ SameVerb /\ run'.step = "trim" /\ run'.n = run.n
          /\ run'.seen = settings /\ ~run'.raced
      BY <1>1, <1>3, ReadFact DEF Inv, Window
    <2>2. Shape' /\ Window'
      BY <1>1, <1>3, <2>1 DEF Inv, Shape, Window, SameVerb
    <2>3. DownProgress'
      BY <1>1, <2>1 DEF Inv, DownProgress, SameVerb
    <2> QED
      BY <1>1, <2>1, <2>2, <2>3, DownMoves DEF Inv, Typed
  <1>4. CASE \/ ~settings.exists /\ Goto("claude")
             \/ run' = [run EXCEPT !.step = "claude", !.failed = TRUE]
    <2>1. /\ run' \in Run /\ SameVerb /\ run'.step = "claude" /\ run'.n = run.n
          /\ ~run'.raced /\ (run'.failed \/ ~settings.exists)
      <3>1. CASE ~settings.exists /\ Goto("claude")
        BY <3>1, GotoFact DEF Inv
      <3>2. CASE run' = [run EXCEPT !.step = "claude", !.failed = TRUE]
        BY <1>1, <3>2 DEF Inv, Typed, Run, SameVerb, Window
      <3> QED
        BY <1>4, <3>1, <3>2
    <2>2. Shape'
      BY <1>1, <2>1 DEF Inv, Shape
    <2>3. DownProgress'
      BY <1>1, <1>2, <2>1 DEF Inv, DownProgress, SameVerb
    <2> QED
      BY <1>1, <2>1, <2>2, <2>3, DownMoves DEF Inv, Typed
  <1> QED
    BY <1>3, <1>4 DEF readBonesHooks

(* The entries of settings.json go, and the file if up made it.            *)
LEMMA HooksInv == ASSUME Inv, removeBonesHooksWith PROVE Inv'
  <1> DEFINE trimmed == [run.seen EXCEPT !.hooks = run.seen.hooks \ (Owned \cup Legacy)]
  <1>1. /\ run.verb = "down" /\ run.step = "trim" /\ Goto("claude")
        /\ settings' \in {NoFile, trimmed}
        /\ UNCHANGED <<bin, git, skill, dirs, manifest, state, hook, ignored, hist>>
    BY DEF removeBonesHooksWith, At
  <1>2. /\ run.seen \in Settings /\ run.seen.exists
        /\ trimmed \in Settings /\ trimmed.hooks \cap (Owned \cup Legacy) = {}
        /\ trimmed.exists
        /\ NoFile \in Settings /\ NoFile.hooks = {} /\ ~NoFile.exists
    BY <1>1 DEF Inv, Typed, Run, Settings, NoFile, Window
  <1> HIDE DEF trimmed
  <1>3. run' \in Run /\ SameVerb /\ run'.step = "claude" /\ run'.n = run.n /\ ~run'.raced
    BY <1>1, GotoFact DEF Inv
  <1>4. settings' \in Settings /\ settings'.hooks \cap (Owned \cup Legacy) = {}
    BY <1>1, <1>2
  <1>5. Shape'
    BY <1>1, <1>2, <1>3 DEF Inv, Shape
  <1>6. "hooks" \in run.plan
    BY <1>1 DEF Inv, Window
  <1>7. DownProgress'
    BY <1>1, <1>3, <1>4, <1>6 DEF Inv, DownProgress, SameVerb
  <1> QED
    BY <1>1, <1>3, <1>4, <1>5, <1>7, DownMoves DEF Inv, Typed

(* down recognises every file of bones it is to remove.                    *)
LEMMA Recognised ==
    ASSUME Inv, run.verb = "down", Told, NEW f \in File, skill[f] \in Version
    PROVE  Unmodified(f)
  <1>1. skill[f] # "absent" /\ ~Unrecorded
    BY DEF Version, Unrecorded
  <1>2. NoManifest.files[f] = "absent"
    BY DEF NoManifest
  <1>3. CASE hist.doubt = "absent"
    <2>1. manifest.files[f] = skill[f]
      BY <1>1, <1>3 DEF Inv, Certain
    <2> QED
      BY <1>1, <1>2, <2>1 DEF Unmodified, Inv, Shape
  <1>4. CASE hist.doubt = bin /\ ~hist.blind
    <2>1. skill[f] = bin
      BY <1>1, <1>4 DEF Inv, OneBinary, Version
    <2> QED
      BY <1>1, <1>4, <2>1 DEF Unmodified, Inv, Sighted
  <1> QED
    BY <1>3, <1>4 DEF Told

(* One file of the bundle is recognised, or left to the operator.          *)
LEMMA ReadSkillInv == ASSUME Inv, removeOneBonesSkill PROVE Inv'
  <1> DEFINE n == run.n
  <1>1. /\ run.verb = "down" /\ run.step = "skills" /\ "skills" \in run.plan
        /\ UNCHANGED <<bin, git, skill, dirs, settings, manifest, state, hook, ignored, hist>>
        /\ \/ Unmodified(n) /\ Goto("unlink")
           \/ ~Unmodified(n) /\ NextFile("manifest")
    BY DEF removeOneBonesSkill, At, tree
  <1>2. PICK s \in {"unlink", "skills", "manifest"} :
          /\ run' \in Run /\ SameVerb /\ run'.failed = run.failed /\ ~run'.raced
          /\ run'.step = s
          /\ \/ s = "unlink" /\ run'.n = n /\ Unmodified(n)
             \/ s = "skills" /\ run'.n = n + 1 /\ ~Unmodified(n)
             \/ s = "manifest" /\ n = NFiles /\ run'.n = 1 /\ ~Unmodified(n)
    BY <1>1, GotoFact, NextFileFact DEF Inv
  <1>3. n \in File
    BY DEF Inv, Typed, Run
  <1>4. run'.verb = "down" /\ run'.plan = run.plan /\ run'.flags = run.flags
    BY <1>1, <1>2 DEF SameVerb
  <1>5. ~Unrecorded /\ ~Unrecorded'
    BY <1>1, <1>4 DEF Unrecorded
  <1>6. UpLeft' /\ DownLeft' /\ hist'.last = "none"
    BY <1>1, <1>2, Within
  <1>7. Typed' /\ Places'
    BY <1>1, <1>2, <1>4 DEF Inv, Typed, Places
  <1>8. Shape'
    BY <1>1, <1>2 DEF Inv, Shape
  <1>9. Window'
    <2>1. s = "unlink" => skill[n] # "absent" /\ AsWritten'
      BY <1>1, <1>2 DEF AsWritten, Unmodified
    <2> QED
      BY <1>1, <1>2, <1>4, <2>1 DEF Inv, Window
  <1>10. UpProgress' /\ DownProgress'
    BY <1>1, <1>2, <1>4 DEF Inv, UpProgress, DownProgress
  <1>11. Certain' /\ OneBinary' /\ Sighted'
    BY <1>1, <1>2, <1>4, <1>5 DEF Inv, Certain, OneBinary, Sighted
  <1>12. \A f \in File : (f < n + 1 => f < n \/ f = n) /\ (n = NFiles => f < n \/ f = n)
    BY <1>3, FileAssumption DEF File
  <1>13. Told /\ s # "unlink" => \A f \in File : f < n \/ f = n => skill[f] \notin Version
    BY <1>1, <1>2, Recognised DEF Inv, DownFiles
  <1>14. DownFiles'
    BY <1>1, <1>2, <1>4, <1>6, <1>12, <1>13 DEF Inv, DownFiles, Told
  <1> QED
    BY <1>6, <1>7, <1>8, <1>9, <1>10, <1>11, <1>14 DEF Inv

(* And removed; if the operator was first, down stops removing files.      *)
LEMMA UnlinkInv == ASSUME Inv, UnlinkSkill PROVE Inv'
  <1> DEFINE n == run.n
  <1>1. /\ run.verb = "down" /\ run.step = "unlink" /\ "skills" \in run.plan
        /\ UNCHANGED <<bin, git, dirs, settings, manifest, state, hook, ignored, hist>>
    BY DEF UnlinkSkill, At, Inv, Window
  <1>2. n \in File /\ skill \in [File -> Content]
    BY DEF Inv, Typed, Run
  <1>3. PICK s \in {"skills", "manifest", "hooks"} :
          /\ run' \in Run /\ SameVerb /\ ~run'.raced /\ run'.step = s
          /\ \/ s = "skills" /\ run'.n = n + 1 /\ skill' = [skill EXCEPT ![n] = "absent"]
             \/ /\ s = "manifest" /\ n = NFiles /\ run'.n = 1
                /\ skill' = [skill EXCEPT ![n] = "absent"]
             \/ /\ s = "hooks" /\ run'.n = 1 /\ run'.failed /\ skill[n] = "absent"
                /\ UNCHANGED skill
    <2>1. CASE skill' = [skill EXCEPT ![n] = "absent"] /\ NextFile("manifest")
      BY <2>1, NextFileFact DEF Inv
    <2>2. CASE /\ skill[n] = "absent" /\ UNCHANGED skill
               /\ run' = [run EXCEPT !.step = "hooks", !.n = 1, !.failed = TRUE, !.raced = FALSE]
      <3>1. 1 \in File
        BY FileAssumption DEF File
      <3> QED
        BY <1>1, <2>2, <3>1 DEF Inv, Typed, Run, SameVerb
    <2> QED
      BY <2>1, <2>2 DEF UnlinkSkill
  <1>4. /\ skill' \in [File -> Content] /\ skill'[n] = "absent"
        /\ \A f \in File : f # n => skill'[f] = skill[f]
        /\ s = "hooks" => UNCHANGED skill
    BY <1>2, <1>3 DEF Content
  <1>5. /\ run'.verb = "down" /\ run'.plan = run.plan /\ run'.flags = run.flags
        /\ run.failed => run'.failed
    BY <1>1, <1>3 DEF SameVerb
  <1>6. ~Unrecorded /\ ~Unrecorded'
    BY <1>1, <1>5 DEF Unrecorded
  <1>7. UpLeft' /\ DownLeft' /\ hist'.last = "none"
    BY <1>1, <1>3, Within
  <1>8. Typed' /\ Places' /\ Window'
    BY <1>1, <1>3, <1>4, <1>5 DEF Inv, Typed, Places, Window
  <1>9. \A f \in File : skill'[f] # "absent" => skill[f] # "absent" /\ skill'[f] = skill[f]
    BY <1>4
  <1>10. Shape'
    BY <1>1, <1>3, <1>9 DEF Inv, Shape
  <1>11. s = "hooks" => hist.meddled /\ hist.doubt # "absent"
    BY <1>1, <1>3 DEF Inv, Window, AsWritten, Unmodified
  <1>12. UpProgress' /\ DownProgress'
    BY <1>1, <1>3, <1>5, <1>11 DEF Inv, UpProgress, DownProgress
  <1>13. "absent" \notin Version /\ bin # "absent"
    BY DEF Inv, Typed, Version
  <1>14. Certain'
    BY <1>1, <1>3, <1>5, <1>6, <1>9, <1>11, <1>13 DEF Inv, Certain
  <1>15. OneBinary' /\ Sighted'
    BY <1>1, <1>6, <1>9, <1>13 DEF Inv, OneBinary, Sighted
  <1>16. \A f \in File : (f < n + 1 => f < n \/ f = n) /\ (n = NFiles => f < n \/ f = n)
    BY <1>2, FileAssumption DEF File
  <1>17. Told => \A f \in File : f < n \/ f = n => skill'[f] \notin Version
    BY <1>1, <1>4, <1>9, <1>13 DEF Inv, DownFiles
  <1>18. DownFiles'
    BY <1>1, <1>3, <1>5, <1>7, <1>16, <1>17 DEF DownFiles, Told
  <1> QED
    BY <1>7, <1>8, <1>10, <1>12, <1>14, <1>15, <1>18 DEF Inv

(* The manifest goes when the files have.                                  *)
LEMMA RemoveManifestInv == ASSUME Inv, RemoveManifest PROVE Inv'
  <1>1. /\ run.verb = "down" /\ run.step = "manifest" /\ Goto("hooks") /\ manifest' = NoManifest
        /\ dirs' = (IF Empty(dirs) THEN dirs \ {"skills"} ELSE dirs)
        /\ UNCHANGED <<bin, git, skill, settings, state, hook, ignored, hist>>
    BY DEF RemoveManifest, At
  <1>2. run' \in Run /\ SameVerb /\ run'.step = "hooks" /\ run'.n = run.n /\ ~run'.raced
    BY <1>1, GotoFact DEF Inv
  <1>3. run'.verb = "down" /\ run'.plan = run.plan /\ run'.flags = run.flags
    BY <1>1, <1>2 DEF SameVerb
  <1>4. /\ NoManifest \in Manifest /\ ~NoManifest.exists
        /\ \A f \in File : NoManifest.files[f] = "absent"
    BY DEF NoManifest, Manifest
  <1>5. UpLeft' /\ DownLeft' /\ hist'.last = "none"
    BY <1>1, <1>2, Within
  <1>6. Typed' /\ Places' /\ Window'
    BY <1>1, <1>2, <1>3, <1>4 DEF Inv, Typed, Places, Window
  <1>7. Shape'
    BY <1>1, <1>2, <1>4 DEF Inv, Shape, Empty
  <1>8. "skills" \in run.plan
    BY <1>1 DEF Inv, DownFiles
  <1>9. UpProgress' /\ DownProgress'
    BY <1>1, <1>2, <1>3, <1>4, <1>8 DEF Inv, UpProgress, DownProgress
  <1>10. Told => \A f \in File : skill[f] \notin Version
    BY <1>1, <1>8 DEF Inv, DownFiles
  <1>11. Certain'
    BY <1>1, <1>4, <1>10 DEF Certain, Told
  <1>12. OneBinary' /\ Sighted'
    BY <1>1, <1>4 DEF Inv, OneBinary, Sighted
  <1>13. DownFiles'
    BY <1>1, <1>2, <1>3, <1>5, <1>10 DEF DownFiles, Told
  <1> QED
    BY <1>5, <1>6, <1>7, <1>9, <1>11, <1>12, <1>13 DEF Inv

(* The last step of down; it returns an error if the entries could not be  *)
(* removed.                                                                *)
LEMMA ClaudeDirInv == ASSUME Inv, RemoveEmptyClaudeDir PROVE Inv'
  <1>1. /\ run.verb = "down" /\ run.step = "claude" /\ Finish
        /\ dirs' \in {dirs, dirs \ {"claude"}}
        /\ UNCHANGED <<bin, git, skill, settings, manifest, state, hook, ignored>>
    BY DEF RemoveEmptyClaudeDir, At
  <1>2. CASE run.failed
    BY <1>1, <1>2, Interrupts DEF Finish
  <1>3. CASE ~run.failed
    <2>1. run' = Idle /\ hist' = Completed
      BY <1>1, <1>3 DEF Finish
    <2>2. /\ hist' \in Hist /\ hist'.meddled = hist.meddled
          /\ hist'.last = (IF run.flags = {} THEN "down" ELSE "none")
          /\ ~hist'.quiet
          /\ hist'.doubt = (IF Gone THEN "absent" ELSE hist.doubt)
          /\ hist'.blind = (hist.blind /\ ~Gone)
      BY <1>1, <2>1, CompletedFact DEF Inv, Repaired
    <2>3. run' \in Run /\ run'.verb = "none" /\ run'.step = "idle" /\ ~run'.raced
      BY <2>1, IdleFact
    <2>4. Typed' /\ Places' /\ Window'
      BY <1>1, <2>1, <2>2, <2>3 DEF Inv, Typed, Places, Window
    <2>5. bin # "absent"
      BY DEF Inv, Typed, Version
    <2>6. Shape'
      BY <1>1, <2>2, <2>3 DEF Inv, Shape
    <2>7. UpProgress' /\ UpLeft' /\ DownProgress'
      BY <2>1, <2>2, <2>3 DEF UpProgress, UpLeft, DownProgress
    <2>8. DownLeft'
      BY <1>1, <1>3, <2>2 DEF Inv, DownProgress, DownLeft
    <2>9. ~Unrecorded
      BY <1>1 DEF Unrecorded
    <2>10. \A f \in File : NoManifest.files[f] = "absent"
      BY DEF NoManifest
    <2>11. Certain'
      <3>1. CASE Gone
        BY <1>1, <2>10, <3>1 DEF Gone, Certain, Inv, Shape
      <3>2. CASE ~Gone
        BY <1>1, <2>2, <2>9, <3>2 DEF Inv, Certain
      <3> QED
        BY <3>1, <3>2
    <2>12. OneBinary' /\ Sighted'
      BY <1>1, <2>2, <2>5, <2>9 DEF Inv, OneBinary, Sighted
    <2>13. DownFiles'
      <3> SUFFICES ASSUME hist'.last = "down", ~hist'.meddled, Told', NEW f \in File
                   PROVE  skill[f] \notin Version
        BY <1>1, <2>3 DEF DownFiles
      <3>1. CASE Gone
        BY <3>1 DEF Gone
      <3>2. CASE ~Gone /\ "skills" \in run.plan
        BY <1>1, <1>3, <2>2, <3>2 DEF Told, Inv, DownFiles
      <3>3. CASE "skills" \notin run.plan
        BY <1>1, <2>2, <3>3 DEF Inv, DownProgress, Shape, Version
      <3> QED
        BY <3>1, <3>2, <3>3
    <2> QED
      BY <2>4, <2>6, <2>7, <2>8, <2>11, <2>12, <2>13 DEF Inv
  <1> QED
    BY <1>2, <1>3

-----------------------------------------------------------------------------
(* doctor.                                                                 *)

(* A step of doctor that leaves the skill files and what the manifest has  *)
(* of them.                                                                *)
LEMMA DoctorMoves ==
    ASSUME Inv, run.verb = "doctor", NEW s \in DoctorSteps,
           run' \in Run, SameVerb, run'.step = s, run'.n = run.n,
           UNCHANGED <<bin, git, skill, dirs, state, hook, ignored, hist>>,
           settings' \in Settings, manifest' \in Manifest,
           manifest'.files = manifest.files, manifest'.exists = manifest.exists, Shape',
           ~run'.raced, s \in Windows => Window'
    PROVE  Inv'
  <1>1. run'.verb = "doctor" /\ ~run'.failed
    BY DEF SameVerb, Inv, Places
  <1>2. Typed' /\ Places' /\ Window'
    BY <1>1 DEF Inv, Typed, Places, Window
  <1>3. UpLeft' /\ DownLeft' /\ hist'.last = "none"
    BY Within
  <1>4. UpProgress' /\ DownProgress' /\ DownFiles'
    BY <1>1, <1>3 DEF UpProgress, DownProgress, DownFiles
  <1>5. ~Unrecorded
    BY DEF Unrecorded
  <1>6. Certain' /\ OneBinary' /\ Sighted'
    BY <1>5 DEF Inv, Certain, OneBinary, Sighted
  <1> QED
    BY <1>2, <1>3, <1>4, <1>6 DEF Inv

(* settings.json is read.                                                  *)
LEMMA ReadMigrateInv == ASSUME Inv, checkBonesScaffoldedHooks PROVE Inv'
  <1>1. /\ run.verb = "doctor" /\ run.step = "migrate"
        /\ UNCHANGED <<bin, git, skill, dirs, settings, manifest, state, hook, ignored, hist>>
    BY DEF checkBonesScaffoldedHooks, At, tree
  <1>2. PICK s \in {"migratewrite", "adopt"} :
          /\ run' \in Run /\ SameVerb /\ run'.step = s /\ run'.n = run.n /\ ~run'.raced
          /\ s = "migratewrite" => run'.seen = settings /\ settings.exists /\ settings.valid
    <2>1. ~run.raced
      BY <1>1 DEF Inv, Window
    <2> QED
      BY <2>1, GotoFact, ReadFact DEF checkBonesScaffoldedHooks, Inv
  <1>3. Shape' /\ Window'
    BY <1>1, <1>2 DEF Inv, Shape, Window
  <1> QED
    BY <1>1, <1>2, <1>3, DoctorMoves DEF Inv, Typed

(* The hooks of an earlier protocol are replaced.                          *)
LEMMA MigrateInv == ASSUME Inv, migrateHookProtocolEntries PROVE Inv'
  <1>1. /\ run.verb = "doctor" /\ run.step = "migratewrite" /\ Goto("restamp")
        /\ UNCHANGED <<bin, git, skill, dirs, manifest, state, hook, ignored, hist>>
    BY DEF migrateHookProtocolEntries, At
  <1>2. run' \in Run /\ SameVerb /\ run'.step = "restamp" /\ run'.n = run.n /\ ~run'.raced
    BY <1>1, GotoFact DEF Inv
  <1>3. /\ run.seen \in Settings /\ run.seen.exists
        /\ Migrated(run.seen.hooks) \subseteq Hook
    BY <1>1 DEF Inv, Typed, Run, Settings, Migrated, addHook, Shapes, Hook, Owned, Window
  <1>4. settings' \in Settings /\ settings'.exists
    BY <1>3 DEF migrateHookProtocolEntries, Settings
  <1>5. Shape'
    BY <1>1, <1>2, <1>4 DEF Inv, Shape
  <1> QED
    BY <1>1, <1>2, <1>4, <1>5, DoctorMoves DEF Inv, Typed

(* And recorded.                                                           *)
LEMMA RefreshInv == ASSUME Inv, refreshManifestHooksIfPresent PROVE Inv'
  <1>1. /\ run.verb = "doctor" /\ run.step = "restamp" /\ Goto("adopt")
        /\ UNCHANGED <<bin, git, skill, dirs, settings, state, hook, ignored, hist>>
    BY DEF refreshManifestHooksIfPresent, At
  <1>2. run' \in Run /\ SameVerb /\ run'.step = "adopt" /\ run'.n = run.n /\ ~run'.raced
    BY <1>1, GotoFact DEF Inv
  <1>3. /\ manifest' \in Manifest
        /\ manifest'.files = manifest.files /\ manifest'.exists = manifest.exists
        /\ manifest.exists \/ manifest' = manifest
    <2>1. settings.hooks \cap Owned \subseteq Owned /\ manifest \in Manifest
      BY DEF Inv, Typed
    <2> QED
      BY <2>1 DEF refreshManifestHooksIfPresent, Manifest
  <1>4. Shape'
    BY <1>1, <1>2, <1>3 DEF Inv, Shape
  <1> QED
    BY <1>1, <1>2, <1>3, <1>4, DoctorMoves DEF Inv, Typed

(* Skills that are not the bundle's are adopted, in a manifest without     *)
(* files where there was none.                                             *)
LEMMA AdoptInv == ASSUME Inv, checkSkillsManifestDrift PROVE Inv'
  <1> DEFINE orphans == (dirs \cap {"theirs", "legacy"}) \ manifest.adopted
  <1>1. /\ run.verb = "doctor" /\ run.step = "adopt" /\ Goto("reset")
        /\ UNCHANGED <<bin, git, skill, dirs, settings, state, hook, ignored>>
    BY DEF checkSkillsManifestDrift, At
  <1>2. /\ run' \in Run /\ SameVerb /\ run'.step = "reset" /\ run'.n = run.n
        /\ run'.verb = "doctor" /\ ~run'.failed /\ ~run'.raced
    BY <1>1, GotoFact DEF Inv, SameVerb, Places
  <1>3. CASE UNCHANGED <<manifest, hist>>
    <2>1. Shape'
      BY <1>1, <1>2, <1>3 DEF Inv, Shape
    <2> QED
      BY <1>1, <1>2, <1>3, <2>1, DoctorMoves DEF Inv, Typed
  <1>4. CASE /\ orphans # {}
             /\ manifest' = [manifest EXCEPT !.exists = TRUE, !.adopted = @ \cup orphans]
             /\ hist' = [hist EXCEPT !.blind = @ \/ ~manifest.exists]
    <2>1. /\ manifest' \in Manifest /\ manifest'.exists /\ manifest'.files = manifest.files
          /\ dirs \cap {"theirs", "legacy"} # {}
      BY <1>4 DEF Inv, Typed, Manifest
    <2> DEFINE b == hist.blind \/ ~manifest.exists
    <2>2. b \in BOOLEAN /\ hist \in Hist
      BY DEF Inv, Typed, Hist, Manifest
    <2>3. hist' = [hist EXCEPT !.blind = b]
      BY <1>4
    <2> HIDE DEF b
    <2>4. /\ hist' \in Hist /\ hist'.blind = b /\ hist'.doubt = hist.doubt
          /\ hist'.last = hist.last /\ hist'.quiet = hist.quiet
      BY <2>2, <2>3 DEF Hist
    <2>5. run # Idle
      BY <1>1, IdleFact
    <2>6. hist.last = "none" /\ ~hist.quiet
      BY <1>1, <2>5 DEF Inv, UpLeft
    <2>7. Typed' /\ Places' /\ Window'
      BY <1>1, <1>2, <2>1, <2>4 DEF Inv, Typed, Places, Window
    <2>8. Shape'
      BY <1>1, <1>2, <2>1, <2>4 DEF Inv, Shape
    <2>9. UpProgress' /\ UpLeft' /\ DownProgress' /\ DownLeft' /\ DownFiles'
      BY <1>2, <2>4, <2>6 DEF UpProgress, UpLeft, DownProgress, DownLeft, DownFiles
    <2>10. ~Unrecorded
      BY <1>1 DEF Unrecorded
    <2>11. Certain' /\ OneBinary'
      BY <1>1, <2>1, <2>4, <2>10 DEF Inv, Certain, OneBinary
    <2>12. Sighted'
      BY <1>1, <2>1, <2>4, <2>10 DEF Inv, Sighted, b
    <2> QED
      BY <2>7, <2>8, <2>9, <2>11, <2>12 DEF Inv
  <1> QED
    BY <1>3, <1>4 DEF checkSkillsManifestDrift

(* doctor ends, with the manifest as it was or written anew.               *)
LEMMA DoctorEnds ==
    ASSUME Inv, run.verb = "doctor", Finish,
           UNCHANGED <<bin, git, skill, dirs, settings, state, hook, ignored>>,
           manifest' \in Manifest, manifest'.exists = manifest.exists,
           \/ manifest' = manifest
           \/ manifest.exists /\ \A f \in File : manifest'.files[f] = walkSkillFile(f)
    PROVE  Inv'
  <1>1. run' = Idle /\ hist' = Completed
    BY DEF Finish, Inv, Places
  <1>2. /\ hist' \in Hist /\ hist'.last \in {"none", "doctor"} /\ ~hist'.quiet
        /\ hist'.doubt = hist.doubt /\ hist'.blind = hist.blind
    BY <1>1, CompletedFact DEF Inv, Repaired, Gone, Typed, Hist
  <1>3. run' \in Run /\ run'.verb = "none" /\ run'.step = "idle" /\ ~run'.raced
    BY <1>1, IdleFact
  <1>4. Typed' /\ Places' /\ Window'
    BY <1>1, <1>2, <1>3 DEF Inv, Typed, Places, Window
  <1>5. UpProgress' /\ UpLeft' /\ DownProgress' /\ DownLeft' /\ DownFiles'
    BY <1>1, <1>2, <1>3 DEF UpProgress, UpLeft, DownProgress, DownLeft, DownFiles
  <1>6. ~Unrecorded /\ ~Unrecorded'
    BY <1>3 DEF Unrecorded
  <1>7. /\ Certain' /\ OneBinary' /\ Sighted'
        /\ bin = "old" => \A f \in File : manifest'.files[f] # "new"
    <2>1. CASE manifest' = manifest
      BY <1>2, <1>6, <2>1 DEF Inv, Certain, OneBinary, Sighted, Shape
    <2>2. CASE \A f \in File : manifest'.files[f] = walkSkillFile(f)
      BY <1>2, <1>6, <2>2, RewrittenKnows
    <2> QED
      BY <2>1, <2>2
  <1>8. Shape'
    BY <1>2, <1>3, <1>7 DEF Inv, Shape
  <1> QED
    BY <1>4, <1>5, <1>7, <1>8 DEF Inv

(* Hooks that drifted from the manifest are to be reset.                   *)
LEMMA ReadResetInv == ASSUME Inv, checkBonesHooksDrift PROVE Inv'
  <1>1. /\ run.verb = "doctor" /\ run.step = "reset"
        /\ UNCHANGED <<bin, git, skill, dirs, settings, manifest, state, hook, ignored>>
    BY DEF checkBonesHooksDrift, At, tree
  <1>2. CASE /\ manifest.exists /\ settings.valid /\ Drifted
             /\ ReadSettings("resetwrite") /\ UNCHANGED hist
    <2>1. /\ run' \in Run /\ SameVerb /\ run'.step = "resetwrite" /\ run'.n = run.n
          /\ ~run'.raced /\ run'.seen = settings
      BY <1>1, <1>2, ReadFact DEF Inv, Window
    <2>2. NoFile.hooks = {}
      BY DEF NoFile
    <2>3. settings.exists
      BY <1>2, <2>2 DEF Inv, Shape, Drifted
    <2>4. Shape' /\ Window'
      BY <1>1, <1>2, <2>1, <2>3 DEF Inv, Shape, Window
    <2> QED
      BY <1>1, <1>2, <2>1, <2>4, DoctorMoves DEF Inv, Typed
  <1>3. CASE Finish
    BY <1>1, <1>3, DoctorEnds DEF Inv, Typed
  <1> QED
    BY <1>2, <1>3 DEF checkBonesHooksDrift

(* And are.                                                                *)
LEMMA ResetInv == ASSUME Inv, resetDriftedHooks PROVE Inv'
  <1>1. /\ run.verb = "doctor" /\ run.step = "resetwrite" /\ Goto("rewrite")
        /\ UNCHANGED <<bin, git, skill, dirs, manifest, state, hook, ignored, hist>>
    BY DEF resetDriftedHooks, At
  <1>2. run' \in Run /\ SameVerb /\ run'.step = "rewrite" /\ run'.n = run.n /\ ~run'.raced
    BY <1>1, GotoFact DEF Inv
  <1>3. run.seen \in Settings /\ run.seen.exists /\ {"prime", "hub"} \subseteq Hook
    BY <1>1 DEF Inv, Typed, Run, Window, Hook, Owned, Shapes
  <1>4. settings' \in Settings /\ settings'.exists
    BY <1>3 DEF resetDriftedHooks, Settings
  <1>5. Shape'
    BY <1>1, <1>2, <1>4 DEF Inv, Shape
  <1> QED
    BY <1>1, <1>2, <1>4, <1>5, DoctorMoves DEF Inv, Typed

(* And the manifest written anew.                                          *)
LEMMA RestampInv == ASSUME Inv, restampManifest PROVE Inv'
  <1>1. /\ run.verb = "doctor" /\ run.step = "rewrite" /\ Finish
        /\ UNCHANGED <<bin, git, skill, dirs, settings, state, hook, ignored>>
        /\ manifest' = Rewritten(FALSE) \/ manifest' = manifest
    BY DEF restampManifest, At
  <1>2. manifest \in Manifest /\ manifest.exists
    BY <1>1 DEF Inv, Typed, Shape
  <1>3. /\ Rewritten(FALSE) \in Manifest /\ Rewritten(FALSE).exists
        /\ \A f \in File : Rewritten(FALSE).files[f] = walkSkillFile(f)
    BY RewrittenFact DEF Inv
  <1>4. Rewritten(FALSE).exists = manifest.exists
    BY <1>2, <1>3 DEF Manifest
  <1> QED
    BY <1>1, <1>2, <1>3, <1>4, DoctorEnds

-----------------------------------------------------------------------------
(* The operator.                                                           *)

(* The operator may come between a read and its write.                     *)
SameRun ==
    /\ run' \in Run /\ run'.verb = run.verb /\ run'.step = run.step /\ run'.flags = run.flags
    /\ run'.n = run.n /\ run'.git = run.git /\ run'.created = run.created
    /\ run'.plan = run.plan /\ run'.failed = run.failed /\ run'.seen = run.seen
    /\ run = Idle => run' = Idle

LEMMA RaceFact ==
    ASSUME Inv, NEW steps \in SUBSET Windows, Race(steps)
    PROVE  /\ SameRun /\ ~Moves
           /\ run'.raced = (run.raced \/ run.step \in steps)
  <1>1. run \in Run /\ run' = [run EXCEPT !.raced = run.raced \/ run.step \in steps]
    BY DEF Race, Inv, Typed
  <1>2. /\ run' \in Run /\ run'.verb = run.verb /\ run'.step = run.step
        /\ run'.flags = run.flags
        /\ run'.n = run.n /\ run'.git = run.git /\ run'.created = run.created
        /\ run'.plan = run.plan /\ run'.failed = run.failed /\ run'.seen = run.seen
        /\ run'.raced = (run.raced \/ run.step \in steps)
    BY <1>1 DEF Run
  <1>3. ASSUME run = Idle PROVE run' = Idle
    <2>1. "idle" \notin steps /\ Idle.step = "idle" /\ ~Idle.raced
      BY IdleFact
    <2>2. run' = [Idle EXCEPT !.raced = FALSE]
      BY <1>1, <1>3, <2>1, IdleFact DEF Run
    <2> QED
      BY <2>2 DEF Idle
  <1> QED
    BY <1>2, <1>3 DEF SameRun, Moves

(* The operator changes what is theirs to change; a skill file becomes     *)
(* theirs.                                                                 *)
LEMMA Meddles ==
    ASSUME Inv, UNCHANGED <<bin, manifest, state>>, SameRun, hist' = Meddled,
           git' \in BOOLEAN, skill' \in [File -> Content],
           dirs' \subseteq {"claude", "skills", "theirs", "legacy"}, settings' \in Settings,
           hook' \in [now : UserHooks \cup {"none", "bones"}, saved : UserHooks \cup {"none"}],
           ignored' \in {"never", "listed", "removed"},
           \A f \in File : skill'[f] \in {skill[f], "mine"}, Shape', Window'
    PROVE  Inv'
  <1>1. /\ hist' \in Hist /\ hist'.last = "none" /\ ~hist'.quiet /\ hist'.meddled
        /\ hist'.doubt = hist.doubt /\ hist'.blind = hist.blind
    BY MeddledFact DEF Inv
  <1>2. Typed' /\ Places'
    BY <1>1 DEF Inv, Typed, Places, SameRun
  <1>3. UpProgress' /\ UpLeft' /\ DownProgress' /\ DownLeft'
    BY <1>1 DEF UpProgress, UpLeft, DownProgress, DownLeft
  <1>4. "mine" \notin Version /\ bin # "mine" /\ (Unrecorded' <=> Unrecorded)
    BY DEF Inv, Typed, Version, Unrecorded, SameRun
  <1>5. Certain' /\ OneBinary' /\ Sighted'
    BY <1>1, <1>4 DEF Inv, Certain, OneBinary, Sighted, SameRun
  <1>6. DownFiles'
    BY <1>1, <1>4 DEF Inv, DownFiles, Told, SameRun
  <1> QED
    BY <1>2, <1>3, <1>5, <1>6 DEF Inv

(* A skill file is edited.                                                 *)
LEMMA EditSkillInv == ASSUME Inv, NEW f \in File, EditSkill(f) PROVE Inv' /\ ~Moves
  <1>1. /\ skill' = [skill EXCEPT ![f] = "mine"] /\ dirs' = dirs \cup {"claude", "skills"}
        /\ hist' = Meddled /\ Race(SkillWrites(f))
        /\ UNCHANGED <<bin, git, settings, manifest, state, hook, ignored>>
    BY DEF EditSkill
  <1>2. /\ skill' \in [File -> Content] /\ \A g \in File : skill'[g] \in {skill[g], "mine"}
        /\ \A g \in File : g # f => skill'[g] = skill[g]
    BY <1>1 DEF Inv, Typed, Content
  <1>3. hist'.doubt = hist.doubt /\ hist'.meddled
    BY <1>1, MeddledFact DEF Inv
  <1>4. /\ SameRun /\ ~Moves
        /\ run'.raced = (run.raced \/ run.step \in SkillWrites(f))
    BY <1>1, RaceFact DEF SkillWrites
  <1>5. Shape'
    BY <1>1, <1>2, <1>3, <1>4 DEF Inv, Shape, SameRun
  <1>6. run.n \in File /\ run'.n = run.n /\ (f # run.n => (AsWritten' <=> AsWritten))
    BY <1>1, <1>2, <1>4 DEF Inv, Typed, Run, SameRun, AsWritten, Unmodified
  <1>7. Window'
    <2>1. /\ run.step \in {"skillwrite", "unlink"} /\ f = run.n => run'.raced
          /\ run'.raced => run.raced \/ run.step \in {"skillwrite", "unlink"}
          /\ f # run.n => (run'.raced <=> run.raced)
      BY <1>4 DEF SkillWrites
    <2>2. /\ skill[run.n] # "absent" => skill'[run.n] # "absent"
          /\ f # run.n => skill'[run.n] = skill[run.n]
      BY <1>1, <1>2, <1>6 DEF Inv, Typed
    <2>3. CASE run.step = "unlink"
      BY <1>1, <1>3, <1>4, <1>6, <2>1, <2>2, <2>3 DEF Inv, Window, SameRun
    <2>4. CASE run.step = "skillwrite"
      BY <1>1, <1>3, <1>4, <1>6, <2>1, <2>2, <2>4 DEF Inv, Window, SameRun
    <2>5. CASE run.step \notin {"skillwrite", "unlink"}
      BY <1>1, <1>3, <1>4, <2>1, <2>5 DEF Inv, Window, SameRun
    <2> QED
      BY <2>3, <2>4, <2>5
  <1> QED
    BY <1>1, <1>2, <1>4, <1>5, <1>7, Meddles DEF Inv, Typed

(* settings.json is edited.                                                *)
LEMMA EditSettingsInv == ASSUME Inv, EditSettings PROVE Inv' /\ ~Moves
  <1>1. /\ hist' = Meddled /\ Race(SettingsWrites)
        /\ dirs' \in {dirs, dirs \cup {"claude"}}
        /\ UNCHANGED <<bin, git, skill, manifest, state, hook, ignored>>
    BY DEF EditSettings
  <1>2. \A c \in {"prime", "hub"} : Shapes(c) \ {c} \subseteq Hook
    BY DEF Shapes, Hook, Owned
  <1>3. settings' \in Settings /\ settings'.exists
    <2>1. CASE settings' = [settings EXCEPT !.exists = TRUE, !.keys = TRUE,
                                            !.hooks = @ \cup {"mine"}]
      BY <2>1 DEF Inv, Typed, Settings, Hook
    <2>2. CASE \E c \in {"prime", "hub"} : c \in settings.hooks /\
                  \E with \in {{}, Shapes(c) \ {c}} :
                     settings' = [settings EXCEPT !.hooks = (@ \ {c}) \cup with]
      <3>1. settings.exists
        BY <2>2 DEF Inv, Shape, NoFile
      <3> QED
        BY <1>2, <2>2, <3>1 DEF Inv, Typed, Settings
    <2>3. CASE settings.exists /\ settings' = [settings EXCEPT !.valid = ~@]
      BY <2>3 DEF Inv, Typed, Settings
    <2> QED
      BY <2>1, <2>2, <2>3 DEF EditSettings
  <1>4. hist'.doubt = hist.doubt /\ hist'.meddled
    BY <1>1, MeddledFact DEF Inv
  <1>5. /\ SameRun /\ ~Moves
        /\ run'.raced = (run.raced \/ run.step \in SettingsWrites)
    BY <1>1, RaceFact
  <1>6. Shape'
    BY <1>1, <1>3, <1>4, <1>5 DEF Inv, Shape, SameRun
  <1>7. AsWritten' <=> AsWritten
    BY <1>1, <1>5 DEF SameRun, AsWritten, Unmodified
  <1>8. Window'
    BY <1>1, <1>3, <1>4, <1>5, <1>7 DEF Inv, Window, SameRun
  <1> QED
    BY <1>1, <1>3, <1>5, <1>6, <1>8, Meddles DEF Inv, Typed

(* A pre-commit hook is written or removed.                                *)
LEMMA WriteHookInv ==
    ASSUME Inv, NEW u \in UserHooks \cup {"none"}, WriteHook(u) PROVE Inv' /\ ~Moves
  <1>1. /\ hook' = [hook EXCEPT !.now = u] /\ hist' = Meddled /\ Race(HookWrites)
        /\ UNCHANGED <<bin, git, skill, dirs, settings, manifest, state, ignored>>
    BY DEF WriteHook
  <1>2. /\ hook' \in [now : UserHooks \cup {"none", "bones"}, saved : UserHooks \cup {"none"}]
        /\ hook'.now # "bones" /\ hook'.saved = hook.saved
    BY <1>1, HookAssumption DEF Inv, Typed
  <1>3. hist'.doubt = hist.doubt /\ hist'.meddled
    BY <1>1, MeddledFact DEF Inv
  <1>4. /\ SameRun /\ ~Moves
        /\ run'.raced = (run.raced \/ run.step \in HookWrites)
    BY <1>1, RaceFact
  <1>5. Shape'
    BY <1>1, <1>3, <1>4 DEF Inv, Shape, SameRun
  <1>6. AsWritten' <=> AsWritten
    BY <1>1, <1>4 DEF SameRun, AsWritten, Unmodified
  <1>7. Window'
    BY <1>1, <1>2, <1>3, <1>4, <1>6 DEF Inv, Window, SameRun
  <1> QED
    BY <1>1, <1>2, <1>4, <1>5, <1>7, Meddles DEF Inv, Typed

(* The line of .gitignore is removed, or git comes.                        *)
LEMMA IgnoreOrGitInv == ASSUME Inv, RemoveIgnore \/ GitInit PROVE Inv' /\ ~Moves
  <1>1. /\ hist' = Meddled /\ git' \in BOOLEAN /\ (git => git')
        /\ ignored' \in {"never", "listed", "removed"}
        /\ UNCHANGED <<bin, skill, dirs, settings, manifest, state, hook, run>>
    BY DEF RemoveIgnore, GitInit, tree, Inv, Typed
  <1>2. hist'.doubt = hist.doubt /\ hist'.meddled
    BY <1>1, MeddledFact DEF Inv
  <1>3. SameRun /\ ~Moves
    BY <1>1 DEF SameRun, Moves, Inv, Typed
  <1>4. Shape'
    BY <1>1, <1>2 DEF Inv, Shape
  <1>5. AsWritten' <=> AsWritten
    BY <1>1 DEF AsWritten, Unmodified
  <1>6. Window'
    BY <1>1, <1>2, <1>5 DEF Inv, Window
  <1> QED
    BY <1>1, <1>3, <1>4, <1>6, Meddles DEF Inv, Typed

(* A skill file is deleted: what the manifest has is in doubt.             *)
LEMMA DeleteSkillInv == ASSUME Inv, NEW f \in File, DeleteSkill(f) PROVE Inv' /\ ~Moves
  <1>1. /\ skill' = [skill EXCEPT ![f] = "absent"] /\ Race(SkillWrites(f))
        /\ UNCHANGED <<bin, git, dirs, settings, manifest, state, hook, ignored>>
    BY DEF DeleteSkill
  <1>2. /\ skill' \in [File -> Content] /\ \A g \in File : skill'[g] \in {skill[g], "absent"}
        /\ \A g \in File : g # f => skill'[g] = skill[g]
    BY <1>1 DEF Inv, Typed, Content
  <1>3. Oldest \in {"old", bin} /\ bin \in {"old", "new"} /\ Oldest \in Version
    BY DEF Oldest, Inv, Typed, Version
  <1>4. /\ hist' \in Hist /\ hist'.last = "none" /\ ~hist'.quiet /\ hist'.meddled
        /\ hist'.doubt = (IF hist.doubt = "absent" THEN Oldest ELSE hist.doubt)
        /\ hist'.blind = hist.blind
    <2>1. /\ Meddled \in Hist /\ Meddled.last = "none" /\ ~Meddled.quiet /\ Meddled.meddled
          /\ Meddled.doubt = hist.doubt /\ Meddled.blind = hist.blind
      BY MeddledFact DEF Inv
    <2>2. hist' = [Meddled EXCEPT !.doubt = IF hist.doubt = "absent" THEN Oldest ELSE hist.doubt]
      BY <2>1 DEF DeleteSkill
    <2> HIDE DEF Meddled
    <2> QED
      BY <1>3, <2>1, <2>2 DEF Hist
  <1>5. /\ SameRun /\ ~Moves
        /\ run'.raced = (run.raced \/ run.step \in SkillWrites(f))
    BY <1>1, RaceFact DEF SkillWrites
  <1>6. Typed' /\ Places'
    BY <1>1, <1>2, <1>4, <1>5 DEF Inv, Typed, Places, SameRun
  <1>7. UpProgress' /\ UpLeft' /\ DownProgress' /\ DownLeft'
    BY <1>4 DEF UpProgress, UpLeft, DownProgress, DownLeft
  <1>8. Shape'
    BY <1>1, <1>2, <1>3, <1>4, <1>5 DEF Inv, Shape, SameRun
  <1>9. hist'.doubt # "absent" /\ "absent" \notin Version /\ (Unrecorded' <=> Unrecorded)
    BY <1>3, <1>4, <1>5 DEF Version, Unrecorded, SameRun
  <1>10. Certain'
    BY <1>9 DEF Certain
  <1>11. hist'.doubt = bin /\ hist.doubt # bin => hist.doubt = "absent" /\ Oldest = bin
    BY <1>4
  <1>12. Oldest = bin => \A g \in File : manifest.files[g] \in {bin, "absent"}
    BY OldestFact DEF Inv
  <1>13. \A g \in File : skill[g] \in Content
    BY DEF Inv, Typed
  <1>14. OneBinary'
    BY <1>1, <1>2, <1>3, <1>11, <1>12, <1>13 DEF Inv, OneBinary, Certain, Content, Version
  <1>15. Sighted'
    BY <1>1, <1>2, <1>3, <1>4, <1>9, <1>11 DEF Inv, Sighted, Certain, Version
  <1>16. Told' => Told
    BY <1>1, <1>4, <1>9, <1>11 DEF Told
  <1>17. DownFiles'
    BY <1>1, <1>2, <1>4, <1>5, <1>9, <1>16 DEF Inv, DownFiles, SameRun
  <1>18. run.n \in File /\ run'.n = run.n /\ (f # run.n => (AsWritten' <=> AsWritten))
    BY <1>1, <1>2, <1>5 DEF Inv, Typed, Run, SameRun, AsWritten, Unmodified
  <1>19. Window'
    BY <1>1, <1>2, <1>4, <1>5, <1>9, <1>18 DEF Inv, Window, SameRun, SkillWrites
  <1> QED
    BY <1>5, <1>6, <1>7, <1>8, <1>10, <1>14, <1>15, <1>17, <1>19 DEF Inv

(* The binary is upgraded: nothing of the new one is there yet.            *)
LEMMA UpgradeInv == ASSUME Inv, Upgrade PROVE Inv' /\ ~Moves
  <1>1. /\ bin = "old" /\ bin' = "new" /\ run = Idle
        /\ hist' = [hist EXCEPT !.last = "none", !.quiet = FALSE]
        /\ UNCHANGED <<git, skill, dirs, settings, manifest, state, hook, ignored, run>>
    BY DEF Upgrade, tree
  <1>2. /\ hist' \in Hist /\ hist'.last = "none" /\ ~hist'.quiet /\ hist'.doubt = hist.doubt
    BY <1>1 DEF Inv, Typed, Hist
  <1>3. run.verb = "none"
    BY <1>1, IdleFact
  <1>4. Typed' /\ Places' /\ Window' /\ ~Moves
    BY <1>1, <1>2, IdleFact DEF Inv, Typed, Places, Version, Window, Moves
  <1>5. Shape' /\ hist'.doubt # "new"
    BY <1>1, <1>2 DEF Inv, Shape
  <1>6. UpProgress' /\ UpLeft' /\ DownProgress' /\ DownLeft' /\ DownFiles'
    BY <1>1, <1>2, <1>3 DEF UpProgress, UpLeft, DownProgress, DownLeft, DownFiles
  <1>7. Certain' /\ OneBinary' /\ Sighted'
    BY <1>1, <1>2, <1>3, <1>5 DEF Inv, Certain, OneBinary, Sighted, Unrecorded
  <1> QED
    BY <1>4, <1>5, <1>6, <1>7 DEF Inv

-----------------------------------------------------------------------------
(* The invariant holds: it holds at first, and every step keeps it.        *)

(* A fresh workspace, one of an earlier release, or an operator's own.     *)
LEMMA InitInv == Init => Inv
  <1> SUFFICES ASSUME Init PROVE Inv
    OBVIOUS
  <1>1. /\ bin = "old" /\ git \in BOOLEAN /\ skill = [f \in File |-> "absent"]
        /\ manifest = NoManifest /\ state = [marker |-> FALSE, stamp |-> "absent"]
        /\ hook \in [now : UserHooks \cup {"none", "bones"}, saved : UserHooks \cup {"none"}]
        /\ ignored = "never" /\ run = Idle
        /\ hist = [last |-> "none", meddled |-> FALSE, quiet |-> FALSE, flags |-> {},
                   doubt |-> "absent", blind |-> FALSE, warned |-> FALSE]
    BY DEF Init
  <1>2. /\ run \in Run /\ run.verb = "none" /\ run.step = "idle" /\ ~run.raced
    BY <1>1, IdleFact
  <1>3. /\ hist \in Hist /\ hist.last = "none" /\ ~hist.quiet /\ hist.doubt = "absent"
    BY <1>1 DEF Hist, Version
  <1>4. /\ NoManifest \in Manifest /\ ~NoManifest.exists
        /\ \A f \in File : NoManifest.files[f] = "absent"
    BY DEF NoManifest, Manifest
  <1>5. /\ settings \in Settings /\ (~settings.exists => settings = NoFile)
        /\ dirs \subseteq {"claude", "skills", "theirs", "legacy"}
        /\ dirs \cap {"theirs", "legacy"} # {} => "skills" \in dirs
    <2>1. Legacy \subseteq Hook /\ "mine" \in Hook
      BY DEF Hook
    <2>2. CASE dirs = {} /\ settings = NoFile
      BY <2>2 DEF Settings, NoFile
    <2>3. CASE /\ dirs = {"claude", "skills", "legacy"}
               /\ settings = [exists |-> TRUE, valid |-> TRUE, keys |-> FALSE, hooks |-> Legacy]
      BY <2>1, <2>3 DEF Settings
    <2>4. CASE /\ dirs = {"claude", "skills", "theirs"}
               /\ settings = [exists |-> TRUE, valid |-> TRUE, keys |-> TRUE, hooks |-> {"mine"}]
      BY <2>1, <2>4 DEF Settings
    <2> QED
      BY <2>2, <2>3, <2>4 DEF Init
  <1>6. Typed
    BY <1>1, <1>2, <1>3, <1>4, <1>5 DEF Typed, Version, Content
  <1>7. Places /\ Shape /\ Window
    BY <1>1, <1>2, <1>3, <1>4, <1>5 DEF Places, Shape, Window
  <1>8. UpProgress /\ UpLeft /\ DownProgress /\ DownLeft /\ DownFiles
    BY <1>2, <1>3 DEF UpProgress, UpLeft, DownProgress, DownLeft, DownFiles
  <1>9. Certain /\ OneBinary /\ Sighted
    BY <1>1, <1>3, <1>4 DEF Certain, OneBinary, Sighted, Version
  <1> QED
    BY <1>6, <1>7, <1>8, <1>9 DEF Inv

(* A step of up; one that repeats the last up changes nothing.             *)
LEMMA UpStep ==
    ASSUME Inv, Up PROVE Inv' /\ (run.verb = "up" /\ hist.quiet => UNCHANGED tree)
  <1>1. CASE \E flags \in Flags("up") : StartUp(flags)
    <2>1. PICK flags : Start("up", flags, "init", Idle)
      BY <1>1 DEF StartUp
    <2>2. Inv'
      BY <2>1, StartInv
    <2>3. run.verb = "none"
      BY <2>1, IdleFact DEF Start
    <2> QED
      BY <2>2, <2>3
  <1>2. CASE initOrJoinWorkspace \/ removeLegacyBonesSkills
    BY <1>2, InitWorkspaceInv, LegacySkillsInv
  <1>3. CASE writeBonesSkills \/ materializeSkillFile
    BY <1>3, ReadSkillsInv, WriteSkillInv
  <1>4. CASE readSettings \/ mergeSettings \/ writeStamp \/ writeManifest
    BY <1>4, ReadSettingsInv, SettingsInv, StampInv, WriteManifestInv
  <1>5. CASE Install \/ InstallMove \/ InstallWrite \/ ensureBonesGitignore
    BY <1>5, InstallInv, InstallMoveInv, InstallWriteInv, GitignoreInv
  <1> QED
    BY <1>1, <1>2, <1>3, <1>4, <1>5 DEF Up

(* A step of down.                                                         *)
LEMMA DownStep == ASSUME Inv, Down PROVE Inv' /\ run.verb # "up"
  <1>1. CASE \E flags \in Flags("down") : StartDown(flags)
    <2>1. run = Idle
      BY <1>1 DEF StartDown, Start
    <2>2. Inv'
      BY <1>1, StartDownInv
    <2> QED
      BY <2>1, <2>2, IdleFact
  <1>2. CASE Skip("githook", "bonesdir")
    BY <1>2, SkipInv DEF Skip, At
  <1>3. CASE Skip("bonesdir", "legacy")
    BY <1>3, SkipInv DEF Skip, At
  <1>4. CASE Skip("legacy", "skills")
    BY <1>4, SkipInv DEF Skip, At
  <1>5. CASE Skip("skills", "hooks")
    BY <1>5, SkipInv DEF Skip, At
  <1>6. CASE Skip("hooks", "claude")
    BY <1>6, SkipInv DEF Skip, At
  <1>7. CASE Uninstall \/ UninstallRemove \/ restoreSaved
    BY <1>7, UninstallInv, UninstallRemoveInv, RestoreInv
    DEF Uninstall, UninstallRemove, restoreSaved, At
  <1>8. CASE RemoveBonesDir \/ RemoveLegacy
    BY <1>8, BonesDirInv, DownLegacyInv DEF RemoveBonesDir, RemoveLegacy, At
  <1>9. CASE removeOneBonesSkill \/ UnlinkSkill \/ RemoveManifest
    BY <1>9, ReadSkillInv, UnlinkInv, RemoveManifestInv
    DEF removeOneBonesSkill, UnlinkSkill, RemoveManifest, At
  <1>10. CASE readBonesHooks \/ removeBonesHooksWith \/ RemoveEmptyClaudeDir
    BY <1>10, ReadHooksInv, HooksInv, ClaudeDirInv
    DEF readBonesHooks, removeBonesHooksWith, RemoveEmptyClaudeDir, At
  <1> QED
    BY <1>1, <1>2, <1>3, <1>4, <1>5, <1>6, <1>7, <1>8, <1>9, <1>10 DEF Down

(* A step of doctor.                                                       *)
LEMMA DoctorStep == ASSUME Inv, Doctor PROVE Inv' /\ run.verb # "up"
  <1>1. CASE \E flags \in Flags("doctor") : StartDoctor(flags)
    <2>1. PICK flags : Start("doctor", flags, "migrate", Idle)
      BY <1>1 DEF StartDoctor
    <2>2. Inv'
      BY <2>1, StartInv
    <2> QED
      BY <2>1, <2>2, IdleFact DEF Start
  <1>2. CASE checkBonesScaffoldedHooks \/ migrateHookProtocolEntries
    BY <1>2, ReadMigrateInv, MigrateInv
    DEF checkBonesScaffoldedHooks, migrateHookProtocolEntries, At
  <1>3. CASE refreshManifestHooksIfPresent
    BY <1>3, RefreshInv DEF refreshManifestHooksIfPresent, At
  <1>4. CASE checkSkillsManifestDrift
    BY <1>4, AdoptInv DEF checkSkillsManifestDrift, At
  <1>5. CASE checkBonesHooksDrift \/ resetDriftedHooks
    BY <1>5, ReadResetInv, ResetInv DEF checkBonesHooksDrift, resetDriftedHooks, At
  <1>6. CASE restampManifest
    BY <1>6, RestampInv DEF restampManifest, At
  <1> QED
    BY <1>1, <1>2, <1>3, <1>4, <1>5, <1>6 DEF Doctor

(* A step of the operator: no verb moves.                                  *)
LEMMA OperatorStep == ASSUME Inv, Operator PROVE Inv' /\ ~Moves
  <1>1. CASE \E f \in File : EditSkill(f) \/ DeleteSkill(f)
    BY <1>1, EditSkillInv, DeleteSkillInv
  <1>2. CASE EditSettings
    BY <1>2, EditSettingsInv
  <1>3. CASE RemoveIgnore \/ GitInit
    BY <1>3, IgnoreOrGitInv
  <1>4. CASE Upgrade
    BY <1>4, UpgradeInv
  <1>5. CASE \E u \in UserHooks \cup {"none"} : WriteHook(u)
    BY <1>5, WriteHookInv
  <1> QED
    BY <1>1, <1>2, <1>3, <1>4, <1>5 DEF Operator

(* A verb is killed between two of its file operations.                    *)
LEMMA KilledInv == ASSUME Inv, Killed PROVE Inv'
  <1>1. /\ run # Idle /\ run' = Idle /\ hist' = Interrupted
        /\ UNCHANGED <<bin, git, skill, dirs, settings, manifest, state, hook, ignored>>
    BY DEF Killed, tree
  <1>2. run.verb # "none"
    BY <1>1 DEF Inv, Places
  <1> QED
    BY <1>1, <1>2, Interrupts

(* Any step.                                                               *)
LEMMA NextInv == ASSUME Inv, [Next]_vars PROVE Inv'
  <1>1. CASE Next
    BY <1>1, UpStep, DownStep, DoctorStep, OperatorStep, KilledInv DEF Next
  <1>2. CASE UNCHANGED vars
    <2>1. UNCHANGED <<bin, git, skill, dirs, settings, manifest, state, hook, ignored, run, hist>>
      BY <1>2 DEF vars, tree
    <2>2. Typed' /\ Places' /\ Shape'
      BY <2>1 DEF Inv, Typed, Places, Shape
    <2>3. Window'
      BY <2>1 DEF Inv, Window, AsWritten, Unmodified
    <2>4. UpProgress' /\ UpLeft'
      BY <2>1 DEF Inv, UpProgress, UpLeft, UpDone, HooksIn, ManifestFresh
    <2>5. DownProgress' /\ DownLeft' /\ DownFiles'
      BY <2>1 DEF Inv, DownProgress, DownLeft, DownFiles, Told
    <2>6. Certain' /\ OneBinary' /\ Sighted'
      BY <2>1 DEF Inv, Certain, OneBinary, Sighted, Unrecorded
    <2> QED
      BY <2>2, <2>3, <2>4, <2>5, <2>6 DEF Inv
  <1> QED
    BY <1>1, <1>2

(* The inductive invariant.                                                *)
THEOREM InvHolds == Spec => []Inv
  <1>1. Init => Inv
    BY InitInv
  <1>2. Inv /\ [Next]_vars => Inv'
    BY NextInv
  <1> QED
    BY <1>1, <1>2, PTL DEF Spec

(* The types of the workspace's files: the manifest never records the      *)
(* bytes of the operator as bones' own.                                    *)
THEOREM TypeCorrect == Spec => []TypeOK
  <1>1. Inv => TypeOK
    BY DEF Inv, Typed, TypeOK, Hist
  <1> QED
    BY <1>1, InvHolds, PTL

(* However many files the bundle has, whatever verbs were killed or failed *)
(* and whatever the operator did before: an up that returns nil leaves the *)
(* whole scaffold, its line in .gitignore too unless it warned of it.      *)
THEOREM UpsConverge == Spec => []UpConverges
  <1>1. Inv => UpConverges
    <2> SUFFICES ASSUME Inv, hist.last = "up", ~hist.meddled
                 PROVE  UpDone({}) /\ (ignored = "listed" \/ hist.warned)
      BY DEF UpConverges, UpDone, HooksIn, ManifestFresh
    <2> QED
      BY DEF Inv, UpLeft
  <1> QED
    BY <1>1, InvHolds, PTL

(* And a down that returns nil leaves nothing of bones, unless the binary  *)
(* was upgraded over an interruption or the manifest is not of the up that *)
(* was interrupted.                                                        *)
THEOREM DownsRemoveAll == Spec => []DownRemovesAll
  <1>1. Inv => DownRemovesAll
    <2> SUFFICES ASSUME Inv, hist.last = "down", ~hist.meddled, Told
                 PROVE  ~Scaffolded
      BY DEF DownRemovesAll, Told
    <2>1. /\ ~(git /\ hook.now = "bones") /\ state = [marker |-> FALSE, stamp |-> "absent"]
          /\ "legacy" \notin dirs /\ ~manifest.exists
          /\ settings.hooks \cap (Owned \cup Legacy) = {}
      BY DEF Inv, DownLeft, Clean
    <2>2. \A f \in File : skill[f] \notin Version
      BY DEF Inv, DownFiles
    <2> QED
      BY <2>1, <2>2 DEF Scaffolded
  <1> QED
    BY <1>1, InvHolds, PTL

(* An up that repeats the last, with nothing in between, finds all its     *)
(* work done at every step, killed or not.                                 *)
THEOREM UpsAreIdempotent == Spec => UpIdempotent
  <1>1. Inv /\ [Next]_vars => [run.verb = "up" /\ hist.quiet /\ Moves => UNCHANGED tree]_vars
    <2> SUFFICES ASSUME Inv, Next, run.verb = "up", hist.quiet, Moves
                 PROVE  UNCHANGED tree
      OBVIOUS
    <2>1. CASE Killed
      BY <2>1 DEF Killed
    <2> QED
      BY <2>1, UpStep, DownStep, DoctorStep, OperatorStep DEF Next
  <1> QED
    BY <1>1, InvHolds, PTL DEF Spec, UpIdempotent

-----------------------------------------------------------------------------
(* What is the operator's: a step that writes a file finds it as the verb  *)
(* had read it, unless the operator came in between.                       *)

Kept == SkillsKept /\ SettingsKept

(* Steps that leave the skill files and settings.json.                     *)
LEMMA FilesLeft ==
    ASSUME Inv, skill' = skill, settings' = settings, "theirs" \in dirs => "theirs" \in dirs'
    PROVE  Kept
  <1>1. settings.keys => settings.exists
    BY DEF Inv, Shape, NoFile
  <1> QED
    BY <1>1 DEF Kept, SkillsKept, SettingsKept

(* Steps that write settings.json: the other entries stay.                 *)
LEMMA SettingsRewritten ==
    ASSUME Inv, run.step \in SettingsWrites, ~run.raced, skill' = skill,
           "theirs" \in dirs => "theirs" \in dirs', NEW h,
           "mine" \in run.seen.hooks => "mine" \in h,
           NEW e \in BOOLEAN, run.seen.exists => e,
           \/ settings' = [run.seen EXCEPT !.exists = e, !.hooks = h]
           \/ settings' = NoFile /\ ~run.seen.keys /\ h = {}
    PROVE  Kept
  <1>1. settings = run.seen /\ settings.valid /\ settings \in Settings
    BY DEF Inv, Window, Typed
  <1>2. settings.keys => settings.exists
    BY DEF Inv, Shape, NoFile
  <1>3. CASE settings' = [run.seen EXCEPT !.exists = e, !.hooks = h]
    <2>1. settings'.exists = e /\ settings'.keys = settings.keys /\ settings'.hooks = h
      BY <1>1, <1>3 DEF Settings
    <2> QED
      BY <1>1, <1>2, <2>1 DEF Kept, SkillsKept, SettingsKept
  <1>4. CASE settings' = NoFile /\ ~run.seen.keys /\ h = {}
    BY <1>1, <1>4 DEF Kept, SkillsKept, SettingsKept
  <1> QED
    BY <1>3, <1>4

(* up writes a missing file and keeps every entry but those of bones.      *)
LEMMA UpKeeps == ASSUME Inv, Up, ~run.raced PROVE Kept
  <1>1. run \in Run /\ run.seen \in Settings
    BY DEF Inv, Typed, Run
  <1>2. CASE \E flags \in Flags("up") : StartUp(flags)
    BY <1>2, FilesLeft DEF StartUp, Start, tree
  <1>3. CASE initOrJoinWorkspace \/ removeLegacyBonesSkills \/ writeBonesSkills
    BY <1>3, FilesLeft DEF initOrJoinWorkspace, removeLegacyBonesSkills, writeBonesSkills
  <1>4. CASE materializeSkillFile
    <2>1. /\ run.n \in File /\ skill \in [File -> Content] /\ skill[run.n] = "absent"
          /\ settings.keys => settings.exists
      BY <1>4 DEF materializeSkillFile, At, Inv, Typed, Run, Window, Shape, NoFile
    <2>2. UNCHANGED <<settings, dirs>> /\ skill' = [skill EXCEPT ![run.n] = bin]
      BY <1>4 DEF materializeSkillFile
    <2> QED
      BY <2>1, <2>2 DEF Kept, SkillsKept, SettingsKept
  <1>5. CASE mergeSettings
    <2> DEFINE h == addHook(addHook(run.seen.hooks \ Legacy, "prime"), "hub")
    <2>1. /\ run.step \in SettingsWrites /\ UNCHANGED skill /\ dirs \subseteq dirs'
          /\ settings' = [run.seen EXCEPT !.exists = TRUE, !.hooks = h]
      BY <1>5 DEF mergeSettings, At
    <2>2. "mine" \in run.seen.hooks => "mine" \in h
      BY DEF addHook, Legacy
    <2> HIDE DEF h
    <2> QED
      BY <2>1, <2>2, SettingsRewritten
  <1>6. CASE readSettings \/ writeStamp \/ writeManifest
    BY <1>6, FilesLeft DEF readSettings, writeStamp, writeManifest, tree
  <1>7. CASE Install \/ InstallMove \/ InstallWrite \/ ensureBonesGitignore
    BY <1>7, FilesLeft DEF Install, InstallMove, InstallWrite, ensureBonesGitignore, tree
  <1> QED
    BY <1>2, <1>3, <1>4, <1>5, <1>6, <1>7 DEF Up

(* down removes a file only as bones wrote it, and settings.json only when *)
(* nothing else is in it.                                                  *)
LEMMA DownKeeps == ASSUME Inv, Down, ~run.raced PROVE Kept
  <1>1. CASE \E flags \in Flags("down") : StartDown(flags)
    BY <1>1, FilesLeft DEF StartDown, Start, tree
  <1>2. CASE \E s, t \in DownSteps : Skip(s, t)
    BY <1>2, FilesLeft DEF Skip, tree
  <1>3. CASE Uninstall \/ UninstallRemove \/ restoreSaved \/ RemoveBonesDir \/ RemoveLegacy
    BY <1>3, FilesLeft
    DEF Uninstall, UninstallRemove, restoreSaved, RemoveBonesDir, RemoveLegacy, tree
  <1>4. CASE removeOneBonesSkill \/ RemoveManifest \/ readBonesHooks \/ RemoveEmptyClaudeDir
    BY <1>4, FilesLeft
    DEF removeOneBonesSkill, RemoveManifest, readBonesHooks, RemoveEmptyClaudeDir, tree
  <1>5. CASE UnlinkSkill
    <2>1. /\ run.n \in File /\ skill \in [File -> Content] /\ Unmodified(run.n)
          /\ settings.keys => settings.exists
      BY <1>5 DEF UnlinkSkill, At, Inv, Typed, Run, Window, AsWritten, Shape, NoFile
    <2>2. UNCHANGED <<settings, dirs>>
      BY <1>5 DEF UnlinkSkill
    <2>3. skill[run.n] # "mine"
      BY <2>1 DEF Unmodified, Inv, Typed, Manifest, Version
    <2>4. \A f \in File : skill[f] = "mine" => skill'[f] = "mine"
      BY <1>5, <2>1, <2>3 DEF UnlinkSkill
    <2> QED
      BY <2>1, <2>2, <2>4 DEF Kept, SkillsKept, SettingsKept
  <1>6. CASE removeBonesHooksWith
    <2> DEFINE h == run.seen.hooks \ (Owned \cup Legacy)
               trimmed == [run.seen EXCEPT !.hooks = h]
    <2>1. /\ run.step \in SettingsWrites /\ UNCHANGED <<skill, dirs>>
          /\ settings' = IF ~trimmed.keys /\ trimmed.hooks = {} /\ run.created
                         THEN NoFile ELSE trimmed
      BY <1>6 DEF removeBonesHooksWith, At
    <2>2. "mine" \in run.seen.hooks => "mine" \in h
      BY DEF Owned, Legacy, Shapes
    <2>3. run.seen \in Settings
      BY DEF Inv, Typed, Run
    <2> HIDE DEF h
    <2>4. /\ trimmed.keys = run.seen.keys /\ trimmed.hooks = h
          /\ trimmed = [run.seen EXCEPT !.exists = run.seen.exists, !.hooks = h]
          /\ run.seen.exists \in BOOLEAN
      BY <2>3 DEF Settings
    <2> HIDE DEF trimmed
    <2> QED
      BY <2>1, <2>2, <2>4, SettingsRewritten
  <1> QED
    BY <1>1, <1>2, <1>3, <1>4, <1>5, <1>6 DEF Down

(* doctor leaves the entry of the operator and a file that does not parse. *)
LEMMA DoctorKeeps == ASSUME Inv, Doctor, ~run.raced PROVE Kept
  <1>1. run.seen \in Settings
    BY DEF Inv, Typed, Run
  <1>2. CASE \E flags \in Flags("doctor") : StartDoctor(flags)
    BY <1>2, FilesLeft DEF StartDoctor, Start, tree
  <1>3. CASE \/ checkBonesScaffoldedHooks \/ refreshManifestHooksIfPresent
             \/ checkSkillsManifestDrift \/ checkBonesHooksDrift \/ restampManifest
    BY <1>3, FilesLeft
    DEF checkBonesScaffoldedHooks, refreshManifestHooksIfPresent, checkSkillsManifestDrift,
        checkBonesHooksDrift, restampManifest, tree
  <1>4. ASSUME NEW h, run.step \in SettingsWrites, settings' = [run.seen EXCEPT !.hooks = h],
               "mine" \in run.seen.hooks => "mine" \in h, UNCHANGED <<skill, dirs>>
        PROVE  Kept
    <2>1. /\ settings' = [run.seen EXCEPT !.exists = run.seen.exists, !.hooks = h]
          /\ run.seen.exists \in BOOLEAN
      BY <1>1, <1>4 DEF Settings
    <2> QED
      BY <1>4, <2>1, SettingsRewritten
  <1>5. CASE migrateHookProtocolEntries
    <2>1. "mine" \in run.seen.hooks => "mine" \in Migrated(run.seen.hooks)
      BY DEF Migrated, addHook
    <2> QED
      BY <1>4, <1>5, <2>1 DEF migrateHookProtocolEntries, At
  <1>6. CASE resetDriftedHooks
    <2>1. "mine" \in run.seen.hooks => "mine" \in (run.seen.hooks \ Owned) \cup {"prime", "hub"}
      BY DEF Owned, Shapes
    <2> QED
      BY <1>4, <1>6, <2>1 DEF resetDriftedHooks, At
  <1> QED
    BY <1>2, <1>3, <1>5, <1>6 DEF Doctor

(* Steps of verbs that write .git/hooks.                                   *)
HookSteps == Install \/ InstallMove \/ InstallWrite \/ UninstallRemove \/ restoreSaved

LEMMA HookLeft == ASSUME Next, ~HookSteps, Moves, Inv PROVE hook' = hook
  <1>1. CASE Up
    BY <1>1 DEF HookSteps, Up, StartUp, Start, tree, initOrJoinWorkspace,
       removeLegacyBonesSkills, writeBonesSkills, materializeSkillFile, readSettings,
       mergeSettings, writeStamp, writeManifest, ensureBonesGitignore
  <1>2. CASE Down
    BY <1>2 DEF HookSteps, Down, StartDown, Start, tree, Skip, Uninstall, RemoveBonesDir,
       RemoveLegacy, removeOneBonesSkill, UnlinkSkill, RemoveManifest, readBonesHooks,
       removeBonesHooksWith, RemoveEmptyClaudeDir
  <1>3. CASE Doctor
    BY <1>3 DEF Doctor, StartDoctor, Start, tree, checkBonesScaffoldedHooks,
       migrateHookProtocolEntries, refreshManifestHooksIfPresent, checkSkillsManifestDrift,
       checkBonesHooksDrift, resetDriftedHooks, restampManifest
  <1>4. CASE Killed
    BY <1>4 DEF Killed, tree
  <1> QED
    BY <1>1, <1>2, <1>3, <1>4, OperatorStep DEF Next

(* A verb's steps keep the operator's pre-commit hook, in its place or     *)
(* moved aside; only an up that finds one beside one saved does not.       *)
LEMMA HooksStay ==
    ASSUME Inv, Next, Moves, ~run.raced, NEW u \in UserHooks
    PROVE  HookKept(u) \/ (At("up", "hookwrite") /\ hook.saved # "none")
  <1>1. /\ u # "none" /\ u # "bones"
        /\ hook \in [now : UserHooks \cup {"none", "bones"}, saved : UserHooks \cup {"none"}]
    BY HookAssumption DEF Inv, Typed
  <1>2. CASE Install
    BY <1>2 DEF Install, tree, HookKept
  <1>3. CASE InstallMove
    <2>1. hook.saved = "none"
      BY <1>3 DEF InstallMove, At, Inv, Window
    <2> QED
      BY <1>1, <1>3, <2>1 DEF InstallMove, HookKept
  <1>4. CASE InstallWrite
    <2>1. At("up", "hookwrite") /\ (hook.now = "none" \/ hook.saved # "none")
      BY <1>4 DEF InstallWrite, At, Inv, Window
    <2>2. hook'.saved = hook.saved
      BY <1>1, <1>4 DEF InstallWrite
    <2> QED
      BY <1>1, <2>1, <2>2 DEF HookKept
  <1>5. CASE UninstallRemove
    <2>1. hook.now = "bones"
      BY <1>5 DEF UninstallRemove, At, Inv, Window
    <2> QED
      BY <1>1, <1>5, <2>1 DEF UninstallRemove, HookKept
  <1>6. CASE restoreSaved
    <2>1. hook.now = "none"
      BY <1>6 DEF restoreSaved, At, Inv, Window
    <2> QED
      BY <1>1, <1>6, <2>1 DEF restoreSaved, HookKept
  <1>7. CASE ~HookSteps
    BY <1>7, HookLeft DEF HookKept
  <1> QED
    BY <1>2, <1>3, <1>4, <1>5, <1>6, <1>7 DEF HookSteps

(* No step of any verb loses a skill file, a skill, a setting or an entry  *)
(* of the operator's that the verb could have seen.                        *)
LEMMA NextKeeps == ASSUME Inv, Next, Moves, ~run.raced PROVE Kept
  <1>1. CASE Killed
    BY <1>1, FilesLeft DEF Killed, tree
  <1> QED
    BY <1>1, UpKeeps, DownKeeps, DoctorKeeps, OperatorStep DEF Next

(* Nothing of the operator's is lost by a verb, but what they write in the *)
(* window between its read of a file and its write, and a hook that an up  *)
(* finds beside one that is moved aside.                                   *)
THEOREM UserContentIsKept == Spec => UserContentKept
  <1>1. Inv /\ [Next]_vars =>
          [Moves =>
             \/ run.raced
             \/ /\ SkillsKept /\ SettingsKept
                /\ \A u \in UserHooks :
                      HookKept(u) \/ (At("up", "hookwrite") /\ hook.saved # "none")]_vars
    <2> SUFFICES ASSUME Inv, Next, Moves, ~run.raced
                 PROVE  /\ Kept
                        /\ \A u \in UserHooks :
                              HookKept(u) \/ (At("up", "hookwrite") /\ hook.saved # "none")
      BY DEF Kept
    <2> QED
      BY NextKeeps, HooksStay
  <1> QED
    BY <1>1, InvHolds, PTL DEF Spec, UserContentKept
=============================================================================
