------------------------------ MODULE Scaffold ------------------------------
(***************************************************************************)
(* What bones writes into an operator's repository and takes out again:    *)
(* `bones up` (scaffoldOrchestrator, the git hook, .gitignore), `bones     *)
(* down` and the repairs of `bones doctor`.  Skill files, settings.json    *)
(* and the pre-commit hook are shared with the operator, who edits them at *)
(* any time; each verb is a sequence of file operations, a read and the    *)
(* write that rests on it two of them, and may be killed between any two;  *)
(* the binary is upgraded under a scaffolded workspace.  What bones may    *)
(* remove it knows from the manifest it writes.                            *)
(*                                                                         *)
(* A file's bytes are those of a binary's bundle or the operator's; a      *)
(* hash stands for the bytes.  The hub, the swarm and the registry, which  *)
(* up and down also touch, are in HubLifecycle and SwarmLease.             *)
(***************************************************************************)
EXTENDS Naturals, FiniteSets

CONSTANTS NFiles,      \* files of the skills bundle, in walk order
          UserHooks,   \* pre-commit hooks the operator may install
          MaxVerbs,    \* bound: verbs run
          MaxEdits,    \* bound: edits by the operator
          MaxFaults    \* bound: verbs killed, steps failing

ASSUME FileAssumption == NFiles \in Nat \ {0}
ASSUME HookAssumption == UserHooks \cap {"none", "bones"} = {}
ASSUME BoundAssumption == MaxVerbs \in Nat /\ MaxEdits \in Nat /\ MaxFaults \in Nat

File == 1..NFiles
Version == {"old", "new"}
Content == Version \cup {"absent", "mine"}

(* Entries of settings.json's hooks: the two bones installs now, the same  *)
(* with a field edited by the operator, those of earlier releases, and one *)
(* of the operator's own.                                                  *)
Shapes(c) == IF c = "prime" THEN {"prime", "primeEdited"} ELSE {"hub", "hubEdited"}
Owned == Shapes("prime") \cup Shapes("hub")
Legacy == {"bootstrap", "shutdown", "primeJson", "primeCompact"}
Hook == Owned \cup Legacy \cup {"mine"}

NoFile == [exists |-> FALSE, valid |-> TRUE, keys |-> FALSE, hooks |-> {}]
Settings == [exists : BOOLEAN, valid : BOOLEAN, keys : BOOLEAN, hooks : SUBSET Hook]

(* files: the hash recorded per skill file, "absent" when it has none.     *)
NoManifest == [exists |-> FALSE, files |-> [f \in File |-> "absent"], hooks |-> {},
               created |-> FALSE, adopted |-> {}]
Manifest == [exists : BOOLEAN, files : [File -> Version \cup {"absent"}],
             hooks : SUBSET Owned, created : BOOLEAN,
             adopted : SUBSET {"theirs", "legacy"}]

VARIABLES
    bin,        \* the bones binary installed
    git,        \* the workspace has a .git
    skill,      \* the bundle's files under .claude/skills
    dirs,       \* which of .claude, .claude/skills, and in it the operator's
                \* own skill and a skill of an earlier release, exist
    settings,   \* .claude/settings.json
    manifest,   \* .claude/skills/.bones-manifest.json
    state,      \* .bones: the agent.id marker and the version stamp
    hook,       \* .git/hooks: pre-commit, and pre-commit.bones-saved
    ignored,    \* .gitignore: "never", "listed" or, by the operator,
                \* "removed" the line .bones/
    run,        \* the verb running: its step, flags and locals; raced: the
                \* operator wrote the file between its read and its write
    hist,       \* what completed last, and what happened to the workspace
    budget

tree == <<skill, dirs, settings, manifest, state, hook, ignored>>
vars == <<bin, git, tree, run, hist, budget>>

Idle == [verb |-> "none", step |-> "idle", flags |-> {}, n |-> 1, git |-> FALSE,
         created |-> FALSE, plan |-> {}, failed |-> FALSE, seen |-> NoFile,
         raced |-> FALSE]

Init ==
    /\ bin = "old" /\ git \in BOOLEAN
    /\ skill = [f \in File |-> "absent"]
    /\ \/ dirs = {} /\ settings = NoFile
       \/ /\ dirs = {"claude", "skills", "legacy"}
          /\ settings = [exists |-> TRUE, valid |-> TRUE, keys |-> FALSE, hooks |-> Legacy]
       \/ /\ dirs = {"claude", "skills", "theirs"}
          /\ settings = [exists |-> TRUE, valid |-> TRUE, keys |-> TRUE, hooks |-> {"mine"}]
    /\ manifest = NoManifest
    /\ state = [marker |-> FALSE, stamp |-> "absent"]
    /\ \E u \in IF git THEN UserHooks \cup {"none"} ELSE {"none"} :
          hook = [now |-> u, saved |-> "none"]
    /\ ignored = "never"
    /\ run = Idle
    /\ hist = [last |-> "none", meddled |-> FALSE, quiet |-> FALSE, flags |-> {},
               doubt |-> "absent", blind |-> FALSE, warned |-> FALSE]
    /\ budget = [verbs |-> MaxVerbs, edits |-> MaxEdits, faults |-> MaxFaults]

-----------------------------------------------------------------------------
(* Control of the one verb that runs.                                      *)

At(verb, step) == run.verb = verb /\ run.step = step

Goto(step) == run' = [run EXCEPT !.step = step, !.seen = NoFile, !.raced = FALSE]

(* settings.json is read, for the write that the next step makes of it.    *)
ReadSettings(step) == run' = [run EXCEPT !.step = step, !.seen = settings]

Flags(verb) ==
    CASE verb = "up" -> SUBSET {"stealth"}
      [] verb = "down" -> SUBSET {"keepskills", "keephooks"}
      [] verb = "doctor" -> SUBSET {"nofix", "reset"}

Start(verb, flags, step, r) ==
    /\ run = Idle /\ budget.verbs > 0 /\ flags \in Flags(verb)
    /\ run' = [r EXCEPT !.verb = verb, !.flags = flags, !.step = step]
    /\ budget' = [budget EXCEPT !.verbs = @ - 1]
    /\ hist' = [hist EXCEPT !.last = "none", !.meddled = FALSE, !.warned = FALSE,
                            !.quiet = @ /\ verb = "up" /\ flags = hist.flags]
    /\ UNCHANGED <<bin, git, tree>>

Oldest == IF \E f \in File : manifest.files[f] = "old" THEN "old" ELSE bin

(* The verb stops before its end: an error, or killed.  doubt is the       *)
(* oldest binary of files that may differ from the manifest; blind that    *)
(* the manifest on disk is not by the up that wrote the files.             *)
Interrupted ==
    [hist EXCEPT !.quiet = FALSE, !.flags = {},
                 !.blind = @ \/ (run.verb = "up" /\ manifest.exists),
                 !.doubt = IF run.verb = "doctor" \/ @ # "absent" THEN @ ELSE Oldest]

(* It returns nil; an up with the binary that was interrupted repairs.     *)
Completed ==
    LET repaired == run.verb = "up" /\ hist.doubt = bin /\ ~hist.meddled
        gone == run.verb = "down" /\ ~manifest.exists /\ \A f \in File : skill[f] \notin Version
    IN [hist EXCEPT !.last = IF run.flags = {} THEN run.verb ELSE "none",
                    !.quiet = run.verb = "up" /\ ~hist.meddled,
                    !.flags = IF run.verb = "up" THEN run.flags ELSE {},
                    !.doubt = IF repaired \/ gone THEN "absent" ELSE @,
                    !.blind = @ /\ ~repaired /\ ~gone]

Finish ==
    /\ run' = Idle
    /\ hist' = IF run.failed THEN Interrupted ELSE Completed

Empty(d) == d \cap {"theirs", "legacy"} = {} /\ \A f \in File : skill[f] = "absent"

-----------------------------------------------------------------------------
(* up                                                                      *)

StartUp(flags) == Start("up", flags, "init", Idle)

(* initOrJoinWorkspace; a second up joins, and the hub may not start.      *)
initOrJoinWorkspace ==
    /\ At("up", "init")
    /\ \/ /\ state' = [state EXCEPT !.marker = TRUE]
          /\ run' = [run EXCEPT !.step = "legacy", !.git = git]
          /\ UNCHANGED <<hist, budget>>
       \/ /\ state.marker /\ budget.faults > 0
          /\ budget' = [budget EXCEPT !.faults = @ - 1]
          /\ run' = Idle /\ hist' = Interrupted
          /\ UNCHANGED state
    /\ UNCHANGED <<bin, git, skill, dirs, settings, manifest, hook, ignored>>

removeLegacyBonesSkills ==
    LET left == dirs \ {"legacy"}
    IN /\ At("up", "legacy")
       /\ dirs' = IF Empty(left) /\ ~manifest.exists THEN left \ {"skills"} ELSE left
       /\ Goto("skills")
       /\ UNCHANGED <<bin, git, skill, settings, manifest, state, hook, ignored, hist, budget>>

NextFile(step) ==
    run' = [run EXCEPT !.step = IF run.n = NFiles THEN step ELSE "skills",
                       !.n = IF run.n = NFiles THEN 1 ELSE @ + 1, !.raced = FALSE]

(* Mutant: the bundle is taken to be there when its directory is.          *)
SkillsIfNew ==
    /\ At("up", "skills")
    /\ IF "skills" \in dirs /\ run.n = 1 THEN Goto("settings")
       ELSE IF skill[run.n] = "absent" THEN Goto("skillwrite") ELSE NextFile("settings")
    /\ dirs' = dirs \cup {"claude", "skills"}
    /\ UNCHANGED <<bin, git, skill, settings, manifest, state, hook, ignored, hist, budget>>

(* A missing file is to be written, any other left as it is.               *)
writeBonesSkills ==
    /\ At("up", "skills")
    /\ dirs' = dirs \cup {"claude", "skills"}
    /\ IF skill[run.n] = "absent" THEN Goto("skillwrite") ELSE NextFile("settings")
    /\ UNCHANGED <<bin, git, skill, settings, manifest, state, hook, ignored, hist, budget>>

materializeSkillFile ==
    /\ At("up", "skillwrite")
    /\ skill' = [skill EXCEPT ![run.n] = bin]
    /\ NextFile("settings")
    /\ UNCHANGED <<bin, git, dirs, settings, manifest, state, hook, ignored, hist, budget>>

(* mergeSettings reads; a file that does not parse ends the up.  Skipped   *)
(* under --stealth and without git.                                        *)
readSettings ==
    /\ At("up", "settings")
    /\ \/ /\ "stealth" \in run.flags \/ ~run.git
          /\ Goto("stamp") /\ UNCHANGED hist
       \/ /\ "stealth" \notin run.flags /\ run.git /\ settings.valid
          /\ ReadSettings("merge") /\ UNCHANGED hist
       \/ /\ "stealth" \notin run.flags /\ run.git /\ ~settings.valid
          /\ run' = Idle /\ hist' = Interrupted
    /\ UNCHANGED <<bin, git, tree, budget>>

addHook(h, c) == IF h \cap Shapes(c) = {} THEN h \cup {c} ELSE h

(* It writes what it read, legacy entries out, the two current ones in.    *)
mergeSettings ==
    /\ At("up", "merge")
    /\ settings' = [run.seen EXCEPT !.exists = TRUE,
                      !.hooks = addHook(addHook(@ \ Legacy, "prime"), "hub")]
    /\ dirs' = dirs \cup {"claude"}
    /\ run' = [run EXCEPT !.step = "stamp", !.created = ~run.seen.exists,
                          !.seen = NoFile, !.raced = FALSE]
    /\ UNCHANGED <<bin, git, skill, manifest, state, hook, ignored, hist, budget>>

writeStamp ==
    /\ At("up", "stamp")
    /\ state' = [state EXCEPT !.stamp = bin]
    /\ Goto("manifest")
    /\ UNCHANGED <<bin, git, skill, dirs, settings, manifest, hook, ignored, hist, budget>>

(* The hash recorded for a file on disk: the one recorded before, or that  *)
(* of the current bundle when these are its bytes; else it is not ours.    *)
walkSkillFile(f) ==
    IF skill[f] = "absent" THEN "absent"
    ELSE IF manifest.files[f] # "absent" THEN manifest.files[f]
    ELSE IF skill[f] = bin THEN bin ELSE "absent"

(* Mutant: only this run's provenance bit.                                 *)
ForgetCreated(created) == created

StickyCreated(created) == manifest.created \/ created

(* writeManifest, from what is on disk; the rows doctor adopted are not    *)
(* carried over.                                                           *)
Rewritten(created) ==
    [exists |-> TRUE, files |-> [f \in File |-> walkSkillFile(f)],
     hooks |-> settings.hooks \cap Owned, created |-> StickyCreated(created),
     adopted |-> {}]

writeManifest ==
    /\ At("up", "manifest")
    /\ IF settings.valid
       THEN /\ manifest' = Rewritten(run.created)
            /\ dirs' = dirs \cup {"claude", "skills"}
            /\ Goto("hook") /\ UNCHANGED hist
       ELSE run' = Idle /\ hist' = Interrupted /\ UNCHANGED <<manifest, dirs>>
    /\ UNCHANGED <<bin, git, skill, settings, state, hook, ignored, budget>>

(* githook.Install reads: an operator's hook is to be moved aside, unless  *)
(* one already is, and then the bones hook written.                        *)
Install ==
    /\ At("up", "hook")
    /\ \/ (~git \/ hook.now = "bones") /\ Goto("ignore")
       \/ /\ git /\ hook.now # "bones"
          /\ Goto(IF hook.now # "none" /\ hook.saved = "none" THEN "hookmove"
                  ELSE "hookwrite")
    /\ UNCHANGED <<bin, git, tree, hist, budget>>

(* The rename moves what is there by now; of no file it fails, and the up. *)
InstallMove ==
    /\ At("up", "hookmove")
    /\ IF hook.now # "none"
       THEN hook' = [now |-> "none", saved |-> hook.now] /\ Goto("hookwrite") /\ UNCHANGED hist
       ELSE run' = Idle /\ hist' = Interrupted /\ UNCHANGED hook
    /\ UNCHANGED <<bin, git, skill, dirs, settings, manifest, state, ignored, budget>>

InstallWrite ==
    /\ At("up", "hookwrite")
    /\ hook' = [hook EXCEPT !.now = "bones"]
    /\ Goto("ignore")
    /\ UNCHANGED <<bin, git, skill, dirs, settings, manifest, state, ignored, hist, budget>>

(* A line that is not there is written; that it cannot be is a warning.    *)
ensureBonesGitignore ==
    /\ At("up", "ignore")
    /\ \/ ignored' = "listed" /\ Finish /\ UNCHANGED budget
       \/ /\ ignored # "listed" /\ budget.faults > 0
          /\ budget' = [budget EXCEPT !.faults = @ - 1]
          /\ run' = Idle /\ hist' = [Completed EXCEPT !.warned = TRUE, !.quiet = FALSE]
          /\ UNCHANGED ignored
    /\ UNCHANGED <<bin, git, skill, dirs, settings, manifest, state, hook>>

-----------------------------------------------------------------------------
(* down: the plan is made first, shown, and then carried out; a step that  *)
(* fails does not stop the others.                                         *)

planDown(flags) ==
    {a \in {"githook", "bonesdir", "legacy", "skills", "hooks", "claude"} :
        CASE a = "githook" -> git /\ hook.now = "bones"
          [] a = "bonesdir" -> state.marker \/ state.stamp # "absent"
          [] a = "legacy" -> "legacy" \in dirs /\ "keepskills" \notin flags
          [] a = "skills" -> "skills" \in dirs /\ "keepskills" \notin flags
          [] a = "hooks" -> settings.exists /\ "keephooks" \notin flags
          [] a = "claude" -> "claude" \in dirs /\ flags = {}}

StartDown(flags) ==
    /\ planDown(flags) # {}
    /\ Start("down", flags, "githook",
             [Idle EXCEPT !.plan = planDown(flags),
                          !.created = manifest.exists /\ manifest.created])

Skip(step, next) ==
    /\ At("down", step) /\ step \notin run.plan
    /\ Goto(next)
    /\ UNCHANGED <<bin, git, tree, hist, budget>>

(* githook.Uninstall reads, removes what is there by now, and restores the *)
(* saved hook over what is there by then.                                  *)
Uninstall ==
    /\ At("down", "githook") /\ "githook" \in run.plan
    /\ Goto(CASE hook.now = "bones" -> "hookremove"
              [] hook.now = "none" -> "restore"
              [] OTHER -> "bonesdir")
    /\ UNCHANGED <<bin, git, tree, hist, budget>>

UninstallRemove ==
    /\ At("down", "hookremove")
    /\ IF hook.now # "none"
       THEN hook' = [hook EXCEPT !.now = "none"] /\ Goto("restore")
       ELSE /\ run' = [run EXCEPT !.step = "bonesdir", !.failed = TRUE, !.raced = FALSE]
            /\ UNCHANGED hook
    /\ UNCHANGED <<bin, git, skill, dirs, settings, manifest, state, ignored, hist, budget>>

restoreSaved ==
    /\ At("down", "restore")
    /\ hook' = IF hook.saved # "none" THEN [now |-> hook.saved, saved |-> "none"] ELSE hook
    /\ Goto("bonesdir")
    /\ UNCHANGED <<bin, git, skill, dirs, settings, manifest, state, ignored, hist, budget>>

RemoveBonesDir ==
    /\ At("down", "bonesdir") /\ "bonesdir" \in run.plan
    /\ state' = [marker |-> FALSE, stamp |-> "absent"]
    /\ Goto("legacy")
    /\ UNCHANGED <<bin, git, skill, dirs, settings, manifest, hook, ignored, hist, budget>>

RemoveLegacy ==
    /\ At("down", "legacy") /\ "legacy" \in run.plan
    /\ dirs' = dirs \ {"legacy"}
    /\ Goto("skills")
    /\ UNCHANGED <<bin, git, skill, settings, manifest, state, hook, ignored, hist, budget>>

(* Mutants: only files of the current bundle are recognised; every file    *)
(* the manifest names goes.                                                *)
IfInBundle(f) == skill[f] = bin
IfListed(f) == IF manifest.exists THEN manifest.files[f] # "absent" ELSE skill[f] = bin

(* The file is as bones wrote it: by the manifest, or without one by the   *)
(* current bundle.                                                         *)
Unmodified(f) ==
    /\ skill[f] # "absent"
    /\ skill[f] = IF manifest.exists THEN manifest.files[f] ELSE bin

removeOneBonesSkill ==
    /\ At("down", "skills") /\ "skills" \in run.plan
    /\ IF Unmodified(run.n) THEN Goto("unlink") ELSE NextFile("manifest")
    /\ UNCHANGED <<bin, git, tree, hist, budget>>

(* os.Remove of what is there by now; of no file it fails, and ends the    *)
(* removal of the skills.                                                  *)
UnlinkSkill ==
    /\ At("down", "unlink")
    /\ IF skill[run.n] # "absent"
       THEN skill' = [skill EXCEPT ![run.n] = "absent"] /\ NextFile("manifest")
       ELSE /\ run' = [run EXCEPT !.step = "hooks", !.n = 1, !.failed = TRUE, !.raced = FALSE]
            /\ UNCHANGED skill
    /\ UNCHANGED <<bin, git, dirs, settings, manifest, state, hook, ignored, hist, budget>>

(* The manifest goes last, and the directory when nothing else is in it.   *)
RemoveManifest ==
    /\ At("down", "manifest")
    /\ manifest' = NoManifest
    /\ dirs' = IF Empty(dirs) THEN dirs \ {"skills"} ELSE dirs
    /\ Goto("hooks")
    /\ UNCHANGED <<bin, git, skill, settings, state, hook, ignored, hist, budget>>

(* removeBonesHooksWith reads, and writes what is left of it back, or      *)
(* removes the file if nothing is and an up created it.                    *)
readBonesHooks ==
    /\ At("down", "hooks") /\ "hooks" \in run.plan
    /\ \/ settings.exists /\ settings.valid /\ ReadSettings("trim")
       \/ ~settings.exists /\ Goto("claude")
       \/ /\ settings.exists /\ ~settings.valid
          /\ run' = [run EXCEPT !.step = "claude", !.failed = TRUE]
    /\ UNCHANGED <<bin, git, tree, hist, budget>>

removeBonesHooksWith ==
    LET trimmed == [run.seen EXCEPT !.hooks = @ \ (Owned \cup Legacy)]
    IN /\ At("down", "trim")
       /\ settings' = IF ~trimmed.keys /\ trimmed.hooks = {} /\ run.created
                      THEN NoFile ELSE trimmed
       /\ Goto("claude")
       /\ UNCHANGED <<bin, git, skill, dirs, manifest, state, hook, ignored, hist, budget>>

RemoveEmptyClaudeDir ==
    /\ At("down", "claude")
    /\ dirs' = IF "claude" \in run.plan /\ "skills" \notin dirs /\ ~settings.exists
               THEN dirs \ {"claude"} ELSE dirs
    /\ Finish
    /\ UNCHANGED <<bin, git, skill, settings, manifest, state, hook, ignored, budget>>

-----------------------------------------------------------------------------
(* doctor                                                                  *)

StartDoctor(flags) == Start("doctor", flags, "migrate", Idle)

Fixing == "nofix" \notin run.flags

(* migrateHookProtocolEntries, written back only when it changed anything. *)
Migrated(h) == addHook(h \ {"primeJson", "primeCompact"}, "prime")

checkBonesScaffoldedHooks ==
    /\ At("doctor", "migrate")
    /\ IF Fixing /\ settings.exists /\ settings.valid /\ Migrated(settings.hooks) # settings.hooks
       THEN ReadSettings("migratewrite") ELSE Goto("adopt")
    /\ UNCHANGED <<bin, git, tree, hist, budget>>

migrateHookProtocolEntries ==
    /\ At("doctor", "migratewrite")
    /\ settings' = [run.seen EXCEPT !.hooks = Migrated(@)]
    /\ Goto("restamp")
    /\ UNCHANGED <<bin, git, skill, dirs, manifest, state, hook, ignored, hist, budget>>

refreshManifestHooksIfPresent ==
    /\ At("doctor", "restamp")
    /\ manifest' = IF manifest.exists /\ settings.valid
                   THEN [manifest EXCEPT !.hooks = settings.hooks \cap Owned] ELSE manifest
    /\ Goto("adopt")
    /\ UNCHANGED <<bin, git, skill, dirs, settings, state, hook, ignored, hist, budget>>

(* checkSkillsManifestDrift: skill directories that are not the bundle's   *)
(* are recorded, in a manifest without files if there is none yet.         *)
checkSkillsManifestDrift ==
    LET orphans == (dirs \cap {"theirs", "legacy"}) \ manifest.adopted
    IN /\ At("doctor", "adopt")
       /\ IF Fixing /\ orphans # {}
          THEN /\ manifest' = [manifest EXCEPT !.exists = TRUE, !.adopted = @ \cup orphans]
               /\ hist' = [hist EXCEPT !.blind = @ \/ ~manifest.exists]
          ELSE UNCHANGED <<manifest, hist>>
       /\ Goto("reset")
       /\ UNCHANGED <<bin, git, skill, dirs, settings, state, hook, ignored, budget>>

Drifted ==
    \E c \in {"prime", "hub"} :
        /\ manifest.hooks \cap Shapes(c) # {} /\ settings.hooks \cap Shapes(c) # {}
        /\ manifest.hooks \cap Shapes(c) # settings.hooks \cap Shapes(c)

(* With --reset what drifted is put back, in the file as read.             *)
checkBonesHooksDrift ==
    /\ At("doctor", "reset")
    /\ IF "reset" \in run.flags /\ manifest.exists /\ settings.valid /\ Drifted
       THEN ReadSettings("resetwrite") /\ UNCHANGED hist ELSE Finish
    /\ UNCHANGED <<bin, git, tree, budget>>

resetDriftedHooks ==
    /\ At("doctor", "resetwrite")
    /\ settings' = [run.seen EXCEPT !.hooks = (@ \ Owned) \cup {"prime", "hub"}]
    /\ Goto("rewrite")
    /\ UNCHANGED <<bin, git, skill, dirs, manifest, state, hook, ignored, hist, budget>>

(* Its writeManifest, without a footprint.                                 *)
restampManifest ==
    /\ At("doctor", "rewrite")
    /\ manifest' = IF settings.valid THEN Rewritten(FALSE) ELSE manifest
    /\ Finish
    /\ UNCHANGED <<bin, git, skill, dirs, settings, state, hook, ignored, budget>>

-----------------------------------------------------------------------------
(* The operator and the environment.                                       *)

Edit ==
    /\ budget.edits > 0
    /\ budget' = [budget EXCEPT !.edits = @ - 1]

Meddled == [hist EXCEPT !.last = "none", !.quiet = FALSE, !.flags = {}, !.meddled = TRUE]

(* The file is one that a step of these writes next, having looked at it.  *)
Race(steps) == run' = [run EXCEPT !.raced = @ \/ run.step \in steps]

SkillWrites(f) == IF f = run.n THEN {"skillwrite", "unlink"} ELSE {}
SettingsWrites == {"merge", "trim", "migratewrite", "resetwrite"}
HookWrites == {"hookwrite", "hookremove", "restore"}

EditSkill(f) ==
    /\ Edit /\ skill[f] # "mine"
    /\ skill' = [skill EXCEPT ![f] = "mine"]
    /\ dirs' = dirs \cup {"claude", "skills"}
    /\ hist' = Meddled
    /\ Race(SkillWrites(f))
    /\ UNCHANGED <<bin, git, settings, manifest, state, hook, ignored>>

DeleteSkill(f) ==
    /\ Edit /\ skill[f] # "absent"
    /\ skill' = [skill EXCEPT ![f] = "absent"]
    /\ hist' = [Meddled EXCEPT !.doubt = IF @ = "absent" THEN Oldest ELSE @]
    /\ Race(SkillWrites(f))
    /\ UNCHANGED <<bin, git, dirs, settings, manifest, state, hook, ignored>>

(* The operator's own entries go in, creating the file if need be; one of  *)
(* bones is edited or removed; the file is broken or mended.               *)
EditSettings ==
    /\ Edit
    /\ \/ /\ settings.valid
          /\ settings' = [settings EXCEPT !.exists = TRUE, !.keys = TRUE,
                                          !.hooks = @ \cup {"mine"}]
          /\ dirs' = dirs \cup {"claude"}
       \/ \E c \in {"prime", "hub"} :
             /\ settings.valid /\ c \in settings.hooks
             /\ \E with \in {{}, Shapes(c) \ {c}} :
                   settings' = [settings EXCEPT !.hooks = (@ \ {c}) \cup with]
             /\ UNCHANGED dirs
       \/ settings.exists /\ settings' = [settings EXCEPT !.valid = ~@] /\ UNCHANGED dirs
    /\ hist' = Meddled
    /\ Race(SettingsWrites)
    /\ UNCHANGED <<bin, git, skill, manifest, state, hook, ignored>>

(* A hook of the operator's written, or the hook removed.                  *)
WriteHook(u) ==
    /\ Edit /\ git
    /\ hook' = [hook EXCEPT !.now = u]
    /\ hist' = Meddled
    /\ Race(HookWrites)
    /\ UNCHANGED <<bin, git, skill, dirs, settings, manifest, state, ignored>>

RemoveIgnore ==
    /\ Edit /\ ignored = "listed"
    /\ ignored' = "removed"
    /\ hist' = Meddled
    /\ UNCHANGED <<bin, git, skill, dirs, settings, manifest, state, hook, run>>

GitInit ==
    /\ ~git
    /\ git' = TRUE
    /\ hist' = Meddled
    /\ UNCHANGED <<bin, tree, run, budget>>

Upgrade ==
    /\ bin = "old" /\ run = Idle
    /\ bin' = "new"
    /\ hist' = [hist EXCEPT !.last = "none", !.quiet = FALSE]
    /\ UNCHANGED <<git, tree, run, budget>>

Killed ==
    /\ run # Idle /\ budget.faults > 0
    /\ budget' = [budget EXCEPT !.faults = @ - 1]
    /\ run' = Idle
    /\ hist' = Interrupted
    /\ UNCHANGED <<bin, git, tree>>

-----------------------------------------------------------------------------
Up ==
    \/ \E flags \in Flags("up") : StartUp(flags)
    \/ initOrJoinWorkspace \/ removeLegacyBonesSkills
    \/ writeBonesSkills \/ materializeSkillFile
    \/ readSettings \/ mergeSettings \/ writeStamp \/ writeManifest
    \/ Install \/ InstallMove \/ InstallWrite \/ ensureBonesGitignore

Down ==
    \/ \E flags \in Flags("down") : StartDown(flags)
    \/ Skip("githook", "bonesdir") \/ Skip("bonesdir", "legacy")
    \/ Skip("legacy", "skills") \/ Skip("skills", "hooks") \/ Skip("hooks", "claude")
    \/ Uninstall \/ UninstallRemove \/ restoreSaved \/ RemoveBonesDir \/ RemoveLegacy
    \/ removeOneBonesSkill \/ UnlinkSkill \/ RemoveManifest
    \/ readBonesHooks \/ removeBonesHooksWith \/ RemoveEmptyClaudeDir

Doctor ==
    \/ \E flags \in Flags("doctor") : StartDoctor(flags)
    \/ checkBonesScaffoldedHooks \/ migrateHookProtocolEntries
    \/ refreshManifestHooksIfPresent \/ checkSkillsManifestDrift
    \/ checkBonesHooksDrift \/ resetDriftedHooks \/ restampManifest

Operator ==
    \/ \E f \in File : EditSkill(f) \/ DeleteSkill(f)
    \/ EditSettings \/ RemoveIgnore \/ GitInit \/ Upgrade
    \/ \E u \in UserHooks \cup {"none"} : WriteHook(u)

Next == Up \/ Down \/ Doctor \/ Operator \/ Killed

Spec == Init /\ [][Next]_vars

-----------------------------------------------------------------------------
(* The types; the manifest never records the hash of bytes bones did not   *)
(* write, whatever was on disk when it was written.                        *)
TypeOK ==
    /\ bin \in Version /\ git \in BOOLEAN
    /\ skill \in [File -> Content]
    /\ dirs \subseteq {"claude", "skills", "theirs", "legacy"}
    /\ settings \in Settings
    /\ manifest \in Manifest
    /\ state \in [marker : BOOLEAN, stamp : Version \cup {"absent"}]
    /\ hook \in [now : UserHooks \cup {"none", "bones"}, saved : UserHooks \cup {"none"}]
    /\ ignored \in {"never", "listed", "removed"}
    /\ hist.doubt \in Version \cup {"absent"}

(* A step of the verb that runs, not one of the operator's.                *)
Moves == <<run'.verb, run'.step, run'.n>> # <<run.verb, run.step, run.n>>

SkillsKept ==
    /\ \A f \in File : skill[f] = "mine" => skill'[f] = "mine"
    /\ "theirs" \in dirs => "theirs" \in dirs'

SettingsKept ==
    /\ settings.keys => settings'.exists /\ settings'.keys
    /\ "mine" \in settings.hooks => "mine" \in settings'.hooks
    /\ ~settings.valid => settings' = settings

HookKept(u) == u \in {hook.now, hook.saved} => u \in {hook'.now, hook'.saved}

(* No step of any verb loses what is the operator's: an edited or          *)
(* pre-existing skill file, a skill of their own, their keys and hooks in  *)
(* settings.json, a file that does not parse, their pre-commit hook.  Two  *)
(* things may be lost: what they wrote to a file that the verb had read    *)
(* and not yet written, and a hook that an up finds beside one saved.      *)
UserContentKept ==
    [][Moves =>
          \/ run.raced
          \/ /\ SkillsKept /\ SettingsKept
             /\ \A u \in UserHooks :
                   HookKept(u) \/ (At("up", "hookwrite") /\ hook.saved # "none")]_vars

(* An up that returns nil leaves a complete scaffold, whatever earlier     *)
(* verbs, killed anywhere, other binaries and the operator had left: every *)
(* file of the bundle, the hooks and none of the old ones, the stamp, and  *)
(* a manifest that claims each file as the bundle has it and the hooks;    *)
(* and the line in .gitignore, unless the up warned that it has not.       *)
UpConverges ==
    (hist.last = "up" /\ ~hist.meddled) =>
        /\ \A f \in File : skill[f] # "absent"
        /\ \A f \in File : skill[f] = bin => manifest.files[f] # "absent"
        /\ state = [marker |-> TRUE, stamp |-> bin]
        /\ "legacy" \notin dirs /\ {"claude", "skills"} \subseteq dirs
        /\ manifest.exists /\ manifest.hooks = settings.hooks \cap Owned
        /\ git => /\ hook.now = "bones"
                  /\ settings.exists /\ settings.hooks \cap Legacy = {}
                  /\ \A c \in {"prime", "hub"} : settings.hooks \cap Shapes(c) # {}
        /\ ignored = "listed" \/ hist.warned

Scaffolded ==
    \/ \E f \in File : skill[f] \in Version
    \/ "legacy" \in dirs \/ manifest.exists
    \/ settings.hooks \cap (Owned \cup Legacy) # {}
    \/ state # [marker |-> FALSE, stamp |-> "absent"]
    \/ git /\ hook.now = "bones"

(* A down that returns nil leaves nothing of bones, also after an upgrade  *)
(* of the binary and after verbs killed anywhere, unless the binary was    *)
(* upgraded over an interrupted verb or a deleted skill file, or the last  *)
(* up was interrupted and the manifest is not of its making.               *)
DownRemovesAll ==
    (hist.last = "down" /\ ~hist.meddled
        /\ (hist.doubt = "absent" \/ (hist.doubt = bin /\ ~hist.blind))) => ~Scaffolded

(* A second up with the same flags, nothing having happened in between,    *)
(* writes nothing that was not there.                                      *)
UpIdempotent ==
    [][run.verb = "up" /\ hist.quiet /\ Moves => UNCHANGED tree]_vars

-----------------------------------------------------------------------------
(* What the repository says and the model refutes.                         *)

(* The manifest is the oracle: a file as bones wrote it is removed by down *)
(* although the binary was upgraded in between.                            *)
DownRemovesAllUpgraded == (hist.last = "down" /\ ~hist.meddled) => ~Scaffolded

(* An up preserves the operator's pre-commit hook (githook.Install).       *)
HooksPreserved ==
    [][Moves /\ ~run.raced => \A u \in UserHooks : HookKept(u)]_vars

(* No step of any verb ever writes over what the operator just wrote.      *)
NothingOverwritten == [][Moves => SkillsKept /\ SettingsKept]_vars

(* up does not put back a .gitignore line that the operator removed.       *)
OptOutRespected == [][ignored = "removed" => ignored' = "removed"]_vars

(* down gives back the operator's pre-commit hook, partial installs too.   *)
DownRestoresHook == (hist.last = "down" /\ ~hist.meddled) => hook.saved = "none"
=============================================================================
