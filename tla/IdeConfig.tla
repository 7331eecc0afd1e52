---- MODULE IdeConfig ----
(***************************************************************************)
(* a2abridge install and uninstall (internal/cli/install.go, uninstall.go, *)
(* internal/ideconfig): a command steps through the configuration files of *)
(* the IDEs and for each one looks whether it is there, reads it, merges   *)
(* or strips its own part, backs the file up if it was there, and replaces *)
(* it; Claude Code also gets a skill and the hook script. Meanwhile the    *)
(* user or the IDE saves the same files, file operations fail, and the     *)
(* command may be killed between any two.                                  *)
(*                                                                         *)
(* Four files stand for all: the two of Claude Code, the one of an IDE     *)
(* with an MCP section in a file of the user (Codex, Cursor, Cline, Gemini *)
(* and Antigravity), and Continue's file, which is ours alone. The service *)
(* and the state directory, which uninstall also removes, are left out.    *)
(***************************************************************************)
EXTENDS Naturals

CONSTANTS Missing,      \* an absent file, or backup
          InitialFiles, \* contents the files of the user may have at first
          MaxClock,     \* bound on the seconds
          MaxEdits,     \* bound on the saves by user or IDE
          MaxCommands,  \* bound on the commands
          MaxFaults     \* bound on failed file operations and killed commands

Shared == {"claude.json", "settings.json", "ide.json"}
Own == "a2a.yaml"
Files == Shared \cup {Own}

\* parses: a decoder accepts it (comments and trailing commas allowed); user:
\* which save the user's part is from; notes: it has comments; ours: the
\* entries of a2abridge, one of an older version or another path is stale.
Contents == [parses : BOOLEAN, user : 0..MaxEdits, notes : BOOLEAN,
             ours : SUBSET {"stale", "current"}]
File == Contents \cup {Missing}
Empty == [parses |-> TRUE, user |-> 0, notes |-> FALSE, ours |-> {}]

ASSUME IdeConfigAssumption ==
    /\ MaxClock \in Nat /\ MaxEdits \in Nat
    /\ MaxCommands \in Nat /\ MaxFaults \in Nat
    /\ Missing \notin Contents
    /\ InitialFiles \subseteq File

VARIABLES
    file,       \* file[f]
    bak,        \* bak[f][s]: the backup of f that second s names
    markers,    \* IDEs whose own directory exists
    skill, script,  \* the skill and the hook script are in place
    clock,
    cmd,        \* the running command
    loaded,     \* what it is going to write
    edits, commands, faults,
    \* observation
    saved,      \* saved[f]: the last contents the user saved, or found
    exposed,    \* files saved when the command had found none or had made its
                \* backup, or whose backup one of the same second has overwritten
    settled,    \* the last command for Claude Code was carried out without error
    removed     \* the last command was an uninstall without error

disk == <<file, bak, markers, skill, script>>
watch == <<saved, exposed, settled, removed>>
vars == <<disk, clock, cmd, loaded, edits, commands, faults, watch>>

NoCmd == [op |-> "none", ide |-> "auto", dry |-> FALSE,
          at |-> "end", stage |-> "load", failed |-> FALSE]

\* The writer of a file, and what the command turns to after each.
WriterOf(f) == CASE f = "ide.json" -> "ide" [] f = Own -> "continue" [] OTHER -> "claude"
After(at) ==
    CASE at = "claude.json" -> "settings.json"
      [] at = "settings.json" -> "ide.json"
      [] at = "ide.json" -> Own
      [] at = Own -> "skill"
      [] at = "skill" -> "script"
      [] OTHER -> "end"

TypeOK ==
    /\ file \in [Files -> File] /\ saved \in [Files -> File]
    /\ bak \in [Files -> [0..MaxClock -> File]]
    /\ markers \subseteq {"claude", "ide", "continue"}
    /\ skill \in BOOLEAN /\ script \in BOOLEAN
    /\ clock \in 0..MaxClock
    /\ cmd \in [op : {"none", "install", "uninstall"}, ide : {"auto", "all", "claude", "ide"},
                dry : BOOLEAN, at : Files \cup {"skill", "script", "end"},
                stage : {"load", "found", "absent", "backup", "replace", "write"}, failed : BOOLEAN]
    /\ loaded \in File
    /\ edits \in 0..MaxEdits /\ commands \in 0..MaxCommands /\ faults \in 0..MaxFaults
    /\ exposed \subseteq Files
    /\ settled \in BOOLEAN /\ removed \in BOOLEAN

Init ==
    /\ file \in [Files -> InitialFiles] /\ file[Own] = Missing
    /\ bak = [f \in Files |-> [s \in 0..MaxClock |-> Missing]]
    /\ markers \in {{}, {"claude", "ide", "continue"}}
    /\ file["settings.json"] # Missing => "claude" \in markers
    /\ skill = FALSE /\ script = FALSE
    /\ clock = 0
    /\ cmd = NoCmd /\ loaded = Missing
    /\ edits = 0 /\ commands = 0 /\ faults = 0
    /\ saved = file /\ exposed = {}
    /\ settled = FALSE /\ removed = FALSE

-----------------------------------------------------------------------------
(* Which files a command touches *)

\* Detect: a config file or the directory of the IDE is there.
Detect(w) == w \in markers \/ \E f \in Files : WriterOf(f) = w /\ file[f] # Missing

WriterFound(w) == Detect(w)

\* filterWriters and the skip of auto mode; uninstall takes what it detects.
InScope(w) ==
    \/ cmd.op = "install" /\ cmd.ide = "all"
    \/ cmd.op = "install" /\ cmd.ide = w
    \/ (cmd.op = "uninstall" \/ cmd.ide = "auto") /\ WriterFound(w)

MutantExtrasForAuto == cmd.ide \in {"auto", "all"}

shouldInstallExtras == cmd.ide \in {"auto", "all", "claude"}

ForClaude == cmd.op = "uninstall" \/ shouldInstallExtras

-----------------------------------------------------------------------------
(* What a command makes of a file *)

\* Neither reading failed nor the decoder; Continue's file is not decoded.
Readable(f, c, ok) == f = Own \/ c = Missing \/ (ok /\ c.parses)

\* What reading the file may give: the writer of Codex does not read a file it
\* has not found, the JSON writers read whatever is there by now.
Seen(f) == IF f = "ide.json" /\ cmd.stage = "absent" THEN {file[f], Missing} ELSE {file[f]}

\* The entry replaces another one; comments do not survive the rewrite.
setMCPServerEntry(c) == [c EXCEPT !.ours = {"current"}, !.notes = FALSE]

\* equalJSON, equalTOMLEntry: the entry is there with the same values.
SameEntry(c) == c.ours = {"current"}

\* A hook is added beside one of another path.
mergeUserPromptSubmitHook(c) == [c EXCEPT !.ours = @ \cup {"current"}, !.notes = FALSE]

needsHookUpdate(c) == "current" \notin c.ours

continueYAML == [Empty EXCEPT !.ours = {"current"}]

Installed(f, c) ==
    CASE f = Own -> continueYAML
      [] f = "settings.json" -> mergeUserPromptSubmitHook(c)
      [] OTHER -> setMCPServerEntry(c)

\* The check for "already up to date".
UpToDate(f, c) ==
    CASE f = Own -> c = continueYAML
      [] f = "settings.json" -> ~needsHookUpdate(c)
      [] OTHER -> SameEntry(c)

MutantStripOne(f, c) ==
    IF f = Own THEN Missing
    ELSE IF f = "settings.json" THEN [c EXCEPT !.ours = @ \ {"current"}, !.notes = FALSE]
    ELSE [c EXCEPT !.ours = {}, !.notes = FALSE]

\* removeJSONMCPEntry, removeCodexEntry: every entry and, by its base name,
\* every hook of ours goes; Continue's file is deleted.
Stripped(f, c) == IF f = Own THEN Missing ELSE [c EXCEPT !.ours = {}, !.notes = FALSE]

\* What is to be written, given what was read; c itself when nothing is.
Wanted(f, c) ==
    IF cmd.op = "install"
    THEN IF c # Missing /\ UpToDate(f, c) THEN c
         ELSE Installed(f, IF c = Missing THEN Empty ELSE c)
    ELSE IF c = Missing \/ (f # Own /\ c.ours = {}) THEN c ELSE Stripped(f, c)

-----------------------------------------------------------------------------
(* The command *)

\* A file operation works, or fails as long as the bound on faults lasts.
Works(ok) == IF ok THEN UNCHANGED faults ELSE faults < MaxFaults /\ faults' = faults + 1

Begin(op, ide, dry) ==
    /\ cmd.op = "none" /\ commands < MaxCommands
    /\ cmd' = [NoCmd EXCEPT !.op = op, !.ide = ide, !.dry = dry,
                            !.at = "claude.json"]
    /\ commands' = commands + 1
    /\ removed' = (removed /\ dry)
    /\ UNCHANGED <<faults, disk, clock, loaded, edits, saved, exposed, settled>>

RunInstall(ide, dry) == Begin("install", ide, dry)

RunUninstall(dry) == Begin("uninstall", "auto", dry)

\* Leaves a file, or a step for Claude Code, for the next one. An install that
\* failed on Claude Code's first file does not go on to the second.
Proceed(fails) ==
    LET skips == fails /\ cmd.op = "install" /\ cmd.at = "claude.json"
    IN  /\ cmd' = [cmd EXCEPT !.at = After(IF skips THEN After(@) ELSE @), !.stage = "load",
                              !.failed = @ \/ fails]
        /\ loaded' = Missing

\* A writer that is not selected, or not detected.
Skip(f) ==
    /\ cmd.op # "none" /\ cmd.at = f /\ cmd.stage = "load"
    /\ ~InScope(WriterOf(f))
    /\ f # "settings.json"
    /\ cmd' = [cmd EXCEPT !.at = After(IF f = "claude.json" THEN After(f) ELSE f)]
    /\ UNCHANGED <<faults, disk, clock, loaded, edits, commands, watch>>

\* removeMCPBlock in a dry run only says what it would do.
OnlyTells == cmd.op = "uninstall" /\ cmd.dry

\* Whether the file is there. An uninstall has nothing to do without it.
fileExists(f) ==
    /\ cmd.op # "none" /\ cmd.at = f /\ cmd.stage = "load"
    /\ InScope(WriterOf(f)) \/ f = "settings.json"
    /\ IF OnlyTells \/ (cmd.op = "uninstall" /\ file[f] = Missing)
       THEN Proceed(FALSE)
       ELSE /\ cmd' = [cmd EXCEPT !.stage = IF file[f] = Missing THEN "absent" ELSE "found"]
            /\ UNCHANGED loaded
    /\ UNCHANGED <<faults, disk, clock, edits, commands, watch>>

\* Read, parse and mutate: an error, nothing to do, a plan, or a write. Only a
\* file that was there before the reading is backed up (Result.Found).
Load(f, c, ok) ==
    /\ cmd.at = f /\ cmd.stage \in {"found", "absent"}
    /\ ~ok => f # Own /\ c # Missing
    /\ Works(ok)
    /\ IF ~Readable(f, c, ok)
       THEN Proceed(TRUE)
       ELSE IF cmd.dry \/ Wanted(f, c) = c
       THEN Proceed(FALSE)
       ELSE /\ loaded' = Wanted(f, c)
            /\ cmd' = [cmd EXCEPT !.stage = IF @ = "found" THEN "backup" ELSE "replace"]
    /\ UNCHANGED <<disk, clock, edits, commands, watch>>

MutantBackupOnce(f, ok) ==
    /\ Works(ok)
    /\ cmd.at = f /\ cmd.stage = "backup" /\ ok
    /\ cmd' = [cmd EXCEPT !.stage = "replace"]
    /\ bak' = IF \E s \in 0..MaxClock : bak[f][s] # Missing THEN bak
              ELSE [bak EXCEPT ![f][clock] = file[f]]
    /\ UNCHANGED <<file, markers, skill, script, loaded, clock, edits, commands, watch>>

\* The backup of f under the name of this second is c from now on; an earlier
\* one of the same second, if it held something else, is lost.
BackupBecomes(f, c) ==
    /\ bak' = [bak EXCEPT ![f][clock] = c]
    /\ exposed' = IF bak[f][clock] \notin {Missing, file[f]} THEN exposed \cup {f} ELSE exposed

\* backupFile copies what the file holds by now to a name with the second. When
\* it fails the copy may have been truncated already.
backupFile(f, ok) ==
    /\ Works(ok)
    /\ cmd.at = f /\ cmd.stage = "backup"
    /\ IF ok
       THEN /\ BackupBecomes(f, file[f])
            /\ cmd' = [cmd EXCEPT !.stage = "replace"] /\ UNCHANGED loaded
       ELSE /\ BackupBecomes(f, Missing) \/ UNCHANGED <<bak, exposed>>
            /\ Proceed(TRUE)
    /\ UNCHANGED <<file, markers, skill, script, clock, edits, commands, saved, settled, removed>>

\* writeFileAtomic: a temporary file renamed over it (os.Remove for ours).
writeFileAtomic(f, ok) ==
    /\ Works(ok)
    /\ cmd.at = f /\ cmd.stage = "replace"
    /\ file' = IF ok THEN [file EXCEPT ![f] = loaded] ELSE file
    /\ markers' = IF loaded = Missing THEN markers ELSE markers \cup
                     (IF f = "claude.json" THEN {} ELSE {WriterOf(f)})
    /\ Proceed(~ok)
    /\ UNCHANGED <<bak, skill, script, clock, edits, commands, watch>>

\* removePath moves a file or tree away, or deletes it; a failure is a warning.
removePath(there, ok) == there /\ ~ok

\* installSkill moves the old tree away and copies the new one (a failure leaves
\* the old one, or a part of the new one).
Skill(ok) ==
    /\ Works(ok)
    /\ cmd.at = "skill"
    /\ IF cmd.dry \/ ~ForClaude
       THEN Proceed(FALSE) /\ UNCHANGED <<skill, markers>>
       ELSE /\ IF cmd.op = "install"
               THEN skill' \in IF ok THEN {TRUE} ELSE {skill, FALSE}
               ELSE skill' = removePath(skill, ok)
            /\ markers' = IF cmd.op = "install" THEN markers \cup {"claude"} ELSE markers
            /\ Proceed(~ok /\ cmd.op = "install")
    /\ UNCHANGED <<file, bak, script, clock, edits, commands, watch>>

\* installHook moves an old script away first, as removePath does.
MoveScript(ok) ==
    /\ Works(ok)
    /\ cmd.at = "script" /\ cmd.stage = "load"
    /\ IF cmd.dry \/ ~ForClaude
       THEN Proceed(FALSE) /\ UNCHANGED script
       ELSE /\ script' = removePath(script, ok)
            /\ IF ok /\ cmd.op = "install"
               THEN cmd' = [cmd EXCEPT !.stage = "write"] /\ UNCHANGED loaded
               ELSE Proceed(~ok /\ cmd.op = "install")
    /\ UNCHANGED <<file, bak, markers, skill, clock, edits, commands, watch>>

WriteScript(ok) ==
    /\ Works(ok)
    /\ cmd.at = "script" /\ cmd.stage = "write"
    /\ script' = ok
    /\ markers' = markers \cup {"claude"}
    /\ Proceed(~ok)
    /\ UNCHANGED <<file, bak, skill, clock, edits, commands, watch>>

\* The exit code.
Finish ==
    /\ cmd.op # "none" /\ cmd.at = "end"
    /\ cmd' = NoCmd
    /\ settled' = IF cmd.dry \/ ~ForClaude THEN settled ELSE ~cmd.failed
    /\ removed' = IF cmd.dry THEN removed ELSE cmd.op = "uninstall" /\ ~cmd.failed
    /\ UNCHANGED <<faults, disk, clock, loaded, edits, commands, saved, exposed>>

\* The command is killed, perhaps while it writes a backup.
Crash ==
    /\ Works(FALSE)
    /\ cmd.op # "none"
    /\ cmd' = NoCmd /\ loaded' = Missing
    /\ \/ cmd.stage = "backup" /\ BackupBecomes(cmd.at, Missing)
       \/ UNCHANGED <<bak, exposed>>
    /\ settled' = (settled /\ (cmd.dry \/ ~ForClaude))
    /\ UNCHANGED <<file, markers, skill, script, clock, edits, commands, saved, removed>>

-----------------------------------------------------------------------------
(* The surroundings *)

\* The user, or the IDE, creates or saves a file: another user part, comments
\* or none, well formed or not (nobody looks for comments in it then); the
\* entries of a2abridge stay.
Save(f, parses, notes) ==
    /\ edits < MaxEdits
    /\ notes => parses
    /\ f = Own => file[f] # Missing
    /\ edits' = edits + 1
    /\ file' = [file EXCEPT ![f] =
                   [parses |-> parses, user |-> edits + 1, notes |-> notes,
                    ours |-> IF file[f] = Missing THEN {} ELSE file[f].ours]]
    /\ saved' = [saved EXCEPT ![f] = file'[f]]
    /\ exposed' = IF cmd.op # "none" /\ cmd.at = f /\ cmd.stage \in {"absent", "replace"}
                  THEN exposed \cup {f} ELSE exposed \ {f}
    /\ UNCHANGED <<faults, bak, markers, skill, script, clock, cmd, loaded, commands, settled, removed>>

Tick ==
    /\ clock < MaxClock
    /\ clock' = clock + 1
    /\ UNCHANGED <<faults, disk, cmd, loaded, edits, commands, watch>>

Next ==
    \/ \E dry \in BOOLEAN :
          \/ \E ide \in {"auto", "all", "claude", "ide"} : RunInstall(ide, dry)
          \/ RunUninstall(dry)
    \/ \E f \in Files :
          \/ Skip(f) \/ fileExists(f)
          \/ \E ok \in BOOLEAN :
                \/ backupFile(f, ok) \/ writeFileAtomic(f, ok)
                \/ \E c \in Seen(f) : Load(f, c, ok)
          \/ \E parses, notes \in BOOLEAN : Save(f, parses, notes)
    \/ \E ok \in BOOLEAN : Skill(ok) \/ MoveScript(ok) \/ WriteScript(ok)
    \/ Finish \/ Crash \/ Tick

Spec == Init /\ [][Next]_vars

-----------------------------------------------------------------------------
(* Correctness *)

\* The user's part of a file and its comments, as saved.
SameSave(c, d) ==
    c # Missing /\ c.user = d.user /\ c.notes = d.notes /\ c.parses = d.parses

\* "Comments ... will be lost on rewrite, which is fine because we always
\* create a timestamped .bak before any write": what the user last saved is in
\* the file or in a backup, however often install and uninstall ran, failed or
\* were killed, and even if it was saved while they had the file in hand. It is
\* exposed only when it was saved between backup and replacement, when the
\* command had not found the file before (a new file is not backed up), and to
\* a second backup under the same name.
SavedIsRecoverable ==
    \A f \in Files : saved[f] # Missing /\ f \notin exposed =>
        \/ SameSave(file[f], saved[f])
        \/ \E s \in 0..MaxClock : SameSave(bak[f][s], saved[f])

\* After an uninstall that reported success no file has an entry or a hook of
\* a2abridge, whatever mixture of old and new ones earlier commands had left.
UninstallUndoes == removed => \A f \in Files : file[f] # Missing => file[f].ours = {}

\* After a command for Claude Code that reported success, a hook registered in
\* settings.json has its script: "settings + hook land in the same backup
\* window", although they are two steps of a command that others may follow.
HookHasScript ==
    settled /\ cmd.op = "none" /\ file["settings.json"] # Missing =>
        ("current" \in file["settings.json"].ours => script)

-----------------------------------------------------------------------------
(* The inductive invariant behind these properties; IdeConfigProofs shows it. *)

Clean(f) == file[f] # Missing => file[f].ours = {}

Backed(f) == \E s \in 0..MaxClock : SameSave(bak[f][s], saved[f])

\* The files a command is through with when it has come to a place.
Passed(at) ==
    CASE at = "claude.json" -> {}
      [] at = "settings.json" -> {"claude.json"}
      [] at = "ide.json" -> {"claude.json", "settings.json"}
      [] at = Own -> Shared
      [] OTHER -> Files

\* A dry run stays at reading; a file is written only where the command is; one
\* that is not for Claude Code passes by its settings.
CommandShape ==
    /\ cmd.op = "none" => cmd.at = "end" /\ cmd.stage = "load"
    /\ cmd.stage \in {"found", "absent"} => cmd.at \in Files
    /\ cmd.stage = "absent" => cmd.op = "install"
    /\ cmd.stage \in {"backup", "replace"} => ~cmd.dry /\ cmd.at \in Files
    /\ cmd.stage = "write" => ~cmd.dry /\ cmd.at = "script" /\ ForClaude
    /\ ~ForClaude => /\ cmd.at # "settings.json"
                     /\ cmd.at = "claude.json" => cmd.stage = "load"

\* A file about to be replaced has been backed up since the user saved it; so
\* has one that was not found.
BackedUp ==
    \A f \in Files : cmd.at = f /\ cmd.stage \in {"absent", "replace"} =>
        (saved[f] # Missing /\ f \notin exposed => Backed(f))

\* An uninstall that has not failed leaves clean files behind.
Stripping ==
    cmd.op = "uninstall" =>
        /\ cmd.stage \in {"backup", "replace"} /\ loaded # Missing => loaded.ours = {}
        /\ ~cmd.dry /\ ~cmd.failed => \A f \in Passed(cmd.at) : Clean(f)

\* Only a dry run may be under way while the last uninstall counts.
RemovedStands == removed => cmd.op = "none" \/ cmd.dry

RegisteredHasScript ==
    file["settings.json"] # Missing => ("current" \in file["settings.json"].ours => script)

\* The hook has its script except while a command for Claude Code is at work or
\* after one has failed; an install without error has written it.
HookStands ==
    /\ settled /\ (cmd.op = "none" \/ cmd.dry \/ ~ForClaude) => RegisteredHasScript
    /\ cmd.op = "install" /\ ~cmd.dry /\ ForClaude /\ ~cmd.failed /\ cmd.at = "end" => script

IInv ==
    /\ TypeOK /\ CommandShape
    /\ SavedIsRecoverable /\ BackedUp
    /\ UninstallUndoes /\ RemovedStands /\ Stripping
    /\ HookStands

====
