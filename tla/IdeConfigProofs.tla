---- MODULE IdeConfigProofs ----
(***************************************************************************)
(* Proofs about IdeConfig, for any contents the files may have at first    *)
(* and any number of commands, saves, faults and seconds. IInv follows a   *)
(* command through the files: what it has backed up, what it has cleaned,  *)
(* and when the hook must have its script.                                 *)
(***************************************************************************)
EXTENDS IdeConfig, TLAPS

-----------------------------------------------------------------------------
(* Types *)

Places == Files \cup {"skill", "script", "end"}

Commands ==
    [op : {"none", "install", "uninstall"}, ide : {"auto", "all", "claude", "ide"},
     dry : BOOLEAN, at : Places,
     stage : {"load", "found", "absent", "backup", "replace", "write"}, failed : BOOLEAN]

\* The fields of a command.
LEMMA CommandFields ==
    ASSUME TypeOK
    PROVE  /\ cmd \in Commands /\ cmd.at \in Places
           /\ cmd.op \in {"none", "install", "uninstall"}
           /\ cmd.ide \in {"auto", "all", "claude", "ide"}
           /\ cmd.dry \in BOOLEAN /\ cmd.failed \in BOOLEAN
           /\ cmd.stage \in {"load", "found", "absent", "backup", "replace", "write"}
BY DEF TypeOK, Commands, Places

\* Contents with another set of entries and without comments are contents.
LEMMA RewrittenContents ==
    ASSUME NEW c \in Contents, NEW o \in SUBSET {"stale", "current"}
    PROVE  [c EXCEPT !.ours = o, !.notes = FALSE] \in Contents
BY DEF Contents

\* What a command writes is the contents of a file, or its absence.
LEMMA WantedType ==
    ASSUME NEW f \in Files, NEW c \in File
    PROVE  Wanted(f, c) \in File
<1>1. Empty \in Contents
  BY IdeConfigAssumption DEF Empty, Contents
<1>2. continueYAML \in Contents
  BY <1>1 DEF continueYAML, Contents
<1>3. ASSUME NEW d \in Contents PROVE Installed(f, d) \in Contents /\ Stripped(f, d) \in File
  <2>1. d.ours \in SUBSET {"stale", "current"}
    BY DEF Contents
  <2>2. d.ours \cup {"current"} \in SUBSET {"stale", "current"}
    BY <2>1
  <2>3. mergeUserPromptSubmitHook(d) \in Contents
    BY <2>2, RewrittenContents DEF mergeUserPromptSubmitHook
  <2>4. setMCPServerEntry(d) \in Contents
    BY RewrittenContents DEF setMCPServerEntry
  <2>5. [d EXCEPT !.ours = {}, !.notes = FALSE] \in Contents
    BY RewrittenContents
  <2>6. Installed(f, d) \in Contents
    BY <1>2, <2>3, <2>4 DEF Installed
  <2>7. Stripped(f, d) \in File
    BY <2>5 DEF Stripped, File
  <2> QED
    BY <2>6, <2>7
<1>4. (IF c = Missing THEN Empty ELSE c) \in Contents
  BY <1>1 DEF File
<1>5. CASE c = Missing
  BY <1>3, <1>4, <1>5 DEF Wanted, File
<1>6. CASE c # Missing
  <2>1. c \in Contents
    BY <1>6 DEF File
  <2> QED
    BY <1>3, <1>4, <2>1 DEF Wanted, File
<1> QED
  BY <1>5, <1>6

\* The bound on the faults.
LEMMA WorksType ==
    ASSUME TypeOK, NEW ok \in BOOLEAN, Works(ok)
    PROVE  faults' \in 0..MaxFaults
BY IdeConfigAssumption DEF TypeOK, Works

\* A command proceeds to a place.
LEMMA ProceedType ==
    ASSUME TypeOK, NEW fails \in BOOLEAN, Proceed(fails)
    PROVE  /\ cmd' \in Commands /\ loaded' \in File
           /\ cmd'.op = cmd.op /\ cmd'.ide = cmd.ide /\ cmd'.dry = cmd.dry
           /\ cmd'.stage = "load" /\ cmd'.failed = (cmd.failed \/ fails)
           /\ cmd'.at = After(IF fails /\ cmd.op = "install" /\ cmd.at = "claude.json"
                              THEN After(cmd.at) ELSE cmd.at)
<1>1. \A p \in Places : After(p) \in Places
  BY DEF After, Places, Files, Shared, Own
<1> DEFINE skips == fails /\ cmd.op = "install" /\ cmd.at = "claude.json"
           next == After(IF skips THEN After(cmd.at) ELSE cmd.at)
<1>2. next \in Places
  BY <1>1, CommandFields
<1>3. cmd' = [cmd EXCEPT !.at = next, !.stage = "load", !.failed = @ \/ fails]
  BY DEF Proceed
<1> HIDE DEF next
<1>4. /\ cmd' \in Commands
      /\ cmd'.op = cmd.op /\ cmd'.ide = cmd.ide /\ cmd'.dry = cmd.dry
      /\ cmd'.stage = "load" /\ cmd'.failed = (cmd.failed \/ fails)
      /\ cmd'.at = next
  BY <1>2, <1>3, CommandFields DEF Commands
<1>5. loaded' \in File
  BY DEF Proceed, File
<1> QED
  BY <1>4, <1>5 DEF next

-----------------------------------------------------------------------------
(* What a command makes of a file, and where it goes from there *)

\* What an uninstall leaves of a file has no entry of ours.
LEMMA WantedClean ==
    ASSUME NEW f \in Files, NEW c \in File, cmd.op = "uninstall"
    PROVE  Wanted(f, c) # Missing => Wanted(f, c).ours = {}
<1>1. CASE c = Missing
  BY <1>1 DEF Wanted
<1>2. CASE c # Missing
  <2>1. c \in Contents
    BY <1>2 DEF File
  <2>2. [c EXCEPT !.ours = {}, !.notes = FALSE].ours = {}
    BY <2>1 DEF Contents
  <2>3. CASE f = Own
    BY <1>2, <2>3 DEF Wanted, Stripped
  <2>4. CASE f # Own
    BY <1>2, <2>2, <2>4 DEF Wanted, Stripped
  <2> QED
    BY <2>3, <2>4
<1> QED
  BY <1>1, <1>2

\* Only a command for one IDE other than Claude Code is not for Claude Code.
LEMMA NotForClaude ==
    ASSUME TypeOK, ~ForClaude
    PROVE  cmd.op # "uninstall" /\ cmd.ide = "ide"
BY CommandFields DEF ForClaude, shouldInstallExtras

\* Leaving a place: nothing is in hand, no file is passed but the one left, and
\* an install for another IDE does not come to the settings of Claude Code.
LEMMA ProceedShape ==
    ASSUME IInv, NEW fails \in BOOLEAN, Proceed(fails),
           cmd.op # "none", cmd.at # "end",
           ~ForClaude => cmd.at # "claude.json"
    PROVE  /\ CommandShape' /\ BackedUp'
           /\ ForClaude' = ForClaude
           /\ cmd'.op = cmd.op /\ cmd'.dry = cmd.dry
           /\ cmd'.failed = (cmd.failed \/ fails) /\ cmd'.stage = "load"
           /\ cmd'.at = "end" => cmd.at = "script"
           /\ cmd.op = "uninstall" => Passed(cmd'.at) \subseteq Passed(cmd.at) \cup {cmd.at}
           /\ cmd' \in Commands /\ loaded' \in File
<1> DEFINE at == cmd.at
           skips == fails /\ cmd.op = "install" /\ at = "claude.json"
<1>1. /\ cmd' \in Commands /\ loaded' \in File
      /\ cmd'.op = cmd.op /\ cmd'.ide = cmd.ide /\ cmd'.dry = cmd.dry
      /\ cmd'.stage = "load" /\ cmd'.failed = (cmd.failed \/ fails)
      /\ cmd'.at = After(IF skips THEN After(at) ELSE at)
  BY ProceedType DEF IInv
<1>2. at \in Places
  BY CommandFields DEF IInv
<1>3. ForClaude' = ForClaude
  BY <1>1 DEF ForClaude, shouldInstallExtras
<1>4. skips => After(at) = "settings.json"
  BY DEF After, Own
<1>5. cmd'.at = "end" => at = "script"
  BY <1>1, <1>2, <1>4 DEF After, Places, Files, Shared, Own
<1>6. cmd'.at = "settings.json" => at = "claude.json"
  BY <1>1, <1>2, <1>4 DEF After, Places, Files, Shared, Own
<1>7. cmd'.at # "claude.json"
  BY <1>1 DEF After, Own
<1>8. CommandShape'
  BY <1>1, <1>3, <1>6, <1>7 DEF CommandShape
<1>9. BackedUp'
  BY <1>1 DEF BackedUp
<1>10. ASSUME cmd.op = "uninstall"
       PROVE  Passed(cmd'.at) \subseteq Passed(at) \cup {at}
  <2>1. cmd'.at = After(at)
    BY <1>1, <1>10
  <2> QED
    BY <1>2, <2>1 DEF Passed, After, Places, Files, Shared, Own
<1> QED
  BY <1>1, <1>3, <1>5, <1>8, <1>9, <1>10

-----------------------------------------------------------------------------
(* IInv is inductive *)

\* Before the first command.
LEMMA InitIInv == Init => IInv
<1> SUFFICES ASSUME Init PROVE IInv
  OBVIOUS
<1>1. /\ MaxClock \in Nat /\ MaxEdits \in Nat /\ MaxCommands \in Nat /\ MaxFaults \in Nat
      /\ InitialFiles \subseteq File /\ Missing \in File
  BY IdeConfigAssumption DEF File
<1>2. file \in [Files -> File] /\ saved \in [Files -> File]
  BY <1>1 DEF Init
<1>3. bak \in [Files -> [0..MaxClock -> File]]
  BY <1>1 DEF Init
<1>4. cmd \in Commands
  BY DEF Init, NoCmd, Commands, Places
<1>5. TypeOK
  <2>1. /\ clock \in 0..MaxClock /\ edits \in 0..MaxEdits
        /\ commands \in 0..MaxCommands /\ faults \in 0..MaxFaults
    BY <1>1 DEF Init
  <2>2. /\ markers \subseteq {"claude", "ide", "continue"} /\ exposed \subseteq Files
        /\ skill \in BOOLEAN /\ script \in BOOLEAN /\ loaded \in File
        /\ settled \in BOOLEAN /\ removed \in BOOLEAN
    BY <1>1 DEF Init
  <2> QED
    BY <1>2, <1>3, <1>4, <2>1, <2>2 DEF TypeOK, Commands, Places
<1>6. cmd.op = "none" /\ cmd.at = "end" /\ cmd.stage = "load" /\ ForClaude
  BY DEF Init, NoCmd, ForClaude, shouldInstallExtras
<1>7. CommandShape /\ BackedUp /\ Stripping
  BY <1>6 DEF CommandShape, BackedUp, Stripping
<1>8. SavedIsRecoverable
  BY DEF Init, SavedIsRecoverable, SameSave
<1>9. UninstallUndoes /\ RemovedStands /\ HookStands
  BY <1>6 DEF Init, UninstallUndoes, RemovedStands, HookStands
<1> QED
  BY <1>5, <1>7, <1>8, <1>9 DEF IInv

\* A command begins; an uninstall before it counts no longer unless it is dry.
LEMMA BeginIInv ==
    ASSUME IInv, NEW op \in {"install", "uninstall"},
           NEW ide \in {"auto", "all", "claude", "ide"}, NEW dry \in BOOLEAN,
           Begin(op, ide, dry)
    PROVE  IInv'
<1>1. /\ cmd.op = "none" /\ commands < MaxCommands /\ commands' = commands + 1
      /\ cmd' = [NoCmd EXCEPT !.op = op, !.ide = ide, !.dry = dry, !.at = "claude.json"]
      /\ removed' = (removed /\ dry)
      /\ UNCHANGED <<faults, disk, clock, loaded, edits, saved, exposed, settled>>
  BY DEF Begin
<1>2. UNCHANGED <<file, bak, markers, skill, script>>
  BY <1>1 DEF disk
<1>3. /\ cmd' \in Commands /\ cmd'.op = op /\ cmd'.ide = ide /\ cmd'.dry = dry
      /\ cmd'.at = "claude.json" /\ cmd'.stage = "load"
  BY <1>1 DEF NoCmd, Commands, Places, Files, Shared
<1>4. commands' \in 0..MaxCommands
  BY <1>1, IdeConfigAssumption DEF IInv, TypeOK
<1>5. TypeOK'
  BY <1>1, <1>2, <1>3, <1>4 DEF IInv, TypeOK, Commands, Places
<1>6. CommandShape' /\ BackedUp'
  BY <1>3 DEF CommandShape, BackedUp
<1>7. Stripping'
  <2>1. Passed(cmd'.at) = {}
    BY <1>3 DEF Passed, Own
  <2> QED
    BY <1>3, <2>1 DEF Stripping
<1>8. RemovedStands'
  BY <1>1, <1>3 DEF RemovedStands
<1>9. SavedIsRecoverable' /\ UninstallUndoes'
  BY <1>1, <1>2 DEF IInv, SavedIsRecoverable, UninstallUndoes, SameSave
<1>10. HookStands'
  BY <1>1, <1>2, <1>3 DEF IInv, HookStands, RegisteredHasScript
<1> QED
  BY <1>5, <1>6, <1>7, <1>8, <1>9, <1>10 DEF IInv

\* A writer that is not detected has no file to clean.
LEMMA SkipIInv ==
    ASSUME IInv, NEW f \in Files, Skip(f)
    PROVE  IInv'
<1> DEFINE next == After(IF f = "claude.json" THEN After(f) ELSE f)
<1>1. /\ cmd.op # "none" /\ cmd.at = f /\ cmd.stage = "load"
      /\ ~InScope(WriterOf(f)) /\ f # "settings.json"
      /\ cmd' = [cmd EXCEPT !.at = next]
      /\ UNCHANGED <<faults, disk, clock, loaded, edits, commands, watch>>
  BY DEF Skip
<1>2. UNCHANGED <<file, bak, markers, skill, script, saved, exposed, settled, removed>>
  BY <1>1 DEF disk, watch
<1>3. next \in {"ide.json", Own, "skill"}
  BY <1>1 DEF After, Files, Shared, Own
<1>4. Passed(next) \subseteq Passed(f) \cup {g \in Files : WriterOf(g) = WriterOf(f)}
  BY <1>1 DEF After, Passed, WriterOf, Files, Shared, Own
<1> HIDE DEF next
<1>5. /\ cmd' \in Commands /\ cmd'.at = next /\ cmd'.op = cmd.op /\ cmd'.ide = cmd.ide
      /\ cmd'.dry = cmd.dry /\ cmd'.stage = "load" /\ cmd'.failed = cmd.failed
  <2>1. cmd \in Commands /\ next \in Places
    BY <1>3, CommandFields DEF IInv, Places, Files, Shared
  <2> QED
    BY <1>1, <2>1 DEF Commands
<1>6. TypeOK'
  BY <1>1, <1>2, <1>5 DEF IInv, TypeOK, Commands, Places
<1>7. ForClaude' = ForClaude
  BY <1>5 DEF ForClaude, shouldInstallExtras
<1>8. CommandShape' /\ BackedUp'
  BY <1>1, <1>3, <1>5, <1>7 DEF IInv, CommandShape, BackedUp, Own
<1>9. Stripping'
  <2>1. ASSUME cmd.op = "uninstall", NEW g \in Files, WriterOf(g) = WriterOf(f)
        PROVE  file[g] = Missing
    BY <1>1, <2>1 DEF InScope, WriterFound, Detect
  <2>2. ASSUME cmd.op = "uninstall", ~cmd.dry, ~cmd.failed, NEW g \in Passed(next)
        PROVE  Clean(g)'
    <3>1. CASE g \in Passed(f)
      BY <1>1, <1>2, <2>2, <3>1 DEF IInv, Stripping, Clean
    <3>2. CASE g \in Files /\ WriterOf(g) = WriterOf(f)
      BY <1>2, <2>1, <2>2, <3>2 DEF Clean
    <3> QED
      BY <1>4, <2>2, <3>1, <3>2
  <2> QED
    BY <1>5, <2>2 DEF Stripping
<1>10. SavedIsRecoverable' /\ UninstallUndoes'
  BY <1>2 DEF IInv, SavedIsRecoverable, UninstallUndoes, SameSave
<1>11. RemovedStands'
  BY <1>2, <1>5 DEF IInv, RemovedStands
<1>12. HookStands'
  BY <1>1, <1>2, <1>3, <1>5, <1>7 DEF IInv, HookStands, RegisteredHasScript, Own
<1> QED
  BY <1>6, <1>8, <1>9, <1>10, <1>11, <1>12 DEF IInv

\* A command leaves a place without having changed a file: what it leaves as it
\* is must be clean in an uninstall, the script in place after an install, and
\* what a failed backup did must leave the saves recoverable.
LEMMA LeaveIInv ==
    ASSUME IInv, NEW fails \in BOOLEAN, Proceed(fails), faults' \in 0..MaxFaults,
           cmd.op # "none", cmd.at # "end",
           ~ForClaude => cmd.at # "claude.json",
           UNCHANGED <<file, clock, edits, commands, saved, settled, removed>>,
           bak' \in [Files -> [0..MaxClock -> File]], exposed' \subseteq Files,
           SavedIsRecoverable',
           skill' \in BOOLEAN, script' \in BOOLEAN,
           markers' \subseteq {"claude", "ide", "continue"},
           cmd.op = "uninstall" /\ ~cmd.dry /\ ~fails /\ cmd.at \in Files => Clean(cmd.at),
           cmd.dry \/ ~ForClaude => script' = script,
           cmd.op = "install" /\ ~cmd.dry /\ ForClaude /\ ~fails /\ cmd.at = "script" => script'
    PROVE  IInv'
<1>1. /\ CommandShape' /\ BackedUp'
      /\ ForClaude' = ForClaude
      /\ cmd'.op = cmd.op /\ cmd'.dry = cmd.dry
      /\ cmd'.failed = (cmd.failed \/ fails) /\ cmd'.stage = "load"
      /\ cmd'.at = "end" => cmd.at = "script"
      /\ cmd.op = "uninstall" => Passed(cmd'.at) \subseteq Passed(cmd.at) \cup {cmd.at}
      /\ cmd' \in Commands /\ loaded' \in File
  BY ProceedShape
<1>2. UNCHANGED <<file, clock, edits, commands, saved, settled, removed>>
  OBVIOUS
<1>3. TypeOK'
  BY <1>1, <1>2 DEF IInv, TypeOK, Commands, Places
<1>4. Stripping'
  <2>1. ASSUME cmd.op = "uninstall", ~cmd.dry, ~cmd'.failed, NEW g \in Passed(cmd'.at)
        PROVE  Clean(g)'
    <3>1. ~cmd.failed /\ ~fails
      BY <1>1, <2>1
    <3>2. g \in Files
      BY <2>1 DEF Passed, Files, Shared, Own
    <3>3. CASE g \in Passed(cmd.at)
      BY <1>2, <2>1, <3>1, <3>3 DEF IInv, Stripping, Clean
    <3>4. CASE g = cmd.at
      BY <1>2, <2>1, <3>1, <3>2, <3>4 DEF Clean
    <3> QED
      BY <1>1, <2>1, <3>3, <3>4
  <2> QED
    BY <1>1, <2>1 DEF Stripping
<1>5. UninstallUndoes'
  BY <1>2 DEF IInv, UninstallUndoes
<1>6. RemovedStands'
  BY <1>1, <1>2 DEF IInv, RemovedStands
<1>7. HookStands'
  BY <1>1, <1>2 DEF IInv, HookStands, RegisteredHasScript
<1> QED
  BY <1>1, <1>3, <1>4, <1>5, <1>6, <1>7 DEF IInv

\* Nor has it touched a backup.
LEMMA PassIInv ==
    ASSUME IInv, NEW fails \in BOOLEAN, Proceed(fails), faults' \in 0..MaxFaults,
           cmd.op # "none", cmd.at # "end",
           ~ForClaude => cmd.at # "claude.json",
           UNCHANGED <<file, bak, clock, edits, commands, watch>>,
           skill' \in BOOLEAN, script' \in BOOLEAN,
           markers' \subseteq {"claude", "ide", "continue"},
           cmd.op = "uninstall" /\ ~cmd.dry /\ ~fails /\ cmd.at \in Files => Clean(cmd.at),
           cmd.dry \/ ~ForClaude => script' = script,
           cmd.op = "install" /\ ~cmd.dry /\ ForClaude /\ ~fails /\ cmd.at = "script" => script'
    PROVE  IInv'
<1>1. UNCHANGED <<file, bak, clock, edits, commands, saved, exposed, settled, removed>>
  BY DEF watch
<1>2. bak' \in [Files -> [0..MaxClock -> File]] /\ exposed' \subseteq Files
  BY <1>1 DEF IInv, TypeOK
<1>3. SavedIsRecoverable'
  BY <1>1 DEF IInv, SavedIsRecoverable, SameSave
<1> QED
  BY <1>1, <1>2, <1>3, LeaveIInv

\* A command goes on to another stage of the same file.
LEMMA StageIInv ==
    ASSUME IInv, NEW f \in Files, NEW stage \in {"found", "absent", "backup", "replace"},
           cmd.op # "none", cmd.at = f, ~ForClaude => f # "claude.json",
           cmd' = [cmd EXCEPT !.stage = stage], loaded' \in File, faults' \in 0..MaxFaults,
           UNCHANGED <<file, bak, markers, skill, script, clock, edits, commands, watch>>,
           stage = "absent" => cmd.op = "install",
           stage \in {"backup", "replace"} => ~cmd.dry,
           stage \in {"absent", "replace"} /\ saved[f] # Missing /\ f \notin exposed => Backed(f),
           cmd.op = "uninstall" /\ stage \in {"backup", "replace"} =>
              loaded' = Missing \/ loaded'.ours = {}
    PROVE  IInv'
<1>1. /\ cmd' \in Commands /\ cmd'.at = f /\ cmd'.op = cmd.op /\ cmd'.ide = cmd.ide
      /\ cmd'.dry = cmd.dry /\ cmd'.stage = stage /\ cmd'.failed = cmd.failed
  BY CommandFields DEF IInv, Commands
<1>2. UNCHANGED <<file, bak, markers, skill, script, saved, exposed, settled, removed>>
  BY DEF watch
<1>3. TypeOK'
  BY <1>1, <1>2 DEF IInv, TypeOK, Commands, Places
<1>4. ForClaude' = ForClaude
  BY <1>1 DEF ForClaude, shouldInstallExtras
<1>5. f # "end" /\ f # "script"
  BY DEF Files, Shared, Own
<1>6. CommandShape'
  BY <1>1, <1>4 DEF IInv, CommandShape
<1>7. BackedUp'
  <2>1. Backed(f)' = Backed(f)
    BY <1>2 DEF Backed, SameSave
  <2> QED
    BY <1>1, <1>2, <2>1 DEF BackedUp
<1>8. Stripping'
  <2>1. cmd.op = "uninstall" /\ ~cmd.dry /\ ~cmd.failed => \A g \in Passed(f) : Clean(g)'
    BY <1>2 DEF IInv, Stripping, Clean
  <2> QED
    BY <1>1, <2>1 DEF Stripping
<1>9. SavedIsRecoverable' /\ UninstallUndoes'
  BY <1>2 DEF IInv, SavedIsRecoverable, UninstallUndoes, SameSave
<1>10. RemovedStands'
  BY <1>1, <1>2 DEF IInv, RemovedStands
<1>11. HookStands'
  BY <1>1, <1>2, <1>4, <1>5 DEF IInv, HookStands, RegisteredHasScript
<1> QED
  BY <1>3, <1>6, <1>7, <1>8, <1>9, <1>10, <1>11 DEF IInv

\* Looking for the file: what is not there has been backed up, or never saved.
LEMMA FileExistsIInv ==
    ASSUME IInv, NEW f \in Files, fileExists(f)
    PROVE  IInv'
<1>1. /\ cmd.op # "none" /\ cmd.at = f /\ cmd.stage = "load"
      /\ InScope(WriterOf(f)) \/ f = "settings.json"
      /\ UNCHANGED <<faults, file, bak, markers, skill, script, clock, edits, commands, watch>>
  BY DEF fileExists, disk
<1>2. f # "end" /\ f # "script"
  BY DEF Files, Shared, Own
<1>3. ASSUME ~ForClaude PROVE f # "claude.json"
  <2>1. cmd.op # "uninstall" /\ cmd.ide = "ide" /\ f # "settings.json"
    BY <1>1, <1>3, NotForClaude DEF IInv, CommandShape
  <2>2. InScope("claude") => FALSE
    BY <1>1, <2>1 DEF InScope
  <2> QED
    BY <1>1, <2>1, <2>2 DEF WriterOf, Own
<1>4. /\ faults' \in 0..MaxFaults /\ skill' \in BOOLEAN /\ script' \in BOOLEAN
      /\ markers' \subseteq {"claude", "ide", "continue"} /\ loaded \in File
  BY <1>1 DEF IInv, TypeOK
<1>5. CASE OnlyTells \/ (cmd.op = "uninstall" /\ file[f] = Missing)
  <2>1. Proceed(FALSE) /\ FALSE \in BOOLEAN
    BY <1>5 DEF fileExists
  <2>2. cmd.op = "uninstall" /\ ~cmd.dry => Clean(f)
    BY <1>5 DEF OnlyTells, Clean
  <2> QED
    BY <1>1, <1>2, <1>3, <1>4, <2>1, <2>2, PassIInv
<1>6. CASE ~(OnlyTells \/ (cmd.op = "uninstall" /\ file[f] = Missing))
  <2> DEFINE stage == IF file[f] = Missing THEN "absent" ELSE "found"
  <2>1. cmd' = [cmd EXCEPT !.stage = stage] /\ loaded' = loaded
    BY <1>6 DEF fileExists
  <2>2. stage \in {"found", "absent"} /\ (stage = "absent" => file[f] = Missing)
    OBVIOUS
  <2>3. stage = "absent" => cmd.op = "install"
    BY <1>1, <1>6, <2>2, CommandFields DEF IInv
  <2>4. stage = "absent" /\ saved[f] # Missing /\ f \notin exposed => Backed(f)
    BY <2>2 DEF IInv, SavedIsRecoverable, SameSave, Backed
  <2> HIDE DEF stage
  <2> QED
    BY <1>1, <1>3, <1>4, <2>1, <2>2, <2>3, <2>4, StageIInv
<1> QED
  BY <1>5, <1>6

\* Read, parse and mutate.
LEMMA LoadIInv ==
    ASSUME IInv, NEW f \in Files, NEW c \in Seen(f), NEW ok \in BOOLEAN, Load(f, c, ok)
    PROVE  IInv'
<1>1. /\ cmd.at = f /\ cmd.stage \in {"found", "absent"} /\ Works(ok)
      /\ UNCHANGED <<file, bak, markers, skill, script, clock, edits, commands, watch>>
  BY DEF Load, disk
<1>2. IF ~Readable(f, c, ok) THEN Proceed(TRUE)
      ELSE IF cmd.dry \/ Wanted(f, c) = c THEN Proceed(FALSE)
      ELSE /\ loaded' = Wanted(f, c)
           /\ cmd' = [cmd EXCEPT !.stage = IF cmd.stage = "found" THEN "backup" ELSE "replace"]
  BY DEF Load
<1>3. /\ cmd.op # "none" /\ f # "end" /\ f # "script"
      /\ ~ForClaude => f # "claude.json"
      /\ cmd.op = "uninstall" => c = file[f]
  BY <1>1 DEF IInv, CommandShape, Seen, Files, Shared, Own
<1>4. faults' \in 0..MaxFaults
  BY <1>1, WorksType DEF IInv
<1>5. /\ c \in File /\ skill' \in BOOLEAN /\ script' \in BOOLEAN
      /\ markers' \subseteq {"claude", "ide", "continue"}
  BY <1>1 DEF IInv, TypeOK, Seen, File
<1>6. CASE ~Readable(f, c, ok)
  <2>1. Proceed(TRUE) /\ TRUE \in BOOLEAN
    BY <1>2, <1>6
  <2> QED
    BY <1>1, <1>3, <1>4, <1>5, <2>1, PassIInv
<1>7. CASE Readable(f, c, ok) /\ (cmd.dry \/ Wanted(f, c) = c)
  <2>1. Proceed(FALSE) /\ FALSE \in BOOLEAN
    BY <1>2, <1>7
  <2>2. cmd.op = "uninstall" /\ ~cmd.dry => Clean(f)
    BY <1>3, <1>5, <1>7, WantedClean DEF Clean
  <2> QED
    BY <1>1, <1>3, <1>4, <1>5, <2>1, <2>2, PassIInv
<1>8. CASE Readable(f, c, ok) /\ ~cmd.dry /\ Wanted(f, c) # c
  <2> DEFINE stage == IF cmd.stage = "found" THEN "backup" ELSE "replace"
  <2>1. loaded' = Wanted(f, c) /\ cmd' = [cmd EXCEPT !.stage = stage]
    BY <1>2, <1>8
  <2>2. stage \in {"backup", "replace"} /\ (stage = "replace" => cmd.stage = "absent")
    BY <1>1
  <2>3. stage = "replace" /\ saved[f] # Missing /\ f \notin exposed => Backed(f)
    BY <1>1, <2>2 DEF IInv, BackedUp
  <2>4. loaded' \in File
    BY <1>5, <2>1, WantedType
  <2>5. cmd.op = "uninstall" /\ loaded' # Missing => loaded'.ours = {}
    BY <1>5, <2>1, WantedClean
  <2> HIDE DEF stage
  <2> QED
    BY <1>1, <1>3, <1>4, <1>8, <2>1, <2>2, <2>3, <2>4, <2>5, StageIInv
<1> QED
  BY <1>6, <1>7, <1>8

\* Writing a backup, whole or not, takes nothing from a file that is not
\* exposed by it; the whole one is a backup of what the user saved.
LEMMA BackupBecomesKeeps ==
    ASSUME IInv, NEW f \in Files, NEW c \in {file[f], Missing}, BackupBecomes(f, c),
           UNCHANGED <<file, saved>>
    PROVE  /\ bak' \in [Files -> [0..MaxClock -> File]] /\ exposed' \subseteq Files
           /\ SavedIsRecoverable'
           /\ c = file[f] /\ saved[f] # Missing /\ f \notin exposed' => Backed(f)'
<1>1. /\ bak' = [bak EXCEPT ![f][clock] = c]
      /\ exposed' = IF bak[f][clock] \notin {Missing, file[f]}
                    THEN exposed \cup {f} ELSE exposed
  BY DEF BackupBecomes
<1>2. /\ file \in [Files -> File] /\ bak \in [Files -> [0..MaxClock -> File]]
      /\ clock \in 0..MaxClock /\ c \in File
  BY DEF IInv, TypeOK, File
<1>3. bak' \in [Files -> [0..MaxClock -> File]] /\ exposed' \subseteq Files
  BY <1>1, <1>2 DEF IInv, TypeOK
<1>4. /\ bak'[f][clock] = c
      /\ \A s \in 0..MaxClock : s # clock => bak'[f][s] = bak[f][s]
      /\ \A g \in Files : g # f => bak'[g] = bak[g]
  BY <1>1, <1>2
<1>5. ASSUME saved[f] # Missing, f \notin exposed', ~SameSave(file[f], saved[f]) PROVE Backed(f)'
  <2>1. f \notin exposed /\ bak[f][clock] \in {Missing, file[f]}
    BY <1>1, <1>5
  <2>2. PICK s \in 0..MaxClock : SameSave(bak[f][s], saved[f])
    BY <1>5, <2>1 DEF IInv, SavedIsRecoverable
  <2>3. s # clock
    BY <1>5, <2>1, <2>2 DEF SameSave
  <2> QED
    BY <1>4, <2>2, <2>3 DEF Backed, SameSave
<1>6. ASSUME c = file[f], SameSave(file[f], saved[f]) PROVE Backed(f)'
  BY <1>2, <1>4, <1>6 DEF Backed, SameSave
<1>7. SavedIsRecoverable'
  <2>1. ASSUME NEW g \in Files, saved'[g] # Missing, g \notin exposed'
        PROVE  \/ SameSave(file'[g], saved'[g])
               \/ \E s \in 0..MaxClock : SameSave(bak'[g][s], saved'[g])
    <3>1. CASE g = f
      BY <1>5, <2>1, <3>1 DEF Backed
    <3>2. CASE g # f
      BY <1>1, <1>4, <2>1, <3>2 DEF IInv, SavedIsRecoverable
    <3> QED
      BY <3>1, <3>2
  <2> QED
    BY <2>1 DEF SavedIsRecoverable
<1> QED
  BY <1>3, <1>5, <1>6, <1>7

\* The backup holds what the file holds; a backup of the same second that held
\* something else exposes the file.
LEMMA BackupIInv ==
    ASSUME IInv, NEW f \in Files, NEW ok \in BOOLEAN, backupFile(f, ok)
    PROVE  IInv'
<1>1. /\ Works(ok) /\ cmd.at = f /\ cmd.stage = "backup"
      /\ UNCHANGED <<file, markers, skill, script, clock, edits, commands, saved, settled, removed>>
  BY DEF backupFile
<1>2. cmd.op # "none" /\ ~cmd.dry /\ f # "end" /\ f # "script" /\ (~ForClaude => f # "claude.json")
  BY <1>1 DEF IInv, CommandShape, Files, Shared, Own
<1>3. faults' \in 0..MaxFaults
  BY <1>1, WorksType DEF IInv
<1>4. /\ skill' \in BOOLEAN /\ script' \in BOOLEAN
      /\ markers' \subseteq {"claude", "ide", "continue"}
  BY <1>1 DEF IInv, TypeOK
<1>5. CASE ~ok
  <2>1. /\ Proceed(TRUE) /\ TRUE \in BOOLEAN
        /\ BackupBecomes(f, Missing) \/ UNCHANGED <<bak, exposed>>
    BY <1>5 DEF backupFile
  <2>2. CASE BackupBecomes(f, Missing)
    <3>1. /\ bak' \in [Files -> [0..MaxClock -> File]] /\ exposed' \subseteq Files
          /\ SavedIsRecoverable'
      BY <1>1, <2>2, BackupBecomesKeeps
    <3> QED
      BY <1>1, <1>2, <1>3, <1>4, <2>1, <3>1, LeaveIInv
  <2>3. CASE UNCHANGED <<bak, exposed>>
    BY <1>1, <1>2, <1>3, <1>4, <2>1, <2>3, PassIInv DEF watch
  <2> QED
    BY <2>1, <2>2, <2>3
<1>6. CASE ok
  <2>1. /\ BackupBecomes(f, file[f])
        /\ cmd' = [cmd EXCEPT !.stage = "replace"] /\ UNCHANGED loaded
    BY <1>6 DEF backupFile
  <2>2. /\ cmd' \in Commands /\ cmd'.at = f /\ cmd'.op = cmd.op /\ cmd'.ide = cmd.ide
        /\ cmd'.dry = cmd.dry /\ cmd'.stage = "replace" /\ cmd'.failed = cmd.failed
    BY <1>1, <2>1, CommandFields DEF IInv, Commands
  <2>3. /\ bak' \in [Files -> [0..MaxClock -> File]] /\ exposed' \subseteq Files
        /\ SavedIsRecoverable'
        /\ saved[f] # Missing /\ f \notin exposed' => Backed(f)'
    BY <1>1, <2>1, BackupBecomesKeeps
  <2>4. TypeOK'
    BY <1>1, <1>3, <2>1, <2>2, <2>3 DEF IInv, TypeOK, Commands, Places
  <2>5. ForClaude' = ForClaude
    BY <2>2 DEF ForClaude, shouldInstallExtras
  <2>6. CommandShape'
    BY <1>1, <1>2, <2>2, <2>5 DEF IInv, CommandShape
  <2>7. BackedUp'
    BY <1>1, <2>2, <2>3 DEF BackedUp
  <2>8. Stripping'
    BY <1>1, <2>1, <2>2 DEF IInv, Stripping, Clean
  <2>9. UninstallUndoes' /\ RemovedStands'
    BY <1>1, <2>2 DEF IInv, UninstallUndoes, RemovedStands
  <2>10. HookStands'
    BY <1>1, <1>2, <2>2, <2>5 DEF IInv, HookStands, RegisteredHasScript
  <2> QED
    BY <2>3, <2>4, <2>6, <2>7, <2>8, <2>9, <2>10 DEF IInv
<1> QED
  BY <1>5, <1>6

\* The replacement takes away only what has been backed up.
LEMMA WriteIInv ==
    ASSUME IInv, NEW f \in Files, NEW ok \in BOOLEAN, writeFileAtomic(f, ok)
    PROVE  IInv'
<1>1. /\ Works(ok) /\ cmd.at = f /\ cmd.stage = "replace"
      /\ file' = IF ok THEN [file EXCEPT ![f] = loaded] ELSE file
      /\ markers' = IF loaded = Missing THEN markers ELSE markers \cup
                       (IF f = "claude.json" THEN {} ELSE {WriterOf(f)})
      /\ Proceed(~ok) /\ (~ok) \in BOOLEAN
      /\ UNCHANGED <<bak, skill, script, clock, edits, commands, saved, exposed, settled, removed>>
  BY DEF writeFileAtomic, watch
<1>2. /\ cmd.op # "none" /\ ~cmd.dry /\ f # "end" /\ f # "script"
      /\ ~ForClaude => f # "claude.json" /\ f # "settings.json"
  BY <1>1 DEF IInv, CommandShape, Files, Shared, Own
<1>3. faults' \in 0..MaxFaults
  BY <1>1, WorksType DEF IInv
<1>4. /\ CommandShape' /\ BackedUp'
      /\ ForClaude' = ForClaude
      /\ cmd'.op = cmd.op /\ cmd'.dry = cmd.dry
      /\ cmd'.failed = (cmd.failed \/ ~ok) /\ cmd'.stage = "load"
      /\ cmd'.at = "end" => cmd.at = "script"
      /\ cmd.op = "uninstall" => Passed(cmd'.at) \subseteq Passed(cmd.at) \cup {cmd.at}
      /\ cmd' \in Commands /\ loaded' \in File
  BY <1>1, <1>2, ProceedShape
<1>5. file \in [Files -> File] /\ loaded \in File
  BY DEF IInv, TypeOK
<1>6. /\ file' \in [Files -> File]
      /\ \A g \in Files : g # f => file'[g] = file[g]
      /\ ok => file'[f] = loaded
  BY <1>1, <1>5
<1>7. TypeOK'
  <2>1. WriterOf(f) \in {"claude", "ide", "continue"}
    BY DEF WriterOf
  <2>2. markers' \subseteq {"claude", "ide", "continue"}
    BY <1>1, <2>1 DEF IInv, TypeOK
  <2> QED
    BY <1>1, <1>3, <1>4, <1>6, <2>2 DEF IInv, TypeOK, Commands, Places
<1>8. SavedIsRecoverable'
  <2>1. ASSUME NEW g \in Files, saved[g] # Missing, g \notin exposed
        PROVE  \/ SameSave(file'[g], saved[g])
               \/ \E s \in 0..MaxClock : SameSave(bak[g][s], saved[g])
    <3>1. CASE g = f
      BY <1>1, <2>1, <3>1 DEF IInv, BackedUp, Backed
    <3>2. CASE g # f
      BY <1>6, <2>1, <3>2 DEF IInv, SavedIsRecoverable
    <3> QED
      BY <3>1, <3>2
  <2> QED
    BY <1>1, <2>1 DEF SavedIsRecoverable
<1>9. Stripping'
  <2>1. ASSUME cmd.op = "uninstall", ~cmd.dry, ~cmd'.failed, NEW g \in Passed(cmd'.at)
        PROVE  Clean(g)'
    <3>1. ~cmd.failed /\ ok
      BY <1>4, <2>1
    <3>2. g \in Files
      BY <2>1 DEF Passed, Files, Shared, Own
    <3>3. CASE g = f
      BY <1>1, <1>6, <2>1, <3>1, <3>3 DEF IInv, Stripping, Clean
    <3>4. CASE g # f
      BY <1>1, <1>4, <1>6, <2>1, <3>1, <3>2, <3>4 DEF IInv, Stripping, Clean
    <3> QED
      BY <3>3, <3>4
  <2> QED
    BY <1>4, <2>1 DEF Stripping
<1>10. RemovedStands' /\ UninstallUndoes'
  BY <1>1, <1>2 DEF IInv, RemovedStands, UninstallUndoes
<1>11. HookStands'
  <2>1. "settings.json" \in Files
    BY DEF Files, Shared
  <2> QED
    BY <1>1, <1>2, <1>4, <1>6, <2>1 DEF IInv, HookStands, RegisteredHasScript
<1> QED
  BY <1>4, <1>7, <1>8, <1>9, <1>10, <1>11 DEF IInv

\* The skill comes and goes without the hook.
LEMMA SkillIInv ==
    ASSUME IInv, NEW ok \in BOOLEAN, Skill(ok)
    PROVE  IInv'
<1>1. /\ Works(ok) /\ cmd.at = "skill"
      /\ UNCHANGED <<file, bak, script, clock, edits, commands, watch>>
  BY DEF Skill
<1>2. cmd.op # "none"
  BY <1>1 DEF IInv, CommandShape
<1>3. \E fails \in BOOLEAN : Proceed(fails)
  BY DEF Skill
<1>4. skill' \in BOOLEAN /\ markers' \subseteq {"claude", "ide", "continue"}
  BY DEF Skill, removePath, IInv, TypeOK
<1>5. faults' \in 0..MaxFaults /\ script' \in BOOLEAN
  BY <1>1, WorksType DEF IInv, TypeOK
<1>6. cmd.at \notin Files /\ cmd.at # "end" /\ cmd.at # "claude.json" /\ cmd.at # "script"
  BY <1>1 DEF Files, Shared, Own
<1> QED
  BY <1>1, <1>2, <1>3, <1>4, <1>5, <1>6, PassIInv

\* The old script is moved away; an install goes on to write the new one.
LEMMA MoveScriptIInv ==
    ASSUME IInv, NEW ok \in BOOLEAN, MoveScript(ok)
    PROVE  IInv'
<1>1. /\ Works(ok) /\ cmd.at = "script" /\ cmd.stage = "load"
      /\ UNCHANGED <<file, bak, markers, skill, clock, edits, commands, watch>>
  BY DEF MoveScript
<1>2. cmd.op # "none" /\ cmd.at \notin Files /\ cmd.at # "end" /\ cmd.at # "claude.json"
  BY <1>1 DEF IInv, CommandShape, Files, Shared, Own
<1>3. /\ faults' \in 0..MaxFaults
      /\ skill' \in BOOLEAN /\ markers' \subseteq {"claude", "ide", "continue"}
  BY <1>1, WorksType DEF IInv, TypeOK
<1>4. script' \in BOOLEAN
  BY DEF MoveScript, removePath, IInv, TypeOK
<1>5. CASE cmd.dry \/ ~ForClaude
  <2>1. Proceed(FALSE) /\ FALSE \in BOOLEAN /\ UNCHANGED script
    BY <1>5 DEF MoveScript
  <2> QED
    BY <1>1, <1>2, <1>3, <1>4, <1>5, <2>1, PassIInv
<1>6. CASE ~(cmd.dry \/ ~ForClaude) /\ ~(ok /\ cmd.op = "install")
  <2> DEFINE fails == ~ok /\ cmd.op = "install"
  <2>1. Proceed(fails) /\ fails \in BOOLEAN
    BY <1>6 DEF MoveScript
  <2>2. ~(cmd.op = "install" /\ ~fails)
    BY <1>6
  <2> HIDE DEF fails
  <2> QED
    BY <1>1, <1>2, <1>3, <1>4, <1>6, <2>1, <2>2, PassIInv
<1>7. CASE ~(cmd.dry \/ ~ForClaude) /\ ok /\ cmd.op = "install"
  <2>1. cmd' = [cmd EXCEPT !.stage = "write"] /\ UNCHANGED loaded
    BY <1>7 DEF MoveScript
  <2>2. /\ cmd' \in Commands /\ cmd'.at = "script" /\ cmd'.op = cmd.op /\ cmd'.ide = cmd.ide
        /\ cmd'.dry = cmd.dry /\ cmd'.stage = "write" /\ cmd'.failed = cmd.failed
    BY <1>1, <2>1, CommandFields DEF IInv, Commands
  <2>3. UNCHANGED <<file, bak, markers, skill, saved, exposed, settled, removed>>
    BY <1>1 DEF watch
  <2>4. TypeOK'
    BY <1>1, <1>3, <1>4, <2>1, <2>2, <2>3 DEF IInv, TypeOK, Commands, Places
  <2>5. ForClaude' = ForClaude
    BY <2>2 DEF ForClaude, shouldInstallExtras
  <2>6. CommandShape' /\ BackedUp' /\ Stripping'
    BY <1>2, <1>7, <2>2, <2>5 DEF CommandShape, BackedUp, Stripping
  <2>7. SavedIsRecoverable' /\ UninstallUndoes'
    BY <2>3 DEF IInv, SavedIsRecoverable, UninstallUndoes, SameSave
  <2>8. RemovedStands'
    BY <2>2, <2>3 DEF IInv, RemovedStands
  <2>9. HookStands'
    BY <1>2, <1>7, <2>2, <2>5 DEF HookStands
  <2> QED
    BY <2>4, <2>6, <2>7, <2>8, <2>9 DEF IInv
<1> QED
  BY <1>5, <1>6, <1>7

\* The new script is there, or the command has failed.
LEMMA WriteScriptIInv ==
    ASSUME IInv, NEW ok \in BOOLEAN, WriteScript(ok)
    PROVE  IInv'
<1>1. /\ Works(ok) /\ cmd.at = "script" /\ cmd.stage = "write"
      /\ script' = ok /\ markers' = markers \cup {"claude"}
      /\ Proceed(~ok) /\ (~ok) \in BOOLEAN
      /\ UNCHANGED <<file, bak, skill, clock, edits, commands, watch>>
  BY DEF WriteScript
<1>2. /\ cmd.op # "none" /\ cmd.at \notin Files /\ cmd.at # "end" /\ cmd.at # "claude.json"
      /\ ~cmd.dry /\ ForClaude
  BY <1>1 DEF IInv, CommandShape, Files, Shared, Own
<1>3. /\ faults' \in 0..MaxFaults
      /\ skill' \in BOOLEAN /\ markers' \subseteq {"claude", "ide", "continue"}
  BY <1>1, WorksType DEF IInv, TypeOK
<1> QED
  BY <1>1, <1>2, <1>3, PassIInv

\* The exit code tells what the files and the script show.
LEMMA FinishIInv ==
    ASSUME IInv, Finish
    PROVE  IInv'
<1>1. /\ cmd.op # "none" /\ cmd.at = "end" /\ cmd' = NoCmd
      /\ settled' = IF cmd.dry \/ ~ForClaude THEN settled ELSE ~cmd.failed
      /\ removed' = IF cmd.dry THEN removed ELSE cmd.op = "uninstall" /\ ~cmd.failed
      /\ UNCHANGED <<faults, file, bak, markers, skill, script, clock, loaded, edits,
                     commands, saved, exposed>>
  BY DEF Finish, disk
<1>2. /\ cmd' \in Commands /\ cmd'.op = "none" /\ cmd'.at = "end" /\ cmd'.stage = "load"
      /\ ForClaude'
  BY <1>1 DEF NoCmd, Commands, Places, ForClaude, shouldInstallExtras
<1>3. settled' \in BOOLEAN /\ removed' \in BOOLEAN
  BY <1>1, CommandFields DEF IInv, TypeOK
<1>4. TypeOK'
  BY <1>1, <1>2, <1>3 DEF IInv, TypeOK, Commands, Places
<1>5. CommandShape' /\ BackedUp' /\ Stripping' /\ RemovedStands'
  BY <1>2 DEF CommandShape, BackedUp, Stripping, RemovedStands, Files, Shared, Own
<1>6. SavedIsRecoverable'
  BY <1>1 DEF IInv, SavedIsRecoverable, SameSave
<1>7. cmd.op = "uninstall" /\ ~cmd.dry /\ ~cmd.failed => \A f \in Files : Clean(f)
  <2>1. Passed(cmd.at) = Files
    BY <1>1 DEF Passed, Own
  <2> QED
    BY <2>1 DEF IInv, Stripping
<1>8. UninstallUndoes'
  BY <1>1, <1>7 DEF IInv, UninstallUndoes, Clean
<1>9. HookStands'
  <2>1. CASE cmd.dry \/ ~ForClaude
    BY <1>1, <1>2, <2>1 DEF IInv, HookStands, RegisteredHasScript
  <2>2. CASE ~(cmd.dry \/ ~ForClaude) /\ cmd.op = "uninstall"
    <3>1. "settings.json" \in Files
      BY DEF Files, Shared
    <3>2. settled' => Clean("settings.json")
      BY <1>1, <1>7, <2>2, <3>1
    <3> QED
      BY <1>1, <1>2, <3>2 DEF HookStands, RegisteredHasScript, Clean
  <2>3. CASE ~(cmd.dry \/ ~ForClaude) /\ cmd.op # "uninstall"
    <3>1. cmd.op = "install"
      BY <1>1, <2>3, CommandFields DEF IInv
    <3> QED
      BY <1>1, <1>2, <2>3, <3>1 DEF IInv, HookStands, RegisteredHasScript
  <2> QED
    BY <2>1, <2>2, <2>3
<1> QED
  BY <1>4, <1>5, <1>6, <1>8, <1>9 DEF IInv

\* A killed command has told nothing.
LEMMA CrashIInv ==
    ASSUME IInv, Crash
    PROVE  IInv'
<1>1. /\ Works(FALSE) /\ FALSE \in BOOLEAN /\ cmd.op # "none"
      /\ cmd' = NoCmd /\ loaded' = Missing
      /\ settled' = (settled /\ (cmd.dry \/ ~ForClaude))
      /\ UNCHANGED <<file, markers, skill, script, clock, edits, commands, saved, removed>>
  BY DEF Crash
<1>2. /\ cmd' \in Commands /\ cmd'.op = "none" /\ cmd'.at = "end" /\ cmd'.stage = "load"
      /\ ForClaude'
  BY <1>1 DEF NoCmd, Commands, Places, ForClaude, shouldInstallExtras
<1>3. settled' \in BOOLEAN /\ faults' \in 0..MaxFaults /\ loaded' \in File
  BY <1>1, WorksType DEF IInv, TypeOK, File
<1>4. /\ bak' \in [Files -> [0..MaxClock -> File]] /\ exposed' \subseteq Files
      /\ SavedIsRecoverable'
  <2>1. CASE cmd.stage = "backup" /\ BackupBecomes(cmd.at, Missing)
    <3>1. cmd.at \in Files
      BY <2>1 DEF IInv, CommandShape
    <3> QED
      BY <1>1, <2>1, <3>1, BackupBecomesKeeps
  <2>2. CASE UNCHANGED <<bak, exposed>>
    BY <1>1, <2>2 DEF IInv, TypeOK, SavedIsRecoverable, SameSave
  <2> QED
    BY <2>1, <2>2 DEF Crash
<1>5. TypeOK'
  BY <1>1, <1>2, <1>3, <1>4 DEF IInv, TypeOK, Commands, Places
<1>6. CommandShape' /\ BackedUp' /\ Stripping' /\ RemovedStands'
  BY <1>2 DEF CommandShape, BackedUp, Stripping, RemovedStands, Files, Shared, Own
<1>7. UninstallUndoes'
  BY <1>1 DEF IInv, UninstallUndoes
<1>8. HookStands'
  BY <1>1, <1>2 DEF IInv, HookStands, RegisteredHasScript
<1> QED
  BY <1>4, <1>5, <1>6, <1>7, <1>8 DEF IInv

\* The user's own save is in the file; if a replacement is pending, it is exposed.
LEMMA SaveIInv ==
    ASSUME IInv, NEW f \in Files, NEW parses \in BOOLEAN, NEW notes \in BOOLEAN,
           Save(f, parses, notes)
    PROVE  IInv'
<1> DEFINE ours == IF file[f] = Missing THEN {} ELSE file[f].ours
           new == [parses |-> parses, user |-> edits + 1, notes |-> notes, ours |-> ours]
<1>1. /\ edits < MaxEdits /\ edits' = edits + 1
      /\ file' = [file EXCEPT ![f] = new]
      /\ saved' = [saved EXCEPT ![f] = file'[f]]
      /\ exposed' = IF cmd.op # "none" /\ cmd.at = f /\ cmd.stage \in {"absent", "replace"}
                    THEN exposed \cup {f} ELSE exposed \ {f}
      /\ UNCHANGED <<faults, bak, markers, skill, script, clock, cmd, loaded, commands, settled, removed>>
  BY DEF Save
<1>2. file \in [Files -> File] /\ saved \in [Files -> File] /\ edits' \in 0..MaxEdits
  BY <1>1, IdeConfigAssumption DEF IInv, TypeOK
<1>3. ours \in SUBSET {"stale", "current"}
  BY <1>2 DEF File, Contents
<1>4. new.ours = ours /\ (file[f] # Missing => ours = file[f].ours) /\ (file[f] = Missing => ours = {})
  OBVIOUS
<1> HIDE DEF ours
<1>5. new \in Contents /\ new # Missing
  <2>1. edits + 1 \in 0..MaxEdits
    BY <1>1, <1>2
  <2>2. new \in Contents
    BY <1>3, <2>1 DEF Contents
  <2>3. Missing \notin Contents
    BY IdeConfigAssumption
  <2> QED
    BY <2>2, <2>3
<1> HIDE DEF new
<1>6. /\ file'[f] = new /\ saved'[f] = new
      /\ \A g \in Files : g # f => file'[g] = file[g] /\ saved'[g] = saved[g]
      /\ file' \in [Files -> File] /\ saved' \in [Files -> File]
  BY <1>1, <1>2, <1>5 DEF File
<1>7. TypeOK'
  <2>1. exposed' \subseteq Files
    BY <1>1 DEF IInv, TypeOK
  <2> QED
    BY <1>1, <1>2, <1>6, <2>1 DEF IInv, TypeOK
<1>8. CommandShape' /\ RemovedStands'
  BY <1>1 DEF IInv, CommandShape, RemovedStands, ForClaude, shouldInstallExtras
<1>9. ASSUME NEW g \in Files PROVE Clean(g) => Clean(g)'
  <2>1. CASE g = f
    BY <1>4, <1>6, <2>1 DEF Clean
  <2>2. CASE g # f
    BY <1>6, <2>2 DEF Clean
  <2> QED
    BY <2>1, <2>2
<1>10. UninstallUndoes'
  BY <1>1, <1>9 DEF IInv, UninstallUndoes, Clean
<1>11. Stripping'
  <2>1. Passed(cmd.at) \subseteq Files
    BY DEF Passed, Files, Shared, Own
  <2> QED
    BY <1>1, <1>9, <2>1 DEF IInv, Stripping
<1>12. SavedIsRecoverable'
  <2>1. ASSUME NEW g \in Files, saved'[g] # Missing, g \notin exposed'
        PROVE  \/ SameSave(file'[g], saved'[g])
               \/ \E s \in 0..MaxClock : SameSave(bak'[g][s], saved'[g])
    <3>1. CASE g = f
      BY <1>5, <1>6, <3>1 DEF SameSave
    <3>2. CASE g # f
      BY <1>1, <1>6, <2>1, <3>2 DEF IInv, SavedIsRecoverable
    <3> QED
      BY <3>1, <3>2
  <2> QED
    BY <2>1 DEF SavedIsRecoverable
<1>13. BackedUp'
  <2>1. ASSUME NEW g \in Files, cmd.at = g, cmd.stage \in {"absent", "replace"},
               saved'[g] # Missing, g \notin exposed'
        PROVE  Backed(g)'
    <3>1. cmd.op # "none"
      BY <2>1 DEF IInv, CommandShape
    <3>2. g # f
      BY <1>1, <2>1, <3>1
    <3>3. saved[g] # Missing /\ g \notin exposed
      BY <1>1, <1>6, <2>1, <3>2
    <3> QED
      BY <1>1, <1>6, <2>1, <3>2, <3>3 DEF IInv, BackedUp, Backed, SameSave
  <2> QED
    BY <1>1, <2>1 DEF BackedUp
<1>14. HookStands'
  <2>1. RegisteredHasScript => RegisteredHasScript'
    <3>1. "settings.json" \in Files
      BY DEF Files, Shared
    <3>2. CASE f = "settings.json"
      BY <1>1, <1>4, <1>6, <3>2 DEF RegisteredHasScript
    <3>3. CASE f # "settings.json"
      BY <1>1, <1>6, <3>1, <3>3 DEF RegisteredHasScript
    <3> QED
      BY <3>2, <3>3
  <2> QED
    BY <1>1, <2>1 DEF IInv, HookStands, ForClaude, shouldInstallExtras
<1> QED
  BY <1>7, <1>8, <1>10, <1>11, <1>12, <1>13, <1>14 DEF IInv

\* A second passes.
LEMMA TickIInv ==
    ASSUME IInv, Tick
    PROVE  IInv'
<1>1. /\ clock < MaxClock /\ clock' = clock + 1
      /\ UNCHANGED <<faults, file, bak, markers, skill, script, cmd, loaded, edits, commands,
                     saved, exposed, settled, removed>>
  BY DEF Tick, disk, watch
<1>2. clock' \in 0..MaxClock
  BY <1>1, IdeConfigAssumption DEF IInv, TypeOK
<1>3. TypeOK'
  BY <1>1, <1>2 DEF IInv, TypeOK
<1>4. SavedIsRecoverable' /\ BackedUp' /\ UninstallUndoes' /\ RemovedStands'
  BY <1>1 DEF IInv, SavedIsRecoverable, BackedUp, Backed, UninstallUndoes, RemovedStands, SameSave
<1>5. CommandShape' /\ Stripping' /\ HookStands'
  BY <1>1 DEF IInv, CommandShape, Stripping, HookStands, Clean, RegisteredHasScript,
              ForClaude, shouldInstallExtras
<1> QED
  BY <1>3, <1>4, <1>5 DEF IInv

\* Every step keeps IInv.
LEMMA NextIInv == IInv /\ [Next]_vars => IInv'
<1> SUFFICES ASSUME IInv, [Next]_vars PROVE IInv'
  OBVIOUS
<1>1. CASE UNCHANGED vars
  <2>1. UNCHANGED <<file, bak, markers, skill, script, clock, cmd, loaded, edits, commands, faults,
                    saved, exposed, settled, removed>>
    BY <1>1 DEF vars, disk, watch
  <2>2. TypeOK'
    BY <2>1 DEF IInv, TypeOK
  <2>3. SavedIsRecoverable' /\ BackedUp' /\ UninstallUndoes' /\ RemovedStands'
    BY <2>1 DEF IInv, SavedIsRecoverable, BackedUp, Backed, UninstallUndoes, RemovedStands, SameSave
  <2>4. CommandShape' /\ Stripping' /\ HookStands'
    BY <2>1 DEF IInv, CommandShape, Stripping, HookStands, Clean, RegisteredHasScript,
                ForClaude, shouldInstallExtras
  <2> QED
    BY <2>2, <2>3, <2>4 DEF IInv
<1>2. CASE Next
  <2>1. CASE \E dry \in BOOLEAN :
                \/ \E ide \in {"auto", "all", "claude", "ide"} : RunInstall(ide, dry)
                \/ RunUninstall(dry)
    BY <2>1, BeginIInv DEF RunInstall, RunUninstall
  <2>2. CASE \E f \in Files :
                \/ Skip(f) \/ fileExists(f)
                \/ \E ok \in BOOLEAN :
                      \/ backupFile(f, ok) \/ writeFileAtomic(f, ok)
                      \/ \E c \in Seen(f) : Load(f, c, ok)
                \/ \E parses, notes \in BOOLEAN : Save(f, parses, notes)
    BY <2>2, SkipIInv, FileExistsIInv, LoadIInv, BackupIInv, WriteIInv, SaveIInv
  <2>3. CASE \E ok \in BOOLEAN : Skill(ok) \/ MoveScript(ok) \/ WriteScript(ok)
    BY <2>3, SkillIInv, MoveScriptIInv, WriteScriptIInv
  <2>4. CASE Finish \/ Crash \/ Tick
    BY <2>4, FinishIInv, CrashIInv, TickIInv
  <2> QED
    BY <1>2, <2>1, <2>2, <2>3, <2>4 DEF Next
<1> QED
  BY <1>1, <1>2

-----------------------------------------------------------------------------
(* Theorems *)

\* IInv holds throughout, however commands, saves, faults and kills interleave.
THEOREM IdeConfigInvariant == Spec => []IInv
BY InitIInv, NextIInv, PTL DEF Spec

\* What the user last saved is in the file or in a backup, unless it was saved
\* between backup and replacement or into a file the command had not found, or
\* two backups shared a second.
THEOREM SavesSurvive == Spec => []SavedIsRecoverable
<1>1. IInv => SavedIsRecoverable
  BY DEF IInv
<1> QED
  BY <1>1, IdeConfigInvariant, PTL

\* After an uninstall without error no file has an entry or a hook of a2abridge.
THEOREM UninstallIsComplete == Spec => []UninstallUndoes
<1>1. IInv => UninstallUndoes
  BY DEF IInv
<1> QED
  BY <1>1, IdeConfigInvariant, PTL

\* After a command for Claude Code without error, a registered hook has its script.
THEOREM HookIsComplete == Spec => []HookHasScript
<1>1. IInv => HookHasScript
  BY DEF IInv, HookStands, RegisteredHasScript, HookHasScript
<1> QED
  BY <1>1, IdeConfigInvariant, PTL
====
