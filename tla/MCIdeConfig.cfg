\* Two commands, one save by the user, two seconds.
CONSTANTS
    Missing = Missing
    InitialFiles <- MCInitialFiles
    MaxClock = 1
    MaxEdits = 1
    MaxCommands = 2
    MaxFaults = 1
SPECIFICATION Spec
INVARIANTS SavedIsRecoverable UninstallUndoes HookHasScript
CHECK_DEADLOCK FALSE
