\* Two updates at once, three seconds, a release, a prerelease and a tag without numbers.
CONSTANTS
    Updaters = {u1, u2}
    Tags <- Releases
    Installed <- Dirty
    None = None
    MaxClock = 2
SPECIFICATION Spec
SYMMETRY Symmetry
INVARIANTS BinaryAtHand PreviousKept
CHECK_DEADLOCK FALSE
