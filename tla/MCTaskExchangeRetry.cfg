\* A message sent again after its first task was canceled.
CONSTANTS
    Tasks = {t1, t2}
    Messages = {m1}
    Calls = {c1}
    NoCall = NoCall
    SoftCap = 2
    MaxRestarts = 0
SPECIFICATION FairSpec
PROPERTIES DuplicateHasLiveOriginal
CHECK_DEADLOCK FALSE
