\* Two answers to one question.
CONSTANTS
    Tasks = {t1}
    Messages = {m1}
    Calls = {c1, c2}
    NoCall = NoCall
    SoftCap = 2
    MaxRestarts = 0
SPECIFICATION Spec
INVARIANTS AcceptedReplyRecorded
CHECK_DEADLOCK FALSE
