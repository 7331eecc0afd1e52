\* Two messages, one subscription at a time, responder and nudger, a window of two seconds.
CONSTANTS
    Tasks = {t1, t2}
    Messages = {m1, m2}
    host = host
    Calls <- MCCalls
    NoCall = NoCall
    SoftCap = 2
    MaxRestarts = 0
    Subs = {s}
    Forms <- MCForms
    CoalesceFor = 2
    MaxClock = 4
    MaxRequests = 2
SPECIFICATION InboundSpec
SYMMETRY Symmetry
INVARIANTS AcceptedIsServed NudgeCadence RefusedOnlyWhenLate
PROPERTY NoStreamForEnded
CHECK_DEADLOCK FALSE
