\* The poll fallback against a follow-up tracked while the loop holds the old record.
CONSTANTS
    Tasks = {t1}
    Sends = {s1, s2}
    NoSend = NoSend
    Poll = Poll
    MaxAge = 0
    MaxClock = 3
    MaxRestarts = 0
SPECIFICATION FairSpec
PROPERTIES NoPrematureExpiry
CHECK_DEADLOCK FALSE
