\* Two calls, on two tasks or a question and its follow-up, and a restart.
CONSTANTS
    Tasks = {t1, t2}
    Sends = {s1, s2}
    NoSend = NoSend
    Poll = Poll
    MaxAge = 0
    MaxClock = 2
    MaxRestarts = 1
SPECIFICATION FairSpec
INVARIANTS IInv AtMostOneNotice
PROPERTIES EveryQuestionSettles
CHECK_DEADLOCK FALSE
