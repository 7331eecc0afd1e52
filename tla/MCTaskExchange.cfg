\* Two questions, the same message or not, a soft cap of one, two answers and
\* a restart; only started work is fair.
CONSTANTS
    Tasks = {t1, t2}
    Messages = {m1, m2}
    Calls = {c1, c2}
    NoCall = NoCall
    SoftCap = 1
    MaxRestarts = 1
SPECIFICATION FairSpec
INVARIANTS IInv AnswerableWhileOpen WaitingIsKnown
PROPERTIES AcceptedReplyEndsTask CancelReleasesWaiter
CHECK_DEADLOCK FALSE
