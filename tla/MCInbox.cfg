\* Redeliveries, a soft cap of two, the hook racing the store, one failing
\* snapshot write, one restart; m2 has no messageId.
CONSTANTS
    Messages = {m1, m2}
    Anonymous = {m2}
    Outgoing = {t1}
    SoftCap = 2
    ReplyTTL = 1
    MaxClock = 2
    MaxDeliveries = 3
    MaxCrashes = 1
    MaxFaults = 1
SPECIFICATION FairSpec
INVARIANTS TypeOK NoDuplicateQueued CrashLosesOnlyErased LossOnlyByCrash NoResurrection
PROPERTIES RepliesAgeOut
CHECK_DEADLOCK FALSE
