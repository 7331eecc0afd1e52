\* One webhook, a queue of two that overflows, a retired worker that overlaps
\* its successor, two Close calls that race. A closed sender stops.
CONSTANTS
    Configs = {k1}
    Workers = {w1, w2}
    NoWorker = NoWorker
    Closers = {c1, c2}
    QueueSize = 2
    MaxAttempts = 2
    MaxEvents = 4
SPECIFICATION FairSpec
INVARIANTS IInv NoOrphanedJob OneDeliverer EveryEventAccounted NoPanic CloseLeavesNothing
PROPERTIES PostedInOrder CloseReturns ImplementsDelivery
CHECK_DEADLOCK FALSE
