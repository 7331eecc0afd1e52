\* Units of 30 s: the ticker at 30 s, the ttl at 90 s, calls of up to 30 s; a
\* bridge and its successor at one port.
CONSTANTS
    b1 = b1
    b2 = b2
    u1 = u1
    Bridges = {b1, b2}
    Urls = {u1}
    UrlOf <- SameUrl
    NoBridge = NoBridge
    Period = 1
    TTL = 3
    MaxLost = 1
SPECIFICATION FairSpec
INVARIANTS IInv StaysListed
PROPERTIES RunningIsListed DeadIsUnlisted
CHECK_DEADLOCK FALSE
