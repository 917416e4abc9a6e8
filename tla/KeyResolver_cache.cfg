\* Two callers race a rotation, a removal, an expiry and an invalidation.
SPECIFICATION FairSpec
CONSTANTS
    Callers = {c1, c2}
    TTL = 1
    VersionCheck = 0
    MaxCalls = 3
    MaxClock = 1
    MaxVersions = 2
    MaxFaults = 1
INVARIANTS NoEmptyKey OnlyEntryIsLive CurrentWhenAlone
PROPERTIES CallsReturn ExpiredIsZeroed
CHECK_DEADLOCK FALSE
