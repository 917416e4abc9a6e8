\* Both batching consumers, the scorer and a purge: nothing is lost or stuck,
\* and a score is computed from the whole session.
SPECIFICATION FairSpec
CONSTANTS
    s1 = s1
    Consumers = {"writer", "indexer"}
    Sessions = {s1}
    N = 2
    SessionOf <- OneSession
    Completions = {1}
    Triggers = {2}
    Searchable = {1}
    BatchSize = 2
    MaxAttempts = 2
    MaxCopies = 1
    MaxRows = 2
    MaxFaults = 1
INVARIANTS CommittedIsStored CompleteIsWhole
PROPERTIES EventsReachStores TriggersAreScored
CHECK_DEADLOCK FALSE
