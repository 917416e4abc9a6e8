\* Two relays that may lose the lock; lock cycles; the stream and liveness.
SPECIFICATION FairSpec
CONSTANTS
    i1 = i1
    v1 = v1
    v2 = v2
    Interviews = {i1}
    Invites = {v1}
    InterviewOf <- OneSession
    Workers = {w1, w2}
    Relays = {r1, r2}
    Ops = {"start", "prompt", "diff", "purge"}
    BatchSize = 2
    MaxDiff = 1
    MaxRequests = 3
    MaxFailures = 1
INVARIANTS SequenceAccounted DeliveredInOrder
PROPERTIES ImplementsStream TransactionsEnd EventsReachKafka
CHECK_DEADLOCK FALSE
