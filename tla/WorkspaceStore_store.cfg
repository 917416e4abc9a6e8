\* Transactions only: three workers over two sessions of an interview, no relay.
SPECIFICATION Spec
CONSTANTS
    i1 = i1
    v1 = v1
    v2 = v2
    Interviews = {i1}
    Invites = {v1, v2}
    InterviewOf <- OneInterview
    Workers = {w1, w2, w3}
    Relays = {}
    Ops = {"start", "event", "prompt", "diff", "score", "purge"}
    BatchSize = 1
    MaxDiff = 2
    MaxRequests = 5
    MaxFailures = 1
INVARIANTS SequenceUnique StateMatchesEvents
PROPERTIES NothingAfterPurge
SYMMETRY Symmetry
CHECK_DEADLOCK FALSE
