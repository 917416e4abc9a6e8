\* One session and a completion, with every kind of loss.
SPECIFICATION FairSpec
CONSTANTS
    s1 = s1
    Sessions = {s1}
    N = 3
    SessionOf <- OneSession
    Completions = {2}
    Viewers = {c1}
    Capacity = 2
    Buffer = 2
    MaxCopies = 1
    MaxFaults = 2
    MaxDrops = 1
    MaxExpiries = 1
INVARIANTS OrderInv SkippedIsGone
PROPERTIES PublishedIsShown
CHECK_DEADLOCK FALSE
