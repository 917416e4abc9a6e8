\* Two runs of a session share a slot; calls fail, processes die, locks expire.
SPECIFICATION FairSpec
CONSTANTS
    s1 = s1
    r1 = r1
    r2 = r2
    NoRun = NoRun
    Sessions = {s1}
    Runs = {r1, r2}
    SessionOf <- OneSession
    Slots = 1
    MaxFaults = 1
INVARIANTS OneRunPerSession SlotsExact NoOrphans
PROPERTIES ProgramsEnd RequestedIsCompleted
CHECK_DEADLOCK FALSE
