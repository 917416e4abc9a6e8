\* Interviews that end, are held, erased and purged; two of the three cannot be
\* deleted, as many as a batch holds.
SPECIFICATION FairSpec
CONSTANTS
    c1 = c1
    c2 = c2
    o1 = o1
    a1 = a1
    r1 = r1
    n1 = n1
    i1 = i1
    i2 = i2
    i3 = i3
    t1 = t1
    q1 = q1
    q2 = q2
    h1 = h1
    NoRow = NoRow
    Companies = {c1, c2}
    CompanyOf <- TwoCompanies
    InitRole <- Founders
    Retention = 1
    Users = {o1, r1}
    Interviews = {i1, i2, i3}
    Tasks = {}
    InitInterviews = {i1, i2}
    Requests = {q1}
    Routes = {"interviews", "erasures"}
    BodyRoles = {}
    BodyStatuses = {"completed"}
    Keys = {}
    Housekeepers = {h1}
    BatchSize = 2
    Failing = {i2, i3}
    MaxTime = 2
    MaxFaults = 1
PROPERTIES PurgeIsDue DueIsPurged
CHECK_DEADLOCK FALSE
