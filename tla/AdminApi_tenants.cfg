\* Two companies, and everything in them but the end of interviews.
SPECIFICATION Spec
CONSTANTS
    c1 = c1
    c2 = c2
    o1 = o1
    a1 = a1
    r1 = r1
    n1 = n1
    i1 = i1
    i2 = i2
    i3 = i3
    t1 = t1
    q1 = q1
    q2 = q2
    h1 = h1
    NoRow = NoRow
    Companies = {c1, c2}
    CompanyOf <- TwoCompanies
    InitRole <- Founders
    Retention = 1
    Users = {o1, a1, n1, r1}
    Interviews = {i1}
    Tasks = {t1}
    InitInterviews = {i1}
    Requests = {q1, q2}
    Routes = {"users", "invites", "interviews", "tasks", "scores", "company", "policies"}
    BodyRoles = {"owner", "admin"}
    BodyStatuses = {"scheduled"}
    Keys = {"replay"}
    Housekeepers = {}
    BatchSize = 1
    Failing = {}
    MaxTime = 0
    MaxFaults = 0
SYMMETRY SymmetricRequests
PROPERTIES TenantIsolation OwnersFromOwners
CHECK_DEADLOCK FALSE
