\* Closes of two months that overlap, while invoices are issued.
SPECIFICATION FairSpec
CONSTANTS
    c1 = c1
    c2 = c2
    j1 = j1
    j2 = j2
    Companies = {c1, c2}
    Plan <- Plans
    NoPlan = NoPlan
    BadPlan = BadPlan
    Periods = {1, 2}
    Readings <- TwoReadings
    Credits = {1, 2}
    CreditOf <- TwoCredits
    InitCredits = {1}
    Closes = {j1, j2}
    NoCompany = NoCompany
    MaxFaults = 1
INVARIANTS CreditsNotOverspent
PROPERTIES IssuedUnchanged ClosesEnd
CHECK_DEADLOCK FALSE
