CONSTANTS
    ann = ann
    eve = eve
    c1 = c1
    p1 = p1
    p2 = p2
    Users = {ann, eve}
    Claimants = {c1}
    FirstAdmin = ann
    Projects = {p1, p2}
    ClaimantOf <- MCClaimantOf
    Periods = {fp1}
    Dates <- MCDates
    Bodies = {b1}
    LabourIds = {l1}
    ExpenseIds = {}
    NoRow = NoRow
    NoUser = NoUser
    Requests = {q1}
    Items = {i1}
    Files = {f1, f2}
    NoReq = NoReq
    NoFile = NoFile
    NoEntry = NoEntry
SPECIFICATION EvidenceSpec
ACTION_CONSTRAINT CastBound
VIEW WithoutTrails
INVARIANT
    LinkedOnItsProject
