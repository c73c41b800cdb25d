CONSTANTS
    ann = ann
    bob = bob
    eve = eve
    c1 = c1
    c2 = c2
    p1 = p1
    Users <- MCUsers
    Claimants <- MCClaimants
    FirstAdmin = ann
    Projects = {p1}
    ClaimantOf <- MCClaimantOf
    Periods = {fp1, fp2}
    Dates <- MCDates
    Bodies = {b1}
    LabourIds = {l1, l2}
    ExpenseIds = {x1}
    NoRow = NoRow
    NoUser = NoUser
SPECIFICATION Spec
ACTION_CONSTRAINT CastBound
SYMMETRY Symmetry
VIEW WithoutTrail
INVARIANTS
    TypeOK
    ReviewConsistent
    EntriesBucketed
PROPERTIES
    ClosedPeriodFrozen
    ApprovedContentLocked
    EveryChangeLogged
    EmployeesKeepToTheirOwn
    ImplementsBooks
