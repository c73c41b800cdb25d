CONSTANTS
    Users = {ann, eve}
    Claimants = {c1, c2}
    FirstAdmin = ann
SPECIFICATION MCSpec
INVARIANTS
    AccountsTypeOK
    DownWithUserIsMarked
PROPERTY
    ReactivateUndoesDeactivate
CHECK_DEADLOCK FALSE
