CONSTANTS
    Users = {ann, eve}
    Claimants = {c1, c2}
    FirstAdmin = ann
SPECIFICATION MCSpec
PROPERTY
    ReactivateSparesOthers
CHECK_DEADLOCK FALSE
