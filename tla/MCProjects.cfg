CONSTANTS
    Projects = {p1, p2}
    Tabs = {t1, t2}
    Fields = {narr, other}
    Narrative = {narr}
    Values = {v1, v2}
    NoProject = NoProject
    NoForm = NoForm
    MaxStamp = 3
    Times <- MCTimes
SPECIFICATION Spec
CONSTRAINT WithinBound
SYMMETRY Symmetry
INVARIANTS
    TypeOK
    StampNamesVersion
    HistoryTellsNarrative
PROPERTY
    NoLostUpdate
