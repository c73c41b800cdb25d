CONSTANTS
    Exports = {x1}
    Builds = {r1, r2}
    Readers = {c1}
    MaxDeaths = 1
    NoFile = NoFile
    NoBuild = NoBuild
SPECIFICATION BundlesSpec
INVARIANTS
    PublishedIsWhole
PROPERTIES
    EachPostAnswered
    DanglingIsCleared
    ShutdownEnds
