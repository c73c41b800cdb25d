CONSTANTS
    Exports = {x1}
    Builds = {r1}
    Readers = {}
    Items = {i1}
    MaxDeaths = 0
    NoFile = NoFile
    NoBuild = NoBuild
    NoBackup = NoBackup
    NoTar = NoTar
SPECIFICATION BackupsSpec
PROPERTIES
    RestoreKeepsFiles
