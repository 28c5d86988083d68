CONSTANTS
    r = r
    d = d
    h = h
    f1 = f1
    f2 = f2
    f3 = f3
    nowhere = nowhere
    Dirs = {r, d, h}
    Files = {f1, f2, f3}
    Hidden = {h}
    Parent <- Tree
    Contents <- SomeContents
    Crc <- Ones
    Settings <- SomeSettings
    DeniedDirs <- SomeDeniedDirs
    DeniedFiles <- SomeDeniedFiles
    MaxChanges = 1
SPECIFICATION BayanSpec
CHECK_DEADLOCK FALSE
INVARIANTS
    ListingComplete
    ReportExact
    NoPathTwice
PROPERTY
    BayanEnds
