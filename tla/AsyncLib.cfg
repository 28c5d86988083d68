CONSTANTS
    Clients = {c1, c2}
    Main = main
    MaxBlocks = 1
SPECIFICATION FairSpec
CHECK_DEADLOCK FALSE
INVARIANTS
    LiveWorkersAreOwned
    SentinelCover
PROPERTY
    StoppedPoolEnds
