CONSTANTS
    Clients = {c1, c2}
    Main = main
    MaxBlocks = 0
    ThreadCounts = {2}
SPECIFICATION ServerFairSpec
CHECK_DEADLOCK FALSE
PROPERTY
    AnnouncedPoolStarts
