CONSTANTS
    Clients = {c1, c2}
    Main = main
    MaxBlocks = 1
    ThreadCounts = {1, 2}
SPECIFICATION HandlersFairSpec
CHECK_DEADLOCK FALSE
INVARIANTS
    ServerTypeOK
    SessionHasPool
PROPERTY
    ReadHandlersEnd
