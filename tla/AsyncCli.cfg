CONSTANTS
    Clients = {c1, c2}
    Main = main
    MaxBlocks = 2
    MaxTotal = 2
SPECIFICATION CliFairSpec
INVARIANTS
    PoolServesClients
    WorkersStartOnce
    OnlyLeftoversAreLate
    LogIsPrefix
    FilesPartitionBlocks
    QueuesAgree
PROPERTY
    Terminates
