CONSTANTS
    Letters = {a, b}
    BulkSizes = {0, 1, 2}
    MaxBytes = 6
SPECIFICATION SplitSpec
CHECK_DEADLOCK FALSE
INVARIANTS
    ChunkingIsIgnored
    BlocksAreFull
    Hw10NeedsWholeLines
