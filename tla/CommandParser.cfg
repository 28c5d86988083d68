CONSTANTS
    Commands = {a, b}
    Sizes = {0, 2, 3}
    MaxLines = 5
    MaxSecond = 1
SPECIFICATION Spec
CHECK_DEADLOCK FALSE
INVARIANTS
    ConsoleShowsBulks
    FilesKeepLatest
