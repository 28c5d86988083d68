CONSTANTS
    MaxShapes = 3
    MaxIds = 6
    MaxRuns = 2
SPECIFICATION Spec
CHECK_DEADLOCK FALSE
INVARIANTS
    WindowShowsRegistry
PROPERTIES
    NewIdsAreFresh
    OpenNeverMixes
