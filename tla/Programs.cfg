CONSTANTS
    Lines <- SomeLines
    Byte = 72
    NoNumber = NoNumber
    MaxRead = 3
    Rows <- SomeRows
    NoPrice = NoPrice
    NaN = NaN
    Digits = 2
    MaxRows = 3
    Coordinates = {0, 1}
    Values = {d, v, w}
    DefaultValue = d
    End = End
SPECIFICATION Spec
CHECK_DEADLOCK FALSE
INVARIANTS
    PrintsSortedLists
    MeansAgree
    MeanWithinPrecision
    VarianceExact
    LoopSeesSteadyCells
PROPERTY
    ImplementsTotalMap
