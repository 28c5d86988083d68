CONSTANTS
    Memory = {m1, m2, m3}
    Sizes = {8, 16}
    BlockSize = 4
    SizeofNode = 8
    MinGrow = 2
    Values = {v, w}
    Null = Null
SPECIFICATION Spec
SYMMETRY MemoryAndValues
CHECK_DEADLOCK FALSE
INVARIANTS
    PoolAccounts
    HeapOwned
    ListHoldsValues
