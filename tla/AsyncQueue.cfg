CONSTANTS
    Producers = {p1, p2}
    Consumers = {c1, c2, c3}
    Items = {x, y}
    MaxPush = 4
SPECIFICATION FairSpec
INVARIANTS
    Fifo
    NoLostWakeup
PROPERTY
    ImplementsFifo
