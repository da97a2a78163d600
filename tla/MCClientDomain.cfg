SPECIFICATION MCSpec
CONSTANTS
    MaxServer = 2
    MaxUser = 1
    Threads = {t1, t2}
    Contents = {x, y}
    MaxHandles = 2
    MaxFaults = 1
    k1 = k1
    k2 = k2
    k3 = k3
    Keys = {k1, k2, k3}
    HashOf <- Hashes
    Caps = {1, 2, 3}
    DecayTicks = 1
    Word = 4
    MaxTick = 6
INVARIANTS
    MirrorsTheServer OnlyClosedPanesAreKilled LeasedDataIsFound StructuresAgree
CHECK_DEADLOCK FALSE
