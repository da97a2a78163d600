SPECIFICATION MCSpec
CONSTANTS
    MaxServer = 1
    MaxUser = 1
    Threads = {t1}
    Contents = {x}
    MaxHandles = 1
    MaxFaults = 0
    k1 = k1
    k2 = k2
    k3 = k3
    Keys = {k1, k2, k3}
    HashOf <- Hashes
    Caps = {1}
    DecayTicks = 1
    Word = 4
    MaxTick = 1
INVARIANTS MappedWindowIsThere
CHECK_DEADLOCK FALSE
