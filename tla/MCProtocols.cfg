SPECIFICATION MCFairSpec
CONSTANTS
    Funcs = {f1, f2, f3, f4}
    NoFunc = NoFunc
    Threads = {main, t1, t2}
    Main = main
    Capacity = 4
    Chunk = 4
    EveryWriteWakes = FALSE
    Promised = {p1, p2}
    Threaded = {c1, c2}
    Settings = {s1}
    Shipped = {s1}
    Absent = Absent
    Torn = Torn
    MaxWrites = 2
    MaxEdits = 1
    MaxFaults = 1
INVARIANTS WakeupComes FollowsTheFile
PROPERTIES ImplementsExecutor AwaitedResultArrives TerminalCatchesUp
CHECK_DEADLOCK FALSE
