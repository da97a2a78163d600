SPECIFICATION Spec
CONSTANTS
    MaxPanes = 2
    QueueSize = 2
    Buffer = 1
    MaxEvents = 4
INVARIANTS OutputIsComplete LastSizeArrives
PROPERTIES PanesEnd
CHECK_DEADLOCK FALSE
