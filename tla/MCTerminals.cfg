SPECIFICATION MCFairSpec
CONSTANTS
    Sizes <- ScreenSizes
    MaxSteps = 2
    Scrollbacks = {0, 2}
    Texts = {1, 5}
    MaxActions = 4
INVARIANTS
    RepliesReachTheirCommands RowsExist ScrollMovesTheRegion KeptByResize
PROPERTIES LivePanesStay QueueMovesOn ScrollbackStays ChangesAreReported
CHECK_DEADLOCK FALSE
