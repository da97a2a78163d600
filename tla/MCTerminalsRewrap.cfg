SPECIFICATION MCFairSpec
CONSTANTS
    Sizes <- ScreenSizes
    MaxSteps = 1
    Scrollbacks = {0, 2}
    Texts = {1, 5}
    MaxActions = 4
INVARIANTS ResizeLosesNothing
CHECK_DEADLOCK FALSE
