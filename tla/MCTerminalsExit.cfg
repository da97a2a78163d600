SPECIFICATION MCFairSpec
CONSTANTS
    Sizes <- ScreenSizes
    MaxSteps = 2
    Scrollbacks = {0}
    Texts = {1}
    MaxActions = 1
PROPERTIES ExitIsForced
CHECK_DEADLOCK FALSE
