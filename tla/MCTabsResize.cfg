SPECIFICATION MCSpec
CONSTANTS
    w1 = w1
    w2 = w2
    w3 = w3
    w4 = w4
    NoTab = NoTab
    Tabs <- MCTabs
    Word <- MCWord
    SwitchToLast = FALSE
    MaxDelta = 1
    Panes = {p1, p2}
    NoPane = NoPane
    Together = 1
    UnzoomOnSwitch = {TRUE, FALSE}
    Requests = {0, 2}
    MaxPanes = 3
INVARIANTS ResizeReturns
CHECK_DEADLOCK FALSE
