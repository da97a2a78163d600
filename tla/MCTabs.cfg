SPECIFICATION MCSpec
SYMMETRY MCSymmetry
CONSTANTS
    w1 = w1
    w2 = w2
    w3 = w3
    w4 = w4
    NoTab = NoTab
    Tabs <- MCTabs
    Word <- MCWord
    SwitchToLast = FALSE
    MaxDelta = 5
    Panes = {p1, p2, p3, p4}
    NoPane = NoPane
    Together = 3
    UnzoomOnSwitch = {TRUE, FALSE}
    Requests = {0, 2}
    MaxPanes = 3
INVARIANTS NeverPanics ActiveNamesATab TreeIsSound CoversTheTab
PROPERTIES ActiveTabFollowsItsTab StaysActive TargetsLeave SplitLandsBesideItsTarget StaysInOrder
CHECK_DEADLOCK FALSE
