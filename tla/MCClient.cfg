SPECIFICATION MCFairSpec
CONSTANTS
    Calls = {c1, c2, c3}
    NoCall = NoCall
    Impatient = {c1}
    Reconnectable = TRUE
    SocketSize = 2
    MaxSessions = 2
    MaxNotices = 1
    Bottom = 2
    Top = 1
    ImageRows = {0}
    MaxWrites = 1
    MaxStales = 1
    MaxFetches = 1
    MaxValue = 4
    MaxUnchecked = 1
INVARIANTS RepliesHavePromises CacheIsTrue HoldsItsMembers
PROPERTIES ImplementsRpc WaitsOnlyForAThread ScreenCatchesUp
CHECK_DEADLOCK FALSE
