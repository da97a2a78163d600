SPECIFICATION MCFairSpec
CONSTANTS
    MaxPanes = 2
    MaxTabs = 2
    MaxWindows = 2
    MaxScheduled = 2
    Jobs = {start, second}
    StartJob = start
    Behaviours = {"Close", "Hold", "CloseOnCleanExit"}
    MaxSpecial <- MCMaxSpecial
    ReaderBuffer = 2
    SocketBuffer = 1
    ParserBuffer = 2
    MaxUnderWay = 3
INVARIANTS OneHomeEach NothingDeadWhenQuiet
PROPERTIES EndsWhenAllPanesEnd ShowsTheStream OutputIsShown
CHECK_DEADLOCK FALSE
