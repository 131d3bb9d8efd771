SPECIFICATION FairSpec
CONSTANTS
    a = a
    b = b
    u1 = u1
    u2 = u2
    Offers = {a, b}
    Web = {}
    Files = {1, 2}
    Size <- DataSizes
    MaxFiles = 2
    MaxFileSize = 3
    MaxTotal = 4
    Handlers = {h1, h2}
    Callers = {quit, u1}
    AppQuit = quit
    None = None
INVARIANTS CompletedIsWhole CanceledLeavesNothing LeakBound
PROPERTIES CancelWins SlotFreed
CHECK_DEADLOCK FALSE
