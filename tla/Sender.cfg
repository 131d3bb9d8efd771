SPECIFICATION FairSpec
CONSTANTS
    s1 = s1
    s2 = s2
    Sends = {s1, s2}
    Sizes <- AllSizes
    Shrinks = {}
    ChunkSize = 2
    Streams = 2
    Callers = {quit}
    AppQuit = quit
    None = None
INVARIANTS TypeOK CompletedSent
PROPERTIES NothingAfterCancel CancelHeard  LargeProgress
CHECK_DEADLOCK FALSE
