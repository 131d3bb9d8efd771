SPECIFICATION FairSpec
CONSTANTS
    s1 = s1
    s2 = s2
    yes1 = yes1
    yes2 = yes2
    no1 = no1
    g1 = g1
    Sends = {s1, s2}
    Empty = {s2}
    Archive = {s1}
    Accepts = {yes1}
    Declines = {no1}
    Gets = {g1}
    Callers = {quit}
    AppQuit = quit
    None = None
INVARIANTS TypeOK DeclinedByBrowser CompletedPulled AcceptedCanPull
PROPERTIES CancelHeard CancelEnds
CHECK_DEADLOCK FALSE
