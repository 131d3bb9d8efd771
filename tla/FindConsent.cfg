SPECIFICATION Spec
CONSTANTS
    a = a
    b = b
    u1 = u1
    u2 = u2
    Offers = {a, b}
    Web = {}
    Files = {1, 2}
    Size <- SlotSizes
    MaxFiles = 2
    MaxFileSize = 3
    MaxTotal = 4
    Handlers = {}
    Callers = {quit, u1, u2}
    AppQuit = quit
    None = None
PROPERTY ConsentMatches
CHECK_DEADLOCK FALSE
