SPECIFICATION Spec
CONSTANTS
    a = a
    b = b
    u1 = u1
    u2 = u2
    Offers = {a, b}
    Web = {a}
    Files = {1, 2}
    Size <- SlotSizes
    MaxFiles = 2
    MaxFileSize = 3
    MaxTotal = 4
    Handlers = {h1}
    Callers = {quit, u1, u2}
    AppQuit = quit
    None = None
SYMMETRY AnyCall
INVARIANTS TypeOK SlotOwner OneOutcome CompletedIsWhole
PROPERTY LifeSpec
CHECK_DEADLOCK FALSE
