SPECIFICATION FairSpec
CONSTANTS
    c1 = c1
    Calls = {c1}
    None = None
INVARIANTS TypeOK HostServesRelay
PROPERTIES UpgradeSettles ClosedLinkEnds
CHECK_DEADLOCK FALSE
