SPECIFICATION Spec
CONSTANTS
    i1 = i1
    i2 = i2
    p1 = p1
    l1 = l1
    Invites = {i1, i2}
    Peers = {p1}
    Guests <- FirstJoined
    Links = {l1}
    None = None
INVARIANT IdlePolicyOwns
CHECK_DEADLOCK FALSE
