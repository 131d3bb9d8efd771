SPECIFICATION Spec
CONSTANTS
    s1 = s1
    p1 = p1
    q1 = q1
    q2 = q2
    h1 = h1
    h2 = h2
    j1 = j1
    j2 = j2
    Sessions = {s1}
    Hosts = {p1}
    Joiners = {q1, q2}
    HostSockets = {h1, h2}
    JoinSockets = {j1, j2}
    None = None
INVARIANT BridgeLasts
CHECK_DEADLOCK FALSE
