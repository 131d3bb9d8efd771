SPECIFICATION Spec
CONSTANTS
    a = a
    l1 = l1
    l2 = l2
    l3 = l3
    s1 = s1
    s2 = s2
    q1 = q1
    q2 = q2
    g1 = g1
    Peers = {a}
    Links = {l1, l2, l3}
    Sockets = {s1, s2}
    Probes = {q1, q2}
    Goodbyes = {g1}
    Loop = loop
    None = None
SYMMETRY AnyProbe
INVARIANTS TypeOK NothingLeftBehind
