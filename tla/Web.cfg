SPECIFICATION FairSpec
CONSTANTS
    home = home
    away = away
    q1 = q1
    q2 = q2
    Addrs = {home, away}
    Polls = {q1, q2}
    MaxSent = 3
    MaxMoves = 2
    MaxLost = 1
    None = None
INVARIANTS TypeOK MessageKept
PROPERTY MessageArrives
