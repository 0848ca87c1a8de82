SPECIFICATION Spec
CONSTANTS
    Server = {v1, v2}
    u1 = u1
    u2 = u2
    u3 = u3
    User = {u1, u2, u3}
    Msg = {m1, m2, m3}
    None = None
    Talk <- TalkFork
    MaxPage = 2
    Limit = 2
    MaxBatch = 1
    MaxNum = 2
    Profiles <- NoFaults
SYMMETRY Symmetry
INVARIANTS
    OnlineHasAll
CHECK_DEADLOCK FALSE
