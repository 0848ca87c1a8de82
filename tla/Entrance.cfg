SPECIFICATION FairSpec
CONSTANTS
    r1 = r1
    r2 = r2
    r3 = r3
    n1 = n1
    n2 = n2
    e1 = e1
    e2 = e2
    p1 = p1
    p2 = p2
    v1 = v1
    v2 = v2
    v3 = v3
    None = None
    Request = {r1, r2, r3}
    User = {n1, n2}
    Email = {e1, e2}
    Pwd = {p1, p2}
    Server = {v1, v2, v3}
    Old = {v3}
    Order <- Names
    MaxCount = 1
    PoolSize = 2
    FailureLimit = 1
    Scenarios <- All
CHECK_DEADLOCK FALSE
INVARIANTS
    TypeOK
    KeysExpire
    PoolAccounted
    ChoiceFound
PROPERTIES
    ProvenMailbox
    Answered
