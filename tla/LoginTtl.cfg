SPECIFICATION Spec
CONSTANTS
    Server = {A, B}
    Session = {s1, s2}
    Uid = {u1}
    None = None
    Faults = {"reg_expiry"}
    MaxQueue = 1
    A = A
    B = B
    s1 = s1
    s2 = s2
    u1 = u1
CHECK_DEADLOCK FALSE
INVARIANT OneLiveLogin
