SPECIFICATION FairSpec
CONSTANTS
    Server = {A, B}
    Session = {s1}
    Uid = {u1}
    None = None
    Faults = {"crash", "write_error", "bad_frame", "heartbeat", "relogin", "lock_timeout"}
    MaxQueue = 1
    A = A
    B = B
    s1 = s1
    u1 = u1
CHECK_DEADLOCK FALSE
PROPERTY ClosedForgotten
PROPERTY LockFreed
