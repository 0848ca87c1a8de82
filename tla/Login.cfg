SPECIFICATION Spec
CONSTANTS
    Server = {A, B}
    Session = {s1, s2}
    Uid = {u1}
    None = None
    Faults = {"crash", "heartbeat", "relogin", "bad_frame"}
    MaxQueue = 1
    A = A
    B = B
    s1 = s1
    s2 = s2
    u1 = u1
SYMMETRY Symmetry
CHECK_DEADLOCK FALSE
INVARIANT OneLiveLogin
INVARIANT RegisteredWhereLive
INVARIANT IInv
PROPERTY OnlineStaysRegistered
PROPERTY SeatSpec
