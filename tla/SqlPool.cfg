SPECIFICATION SqlFairSpec
CONSTANTS
    Conn = {c1, c2, c3}
    Thread = {t1, t2, t3}
    None = None
CHECK_DEADLOCK FALSE
INVARIANTS
    NoSharing
    SizeKept
PROPERTY SqlRevives
