SPECIFICATION Spec
CONSTANTS
    Server = {v1, v2}
    u1 = u1
    u2 = u2
    u3 = u3
    User = {u1, u2}
    Msg = {m1, m2}
    None = None
    Talk <- TalkPair
    Limit = 1
    MaxPage = 2
    MaxBatch = 2
    MaxNum = 2
    Profiles <- ByHarm
SYMMETRY SymmetryPair
INVARIANTS
    TypeOK
    
    
    
 
CHECK_DEADLOCK FALSE
