SPECIFICATION FairSpec
CONSTANTS
    s1 = s1
    s2 = s2
    Session = {s1, s2}
    MaxSend = 1
    MaxFrames <- TwoAndOne
    MaxPushes <- OneAndNone
    Length <- Batch
CHECK_DEADLOCK FALSE
INVARIANTS
    TypeOK
    OneWrite
    WriteGoesOn
PROPERTIES
    SendSpec
    RequestSpec
    RequestHandled
