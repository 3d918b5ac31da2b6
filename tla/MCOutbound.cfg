SPECIFICATION FairSpec
CONSTANTS
    d1 = d1
    o1 = o1
    Items = {d1, o1}
    Op = {o1}
    Tokens = {t1, t2}
    Workers = {w1, w2}
    NoLease = NoLease
    MaxRetries = 1
    Threshold = 1
    MaxEvents = 1
INVARIANTS
    NothingStranded
    AttemptsAccounted
    DisableNoticed
PROPERTIES
    EventuallyOver
CHECK_DEADLOCK FALSE
