SPECIFICATION Spec
CONSTANTS
    o1 = o1
    e1 = e1
    Orgs = {o1}
    Events = {e1}
    OrgOf <- MCOrgOf
    Stamps = {1}
    NoMember = NoMember
    MaxAttempt = 1
    Tokens = {t1, t2}
    Workers = {w1, w2}
    MaxRetries = 1
    MaxManual = 1
    MaxReaps = 1
    MaxFaults = 1
    MaxLostWrites = 1
    PromoteLimit = 2
    DeadCap = 1
    NotifyCap = 1
SYMMETRY Symm
INVARIANTS
    InFlightOwned
    RequeueTakesEffect
    AttemptsAccounted
CHECK_DEADLOCK FALSE
