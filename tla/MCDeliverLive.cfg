SPECIFICATION FairSpec
CONSTANTS
    o1 = o1
    e1 = e1
    Orgs = {o1}
    Events = {e1}
    OrgOf <- MCOrgOf
    Stamps = {1}
    NoMember = NoMember
    MaxAttempt = 1
    Tokens = {t1, t2}
    Workers = {w1}
    MaxRetries = 1
    MaxManual = 0
    MaxReaps = 2
    MaxFaults = 1
    MaxLostWrites = 1
    PromoteLimit = 2
    DeadCap = 3
    NotifyCap = 1
PROPERTIES
    EventuallySettled
CHECK_DEADLOCK FALSE
