SPECIFICATION FairSpec
CONSTANTS
    o1 = o1
    o2 = o2
    e1 = e1
    e2 = e2
    Orgs = {o1, o2}
    Events = {e1, e2}
    OrgOf <- MCOrgOf
    Stamps = {1}
    MaxAttempt = 1
    Tokens = {t1, t2}
    PromoteLimit = 3
    DeadCap = 1
    NotifyCap = 1
    Workers = {w1, w2}
    MaxSends = 1
    MaxFaults = 1
    NoMember = NoMember
INVARIANTS
    RingMatchesPending
    NothingLost
    NoLostWakeup
PROPERTIES
    FencedLeases
    QueueImplements
    RoundRobin
    EventuallyHandled
