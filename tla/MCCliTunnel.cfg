SPECIFICATION TunnelFairSpec
CONSTANTS
    Events = {e1}
    Items <- MCItems
    Tokens = {t1, t2}
    Sockets = {1, 2}
    Slots = {s1, s2}
    None = None
    MaxDisturbances = 1
INVARIANTS
    RegistrationsKept
PROPERTIES
    DeliveredStays
    VisibleAgain
    EventuallySettled
CHECK_DEADLOCK FALSE
