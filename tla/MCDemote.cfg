SPECIFICATION Spec
CONSTANTS
    Users = {u1, u2}
    Browsers = {b1, b2}
    Orgs = {1}
    Keys = {k1}
    Slots = {s1, s2}
    Links = {l1}
    Invites = {i1}
    States = {x1}
    None = None
    Enforced = FALSE
    DefaultOrg = 1
    DefaultRole = "admin"
    MaxRequests = 2
SYMMETRY Symmetry
PROPERTIES
    DemoteLeavesOwner
CHECK_DEADLOCK FALSE
