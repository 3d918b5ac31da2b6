SPECIFICATION Spec
CONSTANTS
    Users = {u1, u2}
    Browsers = {b1, b2}
    Orgs = {1, 2}
    Keys = {k1}
    Slots = {s1, s2}
    Links = {l1}
    Invites = {i1}
    States = {x1}
    None = None
    Enforced = FALSE
    DefaultOrg = 1
    DefaultRole = "member"
    MaxRequests = 4
SYMMETRY Symmetry
INVARIANTS
    InvitesSound
    LogoutEndsAll
PROPERTIES
    MembershipKept
    SessionsEarned
CHECK_DEADLOCK FALSE
