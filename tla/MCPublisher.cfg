SPECIFICATION ApiSpec
CONSTANTS
    None = None
    Gone = Gone
    u = u
    v = v
    Urls = {u, v}
    EventIds = {k}
    Bodies <- MCBodies
    MaxApps = 3
    MaxEndpoints = 3
    MaxRequests = 3
    Slots = {s1, s2}
SYMMETRY Symm
CHECK_DEADLOCK FALSE
INVARIANTS
    PublishedArrives
    EndpointTrusted
PROPERTIES
    PortalContained
