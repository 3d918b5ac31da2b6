SPECIFICATION Spec
CONSTANTS
    None = None
    Gone = Gone
    A = A
    B = B
    s1 = s1
    s2 = s2
    s3 = s3
    d1 = d1
    d2 = d2
    d3 = d3
    c1 = c1
    c2 = c2
    c3 = c3
    r1 = r1
    r2 = r2
    r3 = r3
    k1 = k1
    k2 = k2
    b1 = b1
    b2 = b2
    b3 = b3
    n1 = n1
    n2 = n2
    Sources = {s1, s2, s3}
    Destinations = {d1, d2, d3}
    Connections = {c1, c2, c3}
    Requests = {r1, r2, r3}
    Rules = {k1, k2}
    Bookmarks = {b1, b2, b3}
    Scenarios = {n1, n2}
    Owner <- MCOwner
    Callers = {A}
    Slots = {p1, p2}
    Bodies <- MCBodies
    Seed <- MCSeed
    MaxRequests = 3
    MaxSweeps = 1
    MaxSteps = 1
SYMMETRY Symm
CHECK_DEADLOCK FALSE
INVARIANTS
    RowsSound
    EditsKept
PROPERTIES
    RepointedByAdmin
