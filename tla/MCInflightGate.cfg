SPECIFICATION GateFairSpec
CONSTANTS
    Procs = {p1, p2, p3, p4}
    Cap = 2
    MaxLeaks = 2
INVARIANTS
    GateSound
PROPERTIES
    KeepsAdmitting
