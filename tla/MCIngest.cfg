SPECIFICATION MCSpec
CONSTANTS
    Reqs = {r1, r2, r3}
    Conns = {c1, c2}
    Cap = 1
    FaultKinds = {"reject", "db", "enqueue", "evict", "del", "crash", "setnx"}
    MaxFaults = 2
    MaxGaps = 1
    Readers = {p1, p2}
    Edits = {e1, e2}
    MaxFails = 1
INVARIANTS
    DedupEffective
    EventHasBody
    WebhookKept
    EffectiveUnlessOvertaken
PROPERTIES
    EventuallyCurrent
CHECK_DEADLOCK FALSE
