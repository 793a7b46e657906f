\* Three overlapping calls of three requests, room for two records, one fault.
CONSTANTS
    c1 = c1  c2 = c2  c3 = c3
    r1 = r1  r2 = r2  r3 = r3
    t1 = t1  t2 = t2
    p1 = p1  p2 = p2
    NoPin = NoPin
    None = None
    Ids = {r1, r2, r3}
    Targets = {t1, t2}
    Calls = {c1, c2, c3}
    Inputs <- ThreeRequests
    Capacity = 2
    MaxAttempts = 2
    Faults = {"call", "death", "drift"}
    MaxFaults = 1
SPECIFICATION Spec
\* Calls end.
CHECK_DEADLOCK FALSE
SYMMETRY SameCalls
INVARIANTS
    LedgerIsAccepted
    MutatesOnce
    NoLateUpdate
    AnswersHold
PROPERTIES
    RecordsAreFinal
    RequestSpec
