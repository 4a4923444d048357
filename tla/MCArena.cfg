SPECIFICATION Spec
CONSTANTS
    v1 = v1
    v2 = v2
    Absent = Absent
    Values = {v1, v2}
    Scopes = {1}
    MaxSlots = 4
    MaxGen = 2
SYMMETRY ValueSymmetry
INVARIANT OrderClaimHolds
PROPERTIES ImplementsHandleTable StaleKeysStayStale
CHECK_DEADLOCK FALSE
