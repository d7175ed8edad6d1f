SPECIFICATION Spec
CONSTANTS
    m1 = m1
    m2 = m2
    k1 = k1
    k2 = k2
    i1 = i1
    i2 = i2
    q1 = q1
    q2 = q2
    Messages = {m1, m2}
    Keys = {k1, k2}
    Key <- KeyOfTwo
    Incidents = {i1, i2}
    Requests = {q1, q2}
    None = None
    Threshold = 1
    MaxAttempts = 2
    MaxEmbedding = 2
    MaxInvestigation = 2
    Overrun = FALSE
SYMMETRY Symmetry
CHECK_DEADLOCK FALSE
INVARIANTS
    TypeOK
    OwnerMirrored
    NoAlertLost
    CountIsComplete
    ChargedOnce
PROPERTIES
    OwnerIsRespected
