SPECIFICATION FairSpec
CONSTANTS
    m1 = m1
    m2 = m2
    k1 = k1
    k2 = k2
    i1 = i1
    i2 = i2
    q1 = q1
    q2 = q2
    Messages = {m1}
    Keys = {k1, k2}
    Key <- KeyOfOne
    Incidents = {i1, i2}
    Requests = {q1, q2}
    None = None
    Threshold = 0
    MaxAttempts = 3
    MaxEmbedding = 2
    MaxInvestigation = 1
    Overrun = FALSE
CHECK_DEADLOCK FALSE
PROPERTIES
    AlwaysConverges
