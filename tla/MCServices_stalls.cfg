SPECIFICATION MCSpec
CONSTANTS
    p1 = p1
    p2 = p2
    r1 = r1
    r2 = r2
    k1 = k1
    k2 = k2
    k3 = k3
    k4 = k4
    k5 = k5
    v1 = v1
    v2 = v2
    v3 = v3
    A = A
    B = B
    n1 = n1
    n2 = n2
    n3 = n3
    Me = me
    ParaOf <- Paras
    Groups <- TwoGroups
    WrongCollator <- Foreign
    Valid <- Sound
    Statements <- Sayings
    RelayParent = r1
    MaxFailures = 1
    SigningFails = TRUE
INVARIANT NotStalled
CHECK_DEADLOCK FALSE
