SPECIFICATION MCSpec
CONSTANTS
    c1 = c1
    c2 = c2
    b1 = b1
    b2 = b2
    b3 = b3
    b4 = b4
    n1 = n1
    n2 = n2
    n3 = n3
INVARIANTS
    DatabaseExact
    ApprovalsSound
    NothingForgotten
    ApprovalsComplete
CHECK_DEADLOCK FALSE
