SPECIFICATION MCSpec
CONSTANTS
    b0 = b0
    b1 = b1
    b2 = b2
    b3 = b3
    b4 = b4
    b5 = b5
    c1 = c1
    c2 = c2
    c3 = c3
    v1 = v1
    v2 = v2
    v3 = v3
    me = me
    Tree <- StoreTree
    Root = b0
    NValidators = 1
    KeepUnavailable = 1
    KeepFinalized = 2
    MaxTime = 3
    MaxCrashes = 1
INVARIANT LeavesComplete
CHECK_DEADLOCK FALSE
