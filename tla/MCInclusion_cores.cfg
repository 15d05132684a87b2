SPECIFICATION Spec
CONSTANTS
    v1 = v1
    v2 = v2
    v3 = v3
    p = p
    q = q
    x = x
    ParaIds = {p, q}
    Cores = {0, 1}
    Validators <- Three
    ChainCores = {0}
    Forks = {x}
    GroupSizes = {2}
    Frequency = 2
    ChainPeriod = 1
    ThreadPeriod = 3
    Freezes = TRUE
    ForcedHeads = {7}
    MaxOverridden = 1
    MaxBlock = 4
SYMMETRY ThreeSymmetry
INVARIANTS
    TypeOK
    CoreBijection
    PendingExtendsHead
    TimeOutKept
PROPERTIES
    HeadsAdvance
