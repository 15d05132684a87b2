SPECIFICATION MCSpec
CONSTANTS
    ParaIds = {1, 2}
    Weights = {1, 3, 5}
    ServiceWeight = 3
    FirstFactor = 100
    MaxIndividual = 3
    MaxQueueCount = 2
    MaxPerCandidate = 2
    MaxOverweight = 1
    Leavers = {1}
INVARIANT SizesExact
PROPERTIES
    DeliversFifo
    ClaimServed
