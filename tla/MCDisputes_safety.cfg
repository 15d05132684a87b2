SPECIFICATION Spec
CONSTANTS
    v1 = v1
    v2 = v2
    v3 = v3
    v4 = v4
    v5 = v5
    v6 = v6
    v7 = v7
    a = a
    b = b
    Validators <- Four
    Keys = {a, b}
    SessionOf <- TwoSessions
    DisputePeriod = 1
    ConclusionTimeout = 2
    AcceptancePeriod = 1
    MaxSpamSlots = 1
    MaxBlock = 4
    MaxSets = 2
    MaxVotes = 1
SYMMETRY FourSymmetry
INVARIANTS
    TypeOK
    FreezeCovers
    DisputeSound
    ConcludesTwiceOnlyByDoubleVotes
    TimeoutEnforced
    PruningExact
PROPERTIES
    VotesStand
    UnfrozenByGovernance
