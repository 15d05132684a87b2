SPECIFICATION MCSpec
CONSTANTS
    p1 = p1
    p2 = p2
    c1 = c1
    c2 = c2
    c3 = c3
    v1 = v1
    v2 = v2
    a = a
    b = b
    x = x
    y = y
    z = z
    ParaIds <- Couple
    GenesisParas <- Single
    Codes <- TwoCodes
    GenesisCode = c1
    Validators <- TwoVoters
    PvfChecking = TRUE
    LateUpgrades = FALSE
    RootCalls <- Trusted
    UpgradeCooldown = 3
    MaxBlock = 5
    CallsPerBlock = 1
    VotingTtl = 2
    UpgradeDelay = 1
    MinUpgradeDelay = 2
    Retention = 1
SYMMETRY Symmetry
INVARIANTS
    NoStuckPara
    LifecyclesConsistent
    CodeKept
    ChannelsExact
PROPERTY SlotsFollowDisputes
