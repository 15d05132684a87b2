SPECIFICATION Spec
CONSTANTS
    ParaIds <- Paras4
    Sessions <- SteadySessions
    MaxSessionAge = 1
INVARIANTS
    SchedulingSound
    NextUpKept
PROPERTIES
    NoIdleCore
    ClaimsConserved
