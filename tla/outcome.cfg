SPECIFICATION FairSpec
CONSTANTS
    Kinds <- AllKinds
    Watched <- Either
    Timeout = 3
    Stall = 1
    KillAfter = 1
    NoOutput = 2
    Infra = 3
    Multiplier = 2
    LowAnchor = 2
    HighAnchor = 4
    GraceMin = 0
    GraceMax = 2
    MaxChunks = 2
    Horizon = 4
    SlowReport = TRUE
INVARIANTS
    TypeOK
    AnswerStands
    
PROPERTIES
    
    KillsOnlyTheSilent
    Settles
    KeepsPromise
CHECK_DEADLOCK FALSE
