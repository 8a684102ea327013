SPECIFICATION Spec
CONSTANTS
    d1 = d1
    d2 = d2
    s1 = s1
    s2 = s2
    s3 = s3
    s4 = s4
    NoPid = NoPid
    Dispatches <- TwoDispatches
    Readers <- OneReader
    Pids <- FourPids
    MinServers = 1
    MaxServers = 2
    MaxRequests = 1
    Threshold = 1
    RunnerEnabled = TRUE
    StartMayFail = TRUE
    MayHang = FALSE
    HealthWrites = TRUE
SYMMETRY Symmetry
INVARIANTS
    TypeOK
    OneEntryPerPort
PROPERTIES
    DrainingIsFinal
    SentinelProtects
    IdleKeepsMinimum
