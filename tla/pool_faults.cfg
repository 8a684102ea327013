SPECIFICATION FairSpec
CONSTANTS
    d1 = d1
    d2 = d2
    s1 = s1
    s2 = s2
    s3 = s3
    s4 = s4
    NoPid = NoPid
    Dispatches <- OneDispatch
    Readers <- NoReaders
    Pids <- ThreePids
    MinServers = 1
    MaxServers = 2
    MaxRequests = 1
    Threshold = 1
    RunnerEnabled = FALSE
    StartMayFail = TRUE
    MayHang = TRUE
    HealthWrites = TRUE
PROPERTIES
    LeaksAreHealed
