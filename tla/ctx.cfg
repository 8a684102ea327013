SPECIFICATION Spec
CONSTANTS
    w1 = w1
    j1 = j1
    j2 = j2
    j3 = j3
    NoJob = NoJob
    Windows <- OneWindow
    Jobs <- ThreeJobs
    Sweeper <- SweepJob
    MinChars = 1
    MaxExcerpt = 2
    Halves <- AllHalves
    CanDetach = FALSE
    CanCrash = FALSE
    CanFinish = FALSE
    MaxEvents = 3
    MaxTouched = 1
SYMMETRY Symmetry
INVARIANTS
    TypeOK
    NothingSkipped
    OneJobPerWindow
    MergedOnce
PROPERTIES
    CursorNeverBack
CHECK_DEADLOCK FALSE
