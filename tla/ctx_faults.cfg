SPECIFICATION FairSpec
CONSTANTS
    w1 = w1
    j1 = j1
    j2 = j2
    j3 = j3
    NoJob = NoJob
    Windows <- OneWindow
    Jobs <- TwoJobs
    Sweeper <- SweepJob
    MinChars = 1
    MaxExcerpt = 2
    Halves <- Both
    CanDetach = TRUE
    CanCrash = TRUE
    CanFinish = TRUE
    MaxEvents = 2
    MaxTouched = 0
PROPERTIES
    GrowthIsSummarised
CHECK_DEADLOCK FALSE
