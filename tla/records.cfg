CONSTANTS
    n1 = n1
    n2 = n2
    g1 = g1
    r1 = r1
    r2 = r2
    s1 = s1
    p1 = p1
    p2 = p2
    NoEntry = NoEntry
    NoDoc = NoDoc
    Nobody = Nobody
    Names <- MCNames
    Taken <- MCTaken
    Goals <- MCGoals
    Repos <- MCRepos
    Sessions <- MCSessions
    Procs <- MCProcs
    MaxCommands = 3
    MaxKills = 1
SPECIFICATION Spec
SYMMETRY Symmetry
INVARIANTS
    TypeOK
    EntriesHaveDocs
    GoalsStay
    TargetsExist
    NoneWaitInACircle
CHECK_DEADLOCK FALSE
