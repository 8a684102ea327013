SPECIFICATION FairSpec
CONSTANTS
    p1 = p1
    p2 = p2
    p3 = p3
    u1 = u1
    u2 = u2
    Nobody = Nobody
    Daemons <- ThreeDaemons
    Users <- TwoUsers
    Commands <- AllCommands
INVARIANTS
    TypeOK
    ServingAreRegistered
    OldOnesAreGone
PROPERTIES
    SettlesOnOne
CHECK_DEADLOCK FALSE
