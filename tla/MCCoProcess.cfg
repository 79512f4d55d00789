SPECIFICATION FairSpec
CONSTANTS
    MaxCalls = 4
    Budget = 3
    MayWedge = TRUE
INVARIANTS
    BudgetHolds
    NoOrphan
PROPERTIES
    OurReply
    CallEndsUnlessWedged
CHECK_DEADLOCK FALSE
