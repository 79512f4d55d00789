SPECIFICATION FairSpec
CONSTANTS
    Convs = {c1, c2}
    MaxUnread = 1
    EventCap = 3
    MaxEvents = 4
    MaxStarts = 2
INVARIANTS
    NothingIsMissed
PROPERTIES
    WindowsCatchUp
CHECK_DEADLOCK FALSE
