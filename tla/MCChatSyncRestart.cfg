SPECIFICATION Spec
CONSTANTS
    Convs = {c1}
    MaxUnread = 1
    EventCap = 2
    MaxEvents = 2
    MaxStarts = 2
INVARIANTS
    RestartNoticed
CHECK_DEADLOCK FALSE
