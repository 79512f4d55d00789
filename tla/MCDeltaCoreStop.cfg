SPECIFICATION Spec
CONSTANTS
    MaxMsgs = 1
    MaxLoose = 1
    MaxEvents = 1
    MaxOffers = 1
INVARIANTS
    DisconnectStops
CHECK_DEADLOCK FALSE
