SPECIFICATION FairSpec
CONSTANTS
    MaxMsgs = 2
    MaxLoose = 1
    MaxEvents = 1
    MaxOffers = 2
INVARIANTS
    CoreInStep
    EveryMessageOnce
    MailFlows
PROPERTIES
    StartEnds
CHECK_DEADLOCK FALSE
