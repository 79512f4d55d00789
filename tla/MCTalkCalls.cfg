SPECIFICATION FairTalk
CONSTANTS
    Peers = {alice, bob}
    NoPeer = nobody
    NumbersReused = TRUE
    MaxCalls = 2
    MaxWire = 1
    LineMax = 3
    ScriptMax = 5
    Texts <- MCTexts
INVARIANTS
    CallsAgree
    LogsAgree
PROPERTIES
    AnsweredSettles
CHECK_DEADLOCK FALSE
