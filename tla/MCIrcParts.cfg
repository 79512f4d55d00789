SPECIFICATION PartsSpec
CONSTANTS
    PING_IDLE = 9
    PING_GRACE = 3
    Busy = 1
    Rtt = 1
    MaxTime = 40
    BURST = 2
    RATE = 3
    Late = 1
    FloodTime = 24
    MaxQueue = 3
    Chans = {c1, c2}
    Configured = {c1}
    Bot = TRUE
    Policy = "ops"
    NoChan = NoChan
    MaxToServer = 2
    MaxToClient = 2
    Convs = {c1, c2}
    Pages = 2
    MaxWire = 2
    Caps = {"sasl", "batch"}
    MaxNick = 1
INVARIANTS
    SilenceIsNoticed
    OnlyTheDeadAreDropped
    NeverFloods
    HeadMovesOn
    ChannelsAgree
    HistoryIsHonest
    RegistrationEnds
