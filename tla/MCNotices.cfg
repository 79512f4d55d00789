SPECIFICATION Spec
CONSTANTS
    c1 = c1
    c2 = c2
    m1 = m1
    Procs <- MCProcs
    Apps <- MCApps
    App <- MCApp
    Peers <- MCPeers
    Texts = {"a"}
    InboxMax = 1
    Burst = 1
    Ttl = 1
    Window = 2
    MaxRecent = 1
    MaxNotes = 2
    MaxCrashes = 1
INVARIANTS
    NotesStayFew
PROPERTIES
    NothingVanishes
    NotesAreTaken
CHECK_DEADLOCK FALSE
