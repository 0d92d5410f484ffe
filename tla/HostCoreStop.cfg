SPECIFICATION FairSpec
CONSTANTS
    Calls = {c1}
    Depth = 2
    MaxPending = 1
    InitialCredit = 1
    MaxCredit = 1
    MaxSession = 1
    MaxOps = 1
    FrameTypes = {"HELLO", "CREDIT"}
    PeerMayDie = FALSE
PROPERTY StopCompletes
