SPECIFICATION Spec
CONSTANTS
    Calls = {c1, c2}
    Depth = 2
    MaxPending = 2
    InitialCredit = 1
    MaxCredit = 1
    MaxSession = 2
    MaxOps = 1
    FrameTypes = {"HELLO", "HELLO_REJECT", "SESSION_CHANGED", "RESPONSE", "CREDIT", "OTHER"}
    PeerMayDie = FALSE
SYMMETRY CallSymmetry
INVARIANTS
    TypeOK
    CallsAccounted
    NoCallOutlivesLink
PROPERTIES
    SessionGivenUpFirst
    ClientSpec
