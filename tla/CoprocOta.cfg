SPECIFICATION Spec
CONSTANTS
    ImageSizes = {3}
    ChunkSize = 2
    Alignment = 2
    InitialCredit = 2
    MaxSession = 2
    MaxTransfer = 2
    MaxOp = 4
INVARIANTS
    TypeOK
    ActivatesVerified
    ChunksTile
    ReportedIsDurable
    CreditAccounted
