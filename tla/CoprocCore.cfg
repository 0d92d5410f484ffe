SPECIFICATION FairSpec
CONSTANTS
    r1 = r1
    r2 = r2
    wifi = wifi
    now = now
    Requests = {r1, r2}
    Services = {wifi}
    Immediate = now
    Channels = {"rpc"}
    Depth = 1
    InitialCredit = 1
    MaxCredit = 1
    MaxHellos = 2
INVARIANTS TypeOK AnsweredOnce
PROPERTY OperationEnds
