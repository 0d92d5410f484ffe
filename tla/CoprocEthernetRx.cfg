SPECIFICATION FairSpec
CONSTANTS
    sta = sta
    ap = ap
    Ethernet = {sta, ap}
    Depth = 1
    InitialCredit = 2
    BatchUnits = 32
    MaxSession = 2
    MaxWakers = 1
INVARIANTS TypeOK UnitsConserved BatchWakes
PROPERTY UnitsReturned
