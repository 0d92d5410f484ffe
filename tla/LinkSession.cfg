SPECIFICATION FairLinkSpec
CONSTANTS
    Window = 2
    MaxRecords = 2
    MaxWaiting = 2
    MaxSequence = 3
    MaxWire = 3
    MaxFaults = 2
CHECK_DEADLOCK FALSE
INVARIANT CreditConserved
PROPERTY SessionsAgree
