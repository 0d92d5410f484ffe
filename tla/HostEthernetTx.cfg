SPECIFICATION FairSpec
CONSTANTS
    Ethernet = {sta, ap}
    NoChannel = NoChannel
    Threads = {t1, t2}
    SlotDepth = 2
    QueueDepth = 2
    AggregationLimit = 2
    MaxCredit = 2
INVARIANTS
    TypeOK
    SlotsConserved
    CountersExact
    AdmittedIsCovered
PROPERTIES ServedInOrder SlotsComeBack
