SPECIFICATION Spec
CONSTANTS
    t1 = t1
    t2 = t2
    Threads = {t1, t2}
    Inbound = {"hci rx"}
    Depth = 2
    InitialCredit = 2
    RxWindow = 1
    MaxSession = 2
SYMMETRY Symmetry
INVARIANTS PromisesCounted AdmittedFindsCredit RefusedIsTold WindowAccounted
