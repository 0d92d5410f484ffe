SPECIFICATION Spec
CONSTANTS
    t1 = t1
    t2 = t2
    Threads = {t1, t2}
    HciCredit = 2
    AdvCredit = 1
    Depth = 2
    MaxHellos = 2
    MaxOp = 2
SYMMETRY ThreadSymmetry
INVARIANTS
    StateFollowsBackend
    EnabledCarriesHci
    ReservationsCounted
    AcceptedFindsCredit
    WaiterIsTold
