SPECIFICATION PosixSpec
CONSTANTS
    t1 = t1
    t2 = t2
    t3 = t3
    i1 = i1
    i2 = i2
    Nobody = Nobody
    Threads = {t1, t2, t3}
    Items = {i1, i2}
    Capacity = 2
    Maximum = 2
    b1 = b1
    b2 = b2
    Bits = {b1, b2}
SYMMETRY Symmetry
INVARIANT NoLostWakeup
PROPERTY ContractSpec
