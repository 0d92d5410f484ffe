SPECIFICATION CallsSpec
CONSTANTS
    c1 = c1
    c2 = c2
    Calls = {c1, c2}
    Buffers = {1, 2, 3, 4}
    CoreQueueDepth = 2
    MaxPending = 1
SYMMETRY Symmetry
INVARIANTS CallsTypeOK BuffersHeld CalledBackOnce
