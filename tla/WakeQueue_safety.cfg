SPECIFICATION Spec
CONSTANTS
    w1 = w1
    w2 = w2
    f1 = f1
    f2 = f2
    NoWake = NoWake
    Wakes = {w1, w2}
    HeldWakes = {w2}
    Flushers = {f1, f2}
    MaxTime = 1
    MaxFaults = 1
SYMMETRY FlusherSymmetry
INVARIANTS
    TypeOK
    NoAcceptedWakeLost
    RedeliveryBounded
PROPERTIES
    ImplementsBuffer
