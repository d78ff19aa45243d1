CONSTANTS
    Callers = {c1, c2}
    Keys = {k1, k2}
    Slots = {s1, s2, s3}
    maxEntries = 2
    TTL = 2
    MaxTime = 3
    Nobody = Nobody
    NoKey = NoKey
    NoSlot = NoSlot
SPECIFICATION Spec
INVARIANTS
    IInv
    SingleFlight
    ReadsNeverGoBack
PROPERTIES
    EveryCallReturns
