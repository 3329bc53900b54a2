SPECIFICATION Spec
CONSTANTS
    Peer = {a, b, c}
    Call = {c1, c2, c3}
    Burst = 2
    Refill = 1
    MaxBuckets = 1
    EvictionTtl = 1
    MaxTime = 3
SYMMETRY Symmetry
INVARIANT TypeOK
INVARIANT ExcessIsBeingEvicted
INVARIANT GrantsAreEarned
