SPECIFICATION Spec
CONSTANTS
    MaxHandle = 1
    Pid = {p1, p2}
    NoPid = NoPid
    Host = {"store", "cgroups", "reuse"}
    Faults = {"spawn", "leaf"}
    SpawnSpecs <- RetryOnce
    Requests = {"stop", "signal", "forget", "shutdown"}
    Killer = {k1, k2}
    MaxRestarts = 2
    MaxBoots = 1
SYMMETRY Symmetry
INVARIANT TypeOK
INVARIANT EveryChildIsOwned
INVARIANT RunningIsSupervised
INVARIANT StopIsFinal
INVARIANT GivesUpForAReason
INVARIANT DiskMatchesTable
INVARIANT LeavesAreCollected
PROPERTY ImplementsSupervision
CHECK_DEADLOCK FALSE
