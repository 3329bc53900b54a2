SPECIFICATION Spec
CONSTANTS
    MaxHandle = 2
    Pid = {p1, p2}
    NoPid = NoPid
    Host = {"store"}
    Faults = {}
    SpawnSpecs <- JustAlways
    Requests = {"forget"}
    Killer = {}
    MaxRestarts = 1
    MaxBoots = 2
SYMMETRY Symmetry
INVARIANT FreshHandles
PROPERTY StaleStaysStale
PROPERTY ImplementsSupervision
CHECK_DEADLOCK FALSE
