SPECIFICATION Spec
CONSTANTS
    MaxHandle = 2
    Pid = {p1, p2}
    NoPid = NoPid
    Host = {}
    Faults = {}
    SpawnSpecs <- JustAlways
    Requests = {"stop", "signal", "forget", "shutdown"}
    Killer = {k1}
    MaxRestarts = 1
    MaxBoots = 0
SYMMETRY Symmetry
PROPERTY DisarmedIsNotRelaunched
CHECK_DEADLOCK FALSE
