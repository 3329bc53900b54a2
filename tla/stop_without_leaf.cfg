SPECIFICATION FairSpec
CONSTANTS
    MaxHandle = 1
    Pid = {p1, p2}
    NoPid = NoPid
    Host = {"store", "cgroups"}
    Faults = {"leaf"}
    SpawnSpecs <- JustAlways
    Requests = {"stop"}
    Killer = {k1}
    MaxRestarts = 1
    MaxBoots = 0
PROPERTY StopKills
CHECK_DEADLOCK FALSE
