SPECIFICATION FairSpec
CONSTANTS
    MaxHandle = 3
    Pid = {p1, p2}
    NoPid = NoPid
    Host = {"cgroups"}
    Faults = {}
    SpawnSpecs <- JustAlways
    Requests = {"shutdown"}
    Killer = {}
    MaxRestarts = 1
    MaxBoots = 0
PROPERTY DrainKills
CHECK_DEADLOCK FALSE
