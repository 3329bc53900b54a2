SPECIFICATION FairSpec
CONSTANTS
    MaxHandle = 2
    Pid = {p1, p2}
    NoPid = NoPid
    Host = {"cgroups", "reuse"}
    Faults = {"spawn"}
    SpawnSpecs <- JustAlways
    Requests = {"stop", "signal", "forget", "shutdown"}
    Killer = {k1}
    MaxRestarts = 1
    MaxBoots = 0
PROPERTY StopKills
PROPERTY ZombiesAreReaped
PROPERTY ExitIsAnswered
CHECK_DEADLOCK FALSE
