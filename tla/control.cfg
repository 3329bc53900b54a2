\* One call of any kind by either of two peers, three attempts, one crash of the
\* supervisor.
SPECIFICATION FairSpec
CONSTANTS
    Call = {c1}
    alice = alice
    bob = bob
    Peer = {alice, bob}
    Request = {"Spawn", "Signal", "Stop", "StdinStream", "Query", "Subscribe", "Forget", "List"}
    Posture <- Postures
    MaxRetries = 3
    MaxFrame = 1
    MaxRecords = 2
    MaxCrashes = 1
INVARIANTS TypeOK AtMostOnce ReportIsTruthful
PROPERTIES OnlyControlChangesTheTable EveryCallEnds
CHECK_DEADLOCK FALSE
