SPECIFICATION FairSpec
CONSTANTS
    MaxInc = 2
    Sub = {s1}
    STDOUT_CAP = 1
    MaxOutput = 3
INVARIANT TypeOK
INVARIANT MissedIsReported
INVARIANT EndedIsComplete
PROPERTY StreamEnds
PROPERTY OutputIsDrained
CHECK_DEADLOCK FALSE
