SPECIFICATION FairSpec
CONSTANTS
    MaxInc = 2
    Writer = {w1, w2}
    Window = 1
    PipeCap = 1
    Lengths = {2}
INVARIANT TypeOK
INVARIANT OneAuthor
INVARIANT AckMeansDelivered
INVARIANT EofIsHonest
PROPERTY LockIsNotLeaked
CHECK_DEADLOCK FALSE
