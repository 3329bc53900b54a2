SPECIFICATION CooperativeSpec
CONSTANTS
    MaxInc = 2
    Writer = {w1, w2}
    Window = 1
    PipeCap = 1
    Lengths = {0, 2}
PROPERTY CallReturns
CHECK_DEADLOCK FALSE
