\* Two runs under one handle and four ticks: a late tick of the first can take the
\* place of a sample of the second, and another line of the second can follow.
SPECIFICATION Spec
CONSTANTS
    Node = {a}
    Handle = {h1}
    MaxTickAge = 1
    MaxSkew = 0
    MaxRuns = 2
    MaxSeq = 4
    MaxTicks = 4
    MaxCpu = 1
    MaxTime = 1
INVARIANT TypeOK
INVARIANT PrintedInOrder
INVARIANT NoCpuIsInvented
CHECK_DEADLOCK FALSE
