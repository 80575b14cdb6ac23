SPECIFICATION UncancelledSpec
CONSTANTS
    w1 = w1
    w2 = w2
    c1 = c1
    warp = warp
    NoTag = NoTag
    Workers = {w1}
    Callers = {c1}
    Tags = {warp}
    Options <- LiveOptions
    MaxId = 2
    MaxTime = 1
PROPERTIES
    StopReturns
    PendingRuns
    WaitAllReturns
