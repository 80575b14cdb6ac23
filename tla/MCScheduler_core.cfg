SPECIFICATION Spec
CONSTANTS
    w1 = w1
    w2 = w2
    c1 = c1
    warp = warp
    NoTag = NoTag
    Workers = {w1, w2}
    Callers = {c1}
    Tags = {warp}
    Options <- MCOptions
    MaxId = 2
    MaxTime = 1
SYMMETRY Symmetry
INVARIANTS
    ContainersExact
    SleepersWake
    OneLivePerChain
    WorkersCoverReady
PROPERTIES
    CancelEndsChain
    IdleAnnounced
    ImplementsLifecycle
