SPECIFICATION FairSpec
CONSTANTS
    Delays = {0, 2}
    Intervals = {0, 1}
    MaxId = 3
    MaxTime = 2
INVARIANTS
    RoundExact
    NeverEarly
PROPERTIES
    NeverAfterEnd
    PeriodicPersists
    OneShotRuns
