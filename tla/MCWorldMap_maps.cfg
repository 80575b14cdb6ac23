CONSTANTS
    Builds = {2, 3}
    Tiles <- MCTiles
    Cuts = {0, 1, 21, 34, 38, 42, 46, 62}
    Length = 3
    Count = 2
    Garbage = {0, 2}
    SizeMax = 1048576
SPECIFICATION Spec
CHECK_DEADLOCK FALSE
INVARIANT OverreadExplained
INVARIANT ItemsAreAnnounced
PROPERTY NullExplained
