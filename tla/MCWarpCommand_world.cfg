CONSTANTS
    NetIds = {1, 2}
    Size = 1
    Ground <- MCGround
    ObjectIds = {1, 65537}
    FirstDrops = {0, 65536}
    MaxVisits = 2
    MaxWire = 2
    Args = {"none", "far"}
    Junk = "far"
    MaxWarps = 2
SPECIFICATION MCSpec
INVARIANT OustedNeverJoins
INVARIANT PlayersKnown
INVARIANT NothingInvented
INVARIANT CleanMirror
PROPERTY WarpsFromOutside
