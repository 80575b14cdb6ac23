CONSTANTS
    NetIds = {1}
    Size = 0
    Ground <- MCGround
    ObjectIds = {}
    FirstDrops = {0}
    MaxVisits = 1
    MaxWire = 2
    Args = {"none", "exit", "too long", "far", "near"}
    Junk = "junk"
    MaxWarps = 2
SPECIFICATION MCSpec
PROPERTY WarpReachesNamed
