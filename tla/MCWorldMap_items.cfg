CONSTANTS
    Builds = {2, 3}
    Tiles = {}
    Cuts = {0}
    Length = 3
    Count = 2
    Garbage = {0, 1000}
    SizeMax = 1048576
SPECIFICATION Spec
PROPERTY SentItemsParsed
