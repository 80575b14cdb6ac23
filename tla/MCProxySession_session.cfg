SPECIFICATION FairSpec
CONSTANTS
    e1 = e1
    e2 = e2
    h1 = h1
    h2 = h2
    None = None
    Junk = Junk
    Endpoints = {e1, e2}
    Posters = {h1, h2}
    Vetoable = {"ClientConnect"}
INVARIANTS
    PeerPointers
    OrphanExplained
PROPERTIES
    BridgeSettles
    UpstreamReleased
    PairTeardown
