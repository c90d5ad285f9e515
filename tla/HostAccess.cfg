SPECIFICATION FairSpec
CONSTANTS
    Volumes = {v1, v2}
    Portals = {p1}
    OurName = ours
    PureName = theirs
    Theirs = w1
    MaxTroubles = 1
    None = None
INVARIANTS
    TypeOK
    OwnConnectionsAreFound
PROPERTIES
    UndisturbedMountSucceeds
    MountsGetThrough
