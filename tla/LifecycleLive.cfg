SPECIFICATION FairSpec
CONSTANTS
    IDs = {id1}
    NoID = NoID
    Peers = {p1}
    Faults <- LiveFaults
    Transport = "iscsi"
    LingerOn = TRUE
    KeepOn = TRUE
    PreemptRWO = TRUE
PROPERTIES
    IdleMountIsReleased
    KeptIsReleased
