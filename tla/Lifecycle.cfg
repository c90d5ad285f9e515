SPECIFICATION Spec
CONSTANTS
    IDs = {id1, id2}
    NoID = NoID
    Peers = {p1, p2}
    Faults <- AllFaults
    Transport = "iscsi"
    LingerOn = TRUE
    KeepOn = TRUE
    PreemptRWO = TRUE
SYMMETRY Symmetry
INVARIANTS
    TypeOK
    ServedStaysMounted
    EntryIsMounted
    ForeignHostsAreNew
    NoLeftoverRevived
    DestroysReleased
    NoForgottenAttachment
PROPERTIES
    NeverCutsHeld
