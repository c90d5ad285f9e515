SPECIFICATION Spec
CONSTANTS
    Hosts = {h1, h2}
    MaxMounts = 3
    Faults <- AllFaults
SYMMETRY Symmetry
INVARIANTS
    TypeOK
    OvertakenMountsAreCutOff
PROPERTIES
    FormatsNoData
