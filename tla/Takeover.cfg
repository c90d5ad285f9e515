SPECIFICATION FairSpec
CONSTANTS
    Nodes = {n1, n2}
    Grace = 4
    MaxWait = 2
    StaleHold = 4
    Linger = 1
    KeepFor = 2
    MaxFailures = 1
INVARIANTS
    TypeOK
PROPERTIES
    PreemptsOnlyAfterGrace
    DeadHolderGivesWay
