SPECIFICATION Spec
CONSTANTS
    h1 = h1
    h2 = h2
    r1 = r1
    r2 = r2
    n1 = n1
    c1 = c1
    s1 = s1
    i1 = i1
    Hosts = {h1}
    Reqs = {r1, r2}
    HostOf <- SameHost
    Kinds <- Readers
    DockerNames = {n1}
    arrayName <- Computed
    Spares <- Fresh
    Imports = {i1}
    EradicateOnRemove <- Parks
    Faults <- LocalFaults
    None = None
INVARIANTS
    TypeOK
    LocksAreHeldOnce
    FileIsLatest
PROPERTIES
    ListTellsAll
    MissingOnlyIfAbsent
