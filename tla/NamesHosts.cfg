SPECIFICATION Spec
CONSTANTS
    h1 = h1
    h2 = h2
    r1 = r1
    r2 = r2
    n1 = n1
    c1 = c1
    s1 = s1
    i1 = i1
    Hosts = {h1, h2}
    Reqs = {r1, r2}
    HostOf <- OneEach
    Kinds <- Changers
    DockerNames = {n1}
    arrayName <- Computed
    Spares <- Fresh
    Imports = {i1}
    EradicateOnRemove <- OneEradicates
    Faults <- ArrayFaults
    None = None
INVARIANTS
    NameLeadsToOneVolume
PROPERTIES
    MissingOnlyIfAbsent
    RemovedIsGone
    ServedIsThere
CONSTRAINT
    SomethingPromised
VIEW
    HostsView
