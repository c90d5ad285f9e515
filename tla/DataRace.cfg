SPECIFICATION Spec
CONSTANTS
    Hosts = {h1, h2}
    MaxMounts = 2
    Faults <- NoFaults
PROPERTIES
    FormatsOnlyUnwritten
