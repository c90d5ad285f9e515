SPECIFICATION Spec
CONSTANTS
    Vols = {v1, v2}
    Luns = {l1, l2}
    Disks = {sda, sdb}
    Ports = {t1}
    NoVol = NoVol
    NoLun = NoLun
    Checker = Checker
    NoOne = NoOne
    Before = {}
    Faults = {}
SYMMETRY Symmetry
PROPERTIES
    FlushesOnlyOwnVolume
