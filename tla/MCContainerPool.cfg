SPECIFICATION Spec
CONSTANTS
    Containers = {k1, k2, k3}
    Users = {u1, u2}
    Checks = {h1}
    Drains = {}
    NoContainer = NoContainer
    MinSize = 1
    MaxSize = 1
    MaxRecycles = 2
    MaxErrors = 1
INVARIANTS
    TypeOK
    ExclusiveUse
    BusyIsHeld
    NothingEscapes
PROPERTIES
    InUseStays
SYMMETRY PoolSymmetry
CHECK_DEADLOCK FALSE
