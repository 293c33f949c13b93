SPECIFICATION Spec
CONSTANTS
    Containers = {k1, k2, k3}
    Objects = {o1, o2, o3}
    Dispatches = {d1}
    Sweeps = {s1}
    Removers = {}
    NoContainer = NoContainer
    NoObject = NoObject
    Persistence = {TRUE, FALSE}
    MaxErrors = 0
    MaxRestarts = 0
INVARIANTS
    TypeOK
    RecordsAgree
PROPERTIES
    OwnedNotReaped
SYMMETRY SessionSymmetry
CHECK_DEADLOCK FALSE
VIEW SessionView
