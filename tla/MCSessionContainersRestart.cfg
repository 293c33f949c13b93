SPECIFICATION Spec
CONSTANTS
    Containers = {k1, k2, k3}
    Objects = {o1, o2}
    Dispatches = {d1}
    Sweeps = {}
    Removers = {}
    NoContainer = NoContainer
    NoObject = NoObject
    Persistence = {TRUE, FALSE}
    MaxErrors = 1
    MaxRestarts = 1
INVARIANTS
    TurnRecorded
PROPERTIES
    TurnNotReaped
SYMMETRY SessionSymmetry
CHECK_DEADLOCK FALSE
VIEW SessionView
