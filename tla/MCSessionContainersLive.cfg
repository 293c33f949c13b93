SPECIFICATION FairSpec
CONSTANTS
    Containers = {k1, k2}
    Objects = {o1}
    Dispatches = {d1}
    Sweeps = {}
    Removers = {r1}
    NoContainer = NoContainer
    NoObject = NoObject
    Persistence = {TRUE}
    MaxErrors = 1
    MaxRestarts = 0
PROPERTIES
    StraysGo
    OwnedNotReaped
CHECK_DEADLOCK FALSE
