SPECIFICATION FairSpec
CONSTANTS
    Containers = {k1, k2, k3}
    Users = {u1}
    Checks = {h1}
    Drains = {d1}
    NoContainer = NoContainer
    MinSize = 1
    MaxSize = 2
    MaxRecycles = 2
    MaxErrors = 0
PROPERTIES
    DepthMaintained
CHECK_DEADLOCK FALSE
