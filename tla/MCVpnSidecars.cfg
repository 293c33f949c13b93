SPECIFICATION FairSpec
CONSTANTS
    Agents = {a1, a2}
    Warmups = {w1}
    NoCaller = NoCaller
    MaxUpdates = 1
    MaxMishaps = 1
    MaxRestarts = 1
    MaxFaults = 2
INVARIANTS
    TypeOK
    HoldersCounted
    OneSidecar
PROPERTIES
    SidecarTaken
    UnusedSidecarGoes
CHECK_DEADLOCK FALSE
