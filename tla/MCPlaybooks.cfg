SPECIFICATION FairSpec
CONSTANTS
    Playbooks = {p1}
    Ticks = {t1}
    Runs = {r1, r2}
    NoPlaybook = NoPlaybook
    MaxChains = 2
    MaxOutside = 1
INVARIANTS
    TypeOK
    NoOverlap
    MarkedWhileRun
    OwnResult
PROPERTIES
    RunsSettle
    DueIsFired
CHECK_DEADLOCK FALSE
