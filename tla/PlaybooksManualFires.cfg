SPECIFICATION Spec
CONSTANTS
    Playbooks = {p1}
    Ticks = {t1}
    Runs = {r1, r2}
    NoPlaybook = NoPlaybook
    MaxChains = 2
    MaxOutside = 0
INVARIANTS
    ManualNotScheduled
CHECK_DEADLOCK FALSE
