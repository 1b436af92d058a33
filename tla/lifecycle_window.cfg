SPECIFICATION Spec
CONSTANTS
    Trays = {t1}
    Handlers = {h1}
    Replicas = {r1}
    Poller = poller
    NoTray = none
    StaleStatuses = {}
    NamedByTray = FALSE
    WindowRaces = TRUE
    MaxFaults = 0
INVARIANT
    NoOrphanVM
CHECK_DEADLOCK FALSE
