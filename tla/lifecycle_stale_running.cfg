SPECIFICATION Spec
CONSTANTS
    Trays = {t1}
    Handlers = {h1}
    Replicas = {r1}
    Poller = poller
    NoTray = none
    StaleStatuses = {"creating", "registering", "registered", "deleting"}
    NamedByTray = FALSE
    WindowRaces = FALSE
    MaxFaults = 0
PROPERTY
    RunningNeverStale
CHECK_DEADLOCK FALSE
