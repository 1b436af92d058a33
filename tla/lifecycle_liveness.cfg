SPECIFICATION FairSpec
CONSTANTS
    Trays = {t1}
    Handlers = {h1, h2}
    Replicas = {r1}
    Poller = poller
    NoTray = none
    StaleStatuses = {"creating", "registering", "registered", "deleting"}
    NamedByTray = FALSE
    WindowRaces = FALSE
    MaxFaults = 1
PROPERTIES
    EveryVMReclaimed
    CompletedTrayRemoved
    EveryRowSettles
CHECK_DEADLOCK FALSE
