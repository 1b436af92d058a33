SPECIFICATION Spec
CONSTANTS
    Trays = {t1}
    Handlers = {h1, h2}
    Replicas = {r1, r2}
    Poller = poller
    NoTray = none
    StaleStatuses = {"creating", "registering", "registered", "deleting"}
    NamedByTray = FALSE
    WindowRaces = FALSE
    MaxFaults = 2
SYMMETRY Symmetry
INVARIANTS
    TypeOK
    NoOrphanVM
    DeletionsAreSafe
PROPERTIES
    RemovedForGood
CHECK_DEADLOCK FALSE
