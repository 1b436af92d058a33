SPECIFICATION FairSpec
CONSTANTS
    Trays = {t1, t2, t3}
    Pollers = {p1, p2}
    Nobody = nobody
    MaxTrays = 2
    MaxParallel = 1
    MaxDemand = 3
    MaxTries = 2
    HistorySize = 4
    MaxFaults = 2
INVARIANTS
    TypeOK
    CapHolds
    OneScaler
PROPERTIES
    DemandServed
    ScalesAsFleet
