SPECIFICATION Spec
CONSTANTS
    Trays = {t1, t2, t3}
    Pollers = {p1, p2}
    Nobody = nobody
    MaxTrays = 2
    MaxParallel = 2
    MaxDemand = 2
    MaxTries = 2
    HistorySize = 4
    MaxFaults = 1
INVARIANT
    MachinesWithinMax
