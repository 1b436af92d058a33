SPECIFICATION FairSpec
CONSTANTS
    MaxAttempts = 2
    MaxFaults = 3
INVARIANTS
    TypeOK
    ListenerStopped
PROPERTIES
    CancelledEnds
    MachineEnds
    RowGoes
CHECK_DEADLOCK FALSE
