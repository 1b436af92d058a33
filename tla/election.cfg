SPECIFICATION FairSpec
CONSTANTS
    Replicas = {r1, r2}
    Nobody = nobody
    Gone = gone
    TTL = 6
    RenewInterval = 2
    MaxLatency = 1
    MaxStop = 1
    MaxSkew = 1
    MaxFaults = 2
INVARIANTS
    TypeOK
    LeaseOutlivesWork
    AtMostOnePoller
PROPERTIES
    KeepsPromise
