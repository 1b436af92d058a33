SPECIFICATION FairSpec
CONSTANTS
    Replicas = {r1, r2}
    Nobody = nobody
    Gone = gone
    TTL = 2
    RenewInterval = 2
    MaxLatency = 2
    MaxStop = 1
    MaxSkew = 1
    MaxFaults = 1
INVARIANT
    OneTermAtATime
PROPERTY
    StrayWorkEnds
