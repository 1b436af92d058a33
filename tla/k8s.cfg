SPECIFICATION FairSpec
CONSTANTS
    Replicas = {r1, r2}
    Nobody = nobody
    Gone = gone
    Cadences <- ThreeCadences
    MaxStart = 1
    MaxStop = 1
    MaxRelease = 1
    MaxFaults = 2
INVARIANTS
    TypeOK
    LeaderHoldsLease
    OverlapOnlyAfterHandback
    OneTermPerReplica
    DatabaseOutlivesPoller
PROPERTIES
    LeadsAsPromised
    AlwaysLedAgain
