SPECIFICATION PollSpec
CONSTANTS
    Runs = {w1}
    NoRun = run0
    Replicas = {r1, r2}
    Bare = {w1}
    MaxSaves = 2
    MaxFaults = 1
INVARIANTS
    TypeOK
    RerunsBounded
PROPERTIES
    RequestSettles
    BareRunsRerun
CHECK_DEADLOCK FALSE
