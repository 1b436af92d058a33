SPECIFICATION PollSpec
CONSTANTS
    Runs = {w1}
    NoRun = run0
    Replicas = {r1, r2}
    Bare = {}
    MaxSaves = 1
    MaxFaults = 0
PROPERTY
    FailedRunsRerun
CHECK_DEADLOCK FALSE
