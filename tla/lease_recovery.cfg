SPECIFICATION FairSpec
CONSTANTS
    Task = {t1}
    Agent = {a1}
    Lease = {l1, l2}
    Handler = {h1}
    Sweeper = {s1, s2}
    None = None
    MaxAttempts = 2
    MaxFaults = 2
    WorkerTargets <- ParkingWorkerTargets
    HeldTargets <- GuardedHeldTargets
    FreeTargets <- NoTargets
    ForceCompletes = FALSE
    Retries = TRUE
PROPERTIES LapsedLeaseReclaimed ExpiryIsDurable CountFallsForCause
CHECK_DEADLOCK FALSE
