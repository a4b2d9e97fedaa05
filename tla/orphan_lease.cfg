SPECIFICATION FairSpec
CONSTANTS
    Task = {t1}
    Agent = {a1}
    Lease = {l1, l2}
    Handler = {h1}
    Sweeper = {s1}
    None = None
    MaxAttempts = 2
    MaxFaults = 0
    WorkerTargets <- NoTargets
    HeldTargets <- CancelHeldTargets
    FreeTargets <- NoTargets
    ForceCompletes = FALSE
    Retries = FALSE
PROPERTIES OverdueLeaseReclaimed
CHECK_DEADLOCK FALSE
