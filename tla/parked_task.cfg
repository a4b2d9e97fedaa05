SPECIFICATION Spec
CONSTANTS
    Task = {t1}
    Agent = {a1}
    Lease = {l1}
    Handler = {h1}
    Sweeper = {s1}
    None = None
    MaxAttempts = 2
    MaxFaults = 0
    WorkerTargets <- ParkingWorkerTargets
    HeldTargets <- NoTargets
    FreeTargets <- RequeueTargets
    ForceCompletes = FALSE
    Retries = FALSE
PROPERTIES ParkedNeverSwept
CHECK_DEADLOCK FALSE
