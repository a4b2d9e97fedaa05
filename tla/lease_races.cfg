SPECIFICATION Spec
CONSTANTS
    Task = {t1}
    Agent = {a1}
    Lease = {l1, l2}
    Handler = {h1, h2}
    Sweeper = {s1}
    None = None
    MaxAttempts = 2
    MaxFaults = 0
    WorkerTargets <- AllWorkerTargets
    HeldTargets <- AllHeldTargets
    FreeTargets <- AllFreeTargets
    ForceCompletes = TRUE
    Retries = TRUE
SYMMETRY Symmetry
INVARIANTS OneActiveLeasePerTask InFlightUnderLease
PROPERTIES  NoStaleWorkerWrite CountFallsForCause OrphanedByStaleRequest
CHECK_DEADLOCK FALSE
