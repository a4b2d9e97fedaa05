SPECIFICATION Spec
CONSTANTS
    Task = {t1}
    Agent = {a1, a2}
    Lease = {l1, l2}
    Handler = {h1, h2}
    Sweeper = {s1}
    None = None
    MaxAttempts = 1
    MaxFaults = 1
    WorkerTargets <- GuardedWorkerTargets
    HeldTargets <- GuardedHeldTargets
    FreeTargets <- GuardedFreeTargets
    ForceCompletes = FALSE
    Retries = TRUE
SYMMETRY Symmetry
INVARIANTS TypeOK NoOrphanLease AttachmentSound
PROPERTIES OwnershipSpec
CHECK_DEADLOCK FALSE
