---------------------------- MODULE MCTaskLease ----------------------------
(* Finite instances of TaskLease for TLC.                                   *)
EXTENDS TaskLease, TLC

\* What workers ask for (worker.py, executor results).
AllWorkerTargets == {"running", "needs_review", "needs_input", "blocked"}
\* What operators and services ask of a task that holds a lease.
AllHeldTargets == {"stopped", "cancelled", "needs_input"}
\* ... and of one that does not.
AllFreeTargets == {"open", "needs_input", "completed", "failed"}

\* The same under the assumption Guarded.
GuardedWorkerTargets == {"running", "needs_review", "blocked", "failed"}
GuardedHeldTargets == {"stopped"}
GuardedFreeTargets == {"open", "completed"}

\* Just what one scenario needs.
RequeueTargets == {"open"}
CancelHeldTargets == {"cancelled"}
NoTargets == {}
ParkingWorkerTargets == {"running", "needs_input"}

Symmetry == Permutations(Agent) \cup Permutations(Lease)
                \cup Permutations(Sweeper) \cup Permutations(Handler)
=============================================================================
