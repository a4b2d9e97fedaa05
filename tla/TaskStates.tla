---------------------------- MODULE TaskStates ----------------------------
(***************************************************************************)
(* The task state machine of the hub (models.py): the states a ledger task *)
(* may be in and the edges validate_transition accepts.                    *)
(***************************************************************************)

\* The states of a ledger task.
TaskState ==
    {"open", "waiting", "blocked", "claimed", "running", "needs_review",
     "needs_input", "stopped", "reviewing", "completed", "failed", "cancelled"}

\* States in which an executor holds, or is about to hold, the task.
InFlightTaskState == {"claimed", "running"}

\* Where a task may be parked or ended from every live state but needs_input.
Leave == {"open", "waiting", "blocked", "needs_input", "stopped", "failed", "cancelled"}

\* The edges of the state machine, as pairs <<from, to>>.
TaskTransition ==
    UNION {
        {"stopped", "waiting", "blocked"} \X Leave,
        {"open"}         \X (Leave \cup {"claimed"}),
        {"claimed"}      \X (Leave \cup {"running"}),
        {"running"}      \X (Leave \cup {"needs_review"}),
        {"needs_review"} \X (Leave \cup {"reviewing", "running", "completed"}),
        {"reviewing"}    \X (Leave \cup {"needs_review", "running", "completed"}),
        {"needs_input"}  \X {"open", "cancelled"},
        {"failed", "cancelled"} \X {"open"}
    } \ {<<s, s>> : s \in TaskState}
=============================================================================
