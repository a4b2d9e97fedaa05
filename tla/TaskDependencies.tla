-------------------------- MODULE TaskDependencies --------------------------
(***************************************************************************)
(* Task dependencies: a task waits for the tasks it depends on, its join   *)
(* says which outcomes of theirs satisfy it, the dispatcher's sweep opens  *)
(* it, and a prerequisite that fails or is cancelled is reconciled with    *)
(* the tasks that wait for it - replaced, supervised or cascaded.          *)
(*                                                                         *)
(* A step is a committed SQL statement or transaction.  The reads a thread *)
(* makes between two of its writes are one step; what it read is kept in   *)
(* its row and may be stale when it writes, as the metadata of a task is   *)
(* always written whole and without a condition.                           *)
(***************************************************************************)
EXTENDS Naturals, Sequences

CONSTANTS
    Task,
    Handler,            \* threads of hub processes
    Sweeper,            \* those that may hold the sweep's reconciliation claim
    None,
    Needs,              \* the dependencies each task is created with
    Settled,            \* tasks whose join is all_settled, not all_success
    Integration,        \* cooperative integration parents
    CancelScope,        \* tasks whose policy is cancel_scope
    Spare,              \* tasks a superseding cancellation may name
    Flow,               \* tasks cancelled in their workflow's transaction
    Paused,             \* tasks of a paused project: nobody can claim them
    Fails,              \* tasks whose attempts may not succeed
    Touched,            \* tasks operators act on and leases expire on
    MaxAttempts,
    MaxIncidents        \* bound on crashes, expiries and operators' actions

ASSUME DependencyAssumption ==
    /\ Needs \in [Task -> SUBSET Task]
    /\ Sweeper \subseteq Handler
    /\ Settled \subseteq Task /\ Integration \subseteq Task /\ CancelScope \subseteq Task
    /\ Spare \subseteq Task /\ Flow \subseteq Task /\ Paused \subseteq Task
    /\ Fails \subseteq Task /\ Touched \subseteq Task
    /\ \A t \in Spare : Needs[t] = {}
    /\ MaxAttempts \in [Task -> Nat \ {0}] /\ MaxIncidents \in Nat
    /\ None \notin Task /\ {"kept", "met"} \cap Spare = {}

VARIABLES
    task,               \* the rows of tasks and of task_edges
    events,             \* tasks with a pending dependency.reconcile outbox row
    handler,            \* what each thread is doing
    incidents,
    met,                \* history: tasks that once satisfied all_success
    settled             \* history: tasks that once satisfied all_settled

rows == <<task, events, handler, incidents>>

vars == <<task, events, handler, incidents, met, settled>>

State == {"waiting", "open", "running", "blocked", "stopped", "completed",
          "failed", "cancelled"}

\* fate: the disposition of the last ending - "met" or a replacement when the
\* goal was met elsewhere; unsat and mark: the record dependency_resolution,
\* its prerequisites and whether its status is "unsatisfied".
Meta == [fate : {"kept", "met"} \cup Spare, unsat : SUBSET Task, mark : BOOLEAN]

\* manual: whether the latest BLOCKED event asks for a human.
TaskRow ==
    [state : State, leased : BOOLEAN, deps : SUBSET Task, meta : Meta,
     manual : BOOLEAN, attempts : Nat]

\* One call of _resolve_waiting_dependents_of: the dependents it has left.
Frame == [dep : Task, by : Spare \cup {None}, rows : SUBSET Task]

Fresh == [fate |-> "kept", unsat |-> {}, mark |-> FALSE]

Created(t) ==
    [state |-> IF Needs[t] = {} THEN "open" ELSE "waiting", leased |-> FALSE,
     deps |-> Needs[t], meta |-> Fresh, manual |-> FALSE, attempts |-> 0]

\* at is the task the thread works on and row what it read of it.
HandlerRow ==
    [pc : {"idle", "enter", "walk", "write", "block", "done", "note", "open"},
     stack : Seq(Frame), at : Task \cup {None}, row : TaskRow \cup {None},
     event : Task \cup {None}]

Idle == [pc |-> "idle", stack |-> <<>>, at |-> None, row |-> None, event |-> None]

\* Type invariant: rows, the recursion of each thread, and the history.
TypeOK ==
    /\ task \in [Task -> TaskRow]
    /\ \A t \in Task : task[t].attempts <= MaxAttempts[t]
    /\ events \subseteq Task
    /\ handler \in [Handler -> HandlerRow]
    /\ incidents \in 0..MaxIncidents
    /\ met \subseteq Task /\ settled \subseteq Task

-----------------------------------------------------------------------------
(* Joins *)

\* Completed, or cancelled because the goal was met elsewhere.
GoalMet(r) == r.state = "completed" \/ (r.state = "cancelled" /\ r.meta.fate # "kept")

Supervised(r) == r.state = "blocked" /\ r.meta.mark

\* all_settled: ended in any way, or blocked under supervision.
Over(r) == GoalMet(r) \/ r.state \in {"failed", "cancelled"} \/ Supervised(r)

\* Every dependency satisfies the task's join.
Joined(t) ==
    \A d \in task[t].deps : IF t \in Settled THEN Over(task[d]) ELSE GoalMet(task[d])

\* Whether a blocked task waits for a human, or for its own supervision to end.
NeedsRepair(r) == r.state = "blocked" /\ (r.meta.mark \/ r.manual)

-----------------------------------------------------------------------------
(* Transitions *)

Live == {"waiting", "open", "running", "blocked", "stopped"}

Incident ==
    /\ incidents < MaxIncidents
    /\ incidents' = incidents + 1

\* A transition to a state that releases the lease.
Moved(r, state) == [r EXCEPT !.state = state, !.leased = FALSE]

\* A transition to OPEN; one from FAILED or CANCELLED gives the attempts back.
Opened(r) ==
    [Moved(r, "open") EXCEPT
       !.attempts = IF r.state \in {"failed", "cancelled"} THEN 0 ELSE @]

Ended(r, state, fate) == [Moved(r, state) EXCEPT !.meta.fate = fate]

\* A thread that has committed the end of a task turns to its dependents.
Resolves(h, t) == handler' = [handler EXCEPT ![h] = [Idle EXCEPT !.pc = "enter", !.at = t]]

Goto(h, row) == handler' = [handler EXCEPT ![h] = row]

\* The walk with what is left of it; an outbox row is still to be marked.
Walking(h, stack) ==
    [Idle EXCEPT !.pc = CASE stack # <<>>            -> "walk"
                          [] handler[h].event # None -> "done"
                          [] OTHER                   -> "idle",
                 !.stack = stack, !.event = handler[h].event]

\* A frame without dependents is a call that has returned.
Push(frame, stack) == IF frame.rows = {} THEN stack ELSE <<frame>> \o stack

\* The stack without dependent t of its top frame.
Without(stack, t) == Push([Head(stack) EXCEPT !.rows = @ \ {t}], Tail(stack))

-----------------------------------------------------------------------------
Init ==
    /\ task = [t \in Task |-> Created(t)]
    /\ events = {}
    /\ handler = [h \in Handler |-> Idle]
    /\ incidents = 0
    /\ met = {} /\ settled = {}

-----------------------------------------------------------------------------
(* _resolve_waiting_dependents_of *)

\* A live replacement recorded on the prerequisite.
Replacement(d) ==
    LET r == task[d].meta.fate
    IN  IF r \in Spare /\ task[r].state \notin {"failed", "cancelled"} THEN r ELSE None

\* The waiting tasks that depend on d.
Waiters(d) == {t \in Task : task[t].state = "waiting" /\ d \in task[t].deps}

\* The call looks its dependents up.
Enter(h) ==
    /\ handler[h].pc = "enter"
    /\ LET d == handler[h].at
           frame == [dep |-> d, by |-> Replacement(d), rows |-> Waiters(d)]
       IN  Goto(h, Walking(h, Push(frame, handler[h].stack)))
    /\ UNCHANGED <<task, events, incidents>>

\* It reads the next dependent, and passes over one that waits no longer.
Read(h) ==
    /\ handler[h].pc = "walk"
    /\ LET frame == Head(handler[h].stack)
       IN  \E t \in frame.rows :
             Goto(h, IF frame.dep \in task[t].deps /\ task[t].state = "waiting"
                       THEN [handler[h] EXCEPT !.pc = "write", !.at = t, !.row = task[t]]
                       ELSE Walking(h, Without(handler[h].stack, t)))
    /\ UNCHANGED <<task, events, incidents>>

\* The dependent is over with; the walk goes on.
Proceeds(h) == Goto(h, Walking(h, Without(handler[h].stack, handler[h].at)))

\* It is over with, but its own dependents come first.
Descends(h) ==
    Goto(h, [handler[h] EXCEPT !.pc = "enter", !.row = None,
                               !.stack = Without(@, handler[h].at)])

\* dependency_resolution without d: no longer "unsatisfied" if d was in it.
Repaired(meta, d) ==
    [meta EXCEPT !.unsat = @ \ {d}, !.mark = @ /\ d \notin meta.unsat]

\* The state update_task writes with new dependencies: it looks at the state it
\* read, and stops and restarts a running task.
StateAfterEdit(r, seen) ==
    IF seen \in {"waiting", "open", "blocked", "running"} THEN "waiting" ELSE r.state

\* The replacement takes the place of the prerequisite.  update_task reads the
\* task again before its unconditional UPDATE, here at once or with Read.
Rewire(h) ==
    LET me == handler[h]
        t == me.at
        frame == Head(me.stack)
    IN
    /\ me.pc = "write" /\ frame.by # None
    /\ \E seen \in {"waiting", task[t].state} :
         task' = [task EXCEPT ![t] =
                    [@ EXCEPT !.state = StateAfterEdit(task[t], seen),
                              !.leased = task[t].leased /\ seen # "running",
                              !.deps = (me.row.deps \ {frame.dep}) \cup {frame.by},
                              !.meta = Repaired(me.row.meta, frame.dep)]]
    /\ Proceeds(h)
    /\ UNCHANGED <<events, incidents>>

\* The record is written with the metadata read before; an integration parent
\* goes on waiting.
Supervise(h) ==
    LET me == handler[h]
        d == Head(me.stack).dep
    IN
    /\ me.pc = "write" /\ Head(me.stack).by = None /\ me.at \notin CancelScope
    /\ task' = [task EXCEPT ![me.at].meta =
                  [me.row.meta EXCEPT !.unsat = @ \cup {d}, !.mark = TRUE]]
    /\ IF me.at \in Integration THEN Proceeds(h) ELSE Goto(h, [me EXCEPT !.pc = "block"])
    /\ UNCHANGED <<events, incidents>>

\* Another task is blocked, whatever it does by now, and its dependents follow;
\* a transition that is not allowed is swallowed.
Block(h) ==
    LET t == handler[h].at
    IN
    /\ handler[h].pc = "block"
    /\ IF task[t].state \in Live
         THEN /\ task' = IF task[t].state = "blocked" THEN task
                         ELSE [task EXCEPT ![t] = [Moved(@, "blocked") EXCEPT !.manual = FALSE]]
              /\ Descends(h)
         ELSE UNCHANGED task /\ Proceeds(h)
    /\ UNCHANGED <<events, incidents>>

\* The cascade cancels the dependent, or rewrites the disposition of a
\* cancelled one.
Cascade(h) ==
    LET t == handler[h].at
    IN
    /\ handler[h].pc = "write" /\ Head(handler[h].stack).by = None /\ t \in CancelScope
    /\ task' = IF task[t].state \in Live \cup {"cancelled"}
                 THEN [task EXCEPT ![t] = Ended(@, "cancelled", "kept")]
                 ELSE task
    /\ IF task[t].state \in Live THEN Descends(h) ELSE Proceeds(h)
    /\ UNCHANGED <<events, incidents>>

-----------------------------------------------------------------------------
(* The outbox *)

\* A thread that begins with the pending row of t.
Draining(t) == [Idle EXCEPT !.pc = "enter", !.at = t, !.event = t]

\* A later transition of t, or a request for it, drains the row of t; nothing
\* keeps two threads from taking the same one, and no loop takes it for them.
Drain(h, t) ==
    /\ handler[h] = Idle /\ t \in events
    /\ Goto(h, Draining(t))
    /\ UNCHANGED <<task, events, incidents>>

\* Its work done, the row is marked delivered.
Delivered(h) ==
    /\ handler[h].pc = "done"
    /\ events' = events \ {handler[h].event}
    /\ Goto(h, Idle)
    /\ UNCHANGED <<task, incidents>>

-----------------------------------------------------------------------------
(* The dispatcher's sweep and claims *)

\* Mutant of Releasable: a task under supervision is left to a human.
ReleasableUnlessRepair(t) ==
    /\ task[t].state \in {"waiting", "blocked"} /\ task[t].deps # {} /\ Joined(t)
    /\ ~NeedsRepair(task[t])

\* A waiting task whose join is satisfied, or one blocked only for its sake.
Releasable(t) ==
    /\ task[t].state \in {"waiting", "blocked"} /\ task[t].deps # {} /\ Joined(t)
    /\ NeedsRepair(task[t]) => task[t].meta.mark

\* The sweep finds such a task; it notes in the metadata of some of them that
\* the supervision is over, or what the join settled on.
SweepFinds(h, t) ==
    /\ h \in Sweeper /\ handler[h] = Idle /\ Releasable(t)
    /\ LET noted == \/ Supervised(task[t]) \/ t \in Integration
                    \/ \E d \in task[t].deps : task[d].state # "completed"
       IN  Goto(h, [Idle EXCEPT !.pc = IF noted THEN "note" ELSE "open",
                                !.at = t, !.row = task[t]])
    /\ UNCHANGED <<task, events, incidents>>

\* It writes the metadata it read, without the supervision of a blocked task.
SweepNotes(h) ==
    LET me == handler[h]
    IN
    /\ me.pc = "note"
    /\ task' = [task EXCEPT ![me.at].meta =
                  IF Supervised(me.row) THEN [me.row.meta EXCEPT !.unsat = {}, !.mark = FALSE]
                                        ELSE me.row.meta]
    /\ Goto(h, [me EXCEPT !.pc = "open"])
    /\ UNCHANGED <<events, incidents>>

\* It opens the task from whatever state the transition finds it in.
SweepOpens(h) ==
    LET t == handler[h].at
    IN
    /\ handler[h].pc = "open"
    /\ task' = IF task[t].state \in {"open", "completed"} THEN task
               ELSE [task EXCEPT ![t] = Opened(@)]
    /\ Goto(h, Idle)
    /\ UNCHANGED <<events, incidents>>

\* A block nobody has to repair, with the join unsatisfied, waits again.
SweepMigrates(h, t) ==
    /\ h \in Sweeper /\ handler[h] = Idle
    /\ task[t].state = "blocked" /\ ~NeedsRepair(task[t]) /\ task[t].deps # {} /\ ~Joined(t)
    /\ task' = [task EXCEPT ![t] = Moved(@, "waiting")]
    /\ UNCHANGED <<events, handler, incidents>>

\* claim_task opens a task the sweep has not come to.
OpenToClaim(t) ==
    /\ Releasable(t) /\ ~NeedsRepair(task[t])
    /\ task' = [task EXCEPT ![t] = Opened(@)]
    /\ UNCHANGED <<events, handler, incidents>>

\* Mutant of Claim: the dependencies are not checked again with the claim.
ClaimOpen(t) ==
    /\ task[t].state = "open" /\ ~task[t].leased
    /\ task[t].attempts < MaxAttempts[t] /\ t \notin Paused
    /\ task' = [task EXCEPT ![t].state = "running", ![t].leased = TRUE,
                            ![t].attempts = @ + 1]
    /\ UNCHANGED <<events, handler, incidents>>

\* Mutant of Claim: the attempts are not counted again with the claim.
ClaimOverBudget(t) ==
    /\ task[t].state = "open" /\ ~task[t].leased /\ Joined(t) /\ t \notin Paused
    /\ task' = [task EXCEPT ![t].state = "running", ![t].leased = TRUE,
                            ![t].attempts = @ + 1]
    /\ UNCHANGED <<events, handler, incidents>>

\* The claim and the agent's start.
Claim(t) ==
    /\ task[t].state = "open" /\ ~task[t].leased /\ Joined(t)
    /\ task[t].attempts < MaxAttempts[t] /\ t \notin Paused
    /\ task' = [task EXCEPT ![t].state = "running", ![t].leased = TRUE,
                            ![t].attempts = @ + 1]
    /\ UNCHANGED <<events, handler, incidents>>

-----------------------------------------------------------------------------
(* How attempts and tasks end *)

\* Review and publication complete the task.
Complete(t) ==
    /\ task[t].state = "running"
    /\ task' = [task EXCEPT ![t] = Ended(@, "completed", "kept")]
    /\ UNCHANGED <<events, handler, incidents>>

\* The executor fails in a way a retry or a human has to deal with.
AttemptBlocks(t) ==
    /\ task[t].state = "running" /\ t \in Fails
    /\ task' = [task EXCEPT ![t] = [Moved(@, "blocked") EXCEPT !.manual = TRUE]]
    /\ UNCHANGED <<events, handler, incidents>>

\* The executor fails for good; the same thread reconciles the dependents.
AttemptFails(h, t) ==
    /\ handler[h] = Idle
    /\ task[t].state = "running" /\ t \in Fails
    /\ task' = [task EXCEPT ![t] = Ended(@, "failed", "kept")]
    /\ Resolves(h, t)
    /\ UNCHANGED <<events, incidents>>

\* The tick handles a blocked attempt whose join is satisfied. An attempt that a
\* node, the router or the infrastructure spoilt is given back, whether the
\* attempts are used up or not; any other is retried within the attempts, if the
\* failure allows it, or ends the task: superseded, or failed. (The refund and
\* the transition are two transactions, which TaskLease takes apart; waiting for
\* a repair prerequisite is left out.)
AutoRetry(h, t) ==
    /\ handler[h] = Idle
    /\ task[t].state = "blocked" /\ task[t].attempts > 0 /\ Joined(t)
    /\ \/ /\ task[t].attempts < MaxAttempts[t]
          /\ task' = [task EXCEPT ![t] = Opened(@)]
          /\ UNCHANGED handler
       \/ /\ task' = [task EXCEPT ![t] = [Opened(@) EXCEPT !.attempts = task[t].attempts - 1]]
          /\ UNCHANGED handler
       \/ /\ \E end \in {"failed", "cancelled"} :
               task' = [task EXCEPT ![t] = Ended(@, end, "kept")]
          /\ Resolves(h, t)
    /\ UNCHANGED <<events, incidents>>

\* Mutant of CancelInFlow: the dependents are left to the thread, without a row.
CancelUnrecorded(h, t) ==
    /\ handler[h] = Idle /\ t \in Flow /\ task[t].state \in Live
    /\ task' = [task EXCEPT ![t] = Ended(@, "cancelled", "kept")]
    /\ Goto(h, Draining(t))
    /\ UNCHANGED <<events, incidents>>

\* cancel_run cancels a task in its own transaction, with an outbox row for the
\* dependents, which it drains after the commit.
CancelInFlow(h, t) ==
    /\ handler[h] = Idle /\ t \in Flow /\ task[t].state \in Live
    /\ task' = [task EXCEPT ![t] = Ended(@, "cancelled", "kept")]
    /\ events' = events \cup {t}
    /\ Goto(h, Draining(t))
    /\ UNCHANGED incidents

\* An operator cancels a task: not to be done, done elsewhere, or superseded.
Cancel(h, t) ==
    /\ handler[h] = Idle /\ t \in Touched /\ task[t].state \in Live
    /\ Incident
    /\ \E fate \in {"kept", "met"} \cup {r \in Spare \ {t} : task[r].state \notin {"failed", "cancelled"}} :
         task' = [task EXCEPT ![t] = Ended(@, "cancelled", fate)]
    /\ Resolves(h, t)
    /\ UNCHANGED events

\* The expiry of a lease writes OPEN or FAILED to the task the lease is
\* attached to, and tells no dependent.
LeaseExpires(t) ==
    /\ t \in Touched /\ task[t].leased
    /\ Incident
    /\ task' = [task EXCEPT ![t] =
                  Moved(@, IF @.attempts < MaxAttempts[t] THEN "open" ELSE "failed")]
    /\ UNCHANGED <<events, handler>>

\* An operator reopens a task: its dependency_resolution goes.
Reopen(t) ==
    /\ t \in Touched /\ task[t].state \in {"failed", "cancelled", "blocked"}
    /\ Incident
    /\ task' = [task EXCEPT ![t] =
                  [Opened(@) EXCEPT !.meta.unsat = {}, !.meta.mark = FALSE]]
    /\ UNCHANGED <<events, handler>>

\* force_complete_task, from any state.
ForceComplete(t) ==
    /\ t \in Touched /\ task[t].state # "completed"
    /\ Incident
    /\ task' = [task EXCEPT ![t] = Ended(@, "completed", "kept")]
    /\ UNCHANGED <<events, handler>>

\* stop_task: an operator's hold.
Stop(t) ==
    /\ t \in Touched /\ task[t].state \in Live \ {"stopped"}
    /\ Incident
    /\ task' = [task EXCEPT ![t] = Moved(@, "stopped")]
    /\ UNCHANGED <<events, handler>>

\* start_stopped_task: it waits unless its dependencies are COMPLETED,
\* whatever its join.
Start(t) ==
    /\ task[t].state = "stopped"
    /\ task' = [task EXCEPT ![t] =
                  IF \A d \in @.deps : task[d].state = "completed"
                    THEN Opened(@) ELSE Moved(@, "waiting")]
    /\ UNCHANGED <<events, handler, incidents>>

\* A process dies: its thread is gone, the outbox row stays pending.
Crash(h) ==
    /\ handler[h] # Idle
    /\ Incident
    /\ Goto(h, Idle)
    /\ UNCHANGED <<task, events>>

-----------------------------------------------------------------------------
HandlerStep(h) ==
    \/ Enter(h) \/ Read(h) \/ Rewire(h) \/ Supervise(h) \/ Block(h) \/ Cascade(h)
    \/ Delivered(h) \/ SweepNotes(h) \/ SweepOpens(h)

Sweep(h, t) == SweepFinds(h, t) \/ SweepMigrates(h, t)

\* What the tasks have satisfied so far.
Observed ==
    /\ met' = met \cup {t \in Task : GoalMet(task'[t])}
    /\ settled' = settled \cup {t \in Task : Over(task'[t])}

Step ==
    \/ \E h \in Handler :
         \/ HandlerStep(h) \/ Crash(h)
         \/ \E t \in Task :
              \/ Drain(h, t) \/ Sweep(h, t) \/ AttemptFails(h, t) \/ AutoRetry(h, t)
              \/ Cancel(h, t) \/ CancelInFlow(h, t)
    \/ \E t \in Task :
         \/ OpenToClaim(t) \/ Claim(t) \/ Complete(t) \/ AttemptBlocks(t)
         \/ LeaseExpires(t) \/ Reopen(t) \/ ForceComplete(t) \/ Stop(t) \/ Start(t)

Next == Step /\ Observed

Spec == Init /\ [][Next]_vars

\* Only these ever wait for others, as a rewired task keeps a dependency.
Dependent == {t \in Task : Needs[t] # {}}

\* A thread that does not die goes on, and the cursor of the hub's sweep comes
\* to every task.
Fairness ==
    /\ \A h \in Handler : WF_rows(HandlerStep(h))
    /\ \A t \in Dependent : WF_rows(\E h \in Sweeper : Sweep(h, t))

FairSpec == Spec /\ Fairness

-----------------------------------------------------------------------------
(* Properties *)

\* A task runs only if each of its dependencies, the ones it has now, once
\* satisfied its join, whatever is rewired, reopened or supervised around the
\* claim (claim_task checks the join in its transaction).
JoinHonored ==
    \A t \in Task :
        task[t].state = "running" =>
            task[t].deps \subseteq (IF t \in Settled THEN settled ELSE met)

\* A task that only waits for a join that is satisfied does not wait for ever,
\* even if it was blocked under supervision (_unblock_ready_tasks).
Stalled(t) ==
    /\ task[t].deps # {} /\ Joined(t)
    /\ task[t].state = "waiting" \/ Supervised(task[t])

WaitersReleased == \A t \in Dependent : Stalled(t) ~> ~Stalled(t)

\* The end of d has not reached the waiting task t.
Unreached(t, d) ==
    /\ task[t].state = "waiting" /\ d \in task[t].deps /\ ~task[t].meta.mark
    /\ task[d].state \in {"failed", "cancelled"}

\* A thread has begun with the outbox row of d, the first to do so.
Begun(d) ==
    \E h \in Handler :
        handler[h] = Draining(d) /\ \A g \in Handler \ {h} : handler[g].event # d

\* The row is there for another thread to take.
Pending(d) == d \in events /\ \A h \in Handler : handler[h].event # d

\* Work on an outbox row reaches every task that waits for the cancelled one, or
\* it died and the row is still pending: an event is never lost half done
\* (drain_task_transition_outbox marks the row after the work).
EventReaches ==
    \A d \in Flow : \A t \in {w \in Task : d \in Needs[w]} :
        (Begun(d) /\ Unreached(t, d)) ~> (~Unreached(t, d) \/ Pending(d))

\* A stopped task is queued again by an operator only (models.py: "An operator
\* hold. It leaves only where an operator sends it").
StoppedUntilOperator ==
    [][\A t \in Task :
          task[t].state = "stopped" /\ task'[t].state = "open" => Start(t)]_vars
=============================================================================
