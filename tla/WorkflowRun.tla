---------------------------- MODULE WorkflowRun ----------------------------
(***************************************************************************)
(* One workflow run (workflow_runtime.py): the row that names the node and *)
(* the task the run is at, the ledger tasks it spawns, the outbox events   *)
(* their outcomes enqueue, and the threads that advance the run: request   *)
(* threads draining events, the publish path, and the hub's tick.          *)
(*                                                                         *)
(* An advancement reserves the row (compare-and-set), spawns the task with *)
(* the reserved id, and finalizes the row, each in a transaction of its    *)
(* own, so two threads, a crash or the task itself may come in between. A  *)
(* compare-and-set is on the row read before; a new updated_at is a value  *)
(* (a stamp) that no thread holds.                                         *)
(***************************************************************************)
EXTENDS Naturals, Sequences, FiniteSets

CONSTANTS
    Node,           \* nodes of the workflow
    Task,           \* ids of ledger tasks
    Handler,        \* threads that may work on the run
    Ticker,         \* those of them that tick
    Stamp,          \* values of updated_at
    None,           \* no task, no node, no event
    Start,          \* the empty node key the start edge leaves
    Edge,           \* partial function <<node, condition>> -> Node, None for "ends"
    MaxAttempts,    \* [Node -> Nat \ {0}], max_attempts of each node
    Timed,          \* nodes with timeout_minutes
    Plan,           \* nodes of type plan
    Approval,       \* nodes of type approval
    Ends,           \* bound: [Node -> SUBSET Outcome], how the tasks of a node end
    MaxIncidents    \* bound on crashes, failed spawns and operator actions

Condition == {"success", "failure", "cancelled", "approved", "rejected"}

First == Edge[<<Start, "success">>]

ASSUME WorkflowAssumption ==
    /\ Node \cap Task = {}
    /\ None \notin Node \cup Task \cup Stamp
    /\ Start \notin Node \cup Task \cup {None}
    /\ DOMAIN Edge \subseteq (Node \cup {Start}) \X Condition
    /\ Edge \in [DOMAIN Edge -> Node \cup {None}]
    /\ <<Start, "success">> \in DOMAIN Edge /\ First \in Node
    /\ MaxAttempts \in [Node -> Nat \ {0}]
    /\ Timed \subseteq Node /\ Plan \subseteq Node /\ Approval \subseteq Node
    /\ Ticker \subseteq Handler
    /\ Ends \in [Node -> SUBSET {"completed", "failed", "cancelled", "blocked"}]
    /\ MaxIncidents \in Nat

VARIABLES
    run,            \* the workflow_runs row
    task,           \* the ledger tasks of the run
    history,        \* workflow_run_history rows that take a node
    events,         \* pending workflow.advance rows of the outbox
    handler,        \* what each thread is doing
    incidents       \* how many incidents there have been

vars == <<run, task, history, events, handler, incidents>>

RunState == {"none", "running", "completed", "failed", "cancelled"}

Outcome == {"completed", "failed", "cancelled", "blocked"}

\* A reservation is the id of the task to spawn, in the place of the node.
RunRow ==
    [state : RunState, at : Node \cup Task \cup {None}, task : Task \cup {None},
     stamp : Stamp \cup {None}, due : BOOLEAN]

TaskRow ==
    [state : {"absent", "live"} \cup Outcome, node : Node \cup {None},
     verdict : {"none", "approved", "rejected"}]

\* task is the one the move takes (the row of a first move leaves it out).
Move == [from : Node \cup {Start}, to : Node, task : Task]

Event == [task : Task, to : Outcome]

Pc == {"idle", "merge", "enter", "reread", "choose", "spawn", "finalize", "check",
       "tick", "expire"}

\* row is the run as the thread last read it; new the task it will spawn, from
\* the first read when it takes a reservation over; held and mark the place and
\* the updated_at that it will finalize; seen whether the spawned task was live
\* when it was returned.
HandlerRow ==
    [pc : Pc, start : BOOLEAN, from : Node \cup {Start}, cond : Condition,
     source : Task \cup {None}, event : Event \cup {None}, row : RunRow,
     new : Task \cup {None}, target : Node \cup {None},
     held : Node \cup Task \cup {None}, mark : Stamp \cup {None}, seen : BOOLEAN]

NoRow == [state |-> "none", at |-> None, task |-> None, stamp |-> None, due |-> FALSE]

Idle ==
    [pc |-> "idle", start |-> FALSE, from |-> Start, cond |-> "success",
     source |-> None, event |-> None, row |-> NoRow, new |-> None,
     target |-> None, held |-> None, mark |-> None, seen |-> FALSE]

\* Type invariant: the rows, and the history as a sequence of moves.
TypeOK ==
    /\ run \in RunRow
    /\ task \in [Task -> TaskRow]
    /\ history \in Seq(Move)
    /\ events \subseteq Event
    /\ handler \in [Handler -> HandlerRow]
    /\ incidents \in 0..MaxIncidents

-----------------------------------------------------------------------------

Running == run.state = "running"

Reserved == run.at \in Task

\* States of a task the runtime may still cancel.
Cancellable == {"live", "blocked"}

\* Mutant of Visits: the move start_run records is not counted.
VisitsButStart(n) == Cardinality({i \in DOMAIN history \ {1} : history[i].to = n})

\* How often the run took node n, by its history.
Visits(n) == Cardinality({i \in DOMAIN history : history[i].to = n})

\* The updated_at values some reader of the row still compares with; another
\* value is as good as a new one.
UsedStamp == {handler[h].row.stamp : h \in Handler} \cup {handler[h].mark : h \in Handler}

\* A task id nobody has used or reserved (new_id).
UsedTask ==
    {run.at} \cup {handler[h].new : h \in Handler}
             \cup {handler[h].row.at : h \in Handler} \cup {handler[h].held : h \in Handler}
             \cup {t \in Task : task[t].state # "absent"}

\* One of the unused members of S (they are interchangeable), if there is one.
Fresh(S, used) == IF S \subseteq used THEN {} ELSE {CHOOSE x \in S : x \notin used}

\* Mutant of ConditionOf: the task's state is taken for the condition.
ConditionIsState(t, state) == IF task[t].verdict # "none" THEN task[t].verdict ELSE state

\* TASK_TERMINAL_TO_CONDITION, or the decision on an approval task; a task
\* that has not ended counts as a failure.
ConditionOf(t, state) ==
    CASE task[t].verdict # "none" -> task[t].verdict
      [] state = "completed"      -> "success"
      [] state = "cancelled"      -> "cancelled"
      [] OTHER                    -> "failure"

\* The node an outcome leads to, by default the success edge's; None ends the run.
NextNode(n, c) ==
    IF <<n, c>> \in DOMAIN Edge THEN Edge[<<n, c>>]
    ELSE IF <<n, "success">> \in DOMAIN Edge THEN Edge[<<n, "success">>]
    ELSE None

\* Mutant of Unmoved: only the task is compared.
SameTask(row) == run.task = row.task

\* The row is still the one the thread read.
Unmoved(row) ==
    Running /\ run.at = row.at /\ run.task = row.task /\ run.stamp = row.stamp

\* A crash, a failure or an operator's action, within the bound.
Incident == incidents < MaxIncidents /\ incidents' = incidents + 1

\* The thread ends; the outbox row it worked on is delivered or failed, in
\* either case never tried again.
Done(h) ==
    /\ handler' = [handler EXCEPT ![h] = Idle]
    /\ events' = events \ {handler[h].event}

\* The thread goes on.
Goto(h, next) == handler' = [handler EXCEPT ![h] = next] /\ UNCHANGED events

-----------------------------------------------------------------------------

Init ==
    /\ run = NoRow
    /\ task = [t \in Task |-> [state |-> "absent", node |-> None, verdict |-> "none"]]
    /\ history = <<>>
    /\ events = {}
    /\ handler = [h \in Handler |-> Idle]
    /\ incidents = 0

\* start_run inserts the row with the first node's task reserved.
StartRun(h) ==
    /\ run.state = "none" /\ handler[h] = Idle
    /\ \E t \in Fresh(Task, UsedTask), s \in Fresh(Stamp, UsedStamp) :
         /\ run' = [state |-> "running", at |-> t, task |-> None, stamp |-> s, due |-> FALSE]
         /\ Goto(h, [Idle EXCEPT !.pc = "spawn", !.start = TRUE, !.new = t,
                                 !.target = First, !.held = t, !.mark = s])
    /\ UNCHANGED <<task, history, incidents>>

\* on_task_completed: the outcome of task t, unless the run has ended.
Completed(h, t, outcome, e) ==
    IF Running
    THEN handler' = [handler EXCEPT ![h] =
           [Idle EXCEPT !.pc = IF outcome = "completed" /\ task[t].node \in Plan
                               THEN "merge" ELSE "enter",
                        !.from = task[t].node, !.cond = ConditionOf(t, outcome),
                        !.source = t, !.event = e]]
         /\ UNCHANGED events
    ELSE UNCHANGED handler /\ events' = events \ {e}

\* A drain takes a pending row; nothing keeps a second drain from taking it too.
Deliver(h, e) ==
    /\ handler[h] = Idle /\ e \in events
    /\ Completed(h, e.task, e.to, e)
    /\ UNCHANGED <<run, task, history, incidents>>

\* The evidence of a plan node is merged into the run's context: the update
\* has no guard, and moves updated_at.
MergePlan(h) ==
    /\ handler[h].pc = "merge"
    /\ \/ UNCHANGED run
       \/ \E s \in Fresh(Stamp, UsedStamp) :
            run' = [run EXCEPT !.stamp = s, !.due = @ /\ ~Reserved]
    /\ Goto(h, [handler[h] EXCEPT !.pc = "enter"])
    /\ UNCHANGED <<task, history, incidents>>

\* An outcome the run is not waiting for, or somebody else's reservation.
Ignored(me) ==
    \/ ~Running
    \/ me.source # None /\ run.task # me.source
    \/ Reserved /\ ~run.due

\* _advance reads the run, and takes an old reservation over by renewing it (a
\* renewal that fails ends like an outcome ignored) ...
Enter(h) ==
    LET me == handler[h] IN
    /\ me.pc = "enter"
    /\ \/ /\ Ignored(me)
          /\ Done(h) /\ UNCHANGED run
       \/ /\ ~Ignored(me) /\ Reserved
          /\ \E s \in Fresh(Stamp, UsedStamp) : run' = [run EXCEPT !.stamp = s, !.due = FALSE]
          /\ Goto(h, [me EXCEPT !.pc = "reread", !.source = None, !.new = run.at])
       \/ /\ ~Ignored(me) /\ ~Reserved
          /\ Goto(h, [me EXCEPT !.pc = "choose", !.source = None, !.row = run])
          /\ UNCHANGED run
    /\ UNCHANGED <<task, history, incidents>>

\* ... and reads the run again, wherever it is by then. The reserved task is
\* still the one of the first read.
Reread(h) ==
    /\ handler[h].pc = "reread"
    /\ Goto(h, [handler[h] EXCEPT !.pc = "choose", !.row = run])
    /\ UNCHANGED <<run, task, history, incidents>>

\* The run ends, if the row is still the one read.
EndRun(row, state) ==
    IF Unmoved(row)
    THEN \E s \in Fresh(Stamp, UsedStamp) :
            run' = [state |-> state, at |-> None, task |-> None, stamp |-> s, due |-> FALSE]
    ELSE UNCHANGED run

\* _advance picks the edge: no edge ends the run, an exhausted node fails it,
\* and otherwise the node's task is reserved, or taken over when recovering.
Choose(h) ==
    LET me == handler[h]
        target == NextNode(me.from, me.cond)
        next == [me EXCEPT !.pc = "spawn", !.target = target, !.cond = "success"]
    IN
    /\ me.pc = "choose"
    /\ \/ /\ target = None
          /\ EndRun(me.row, IF me.cond \in {"success", "approved"}
                            THEN "completed" ELSE "failed")
          /\ Done(h)
       \/ /\ target # None /\ Visits(target) >= MaxAttempts[target]
          /\ EndRun(me.row, "failed")
          /\ Done(h)
       \/ /\ target # None /\ Visits(target) < MaxAttempts[target]
          /\ \/ /\ me.new # None
                /\ Goto(h, [next EXCEPT !.held = me.row.at, !.mark = me.row.stamp])
                /\ UNCHANGED run
             \/ /\ me.new = None /\ Unmoved(me.row)
                /\ \E t \in Fresh(Task, UsedTask), s \in Fresh(Stamp, UsedStamp) :
                     /\ run' = [run EXCEPT !.at = t, !.stamp = s, !.due = FALSE]
                     /\ Goto(h, [next EXCEPT !.new = t, !.held = t, !.mark = s])
             \/ /\ me.new = None /\ ~Unmoved(me.row)
                /\ Done(h) /\ UNCHANGED run
    /\ UNCHANGED <<task, history, incidents>>

\* _spawn_node_task creates the reserved task, or returns the one that is
\* there; one made for another node is an error.
Spawn(h) ==
    LET me == handler[h]
        t == me.new
        next == [me EXCEPT !.pc = "finalize", !.row = [NoRow EXCEPT !.task = me.row.task]]
    IN
    /\ me.pc = "spawn"
    /\ \/ /\ task[t].state = "absent"
          /\ task' = [task EXCEPT ![t] = [state |-> "live", node |-> me.target,
                                          verdict |-> "none"]]
          /\ Goto(h, [next EXCEPT !.seen = TRUE])
       \/ /\ task[t].state # "absent" /\ task[t].node = me.target
          /\ Goto(h, [next EXCEPT !.seen = task[t].state \in Cancellable])
          /\ UNCHANGED task
       \/ /\ task[t].state # "absent" /\ task[t].node # me.target
          /\ Done(h) /\ UNCHANGED task
    /\ UNCHANGED <<run, history, incidents>>

\* The row is the one the thread reserved, or read again: start_run does not
\* look at updated_at.
Holds(me) ==
    /\ Running /\ run.at = me.held
    /\ IF me.start THEN run.task = None
       ELSE run.task = me.row.task /\ run.stamp = me.mark

\* Creating the task fails: _advance puts the row back as it was, with the
\* old updated_at; start_run leaves the reservation to the tick.
SpawnFails(h) ==
    LET me == handler[h] IN
    /\ me.pc = "spawn" /\ task[me.new].state = "absent"
    /\ Incident
    /\ run' = IF ~me.start /\ Holds(me)
              THEN [run EXCEPT !.at = me.row.at, !.stamp = me.row.stamp, !.due = me.row.due]
              ELSE run
    /\ Done(h)
    /\ UNCHANGED <<task, history>>

\* Mutant of Taken: the new task is not written.
TakenButTask(me, s) == [run EXCEPT !.at = me.target, !.stamp = s, !.due = FALSE]

\* The row at the node and the task of a finalized reservation.
Taken(me, s) ==
    [run EXCEPT !.at = me.target, !.task = me.new, !.stamp = s, !.due = FALSE]

\* The row takes the node and the task, and the history its move.
Finalize(h) ==
    LET me == handler[h] IN
    /\ me.pc = "finalize"
    /\ IF Holds(me)
       THEN /\ \E s \in Fresh(Stamp, UsedStamp) : run' = Taken(me, s)
            /\ history' = Append(history, [from |-> me.from, to |-> me.target,
                                            task |-> me.new])
       ELSE UNCHANGED <<run, history>>
    /\ IF me.start THEN Done(h) 
       ELSE Goto(h, [Idle EXCEPT !.pc = "check", !.event = me.event, !.new = me.new,
                                 !.seen = me.seen])
    /\ UNCHANGED <<task, incidents>>

\* A transition of task t to an outcome, with the row that tells the run.
EndsTask(t, outcome, pending) ==
    /\ task' = [task EXCEPT ![t].state = outcome]
    /\ events' = pending \cup {[task |-> t, to |-> outcome]}

\* _advance reads the row again: if it does not name the new task, the task is
\* cancelled, unless it had ended already when it was spawned.
Check(h) ==
    LET me == handler[h] IN
    /\ me.pc = "check"
    /\ handler' = [handler EXCEPT ![h] = Idle]
    /\ IF run.task # me.new /\ me.seen /\ task[me.new].state \in Cancellable
       THEN EndsTask(me.new, "cancelled", events \ {me.event})
       ELSE events' = events \ {me.event} /\ UNCHANGED task
    /\ UNCHANGED <<run, history, incidents>>

\* Mutant of TickSelect: runs without a task are skipped first, as they are
\* for timeouts.
TickSelectWithTask(h) ==
    /\ h \in Ticker /\ handler[h] = Idle /\ Running /\ Reserved /\ run.due
    /\ run.task # None
    /\ Goto(h, [Idle EXCEPT !.pc = "tick"])
    /\ UNCHANGED <<run, task, history, incidents>>

\* The tick's page lists the run as a reservation past its deadline ...
TickSelect(h) ==
    /\ h \in Ticker /\ handler[h] = Idle /\ Running /\ Reserved /\ run.due
    /\ Goto(h, [Idle EXCEPT !.pc = "tick"])
    /\ UNCHANGED <<run, task, history, incidents>>

\* ... and when its turn comes, whatever the row is by then, an old one is
\* advanced with the outcome its task has by now.
TickReserved(h) ==
    /\ handler[h].pc = "tick"
    /\ Goto(h, IF ~run.due THEN Idle
               ELSE IF run.task = None THEN [Idle EXCEPT !.pc = "enter"]
               ELSE [Idle EXCEPT !.pc = "enter", !.from = task[run.task].node,
                                 !.cond = ConditionOf(run.task, task[run.task].state),
                                 !.source = run.task])
    /\ UNCHANGED <<run, task, history, incidents>>

\* The tick finds a node past its deadline with its task still going ...
TickTimeout(h) ==
    /\ h \in Ticker /\ handler[h] = Idle /\ Running /\ run.at \in Timed /\ run.due
    /\ task[run.task].state \in Cancellable
    /\ Goto(h, [Idle EXCEPT !.pc = "expire", !.source = run.task])
    /\ UNCHANGED <<run, task, history, incidents>>

\* ... and cancels that task.
Expire(h) ==
    LET t == handler[h].source IN
    /\ handler[h].pc = "expire"
    /\ handler' = [handler EXCEPT ![h] = Idle]
    /\ IF task[t].state \in Cancellable THEN EndsTask(t, "cancelled", events)
       ELSE UNCHANGED <<task, events>>
    /\ UNCHANGED <<run, history, incidents>>

\* cancel_run ends the run and its task in one transaction.
CancelRun ==
    /\ Running /\ Incident
    /\ \E s \in Fresh(Stamp, UsedStamp) :
         run' = [run EXCEPT !.state = "cancelled", !.stamp = s, !.due = FALSE]
    /\ IF run.task # None /\ task[run.task].state \in Cancellable
       THEN EndsTask(run.task, "cancelled", events)
       ELSE UNCHANGED <<task, events>>
    /\ UNCHANGED <<history, handler>>

\* Time passes: the row gets older than a reservation may, or than the
\* timeout of its node (a thread that looks at its age is on the way).
Age ==
    /\ Running /\ ~run.due
    /\ Reserved \/ run.at \in Timed \/ \E h \in Handler : handler[h].pc = "tick"
    /\ run' = [run EXCEPT !.due = TRUE]
    /\ UNCHANGED <<task, history, events, handler, incidents>>

-----------------------------------------------------------------------------
(* The ledger around the run, for as long as the run can tell. *)

\* A task reaches an outcome through transition_task.
TaskEnds(t) ==
    /\ Running /\ task[t].state \in Cancellable
    /\ \E outcome \in Ends[task[t].node] :
         /\ task[t].state = "blocked" => outcome \in {"failed", "cancelled"}
         /\ EndsTask(t, outcome, events)
    /\ UNCHANGED <<run, history, handler, incidents>>

\* Someone decides an approval task, in its metadata.
Decide(t) ==
    /\ Running /\ task[t].state = "live" /\ task[t].node \in Approval /\ task[t].verdict = "none"
    /\ \E v \in {"approved", "rejected"} : task' = [task EXCEPT ![t].verdict = v]
    /\ UNCHANGED <<run, history, events, handler, incidents>>

\* publish_task completes the task without an outbox row and calls the runtime.
Publish(h, t) ==
    /\ Running /\ handler[h] = Idle /\ task[t].state = "live"
    /\ task' = [task EXCEPT ![t].state = "completed"]
    /\ Completed(h, t, "completed", None)
    /\ UNCHANGED <<run, history, incidents>>

\* force_complete_task completes a task and tells the run nothing.
ForceComplete(t) ==
    /\ Running /\ task[t].state \notin {"absent", "completed"}
    /\ Incident
    /\ task' = [task EXCEPT ![t].state = "completed"]
    /\ UNCHANGED <<run, history, events, handler>>

\* The expiry of a lease fails a task that is out of attempts, with an UPDATE
\* of its own that enqueues no outbox row.
LeaseExpires(t) ==
    /\ Running /\ task[t].state = "live"
    /\ Incident
    /\ task' = [task EXCEPT ![t].state = "failed"]
    /\ UNCHANGED <<run, history, events, handler>>

\* An operator reopens a task that did not complete.
Reopen(t) ==
    /\ Running /\ task[t].state \in {"failed", "cancelled", "blocked"}
    /\ Incident
    /\ task' = [task EXCEPT ![t].state = "live"]
    /\ UNCHANGED <<run, history, events, handler>>

\* The process dies in the middle: what has not been committed is lost, and
\* the outbox row stays pending.
Crash(h) ==
    /\ handler[h] # Idle
    /\ Incident
    /\ Goto(h, Idle)
    /\ UNCHANGED <<run, task, history>>

-----------------------------------------------------------------------------

HandlerStep(h) ==
    \/ MergePlan(h) \/ Enter(h) \/ Reread(h) \/ Choose(h) \/ Spawn(h) \/ Finalize(h) \/ Check(h)
    \/ TickReserved(h) \/ Expire(h)

Next ==
    \/ \E h \in Handler :
         \/ StartRun(h) \/ (\E e \in events : Deliver(h, e)) \/ HandlerStep(h)
         \/ SpawnFails(h) \/ TickSelect(h) \/ TickTimeout(h) \/ Crash(h)
         \/ \E t \in Task : Publish(h, t)
    \/ \E t \in Task : TaskEnds(t) \/ Decide(t) \/ ForceComplete(t) \/ LeaseExpires(t) \/ Reopen(t)
    \/ CancelRun \/ Age

Spec == Init /\ [][Next]_vars

\* A thread that does not die goes on, time passes, and the hub's loop ticks.
Fairness ==
    /\ \A h \in Handler : WF_vars(HandlerStep(h))
    /\ WF_vars(Age)
    /\ WF_vars(\E h \in Handler : TickSelect(h))

FairSpec == Spec /\ Fairness

-----------------------------------------------------------------------------
(* Properties *)

\* An unreserved running run is at the node of an existing task, the last
\* move of its history (Finalize writes them together, no other step may
\* break them apart).
CurrentTaskAtNode ==
    Running /\ ~Reserved =>
        /\ run.task # None /\ task[run.task].state # "absent"
        /\ task[run.task].node = run.at
        /\ history # <<>> /\ history[Len(history)].to = run.at

\* No task is taken twice. A thread that took a reservation over and read the
\* row again after the reserved task was taken takes it again: _advance does
\* not look whether the row still has the reservation.
TakenOnce ==
    \A i, j \in DOMAIN history : history[i].task = history[j].task => i = j

\* However reservations are lost, taken over and rolled back, no more tasks
\* are created for a node than its max_attempts (_advance counts the history
\* long before the task exists), as long as the run has not gone back to a task
\* it had left: going back drops the reservation of another thread, and the
\* attempt that it counted.
AttemptBudget ==
    TakenOnce =>
        \A n \in Node : Cardinality({t \in Task : task[t].node = n}) <= MaxAttempts[n]

\* The outcome that led to the reservation was revised after the reserved task
\* was created for another node: _spawn_node_task refuses it.
OutcomeRevised ==
    /\ run.task # None /\ Reserved /\ task[run.at].state # "absent"
    /\ task[run.at].node #
         NextNode(task[run.task].node, ConditionOf(run.task, task[run.task].state))

\* A reservation whose owner died or lost it does not hold the run for ever:
\* the tick takes it over (_advance's "recoverable idempotent spawn reservation").
ReservationResolved ==
    \A t \in Task :
        (Running /\ run.at = t) ~> (~Running \/ run.at # t \/ OutcomeRevised)

\* The run implements its path: along the edges of nodes it took, within the
\* attempts, until it ends.
Path == INSTANCE WorkflowPath WITH
    First <- First,
    Succ <- [n \in Node |-> {NextNode(n, c) : c \in Condition} \ {None}],
    state <- run.state,
    path <- [i \in DOMAIN history |-> history[i].to]

PathSpec == Path!Spec
=============================================================================
