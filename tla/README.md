# TLA+ models of the mac hub

`mac` is a hub that hands out work to coding agents on many hosts. The hub is a
control plane (`src/src/mac/services.py` and the services it delegates to) over a
PostgreSQL store. It may run as several replicas, each serves requests on threads and
runs a periodic tick. The transactions use the database's default isolation, READ
COMMITTED: a statement sees what was committed when it starts, reads lock nothing, and an
`UPDATE ... WHERE` re-checks its condition on the row it locks. That decides
what is one step in these modules: a transaction whose condition and effect are one
guarded statement is one action; a value read by one statement and used by a later one
makes two.

## 1. Inventory

| Component | Source | State | Operations | Hard because | Correct when |
|---|---|---|---|---|---|
| Task state machine | `models.py` | task state | edges of `TASK_TRANSITIONS` | - | only listed edges are taken |
| Task and lease ledger | `services.py`, `task_transition_service.py`, `schema.sql` | task row (state, lease, attempts, review target), lease row (status, agent, delegate, expiry), finalizer columns | claim, renew, delegate, release, fenced worker transitions, trusted transitions, stop, reopen, force-complete, expiry | requests decide on rows read earlier; expiry is four transactions, resumable by anyone; same state reached again under another lease | one live lease per task; no write by a superseded worker; a lapsed lease is reclaimed; no task is stranded in flight; an attempt is charged once and given back only for a cause |
| AgentBus streams and inbox | `agentbus_service.py`, `cli_session.py` | streams, chunks, durable position per agent | open, append, close, read, drain | appends commit in another order than they are stamped; several sessions of one agent | dense numbering; no chunk twice, none skipped; the position advances |
| Dependencies and join policies | `services.py`, `task_transition_service.py` | task edges, join policy, `dependency_resolution`, disposition of a cancellation | walk the dependents of an ended task (rewire, supervise, cascade), sweep, claim, retry | evaluated from other tasks' rows read earlier; every metadata write is whole and unconditional | no task runs before its join was satisfied, none waits for a satisfied join for ever |
| Transition outbox | `task_lifecycle.py`, `task_transition_service.py` | outbox rows | enqueue in the transaction, drain after it by the same thread or a later transition of the task | drained twice, partly, after a crash; no loop drains it | every effect happens or stays pending, and may be repeated |
| Review and publication | `review_service.py`, `services.py`, `merge_queue.py`, `gitops.py` | reviews, publications, landing budget, advisory locks | decide, land, send back, publish | git and the forge between two transactions; try-locks under a deadline | only the reviewed attempt lands, once |
| Agents, quarantine, holds | `services.py` | agent status, holds, failure counts | heartbeat, offline, hold, quarantine | status checked before it is written | an agent with a lease is not idle |
| Workflow runtime | `workflow_runtime.py` | run row (node or reserved task, current task, `updated_at`), history | start, completion event, tick, cancel | event, redelivery and tick advance the same run; spawning a task lies between two transactions | the history follows the workflow's edges, no node gets more tasks than attempts, a reservation is resolved |
| Service roles and claims | `roles_service.py` | time-limited claims | sync, expire | capacity counted before the claim | one host per operation |
| Directives | `directive_service.py` | activations, acknowledgements | distribute, acknowledge, finalize | last acknowledgement against withdrawal | active only when the cohort agreed |
| Communication gateway | `communication_service.py` | channel leases, deliveries | acquire, claim, acknowledge | select, then upsert | one gateway per channel |
| Repository refs | `repository_ref_reconciler.py` | refs to delete or keep | one pass | remote changes under it | no live ref is deleted |
| Worker | `worker.py`, `executor_*.py` | lease, renewal thread | prepare, execute, submit | renewal fails while work goes on | stops after losing the lease |
| Allocator, API, CLI, router, records | the rest | - | scoring, parsing, rendering, proxying | - | - |

How they interact: a worker claims, renews and submits through the API; the ledger
writes outbox events in the transaction of a transition; draining them, after the
commit, runs dependency resolution and workflow callbacks, which ask for further transitions;
the tick sweeps leases, agents, dependencies, reviews and workflows; the AgentBus is the
side channel by which running agents hear of each other.

`PROJECT.json` lists the components with their status and the hazards at their lines.

## 2. Modules

| Module | Models | Used by |
|---|---|---|
| `TaskStates` | task states and edges | `TaskLease` |
| `TaskLease` | the ledger (core) | `MCTaskLease`, the proofs |
| `TaskOwnership` | abstract: exclusive, revocable ownership | refined by `TaskLease` |
| `MCTaskLease` | instances for TLC: which targets are asked for, symmetry | lease runs |
| `TaskLeaseProofs`, `TaskFlightProofs` | theorems on `TaskLease` | - |
| `TaskOwnershipProofs` | lemmas on `TaskLease` under `Guarded` | - |
| `AgentBusInbox` | streams, appends, the durable inbox | inbox runs |
| `AgentBusInboxProofs` | theorems on `AgentBusInbox` | - |
| `WorkflowRun` | one workflow run, its events, tick and reservations | `MCWorkflowRun`, the proofs |
| `WorkflowPath` | abstract: a history that grows along edges of nodes it took | refined by `WorkflowRun` |
| `MCWorkflowRun` | a workflow for TLC: build, check, back to build on failure | run `workflow` |
| `WorkflowRunProofs`, `WorkflowBudgetProofs` | theorems on `WorkflowRun` | - |
| `TaskDependencies` | waiting tasks, joins, the walk over dependents, the sweep, the outbox | `MCTaskDependencies`, the proofs |
| `MCTaskDependencies` | a graph of five tasks for TLC | runs `dependencies`, `stopped_task` |
| `TaskDependenciesProofs` | theorems on `TaskDependencies` | - |

### TaskLease

State. `task[t]` is the task row: its state, the lease it points at, `attempt_count`, and
as `submitted` the attempt that `review_target` in the metadata names. `owner_agent_id`
and `leased_until` are written only together with `lease_id` and from the same lease, and
are not kept. `lease[l]` is a lease row; `expiry[l]` its finalizer columns. `req[h]` is a
request that has read a task and not yet committed, with the row it read. `sweep[s]` is how far a
sweeper is with a lease.

Time. The code compares a lease's `expires_at` with the database clock at two points: at
`expires_at` writes are refused, after a grace period the sweep may expire. A
lease's age is counted in these thresholds: `Fresh`, `Aged` (a renewal would move
something), `Lapsed`, `Overdue`. `Age` moves one lease one threshold at any moment, so
every relative speed of workers, renewals and sweeps is covered.

Actions.

- `Claim`, `Renew`, `Delegate`, `Release` are the methods of these names: one transaction each, with
  row locks. `Claim` has the partial unique index `uniq_leases_active_per_task`. The selection rules
  before the claim (tenant, capabilities, cooperative families, holds) are left out: any free agent
  may claim any open task, which allows more than the code.
- `WorkerRequest`, `TrustedRequest`, `ForceRequest` are the part of a transition before its
  transaction: reading the row, the transition table, the first fence. `Commit` is the transaction:
  the fence again for workers, `WHERE id AND state`, the lease guard of a stop, the release of the
  lease that was *read*, the reset on a requeue, and `review_target`. `GiveUp` is a refusal or a
  lost connection.
- `RetryRequest` and `RetryWrite` are the writes `_auto_retry_blocked_attempt_task` makes, and
  `claim_task` on a task out of attempts, before they ask for their transition: notes in the
  metadata as they read it, and an `attempt_count` lowered by one (node fault, router outage,
  infrastructure) or reset to 0 (a repair task comes first), each by an UPDATE with the task's id as
  its only condition. The transition is a `TrustedRequest` of its own, which reads the task anew or
  never comes.
- `ScanLease` / `LoseAgent`, then `FenceExpired`, `ClaimFinalizer`, `Decide`, `Persist`, `Finalize`
  are the transactions of `_expire_lease_row`. `Crash` ends a sweeper between any two; `GoStale` and
  `Overrun` let `MAC_LEASE_EXPIRY_FINALIZER_STALE_SECONDS` pass for a token left behind and for one
  still in use. `LoseAgent` always refunds: its two callers (services.py 15764, 16520) report a
  liveness loss, and 27728 passes the refund on whenever they do.

Which targets callers ask for is a constant (`WorkerTargets`, `HeldTargets`,
`FreeTargets`, `ForceCompletes`), and so is whether the hub retries (`Retries`). `Guarded` says that nobody writes a task that holds a
lease without checking the lease: no worker parks its task, trusted callers only stop it, no
force-complete. The first group of properties needs no such assumption; the second does,
and the runs `orphan_lease` and `parked_task` show what happens without it.

### AgentBusInbox

State. A chunk's sort key is `(created_at, id)` and the cursor is such a pair; the model
numbers these pairs in their order, so chunk `n` is "the chunk with the n-th key" and a
cursor is a number, 0 for the empty one. `append[p]` is an append in progress: its key is taken
when it begins (`now` is computed before the transaction opens), it is visible only once
committed. `drain[d]` is a drain in progress. `handed[n]` counts in how many
committed drains chunk `n` was returned (it is capped at 2).

Actions. `OpenStream`, `CloseStream`; `BeginAppend`, `NumberChunk`, `CommitChunk`,
`FailAppend` are the statements of `append_chunk`; `StartDrain`, `ReadInbox`, `CheckCursor`,
`SetCursor`, `FailDrain` those of `drain_inbox`. `Lookalike` are streams of agents whose id
contains this agent's id: the `LIKE` prefilter accepts them, the exact check drops
them after `LIMIT`. A drain starts at the durable position or at a bookmark (any
cursor it could have been given), as an explicit `after_cursor` allows.

### WorkflowRun

State. `run` is the row of `workflow_runs`: whether it runs and how it ended, at which node it is -
or, while a task is being spawned, which task id is reserved (the code keeps
`__workflow_advancing__:<id>` in the same column) - its current task, and its stamp `updated_at`.
`history` are the moves of `workflow_run_history`, `events` the pending `workflow.advance` rows of
the outbox, `task` the node tasks, `handler[h]` the thread: its place, and the row, source and
condition it works with.

Actions. `StartRun`; `Completed`, `MergePlan`, `Enter`, `Reread`, `Choose`, `Spawn`, `SpawnFails`,
`Finalize`, `Check` are the statements of `on_task_completed` and `_advance`: read the run and renew
a stale reservation, read it again, count the history, reserve with a compare-and-set on the whole
row, spawn the task, write the run and the move if the reservation still stands, adopt the task of
another finisher or cancel one's own. `TickSelect`, `TickReserved`, `TickTimeout`, `Expire` are a
tick; `CancelRun` is one transaction. `TaskEnds`, `Decide`, `Publish`, `ForceComplete`,
`LeaseExpires`, `Reopen` are what the ledger does to a node's task, with or without an event. `Age`
lets a reservation become stale; it is there only while somebody will look. `Crash` ends a thread at
any point.

Stamps. `updated_at` only matters as a value to compare: a write takes a stamp no thread holds, so a
small set of stamps stands for all of them.

Left out: nodes walked over without a task before the first, the end rows of the history, role
snapshots, payloads, the tick's cursor and paging. Merged: the first read of the run with the
compare-and-set that renews a stale reservation (a failed one ends the thread as an ignored outcome
does); the transactions of `cancel_run`; the check for an existing reserved task with its INSERT.

The re-read. After renewing a reservation `_advance` reads the run once more (workflow_runtime.py
668) and goes on with the reserved task of the first read, but with the node and stamp of the
second. When another thread has taken the task in between, and the task has even completed, the late
thread takes it a second time and writes it over the place the run is at, against the docstring of
`_advance` ("Advance exactly once"). So a move need not leave the last node: it leaves one the run
took before, and `WorkflowPath` says just that. With one attempt for each node it cannot happen, as
the node is exhausted; the run `workflow` has two for `check`. `TakenOnce` (no task is taken twice)
is therefore not an invariant: added to `workflow.cfg` it is refuted. `AttemptBudget` holds only as
long as it does: with three tasks and two attempts for `build`, TLC refutes `AttemptBudget` without
its premise, since the late thread drops another reservation together with the attempt its owner has
counted, and that owner still creates its task. tests/test_workflow_runtime.py:681 says that
`max_attempts` "caps how many times the runtime will spawn a task for that node".

### TaskDependencies

State. `task[t]` joins a task row and its edges: its state (claimed, running and under review are
all `running`), its dependencies, attempts, the disposition of its last end (`fate`), its
`dependency_resolution` (`unsat`, `mark`), and whether the last block asks for a human. `events`
are the tasks with a pending `dependency.reconcile` row. `handler[h]` is a thread: the stack of its
recursion through the dependents, the dependent it is at and the row it read of it. `met` and
`settled` are history variables: which tasks ever satisfied either join.

Actions. `Enter`, `Read`, then `Rewire`, `Supervise` and `Block`, or `Cascade` are the steps of
`_resolve_waiting_dependents_of` between its writes; `Drain` and `Delivered` those of the outbox;
`SweepFinds`, `SweepNotes`, `SweepOpens`, `SweepMigrates` those of `_unblock_ready_tasks`;
`OpenToClaim` and `Claim` those of `claim_task`. `Complete`, `AttemptBlocks`, `AttemptFails`,
`AutoRetry`, `CancelInFlow`, `Cancel`, `LeaseExpires`, `Reopen`, `ForceComplete`, `Stop`, `Start`
end and restart tasks (`AutoRetry` retries, gives the attempt back, or ends the task failed or
superseded); some reconcile their dependents in the same thread, `CancelInFlow` with an outbox row,
some not at all, as in the code.

Left out: `needs_input`, `no_dispatch`, dependency edits by operators, repair prerequisites of
exhausted attempts, the depth bound of the recursion and its `_seen` set (the graph is acyclic, as a
replacement has no dependencies), exceptions of a single dependent that are logged and passed over,
and `recover_stranded_dependents`, which a person runs. Merged: a transition's re-read and its
guarded UPDATE; a retry's refund and its transition, which `TaskLease` takes apart; a rewiring's
second read falls at the first or at the write. With two threads in `Sweeper` the constant also
covers a sweep taken over while its holder is slow; the runs have one.

## 3. Runs

| Run | Instance | Shows |
|---|---|---|
| `lease_races` | 1 agent, 2 leases, 2 handlers, 1 sweeper, 2 attempts, every target, force-complete, retries | `OneActiveLeasePerTask`, `InFlightUnderLease`, `ReviewNamesLatestAttempt`, `NoStaleWorkerWrite`, `CountFallsForCause`, `OrphanedByStaleRequest` |
| `lease_guarded` | 2 agents, 2 leases, 2 handlers, 1 sweeper, 1 attempt, 1 fault, guarded targets, retries | `TypeOK`, `NoOrphanLease`, `AttachmentSound`, refinement of `TaskOwnership` |
| `lease_recovery` | 1 agent, 2 leases, 2 sweepers, 2 attempts, 2 faults, retries, fairness | `LapsedLeaseReclaimed`, `ExpiryIsDurable`, `CountFallsForCause` |
| `orphan_lease` | 1 sweeper, no fault, fairness | violation of `OverdueLeaseReclaimed` |
| `parked_task` | 1 lease | violation of `ParkedNeverSwept` |
| `inbox_sessions` | 2 streams, 2 senders, 1 session, 3 chunks, fairness | `TypeOK`, `SequencesDense`, `HandedOnce`, `CursorNeverBack`, `InboxAdvances` |
| `inbox_two_drains` | 1 stream, 2 sessions, 2 chunks | violation of `HandedOnce` |
| `inbox_late_commit` | 2 streams, 2 senders, 2 chunks | violation of `NothingSkipped` |
| `inbox_lookalike` | 2 streams, one a lookalike, limit 1, fairness | violation of `InboxAdvances` |
| `workflow` | 2 nodes with 1 and 2 attempts, 2 task ids, 2 threads (one ticks), 5 stamps, 1 incident, fairness | `TypeOK`, `CurrentTaskAtNode`, `AttemptBudget`, `ReservationResolved`, refinement of `WorkflowPath` (`PathSpec`) |
| `dependencies` | 5 tasks, 2 threads (one sweeps), at most 2 attempts, 1 incident, fairness | `TypeOK`, `JoinHonored`, `WaitersReleased`, `EventReaches` |
| `stopped_task` | the same | violation of `StoppedUntilOperator` |

Bounds. One task is enough: no action relates two tasks except through an agent, which claims one at
a time. Two leases are what an ABA needs (the superseded lease and the one that replaced it). Two
sweepers are what a takeover needs, two handlers what a race of two decisions needs, two attempts
what a refund after a retry needs. One agent makes the ABA hardest, since the superseded worker and
the new one are then the same actor; `lease_guarded` has two, so that a lease is delegated to
another and a task changes hands. `MaxFaults` bounds `Crash` and `Overrun`; two let the sweeper that
resumes die as well. In the inbox, two pending appends are what out-of-order commits need, and three
chunks give pages of two with a rest. Deadlock is not checked: leases and chunks run out in these
instances, and a hub with nothing to do may stop.

The workflow of `workflow` has a first node, a second, and an edge back, so that a visit is counted
against `max_attempts`, and a second attempt at `check`, so that a late thread can take a task
again; two threads are what a redelivered event or a tick beside an event needs; five stamps are
more than two threads and a row can hold at once. An incident is a crash, a failed spawn, an expiry
or an operator's action; one of them may come at any point. The graph of `dependencies` has a chain
of three with an integration parent at its end, a task that is cancelled with either of two
prerequisites, and a replacement: each of the reconciler's branches meets each of the sweep's.
`Touched` limits operators and expiries to the lower two of the chain, and `Paused` keeps two tasks
from being claimed, to keep the instance small.

Fairness. `TaskLease`: the tick scans again and again, a sweeper that is not killed goes on (weak
fairness of its steps), and the staleness timeout of an abandoned token passes. No fairness is
assumed of workers, requests or the age of a lease. The number of crashes and overruns is bounded: a
hub that dies at each attempt recovers nothing. `WorkflowRun`: a thread that does not die goes on,
the tick comes to every run, and time passes for a reservation somebody will look at (the hub's tick
loop). One thread ticks: two hubs whose ticks renew the same reservation each time the other's has
become stale could keep it from being finalized. `ReservationResolved` exempts a reservation whose
source outcome was revised after its task was created for another node (`OutcomeRevised`):
`_spawn_node_task` refuses that task every time (986), and the code holds the reservation for ever.
Nothing makes a task end or an event be drained again. `TaskDependencies`: a thread that does not
die goes on, and the sweep comes to every waiting task (`_unblock_ready_sweep_page`, in every tick).
No fairness is assumed of drains: no loop in the hub drains the outbox, so `EventReaches` says that
work on a row reaches every waiting dependent or leaves the row pending. `AgentBusInbox`: a drain in
progress goes on, and a session drains from the durable position between its turns
(`cli_session.run_hook`). Since other drains may conflict and the hub may kill a drain any number of
times, those steps need strong fairness: not every attempt fails at the same place. Nothing is
assumed of senders.

## 4. Proofs

All theorems hold for every value of the constants under the named assumptions of the
modules.

`TaskLeaseProofs`: `TypeCorrect`, `OneActive`, `StaleWritesFenced`, `ExpiryDurable`,
`CountsFallForCause`, `OrphansTraced`. The inductive invariant is `TypeInv`: `TypeOK` with what a
request in flight and a sweeper at work know about the rows they hold (`RequestWellFormed`,
`SweepWellFormed`); `TypeOK` alone is not inductive, as a commit writes values taken from the
request. `StaleWritesFenced` needs that a change of `req[h]` that changes a task is `Commit(h)`
(`WriterCommits`). `OneActive` follows because a lease becomes ACTIVE only in `Claim`, under the
unique index. `ExpiryDurable` rests on `DoneHoldsNoToken`: every write of the finalizer columns is
bound to a token or to an expiry that is not done. `CountsFallForCause` says for which causes an
attempt count may fall - a dead task is reopened, the lease the task is on is finalized, a retry
ends - and by how much; it needs that a request that skips the guard on the state never reopens a
task (`ForceCompletesOnly`). It does not say that an attempt is given back once: a retry that is
late, or that is made again after a crash, gives another one back. `OrphansTraced` says, without any
condition, where the leases of the run `orphan_lease` come from: a commit drops the lease it read,
the fence of a worker makes that the lease the task is on, and every other step that detaches a task
finds its lease dead or ends it; what is left is a trusted request that has read the task under
another lease, or under none.

`TaskFlightProofs`: `ReviewsLatest` and `FlightUnderLease`, without `Guarded`: trusted callers may
park, cancel, reopen, retry and force-complete on rows they read any time ago. `ReviewsLatest`
assumes only that trusted callers do not submit (`OnlyWorkersSubmit`), which holds of every target
the run `lease_races` asks for, and names the one exception: the writes of a retry decided on an
earlier block, which may overwrite a submission or lower the count under it. A lease may be taken
off its task and written back to it by a stale commit; the invariant, `AttemptFenced`, survives that
because such a commit never leaves the task in flight: as long as a task is in flight under the
lease a worker's request read, its attempt count is at most the one the request read.
`FlightUnderLease` says that, whatever was overwritten, a task in flight is under a lease of its own
that a sweep will still find: of all requests only a fenced one puts a task in flight, and no lease
is finalized away from a task in flight on it. (The review service's own move from reviewing back to
needs_review records the count it has read, and is not covered.)

`TaskOwnershipProofs` has lemmas for the hub that `Guarded` describes, and so for what its callers
would have to keep to: `NoOrphan`, `Attachments` and `OwnershipRefined`, the three properties of the
run `lease_guarded`. They say nothing of the callers there are: some park, cancel or force-complete
tasks that hold a lease, and `orphan_lease` shows the result. The inductive invariant `LedgerInv`
joins the two properties, "a lease that was never granted is untouched", and what requests and
sweeps in flight may rely on. The key lemma is `CommitEffect`: under `Guarded`, a request that
changes a task in flight still finds the lease it read. In the refinement, `Claim` is `Grant`,
`Release`, a releasing `Commit` and `Finalize` are `Detach`, `FenceExpired` is `Revoke`, the rest
stutters.

`AgentBusInboxProofs`: `BusTyped` and `Dense` without condition; the invariant `BusInv` says that
pending appends own distinct places not yet committed and that the number an append holds follows a
committed one. `OneSession` and `OneSender` say what the code does ensure when sessions, or appends,
do not overlap: they assume that there is one session, or one sender, and nothing of the code. They
rest on the lemmas `Once` and `Forward` (no chunk twice, no step back, if no two drains are between
compare and set) and `Complete` (no chunk skipped, if a pending append is always stamped later than
everything committed); the violation runs show that the code ensures neither premise when sessions,
or appends, overlap.

`WorkflowRunProofs`: `RunTyped`, `RunAtItsTask` (the current task of a run belongs to its current
node) and `PathRefined` (the run implements `WorkflowPath`: every move is to the first node or along
an edge of a node taken before, within `max_attempts`, and none after the end), for every workflow
and any number of threads, late ones included. The hard part is that a thread counts the history
long before it appends to it. The invariant `Inv` says what `updated_at` tells a thread: a stamp
never stands for a reserved and an unreserved row, and while the row has the stamp a thread will
finalize, the attempts it counted are still all there are (`MarkTells`), also when another
reservation came in between and was given back (`GivesBack`).

`WorkflowBudgetProofs`: `BudgetKept`, that no node gets more tasks than its `max_attempts` as long
as no task is taken twice (`TakenOnce`; section 2 says what happens when one is). `PathRefined`
counts moves; a task is created before its move is recorded, by threads whose reservation may have
been taken over, and the tasks of abandoned moves stay. The invariant `BudgetInv` says why there are
not more of them: all threads that may still create a task would create the same one, and have
counted an attempt left for it (`CreateInv`); no move is recorded before its task exists, so at most
one task is ahead of the history (`Ahead`, `NodeBudget`); and the thread whose stamp is still on the
row is the only one that would create the reserved task, so that rolling the row back leaves none
behind that does (`SoleOwner`). The premise is what `CarryInv` needs: the row keeps a reservation
that a thread carries until the history has its task. That the tasks of a node are finitely many is
part of what is proved: the set of task ids may be infinite.

`TaskDependenciesProofs`: `DependenciesTyped` and `JoinsHonored`, for every graph. Only `Claim`
makes a task run, and it has the join checked in its own transaction; the lemmas show action by
action that no other step leaves a task running with other dependencies (`Kept`) - a rewiring that
read the task before its claim writes WAITING over it - and that what a thread does next has what it
needs (`Sound`).

Only model-checked: the liveness properties (`LapsedLeaseReclaimed`, `InboxAdvances`,
`ReservationResolved`, `WaitersReleased`, `EventReaches`), which are beyond the prover in use: they rest
on fairness. Every invariant and every action property of a passing run is proved, under the conditions
named above.

## 5. What the runs found

1. `orphan_lease`: a trusted transition (and force-complete) checks only `(id, state)`; over a
   newer claim in the same state it detaches the newer lease and leaves it ACTIVE. No sweep
   expires a lease no task points at, and the unique index blocks every further claim
   of the task.
2. `parked_task`: a task parked by its worker keeps its lease and is swept out of `needs_input`
   when the lease lapses.
3. `inbox_two_drains`: the compare-and-set of the inbox is two statements without a lock.
4. `inbox_late_commit`: the inbox position is a stamp taken before the commit.
5. `inbox_lookalike`: `LIMIT` before the exact check can stop an inbox for good.
6. `stopped_task`: the sweep releases a task it read as waiting with a transition that also accepts
   STOPPED, so a task stopped in between returns to the queue without its operator.

Seen while modelling, in the models, and stated by no property, as no document promises otherwise
(or left for a run of their own): a late thread that takes a task of a workflow run a second time,
and the tasks beyond `max_attempts` that may follow (section 2 quotes the documents); a workflow
reservation held for ever because its source outcome was revised; a workflow run whose task ends
before the run is updated with it stays RUNNING for good, and so does one whose task ends by force
or by lease expiry, which write no event; the finalizer of an expired lease tells no dependent; a
crash between a commit and the reconciliation it is followed by strands the dependents until
`recover_stranded_dependents` is run by hand; a walk that is repeated after a crash passes over a
dependent that is blocked already and never comes to those behind it; a task that is started again
or edited behind a prerequisite that has failed is never supervised. `PROJECT.json` has them as
hazards.

## 6. Plan

Done: the ledger, the inbox, workflow runs, dependencies with their outbox rows.

1. *Review and publication*: an attempt, its reviews, the land lock, the budget and
   the send-backs; abstract specification "only the reviewed attempt lands, at most once".
   Composes with the attempt count of `TaskLease`.
2. *Agents*: heartbeat, offline sweep, quarantine and holds against leases, and the benching of the
   agent by a node fault.
3. As far as room allows: service claims, directives.
4. Proofs: the safety invariants of the new modules and their refinements; of the inbox, a bound on
   what overlapping drains can hand out again.

Runs are kept to one per question; each new module gets one passing run, and a violation
run only where the code contradicts its own documents.

## 7. Not modelled

- The allocator's scoring, the router, API, CLI, consoles and records: no protocol between actors.
- The inside of the worker and of the sandbox: `TaskLease` contains every order of their calls to
  the hub.
- In the ledger: child tasks, history, observations, break-glass authorizations, and the agent row;
  metadata rewritten from a stale read by other services and by the sweep's classification of a
  failure, which may write an older `review_target` back as `RetryWrite` may.
- In workflows and dependencies: what section 2 names as left out; the definitions' CRUD, payloads
  and role snapshots, and the recovery tools a person runs.
- In the inbox: per-topic cursors, control-stream stamps, message texts.
- Database failures other than losing a connection; schema migrations.
