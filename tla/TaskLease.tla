----------------------------- MODULE TaskLease -----------------------------
(***************************************************************************)
(* The hub's task and lease ledger (services.py, task_transition_service.  *)
(* py).  A claim attaches one lease row to a task row.  Every other change *)
(* of a task is one of                                                     *)
(*                                                                         *)
(*   - one transaction on the lease (renew, delegate, release);            *)
(*   - a request that reads the task, decides, and commits in a later      *)
(*     transaction, possibly on another hub replica (`req`);               *)
(*   - the expiry of a lease, four transactions that any sweeper may       *)
(*     leave half done and another may resume (`sweep`).                   *)
(*                                                                         *)
(* A task's owner_agent_id and leased_until are always written together    *)
(* with its lease_id, from the same lease, and are not kept separately.    *)
(* Time is the age of a lease, counted in the thresholds the code tests.   *)
(***************************************************************************)
EXTENDS Naturals, FiniteSets, TaskStates

CONSTANTS
    Task, Agent, Lease,    \* task ids, agent ids, lease ids a claim may draw
    Handler, Sweeper,      \* hub threads serving requests / expiring leases
    None,                  \* SQL NULL
    MaxAttempts,           \* max_attempts of a task
    MaxFaults,             \* bound on sweepers dying or overrunning
    WorkerTargets,         \* states a worker asks its task to move to
    HeldTargets,           \* states a trusted caller asks of a task with a lease
    FreeTargets,           \* states a trusted caller asks of a task without
    ForceCompletes,        \* whether operators use force-complete
    Retries                \* whether the hub retries blocked and exhausted tasks

ASSUME IdsAssumption ==
    /\ None \notin Task \cup Agent \cup Lease \cup Sweeper
    /\ Agent # {} /\ Task # {}

ASSUME BoundsAssumption == MaxAttempts \in Nat \ {0} /\ MaxFaults \in Nat

ASSUME TargetsAssumption ==
    /\ WorkerTargets \subseteq TaskState
    /\ HeldTargets \cup FreeTargets \subseteq TaskState \ InFlightTaskState
    /\ ForceCompletes \in BOOLEAN /\ Retries \in BOOLEAN

VARIABLES task, lease, expiry, req, sweep, faults

vars == <<task, lease, expiry, req, sweep, faults>>

-----------------------------------------------------------------------------
(* The ages of an ACTIVE lease: renewed a moment ago, part of its TTL gone, *)
(* past expires_at (nothing may be written under it), and past the sweep's  *)
(* grace period as well (it may be expired).  Nothing reads the age or the  *)
(* delegate of a lease that is not ACTIVE: such a row keeps neither.        *)
Fresh   == 0
Aged    == 1
Lapsed  == 2
Overdue == 3

\* What the finalizer of an expired lease does to the task: the state it goes
\* to and its attempt count afterwards, None when the count stays.
Decision == [target : {"open", "waiting", "failed", "cancelled"},
             attempts : (0 .. MaxAttempts) \cup {None}]

LeaseStatus == {"free", "active", "expired", "released"}   \* "free": no row yet

TaskRow  == [state : TaskState, lease : Lease \cup {None},
             attempts : 0 .. MaxAttempts, submitted : 0 .. MaxAttempts]
LeaseRow == [status : LeaseStatus, task : Task \cup {None},
             agent : Agent \cup {None}, delegate : Agent \cup {None},
             age : Fresh .. Overdue]
\* The finalizer columns of a lease row.
ExpiryRow == [token : Sweeper \cup {None}, stale : BOOLEAN,
              decision : Decision \cup {None}, done : BOOLEAN]

\* A request in flight: who asks, for what, and the task row it read.
Request == [kind : {"idle", "worker", "trusted", "force", "retry"},
            task : Task \cup {None}, actor : Agent \cup {None},
            target : TaskState, read : TaskRow]
\* A sweeper: how far it is with which lease; `override` is the decision an
\* agent's loss imposes, `decision` the one it works with.
SweepState == [pc : {"idle", "found", "fenced", "claimed", "decided", "persisted"},
               lease : Lease \cup {None},
               override : Decision \cup {None}, decision : Decision \cup {None}]

NewTask    == [state |-> "open", lease |-> None, attempts |-> 0, submitted |-> 0]
FreeLease  == [status |-> "free", task |-> None, agent |-> None,
               delegate |-> None, age |-> Fresh]
NoExpiry   == [token |-> None, stale |-> FALSE, decision |-> None, done |-> FALSE]
NoRequest  == [kind |-> "idle", task |-> None, actor |-> None,
               target |-> "open", read |-> NewTask]
IdleSweep  == [pc |-> "idle", lease |-> None, override |-> None, decision |-> None]

Init ==
    /\ task = [t \in Task |-> NewTask]
    /\ lease = [l \in Lease |-> FreeLease]
    /\ expiry = [l \in Lease |-> NoExpiry]
    /\ req = [h \in Handler |-> NoRequest]
    /\ sweep = [s \in Sweeper |-> IdleSweep]
    /\ faults = 0

-----------------------------------------------------------------------------
\* The task row points at l.
Attached(l) == lease[l].task # None /\ task[lease[l].task].lease = l

Active(l) == lease[l].status = "active"

\* The row of l once it is no longer ACTIVE.
Dead(l, status) == [lease[l] EXCEPT !.status = status, !.delegate = None, !.age = Fresh]

\* a owns l or was delegated its authorship.
Actor(l, a) == a \in {lease[l].agent, lease[l].delegate}

\* _require_exact_lease_actor_in_transaction: a may write task t under lease l
\* while t is in one of the given states.
Fence(t, l, a, states) ==
    /\ l \in Lease
    /\ task[t].lease = l
    /\ lease[l].task = t
    /\ Active(l)
    /\ task[t].state \in states
    /\ lease[l].age < Lapsed
    /\ Actor(l, a)

-----------------------------------------------------------------------------
(* Transactions on a lease.                                                *)

\* The lease row inserted for agent a, and task t's row with it attached.
Granted(t, a) == [status |-> "active", task |-> t, agent |-> a,
                  delegate |-> None, age |-> Fresh]
Assigned(t, l) == [task[t] EXCEPT !.state = "claimed", !.lease = l,
                                  !.attempts = @ + 1]

\* Mutant of Claim: the attempt cap is off by one.
ClaimOverBudget(t, a, l) ==
    /\ lease[l].status = "free"
    /\ task[t].state = "open" /\ task[t].lease = None
    /\ task[t].attempts <= MaxAttempts
    /\ \A k \in Lease : ~(Active(k) /\ lease[k].task = t)
    /\ lease' = [lease EXCEPT ![l] = Granted(t, a)]
    /\ task' = [task EXCEPT ![t] = Assigned(t, l)]
    /\ UNCHANGED <<expiry, req, sweep, faults>>

\* Mutant of Claim: no unique index on the ACTIVE leases of a task.
ClaimWithoutIndex(t, a, l) ==
    /\ lease[l].status = "free"
    /\ task[t].state = "open" /\ task[t].lease = None
    /\ task[t].attempts < MaxAttempts
    /\ lease' = [lease EXCEPT ![l] = Granted(t, a)]
    /\ task' = [task EXCEPT ![t] = Assigned(t, l)]
    /\ UNCHANGED <<expiry, req, sweep, faults>>

\* claim_task: insert an ACTIVE lease row and attach it to an OPEN task.
Claim(t, a, l) ==
    /\ lease[l].status = "free"
    /\ task[t].state = "open"
    /\ task[t].lease = None
    /\ task[t].attempts < MaxAttempts
    /\ \A k \in Lease : ~(Active(k) /\ Attached(k) /\ lease[k].agent = a)
    /\ \A k \in Lease : ~(Active(k) /\ lease[k].task = t)  \* uniq_leases_active_per_task
    /\ lease' = [lease EXCEPT ![l] = Granted(t, a)]
    /\ task' = [task EXCEPT ![t] = Assigned(t, l)]
    /\ UNCHANGED <<expiry, req, sweep, faults>>

\* renew_lease: the owner extends a lease that has not lapsed.
Renew(l) ==
    /\ Active(l)
    /\ lease[l].age = Aged         \* a renewal of a fresh lease moves nothing
    /\ Attached(l)
    /\ task[lease[l].task].state \in InFlightTaskState
    /\ lease' = [lease EXCEPT ![l].age = Fresh]
    /\ UNCHANGED <<task, expiry, req, sweep, faults>>

\* delegate_lease: the owner names a second author for the task's writes.
Delegate(l, b) ==
    /\ lease[l].status # "free"
    /\ b # lease[l].delegate
    /\ Fence(lease[l].task, l, lease[l].agent, InFlightTaskState)
    /\ lease' = [lease EXCEPT ![l].delegate = b]
    /\ UNCHANGED <<task, expiry, req, sweep, faults>>

\* Mutant of Release: the lease row stays ACTIVE.
ReleaseTaskOnly(l) ==
    /\ Active(l)
    /\ Attached(l)
    /\ task' = [task EXCEPT ![lease[l].task].state = "open",
                            ![lease[l].task].lease = None]
    /\ UNCHANGED <<lease, expiry, req, sweep, faults>>

\* release_lease: the owner gives the task back, whatever state it is in.
Release(l) ==
    /\ Active(l)
    /\ Attached(l)
    /\ lease' = [lease EXCEPT ![l] = Dead(l, "released")]
    /\ task' = [task EXCEPT ![lease[l].task].state = "open",
                            ![lease[l].task].lease = None]
    /\ UNCHANGED <<expiry, req, sweep, faults>>

\* The clock passes the next threshold of an ACTIVE lease.
Age(l) ==
    /\ Active(l)
    /\ lease[l].age < Overdue
    /\ lease' = [lease EXCEPT ![l].age = @ + 1]
    /\ UNCHANGED <<task, expiry, req, sweep, faults>>

-----------------------------------------------------------------------------
(* Transitions: a request reads the task, decides, and commits later.       *)

\* Target states on which the transition gives the lease and the owner up.
Releasing == {"waiting", "blocked", "open", "needs_review", "stopped",
              "failed", "cancelled"}

\* Target states on which review_target is dropped from the metadata.
DropsSubmission == {"open", "waiting", "blocked", "running", "failed", "cancelled"}

\* Handler h reads task t for a request of the given kind.
Read(h, t, kind, actor, target) ==
    /\ req[h] = NoRequest
    /\ req' = [req EXCEPT ![h] = [kind |-> kind, task |-> t, actor |-> actor,
                                  target |-> target, read |-> task[t]]]
    /\ UNCHANGED <<task, lease, expiry, sweep, faults>>

\* transition_task, start_task, submit_for_review: the lease's owner or
\* delegate asks for a transition and names the lease it works under.
WorkerRequest(h, t, a, target) ==
    /\ target \in WorkerTargets
    /\ <<task[t].state, target>> \in TaskTransition
    /\ task[t].state \in InFlightTaskState
    /\ task[t].lease # None
    /\ Active(task[t].lease)
    /\ Actor(task[t].lease, a)
    /\ Read(h, t, "worker", a, target)

\* _transition_task_internal, close_task, stop_task, reopen_task,
\* request_task_input, answer_task_input: a trusted caller asks, without a fence; none
\* of them asks to put a task in flight.
\* So do the retry of a blocked task and claim_task when it finds the attempts of
\* a task used up, each after the writes of RetryWrite.
TrustedRequest(h, t, target) ==
    /\ target \in IF task[t].lease = None THEN FreeTargets ELSE HeldTargets
    /\ <<task[t].state, target>> \in TaskTransition
    /\ Read(h, t, "trusted", None, target)

\* force_complete_task: any state but COMPLETED, no transition table.
ForceRequest(h, t) ==
    /\ ForceCompletes
    /\ task[t].state # "completed"
    /\ Read(h, t, "force", None, "completed")

\* _auto_retry_blocked_attempt_task, or claim_task on a task out of attempts, looks
\* at the row and decides what its last attempt cost.
RetryRequest(h, t) ==
    /\ Retries
    /\ \/ task[t].state = "blocked" /\ task[t].attempts > 0
       \/ task[t].state = "open" /\ task[t].attempts >= MaxAttempts
    /\ Read(h, t, "retry", None, "open")

\* What the retry r makes of the count n it finds: it charges the attempt, refunds
\* it (the node, the router or the infrastructure failed; blocked tasks only), or
\* resets the count, as a repair task is to come first.
Retried(r, n) ==
    {n, 0} \cup (IF r.read.state = "blocked" /\ n > 0 THEN {n - 1} ELSE {})

\* The UPDATEs of a retry, by the id of the task alone, before it asks for the
\* transition: notes in the metadata as it read them, any number of times, then the
\* count, with the metadata or without.  The transition that follows reads the task
\* anew and is a TrustedRequest; a hub that dies in between never makes it.
RetryWrite(h) ==
    LET r == req[h] IN
    /\ r.kind = "retry"
    /\ \/ /\ task' = [task EXCEPT ![r.task].submitted = r.read.submitted]
          /\ UNCHANGED req
       \/ /\ \E n \in Retried(r, task[r.task].attempts),
                v \in {task[r.task].submitted, r.read.submitted} :
                task' = [task EXCEPT ![r.task].attempts = n, ![r.task].submitted = v]
          /\ req' = [req EXCEPT ![h] = NoRequest]
    /\ UNCHANGED <<lease, expiry, sweep, faults>>

\* Mutant of ExpectedLease: a stop is not bound to the lease it revokes.
ExpectedWorkerLease(r) == IF r.kind = "worker" THEN r.read.lease ELSE None

\* The lease the task UPDATE of request r insists on, None for no such guard.
ExpectedLease(r) ==
    IF r.kind = "worker" \/ (r.kind = "trusted" /\ r.target = "stopped")
    THEN r.read.lease ELSE None

\* review_target after r: recorded by a submission, dropped on the way back or
\* out, copied from the snapshot when the metadata is rewritten for another
\* reason.  Metadata that held none is left alone, unless it is rewritten anyway.
SubmittedAfter(r) ==
    IF r.target = "needs_review" THEN r.read.attempts
    ELSE IF r.target \in {"failed", "cancelled"} THEN 0
    ELSE IF r.target \in DropsSubmission /\ r.read.submitted # 0 THEN 0
    ELSE IF r.target \in {"needs_input", "completed"} THEN r.read.submitted
    ELSE task[r.task].submitted

\* Mutant of CommitGuard: the task is recognised by its state alone.
CommitGuardByState(r) == r.kind = "force" \/ task[r.task].state = r.read.state

\* The conditions the commit of request r checks again, under its locks.
CommitGuard(r) ==
    \/ r.kind = "force"
    \/ /\ r.kind # "force"
       /\ task[r.task].state = r.read.state
       /\ ExpectedLease(r) # None => task[r.task].lease = ExpectedLease(r)
       /\ r.kind = "worker" =>
            Fence(r.task, r.read.lease, r.actor, {r.read.state})

\* The task row request r writes: the snapshot's lease unless r gives it up.
CommittedTask(r) ==
    [state     |-> r.target,
     lease     |-> IF r.kind = "force" \/ r.target \in Releasing
                   THEN None ELSE r.read.lease,
     attempts  |-> IF r.read.state \in {"failed", "cancelled"} /\ r.target = "open"
                   THEN 0 ELSE task[r.task].attempts,
     submitted |-> SubmittedAfter(r)]

\* apply_transition, force_complete_task: the transaction of the request.
Commit(h) ==
    LET r == req[h] IN
    /\ r.kind \in {"worker", "trusted", "force"}
    /\ CommitGuard(r)
    /\ task' = [task EXCEPT ![r.task] = CommittedTask(r)]
    /\ lease' = IF /\ r.kind = "force" \/ r.target \in Releasing
                   /\ r.read.lease # None
                   /\ Active(r.read.lease)
                THEN [lease EXCEPT ![r.read.lease] = Dead(r.read.lease, "released")]
                ELSE lease
    /\ req' = [req EXCEPT ![h] = NoRequest]
    /\ UNCHANGED <<expiry, sweep, faults>>

\* The commit is refused ("task state changed during transition; retry"), or
\* the request dies with its connection.
GiveUp(h) ==
    /\ req[h].kind # "idle"
    /\ req' = [req EXCEPT ![h] = NoRequest]
    /\ UNCHANGED <<task, lease, expiry, sweep, faults>>

-----------------------------------------------------------------------------
(* Expiry: four transactions per lease, resumable by any sweeper.           *)

Step(s, row) == sweep' = [sweep EXCEPT ![s] = row]

\* Sweeper s leaves the lease it works on as it is (return None, or an error
\* the sweep isolates); a token it holds stays until it goes stale.
Abandon(s) == Step(s, IdleSweep) /\ UNCHANGED <<task, lease, expiry, faults, req>>

\* _expire_leases_page: the scan picks a lapsed lease, or one fenced earlier
\* and still attached.
ScanLease(s, l) ==
    /\ sweep[s].pc = "idle"
    /\ \/ Active(l) /\ lease[l].age = Overdue
       \/ lease[l].status = "expired" /\ Attached(l)
    /\ Step(s, [IdleSweep EXCEPT !.pc = "found", !.lease = l])
    /\ UNCHANGED <<task, lease, expiry, req, faults>>

\* _expire_agent_active_leases: an agent went offline (the only loss its two callers
\* report); its lease is expired ahead of the clock and the attempt it read is refunded.
LoseAgent(s, l) ==
    LET n == task[lease[l].task].attempts IN
    /\ sweep[s].pc = "idle"
    /\ Active(l)
    /\ Attached(l)
    /\ Step(s, [IdleSweep EXCEPT
                  !.pc = "found", !.lease = l,
                  !.override = [target   |-> "open",
                                attempts |-> IF n > 0 THEN n - 1 ELSE 0]])
    /\ UNCHANGED <<task, lease, expiry, req, faults>>

\* Phase 1: make the loss of the lease durable.
FenceExpired(s) ==
    LET l == sweep[s].lease IN
    /\ sweep[s].pc = "found"
    /\ IF /\ Attached(l)
          /\ \/ Active(l) /\ (lease[l].age = Overdue \/ sweep[s].override # None)
             \/ lease[l].status = "expired"
       THEN /\ lease' = [lease EXCEPT ![l] = Dead(l, "expired")]
            /\ Step(s, [sweep[s] EXCEPT !.pc = "fenced"])
            /\ UNCHANGED <<task, expiry, req, faults>>
       ELSE Abandon(s)

\* Mutant of ClaimFinalizer: the token of a dead sweeper is never taken over.
ClaimFreeFinalizer(s) ==
    LET l == sweep[s].lease IN
    /\ sweep[s].pc = "fenced"
    /\ IF lease[l].status = "expired" /\ ~expiry[l].done /\ Attached(l)
          /\ expiry[l].token = None
       THEN /\ expiry' = [expiry EXCEPT ![l].token = s]
            /\ Step(s, [sweep[s] EXCEPT !.pc = "claimed"])
            /\ UNCHANGED <<task, lease, req, faults>>
       ELSE Abandon(s)

\* Phase 2 (_claim_lease_expiry_finalization): take the finalizer token, from
\* nobody or from a claim that went stale.
ClaimFinalizer(s) ==
    LET l == sweep[s].lease IN
    /\ sweep[s].pc = "fenced"
    /\ IF /\ lease[l].status = "expired"
          /\ ~expiry[l].done
          /\ Attached(l)
          /\ expiry[l].token = None \/ expiry[l].stale
       THEN /\ expiry' = [expiry EXCEPT ![l].token = s, ![l].stale = FALSE]
            /\ Step(s, [sweep[s] EXCEPT !.pc = "claimed"])
            /\ UNCHANGED <<task, lease, req, faults>>
       ELSE Abandon(s)

\* The decisions a sweep may reach for a task with n attempts: back to the pool
\* while attempts are left, else what _exhausted_attempt_terminal_transition says.
SweepDecisions(n) ==
    IF n < MaxAttempts THEN {[target |-> "open", attempts |-> None]}
    ELSE {[target |-> "failed", attempts |-> None],
          [target |-> "cancelled", attempts |-> None],
          [target |-> "waiting", attempts |-> 0]}

\* An imposed decision is refused when it would raise the attempt count.
Fits(d, n) == d.attempts # None => d.attempts <= n

\* Phase 3, first half: reuse the decision on the row, or make one.
Decide(s) ==
    LET l == sweep[s].lease
        n == task[lease[l].task].attempts
        stored == expiry[l].decision
        override == sweep[s].override
    IN
    /\ sweep[s].pc = "claimed"
    /\ \/ /\ Attached(l)
          /\ stored # None
          /\ override \in {None, stored}
          /\ Fits(stored, n)
          /\ Step(s, [sweep[s] EXCEPT !.pc = "persisted", !.decision = stored])
       \/ /\ Attached(l)
          /\ stored = None
          /\ \E d \in IF override # None THEN {override} ELSE SweepDecisions(n) :
                /\ Fits(d, n)
                /\ Step(s, [sweep[s] EXCEPT !.pc = "decided", !.decision = d])
       \/ /\ \/ ~Attached(l)
             \/ stored # None /\ (override \notin {None, stored} \/ ~Fits(stored, n))
             \/ stored = None /\ override # None /\ ~Fits(override, n)
          /\ Step(s, IdleSweep)
    /\ UNCHANGED <<task, lease, expiry, req, faults>>

\* Mutant of Persist: the UPDATE is bound neither to the token nor to NULL.
PersistBlindly(s) ==
    /\ sweep[s].pc = "decided"
    /\ expiry' = [expiry EXCEPT ![sweep[s].lease].decision = sweep[s].decision]
    /\ Step(s, [sweep[s] EXCEPT !.pc = "persisted"])
    /\ UNCHANGED <<task, lease, req, faults>>

\* Phase 3, second half: persist the decision unless another one is there.
Persist(s) ==
    LET l == sweep[s].lease IN
    /\ sweep[s].pc = "decided"
    /\ IF /\ lease[l].status = "expired"
          /\ expiry[l].token = s
          /\ expiry[l].decision = None
       THEN /\ expiry' = [expiry EXCEPT ![l].decision = sweep[s].decision]
            /\ Step(s, [sweep[s] EXCEPT !.pc = "persisted"])
            /\ UNCHANGED <<task, lease, req, faults>>
       ELSE IF expiry[l].decision = sweep[s].decision
       THEN /\ Step(s, [sweep[s] EXCEPT !.pc = "persisted"])
            /\ UNCHANGED <<task, lease, expiry, req, faults>>
       ELSE Abandon(s)

\* Mutant of Finalize: the task is not checked to be still on the lease.
FinalizeDetached(s) ==
    LET l == sweep[s].lease
        d == sweep[s].decision
    IN
    /\ sweep[s].pc = "persisted"
    /\ IF expiry[l].token = s /\ ~expiry[l].done /\ expiry[l].decision = d
       THEN /\ task' = [task EXCEPT
                  ![lease[l].task].state = d.target, ![lease[l].task].lease = None,
                  ![lease[l].task].attempts = IF d.attempts = None THEN @ ELSE d.attempts]
            /\ expiry' = [expiry EXCEPT ![l].done = TRUE, ![l].token = None]
            /\ Step(s, IdleSweep)
            /\ UNCHANGED <<lease, req, faults>>
       ELSE Abandon(s)

\* Phase 4: apply the decision to the task, if the token is still ours and the
\* task still points at the lease.
Finalize(s) ==
    LET l == sweep[s].lease
        t == lease[l].task
        d == sweep[s].decision
    IN
    /\ sweep[s].pc = "persisted"
    /\ IF /\ lease[l].status = "expired"
          /\ expiry[l].token = s
          /\ ~expiry[l].done
          /\ expiry[l].decision = d
       THEN /\ task' = IF ~Attached(l) THEN task
                       ELSE [task EXCEPT ![t].state = d.target,
                                         ![t].lease = None,
                                         ![t].attempts = IF d.attempts = None THEN @
                                                         ELSE d.attempts]
            /\ expiry' = [expiry EXCEPT ![l].done = TRUE, ![l].token = None,
                                        ![l].stale = FALSE]
            /\ Step(s, IdleSweep)
            /\ UNCHANGED <<lease, req, faults>>
       ELSE Abandon(s)

\* The sweeper's process dies; what it made durable stays.
Crash(s) ==
    /\ sweep[s].pc # "idle"
    /\ faults < MaxFaults
    /\ faults' = faults + 1
    /\ Step(s, IdleSweep)
    /\ UNCHANGED <<task, lease, expiry, req>>

\* Sweeper s works on lease l under the finalizer token it took.
Finalizing(s, l) ==
    s # None /\ sweep[s].lease = l /\ sweep[s].pc \in {"claimed", "decided", "persisted"}

\* MAC_LEASE_EXPIRY_FINALIZER_STALE_SECONDS pass since the token was taken: the
\* token of a sweeper that left it behind goes stale, and so does, each time
\* counted as a fault, that of a sweeper that is still at work but too slow.
GoStale(l) ==
    /\ expiry[l].token # None
    /\ ~expiry[l].stale
    /\ ~Finalizing(expiry[l].token, l)
    /\ expiry' = [expiry EXCEPT ![l].stale = TRUE]
    /\ UNCHANGED <<task, lease, req, sweep, faults>>

Overrun(l) ==
    /\ ~expiry[l].stale
    /\ Finalizing(expiry[l].token, l)
    /\ faults < MaxFaults
    /\ faults' = faults + 1
    /\ expiry' = [expiry EXCEPT ![l].stale = TRUE]
    /\ UNCHANGED <<task, lease, req, sweep>>

-----------------------------------------------------------------------------
SweepStep(s) ==
    \/ FenceExpired(s)
    \/ ClaimFinalizer(s)
    \/ Decide(s)
    \/ Persist(s)
    \/ Finalize(s)

Next ==
    \/ \E t \in Task, a \in Agent, l \in Lease : Claim(t, a, l)
    \/ \E l \in Lease : Renew(l) \/ Release(l) \/ Age(l) \/ GoStale(l) \/ Overrun(l)
    \/ \E l \in Lease, b \in Agent : Delegate(l, b)
    \/ \E h \in Handler, t \in Task, a \in Agent, g \in TaskState : WorkerRequest(h, t, a, g)
    \/ \E h \in Handler, t \in Task, g \in TaskState : TrustedRequest(h, t, g)
    \/ \E h \in Handler, t \in Task : ForceRequest(h, t) \/ RetryRequest(h, t)
    \/ \E h \in Handler : Commit(h) \/ RetryWrite(h) \/ GiveUp(h)
    \/ \E s \in Sweeper, l \in Lease : ScanLease(s, l) \/ LoseAgent(s, l)
    \/ \E s \in Sweeper : SweepStep(s) \/ Crash(s)

Spec == Init /\ [][Next]_vars

\* The tick runs the sweep again and again, a sweeper that is not killed goes
\* on, and time passes.
Fairness ==
    /\ \A s \in Sweeper : WF_vars(SweepStep(s))
    /\ \A s \in Sweeper : WF_vars(\E l \in Lease : ScanLease(s, l))
    /\ \A l \in Lease : WF_vars(GoStale(l))

FairSpec == Spec /\ Fairness

-----------------------------------------------------------------------------
(* Properties that hold whatever requests race with each other.            *)

\* Every row has its columns' types.
TypeOK ==
    /\ task \in [Task -> TaskRow]
    /\ lease \in [Lease -> LeaseRow]
    /\ expiry \in [Lease -> ExpiryRow]
    /\ req \in [Handler -> Request]
    /\ sweep \in [Sweeper -> SweepState]
    /\ faults \in 0 .. MaxFaults

\* At most one ACTIVE lease per task, even after a request has overwritten a
\* newer assignment (claim_task under uniq_leases_active_per_task).
OneActiveLeasePerTask ==
    \A k, l \in Lease :
        Active(k) /\ Active(l) /\ lease[k].task = lease[l].task => k = l

\* A worker's request changes its task only while the lease it read is still
\* the task's own, ACTIVE and not lapsed: a process left over from an earlier
\* attempt cannot write over the attempt that replaced it.
NoStaleWorkerWrite ==
    [][\A h \in Handler :
          LET r == req[h] IN
          r.kind = "worker" /\ req'[h] # r /\ task' # task =>
              /\ task[r.task].lease = r.read.lease
              /\ Active(r.read.lease)
              /\ lease[r.read.lease].age < Lapsed]_vars

\* An ACTIVE lease comes off its task, and stays ACTIVE, only by a trusted request
\* that decided on a row it read under another lease, or under none, of the same
\* task: no release, worker, expiry or crash orphans a lease.
OrphanedByStaleRequest ==
    [][\A l \in Lease :
          /\ Active(l) /\ Attached(l)
          /\ lease'[l].status = "active" /\ ~Attached(l)'
          => \E h \in Handler : /\ req[h].kind \in {"trusted", "force"} /\ req'[h] # req[h]
                                /\ req[h].task = lease[l].task
                                /\ req[h].read.lease # l]_vars

\* The row says of a task under review that its latest attempt submitted it.
NamesLatestAttempt(t) ==
    task[t].state \in {"needs_review", "reviewing"} =>
        task[t].submitted = task[t].attempts

\* A task under review was submitted by its latest attempt.  A retry of an earlier
\* block alone can make the row say otherwise: it writes over the submission, or it
\* lowers the count, if only between the read of the submission and its commit.
ReviewNamesLatestAttempt ==
    [][\A t \in Task :
          NamesLatestAttempt(t) /\ ~NamesLatestAttempt(t)' =>
              \E h \in Handler :
                  /\ req[h].task = t
                  /\ \/ req[h].kind = "retry" /\ task'[t].state = task[t].state
                     \/ req'[h] # req[h] /\ task[t].attempts < req[h].read.attempts]_vars

\* A task in flight is under a lease that was granted for it and that a sweep will
\* still find and finalize, whatever stale commits have taken off it or put back: no
\* task is stranded in flight.
InFlightUnderLease ==
    \A t \in Task : task[t].state \in InFlightTaskState =>
        \E l \in Lease : /\ task[t].lease = l /\ lease[l].task = t
                         /\ lease[l].status \in {"active", "expired"}
                         /\ ~expiry[l].done

\* Losing a lease is final, the decision about it is made once, and once it is
\* carried out no sweeper touches the lease again, takeovers and faults included.
ExpiryIsDurable ==
    [][\A l \in Lease :
          /\ lease[l].status \in {"expired", "released"} =>
                lease'[l].status = lease[l].status
          /\ expiry[l].decision # None => expiry'[l].decision = expiry[l].decision
          /\ expiry[l].done => expiry'[l] = expiry[l]]_vars

\* An attempt count falls for one of three causes, each of which gives back once:
\* a dead task is reopened; the lease the task is on is finalized, which no sweep
\* does again; or a retry ends that read the task blocked or out of attempts, and
\* gives back one attempt or all.  The expiry of a lease off the task refunds nothing.
CountFallsForCause ==
    [][\A t \in Task :
          task'[t].attempts < task[t].attempts =>
              \/ /\ task[t].state \in {"failed", "cancelled"}
                 /\ task'[t].state = "open" /\ task'[t].attempts = 0
              \/ \E l \in Lease : /\ task[t].lease = l
                                  /\ ~expiry[l].done /\ expiry'[l].done
              \/ \E h \in Handler :
                     /\ req[h].kind = "retry" /\ req[h].task = t /\ req'[h] = NoRequest
                     /\ req[h].read.attempts > 0
                     /\ task'[t].attempts \in {0, task[t].attempts - 1}]_vars

-----------------------------------------------------------------------------
(* Properties of a hub whose trusted callers leave a task with a lease      *)
(* alone, but for the lease-guarded stop, and whose workers do not park.    *)

\* No request writes a task's lease without checking it.
Guarded ==
    /\ "needs_input" \notin WorkerTargets
    /\ HeldTargets \subseteq {"stopped"}
    /\ ~ForceCompletes

\* An ACTIVE lease is the one its task points at; an ACTIVE lease nothing points
\* at would never be expired and would keep the task from being claimed again.
NoOrphanLease == \A l \in Lease : Active(l) => Attached(l)

\* The lease a task points at was granted for it, was not given back, and its
\* expiry has not been carried out; exactly the tasks in flight have one.
AttachmentSound ==
    \A t \in Task :
        /\ task[t].lease # None <=> task[t].state \in InFlightTaskState
        /\ task[t].lease # None =>
              /\ lease[task[t].lease].task = t
              /\ lease[task[t].lease].status \in {"active", "expired"}
              /\ ~expiry[task[t].lease].done

\* The lease ledger implements exclusive, revocable ownership of tasks.
Ownership == INSTANCE TaskOwnership
    WITH holder <- [t \in Task |-> task[t].lease],
         live   <- {l \in Lease : Active(l)},
         spent  <- {l \in Lease : lease[l].status # "free"}

OwnershipSpec == Ownership!Spec

\* A lease nobody renews any more is detached from its task, however many
\* sweepers crash on the way.
LapsedLeaseReclaimed ==
    \A l \in Lease :
        (Attached(l) /\ (lease[l].age = Overdue \/ ~Active(l))) ~> ~Attached(l)

-----------------------------------------------------------------------------
(* What the documentation says and the code does not keep.                  *)

\* "The lease is the concurrency primitive: one live lease per task, renewed by
\* heartbeat, reclaimed on expiry" (docs/guide/01-architecture.md): a lease nobody
\* renews does not stay ACTIVE.  One that no task points at does.
OverdueLeaseReclaimed ==
    \A l \in Lease : (Active(l) /\ lease[l].age = Overdue) ~> ~Active(l)

\* "Parked tasks are excluded from every sweeper, reaper, and dispatch pass, so
\* they wait indefinitely" (request_task_input): no step of a sweeper takes a
\* task out of needs_input.
ParkedNeverSwept ==
    [][\A t \in Task :
          task[t].state = "needs_input" /\ task'[t] # task[t] => sweep' = sweep]_vars
=============================================================================
