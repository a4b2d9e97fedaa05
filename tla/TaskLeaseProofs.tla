-------------------------- MODULE TaskLeaseProofs --------------------------
(***************************************************************************)
(* What holds of the task and lease ledger for every set of tasks, agents, *)
(* leases, request handlers and sweepers.                                  *)
(***************************************************************************)
EXTENDS TaskLease, TLAPS

-----------------------------------------------------------------------------
(* Type correctness.  The types alone are not inductive: a commit writes    *)
(* under the ids its request carries, a finalizer writes the decision its   *)
(* sweeper holds.                                                           *)

RequestWellFormed ==
    \A h \in Handler : req[h].kind # "idle" => req[h].task \in Task

SweepWellFormed ==
    \A s \in Sweeper :
        /\ sweep[s].pc # "idle" => sweep[s].lease \in Lease
        /\ sweep[s].pc \in {"decided", "persisted"} => sweep[s].decision \in Decision

TypeInv == TypeOK /\ RequestWellFormed /\ SweepWellFormed

LEMMA TypeInvInit == Init => TypeInv
  BY IdsAssumption, BoundsAssumption
     DEF Init, TypeInv, TypeOK, RequestWellFormed, SweepWellFormed, NewTask, FreeLease,
         NoExpiry, NoRequest, IdleSweep, TaskRow, LeaseRow, ExpiryRow, Request, SweepState,
         TaskState, LeaseStatus, Fresh, Overdue

LEMMA DeadTyped ==
    ASSUME TypeOK, NEW l \in Lease, NEW status \in LeaseStatus
    PROVE  Dead(l, status) \in LeaseRow
<1>1. lease[l] \in LeaseRow
  BY DEF TypeOK
<1>2. Fresh \in Fresh .. Overdue
  BY DEF Fresh, Overdue
<1>3. QED
  BY <1>1, <1>2 DEF Dead, LeaseRow

\* The actions of a lease holder or of time: they touch task and lease only.
LEMMA LeaseActionsTyped ==
    ASSUME TypeInv,
           \/ \E t \in Task, a \in Agent, l \in Lease : Claim(t, a, l)
           \/ \E l \in Lease : Renew(l) \/ Release(l) \/ Age(l)
           \/ \E l \in Lease, b \in Agent : Delegate(l, b)
    PROVE  TypeInv'
<1> USE DEF TypeInv, TypeOK, RequestWellFormed, SweepWellFormed
<1>1. ASSUME NEW t \in Task, NEW a \in Agent, NEW l \in Lease, Claim(t, a, l)
      PROVE  TypeInv'
  <2>1. Granted(t, a) \in LeaseRow
    BY DEF Granted, LeaseRow, LeaseStatus, Fresh, Overdue
  <2>2. task[t] \in TaskRow /\ task[t].attempts + 1 \in 0 .. MaxAttempts
    BY <1>1, BoundsAssumption DEF Claim, TaskRow
  <2>3. Assigned(t, l) \in TaskRow
    BY <2>2 DEF Assigned, TaskRow, TaskState
  <2>4. QED
    BY <1>1, <2>1, <2>3 DEF Claim
<1>2. ASSUME NEW l \in Lease, Renew(l)
      PROVE  TypeInv'
  BY <1>2 DEF Renew, LeaseRow, Fresh, Overdue
<1>3. ASSUME NEW l \in Lease, Release(l)
      PROVE  TypeInv'
  <2>1. lease' \in [Lease -> LeaseRow]
    BY <1>3, DeadTyped DEF Release, LeaseStatus
  <2>2. PICK t \in Task : t = lease[l].task
    BY <1>3 DEF Release, Attached, LeaseRow
  <2>3. task[t] \in TaskRow
    OBVIOUS
  <2>4. [task[t] EXCEPT !.state = "open", !.lease = None] \in TaskRow
    BY <2>3 DEF TaskRow, TaskState
  <2>5. task' = [task EXCEPT ![t] = [task[t] EXCEPT !.state = "open", !.lease = None]]
    BY <1>3, <2>2, <2>3 DEF Release
  <2>6. task' \in [Task -> TaskRow]
    BY <2>4, <2>5
  <2>7. QED
    BY <1>3, <2>1, <2>6 DEF Release
<1>4. ASSUME NEW l \in Lease, Age(l)
      PROVE  TypeInv'
  BY <1>4 DEF Age, LeaseRow, Fresh, Overdue
<1>5. ASSUME NEW l \in Lease, NEW b \in Agent, Delegate(l, b)
      PROVE  TypeInv'
  BY <1>5 DEF Delegate, LeaseRow
<1>6. QED
  BY <1>1, <1>2, <1>3, <1>4, <1>5

\* Reading a task for a request.
LEMMA ReadTyped ==
    ASSUME TypeInv,
           NEW h \in Handler, NEW t \in Task, NEW kind \in {"worker", "trusted", "force", "retry"},
           NEW actor \in Agent \cup {None}, NEW target \in TaskState,
           Read(h, t, kind, actor, target)
    PROVE  TypeInv'
<1>1. task[t] \in TaskRow
  BY DEF TypeInv, TypeOK
<1>2. [kind |-> kind, task |-> t, actor |-> actor, target |-> target, read |-> task[t]]
        \in Request
  BY <1>1 DEF Request
<1>3. QED
  BY <1>2 DEF Read, TypeInv, TypeOK, RequestWellFormed, SweepWellFormed

\* The commit of a request, or its end without one.
LEMMA CommitTyped ==
    ASSUME TypeInv, NEW h \in Handler, Commit(h) \/ GiveUp(h)
    PROVE  TypeInv'
<1> USE DEF TypeInv, TypeOK, RequestWellFormed, SweepWellFormed
<1>1. NoRequest \in Request /\ NoRequest.kind = "idle"
  BY IdsAssumption, BoundsAssumption DEF NoRequest, Request, NewTask, TaskRow, TaskState
<1>2. CASE GiveUp(h)
  BY <1>1, <1>2 DEF GiveUp
<1>3. CASE Commit(h)
  <2> DEFINE r == req[h]
  <2>1. r \in Request /\ r.task \in Task /\ r.read \in TaskRow /\ task[r.task] \in TaskRow
    BY <1>3 DEF Commit, Request
  <2>2. SubmittedAfter(r) \in 0 .. MaxAttempts
    BY <2>1, BoundsAssumption DEF SubmittedAfter, TaskRow
  <2>3. CommittedTask(r) \in TaskRow
    <3>1. r.target \in TaskState
      BY <2>1 DEF Request
    <3>2. 0 \in 0 .. MaxAttempts
      BY BoundsAssumption
    <3>3. QED
      BY <2>1, <2>2, <3>1, <3>2 DEF CommittedTask, TaskRow
  <2>4. task' \in [Task -> TaskRow]
    BY <1>3, <2>3 DEF Commit
  <2>5. lease' \in [Lease -> LeaseRow]
    <3>1. CASE lease' = lease
      BY <3>1
    <3>2. CASE /\ lease' = [lease EXCEPT ![r.read.lease] = Dead(r.read.lease, "released")]
               /\ r.read.lease # None
      <4>1. r.read.lease \in Lease
        BY <2>1, <3>2 DEF TaskRow
      <4>2. Dead(r.read.lease, "released") \in LeaseRow
        BY <4>1, DeadTyped DEF LeaseStatus
      <4>3. QED
        BY <3>2, <4>2
    <3>3. QED
      BY <1>3, <3>1, <3>2 DEF Commit
  <2>6. QED
    BY <1>1, <1>3, <2>4, <2>5 DEF Commit
<1>4. QED
  BY <1>2, <1>3

\* What the UPDATEs of a retry change: never a state or a lease, and a count only
\* downwards and as the retry ends.
LEMMA RetryMoves ==
    ASSUME TypeInv, NEW h \in Handler, RetryWrite(h)
    PROVE  /\ task' \in [Task -> TaskRow]
           /\ \A t \in Task : /\ task'[t].state = task[t].state
                              /\ task'[t].lease = task[t].lease
                              /\ task'[t].attempts <= task[t].attempts
                              /\ task'[t] # task[t] => req[h].task = t
                              /\ task'[t].attempts # task[t].attempts =>
                                    /\ req' = [req EXCEPT ![h] = NoRequest]
                                    /\ task'[t].attempts \in {0, task[t].attempts - 1}
           /\ req[h].kind = "retry"
           /\ req' \in {req, [req EXCEPT ![h] = NoRequest]}
           /\ UNCHANGED <<lease, expiry, sweep, faults>>
<1> DEFINE r == req[h]
           u == r.task
<1>1. /\ task \in [Task -> TaskRow] /\ r \in Request /\ r.kind = "retry" /\ u \in Task
      /\ UNCHANGED <<lease, expiry, sweep, faults>>
  BY DEF RetryWrite, TypeInv, TypeOK, RequestWellFormed
<1>2. /\ task[u] \in TaskRow /\ task[u].attempts \in Nat /\ task[u].submitted \in 0 .. MaxAttempts
      /\ r.read.submitted \in 0 .. MaxAttempts /\ MaxAttempts \in Nat
  BY <1>1, BoundsAssumption DEF Request, TaskRow
<1>3. PICK n \in 0 .. MaxAttempts, v \in 0 .. MaxAttempts :
          /\ task' = [task EXCEPT ![u] = [task[u] EXCEPT !.attempts = n, !.submitted = v]]
          /\ \/ req' = req /\ n = task[u].attempts
             \/ /\ req' = [req EXCEPT ![h] = NoRequest]
                /\ n \in {task[u].attempts, 0}
                     \cup (IF task[u].attempts > 0 THEN {task[u].attempts - 1} ELSE {})
  <2>1. CASE /\ task' = [task EXCEPT ![u].submitted = r.read.submitted]
             /\ req' = req
    <3>1. task' = [task EXCEPT ![u] = [task[u] EXCEPT !.attempts = task[u].attempts,
                                                      !.submitted = r.read.submitted]]
      BY <1>1, <1>2, <2>1 DEF TaskRow
    <3>2. task[u].attempts \in 0 .. MaxAttempts
      BY <1>2 DEF TaskRow
    <3>3. QED
      BY <1>2, <2>1, <3>1, <3>2
  <2>2. ASSUME NEW n \in Retried(r, task[u].attempts),
               NEW v \in {task[u].submitted, r.read.submitted},
               task' = [task EXCEPT ![u].attempts = n, ![u].submitted = v],
               req' = [req EXCEPT ![h] = NoRequest]
        PROVE  \E m \in 0 .. MaxAttempts, w \in 0 .. MaxAttempts :
                  /\ task' = [task EXCEPT ![u] = [task[u] EXCEPT !.attempts = m, !.submitted = w]]
                  /\ \/ req' = req /\ m = task[u].attempts
                     \/ /\ req' = [req EXCEPT ![h] = NoRequest]
                        /\ m \in {task[u].attempts, 0}
                             \cup (IF task[u].attempts > 0 THEN {task[u].attempts - 1} ELSE {})
    <3>1. n \in {task[u].attempts, 0}
                  \cup (IF task[u].attempts > 0 THEN {task[u].attempts - 1} ELSE {})
      BY <2>2 DEF Retried
    <3>2. n \in 0 .. MaxAttempts /\ v \in 0 .. MaxAttempts
      BY <1>2, <2>2, <3>1 DEF TaskRow
    <3>3. task' = [task EXCEPT ![u] = [task[u] EXCEPT !.attempts = n, !.submitted = v]]
      BY <1>1, <1>2, <2>2 DEF TaskRow
    <3>4. QED
      BY <2>2, <3>1, <3>2, <3>3
  <2>3. QED
    BY <2>1, <2>2 DEF RetryWrite
<1> DEFINE row == [task[u] EXCEPT !.attempts = n, !.submitted = v]
<1>4. /\ row \in TaskRow /\ row.state = task[u].state /\ row.lease = task[u].lease
      /\ row.attempts = n
  BY <1>2 DEF TaskRow
<1>5. task' = [task EXCEPT ![u] = row]
  BY <1>3
<1> HIDE DEF row
<1>6. task' \in [Task -> TaskRow] /\ task'[u] = row /\ \A t \in Task \ {u} : task'[t] = task[t]
  BY <1>1, <1>4, <1>5
<1>7. \A t \in Task : task[t].attempts \in Nat
  BY <1>1, BoundsAssumption DEF TaskRow
<1>8. QED
  BY <1>1, <1>2, <1>3, <1>4, <1>6, <1>7

LEMMA RetryTyped ==
    ASSUME TypeInv, NEW h \in Handler, RetryWrite(h)
    PROVE  TypeInv'
<1>1. NoRequest \in Request /\ NoRequest.kind = "idle"
  BY IdsAssumption, BoundsAssumption DEF NoRequest, Request, NewTask, TaskRow, TaskState
<1>2. QED
  BY <1>1, RetryMoves DEF TypeInv, TypeOK, RequestWellFormed, SweepWellFormed

\* A sweeper moves on to a well-formed row.
LEMMA StepTyped ==
    ASSUME TypeInv, NEW s \in Sweeper, NEW row \in SweepState, Step(s, row),
           row.pc # "idle" => row.lease \in Lease,
           row.pc \in {"decided", "persisted"} => row.decision \in Decision
    PROVE  sweep' \in [Sweeper -> SweepState] /\ SweepWellFormed'
  BY DEF TypeInv, TypeOK, SweepWellFormed, Step

\* ... which is one with another pc and, if need be, another decision.
LEMMA AdvanceTyped ==
    ASSUME TypeInv, NEW s \in Sweeper, sweep[s].pc # "idle",
           NEW pc \in {"found", "fenced", "claimed", "decided", "persisted"},
           NEW d \in Decision \cup {None},
           pc \in {"decided", "persisted"} => d \in Decision,
           Step(s, [sweep[s] EXCEPT !.pc = pc, !.decision = d])
    PROVE  sweep' \in [Sweeper -> SweepState] /\ SweepWellFormed'
<1> DEFINE row == [sweep[s] EXCEPT !.pc = pc, !.decision = d]
<1>1. sweep[s] \in SweepState /\ sweep[s].lease \in Lease
  BY DEF TypeInv, TypeOK, SweepWellFormed
<1>2. row \in SweepState
  BY <1>1 DEF SweepState
<1>3. row.pc = pc /\ row.lease \in Lease /\ row.decision = d
  BY <1>1 DEF SweepState
<1> HIDE DEF row
<1>4. Step(s, row)
  BY DEF row
<1>5. QED
  BY <1>2, <1>3, <1>4, StepTyped

\* A finalizer applies its decision to the task of its lease.
LEMMA FinalizeTyped ==
    ASSUME TypeInv, NEW s \in Sweeper, Finalize(s)
    PROVE  TypeInv'
<1> USE DEF TypeInv, TypeOK, RequestWellFormed, SweepWellFormed
<1> DEFINE l == sweep[s].lease
           t == lease[l].task
           d == sweep[s].decision
<1>1. l \in Lease /\ d \in Decision
  BY DEF Finalize
<1>2. IdleSweep \in SweepState
  BY ZenonT(60) DEF IdleSweep, SweepState
<1>3. sweep' = [sweep EXCEPT ![s] = IdleSweep]
  BY DEF Finalize, Abandon, Step
<1>4. sweep' \in [Sweeper -> SweepState] /\ SweepWellFormed'
  BY <1>2, <1>3 DEF IdleSweep
<1>5. expiry' \in [Lease -> ExpiryRow]
  <2>1. \/ expiry' = expiry
        \/ expiry' = [expiry EXCEPT ![l].done = TRUE, ![l].token = None, ![l].stale = FALSE]
    BY DEF Finalize, Abandon
  <2>2. expiry[l] \in ExpiryRow
    BY <1>1
  <2>3. [expiry[l] EXCEPT !.done = TRUE, !.token = None, !.stale = FALSE] \in ExpiryRow
    BY <2>2 DEF ExpiryRow
  <2>4. QED
    BY <2>1, <2>3, <1>1
<1>6. task' \in [Task -> TaskRow]
  <2>1. CASE task' = task
    BY <2>1
  <2>2. CASE /\ task' = [task EXCEPT ![t].state = d.target, ![t].lease = None,
                                     ![t].attempts = IF d.attempts = None THEN @
                                                     ELSE d.attempts]
             /\ Attached(l)
    <3> DEFINE n == IF d.attempts = None THEN task[t].attempts ELSE d.attempts
               row == [task[t] EXCEPT !.state = d.target, !.lease = None, !.attempts = n]
    <3>1. d.target \in TaskState /\ d.attempts \in (0 .. MaxAttempts) \cup {None}
      BY ZenonT(60), <1>1 DEF Decision, TaskState
    <3>2. t \in Task
      BY <2>2, <1>1 DEF Attached, LeaseRow
    <3>3. task[t] \in TaskRow
      BY <3>2
    <3>4. n \in 0 .. MaxAttempts
      BY <3>1, <3>3 DEF TaskRow
    <3>5. row \in TaskRow
      <4> HIDE DEF n, t, d
      <4> QED
        BY Zenon, <3>1, <3>3, <3>4 DEF TaskRow
    <3>6. task' = [task EXCEPT ![t] = row]
      BY ZenonT(60), <2>2, <3>2, <3>3 DEF TaskRow
    <3>7. QED
      <4> HIDE DEF row, t
      <4> QED
        BY <3>2, <3>5, <3>6
  <2>3. QED
    BY <2>1, <2>2 DEF Finalize, Abandon
<1>7. UNCHANGED <<lease, req, faults>>
  BY DEF Finalize, Abandon
<1>8. QED
  BY <1>4, <1>5, <1>6, <1>7

\* The other steps of a sweeper, its death, and the clock of the finalizer token.
LEMMA SweepTyped ==
    ASSUME TypeInv,
           \/ \E s \in Sweeper, l \in Lease : ScanLease(s, l) \/ LoseAgent(s, l)
           \/ \E s \in Sweeper :
                FenceExpired(s) \/ ClaimFinalizer(s) \/ Decide(s) \/ Persist(s) \/ Crash(s)
           \/ \E l \in Lease : GoStale(l) \/ Overrun(l)
    PROVE  TypeInv'
<1> USE DEF TypeInv, TypeOK, RequestWellFormed, SweepWellFormed
<1>1. IdleSweep \in SweepState /\ IdleSweep.pc = "idle"
  BY DEF IdleSweep, SweepState
<1>2. ASSUME NEW s \in Sweeper, Abandon(s)
      PROVE  TypeInv'
  BY <1>1, <1>2 DEF Abandon, Step
<1>3. ASSUME NEW s \in Sweeper, NEW l \in Lease, ScanLease(s, l)
      PROVE  TypeInv'
  BY <1>3 DEF ScanLease, Step, IdleSweep, SweepState
<1>4. ASSUME NEW s \in Sweeper, NEW l \in Lease, LoseAgent(s, l)
      PROVE  TypeInv'
  <2> DEFINE n == task[lease[l].task].attempts
             d == [target |-> "open", attempts |-> IF n > 0 THEN n - 1 ELSE 0]
  <2>1. n \in 0 .. MaxAttempts
    <3>1. lease[l].task \in Task
      BY <1>4 DEF LoseAgent, Attached, LeaseRow
    <3>2. QED
      BY <3>1 DEF TaskRow
  <2>2. d \in Decision
    BY <2>1, BoundsAssumption DEF Decision
  <2>3. QED
    BY <1>4, <2>2 DEF LoseAgent, Step, IdleSweep, SweepState
<1>5. ASSUME NEW s \in Sweeper, FenceExpired(s)
      PROVE  TypeInv'
  <2>1. CASE Abandon(s)
    BY <1>2, <2>1
  <2>2. CASE ~Abandon(s)
    <3>1. sweep[s].lease \in Lease
      BY <1>5 DEF FenceExpired
    <3>2. Dead(sweep[s].lease, "expired") \in LeaseRow
      BY <3>1, DeadTyped DEF LeaseStatus
    <3>3. QED
      BY <1>5, <2>2, <3>1, <3>2 DEF FenceExpired, Step, SweepState
  <2>3. QED
    BY <2>1, <2>2
<1>6. ASSUME NEW s \in Sweeper, ClaimFinalizer(s)
      PROVE  TypeInv'
  <2>1. CASE Abandon(s)
    BY <1>2, <2>1
  <2>2. CASE ~Abandon(s)
    <3> DEFINE l == sweep[s].lease
    <3>1. l \in Lease /\ expiry[l] \in ExpiryRow /\ sweep[s] \in SweepState
      BY <1>6 DEF ClaimFinalizer
    <3>2. [expiry[l] EXCEPT !.token = s, !.stale = FALSE] \in ExpiryRow
      BY <3>1 DEF ExpiryRow
    <3>3. expiry' \in [Lease -> ExpiryRow]
      BY <1>6, <2>2, <3>1, <3>2 DEF ClaimFinalizer
    <3>4. sweep' \in [Sweeper -> SweepState] /\ SweepWellFormed'
      <4>1. sweep' = [sweep EXCEPT ![s] = [sweep[s] EXCEPT !.pc = "claimed"]]
        BY Zenon, <1>6, <2>2 DEF ClaimFinalizer, Step
      <4>2. [sweep[s] EXCEPT !.pc = "claimed"] \in SweepState
        BY <3>1 DEF SweepState
      <4>3. sweep'[s].pc = "claimed" /\ sweep'[s].lease = l /\ l \in Lease
        BY <3>1, <4>1 DEF SweepState
      <4>4. \A q \in Sweeper \ {s} : sweep'[q] = sweep[q]
        BY <4>1
      <4>5. QED
        BY <4>1, <4>2, <4>3, <4>4
    <3>5. UNCHANGED <<task, lease, req, faults>>
      BY <1>6, <2>2 DEF ClaimFinalizer
    <3>6. QED
      BY <3>3, <3>4, <3>5
  <2>3. QED
    BY <2>1, <2>2
<1>7. ASSUME NEW s \in Sweeper, Decide(s)
      PROVE  TypeInv'
  <2>1. CASE sweep' = [sweep EXCEPT ![s] = IdleSweep]
    BY Zenon, <1>1, <1>7, <2>1 DEF Decide
  <2>2. ASSUME NEW d \in Decision,
               Step(s, [sweep[s] EXCEPT !.pc = "decided", !.decision = d])
        PROVE  TypeInv'
    BY Zenon, <1>7, <2>2, AdvanceTyped DEF Decide
  <2>3. ASSUME NEW d \in Decision,
               Step(s, [sweep[s] EXCEPT !.pc = "persisted", !.decision = d])
        PROVE  TypeInv'
    BY Zenon, <1>7, <2>3, AdvanceTyped DEF Decide
  <2>4. QED
    <3> DEFINE l == sweep[s].lease
               n == task[lease[l].task].attempts
    <3>1. l \in Lease /\ expiry[l].decision \in Decision \cup {None}
          /\ sweep[s].override \in Decision \cup {None}
      BY Zenon, <1>7 DEF Decide, ExpiryRow, SweepState
    <3>2. SweepDecisions(n) \subseteq Decision
      BY SMTT(60), BoundsAssumption DEF SweepDecisions, Decision
    <3>3. QED
      BY ZenonT(60), <1>7, <2>1, <2>2, <2>3, <3>1, <3>2 DEF Decide, Step
<1>8. ASSUME NEW s \in Sweeper, Persist(s)
      PROVE  TypeInv'
  <2>1. CASE Abandon(s)
    BY <1>2, <2>1
  <2>2. CASE ~Abandon(s)
    <3> DEFINE l == sweep[s].lease
    <3>1. /\ l \in Lease /\ expiry[l] \in ExpiryRow
          /\ sweep[s] \in SweepState /\ sweep[s].decision \in Decision
      BY <1>8 DEF Persist
    <3>2. [expiry[l] EXCEPT !.decision = sweep[s].decision] \in ExpiryRow
      BY <3>1 DEF ExpiryRow
    <3>3. expiry' \in [Lease -> ExpiryRow]
      BY <1>8, <2>2, <3>1, <3>2 DEF Persist
    <3>4. Step(s, [sweep[s] EXCEPT !.pc = "persisted"])
      BY <1>8, <2>2 DEF Persist
    <3>5. sweep' \in [Sweeper -> SweepState] /\ SweepWellFormed'
      BY <3>1, <3>4 DEF Step, SweepState
    <3>6. UNCHANGED <<task, lease, req, faults>>
      BY <1>8, <2>2 DEF Persist
    <3>7. QED
      BY <3>3, <3>5, <3>6
  <2>3. QED
    BY <2>1, <2>2
<1>9. ASSUME NEW s \in Sweeper, Crash(s)
      PROVE  TypeInv'
  BY <1>1, <1>9, BoundsAssumption DEF Crash, Step
<1>10. ASSUME NEW l \in Lease, GoStale(l) \/ Overrun(l)
       PROVE  TypeInv'
  <2>1. [expiry[l] EXCEPT !.stale = TRUE] \in ExpiryRow
    <3>1. expiry[l] \in ExpiryRow
      OBVIOUS
    <3>2. QED
      BY <3>1 DEF ExpiryRow
  <2>2. expiry' \in [Lease -> ExpiryRow]
    BY <1>10, <2>1 DEF GoStale, Overrun
  <2>3. faults' \in 0 .. MaxFaults
    BY <1>10, BoundsAssumption DEF GoStale, Overrun
  <2>4. QED
    BY <1>10, <2>2, <2>3 DEF GoStale, Overrun
<1>11. QED
  BY <1>3, <1>4, <1>5, <1>6, <1>7, <1>8, <1>9, <1>10

LEMMA TypeInvNext == TypeInv /\ [Next]_vars => TypeInv'
<1> SUFFICES ASSUME TypeInv, [Next]_vars PROVE TypeInv'
  OBVIOUS
<1>1. CASE UNCHANGED vars
  BY <1>1 DEF vars, TypeInv, TypeOK, RequestWellFormed, SweepWellFormed
<1>2. ASSUME NEW h \in Handler, NEW t \in Task, NEW a \in Agent, NEW g \in TaskState,
             WorkerRequest(h, t, a, g)
      PROVE  TypeInv'
  BY <1>2, ReadTyped DEF WorkerRequest
<1>3. ASSUME NEW h \in Handler, NEW t \in Task, NEW g \in TaskState, TrustedRequest(h, t, g)
      PROVE  TypeInv'
  BY <1>3, ReadTyped DEF TrustedRequest
<1>4. ASSUME NEW h \in Handler, NEW t \in Task, ForceRequest(h, t)
      PROVE  TypeInv'
  BY <1>4, ReadTyped DEF ForceRequest, TaskState
<1>5. ASSUME NEW h \in Handler, NEW t \in Task, RetryRequest(h, t)
      PROVE  TypeInv'
  BY <1>5, ReadTyped DEF RetryRequest, TaskState
<1>6. QED
  BY <1>1, <1>2, <1>3, <1>4, <1>5, LeaseActionsTyped, CommitTyped, RetryTyped, FinalizeTyped,
     SweepTyped
     DEF Next, SweepStep

\* Every row of the ledger has its columns' types, however requests, sweepers
\* and their crashes interleave (all of services.py's lease operations).
THEOREM TypeCorrect == Spec => []TypeOK
<1>1. Spec => []TypeInv
  BY TypeInvInit, TypeInvNext, PTL DEF Spec
<1>2. TypeInv => TypeOK
  BY DEF TypeInv
<1>3. QED
  BY <1>1, <1>2, PTL

-----------------------------------------------------------------------------
(* Safety of the hub whatever its callers ask for.                          *)

\* A step that ends a request and changes a task is the request's commit, or a
\* retry's last UPDATE.
LEMMA WriterCommits ==
    ASSUME TypeInv, [Next]_vars, NEW h \in Handler,
           req[h].kind # "idle", req'[h] # req[h], task' # task
    PROVE  Commit(h) \/ RetryWrite(h)
<1>1. \E k \in Handler : Commit(k) \/ RetryWrite(k)
  BY ZenonT(60)
     DEF Next, vars, Claim, Renew, Release, Age, GoStale, Overrun, Delegate, WorkerRequest,
         TrustedRequest, ForceRequest, RetryRequest, Read, GiveUp, ScanLease, LoseAgent, SweepStep,
         FenceExpired, ClaimFinalizer, Decide, Persist, Finalize, Crash, Abandon
<1>2. PICK k \in Handler : Commit(k) \/ RetryWrite(k)
  BY <1>1
<1>3. k = h
  <2>1. req' \in {req, [req EXCEPT ![k] = NoRequest]}
    BY <1>2, RetryMoves DEF Commit
  <2>2. QED
    BY <2>1 DEF TypeInv, TypeOK
<1>4. QED
  BY <1>2, <1>3

\* No write of a left-over worker process: whatever trusted callers do, a worker's
\* request changes its task only under the lease it read, still attached, ACTIVE
\* and not lapsed (_require_exact_lease_actor_in_transaction).
THEOREM StaleWritesFenced == Spec => NoStaleWorkerWrite
<1> DEFINE Fenced ==
      \A h \in Handler :
          LET r == req[h] IN
          r.kind = "worker" /\ req'[h] # r /\ task' # task =>
              /\ task[r.task].lease = r.read.lease
              /\ Active(r.read.lease)
              /\ lease[r.read.lease].age < Lapsed
<1>1. TypeInv /\ [Next]_vars => Fenced
  <2> SUFFICES ASSUME TypeInv, [Next]_vars, NEW h \in Handler,
                      req[h].kind = "worker", req'[h] # req[h], task' # task
               PROVE  /\ task[req[h].task].lease = req[h].read.lease
                      /\ Active(req[h].read.lease)
                      /\ lease[req[h].read.lease].age < Lapsed
    OBVIOUS
  <2>1. Commit(h)
    BY WriterCommits DEF RetryWrite
  <2>2. QED
    BY <2>1 DEF Commit, CommitGuard, Fence
<1>2. TypeInv /\ [Next]_vars => [Fenced]_vars
  BY <1>1
<1>3. QED
  BY TypeInvInit, TypeInvNext, <1>2, PTL DEF Spec, NoStaleWorkerWrite

\* A step that makes a lease ACTIVE is its claim; no step gives it to another task.
LEMMA OneActiveStep ==
    ASSUME TypeInv, OneActiveLeasePerTask, [Next]_vars
    PROVE  OneActiveLeasePerTask'
<1> USE DEF TypeInv, TypeOK
<1>1. ASSUME NEW t \in Task, NEW a \in Agent, NEW l \in Lease, Claim(t, a, l)
      PROVE  OneActiveLeasePerTask'
  <2>1. lease' = [lease EXCEPT ![l] = Granted(t, a)] /\ Granted(t, a).task = t
    BY <1>1 DEF Claim, Granted
  <2>2. \A k \in Lease : ~(Active(k) /\ lease[k].task = t)
    BY <1>1 DEF Claim
  <2>3. QED
    BY <2>1, <2>2 DEF OneActiveLeasePerTask, Active
<1>2. ASSUME \A l \in Lease : lease'[l].status = "active" =>
                 lease[l].status = "active" /\ lease'[l].task = lease[l].task
      PROVE  OneActiveLeasePerTask'
  BY <1>2 DEF OneActiveLeasePerTask, Active
<1>3. ASSUME NEW l \in Lease, NEW status \in {"expired", "released"},
             lease' = [lease EXCEPT ![l] = Dead(l, status)]
      PROVE  OneActiveLeasePerTask'
  <2>1. Dead(l, status).status # "active"
    BY DEF Dead, LeaseRow
  <2>2. QED
    BY <1>2, <1>3, <2>1
<1>4. ASSUME NEW l \in Lease, Renew(l) \/ Age(l) \/ \E b \in Agent : Delegate(l, b)
      PROVE  OneActiveLeasePerTask'
  BY <1>2, <1>4 DEF Renew, Age, Delegate, LeaseRow
<1>5. ASSUME NEW l \in Lease, Release(l)
      PROVE  OneActiveLeasePerTask'
  BY <1>3, <1>5 DEF Release
<1>6. ASSUME NEW h \in Handler, Commit(h)
      PROVE  OneActiveLeasePerTask'
  <2>1. req[h].read.lease # None => req[h].read.lease \in Lease
    BY DEF Request, TaskRow
  <2>2. \/ lease' = lease
        \/ /\ req[h].read.lease \in Lease
           /\ lease' = [lease EXCEPT ![req[h].read.lease] = Dead(req[h].read.lease, "released")]
    BY <1>6, <2>1 DEF Commit
  <2>3. CASE lease' = lease
    BY <1>2, <2>3
  <2>4. CASE lease' # lease
    <3>1. PICK l \in Lease : l = req[h].read.lease
      BY <2>2, <2>4
    <3>2. QED
      BY <1>3, <2>2, <2>4, <3>1
  <2>5. QED
    BY <2>3, <2>4
<1>7. ASSUME NEW s \in Sweeper, FenceExpired(s)
      PROVE  OneActiveLeasePerTask'
  <2>1. CASE lease' = lease
    BY <1>2, <2>1
  <2>2. CASE lease' # lease
    <3>1. PICK l \in Lease : l = sweep[s].lease
      BY <1>7 DEF FenceExpired, SweepWellFormed
    <3>2. QED
      BY <1>3, <1>7, <2>2, <3>1 DEF FenceExpired, Abandon
  <2>3. QED
    BY <2>1, <2>2
<1>8. ASSUME lease' = lease
      PROVE  OneActiveLeasePerTask'
  BY <1>2, <1>8
<1>9. QED
  BY ZenonT(60), <1>1, <1>4, <1>5, <1>6, <1>7, <1>8
     DEF Next, vars, GoStale, Overrun, WorkerRequest, TrustedRequest, ForceRequest, RetryRequest,
         RetryWrite, Read, GiveUp, ScanLease, LoseAgent, SweepStep, ClaimFinalizer, Decide, Persist,
         Finalize, Crash, Abandon

\* A task never has two ACTIVE leases, not even when a request that races a new
\* claim has overwritten the task row (claim_task, uniq_leases_active_per_task).
THEOREM OneActive == Spec => []OneActiveLeasePerTask
<1>1. Init => OneActiveLeasePerTask
  BY DEF Init, OneActiveLeasePerTask, Active, FreeLease
<1>2. TypeInv /\ OneActiveLeasePerTask /\ [Next]_vars => OneActiveLeasePerTask'
  BY OneActiveStep
<1>3. QED
  BY TypeInvInit, TypeInvNext, <1>1, <1>2, PTL DEF Spec

-----------------------------------------------------------------------------
(* The expiry of a lease.  What keeps a carried out expiry from being taken *)
(* up again is that it holds no token: every write of the finalizer columns *)
(* is bound to a token or to an expiry not yet carried out.                 *)

DoneHoldsNoToken == \A l \in Lease : expiry[l].done => expiry[l].token = None

\* Row `new` is a legal successor of row `old` of the finalizer columns.
RowMoves(old, new) ==
    /\ ~old.done
    /\ old.decision # None => new.decision = old.decision
    /\ new.done => new.token = None

\* A step leaves the finalizer columns of a lease alone or moves them on.
LEMMA ExpiryStep ==
    ASSUME TypeInv, DoneHoldsNoToken, [Next]_vars, NEW l \in Lease
    PROVE  expiry'[l] = expiry[l] \/ RowMoves(expiry[l], expiry'[l])
<1>1. expiry \in [Lease -> ExpiryRow] /\ expiry[l] \in ExpiryRow
  BY DEF TypeInv, TypeOK
<1>2. expiry[l].done => expiry[l].token = None
  BY DEF DoneHoldsNoToken
<1>3. CASE expiry' = expiry
  BY <1>3
<1>4. ASSUME NEW s \in Sweeper, ClaimFinalizer(s)
      PROVE  expiry'[l] = expiry[l] \/ RowMoves(expiry[l], expiry'[l])
  <2>1. \/ expiry' = expiry
        \/ /\ ~expiry[sweep[s].lease].done
           /\ expiry' = [expiry EXCEPT ![sweep[s].lease].token = s,
                                       ![sweep[s].lease].stale = FALSE]
    BY <1>4 DEF ClaimFinalizer, Abandon
  <2>2. QED
    BY <1>1, <2>1 DEF RowMoves, ExpiryRow
<1>5. ASSUME NEW s \in Sweeper, Persist(s)
      PROVE  expiry'[l] = expiry[l] \/ RowMoves(expiry[l], expiry'[l])
  <2>1. \/ expiry' = expiry
        \/ /\ expiry[sweep[s].lease].token = s
           /\ expiry[sweep[s].lease].decision = None
           /\ expiry' = [expiry EXCEPT ![sweep[s].lease].decision = sweep[s].decision]
    BY <1>5 DEF Persist, Abandon
  <2>2. s # None
    BY IdsAssumption
  <2>3. QED
    BY <1>1, <1>2, <2>1, <2>2 DEF RowMoves, ExpiryRow
<1>6. ASSUME NEW s \in Sweeper, Finalize(s)
      PROVE  expiry'[l] = expiry[l] \/ RowMoves(expiry[l], expiry'[l])
  <2>1. \/ expiry' = expiry
        \/ /\ ~expiry[sweep[s].lease].done
           /\ expiry' = [expiry EXCEPT ![sweep[s].lease].done = TRUE,
                                       ![sweep[s].lease].token = None,
                                       ![sweep[s].lease].stale = FALSE]
    BY Zenon, <1>6 DEF Finalize, Abandon
  <2>2. QED
    BY SMTT(60), <1>1, <2>1 DEF RowMoves, ExpiryRow
<1>7. ASSUME NEW k \in Lease, GoStale(k) \/ Overrun(k)
      PROVE  expiry'[l] = expiry[l] \/ RowMoves(expiry[l], expiry'[l])
  <2>1. expiry[k].token # None /\ expiry' = [expiry EXCEPT ![k].stale = TRUE]
    BY <1>7 DEF GoStale, Overrun, Finalizing
  <2>2. QED
    BY <1>1, <1>2, <2>1 DEF RowMoves, ExpiryRow
<1>8. QED
  BY ZenonT(60), <1>3, <1>4, <1>5, <1>6, <1>7
     DEF Next, vars, Claim, Renew, Release, Age, Delegate, WorkerRequest, TrustedRequest,
         ForceRequest, RetryRequest, RetryWrite, Read, Commit, GiveUp, ScanLease, LoseAgent,
         SweepStep, FenceExpired, Abandon, Decide, Crash

LEMMA DoneHoldsNoTokenNext ==
    TypeInv /\ DoneHoldsNoToken /\ [Next]_vars => DoneHoldsNoToken'
  BY ExpiryStep DEF DoneHoldsNoToken, RowMoves

\* A lease is granted, and later expired or released, once: a claim draws an
\* unused lease, and the other writers of a status find the lease ACTIVE, or
\* expired and expire it again.
LEMMA StatusStep ==
    ASSUME TypeInv, [Next]_vars, NEW l \in Lease, lease'[l].status # lease[l].status
    PROVE  \/ lease[l].status = "free" /\ lease'[l].status = "active"
           \/ lease[l].status = "active" /\ lease'[l].status \in {"expired", "released"}
<1> DEFINE Goal ==
      \/ lease[l].status = "free" /\ lease'[l].status = "active"
      \/ lease[l].status = "active" /\ lease'[l].status \in {"expired", "released"}
<1>1. lease \in [Lease -> LeaseRow] /\ lease[l] \in LeaseRow
  BY DEF TypeInv, TypeOK
<1>2. lease' # lease
  OBVIOUS
<1>3. ASSUME NEW k \in Lease, NEW status \in {"expired", "released"},
             lease[k].status \in {"active", status}, lease' = [lease EXCEPT ![k] = Dead(k, status)]
      PROVE  Goal
  <2>1. Dead(k, status).status = status
    BY <1>1 DEF Dead, LeaseRow
  <2>2. k = l
    BY <1>1, <1>3
  <2>3. lease'[l].status = status
    BY <1>1, <1>3, <2>1, <2>2
  <2>4. QED
    BY <1>3, <2>2, <2>3
<1>4. ASSUME NEW k \in Lease, NEW t \in Task, NEW a \in Agent, Claim(t, a, k)
      PROVE  Goal
  <2>1. lease[k].status = "free" /\ lease' = [lease EXCEPT ![k] = Granted(t, a)]
    BY <1>4 DEF Claim
  <2>2. Granted(t, a).status = "active"
    BY DEF Granted
  <2>3. QED
    BY <1>1, <2>1, <2>2
<1>5. ASSUME NEW k \in Lease, Renew(k) \/ Age(k) \/ \E b \in Agent : Delegate(k, b)
      PROVE  FALSE
  BY <1>1, <1>5 DEF Renew, Age, Delegate, LeaseRow
<1>6. ASSUME NEW k \in Lease, Release(k)
      PROVE  Goal
  BY <1>3, <1>6 DEF Release, Active
<1>7. ASSUME NEW h \in Handler, Commit(h)
      PROVE  Goal
  <2> DEFINE k == req[h].read.lease
  <2>1. /\ k \in Lease /\ Active(k)
        /\ lease' = [lease EXCEPT ![k] = Dead(k, "released")]
    BY <1>2, <1>7 DEF Commit, TypeInv, TypeOK, Request, TaskRow
  <2> HIDE DEF k
  <2>2. QED
    BY <1>3, <2>1 DEF Active
<1>8. ASSUME NEW s \in Sweeper, FenceExpired(s)
      PROVE  Goal
  <2> DEFINE k == sweep[s].lease
  <2>1. /\ k \in Lease /\ lease[k].status \in {"active", "expired"}
        /\ lease' = [lease EXCEPT ![k] = Dead(k, "expired")]
    BY <1>2, <1>8 DEF FenceExpired, Abandon, TypeInv, SweepWellFormed, Active
  <2> HIDE DEF k
  <2>2. QED
    BY <1>3, <2>1
<1>9. QED
  BY ZenonT(60), <1>2, <1>4, <1>5, <1>6, <1>7, <1>8
     DEF Next, vars, GoStale, Overrun, WorkerRequest, TrustedRequest, ForceRequest, RetryRequest,
         RetryWrite, Read, GiveUp, ScanLease, LoseAgent, SweepStep, ClaimFinalizer, Decide, Persist,
         Finalize, Crash, Abandon

\* A lost lease stays lost, the decision about it is made once, and its expiry is
\* carried out once, whatever crashes, takeovers and overruns do to the sweepers
\* (_expire_leases_page, _claim_lease_expiry_finalization and its callers).
THEOREM ExpiryDurable == Spec => ExpiryIsDurable
<1> DEFINE Durable ==
      \A l \in Lease :
          /\ lease[l].status \in {"expired", "released"} => lease'[l].status = lease[l].status
          /\ expiry[l].decision # None => expiry'[l].decision = expiry[l].decision
          /\ expiry[l].done => expiry'[l] = expiry[l]
<1>1. Init => DoneHoldsNoToken
  BY DEF Init, NoExpiry, DoneHoldsNoToken
<1>2. TypeInv /\ DoneHoldsNoToken /\ [Next]_vars => Durable
  BY ExpiryStep, StatusStep DEF RowMoves
<1>3. TypeInv /\ DoneHoldsNoToken /\ [Next]_vars => [Durable]_vars
  BY <1>2
<1>4. QED
  BY TypeInvInit, TypeInvNext, <1>1, DoneHoldsNoTokenNext, <1>3, PTL
     DEF Spec, ExpiryIsDurable

-----------------------------------------------------------------------------
(* Refunds.  A commit resets the count of a dead task it reopens; that it    *)
(* is the state it read that is dead, and not a newer one, holds because a   *)
(* request that skips the guard on the state never reopens a task.  A retry  *)
(* lowers the count of a task it has read with attempts to give back.        *)

RequestSound ==
    \A h \in Handler :
        /\ req[h].kind = "force" => req[h].target = "completed"
        /\ req[h].kind = "retry" => req[h].read.attempts > 0

LEMMA RequestSoundNext ==
    TypeInv /\ RequestSound /\ [Next]_vars => RequestSound'
<1> SUFFICES ASSUME TypeInv, RequestSound, [Next]_vars PROVE RequestSound'
  OBVIOUS
<1>1. CASE req' = req
  BY <1>1 DEF RequestSound
<1>2. ASSUME NEW h \in Handler, req' = [req EXCEPT ![h] = NoRequest]
      PROVE  RequestSound'
  BY <1>2 DEF RequestSound, TypeInv, TypeOK, NoRequest
<1>3. ASSUME NEW h \in Handler, NEW t \in Task, NEW kind, NEW a, NEW g, Read(h, t, kind, a, g),
             kind = "force" => g = "completed",
             kind = "retry" => task[t].attempts > 0
      PROVE  RequestSound'
  BY <1>3 DEF Read, RequestSound, TypeInv, TypeOK
<1>4. ASSUME NEW h \in Handler, NEW t \in Task, NEW a \in Agent, NEW g \in TaskState,
             WorkerRequest(h, t, a, g)
      PROVE  RequestSound'
  BY <1>3, <1>4 DEF WorkerRequest
<1>5. ASSUME NEW h \in Handler, NEW t \in Task, NEW g \in TaskState, TrustedRequest(h, t, g)
      PROVE  RequestSound'
  BY <1>3, <1>5 DEF TrustedRequest
<1>6. ASSUME NEW h \in Handler, NEW t \in Task, ForceRequest(h, t)
      PROVE  RequestSound'
  BY <1>3, <1>6 DEF ForceRequest
<1>7. ASSUME NEW h \in Handler, NEW t \in Task, RetryRequest(h, t)
      PROVE  RequestSound'
  <2>1. task[t].attempts > 0
    BY <1>7, BoundsAssumption DEF RetryRequest, TypeInv, TypeOK, TaskRow
  <2>2. QED
    BY <1>3, <1>7, <2>1 DEF RetryRequest
<1>8. ASSUME NEW h \in Handler, RetryWrite(h)
      PROVE  RequestSound'
  <2>1. req' \in {req, [req EXCEPT ![h] = NoRequest]}
    BY <1>8, RetryMoves
  <2>2. QED
    BY <1>1, <1>2, <2>1
<1>9. QED
  BY ZenonT(60), <1>1, <1>2, <1>4, <1>5, <1>6, <1>7, <1>8
     DEF Next, vars, Claim, Renew, Release, Age, GoStale, Overrun, Delegate, Commit, GiveUp,
         ScanLease, LoseAgent, SweepStep, FenceExpired, ClaimFinalizer, Decide, Persist, Finalize,
         Crash, Abandon

\* t's count falls in this step, for one of the three causes of CountFallsForCause.
FallsForCause(t) ==
    \/ /\ task[t].state \in {"failed", "cancelled"}
       /\ task'[t].state = "open" /\ task'[t].attempts = 0
    \/ \E l \in Lease : /\ task[t].lease = l
                        /\ ~expiry[l].done /\ expiry'[l].done
    \/ \E h \in Handler :
           /\ req[h].kind = "retry" /\ req[h].task = t /\ req'[h] = NoRequest
           /\ req[h].read.attempts > 0
           /\ task'[t].attempts \in {0, task[t].attempts - 1}

\* A step that lowers a count reopens a dead task, is a finalization or ends a retry.
LEMMA RefundStep ==
    ASSUME TypeInv, RequestSound, [Next]_vars,
           NEW t \in Task, task'[t].attempts < task[t].attempts
    PROVE  FallsForCause(t)
<1>1. task \in [Task -> TaskRow] /\ task[t] \in TaskRow /\ task[t].attempts \in Nat
  BY BoundsAssumption DEF TypeInv, TypeOK, TaskRow
<1>2. task' # task
  BY <1>1
<1>3. ASSUME NEW u \in Task, NEW a \in Agent, NEW l \in Lease, Claim(u, a, l)
      PROVE  FALSE
  <2>1. task'[t].attempts = task[t].attempts \/ task'[t].attempts = task[t].attempts + 1
    BY <1>1, <1>3 DEF Claim, Assigned, TaskRow
  <2>2. QED
    BY <1>1, <2>1
<1>4. ASSUME NEW l \in Lease, Release(l)
      PROVE  FALSE
  <2>1. task'[t].attempts = task[t].attempts
    BY <1>1, <1>4 DEF Release, TaskRow
  <2>2. QED
    BY <1>1, <2>1
<1>5. ASSUME NEW h \in Handler, Commit(h)
      PROVE  FallsForCause(t)
  <2> DEFINE r == req[h]
  <2>1. task' = [task EXCEPT ![r.task] = CommittedTask(r)]
    BY <1>5 DEF Commit
  <2>2. t = r.task /\ task'[t] = CommittedTask(r)
    BY <1>1, <2>1
  <2>3. r.read.state \in {"failed", "cancelled"} /\ r.target = "open"
    BY <1>1, <2>2 DEF CommittedTask
  <2>4. r.kind # "force"
    BY <2>3 DEF RequestSound
  <2>5. task[t].state = r.read.state
    BY <1>5, <2>2, <2>4 DEF Commit, CommitGuard
  <2>6. task'[t].state = "open" /\ task'[t].attempts = 0
    BY <2>2, <2>3 DEF CommittedTask
  <2>7. QED
    BY <2>3, <2>5, <2>6 DEF FallsForCause
<1>6. ASSUME NEW s \in Sweeper, Finalize(s)
      PROVE  FallsForCause(t)
  <2> DEFINE l == sweep[s].lease
             u == lease[l].task
  <2>1. /\ l \in Lease /\ Attached(l) /\ ~expiry[l].done
        /\ \A k \in Task : k # u => task'[k] = task[k]
        /\ expiry' = [expiry EXCEPT ![l].done = TRUE, ![l].token = None, ![l].stale = FALSE]
    BY Zenon, <1>1, <1>2, <1>6 DEF Finalize, Abandon, TypeInv, SweepWellFormed
  <2>2. u = t
    BY <1>1, <2>1
  <2>3. task[t].lease = l
    BY <2>1, <2>2 DEF Attached
  <2>4. expiry'[l].done
    BY <2>1 DEF TypeInv, TypeOK, ExpiryRow
  <2>5. QED
    BY Zenon, <2>1, <2>3, <2>4 DEF FallsForCause
<1>7. ASSUME NEW h \in Handler, RetryWrite(h)
      PROVE  FallsForCause(t)
  <2>1. /\ req[h].kind = "retry" /\ req[h].task = t
        /\ req' = [req EXCEPT ![h] = NoRequest]
        /\ task'[t].attempts \in {0, task[t].attempts - 1}
    BY <1>1, <1>7, RetryMoves
  <2>2. req'[h] = NoRequest /\ req[h].read.attempts > 0
    BY <2>1 DEF RequestSound, TypeInv, TypeOK
  <2>3. QED
    BY <2>1, <2>2 DEF FallsForCause
<1>8. QED
  BY ZenonT(60), <1>2, <1>3, <1>4, <1>5, <1>6, <1>7
     DEF Next, vars, Renew, Age, GoStale, Overrun, Delegate, WorkerRequest, TrustedRequest,
         ForceRequest, RetryRequest, Read, GiveUp, ScanLease, LoseAgent, SweepStep, FenceExpired,
         ClaimFinalizer, Decide, Persist, Crash, Abandon

\* An attempt count falls only when a dead task is reopened, in the step that
\* carries out the expiry of the lease the task is on, which by ExpiryDurable
\* happens once per lease, or as a retry that had attempts to give back ends: no
\* sweeper refunds for a lease the task has left, and no retry twice
\* (_expire_lease_row, _auto_retry_blocked_attempt_task).
THEOREM CountsFallForCause == Spec => CountFallsForCause
<1> DEFINE Falls ==
      \A t \in Task : task'[t].attempts < task[t].attempts => FallsForCause(t)
<1>1. Init => RequestSound
  BY DEF Init, NoRequest, RequestSound
<1>2. TypeInv /\ RequestSound /\ [Next]_vars => [Falls]_vars
  BY RefundStep
<1>3. [][Falls]_vars => CountFallsForCause
  BY DEF FallsForCause, CountFallsForCause
<1>4. QED
  BY TypeInvInit, TypeInvNext, <1>1, RequestSoundNext, <1>2, <1>3, PTL DEF Spec

-----------------------------------------------------------------------------
(* How a lease is orphaned.  A request that writes a task drops the lease it *)
(* read together with its row; what it read is another lease than the task's *)
(* when the task changed hands since, which a worker's fence notices and a   *)
(* comparison of states does not.                                            *)

\* A commit that leaves ACTIVE the lease its task is on, and takes it off the
\* task, is a trusted one that has read another lease.
LEMMA OrphaningCommit ==
    ASSUME TypeInv, NEW h \in Handler, Commit(h), NEW l \in Lease,
           Active(l), Attached(l), lease'[l].status = "active", ~Attached(l)'
    PROVE  /\ req[h].kind \in {"trusted", "force"} /\ req'[h] # req[h]
           /\ req[h].task = lease[l].task /\ req[h].read.lease # l
<1> DEFINE r == req[h]
           t == lease[l].task
<1>1. /\ task \in [Task -> TaskRow] /\ lease \in [Lease -> LeaseRow] /\ r \in Request
      /\ t \in Task /\ task[t].lease = l /\ l # None
  BY IdsAssumption DEF TypeInv, TypeOK, Commit, Attached, LeaseRow
<1>2. /\ task' = [task EXCEPT ![r.task] = CommittedTask(r)]
      /\ r.kind \in {"worker", "trusted", "force"} /\ CommitGuard(r) /\ req'[h] = NoRequest
  BY DEF Commit, TypeInv, TypeOK
<1>3. lease'[l].task = t
  BY <1>1 DEF Commit, Dead, LeaseRow
<1>4. r.task = t
  BY <1>1, <1>2, <1>3 DEF Attached
<1>5. r.read.lease # l
  <2> SUFFICES ASSUME r.read.lease = l PROVE FALSE
    OBVIOUS
  <2>1. CASE r.kind = "force" \/ r.target \in Releasing
    <3>1. lease' = [lease EXCEPT ![l] = Dead(l, "released")]
      BY <1>1, <2>1 DEF Commit
    <3>2. lease'[l].status = "released"
      BY <1>1, <3>1 DEF Dead, LeaseRow
    <3> QED
      BY <3>2
  <2>2. CASE ~(r.kind = "force" \/ r.target \in Releasing)
    <3>1. task'[t].lease = l
      BY <1>1, <1>2, <1>4, <2>2 DEF CommittedTask
    <3> QED
      BY <1>1, <1>3, <3>1 DEF Attached
  <2> QED
    BY <2>1, <2>2
<1>6. r.kind # "worker"
  BY <1>1, <1>2, <1>4, <1>5 DEF CommitGuard, Fence
<1>7. r.kind \in {"trusted", "force"}
  BY <1>2, <1>6
<1>8. QED
  BY <1>2, <1>4, <1>5, <1>7 DEF NoRequest

\* Every other step that takes a lease off its task leaves the lease dead.
LEMMA OrphaningStep ==
    ASSUME TypeInv, [Next]_vars, NEW l \in Lease,
           Active(l), Attached(l), lease'[l].status = "active", ~Attached(l)'
    PROVE  \E h \in Handler : Commit(h)
<1> DEFINE t == lease[l].task
<1>1. /\ task \in [Task -> TaskRow] /\ lease \in [Lease -> LeaseRow]
      /\ t \in Task /\ task[t].lease = l /\ l # None
  BY IdsAssumption DEF TypeInv, TypeOK, Attached, LeaseRow
<1>2. ASSUME task' = task, lease'[l].task = t
      PROVE  FALSE
  BY <1>1, <1>2 DEF Attached
<1>3. ASSUME NEW u \in Task, NEW a \in Agent, NEW k \in Lease, Claim(u, a, k)
      PROVE  FALSE
  <2>1. u # t /\ k # l
    BY <1>1, <1>3 DEF Claim, Active
  <2>2. task'[t] = task[t] /\ lease'[l] = lease[l]
    BY <1>1, <1>3, <2>1 DEF Claim
  <2>3. QED
    BY <1>1, <2>2 DEF Attached
<1>4. ASSUME NEW k \in Lease, Renew(k) \/ Age(k) \/ \E b \in Agent : Delegate(k, b)
      PROVE  FALSE
  <2>1. task' = task /\ lease'[l].task = t
    BY <1>1, <1>4 DEF Renew, Age, Delegate, LeaseRow
  <2>2. QED
    BY <1>2, <2>1
<1>5. ASSUME NEW k \in Lease, Release(k)
      PROVE  FALSE
  <2>1. CASE k = l
    BY <1>1, <1>5, <2>1 DEF Release, Dead, LeaseRow
  <2>2. CASE k # l
    <3>1. lease[k].task # t
      BY <1>1, <1>5, <2>2 DEF Release, Attached
    <3>2. task'[t] = task[t] /\ lease'[l] = lease[l]
      BY <1>1, <1>5, <2>2, <3>1 DEF Release
    <3>3. QED
      BY <1>1, <3>2 DEF Attached
  <2>3. QED
    BY <2>1, <2>2
<1>6. ASSUME NEW s \in Sweeper, FenceExpired(s)
      PROVE  FALSE
  <2>1. task' = task
    BY Zenon, <1>6 DEF FenceExpired, Abandon
  <2>2. \/ lease' = lease
        \/ lease' = [lease EXCEPT ![sweep[s].lease] = Dead(sweep[s].lease, "expired")]
    BY Zenon, <1>6 DEF FenceExpired, Abandon
  <2>3. lease'[l].task = t
    BY <1>1, <2>2 DEF Dead, LeaseRow
  <2>4. QED
    BY <1>2, <2>1, <2>3
<1>7. ASSUME NEW s \in Sweeper, Finalize(s)
      PROVE  FALSE
  <2> DEFINE k == sweep[s].lease
  <2>1. lease' = lease
    BY Zenon, <1>7 DEF Finalize, Abandon
  <2>2. task' # task
    BY <1>2, <2>1
  <2>3. /\ lease[k].status = "expired" /\ Attached(k)
        /\ \A u \in Task : u # lease[k].task => task'[u] = task[u]
    BY Zenon, <1>1, <1>7, <2>2 DEF Finalize, Abandon
  <2>4. lease[k].task # t
    BY <1>1, <2>3 DEF Attached, Active
  <2>5. task'[t] = task[t]
    BY <1>1, <2>3, <2>4
  <2>6. QED
    BY <1>1, <2>1, <2>5 DEF Attached
<1>8. ASSUME NEW h \in Handler, RetryWrite(h)
      PROVE  FALSE
  <2>1. task'[t].lease = l /\ lease' = lease
    BY <1>1, <1>8, RetryMoves
  <2>2. QED
    BY <1>1, <2>1 DEF Attached
<1>9. CASE UNCHANGED <<task, lease>>
  BY <1>2, <1>9
<1>10. QED
  BY ZenonT(60), <1>3, <1>4, <1>5, <1>6, <1>7, <1>8, <1>9
     DEF Next, vars, GoStale, Overrun, WorkerRequest, TrustedRequest, ForceRequest, RetryRequest,
         Read, GiveUp,
         ScanLease, LoseAgent, SweepStep, ClaimFinalizer, Decide, Persist, Crash, Abandon

\* No release, worker, expiry or crash leaves a lease ACTIVE that its task does not
\* point at, for any number of each: only a trusted request does, by writing over
\* an assignment newer than the row it has read (apply_transition, whose UPDATE
\* compares the state alone, and force_complete_task, which compares nothing).
THEOREM OrphansTraced == Spec => OrphanedByStaleRequest
<1> DEFINE Traced ==
      \A l \in Lease :
          /\ Active(l) /\ Attached(l)
          /\ lease'[l].status = "active" /\ ~Attached(l)'
          => \E h \in Handler : /\ req[h].kind \in {"trusted", "force"} /\ req'[h] # req[h]
                                /\ req[h].task = lease[l].task
                                /\ req[h].read.lease # l
<1>1. TypeInv /\ [Next]_vars => Traced
  BY OrphaningStep, OrphaningCommit
<1>2. TypeInv /\ [Next]_vars => [Traced]_vars
  BY <1>1
<1>3. QED
  BY TypeInvInit, TypeInvNext, <1>2, PTL DEF Spec, OrphanedByStaleRequest
=============================================================================
