------------------------- MODULE TaskFlightProofs -------------------------
(***************************************************************************)
(* What trusted callers, parking workers and force-complete do not break,  *)
(* though they act on rows read any time ago: a task in flight is under a  *)
(* lease the sweep will find, and a review is about the latest attempt.    *)
(* Both rest on the fence of the workers: of the requests, only a worker's *)
(* puts a task in flight, under the lease it read.                         *)
(***************************************************************************)
EXTENDS TaskLeaseProofs

\* Only workers submit work.  A reviewer's move of a task from reviewing back to
\* needs_review (review_service.py) is not among the trusted requests.
OnlyWorkersSubmit == "needs_review" \notin HeldTargets \cup FreeTargets

UnderReview == {"needs_review", "reviewing"}

-----------------------------------------------------------------------------
(* The inductive invariant.  Requests follow the edges of the state         *)
(* machine; and as long as a task is in flight under the lease a worker's   *)
(* request read, its attempt count is the one the request read, or less     *)
(* after a retry.  The lease may have been lost and the task taken off it   *)
(* and put back on it by trusted callers any number of times in between.    *)

RequestForm ==
    \A h \in Handler :
        LET r == req[h] IN
        /\ r.kind = "force" => r.target = "completed"
        /\ r.kind \in {"worker", "trusted"} => <<r.read.state, r.target>> \in TaskTransition
        /\ r.kind = "trusted" => r.target \in HeldTargets \cup FreeTargets

AttemptFenced ==
    \A h \in Handler :
        LET r == req[h]
            l == r.read.lease
        IN
        r.kind = "worker" =>
            /\ r.read.state \in InFlightTaskState
            /\ l \in Lease
            /\ lease[l].status # "free"
            /\ task[r.task].state \in InFlightTaskState /\ task[r.task].lease = l =>
                  task[r.task].attempts <= r.read.attempts

FenceInv == TypeInv /\ RequestForm /\ AttemptFenced

-----------------------------------------------------------------------------
\* A step leaves a handler's request alone, ends it, or has it read a task.
LEMMA HandlerStep ==
    ASSUME TypeInv, [Next]_vars, NEW h \in Handler
    PROVE  \/ req'[h] = req[h]
           \/ req'[h].kind = "idle"
           \/ \E t \in Task, kind \in {"worker", "trusted", "force", "retry"}, g \in TaskState :
                 /\ req'[h].kind = kind /\ req'[h].task = t
                 /\ req'[h].target = g /\ req'[h].read = task[t]
                 /\ task' = task /\ lease' = lease
                 /\ kind = "force" => g = "completed"
                 /\ kind \in {"worker", "trusted"} => <<task[t].state, g>> \in TaskTransition
                 /\ kind = "trusted" => g \in HeldTargets \cup FreeTargets
                 /\ kind = "worker" => /\ task[t].state \in InFlightTaskState
                                       /\ task[t].lease \in Lease
                                       /\ Active(task[t].lease)
<1> DEFINE Kinds == {"worker", "trusted", "force", "retry"}
           Reads(t, kind, g) ==
              /\ req'[h].kind = kind /\ req'[h].task = t
              /\ req'[h].target = g /\ req'[h].read = task[t]
              /\ task' = task /\ lease' = lease
              /\ kind = "force" => g = "completed"
              /\ kind \in {"worker", "trusted"} => <<task[t].state, g>> \in TaskTransition
              /\ kind = "trusted" => g \in HeldTargets \cup FreeTargets
              /\ kind = "worker" => /\ task[t].state \in InFlightTaskState
                                    /\ task[t].lease \in Lease
                                    /\ Active(task[t].lease)
           Goal == \/ req'[h] = req[h]
                   \/ req'[h].kind = "idle"
                   \/ \E t \in Task, kind \in Kinds, g \in TaskState : Reads(t, kind, g)
<1>1. DOMAIN req = Handler /\ task \in [Task -> TaskRow]
  BY DEF TypeInv, TypeOK
<1>2. ASSUME req' = req
      PROVE  Goal
  BY <1>2
<1>3. ASSUME NEW k \in Handler, Commit(k) \/ GiveUp(k)
      PROVE  Goal
  BY <1>1, <1>3 DEF Commit, GiveUp, NoRequest
<1>retry. ASSUME NEW k \in Handler, RetryWrite(k)
      PROVE  Goal
  <2>1. req' \in {req, [req EXCEPT ![k] = NoRequest]}
    BY <1>retry, RetryMoves
  <2>2. QED
    BY <1>1, <2>1 DEF NoRequest
<1>4. ASSUME NEW k \in Handler, NEW t \in Task, NEW kind, NEW a, NEW g, Read(k, t, kind, a, g)
      PROVE  /\ req'[h] = req[h] \/ k = h
             /\ k = h => /\ req'[h].kind = kind /\ req'[h].task = t
                         /\ req'[h].target = g /\ req'[h].read = task[t]
             /\ task' = task /\ lease' = lease
  BY <1>1, <1>4 DEF Read
<1>5. ASSUME NEW k \in Handler, NEW t \in Task, NEW a \in Agent, NEW g \in TaskState,
             WorkerRequest(k, t, a, g)
      PROVE  Goal
  <2>1. /\ <<task[t].state, g>> \in TaskTransition
        /\ task[t].state \in InFlightTaskState
        /\ task[t].lease \in Lease /\ Active(task[t].lease)
        /\ Read(k, t, "worker", a, g)
    BY <1>1, <1>5 DEF WorkerRequest, TaskRow
  <2>2. req'[h] = req[h] \/ Reads(t, "worker", g)
    BY <1>4, <2>1
  <2>3. QED
    BY <2>2
<1>6. ASSUME NEW k \in Handler, NEW t \in Task, NEW g \in TaskState, TrustedRequest(k, t, g)
      PROVE  Goal
  <2>1. /\ <<task[t].state, g>> \in TaskTransition
        /\ g \in HeldTargets \cup FreeTargets
        /\ Read(k, t, "trusted", None, g)
    BY <1>6 DEF TrustedRequest
  <2>2. req'[h] = req[h] \/ Reads(t, "trusted", g)
    BY <1>4, <2>1
  <2>3. QED
    BY <2>2
<1>7. ASSUME NEW k \in Handler, NEW t \in Task, ForceRequest(k, t)
      PROVE  Goal
  <2>1. req'[h] = req[h] \/ Reads(t, "force", "completed")
    BY <1>4, <1>7 DEF ForceRequest
  <2>2. QED
    BY <2>1 DEF TaskState
<1>rereads. ASSUME NEW k \in Handler, NEW t \in Task, RetryRequest(k, t)
      PROVE  Goal
  <2>1. req'[h] = req[h] \/ Reads(t, "retry", "open")
    BY <1>4, <1>rereads DEF RetryRequest
  <2>2. QED
    BY <2>1 DEF TaskState
<1>8. \/ req' = req
      \/ \E k \in Handler : Commit(k) \/ GiveUp(k)
      \/ \E k \in Handler : RetryWrite(k)
      \/ \E k \in Handler, t \in Task, a \in Agent, g \in TaskState : WorkerRequest(k, t, a, g)
      \/ \E k \in Handler, t \in Task, g \in TaskState : TrustedRequest(k, t, g)
      \/ \E k \in Handler, t \in Task : ForceRequest(k, t)
      \/ \E k \in Handler, t \in Task : RetryRequest(k, t)
  BY ZenonT(60)
     DEF Next, vars, Claim, Renew, Release, Age, GoStale, Overrun, Delegate, ScanLease, LoseAgent,
         SweepStep, FenceExpired, ClaimFinalizer, Decide, Persist, Finalize, Crash, Abandon
<1> HIDE DEF Goal
<1>9. Goal
  BY <1>2, <1>3, <1>retry, <1>5, <1>6, <1>7, <1>rereads, <1>8
<1>10. QED
  BY <1>9 DEF Goal

\* What a finalizer does to a task: nothing, or it takes it out of flight.
LEMMA FinalizeLeaves ==
    ASSUME TypeInv, NEW s \in Sweeper, Finalize(s), NEW t \in Task
    PROVE  task'[t] = task[t] \/ task'[t].state \notin InFlightTaskState \cup UnderReview
<1> DEFINE l == sweep[s].lease
           d == sweep[s].decision
<1>1. d \in Decision
  BY Zenon DEF Finalize, TypeInv, SweepWellFormed
<1>2. task \in [Task -> TaskRow] /\ task[t] \in TaskRow
  BY DEF TypeInv, TypeOK
<1>3. CASE task' = task
  BY <1>3
<1>4. CASE task' # task
  <2>1. task' = [task EXCEPT ![lease[l].task].state = d.target,
                             ![lease[l].task].lease = None,
                             ![lease[l].task].attempts = IF d.attempts = None THEN @
                                                         ELSE d.attempts]
    BY Zenon, <1>4 DEF Finalize, Abandon
  <2>2. task'[t] = task[t] \/ task'[t].state = d.target
    BY ZenonT(60), <1>2, <2>1 DEF TaskRow
  <2>3. QED
    BY <1>1, <2>2 DEF Decision, InFlightTaskState, UnderReview
<1>5. QED
  BY <1>3, <1>4

\* A task that is in flight or under review after a step was so before, with the
\* same row but for what a retry rewrites, or the step claimed it, or a request
\* moved it.
LEMMA TaskStep ==
    ASSUME TypeInv, [Next]_vars, NEW t \in Task,
           task'[t].state \in InFlightTaskState \cup UnderReview
    PROVE  \/ task'[t] = task[t]
           \/ \E a \in Agent, l \in Lease : Claim(t, a, l)
           \/ \E h \in Handler : RetryWrite(h) /\ req[h].task = t
           \/ \E h \in Handler : /\ Commit(h) /\ req[h].task = t
                                 /\ task'[t] = CommittedTask(req[h])
<1> DEFINE Goal ==
      \/ task'[t] = task[t]
      \/ \E a \in Agent, l \in Lease : Claim(t, a, l)
      \/ \E h \in Handler : RetryWrite(h) /\ req[h].task = t
      \/ \E h \in Handler : /\ Commit(h) /\ req[h].task = t
                            /\ task'[t] = CommittedTask(req[h])
<1>1. task \in [Task -> TaskRow] /\ task[t] \in TaskRow
  BY DEF TypeInv, TypeOK
<1>2. CASE task'[t] = task[t]
  BY <1>2
<1>3. ASSUME NEW u \in Task, NEW a \in Agent, NEW l \in Lease, Claim(u, a, l)
      PROVE  Goal
  <2>1. task' = [task EXCEPT ![u] = Assigned(u, l)]
    BY <1>3 DEF Claim
  <2>2. QED
    BY <1>1, <1>3, <2>1
<1>4. ASSUME NEW l \in Lease, Release(l)
      PROVE  Goal
  <2>1. task'[t] = task[t] \/ task'[t].state = "open"
    BY <1>1, <1>4 DEF Release, TaskRow
  <2>2. QED
    BY <2>1 DEF InFlightTaskState, UnderReview
<1>5. ASSUME NEW h \in Handler, Commit(h)
      PROVE  Goal
  <2>1. task' = [task EXCEPT ![req[h].task] = CommittedTask(req[h])]
    BY <1>5 DEF Commit
  <2>2. task'[t] = task[t] \/ (req[h].task = t /\ task'[t] = CommittedTask(req[h]))
    BY <1>1, <2>1
  <2>3. QED
    BY <1>5, <2>2
<1>6. ASSUME NEW s \in Sweeper, Finalize(s)
      PROVE  Goal
  BY <1>6, FinalizeLeaves
<1>7. ASSUME NEW h \in Handler, RetryWrite(h)
      PROVE  Goal
  BY <1>7, RetryMoves
<1>8. QED
  BY ZenonT(60), <1>2, <1>3, <1>4, <1>5, <1>6, <1>7
     DEF Next, vars, Renew, Age, GoStale, Overrun, Delegate, WorkerRequest, TrustedRequest,
         ForceRequest, RetryRequest, Read, GiveUp, ScanLease, LoseAgent, SweepStep, FenceExpired,
         ClaimFinalizer, Decide, Persist, Crash, Abandon

-----------------------------------------------------------------------------
(* A request that puts a task in flight or under review is a worker's        *)
(* submission or start, under the lease and the count it read, or a trusted  *)
(* caller's move of a task already in needs_review to reviewing.             *)
LEMMA CommitKept ==
    ASSUME FenceInv, NEW h \in Handler, Commit(h),
           \/ req[h].target \in InFlightTaskState
           \/ OnlyWorkersSubmit /\ req[h].target \in UnderReview
    PROVE  LET r == req[h] IN
           \/ /\ r.kind = "worker" /\ r.target \in {"running", "needs_review"}
              /\ task[r.task].state \in InFlightTaskState
              /\ task[r.task].lease = r.read.lease
              /\ CommittedTask(r).attempts = task[r.task].attempts
              /\ task[r.task].attempts <= r.read.attempts
           \/ /\ r.target = "reviewing"
              /\ task[r.task].state = "needs_review"
              /\ CommittedTask(r).attempts = task[r.task].attempts
              /\ CommittedTask(r).submitted = task[r.task].submitted
<1> DEFINE r == req[h]
           t == r.task
<1> USE DEF FenceInv
<1>1. r.kind \in {"worker", "trusted"}
  <2>1. r.kind \in {"worker", "trusted", "force"}
    BY DEF Commit
  <2>2. r.kind # "force"
    BY DEF RequestForm, InFlightTaskState, UnderReview
  <2>3. QED
    BY <2>1, <2>2
<1>2. <<r.read.state, r.target>> \in TaskTransition /\ task[t].state = r.read.state
  BY <1>1 DEF RequestForm, Commit, CommitGuard
<1>3. CASE r.kind = "worker"
  <2>1. r.read.state \in InFlightTaskState /\ task[t].lease = r.read.lease
    BY <1>3 DEF AttemptFenced, Commit, CommitGuard, Fence
  <2>2. task[t].attempts <= r.read.attempts
    BY <1>2, <1>3, <2>1 DEF AttemptFenced
  <2>3. r.target \in {"running", "needs_review"}
    BY <1>2, <2>1 DEF TaskTransition, Leave, InFlightTaskState, UnderReview
  <2>4. CommittedTask(r).attempts = task[t].attempts
    BY <2>3 DEF CommittedTask
  <2>5. QED
    BY <1>2, <1>3, <2>1, <2>2, <2>3, <2>4
<1>4. CASE r.kind = "trusted"
  <2>1. r.target = "reviewing"
    BY <1>4, TargetsAssumption DEF RequestForm, OnlyWorkersSubmit, UnderReview
  <2>2. task[t].state = "needs_review"
    BY <1>2, <2>1 DEF TaskTransition, Leave, TaskState
  <2>3. CommittedTask(r).attempts = task[t].attempts
    BY <2>1 DEF CommittedTask
  <2>4. CommittedTask(r).submitted = task[t].submitted
    BY <2>1 DEF CommittedTask, SubmittedAfter, DropsSubmission
  <2>5. QED
    BY <2>1, <2>2, <2>3, <2>4
<1>5. QED
  BY <1>1, <1>3, <1>4

\* What a request carries is fixed when it reads its task.
LEMMA RequestFormNext ==
    ASSUME TypeInv, RequestForm, [Next]_vars
    PROVE  RequestForm'
<1> SUFFICES ASSUME NEW h \in Handler
             PROVE  LET r == req'[h] IN
                    /\ r.kind = "force" => r.target = "completed"
                    /\ r.kind \in {"worker", "trusted"} =>
                          <<r.read.state, r.target>> \in TaskTransition
                    /\ r.kind = "trusted" => r.target \in HeldTargets \cup FreeTargets
  BY DEF RequestForm
<1>1. CASE req'[h] = req[h]
  BY <1>1 DEF RequestForm
<1>2. CASE req'[h].kind = "idle"
  BY <1>2
<1>3. QED
  BY <1>1, <1>2, HandlerStep

\* A task in flight stays under the count it was claimed with until it leaves its
\* lease, and a lease a request has read is never drawn again.
LEMMA AttemptFencedNext ==
    ASSUME FenceInv, [Next]_vars
    PROVE  AttemptFenced'
<1> SUFFICES ASSUME NEW h \in Handler, req'[h].kind = "worker"
             PROVE  LET r == req'[h]
                        l == r.read.lease
                    IN
                    /\ r.read.state \in InFlightTaskState
                    /\ l \in Lease
                    /\ lease'[l].status # "free"
                    /\ task'[r.task].state \in InFlightTaskState /\ task'[r.task].lease = l =>
                          task'[r.task].attempts <= r.read.attempts
  BY DEF AttemptFenced
<1> USE DEF FenceInv
<1> DEFINE r == req'[h]
           l == r.read.lease
           t == r.task
<1>1. CASE req'[h] = req[h]
  <2>1. /\ r.read.state \in InFlightTaskState
        /\ l \in Lease /\ lease[l].status # "free"
        /\ task[t].state \in InFlightTaskState /\ task[t].lease = l =>
              task[t].attempts <= r.read.attempts
    BY <1>1 DEF AttemptFenced
  <2>2. lease'[l].status # "free"
    BY <2>1, StatusStep
  <2>3. t \in Task
    BY <1>1 DEF TypeInv, RequestWellFormed
  <2>4. ASSUME task'[t].state \in InFlightTaskState, task'[t].lease = l
        PROVE  task'[t].attempts <= r.read.attempts
    <3>1. CASE task'[t] = task[t]
      BY <2>1, <2>4, <3>1
    <3>2. ASSUME NEW a \in Agent, NEW k \in Lease, Claim(t, a, k)
          PROVE  FALSE
      <4>1. task'[t].lease = k /\ lease[k].status = "free"
        BY <2>3, <3>2 DEF Claim, Assigned, TypeInv, TypeOK, TaskRow
      <4>2. QED
        BY <2>1, <2>4, <4>1
    <3>retry. ASSUME NEW k \in Handler, RetryWrite(k)
          PROVE  task'[t].attempts <= r.read.attempts
      <4>1. /\ task'[t].state = task[t].state /\ task'[t].lease = task[t].lease
            /\ task'[t].attempts <= task[t].attempts /\ task' \in [Task -> TaskRow]
        BY <2>3, <3>retry, RetryMoves
      <4>2. task[t].attempts \in Nat /\ task'[t].attempts \in Nat /\ r.read.attempts \in Nat
        BY <1>1, <2>3, <4>1, BoundsAssumption DEF TypeInv, TypeOK, TaskRow, Request
      <4>3. QED
        BY <2>1, <2>4, <4>1, <4>2
    <3>3. ASSUME NEW k \in Handler, Commit(k), req[k].task = t,
                 task'[t] = CommittedTask(req[k])
          PROVE  task'[t].attempts <= r.read.attempts
      <4>1. task'[t].state = req[k].target /\ req[k].target \in {"claimed", "running"}
        BY <2>4, <3>3 DEF CommittedTask, InFlightTaskState
      <4>2. /\ req[k].kind = "worker" /\ req[k].target = "running"
            /\ task[t].state \in InFlightTaskState /\ task[t].lease = req[k].read.lease
            /\ task'[t].attempts = task[t].attempts
        BY <3>3, <4>1, CommitKept DEF InFlightTaskState
      <4>3. task'[t].lease = task[t].lease
        BY <3>3, <4>2 DEF CommittedTask, Releasing
      <4>4. QED
        BY <2>1, <2>4, <4>2, <4>3
    <3>4. QED
      BY <2>3, <2>4, <3>1, <3>2, <3>retry, <3>3, TaskStep
  <2>5. QED
    BY <2>1, <2>2, <2>4
<1>2. CASE /\ r.read = task[t] /\ task' = task /\ lease' = lease
           /\ task[t].state \in InFlightTaskState
           /\ task[t].lease \in Lease /\ Active(task[t].lease)
           /\ t \in Task
  <2>1. task[t].attempts \in Nat
    BY <1>2, BoundsAssumption DEF TypeInv, TypeOK, TaskRow
  <2>2. QED
    BY <1>2, <2>1 DEF Active
<1>3. QED
  BY <1>1, <1>2, HandlerStep

LEMMA FenceInvariant == Spec => []FenceInv
<1>1. Init => FenceInv
  BY TypeInvInit DEF Init, FenceInv, RequestForm, AttemptFenced, NoRequest
<1>2. FenceInv /\ [Next]_vars => FenceInv'
  BY TypeInvNext, RequestFormNext, AttemptFencedNext DEF FenceInv
<1>3. QED
  BY <1>1, <1>2, PTL DEF Spec

-----------------------------------------------------------------------------
(* Reviews.                                                                 *)

\* What takes the latest attempt's name off t's submission.
RetryInTheWay(t) ==
    \E h \in Handler :
        /\ req[h].task = t
        /\ \/ req[h].kind = "retry" /\ task'[t].state = task[t].state
           \/ req'[h] # req[h] /\ task[t].attempts < req[h].read.attempts

\* A task enters review by a worker's submission, and stays in it unchanged but
\* for what a retry rewrites.
LEMMA ReviewStep ==
    ASSUME OnlyWorkersSubmit, FenceInv, [Next]_vars, NEW t \in Task,
           NamesLatestAttempt(t), ~NamesLatestAttempt(t)'
    PROVE  RetryInTheWay(t)
<1>1. task'[t].state \in UnderReview /\ task'[t].submitted # task'[t].attempts
  BY DEF NamesLatestAttempt, UnderReview
<1>2. task'[t] # task[t]
  BY <1>1 DEF NamesLatestAttempt, UnderReview
<1>3. ASSUME NEW a \in Agent, NEW l \in Lease, Claim(t, a, l)
      PROVE  FALSE
  <2>1. task'[t].state = "claimed"
    BY <1>3 DEF Claim, Assigned, FenceInv, TypeInv, TypeOK, TaskRow
  <2>2. QED
    BY <1>1, <2>1 DEF UnderReview
<1>4. ASSUME NEW h \in Handler, RetryWrite(h), req[h].task = t
      PROVE  RetryInTheWay(t)
  BY <1>4, RetryMoves DEF RetryInTheWay, FenceInv
<1>5. ASSUME NEW h \in Handler, Commit(h), req[h].task = t, task'[t] = CommittedTask(req[h])
      PROVE  RetryInTheWay(t)
  <2> DEFINE r == req[h]
  <2>1. r.target \in UnderReview /\ task'[t].submitted = SubmittedAfter(r)
    BY <1>1, <1>5 DEF CommittedTask
  <2>2. CASE /\ r.target = "needs_review"
             /\ task[t].attempts <= r.read.attempts /\ task'[t].attempts = task[t].attempts
    <3>1. task'[t].submitted = r.read.attempts
      BY <2>1, <2>2 DEF SubmittedAfter
    <3>2. task[t].attempts \in Nat /\ r.read.attempts \in Nat
      BY BoundsAssumption DEF FenceInv, TypeInv, TypeOK, Request, TaskRow
    <3>3. task[t].attempts < r.read.attempts
      BY <1>1, <2>2, <3>1, <3>2
    <3>4. req'[h] # req[h]
      BY <1>5 DEF Commit, NoRequest, FenceInv, TypeInv, TypeOK
    <3>5. QED
      BY <1>5, <3>3, <3>4 DEF RetryInTheWay
  <2>3. CASE /\ task[t].state = "needs_review" /\ task'[t].attempts = task[t].attempts
             /\ task'[t].submitted = task[t].submitted
    BY <1>1, <2>3 DEF NamesLatestAttempt
  <2>4. QED
    BY <1>5, <2>1, <2>2, <2>3, CommitKept DEF UnderReview, InFlightTaskState
<1>6. QED
  BY <1>1, <1>2, <1>3, <1>4, <1>5, TaskStep DEF FenceInv

\* Only the retry of an earlier block makes the row of a task under review name
\* another attempt than its latest, whatever requests race, force-completions and
\* trusted callers that park or cancel included, as long as only workers move tasks
\* to needs_review: their commit is fenced by the lease they read, a trusted one is
\* bound to the state alone (submit_for_review, _transition_task_impl).
THEOREM ReviewsLatest ==
    ASSUME OnlyWorkersSubmit
    PROVE  Spec => ReviewNamesLatestAttempt
<1> DEFINE Named ==
      \A t \in Task :
          NamesLatestAttempt(t) /\ ~NamesLatestAttempt(t)' => RetryInTheWay(t)
<1>1. FenceInv /\ [Next]_vars => [Named]_vars
  BY ReviewStep
<1>2. [][Named]_vars => ReviewNamesLatestAttempt
  BY DEF RetryInTheWay, ReviewNamesLatestAttempt
<1>3. QED
  BY FenceInvariant, <1>1, <1>2, PTL DEF Spec

-----------------------------------------------------------------------------
(* Tasks in flight.  A lease id belongs to the task it was drawn for, also  *)
(* in the rows a task or a request points at it from.                       *)

DrawnFor(l, t) == lease[l].task = t /\ lease[l].status # "free"

LeasesDrawn ==
    /\ \A t \in Task : task[t].lease # None => DrawnFor(task[t].lease, t)
    /\ \A h \in Handler :
          req[h].kind # "idle" /\ req[h].read.lease # None =>
              DrawnFor(req[h].read.lease, req[h].task)

FreeLeaseOpen == \A l \in Lease : lease[l].status = "free" => ~expiry[l].done

FlightInv == FenceInv /\ LeasesDrawn /\ FreeLeaseOpen /\ InFlightUnderLease

\* A lease that was drawn stays with its task.
LEMMA DrawnForKept ==
    ASSUME TypeInv, [Next]_vars, NEW l \in Lease, NEW t, DrawnFor(l, t)
    PROVE  DrawnFor(l, t)'
<1>1. lease \in [Lease -> LeaseRow]
  BY DEF TypeInv, TypeOK
<1>2. lease'[l].status # "free"
  BY StatusStep DEF DrawnFor
<1>3. ASSUME NEW k, NEW status, lease' = [lease EXCEPT ![k] = Dead(k, status)]
      PROVE  lease'[l].task = lease[l].task
  BY <1>1, <1>3 DEF Dead, LeaseRow
<1>4. ASSUME NEW u \in Task, NEW a \in Agent, NEW k \in Lease, Claim(u, a, k)
      PROVE  lease'[l].task = lease[l].task
  BY <1>1, <1>4 DEF Claim, DrawnFor
<1>5. ASSUME NEW k \in Lease, Renew(k) \/ Age(k) \/ \E b \in Agent : Delegate(k, b)
      PROVE  lease'[l].task = lease[l].task
  BY <1>1, <1>5 DEF Renew, Age, Delegate, LeaseRow
<1>6. ASSUME NEW k \in Lease, Release(k)
      PROVE  lease'[l].task = lease[l].task
  BY <1>3, <1>6 DEF Release
<1>7. ASSUME NEW h \in Handler, Commit(h)
      PROVE  lease'[l].task = lease[l].task
  BY <1>3, <1>7 DEF Commit
<1>8. ASSUME NEW s \in Sweeper, FenceExpired(s)
      PROVE  lease'[l].task = lease[l].task
  BY <1>3, <1>8 DEF FenceExpired, Abandon
<1>9. lease'[l].task = lease[l].task
  BY ZenonT(60), <1>4, <1>5, <1>6, <1>7, <1>8
     DEF Next, vars, GoStale, Overrun, WorkerRequest, TrustedRequest, ForceRequest, RetryRequest,
         RetryWrite, Read, GiveUp, ScanLease, LoseAgent, SweepStep, ClaimFinalizer, Decide, Persist,
         Finalize, Crash, Abandon
<1>10. QED
  BY <1>2, <1>9 DEF DrawnFor

\* A task gets a lease by a claim, or by the commit of a request that read it there.
LEMMA LeaseTaken ==
    ASSUME TypeInv, [Next]_vars, NEW t \in Task
    PROVE  \/ task'[t].lease \in {None, task[t].lease}
           \/ \E a \in Agent, l \in Lease : Claim(t, a, l)
           \/ \E h \in Handler : /\ req[h].kind # "idle" /\ req[h].task = t
                                 /\ task'[t].lease = req[h].read.lease
<1> DEFINE Goal ==
      \/ task'[t].lease \in {None, task[t].lease}
      \/ \E a \in Agent, l \in Lease : Claim(t, a, l)
      \/ \E h \in Handler : /\ req[h].kind # "idle" /\ req[h].task = t
                            /\ task'[t].lease = req[h].read.lease
<1>1. task \in [Task -> TaskRow] /\ task[t] \in TaskRow
  BY DEF TypeInv, TypeOK
<1>2. ASSUME NEW u \in Task, NEW a \in Agent, NEW l \in Lease, Claim(u, a, l)
      PROVE  Goal
  BY <1>1, <1>2 DEF Claim
<1>3. ASSUME NEW l \in Lease, Release(l)
      PROVE  Goal
  BY <1>1, <1>3 DEF Release, TaskRow
<1>4. ASSUME NEW h \in Handler, Commit(h)
      PROVE  Goal
  <2>1. /\ task' = [task EXCEPT ![req[h].task] = CommittedTask(req[h])]
        /\ req[h].kind # "idle"
    BY <1>4 DEF Commit
  <2>2. CASE req[h].task = t
    <3>1. task'[t].lease \in {None, req[h].read.lease}
      BY <1>1, <2>1, <2>2 DEF CommittedTask
    <3>2. QED
      BY <2>1, <2>2, <3>1
  <2>3. CASE req[h].task # t
    BY <1>1, <2>1, <2>3
  <2>4. QED
    BY <2>2, <2>3
<1>5. ASSUME NEW s \in Sweeper, Finalize(s)
      PROVE  Goal
  <2> DEFINE u == lease[sweep[s].lease].task
             d == sweep[s].decision
  <2>1. \/ task' = task
        \/ task' = [task EXCEPT ![u].state = d.target, ![u].lease = None,
                                ![u].attempts = IF d.attempts = None THEN @ ELSE d.attempts]
    BY Zenon, <1>5 DEF Finalize, Abandon
  <2> HIDE DEF u, d
  <2>2. CASE task' = task
    BY <2>2
  <2>3. CASE task' = [task EXCEPT ![u].state = d.target, ![u].lease = None,
                                  ![u].attempts = IF d.attempts = None THEN @ ELSE d.attempts]
    <3>1. u # t => task'[t] = task[t]
      BY <1>1, <2>3
    <3>2. u = t => task'[t].lease = None
      BY ZenonT(60), <1>1, <2>3 DEF TaskRow
    <3>3. QED
      BY <3>1, <3>2
  <2>4. QED
    BY <2>1, <2>2, <2>3
<1>6. ASSUME NEW h \in Handler, RetryWrite(h)
      PROVE  Goal
  BY <1>6, RetryMoves
<1>7. QED
  BY ZenonT(60), <1>2, <1>3, <1>4, <1>5, <1>6
     DEF Next, vars, Renew, Age, GoStale, Overrun, Delegate, WorkerRequest, TrustedRequest,
         ForceRequest, RetryRequest, Read, GiveUp, ScanLease, LoseAgent, SweepStep, FenceExpired,
         ClaimFinalizer, Decide, Persist, Crash, Abandon

LEMMA LeasesDrawnNext ==
    ASSUME FenceInv, LeasesDrawn, [Next]_vars
    PROVE  LeasesDrawn'
<1> USE DEF FenceInv
<1>1. ASSUME NEW t \in Task, task'[t].lease # None
      PROVE  DrawnFor(task[t].lease, t)'
  <2>1. ASSUME NEW l \in Lease, DrawnFor(l, t), task'[t].lease = l
        PROVE  DrawnFor(task[t].lease, t)'
    BY <2>1, DrawnForKept DEF DrawnFor
  <2>2. CASE task'[t].lease = task[t].lease
    <3>1. task[t].lease \in Lease
      BY <1>1, <2>2 DEF TypeInv, TypeOK, TaskRow
    <3>2. QED
      BY <1>1, <2>1, <2>2, <3>1 DEF LeasesDrawn
  <2>3. ASSUME NEW a \in Agent, NEW l \in Lease, Claim(t, a, l)
        PROVE  DrawnFor(task[t].lease, t)'
    <3>1. task'[t].lease = l
      BY <2>3 DEF Claim, Assigned, TypeInv, TypeOK, TaskRow
    <3>2. lease'[l].task = t /\ lease'[l].status = "active"
      BY <2>3 DEF Claim, Granted, TypeInv, TypeOK
    <3>3. QED
      BY <3>1, <3>2 DEF DrawnFor
  <2>4. ASSUME NEW h \in Handler, req[h].kind # "idle", req[h].task = t,
               task'[t].lease = req[h].read.lease
        PROVE  DrawnFor(task[t].lease, t)'
    <3>1. req[h].read.lease \in Lease
      BY <1>1, <2>4 DEF TypeInv, TypeOK, TaskRow, Request
    <3>2. QED
      BY <1>1, <2>1, <2>4, <3>1 DEF LeasesDrawn
  <2>5. QED
    BY <1>1, <2>2, <2>3, <2>4, LeaseTaken
<1>2. ASSUME NEW h \in Handler, req'[h].kind # "idle", req'[h].read.lease # None
      PROVE  DrawnFor(req[h].read.lease, req[h].task)'
  <2>1. CASE req'[h] = req[h]
    <3>1. PICK l \in Lease : l = req[h].read.lease
      BY <1>2, <2>1 DEF TypeInv, TypeOK, TaskRow, Request
    <3>2. PICK t \in Task : t = req[h].task
      BY <1>2, <2>1 DEF TypeInv, RequestWellFormed
    <3>3. DrawnFor(l, t)
      BY <1>2, <2>1, <3>1, <3>2 DEF LeasesDrawn
    <3>4. DrawnFor(l, t)'
      BY <3>3, DrawnForKept
    <3>5. QED
      BY <2>1, <3>1, <3>2, <3>4 DEF DrawnFor
  <2>2. ASSUME NEW t \in Task, req'[h].task = t, req'[h].read = task[t], lease' = lease
        PROVE  DrawnFor(req[h].read.lease, req[h].task)'
    BY <1>2, <2>2 DEF LeasesDrawn, DrawnFor
  <2>3. QED
    BY <1>2, <2>1, <2>2, HandlerStep
<1>3. QED
  BY <1>1, <1>2 DEF LeasesDrawn

\* The step that carries out an expiry takes the lease's task, if the task still
\* points at it, out of flight.
LEMMA DoneStep ==
    ASSUME TypeInv, [Next]_vars, NEW l \in Lease, ~expiry[l].done, expiry'[l].done
    PROVE  /\ lease[l].status = "expired"
           /\ Attached(l) => task'[lease[l].task].state \notin InFlightTaskState
<1>1. expiry \in [Lease -> ExpiryRow] /\ task \in [Task -> TaskRow] /\ lease \in [Lease -> LeaseRow]
  BY DEF TypeInv, TypeOK
<1>2. expiry'[l].done # expiry[l].done
  OBVIOUS
<1>3. ASSUME NEW s \in Sweeper, ClaimFinalizer(s)
      PROVE  FALSE
  <2>1. \/ expiry' = expiry
        \/ expiry' = [expiry EXCEPT ![sweep[s].lease].token = s, ![sweep[s].lease].stale = FALSE]
    BY Zenon, <1>3 DEF ClaimFinalizer, Abandon
  <2>2. QED
    BY <1>1, <1>2, <2>1 DEF ExpiryRow
<1>4. ASSUME NEW s \in Sweeper, Persist(s)
      PROVE  FALSE
  <2>1. \/ expiry' = expiry
        \/ expiry' = [expiry EXCEPT ![sweep[s].lease].decision = sweep[s].decision]
    BY Zenon, <1>4 DEF Persist, Abandon
  <2>2. QED
    BY <1>1, <1>2, <2>1 DEF ExpiryRow
<1>5. ASSUME NEW k \in Lease, GoStale(k) \/ Overrun(k)
      PROVE  FALSE
  BY <1>1, <1>2, <1>5 DEF GoStale, Overrun, ExpiryRow
<1>6. ASSUME NEW s \in Sweeper, Finalize(s)
      PROVE  /\ lease[l].status = "expired"
             /\ Attached(l) => task'[lease[l].task].state \notin InFlightTaskState
  <2> DEFINE k == sweep[s].lease
             d == sweep[s].decision
  <2>1. expiry' # expiry
    BY <1>2
  <2>2. /\ lease[k].status = "expired"
        /\ expiry' = [expiry EXCEPT ![k].done = TRUE, ![k].token = None, ![k].stale = FALSE]
        /\ Attached(k) =>
              task' = [task EXCEPT ![lease[k].task].state = d.target, ![lease[k].task].lease = None,
                                   ![lease[k].task].attempts = IF d.attempts = None THEN @
                                                               ELSE d.attempts]
    BY Zenon, <1>6, <2>1 DEF Finalize, Abandon
  <2>3. k = l
    BY <1>1, <1>2, <2>2
  <2>4. d \in Decision
    BY Zenon, <1>6 DEF Finalize, TypeInv, SweepWellFormed
  <2>5. ASSUME Attached(l) PROVE task'[lease[l].task].state = d.target
    <3>1. lease[l].task \in Task
      BY <1>1, <2>5 DEF Attached, LeaseRow
    <3>2. task' = [task EXCEPT ![lease[l].task].state = d.target, ![lease[l].task].lease = None,
                               ![lease[l].task].attempts = IF d.attempts = None THEN @
                                                           ELSE d.attempts]
      BY <2>2, <2>3, <2>5
    <3>3. QED
      <4> HIDE DEF d
      <4> QED
        BY ZenonT(60), <1>1, <3>1, <3>2 DEF TaskRow
  <2>6. QED
    BY <2>2, <2>3, <2>4, <2>5 DEF Decision, InFlightTaskState
<1>7. QED
  BY ZenonT(60), <1>2, <1>3, <1>4, <1>5, <1>6
     DEF Next, vars, Claim, Renew, Release, Age, Delegate, WorkerRequest, TrustedRequest,
         ForceRequest, RetryRequest, RetryWrite, Read, Commit, GiveUp, ScanLease, LoseAgent,
         SweepStep, FenceExpired, Abandon, Decide, Crash

\* The step that releases a lease takes its task out of flight.
LEMMA ReleasedStep ==
    ASSUME FenceInv, LeasesDrawn, [Next]_vars, NEW l \in Lease,
           lease[l].status # "released", lease'[l].status = "released"
    PROVE  task'[lease[l].task].state \notin InFlightTaskState
<1> USE DEF FenceInv
<1> DEFINE Goal == task'[lease[l].task].state \notin InFlightTaskState
<1>1. lease \in [Lease -> LeaseRow] /\ task \in [Task -> TaskRow]
  BY DEF TypeInv, TypeOK
<1>2. lease[l].status = "active"
  BY StatusStep
<1>3. ASSUME NEW k \in Lease, NEW t \in Task, NEW a \in Agent, Claim(t, a, k)
      PROVE  FALSE
  BY <1>1, <1>3 DEF Claim, Granted
<1>4. ASSUME NEW k \in Lease, Renew(k) \/ Age(k) \/ \E b \in Agent : Delegate(k, b)
      PROVE  FALSE
  BY <1>1, <1>4 DEF Renew, Age, Delegate, LeaseRow
<1>5. ASSUME NEW k \in Lease, Release(k)
      PROVE  Goal
  <2>1. k = l
    BY <1>1, <1>5 DEF Release
  <2>2. lease[l].task \in Task
    BY <1>1, <1>5, <2>1 DEF Release, Attached, LeaseRow
  <2>3. task'[lease[l].task].state = "open"
    BY <1>1, <1>5, <2>1, <2>2 DEF Release, TaskRow
  <2>4. QED
    BY <2>3 DEF InFlightTaskState
<1>6. ASSUME NEW h \in Handler, Commit(h)
      PROVE  Goal
  <2> DEFINE r == req[h]
  <2>1. /\ r.kind = "force" \/ r.target \in Releasing
        /\ r.read.lease = l /\ l # None
    BY <1>1, <1>6, IdsAssumption DEF Commit
  <2>2. r.kind # "idle" /\ r.task = lease[l].task /\ r.task \in Task
    BY <1>6, <2>1 DEF Commit, LeasesDrawn, DrawnFor, TypeInv, RequestWellFormed
  <2>3. task'[r.task] = CommittedTask(r)
    BY <1>1, <1>6, <2>2 DEF Commit
  <2>4. r.target \notin InFlightTaskState
    BY <1>6, <2>1 DEF RequestForm, Releasing, InFlightTaskState
  <2>5. QED
    BY <2>2, <2>3, <2>4 DEF CommittedTask
<1>7. ASSUME NEW s \in Sweeper, FenceExpired(s)
      PROVE  FALSE
  <2> DEFINE k == sweep[s].lease
  <2>1. \/ lease' = lease
        \/ k \in Lease /\ lease' = [lease EXCEPT ![k] = Dead(k, "expired")]
    BY Zenon, <1>7 DEF FenceExpired, Abandon, TypeInv, SweepWellFormed
  <2>2. k \in Lease => Dead(k, "expired").status = "expired"
    BY <1>1 DEF Dead, LeaseRow
  <2> HIDE DEF k
  <2>3. QED
    BY <1>1, <2>1, <2>2
<1>8. QED
  BY ZenonT(60), <1>2, <1>3, <1>4, <1>5, <1>6, <1>7
     DEF Next, vars, GoStale, Overrun, WorkerRequest, TrustedRequest, ForceRequest, RetryRequest,
         RetryWrite, Read, GiveUp, ScanLease, LoseAgent, SweepStep, ClaimFinalizer, Decide, Persist,
         Finalize, Crash, Abandon

\* A task in flight after a step was claimed in it, or keeps the lease it was in
\* flight under, which the step neither releases nor finalizes.
LEMMA FlightStep ==
    ASSUME FlightInv, [Next]_vars
    PROVE  InFlightUnderLease'
<1> USE DEF FlightInv, FenceInv
<1> SUFFICES ASSUME NEW t \in Task, task'[t].state \in InFlightTaskState
             PROVE  \E l \in Lease : /\ task'[t].lease = l /\ lease'[l].task = t
                                     /\ lease'[l].status \in {"active", "expired"}
                                     /\ ~expiry'[l].done
  BY DEF InFlightUnderLease
<1>1. ASSUME NEW a \in Agent, NEW l \in Lease, Claim(t, a, l)
      PROVE  /\ task'[t].lease = l /\ lease'[l].task = t
             /\ lease'[l].status = "active" /\ ~expiry'[l].done
  BY <1>1 DEF Claim, Assigned, Granted, FreeLeaseOpen, TypeInv, TypeOK, TaskRow
<1>2. ASSUME task[t].state \in InFlightTaskState, task'[t].lease = task[t].lease
      PROVE  \E l \in Lease : /\ task'[t].lease = l /\ lease'[l].task = t
                              /\ lease'[l].status \in {"active", "expired"}
                              /\ ~expiry'[l].done
  <2>1. PICK l \in Lease : /\ task[t].lease = l /\ lease[l].task = t
                           /\ lease[l].status \in {"active", "expired"} /\ ~expiry[l].done
    BY <1>2 DEF InFlightUnderLease
  <2>2. Attached(l)
    BY <2>1, IdsAssumption DEF Attached
  <2>3. lease'[l].task = t
    BY <2>1, DrawnForKept DEF DrawnFor
  <2>4. lease'[l].status \in {"active", "expired"}
    BY <2>1, StatusStep, ReleasedStep
  <2>5. ~expiry'[l].done
    BY <2>1, <2>2, DoneStep
  <2>6. QED
    BY <1>2, <2>1, <2>3, <2>4, <2>5
<1>3. CASE task'[t] = task[t]
  BY <1>2, <1>3
<1>4. ASSUME NEW h \in Handler, RetryWrite(h)
      PROVE  task[t].state \in InFlightTaskState /\ task'[t].lease = task[t].lease
  BY <1>4, RetryMoves
<1>5. ASSUME NEW h \in Handler, Commit(h), req[h].task = t, task'[t] = CommittedTask(req[h])
      PROVE  task[t].state \in InFlightTaskState /\ task'[t].lease = task[t].lease
  <2>1. req[h].target \in InFlightTaskState
    BY <1>5 DEF CommittedTask
  <2>2. /\ req[h].kind = "worker" /\ req[h].target = "running"
        /\ task[t].state \in InFlightTaskState /\ task[t].lease = req[h].read.lease
    BY <1>5, <2>1, CommitKept DEF InFlightTaskState
  <2>3. QED
    BY <1>5, <2>2 DEF CommittedTask, Releasing
<1>6. QED
  BY <1>1, <1>2, <1>3, <1>4, <1>5, TaskStep

LEMMA FreeLeaseOpenNext ==
    ASSUME TypeInv, FreeLeaseOpen, [Next]_vars
    PROVE  FreeLeaseOpen'
<1> SUFFICES ASSUME NEW l \in Lease, lease'[l].status = "free"
             PROVE  ~expiry'[l].done
  BY DEF FreeLeaseOpen
<1>1. lease[l].status = "free"
  BY StatusStep
<1>2. QED
  BY <1>1, DoneStep DEF FreeLeaseOpen

\* No task is stranded in flight: whatever trusted callers, force-completions, parked
\* workers and retries write over, a task that is claimed or running is under a lease
\* drawn for it that was not given back and whose expiry is still to come
\* (claim_task, _transition_task_impl, release_lease, _expire_lease_row).
THEOREM FlightUnderLease == Spec => []InFlightUnderLease
<1>1. Init => FlightInv
  BY TypeInvInit
     DEF Init, FlightInv, FenceInv, RequestForm, AttemptFenced, LeasesDrawn, FreeLeaseOpen,
         InFlightUnderLease, NoRequest, NewTask, NoExpiry, InFlightTaskState
<1>2. FlightInv /\ [Next]_vars => FlightInv'
  BY TypeInvNext, RequestFormNext, AttemptFencedNext, LeasesDrawnNext, FreeLeaseOpenNext, FlightStep
     DEF FlightInv, FenceInv
<1>3. FlightInv => InFlightUnderLease
  BY DEF FlightInv
<1>4. QED
  BY <1>1, <1>2, <1>3, PTL DEF Spec
=============================================================================
