------------------------ MODULE TaskOwnershipProofs ------------------------
(***************************************************************************)
(* What the unfenced callers cost.  Were it not for the trusted callers    *)
(* that write a task without checking its lease, the workers that park and *)
(* force-complete (Guarded rules the three out; the code has them), leases *)
(* and tasks would always agree and the ledger would implement exclusive,  *)
(* revocable ownership, for every set of tasks, agents, leases, handlers,  *)
(* sweepers.  What holds with them: TaskLeaseProofs and TaskFlightProofs.   *)
(***************************************************************************)
EXTENDS TaskLeaseProofs

-----------------------------------------------------------------------------
(* The inductive invariant: what a request in flight remembers agrees with  *)
(* itself, though not with the task any more, and a lease id not drawn yet  *)
(* was never finalized.                                                     *)

RequestGuarded ==
    \A h \in Handler :
        LET r == req[h] IN
        r.kind \notin {"idle", "retry"} =>
            /\ r.kind \in {"worker", "trusted"}
            /\ <<r.read.state, r.target>> \in TaskTransition
            /\ r.read.lease # None <=> r.read.state \in InFlightTaskState
            /\ r.kind = "worker" => r.read.lease # None /\ r.target \in WorkerTargets
            /\ r.kind = "trusted" =>
                  r.target \in IF r.read.lease = None THEN FreeTargets ELSE HeldTargets

FreeLeaseUntouched == \A l \in Lease : lease[l].status = "free" => ~expiry[l].done

LedgerInv ==
    /\ TypeInv
    /\ NoOrphanLease
    /\ AttachmentSound
    /\ RequestGuarded
    /\ FreeLeaseUntouched

\* From a state in flight, every edge but the one to running, and parking,
\* gives the lease up.
LEMMA InFlightEdges ==
    ASSUME NEW s \in InFlightTaskState, NEW g \in TaskState, <<s, g>> \in TaskTransition
    PROVE  g \in Releasing \cup {"running", "needs_input"}
  BY DEF InFlightTaskState, TaskTransition, Leave, TaskState, Releasing

\* Two tasks never share a lease.
LEMMA AttachmentUnique ==
    ASSUME AttachmentSound, NEW t \in Task, NEW u \in Task,
           task[t].lease # None, task[t].lease = task[u].lease
    PROVE  t = u
  BY DEF AttachmentSound

\* What a row points at exists.
LEMMA RowsPoint ==
    ASSUME TypeInv
    PROVE  /\ \A t \in Task : task[t].lease # None => task[t].lease \in Lease
           /\ \A l \in Lease : Attached(l) => lease[l].task \in Task
           /\ None \notin Lease \cup Task
  BY IdsAssumption DEF TypeInv, TypeOK, TaskRow, LeaseRow, Attached

\* What a commit does to the task it is about, when trusted callers are guarded.
LEMMA CommitEffect ==
    ASSUME Guarded, LedgerInv, NEW h \in Handler, Commit(h)
    PROVE  LET r == req[h] IN
           /\ r.task \in Task
           /\ task[r.task].lease = r.read.lease
           /\ task' = [task EXCEPT ![r.task] = CommittedTask(r)]
           /\ \/ /\ CommittedTask(r).lease = None
                 /\ CommittedTask(r).state \notin InFlightTaskState
                 /\ lease' = IF r.read.lease # None /\ Active(r.read.lease)
                             THEN [lease EXCEPT ![r.read.lease] =
                                     Dead(r.read.lease, "released")]
                             ELSE lease
              \/ /\ CommittedTask(r).lease = r.read.lease
                 /\ r.read.lease # None
                 /\ CommittedTask(r).state \in InFlightTaskState
                 /\ lease' = lease
<1> DEFINE r == req[h]
           t == r.task
<1>1. /\ r \in Request /\ r.kind \in {"worker", "trusted"}
      /\ t \in Task /\ task[t] \in TaskRow /\ r.target \in TaskState
  BY DEF LedgerInv, TypeInv, TypeOK, RequestWellFormed, RequestGuarded, Commit, Request
<1>2. /\ task[t].state = r.read.state
      /\ ExpectedLease(r) # None => task[t].lease = ExpectedLease(r)
      /\ task' = [task EXCEPT ![t] = CommittedTask(r)]
      /\ lease' = IF r.target \in Releasing /\ r.read.lease # None /\ Active(r.read.lease)
                  THEN [lease EXCEPT ![r.read.lease] = Dead(r.read.lease, "released")]
                  ELSE lease
  BY <1>1 DEF Commit, CommitGuard
<1>3. /\ CommittedTask(r).state = r.target
      /\ CommittedTask(r).lease = IF r.target \in Releasing THEN None ELSE r.read.lease
  BY <1>1 DEF CommittedTask
<1>4. /\ r.read.lease # None <=> r.read.state \in InFlightTaskState
      /\ task[t].lease # None <=> task[t].state \in InFlightTaskState
      /\ <<r.read.state, r.target>> \in TaskTransition
      /\ r.kind = "worker" => r.read.lease # None /\ r.target \in WorkerTargets
      /\ r.kind = "trusted" =>
            r.target \in IF r.read.lease = None THEN FreeTargets ELSE HeldTargets
  BY <1>1 DEF LedgerInv, AttachmentSound, RequestGuarded
<1>5. CASE r.read.lease = None
  <2>1. task[t].lease = None
    BY <1>2, <1>4, <1>5
  <2>2. r.target \notin InFlightTaskState
    BY <1>1, <1>4, <1>5, TargetsAssumption
  <2>3. QED
    BY <1>1, <1>2, <1>3, <1>5, <2>1, <2>2
<1>6. CASE r.read.lease # None
  <2>1. ExpectedLease(r) = r.read.lease
    BY <1>1, <1>4, <1>6 DEF ExpectedLease, Guarded
  <2>2. r.target \in Releasing \cup {"running"}
    <3>1. r.target \in Releasing \cup {"running", "needs_input"}
      BY <1>1, <1>4, <1>6, InFlightEdges
    <3>2. r.target # "needs_input"
      BY <1>1, <1>4, <1>6 DEF Guarded
    <3>3. QED
      BY <3>1, <3>2
  <2>3. CASE r.target \in Releasing
    BY <1>1, <1>2, <1>3, <1>6, <2>1, <2>3 DEF Releasing, InFlightTaskState
  <2>4. CASE r.target = "running"
    BY <1>1, <1>2, <1>3, <1>6, <2>1, <2>4 DEF Releasing, InFlightTaskState
  <2>5. QED
    BY <2>2, <2>3, <2>4
<1>7. QED
  BY <1>5, <1>6

-----------------------------------------------------------------------------
LEMMA LedgerInvInit == Init => LedgerInv
<1> SUFFICES ASSUME Init PROVE LedgerInv
  OBVIOUS
<1>1. TypeInv
  BY TypeInvInit
<1>2. NoOrphanLease /\ AttachmentSound
  BY DEF Init, NoOrphanLease, AttachmentSound, Active, FreeLease, NewTask, InFlightTaskState
<1>3. RequestGuarded /\ FreeLeaseUntouched
  BY DEF Init, RequestGuarded, FreeLeaseUntouched, NoRequest, NoExpiry
<1>4. QED
  BY <1>1, <1>2, <1>3 DEF LedgerInv

\* A lease nothing is attached to may be granted to a task that has none.
LEMMA ClaimStep ==
    ASSUME LedgerInv, NEW t \in Task, NEW a \in Agent, NEW l \in Lease, Claim(t, a, l)
    PROVE  NoOrphanLease' /\ AttachmentSound' /\ FreeLeaseUntouched'
<1> USE DEF LedgerInv, TypeInv, TypeOK
<1>1. /\ lease[l].status = "free" /\ task[t].lease = None /\ ~expiry[l].done
      /\ lease' = [lease EXCEPT ![l] = Granted(t, a)]
      /\ task' = [task EXCEPT ![t] = Assigned(t, l)]
      /\ expiry' = expiry
  BY DEF Claim, FreeLeaseUntouched
<1>2. /\ Granted(t, a).status = "active" /\ Granted(t, a).task = t
      /\ Assigned(t, l).lease = l /\ Assigned(t, l).state = "claimed"
  BY DEF Granted, Assigned, TaskRow
<1>3. NoOrphanLease'
  BY <1>1, <1>2, IdsAssumption DEF NoOrphanLease, Active, Attached, AttachmentSound
<1>4. AttachmentSound'
  BY <1>1, <1>2, IdsAssumption DEF AttachmentSound, InFlightTaskState
<1>5. FreeLeaseUntouched'
  BY <1>1, <1>2 DEF FreeLeaseUntouched
<1>6. QED
  BY <1>3, <1>4, <1>5

\* Steps that change neither a task nor whom a lease is for.
LEMMA RenewalStep ==
    ASSUME LedgerInv, NEW l \in Lease,
           Renew(l) \/ Age(l) \/ \E b \in Agent : Delegate(l, b)
    PROVE  NoOrphanLease' /\ AttachmentSound' /\ FreeLeaseUntouched'
<1>1. /\ task' = task /\ expiry' = expiry
      /\ \A k \in Lease : /\ lease'[k].status = lease[k].status
                          /\ lease'[k].task = lease[k].task
  BY DEF Renew, Age, Delegate, LedgerInv, TypeInv, TypeOK, LeaseRow
<1>2. NoOrphanLease' /\ FreeLeaseUntouched'
  BY <1>1 DEF LedgerInv, NoOrphanLease, FreeLeaseUntouched, Active, Attached
<1>3. AttachmentSound'
  BY <1>1, RowsPoint DEF LedgerInv, AttachmentSound
<1>4. QED
  BY <1>2, <1>3

\* The holder gives a task and its lease back.
LEMMA ReleaseStep ==
    ASSUME LedgerInv, NEW l \in Lease, Release(l)
    PROVE  NoOrphanLease' /\ AttachmentSound' /\ FreeLeaseUntouched'
<1> USE DEF LedgerInv, TypeInv, TypeOK
<1> DEFINE t == lease[l].task
<1>1. t \in Task /\ task[t].lease = l
  BY DEF Release, Attached, LeaseRow
<1>2. /\ expiry' = expiry
      /\ lease' = [lease EXCEPT ![l] = Dead(l, "released")]
      /\ Dead(l, "released").status = "released" /\ Dead(l, "released").task = t
  BY DEF Release, Dead, LeaseRow
<1>3. /\ task'[t].lease = None /\ task'[t].state = "open"
      /\ \A u \in Task \ {t} : task'[u] = task[u]
  BY <1>1 DEF Release, TaskRow
<1>4. \A u \in Task \ {t} : task[u].lease # l
  BY <1>1, AttachmentUnique, IdsAssumption
<1>5. NoOrphanLease'
  <2>1. ASSUME NEW k \in Lease, Active(k)'
        PROVE  k # l /\ Active(k) /\ lease'[k] = lease[k]
    BY <1>2, <2>1 DEF Active
  <2>2. ASSUME NEW k \in Lease, k # l, Active(k)
        PROVE  Attached(k) /\ lease[k].task \in Task \ {t}
    BY <1>1, <2>2, RowsPoint DEF NoOrphanLease, Attached
  <2>3. QED
    BY <1>3, <2>1, <2>2 DEF NoOrphanLease, Attached
<1>6. AttachmentSound'
  BY <1>1, <1>2, <1>3, <1>4, IdsAssumption DEF AttachmentSound, InFlightTaskState
<1>7. FreeLeaseUntouched'
  BY <1>2 DEF FreeLeaseUntouched
<1>8. QED
  BY <1>5, <1>6, <1>7

\* A commit gives a lease up together with the task, or keeps both.
LEMMA CommitStep ==
    ASSUME Guarded, LedgerInv, NEW h \in Handler, Commit(h)
    PROVE  NoOrphanLease' /\ AttachmentSound' /\ FreeLeaseUntouched'
<1> USE DEF LedgerInv, TypeInv, TypeOK
<1> DEFINE r == req[h]
           t == r.task
           l == r.read.lease
<1>1. t \in Task /\ task[t].lease = l /\ expiry' = expiry
  BY CommitEffect DEF Commit
<1>2. \A u \in Task \ {t} : task'[u] = task[u]
  BY <1>1, CommitEffect
<1>3. CASE /\ task'[t].lease = l /\ l # None
           /\ task'[t].state \in InFlightTaskState
           /\ lease' = lease
  <2>1. task[t].state \in InFlightTaskState
    BY <1>1, <1>3 DEF AttachmentSound
  <2>2. \A u \in Task : task'[u].lease = task[u].lease
    BY <1>1, <1>2, <1>3
  <2>3. NoOrphanLease' /\ FreeLeaseUntouched'
    BY <1>1, <1>3, <2>2, RowsPoint
       DEF NoOrphanLease, FreeLeaseUntouched, Active, Attached
  <2>4. AttachmentSound'
    BY <1>1, <1>2, <1>3, <2>1, <2>2 DEF AttachmentSound
  <2>5. QED
    BY <2>3, <2>4
<1>4. CASE /\ task'[t].lease = None
           /\ task'[t].state \notin InFlightTaskState
           /\ lease' = IF l # None /\ Active(l)
                       THEN [lease EXCEPT ![l] = Dead(l, "released")] ELSE lease
  <2>1. \A u \in Task \ {t} : task[u].lease # None => task[u].lease # l
    BY <1>1, AttachmentUnique
  <2>2. l # None => /\ l \in Lease /\ lease[l].task = t
                    /\ Dead(l, "released").status = "released"
                    /\ Dead(l, "released").task = t
    BY <1>1 DEF AttachmentSound, TaskRow, LeaseRow, Dead
  <2>3. \A k \in Lease : /\ lease'[k].task = lease[k].task
                         /\ k # l => lease'[k] = lease[k]
                         /\ lease'[k].status = "free" => lease[k].status = "free"
    BY <1>4, <2>2
  <2>4. \A k \in Lease : Active(k)' => Active(k) /\ k # l
    BY <1>4, <2>2, RowsPoint DEF Active
  <2>5. NoOrphanLease'
    <3>1. \A k \in Lease : Active(k) /\ k # l => Attached(k) /\ lease[k].task # t
      BY <1>1 DEF NoOrphanLease, Attached
    <3>2. \A k \in Lease : Attached(k) /\ lease[k].task # t => lease[k].task \in Task \ {t}
      BY DEF Attached, LeaseRow
    <3>3. QED
      BY <1>2, <2>3, <2>4, <3>1, <3>2 DEF NoOrphanLease, Attached
  <2>6. AttachmentSound'
    <3>1. ASSUME NEW u \in Task \ {t}
          PROVE  task'[u].lease # None =>
                    task[u].lease \in Lease /\ lease'[task[u].lease] = lease[task[u].lease]
      BY <1>2, <2>1, <2>3 DEF TaskRow
    <3>2. QED
      BY <1>1, <1>2, <1>4, <3>1 DEF AttachmentSound
  <2>7. FreeLeaseUntouched'
    BY <1>1, <2>3 DEF FreeLeaseUntouched
  <2>8. QED
    BY <2>5, <2>6, <2>7
<1>5. QED
  BY <1>1, <1>3, <1>4, CommitEffect

\* A sweeper takes a lease's authority away; its task stays attached.
LEMMA FenceStep ==
    ASSUME LedgerInv, NEW s \in Sweeper, FenceExpired(s)
    PROVE  NoOrphanLease' /\ AttachmentSound' /\ FreeLeaseUntouched'
<1> USE DEF LedgerInv, TypeInv, TypeOK
<1> DEFINE l == sweep[s].lease
<1>1. l \in Lease /\ task' = task /\ expiry' = expiry
  BY DEF FenceExpired, Abandon, SweepWellFormed
<1>2. CASE lease' = lease
  BY <1>1, <1>2 DEF NoOrphanLease, AttachmentSound, FreeLeaseUntouched, Active, Attached
<1>3. CASE /\ lease' = [lease EXCEPT ![l] = Dead(l, "expired")]
           /\ Attached(l)
  <2>1. Dead(l, "expired").status = "expired" /\ Dead(l, "expired").task = lease[l].task
    BY <1>1 DEF Dead, LeaseRow
  <2>2. NoOrphanLease' /\ FreeLeaseUntouched'
    BY <1>1, <1>3, <2>1 DEF NoOrphanLease, FreeLeaseUntouched, Active, Attached
  <2>3. AttachmentSound'
    BY <1>1, <1>3, <2>1, RowsPoint DEF AttachmentSound
  <2>4. QED
    BY <2>2, <2>3
<1>4. QED
  BY <1>1, <1>2, <1>3 DEF FenceExpired, Abandon

\* What a finalizer changes: nothing, or it detaches the task of an expired lease,
\* whose expiry is then done.
LEMMA FinalizeEffect ==
    ASSUME LedgerInv, NEW s \in Sweeper, Finalize(s)
    PROVE  LET l == sweep[s].lease
               t == lease[l].task
           IN  /\ l \in Lease /\ lease' = lease
               /\ \/ task' = task /\ expiry' = expiry
                  \/ /\ lease[l].status = "expired"
                     /\ \A k \in Lease \ {l} : expiry'[k].done = expiry[k].done
                     /\ \/ task' = task /\ ~Attached(l)
                        \/ /\ Attached(l) /\ t \in Task
                           /\ task'[t].lease = None
                           /\ task'[t].state \notin InFlightTaskState
                           /\ \A u \in Task \ {t} : task'[u] = task[u]
<1> USE DEF LedgerInv, TypeInv, TypeOK
<1> DEFINE l == sweep[s].lease
           t == lease[l].task
           d == sweep[s].decision
<1>1. l \in Lease /\ d \in Decision /\ lease' = lease
  BY DEF Finalize, Abandon, SweepWellFormed
<1>2. CASE Abandon(s)
  BY <1>1, <1>2 DEF Abandon
<1>3. CASE ~Abandon(s)
  <2>1. /\ lease[l].status = "expired"
        /\ expiry' = [expiry EXCEPT ![l].done = TRUE, ![l].token = None, ![l].stale = FALSE]
        /\ task' = IF ~Attached(l) THEN task
                   ELSE [task EXCEPT ![t].state = d.target, ![t].lease = None,
                                     ![t].attempts = IF d.attempts = None THEN @
                                                     ELSE d.attempts]
    BY ZenonT(60), <1>3 DEF Finalize
  <2>2. \A k \in Lease \ {l} : expiry'[k].done = expiry[k].done
    BY <2>1
  <2>3. CASE ~Attached(l)
    BY Zenon, <1>1, <2>1, <2>2, <2>3
  <2>4. CASE Attached(l)
    <3>1. t \in Task
      BY <1>1, <2>4, RowsPoint
    <3>2. d.target \notin InFlightTaskState
      BY <1>1 DEF Decision, InFlightTaskState
    <3>3. /\ task'[t].lease = None /\ task'[t].state = d.target
          /\ \A u \in Task \ {t} : task'[u] = task[u]
      BY ZenonT(60), <2>1, <2>4, <3>1 DEF TaskRow
    <3>4. QED
      BY Zenon, <1>1, <2>1, <2>2, <2>4, <3>1, <3>2, <3>3
  <2>5. QED
    BY ZenonT(60), <2>3, <2>4
<1>4. QED
  BY ZenonT(60), <1>2, <1>3

LEMMA FinalizeStep ==
    ASSUME LedgerInv, NEW s \in Sweeper, Finalize(s)
    PROVE  NoOrphanLease' /\ AttachmentSound' /\ FreeLeaseUntouched'
<1> USE DEF LedgerInv
<1> DEFINE l == sweep[s].lease
           t == lease[l].task
<1>1. l \in Lease /\ lease' = lease
  BY FinalizeEffect
<1>2. CASE task' = task /\ expiry' = expiry
  BY <1>1, <1>2 DEF NoOrphanLease, AttachmentSound, FreeLeaseUntouched, Active, Attached
<1>3. CASE /\ lease[l].status = "expired"
           /\ \A k \in Lease \ {l} : expiry'[k].done = expiry[k].done
           /\ task' = task /\ ~Attached(l)
  <2>1. \A u \in Task : task[u].lease # None => task[u].lease \in Lease \ {l}
    BY <1>3, RowsPoint DEF AttachmentSound, Attached
  <2>2. AttachmentSound'
    BY <1>1, <1>3, <2>1 DEF AttachmentSound
  <2>3. NoOrphanLease' /\ FreeLeaseUntouched'
    BY <1>1, <1>3 DEF NoOrphanLease, FreeLeaseUntouched, Active, Attached
  <2>4. QED
    BY <2>2, <2>3
<1>4. CASE /\ lease[l].status = "expired"
           /\ \A k \in Lease \ {l} : expiry'[k].done = expiry[k].done
           /\ Attached(l) /\ t \in Task
           /\ task'[t].lease = None
           /\ task'[t].state \notin InFlightTaskState
           /\ \A u \in Task \ {t} : task'[u] = task[u]
  <2>1. \A u \in Task \ {t} : task[u].lease # None => task[u].lease \in Lease \ {l}
    BY <1>4, RowsPoint DEF AttachmentSound
  <2>2. AttachmentSound'
    BY <1>1, <1>4, <2>1 DEF AttachmentSound
  <2>3. NoOrphanLease'
    <3>1. ASSUME NEW k \in Lease, Active(k)
          PROVE  Attached(k) /\ lease[k].task \in Task \ {t}
      BY <1>4, <3>1, RowsPoint DEF NoOrphanLease, Active, Attached
    <3>2. QED
      BY <1>1, <1>4, <3>1 DEF NoOrphanLease, Active, Attached
  <2>4. FreeLeaseUntouched'
    BY <1>1, <1>4 DEF FreeLeaseUntouched
  <2>5. QED
    BY <2>2, <2>3, <2>4
<1>5. QED
  BY <1>2, <1>3, <1>4, FinalizeEffect

\* Steps that leave tasks and leases, and what is done of an expiry, alone.
LEMMA QuietStep ==
    ASSUME LedgerInv, task' = task, lease' = lease,
           \A l \in Lease : expiry'[l].done = expiry[l].done
    PROVE  NoOrphanLease' /\ AttachmentSound' /\ FreeLeaseUntouched'
<1>1. NoOrphanLease' /\ FreeLeaseUntouched'
  BY DEF LedgerInv, NoOrphanLease, FreeLeaseUntouched, Active, Attached
<1>2. AttachmentSound'
  BY RowsPoint DEF LedgerInv, AttachmentSound
<1>3. QED
  BY <1>1, <1>2

-----------------------------------------------------------------------------
\* A request remembers a task row as it was when the row was sound.
LEMMA RequestStep ==
    ASSUME Guarded, LedgerInv, [Next]_vars
    PROVE  RequestGuarded'
<1> USE DEF LedgerInv, TypeInv, TypeOK
<1>1. ASSUME req' = req
      PROVE  RequestGuarded'
  BY <1>1 DEF RequestGuarded
<1>2. ASSUME NEW h \in Handler, req' = [req EXCEPT ![h] = NoRequest]
      PROVE  RequestGuarded'
  BY <1>2 DEF RequestGuarded, NoRequest
<1>3. ASSUME NEW h \in Handler, NEW t \in Task, NEW a \in Agent, NEW g \in TaskState,
             WorkerRequest(h, t, a, g)
      PROVE  RequestGuarded'
  BY <1>3 DEF WorkerRequest, Read, RequestGuarded, AttachmentSound
<1>4. ASSUME NEW h \in Handler, NEW t \in Task, NEW g \in TaskState, TrustedRequest(h, t, g)
      PROVE  RequestGuarded'
  BY <1>4 DEF TrustedRequest, Read, RequestGuarded, AttachmentSound
<1>5. ~ \E h \in Handler, t \in Task : ForceRequest(h, t)
  BY DEF ForceRequest, Guarded
<1>6. ASSUME NEW h \in Handler, NEW t \in Task, RetryRequest(h, t)
      PROVE  RequestGuarded'
  BY <1>6 DEF RetryRequest, Read, RequestGuarded
<1>7. ASSUME NEW h \in Handler, RetryWrite(h)
      PROVE  RequestGuarded'
  <2>1. req' \in {req, [req EXCEPT ![h] = NoRequest]}
    BY <1>7, RetryMoves
  <2>2. QED
    BY <1>1, <1>2, <2>1
<1>8. QED
  BY ZenonT(60), <1>1, <1>2, <1>3, <1>4, <1>5, <1>6, <1>7
     DEF Next, vars, Claim, Renew, Release, Age, GoStale, Overrun, Delegate, Commit, GiveUp,
         ScanLease, LoseAgent, SweepStep, FenceExpired, ClaimFinalizer, Decide, Persist,
         Finalize, Crash, Abandon

\* The UPDATEs of a retry touch neither a lease nor a state.
LEMMA RetryStep ==
    ASSUME LedgerInv, NEW h \in Handler, RetryWrite(h)
    PROVE  NoOrphanLease' /\ AttachmentSound' /\ FreeLeaseUntouched'
<1>1. /\ \A t \in Task : task'[t].state = task[t].state /\ task'[t].lease = task[t].lease
      /\ lease' = lease /\ expiry' = expiry
  BY RetryMoves DEF LedgerInv
<1>2. NoOrphanLease' /\ FreeLeaseUntouched'
  BY <1>1, RowsPoint DEF LedgerInv, NoOrphanLease, FreeLeaseUntouched, Active, Attached
<1>3. AttachmentSound'
  BY <1>1, RowsPoint DEF LedgerInv, AttachmentSound
<1>4. QED
  BY <1>2, <1>3

LEMMA LedgerInvNext == Guarded /\ LedgerInv /\ [Next]_vars => LedgerInv'
<1> SUFFICES ASSUME Guarded, LedgerInv, [Next]_vars PROVE LedgerInv'
  OBVIOUS
<1>1. TypeInv' /\ RequestGuarded'
  BY TypeInvNext, RequestStep DEF LedgerInv
<1>2. ASSUME task' = task, lease' = lease, expiry' = expiry
      PROVE  NoOrphanLease' /\ AttachmentSound' /\ FreeLeaseUntouched'
  BY <1>2, QuietStep
<1>3. ASSUME NEW s \in Sweeper, ClaimFinalizer(s) \/ Persist(s)
      PROVE  NoOrphanLease' /\ AttachmentSound' /\ FreeLeaseUntouched'
  <2>1. task' = task /\ lease' = lease
    BY <1>3 DEF ClaimFinalizer, Persist, Abandon
  <2>2. \A l \in Lease : expiry'[l].done = expiry[l].done
    BY SMTT(60), <1>3 DEF ClaimFinalizer, Persist, Abandon, LedgerInv, TypeInv, TypeOK, ExpiryRow
  <2>3. QED
    BY <2>1, <2>2, QuietStep
<1>4. ASSUME NEW l \in Lease, GoStale(l) \/ Overrun(l)
      PROVE  NoOrphanLease' /\ AttachmentSound' /\ FreeLeaseUntouched'
  <2>1. \A k \in Lease : expiry'[k].done = expiry[k].done
    BY <1>4 DEF GoStale, Overrun, LedgerInv, TypeInv, TypeOK, ExpiryRow
  <2>2. QED
    BY <1>4, <2>1, QuietStep DEF GoStale, Overrun
<1>5. NoOrphanLease' /\ AttachmentSound' /\ FreeLeaseUntouched'
  <2>1. CASE \/ \E h \in Handler, t \in Task, a \in Agent, g \in TaskState :
                   WorkerRequest(h, t, a, g)
             \/ \E h \in Handler, t \in Task, g \in TaskState : TrustedRequest(h, t, g)
             \/ \E h \in Handler, t \in Task : ForceRequest(h, t) \/ RetryRequest(h, t)
             \/ \E h \in Handler : GiveUp(h)
             \/ \E s \in Sweeper, l \in Lease : ScanLease(s, l) \/ LoseAgent(s, l)
             \/ \E s \in Sweeper : Decide(s) \/ Crash(s)
             \/ UNCHANGED vars
    <3>1. task' = task /\ lease' = lease /\ expiry' = expiry
      BY ZenonT(60), <2>1
         DEF WorkerRequest, TrustedRequest, ForceRequest, RetryRequest, Read, GiveUp, ScanLease,
                  LoseAgent, Decide, Crash, vars
    <3>2. QED
      BY <1>2, <3>1
  <2>2. CASE \/ \E t \in Task, a \in Agent, l \in Lease : Claim(t, a, l)
             \/ \E l \in Lease : Renew(l) \/ Release(l) \/ Age(l)
             \/ \E l \in Lease, b \in Agent : Delegate(l, b)
    BY <2>2, ClaimStep, RenewalStep, ReleaseStep
  <2>3. CASE \E h \in Handler : Commit(h) \/ RetryWrite(h)
    BY <2>3, CommitStep, RetryStep
  <2>4. CASE \E s \in Sweeper : FenceExpired(s) \/ Finalize(s)
    BY <2>4, FenceStep, FinalizeStep
  <2>5. QED
    BY <1>3, <1>4, <2>1, <2>2, <2>3, <2>4 DEF Next, SweepStep
<1>6. QED
  BY <1>1, <1>5 DEF LedgerInv

LEMMA LedgerInvariant ==
    ASSUME Guarded
    PROVE  Spec => []LedgerInv
<1>1. LedgerInv /\ [Next]_vars => LedgerInv'
  BY LedgerInvNext
<1>2. QED
  BY LedgerInvInit, <1>1, PTL DEF Spec

\* Every ACTIVE lease is the one its task points at: no lease that keeps a task
\* from being claimed is out of reach of the sweep, which only expires leases
\* attached to a task (_expire_lease_row).
LEMMA NoOrphan ==
    ASSUME Guarded
    PROVE  Spec => []NoOrphanLease
<1>1. LedgerInv => NoOrphanLease
  BY DEF LedgerInv
<1>2. QED
  BY LedgerInvariant, <1>1, PTL

\* Exactly the tasks in flight have a lease; it was granted for them, was not
\* given back and its expiry is not done (claim_task, _transition_task_impl,
\* release_lease, _expire_lease_row).
LEMMA Attachments ==
    ASSUME Guarded
    PROVE  Spec => []AttachmentSound
<1>1. LedgerInv => AttachmentSound
  BY DEF LedgerInv
<1>2. QED
  BY LedgerInvariant, <1>1, PTL

-----------------------------------------------------------------------------
(* Refinement of TaskOwnership.                                             *)

LEMMA OwnershipInit == Init => Ownership!Init
  BY DEF Init, Ownership!Init, NewTask, FreeLease, Active

\* A step that detaches nothing and keeps who is live and spent is a stutter.
LEMMA OwnershipStutter ==
    ASSUME \A t \in Task : task'[t].lease = task[t].lease,
           \A l \in Lease : /\ lease'[l].status = "active" <=> lease[l].status = "active"
                            /\ lease'[l].status = "free" <=> lease[l].status = "free"
    PROVE  UNCHANGED Ownership!vars
<1>1. [t \in Task |-> task[t].lease]' = [t \in Task |-> task[t].lease]
  OBVIOUS
<1>2. {l \in Lease : Active(l)}' = {l \in Lease : Active(l)}
  BY DEF Active
<1>3. {l \in Lease : lease[l].status # "free"}' = {l \in Lease : lease[l].status # "free"}
  OBVIOUS
<1>4. QED
  BY <1>1, <1>2, <1>3 DEF Ownership!vars

\* A step that takes the lease from task t, and from it whatever it allowed.
LEMMA OwnershipDetach ==
    ASSUME NEW t \in Task, task[t].lease # None, task'[t].lease = None,
           \A u \in Task \ {t} : task'[u].lease = task[u].lease,
           \A l \in Lease : /\ lease'[l].status = "active" <=>
                                 lease[l].status = "active" /\ l # task[t].lease
                            /\ lease'[l].status = "free" <=> lease[l].status = "free"
    PROVE  Ownership!Detach(t)
<1>1. [u \in Task |-> task[u].lease]' =
        [[u \in Task |-> task[u].lease] EXCEPT ![t] = None]
  OBVIOUS
<1>2. {l \in Lease : Active(l)}' = {l \in Lease : Active(l)} \ {task[t].lease}
  BY DEF Active
<1>3. {l \in Lease : lease[l].status # "free"}' = {l \in Lease : lease[l].status # "free"}
  OBVIOUS
<1>4. QED
  BY <1>1, <1>2, <1>3 DEF Ownership!Detach

LEMMA OwnershipStep ==
    ASSUME Guarded, LedgerInv, [Next]_vars
    PROVE  [Ownership!Next]_(Ownership!vars)
<1> USE DEF LedgerInv, TypeInv, TypeOK
<1>1. ASSUME task' = task, lease' = lease
      PROVE  UNCHANGED Ownership!vars
  BY <1>1, OwnershipStutter
<1>2. ASSUME NEW t \in Task, NEW a \in Agent, NEW l \in Lease, Claim(t, a, l)
      PROVE  Ownership!Grant(t, l)
  <2>1. /\ lease[l].status = "free" /\ task[t].lease = None
        /\ lease' = [lease EXCEPT ![l] = Granted(t, a)] /\ Granted(t, a).status = "active"
        /\ task' = [task EXCEPT ![t] = Assigned(t, l)] /\ Assigned(t, l).lease = l
    BY <1>2 DEF Claim, Granted, Assigned, TaskRow
  <2>2. [u \in Task |-> task[u].lease]' = [[u \in Task |-> task[u].lease] EXCEPT ![t] = l]
    BY <2>1
  <2>3. {k \in Lease : Active(k)}' = {k \in Lease : Active(k)} \cup {l}
    BY <2>1 DEF Active
  <2>4. {k \in Lease : lease[k].status # "free"}'
          = {k \in Lease : lease[k].status # "free"} \cup {l}
    BY <2>1
  <2>5. QED
    BY <2>1, <2>2, <2>3, <2>4 DEF Ownership!Grant
<1>3. ASSUME NEW l \in Lease, Renew(l) \/ Age(l) \/ \E b \in Agent : Delegate(l, b)
      PROVE  UNCHANGED Ownership!vars
  <2>1. task' = task /\ \A k \in Lease : lease'[k].status = lease[k].status
    BY <1>3 DEF Renew, Age, Delegate, LeaseRow
  <2>2. QED
    BY <2>1, OwnershipStutter
<1>4. ASSUME NEW l \in Lease, Release(l)
      PROVE  \E t \in Task : Ownership!Detach(t)
  <2>1. PICK t \in Task : t = lease[l].task /\ task[t].lease = l /\ l # None
    BY <1>4, RowsPoint DEF Release, Attached
  <2>2. /\ lease' = [lease EXCEPT ![l] = Dead(l, "released")]
        /\ Dead(l, "released").status = "released" /\ lease[l].status = "active"
    BY <1>4 DEF Release, Dead, LeaseRow, Active
  <2>3. task'[t].lease = None /\ \A u \in Task \ {t} : task'[u] = task[u]
    BY <1>4, <2>1 DEF Release, TaskRow
  <2>4. Ownership!Detach(t)
    BY <2>1, <2>2, <2>3, OwnershipDetach
  <2>5. QED
    BY <2>1, <2>4
<1>5. ASSUME NEW h \in Handler, Commit(h)
      PROVE  UNCHANGED Ownership!vars \/ \E t \in Task : Ownership!Detach(t)
  <2> DEFINE l == req[h].read.lease
  <2>1. PICK t \in Task : /\ t = req[h].task /\ task[t].lease = l
                         /\ \A u \in Task \ {t} : task'[u] = task[u]
    BY <1>5, CommitEffect
  <2>2. CASE task'[t].lease = l /\ lease' = lease
    <3>1. \A u \in Task : task'[u].lease = task[u].lease
      BY <2>1, <2>2
    <3>2. QED
      BY <2>2, <3>1, OwnershipStutter
  <2>3. CASE /\ task'[t].lease = None /\ l # None
             /\ lease' = IF Active(l)
                         THEN [lease EXCEPT ![l] = Dead(l, "released")] ELSE lease
    <3>1. /\ l \in Lease /\ Dead(l, "released").status = "released"
          /\ lease[l].status # "free"
      BY <2>1, <2>3, RowsPoint DEF AttachmentSound, Dead, LeaseRow
    <3>2. \A k \in Lease : /\ lease'[k].status = "active" <=>
                                 lease[k].status = "active" /\ k # l
                           /\ lease'[k].status = "free" <=> lease[k].status = "free"
      BY <2>3, <3>1 DEF Active
    <3>3. Ownership!Detach(t)
      BY <2>1, <2>3, <3>2, OwnershipDetach
    <3>4. QED
      BY <2>1, <3>3
  <2>4. QED
    BY <1>5, <2>1, <2>2, <2>3, CommitEffect
<1>6. ASSUME NEW s \in Sweeper, FenceExpired(s)
      PROVE  UNCHANGED Ownership!vars \/ \E l \in Lease : Ownership!Revoke(l)
  <2> DEFINE l == sweep[s].lease
  <2>1. l \in Lease /\ task' = task
    BY <1>6 DEF FenceExpired, Abandon, SweepWellFormed
  <2>2. CASE lease' = lease
    BY <1>1, <2>1, <2>2
  <2>3. CASE /\ lease' = [lease EXCEPT ![l] = Dead(l, "expired")]
             /\ lease[l].status \in {"active", "expired"}
    <3>1. Dead(l, "expired").status = "expired"
      BY <2>1 DEF Dead, LeaseRow
    <3>2. CASE lease[l].status = "expired"
      <4>1. \A k \in Lease : lease'[k].status = lease[k].status
        BY <2>1, <2>3, <3>1, <3>2
      <4>2. QED
        BY <2>1, <4>1, OwnershipStutter
    <3>3. CASE lease[l].status = "active"
      <4>1. {k \in Lease : Active(k)}' = {k \in Lease : Active(k)} \ {l}
        BY <2>1, <2>3, <3>1 DEF Active
      <4>2. {k \in Lease : lease[k].status # "free"}' = {k \in Lease : lease[k].status # "free"}
        BY <2>1, <2>3, <3>1, <3>3
      <4>3. [u \in Task |-> task[u].lease]' = [u \in Task |-> task[u].lease]
        BY <2>1
      <4>4. Ownership!Revoke(l)
        BY <2>1, <3>3, <4>1, <4>2, <4>3 DEF Ownership!Revoke, Active
      <4>5. QED
        BY <2>1, <4>4
    <3>4. QED
      BY <2>3, <3>2, <3>3
  <2>4. QED
    BY <1>6, <2>2, <2>3 DEF FenceExpired, Abandon, Active
<1>7. ASSUME NEW s \in Sweeper, Finalize(s)
      PROVE  UNCHANGED Ownership!vars \/ \E t \in Task : Ownership!Detach(t)
  <2> DEFINE l == sweep[s].lease
  <2>1. l \in Lease /\ lease' = lease
    BY <1>7, FinalizeEffect
  <2>2. CASE task' = task
    BY <1>1, <2>1, <2>2
  <2>3. CASE /\ lease[l].status = "expired"
             /\ Attached(l) /\ lease[l].task \in Task
             /\ task'[lease[l].task].lease = None
             /\ \A u \in Task \ {lease[l].task} : task'[u] = task[u]
    <3>1. PICK t \in Task : t = lease[l].task /\ task[t].lease = l /\ l # None
      BY <2>1, <2>3, RowsPoint DEF Attached
    <3>2. Ownership!Detach(t)
      BY <2>1, <2>3, <3>1, OwnershipDetach
    <3>3. QED
      BY <2>3, <3>2
  <2>4. QED
    BY <1>7, <2>2, <2>3, FinalizeEffect
<1>8. CASE \/ \E h \in Handler, t \in Task, a \in Agent, g \in TaskState :
                WorkerRequest(h, t, a, g)
           \/ \E h \in Handler, t \in Task, g \in TaskState : TrustedRequest(h, t, g)
           \/ \E h \in Handler, t \in Task : ForceRequest(h, t) \/ RetryRequest(h, t)
           \/ \E h \in Handler : GiveUp(h)
           \/ \E s \in Sweeper, l \in Lease : ScanLease(s, l) \/ LoseAgent(s, l)
           \/ \E s \in Sweeper : ClaimFinalizer(s) \/ Decide(s) \/ Persist(s) \/ Crash(s)
           \/ \E l \in Lease : GoStale(l) \/ Overrun(l)
           \/ UNCHANGED vars
  <2>1. task' = task /\ lease' = lease
    BY ZenonT(60), <1>8
       DEF WorkerRequest, TrustedRequest, ForceRequest, RetryRequest, Read, GiveUp, ScanLease,
                LoseAgent, ClaimFinalizer, Decide, Persist, Crash, Abandon, GoStale, Overrun, vars
  <2>2. QED
    BY <1>1, <2>1
<1>9. ASSUME NEW h \in Handler, RetryWrite(h)
      PROVE  UNCHANGED Ownership!vars
  BY <1>9, RetryMoves, OwnershipStutter
<1>10. QED
  BY <1>2, <1>3, <1>4, <1>5, <1>6, <1>7, <1>8, <1>9 DEF Next, SweepStep, Ownership!Next

\* The ledger implements exclusive, revocable ownership of tasks: a task is held
\* under one lease, granted once, and free again only when that lease is dead.
LEMMA OwnershipRefined ==
    ASSUME Guarded
    PROVE  Spec => OwnershipSpec
<1>1. LedgerInv /\ [Next]_vars => [Ownership!Next]_(Ownership!vars)
  BY OwnershipStep
<1>2. QED
  BY OwnershipInit, LedgerInvariant, <1>1, PTL DEF Spec, OwnershipSpec, Ownership!Spec
=============================================================================
