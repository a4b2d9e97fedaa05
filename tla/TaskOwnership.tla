--------------------------- MODULE TaskOwnership ---------------------------
(***************************************************************************)
(* What the lease ledger promises about tasks: exclusive, revocable        *)
(* ownership.  A task is held under at most one lease; a lease is granted  *)
(* once, to a free task; its authority may be revoked at any time and does *)
(* not come back; a task is free again only when the lease it was held     *)
(* under is no longer live.                                                *)
(***************************************************************************)
CONSTANTS Task, Lease, None

VARIABLES holder,  \* the lease a task is held under, or None
          live,    \* the leases whose bearer may write
          spent    \* the leases ever granted

vars == <<holder, live, spent>>

Init ==
    /\ holder = [t \in Task |-> None]
    /\ live = {}
    /\ spent = {}

Grant(t, l) ==
    /\ holder[t] = None
    /\ l \notin spent
    /\ holder' = [holder EXCEPT ![t] = l]
    /\ live' = live \cup {l}
    /\ spent' = spent \cup {l}

Revoke(l) ==
    /\ l \in live
    /\ live' = live \ {l}
    /\ UNCHANGED <<holder, spent>>

\* The task goes back, and with it whatever authority its lease still had.
Detach(t) ==
    /\ holder[t] # None
    /\ live' = live \ {holder[t]}
    /\ holder' = [holder EXCEPT ![t] = None]
    /\ UNCHANGED spent

Next ==
    \/ \E t \in Task, l \in Lease : Grant(t, l)
    \/ \E l \in Lease : Revoke(l)
    \/ \E t \in Task : Detach(t)

Spec == Init /\ [][Next]_vars
=============================================================================
