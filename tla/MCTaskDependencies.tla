------------------------- MODULE MCTaskDependencies -------------------------
(***************************************************************************)
(* A small graph for TLC: child, mid behind it, top - an integration       *)
(* parent - behind it, aside, which follows either into cancellation, and   *)
(* spare, which may supersede child.                                       *)
(***************************************************************************)
EXTENDS TaskDependencies, TLC

CONSTANTS child, mid, top, aside, spare

MCTask == {child, mid, top, aside, spare}

MCNeeds ==
    (child :> {}) @@ (mid :> {child}) @@ (top :> {mid})
      @@ (aside :> {child, top}) @@ (spare :> {})

MCMaxAttempts == [t \in MCTask |-> IF t = mid THEN 2 ELSE 1]
=============================================================================
