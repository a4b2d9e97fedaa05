--------------------------- MODULE MCWorkflowRun ---------------------------
(***************************************************************************)
(* A small workflow for TLC: build, a plan node with a timeout, and check, *)
(* an approval that may send the work back to build, once too often.       *)
(***************************************************************************)
EXTENDS WorkflowRun, TLC

CONSTANTS build, check

MCNode == {build, check}

MCEdge ==
    (<<Start, "success">> :> build) @@ (<<build, "success">> :> check)
      @@ (<<build, "failure">> :> build) @@ (<<check, "rejected">> :> build)

MCMaxAttempts == (build :> 1) @@ (check :> 2)

MCEnds == (build :> {"completed", "blocked"}) @@ (check :> {"completed"})
=============================================================================
