--------------------------- MODULE WorkflowPath ---------------------------
(***************************************************************************)
(* What a workflow run promises to the people who read its history: it     *)
(* takes the first node and then only nodes that an edge leads to from a   *)
(* node it took, none more often than the node allows, and once it ended   *)
(* it never moves again.                                                   *)
(*                                                                         *)
(* The edge need not leave the last node: a thread that comes late makes   *)
(* the move of an earlier outcome once more (_advance, lines 645-668).     *)
(* With one attempt for each node nobody can.                              *)
(***************************************************************************)
EXTENDS Naturals, Sequences, FiniteSets

CONSTANTS
    Node,           \* nodes of the workflow
    First,          \* the node its start edge points at
    Succ,           \* [Node -> SUBSET Node], where an edge leads from a node
    MaxAttempts     \* [Node -> Nat], how often the run may take each node

VARIABLES
    state,          \* "none", "running", "completed", "failed" or "cancelled"
    path            \* the nodes taken, in order

vars == <<state, path>>

\* How often the path takes node n.
Taken(n) == Cardinality({i \in DOMAIN path : path[i] = n})

Init == state = "none" /\ path = <<>>

Begin == state = "none" /\ state' = "running" /\ UNCHANGED path

\* The run takes node n: the first one, or one an edge leads to.
Move(n) ==
    /\ state = "running"
    /\ Taken(n) < MaxAttempts[n]
    /\ n = First \/ \E i \in DOMAIN path : n \in Succ[path[i]]
    /\ path' = Append(path, n)
    /\ UNCHANGED state

End ==
    /\ state = "running"
    /\ state' \in {"completed", "failed", "cancelled"}
    /\ UNCHANGED path

Next == Begin \/ (\E n \in Node : Move(n)) \/ End

Spec == Init /\ [][Next]_vars
=============================================================================
