---------------------------- MODULE MCFrontend ----------------------------
(* The frontends over runs of two visits, in both terminals.       *)
EXTENDS Frontend

MCNodes == {1, 2}
Pass(n) == [node |-> n, asks |-> FALSE]
Pause(n) == [node |-> n, asks |-> TRUE]
Plan(steps, front, deadline) == [steps |-> steps, front |-> front, deadline |-> deadline]
MCPlans ==
    {Plan(<<Pause(1), Pause(2)>>, front, FALSE) : front \in {"tui", "cli"}}
    \cup {Plan(<<Pass(1), Pause(1)>>, front, TRUE) : front \in {"tui", "cli"}}
MCBatches == {<<<<"call", TRUE>>, <<"unit", FALSE>>>>}
=============================================================================
