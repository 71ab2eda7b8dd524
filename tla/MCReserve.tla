---------------------------- MODULE MCReserve ----------------------------
(* Two tiers, budgets around what a prompt reserves, two runs of two calls,
   charges and reports from nothing to beyond every budget. *)
EXTENDS TokenReserve
MCTiers == {"fast", "balanced"}
MCSizes == {1, 2}
MCCaps == {{}, {0}, {2}, {3}, {7}}
MCAmounts == {0, 1, 2, 4, 7}
Unset == [set |-> FALSE, value |-> 0]
MCSettings == {Unset, [set |-> TRUE, value |-> 0], [set |-> TRUE, value |-> 1]}
=============================================================================
