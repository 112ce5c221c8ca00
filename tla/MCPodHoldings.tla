--------------------------- MODULE MCPodHoldings ----------------------------
(***************************************************************************)
(* Small instances of PodHoldings: one case per story, each with its own   *)
(* budget of calls, faults and kills.                                      *)
(***************************************************************************)
EXTENDS PodHoldings

Nothing == [what \in Budgets |-> 0]

\* A pod is created, fails or is killed midway, and is left.
Creating == [Nothing EXCEPT !.creates = 1, !.fails = 2, !.kills = 2,
                            !["leaves"] = 1, !["failed_leaves"] = 1]
\* A pod is joined, cut and joined again, and killed at any step.
Joining == [Nothing EXCEPT !.joins = 2, !.fails = 1, !.cancels = 1, !.kills = 2]
\* A pod is joined and left or lost, and joined once more.
Departing == [Nothing EXCEPT !.joins = 2, !.fails = 1, !.kills = 2, !.removes = 1,
                             !["leaves"] = 1, !["failed_leaves"] = 1,
                             !["sibling_leaves"] = 1]

HoldingCases == [creating |-> Creating, joining |-> Joining, departing |-> Departing]
=============================================================================
