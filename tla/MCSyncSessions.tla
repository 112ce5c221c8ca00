--------------------------- MODULE MCSyncSessions ---------------------------
(***************************************************************************)
(* Instances of SyncSessions for TLC: two parties, 1 < 2, so that of two     *)
(* dials that cross party 2 yields its own.                                  *)
(***************************************************************************)
EXTENDS SyncSessions

Parties == {1, 2}
OneStore == {"membership"}
BothStores == {"membership", "records"}

\* Both stores of a pod asked for twice, by either party, and an exchange fails;
\* or a store leaves the sync set and comes back, and a refusal may not be written.
SessionsBudgets ==
    {[asks |-> 2, writes |-> 0, losses |-> 1, unwritten |-> 0, leaves |-> 0],
     [asks |-> 1, writes |-> 0, losses |-> 0, unwritten |-> 1, leaves |-> 1]}

\* Nothing fails, but an ask and reported news pile up on both sides.
SettleBudget == {[asks |-> 1, writes |-> 1, losses |-> 0, unwritten |-> 0, leaves |-> 0]}

\* One exchange inside the process, which times out.
InProcessBudget == {[asks |-> 1, writes |-> 0, losses |-> 1, unwritten |-> 0, leaves |-> 0]}
=============================================================================
