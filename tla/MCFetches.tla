----------------------------- MODULE MCFetches ------------------------------
(***************************************************************************)
(* Two stores that share payloads, two providers, one fetch at a time toward  *)
(* each.  Both start with an entry of one payload, which the node lacks.      *)
(***************************************************************************)
EXTENDS Fetches

TwoStores == {"a", "b"}
BothLack == [s \in Stores |-> {"x"}]

\* What the environment does beside the fetches: an entry of another payload
\* arrives while a session ends or a store leaves; sessions or news of a
\* neighbor name providers while nodes join and leave the swarm.
FetchBudgets ==
    {[inserts |-> 1, syncs |-> 1, news |-> 0, swarm |-> 0, leaves |-> 0],
     [inserts |-> 1, syncs |-> 0, news |-> 0, swarm |-> 0, leaves |-> 1],
     [inserts |-> 0, syncs |-> 2, news |-> 0, swarm |-> 2, leaves |-> 0],
     [inserts |-> 0, syncs |-> 1, news |-> 0, swarm |-> 2, leaves |-> 1],
     [inserts |-> 0, syncs |-> 0, news |-> 1, swarm |-> 2, leaves |-> 1]}
=============================================================================
