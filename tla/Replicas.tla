------------------------------ MODULE Replicas ------------------------------
(***************************************************************************)
(* What replicas of one namespace promise whatever carries entries between   *)
(* them: a replica holds only records somebody wrote, and gives a record up  *)
(* for a later one at the same key alone.                                  *)
(***************************************************************************)
EXTENDS Integers

CONSTANTS Key, Replica, Rank

VARIABLES
    live,      \* replica -> key -> rank of the record held there, 0 for none
    written    \* the <<key, rank>> of every record written so far

vars == <<live, written>>

Init ==
    /\ live \in [Replica -> [Key -> Nat]]
    /\ written = {<<k, live[r][k]>> : r \in Replica, k \in Key}

Write(r, k, v) ==
    /\ v > live[r][k]
    /\ live' = [live EXCEPT ![r][k] = v]
    /\ written' = written \cup {<<k, v>>}

\* r comes by records written before.
Learn(r) ==
    /\ live' \in [Replica -> [Key -> Nat]]
    /\ \A q \in Replica \ {r} : live'[q] = live[q]
    /\ \A k \in Key :
         \/ live'[r][k] = live[r][k]
         \/ live'[r][k] > live[r][k] /\ <<k, live'[r][k]>> \in written
    /\ UNCHANGED written

Next ==
    \/ \E r \in Replica, k \in Key, v \in Rank : Write(r, k, v)
    \/ \E r \in Replica : Learn(r)

Spec == Init /\ [][Next]_vars
=============================================================================
