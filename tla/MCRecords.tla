----------------------------- MODULE MCRecords ------------------------------
(***************************************************************************)
(* Instances of Records: two devices of the identity that comes and goes,  *)
(* and one of a member that stays.                                         *)
(***************************************************************************)
EXTENDS Records

CONSTANTS w, v, n, G, H

MCDevices == {w, v, n}
MCIdentityOf == [d \in MCDevices |-> IF d = n THEN H ELSE G]

Nothing == [puts |-> 0, appends |-> 0, streams |-> 0, dials |-> 0, cuts |-> 0,
            leaves |-> 0, removes |-> 0, rejoins |-> 0, kills |-> 0]

Allow(awake, writers, kinds, allows) ==
    [awake |-> awake, writers |-> writers, kinds |-> kinds, allows |-> allows]

RecordsCases == [
    appending |-> Allow({w, n}, {w, n}, {},
        [Nothing EXCEPT !.appends = 3, !.dials = 2, !.leaves = 1, !.rejoins = 1]),
    siblings  |-> Allow({w, v}, {w, v}, {"mergeable"},
        [Nothing EXCEPT !.puts = 1, !.appends = 3, !.dials = 2]),
    flushing  |-> Allow({w, n}, {w}, {"claim"},
        [Nothing EXCEPT !.puts = 2, !.dials = 3, !.leaves = 1, !.cuts = 1]),
    removing  |-> Allow({w, n}, {w, n}, {"claim"},
        [Nothing EXCEPT !.puts = 2, !.dials = 2, !.removes = 1, !.rejoins = 1]),
    streaming |-> Allow({w, n}, {w}, {},
        [Nothing EXCEPT !.streams = 2, !.dials = 2, !.removes = 1, !.rejoins = 1]),
    relayed   |-> Allow({w, v, n}, {v}, {"claim"},
        [Nothing EXCEPT !.puts = 1, !.dials = 2, !.leaves = 1]),
    crossing  |-> Allow({w, n}, {w}, {"claim"},
        [Nothing EXCEPT !.puts = 1, !.dials = 2, !.leaves = 1, !.removes = 1]),
    killed    |-> Allow({w, n}, {w, n}, {"claim"},
        [Nothing EXCEPT !.puts = 2, !.dials = 2, !.kills = 1])]

\* append_op, then a kill: nothing else is needed.
AppendedCases == [
    killed |-> Allow({w, n}, {w}, {},
        [Nothing EXCEPT !.appends = 2, !.dials = 2, !.kills = 1])]
=============================================================================
