---------------------------- MODULE MCNodeRuntime ---------------------------
(***************************************************************************)
(* Small instances of NodeRuntime.  Each case has its own calls, its own   *)
(* points of cancellation and its own budget of faults, so that their      *)
(* state spaces add up instead of multiplying.                             *)
(***************************************************************************)
EXTENDS NodeRuntime

CONSTANTS d1, d2, i1, s1, s2

MCDevices == {d1, d2}
MCIdentities == {i1}
MCSecrets == {s1, s2}

Create == [at |-> d1, identity |-> i1, inviter |-> Nobody]
Link == [at |-> d2, identity |-> i1, inviter |-> d1]
None == [tries |-> 0, fails |-> 0, cancels |-> 0, crashes |-> 0, lapses |-> 0,
         starts |-> 0, stops |-> 0, overruns |-> 0, mints |-> 0, writes |-> 0,
         runs |-> 0]
Nowhere == [d \in MCDevices |-> {}]
OnFirst == [d \in MCDevices |-> IF d = d1 THEN {i1} ELSE {}]

\* Every step a link may be dropped at but the hand-over to the writer.
LinkAwaits == {"dial", "waiting", "replied", "import", "arm", "catch_up", "commit",
               "confirm", "undo", "release"}

\* One identity is created, with a failure, a cancellation and a kill.
Creating == [calls |-> <<Create>>, hosted |-> Nowhere,
             cancelAt |-> {"create", "keying", "commit", "undo"},
             settling |-> {d1}, mortal |-> {d1},
             left |-> [None EXCEPT !.tries = 1, !.fails = 1, !.cancels = 1,
                                   !.crashes = 2, !.starts = 2]]
\* A device is linked, and tried again after a cancellation or a failure.
Linking == [calls |-> <<Link>>, hosted |-> OnFirst, cancelAt |-> LinkAwaits,
            settling |-> {}, mortal |-> {},
            left |-> [None EXCEPT !.mints = 2, !.tries = 2, !.cancels = 1,
                                  !.fails = 1]]
\* The linked device, or its inviter, is killed.
Killed == [calls |-> <<Link>>, hosted |-> OnFirst, cancelAt |-> {"catch_up", "commit"},
           settling |-> MCDevices, mortal |-> MCDevices,
           left |-> [None EXCEPT !.mints = 2, !.tries = 2, !.crashes = 1,
                                 !.starts = 1, !.cancels = 1]]
\* Two calls present one secret while it lapses or the inviter shuts down.
Draining == [calls |-> <<Link, Link>>, hosted |-> OnFirst, cancelAt |-> {"waiting"},
             settling |-> {}, mortal |-> MCDevices,
             left |-> [None EXCEPT !.mints = 1, !.tries = 2, !.cancels = 1, !.lapses = 1,
                                   !.stops = 1, !.overruns = 1]]
\* Records are written and collection runs beside them, across a kill.
CollectingRuns == [calls |-> <<>>, hosted |-> OnFirst, cancelAt |-> {},
                   settling |-> {d1}, mortal |-> {d1},
                   left |-> [None EXCEPT !.writes = 2, !.runs = 2, !.fails = 1,
                                         !.crashes = 1, !.starts = 1]]
\* A create is dropped while its hosting record is written.
Dropped == [calls |-> <<Create>>, hosted |-> Nowhere, cancelAt |-> {"record"},
            settling |-> {d1}, mortal |-> {}, left |-> [None EXCEPT !.tries = 1, !.cancels = 1]]
\* A create runs beside a collection run.
Swept == [calls |-> <<Create>>, hosted |-> Nowhere, cancelAt |-> {},
          settling |-> {}, mortal |-> {}, left |-> [None EXCEPT !.tries = 1, !.runs = 1]]

NodeCases == [creating |-> Creating, linking |-> Linking, killed |-> Killed,
              draining |-> Draining, collecting |-> CollectingRuns]
DroppedCase == [dropped |-> Dropped]
SweptCase == [swept |-> Swept]
=============================================================================
