----------------------------- MODULE MCSyncActor ----------------------------
(***************************************************************************)
(* The sync actor and the way of its events on small instances.  Each case     *)
(* turns on a part of what the actor's callers do.                             *)
(***************************************************************************)
EXTENDS SyncActor

Quiet ==
    [writes |-> 0, fails |-> 0, failAt |-> {}, opens |-> 0, closes |-> 0, drops |-> 0,
     flushes |-> 0, starts |-> 0, entries |-> {1}, remote |-> FALSE, reads |-> FALSE,
     lossy |-> FALSE, asks |-> 0, leaves |-> 0, crashes |-> 0, peers |-> 0, fresh |-> FALSE,
     observed |-> {}, delays |-> {}]

Own == {"timer", "flush", "write"}

\* Writers and flushes beside readers, a failing commit and a crash.
Durable == [Quiet EXCEPT !.writes = 2, !.fails = 1, !.failAt = Own, !.flushes = 2,
                         !.reads = TRUE, !.crashes = 1, !.opens = 1,
                         !.delays = {"batch", "sync"}]
\* The first start, cut anywhere and made again.
Author == [Quiet EXCEPT !.fresh = TRUE, !.fails = 1, !.failAt = Own, !.crashes = 2, !.opens = 2,
                        !.delays = {"batch", "sync"}]
\* Sessions judged while the membership store is written, dropped and made again.
Judged == [Quiet EXCEPT !.writes = 2, !.remote = TRUE, !.starts = 1, !.drops = 1, !.opens = 2]
\* Replies and releases that get lost, and replicas closed under a session.
Released == [Quiet EXCEPT !.writes = 2, !.entries = {2}, !.starts = 2, !.closes = 1, !.opens = 1, !.lossy = TRUE,
                          !.delays = {"sweep"}]
\* A message with more events than the channel holds, beside a request.
Blocked == [Quiet EXCEPT !.writes = 4, !.remote = TRUE, !.entries = {3}, !.asks = 1,
                         !.observed = {"membership"}]
\* Events of both stores past the bounds, and the end of one.
Observers == [Quiet EXCEPT !.writes = 2, !.leaves = 1, !.observed = {"membership", "records"}]
Peers == [Quiet EXCEPT !.peers = 4]

StoreCases == [durable |-> Durable, author |-> Author, judged |-> Judged,
               released |-> Released, blocked |-> Blocked, observers |-> Observers, peers |-> Peers]
\* A commit made for a reader fails.
FlushedCases == [read |-> [Quiet EXCEPT !.writes = 1, !.fails = 1, !.failAt = {"read"}, !.flushes = 1, !.reads = TRUE]]
EndCases == [end |-> [Quiet EXCEPT !.writes = 3, !.leaves = 1, !.observed = {"records"}]]
=============================================================================
