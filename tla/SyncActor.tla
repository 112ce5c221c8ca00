------------------------------ MODULE SyncActor -----------------------------
(***************************************************************************)
(* The sync actor (pdn-store actor.rs): one thread that owns the store's       *)
(* write batches, the open replicas and the snapshots of sessions, serves      *)
(* requests one at a time and commits by its own timer; its callers (sessions  *)
(* judged before they open, writers, flushes, the loader of the default        *)
(* author in engine.rs); crashes and restarts.  StoreBatches gives the store,  *)
(* Observation the way of the events an insert emits.                          *)
(***************************************************************************)
EXTENDS StoreBatches, Observation, FiniteSets

CONSTANTS Client, Peer, PEERS_PER_DOC_CACHE_SIZE, Cases

ASSUME ActorAssumption ==
    /\ {"membership", "records"} \subseteq Store
    /\ \A c \in DOMAIN Cases : Cases[c].entries \subseteq Nat

VARIABLES
    case,      \* which of the Cases is run
    db,        \* the store: see StoreBatches
    count,     \* writes of each store since the start (Store::writes)
    failed,    \* a timed commit failed and nobody was told (failed_commit)
    turn,      \* "top" and "select" of the loop, "off" when the actor is not up
    replicas,  \* per store, its handles and whether it syncs
    sessions,  \* the registered sessions: id, store, snapshot, whether referenced
    swept,     \* "due" once the last sweep is a delay old
    client,    \* per client, what it does
    released,  \* ids of sessions whose release is queued
    author,    \* the loader: its step, and the author the file names (-1: none)
    peers,     \* the useful peers of the records store, oldest first
    met,       \* every peer registered, in order
    acked,     \* writes acknowledged and not reported lost since
    flushed,   \* writes a flush promised to be on disk
    used       \* how much of the case's bounds is used

mem == <<count, failed, turn, replicas, sessions, swept, client, released>>
vars == <<case, db, mem, author, peers, met, acked, flushed, used, pipe>>

Setting == Cases[case]
-----------------------------------------------------------------------------
(***************************************************************************)
(* The writes of a store: entries, and the removal of a replica.               *)
(***************************************************************************)
Content(writes, s) ==
    {w \in writes : /\ w.store = s /\ w.kind = "put"
                    /\ \A d \in writes : d.store = s /\ d.kind = "drop" => d.n < w.n}

WriteOf(s, n, kind) == [store |-> s, n |-> n, kind |-> kind]

\* A replica exists from its import to its removal.
Created(s) ==
    \E w \in db.seen \cup db.batch :
        /\ w.store = s /\ w.kind = "name"
        /\ \A d \in db.seen \cup db.batch : d.store = s /\ d.kind = "drop" => d.n < w.n

\* Where a commit may fail, once.
Failing(where, commits) ==
    IF commits /\ where \in Setting.failAt /\ used.fails < Setting.fails THEN BOOLEAN ELSE {FALSE}

Spent(fails) == [used EXCEPT !.fails = IF fails THEN @ + 1 ELSE @]

IsOpen(s) == replicas[s].handles > 0
Syncs(s) == IsOpen(s) /\ replicas[s].sync
Closed0 == [handles |-> 0, sync |-> FALSE]

\* The events a request emits before it answers, to the live actor if it
\* subscribed to the replica.
Emits(s, k) ==
    /\ pending' = [i \in 1 .. (IF s \in observed THEN k ELSE 0) |->
                      [store |-> s, n |-> used.events[s] + i]]
    /\ UNCHANGED <<channel, held, asked, feed, pump, out, reader, observed>>

\* The sweep drops the registrations nobody references, once a delay.
Reclaims == swept = "due" /\ sessions # {}
Reclaimed == IF Reclaims THEN {x \in sessions : x.alive} ELSE sessions
Sweep == swept' = IF Reclaims THEN "young" ELSE swept

\* The actor takes a request from its queue.
Takes ==
    /\ turn = "select" /\ pending = <<>>
    /\ turn' = "top"
    /\ Sweep
    /\ UNCHANGED case

\* The callers other than the author's loader are there once it is done.
Serves == Takes /\ author.step = "loaded"

\* A caller told that a commit failed no longer counts on what it held.
Told(db2) == acked' = acked \cap (db2.seen \cup db2.batch)
-----------------------------------------------------------------------------
(***************************************************************************)
(* The loop.                                                                   *)
(***************************************************************************)
SyncDue == db.unsynced = "due"

Top ==
    /\ turn = "top" /\ pending = <<>> /\ ~SyncDue
    /\ turn' = "select"
    /\ UNCHANGED <<case, db, count, failed, replicas, sessions, swept, client, released,
                   author, peers, met, acked, flushed, used, pipe>>

\* Mutant of KeepFailure: a failed commit is not remembered.
ForgetFailure(done) == failed

\* The timer's commit, at the top when a sync is due, or when the actor is idle.
KeepFailure(done) == failed \/ ~done.ok

CommitOnTimer ==
    /\ pending = <<>> /\ ((turn = "top" /\ SyncDue) \/ turn = "select")
    /\ Sweep /\ sessions' = Reclaimed
    /\ \E fails \in Failing("timer", CommitsOrSyncs(db)) : LET done == Flush(db, fails) IN
           /\ db' = done.db
           /\ failed' = KeepFailure(done)
           /\ used' = Spent(fails)
    /\ turn' = "top"
    /\ UNCHANGED <<case, count, replicas, client, released, author, peers, met, acked, flushed, pipe>>

\* Time passes: the delays of the case run out.
BatchAges ==
    /\ turn # "off" /\ db.open /\ ~db.old /\ "batch" \in Setting.delays
    /\ db' = [db EXCEPT !.old = TRUE]
    /\ UNCHANGED <<case, mem, author, peers, met, acked, flushed, used, pipe>>

SyncFallsDue ==
    /\ turn # "off" /\ db.unsynced = "young" /\ "sync" \in Setting.delays
    /\ db' = [db EXCEPT !.unsynced = "due"]
    /\ UNCHANGED <<case, mem, author, peers, met, acked, flushed, used, pipe>>

SweepFallsDue ==
    /\ turn # "off" /\ swept = "young" /\ "sweep" \in Setting.delays
    /\ swept' = "due"
    /\ UNCHANGED <<case, db, count, failed, turn, replicas, sessions, client, released,
                   author, peers, met, acked, flushed, used, pipe>>
-----------------------------------------------------------------------------
(***************************************************************************)
(* Writes.  A remote write is a message of a session that brings entries.      *)
(***************************************************************************)
\* Mutant of Wrote: only the device's own writes are counted.
CountLocal(s, k, remote) == IF remote THEN count ELSE [count EXCEPT ![s] = @ + k]

\* A store's writes are counted, whoever wrote them.
Wrote(s, k, remote) == [count EXCEPT ![s] = @ + k]

\* k entries of s go to the batch and their events out, or the batch is lost.
Puts(s, k, where, remote) ==
    \E fails \in Failing(where, db.old /\ Commits(db)) :
        LET writes == {WriteOf(s, used.writes + i, "put") : i \in 1 .. k}
            done == Modify(db, writes, fails)
        IN  /\ db' = done.db
            /\ IF done.ok
               THEN /\ acked' = acked \cup writes
                    /\ count' = Wrote(s, k, remote)
                    /\ Emits(s, k)
                    /\ used' = [Spent(fails) EXCEPT !.writes = @ + k, !.events[s] = @ + k]
               ELSE /\ Told(done.db) /\ used' = Spent(fails)
                    /\ count' = IF remote THEN Wrote(s, 1, remote) ELSE count
                    /\ UNCHANGED pipe

\* InsertLocal and Delete: a kept failure is told instead.
InsertLocal(s) ==
    /\ Serves /\ IsOpen(s) /\ used.writes < Setting.writes
    /\ sessions' = Reclaimed
    /\ \/ failed /\ failed' = FALSE /\ Told(db) /\ UNCHANGED <<db, count, used, pipe>>
       \/ ~failed /\ Puts(s, 1, "write", FALSE) /\ UNCHANGED failed
    /\ UNCHANGED <<replicas, client, released, author, peers, met, flushed>>

ImportNamespace(s) ==
    /\ Serves /\ ~Created(s) /\ used.opens < Setting.opens
    /\ sessions' = Reclaimed
    /\ \E fails \in Failing("write", db.old /\ Commits(db)) :
           LET done == Modify(db, {WriteOf(s, used.writes + 1, "name")}, fails) IN
           /\ db' = done.db
           /\ used' = [Spent(fails) EXCEPT !.opens = @ + 1, !.writes = IF done.ok THEN @ + 1 ELSE @]
           /\ IF done.ok THEN UNCHANGED acked ELSE Told(done.db)
    /\ UNCHANGED <<count, failed, replicas, client, released, author, peers, met, flushed, pipe>>

\* The first open reads the tables, which may commit a batch that is too old.
Open(s, sync) ==
    /\ Serves /\ Created(s) /\ used.opens < Setting.opens
    /\ sessions' = Reclaimed
    /\ \E fails \in Failing("read", ~IsOpen(s) /\ db.old /\ Commits(db)) :
           LET done == IF IsOpen(s) THEN Answer(db, TRUE) ELSE CurrentWrite(db, fails) IN
           /\ db' = done.db
           /\ replicas' = IF done.ok
                          THEN [replicas EXCEPT ![s] = [handles |-> @.handles + 1, sync |-> @.sync \/ sync]]
                          ELSE replicas
           /\ used' = [Spent(fails) EXCEPT !.opens = @ + 1]
    /\ UNCHANGED <<count, failed, client, released, author, peers, met, acked, flushed, pipe>>

SessionsOf(s) == {x \in sessions : x.store = s}

\* One handle is closed; the last one closes the replica and its sessions.
Close(s) ==
    /\ Serves /\ used.closes < Setting.closes
    /\ replicas' = [replicas EXCEPT ![s] = IF @.handles > 1
                                           THEN [handles |-> @.handles - 1, sync |-> @.sync] ELSE Closed0]
    /\ sessions' = IF replicas[s].handles > 1 THEN Reclaimed ELSE Reclaimed \ SessionsOf(s)
    /\ used' = [used EXCEPT !.closes = @ + 1]
    /\ UNCHANGED <<db, count, failed, client, released, author, peers, met, acked, flushed, pipe>>

CloseEveryHandle(s) == IF IsOpen(s) THEN Reclaimed \ SessionsOf(s) ELSE Reclaimed

CountRemoval(s) == [count EXCEPT ![s] = @ + 1]

DropReplica(s) ==
    /\ Serves /\ used.drops < Setting.drops
    /\ replicas' = [replicas EXCEPT ![s] = Closed0]
    /\ sessions' = CloseEveryHandle(s)
    /\ \E fails \in Failing("write", db.old /\ Commits(db)) :
           LET done == Modify(db, {WriteOf(s, used.writes + 1, "drop")}, fails) IN
           /\ db' = done.db
           /\ IF done.ok THEN count' = CountRemoval(s) /\ UNCHANGED acked
              ELSE Told(done.db) /\ UNCHANGED count
           /\ used' = [Spent(fails) EXCEPT !.drops = @ + 1, !.writes = IF done.ok THEN @ + 1 ELSE @]
    /\ peers' = IF s = "records" THEN <<>> ELSE peers
    /\ met' = IF s = "records" THEN <<>> ELSE met
    /\ UNCHANGED <<failed, client, released, author, flushed, pipe>>

\* A flush tells a kept failure, or takes everything to disk: what is
\* acknowledged by then is promised. done and refused are what the answer makes
\* of the author's opening.
Flushes(done, refused) ==
    /\ sessions' = Reclaimed
    /\ \/ /\ failed /\ failed' = FALSE /\ author' = refused
          /\ Told(db) /\ UNCHANGED <<db, flushed>>
          /\ used' = [used EXCEPT !.flushes = @ + 1]
       \/ /\ ~failed /\ UNCHANGED failed
          /\ \E fails \in Failing("flush", CommitsOrSyncs(db)) : LET after == Flush(db, fails) IN
                 /\ db' = after.db /\ author' = IF after.ok THEN done ELSE refused
                 /\ IF after.ok THEN flushed' = flushed \cup acked /\ UNCHANGED acked
                    ELSE Told(after.db) /\ UNCHANGED flushed
                 /\ used' = [Spent(fails) EXCEPT !.flushes = @ + 1]
    /\ UNCHANGED <<count, replicas, client, released, peers, met, pipe>>

FlushStore ==
    /\ Serves /\ used.flushes < Setting.flushes
    /\ Flushes(author, author)

\* Mutant of PeersWith: a peer met again keeps its place.
PeersAdded(p) == IF p \in Range(peers) THEN peers
                 ELSE Append(IF Len(peers) < PEERS_PER_DOC_CACHE_SIZE THEN peers ELSE Tail(peers), p)

\* The peers a store recently synced with, the latest last; the oldest goes when
\* there are too many.
PeersWith(p) ==
    LET others == SelectSeq(peers, LAMBDA q : q # p)
    IN  Append(IF Len(others) < PEERS_PER_DOC_CACHE_SIZE THEN others ELSE Tail(others), p)

RegisterUsefulPeer(p) ==
    /\ Serves /\ Created("records") /\ Len(met) < Setting.peers
    /\ sessions' = Reclaimed
    /\ \E fails \in Failing("write", db.old /\ Commits(db)) :
           LET done == Modify(db, {WriteOf("peers", used.writes + 1, "put")}, fails) IN
           /\ db' = done.db
           /\ IF done.ok THEN peers' = PeersWith(p) /\ met' = Append(met, p) /\ UNCHANGED acked
              ELSE Told(done.db) /\ UNCHANGED <<peers, met>>
           /\ used' = [Spent(fails) EXCEPT !.writes = IF done.ok THEN @ + 1 ELSE @]
    /\ UNCHANGED <<count, failed, replicas, client, released, author, flushed, pipe>>
-----------------------------------------------------------------------------
(***************************************************************************)
(* Sessions.  The provider counts the membership store's writes, reads its     *)
(* entries and decides; the session on the records is then opened, and tells   *)
(* whether the membership store was written since the count.                   *)
(***************************************************************************)
Idle == [step |-> "idle"]

ReadCount(c) ==
    /\ Serves /\ client[c] = Idle /\ used.starts < Setting.starts
    /\ sessions' = Reclaimed
    /\ client' = [client EXCEPT ![c] = [step |-> "counted", writes |-> count["membership"]]]
    /\ used' = [used EXCEPT !.starts = @ + 1]
    /\ UNCHANGED <<db, count, failed, replicas, released, author, peers, met, acked, flushed, pipe>>

ReadEntries(c) ==
    /\ Serves /\ client[c].step = "counted"
    /\ sessions' = Reclaimed
    /\ \E fails \in Failing("read", Commits(db)) : LET done == Snapshot(db, fails) IN
           /\ db' = IF IsOpen("membership") THEN done.db ELSE db
           /\ client' = [client EXCEPT ![c] =
                            IF done.ok /\ IsOpen("membership")
                            THEN [step |-> "judged", writes |-> client[c].writes,
                                  entries |-> Content(done.db.seen, "membership")]
                            ELSE Idle]
           /\ used' = Spent(fails)
    /\ UNCHANGED <<count, failed, replicas, released, author, peers, met, acked, flushed, pipe>>

\* Any other read of the entries commits the batch too.
GetMany ==
    /\ Serves /\ IsOpen("records") /\ Setting.reads
    /\ sessions' = Reclaimed
    /\ \E fails \in Failing("read", Commits(db)) :
           /\ db' = Snapshot(db, fails).db
           /\ used' = Spent(fails)
    /\ UNCHANGED <<count, failed, replicas, client, released, author, peers, met, acked, flushed, pipe>>

\* The reply carries the only reference; a caller gone by then drops it.
SyncSessionStart(c) ==
    /\ Serves /\ client[c].step = "judged"
    /\ \E fails \in Failing("read", Commits(db)), delivered \in BOOLEAN :
           LET done == IF Syncs("records") THEN Snapshot(db, fails) ELSE Answer(db, FALSE) IN
           /\ delivered \/ Setting.lossy
           /\ db' = done.db
           /\ sessions' = IF done.ok
                  THEN Reclaimed \cup {[id |-> used.ids + 1, store |-> "records",
                                        snap |-> done.db.seen, alive |-> delivered]}
                  ELSE Reclaimed
           /\ client' = [client EXCEPT ![c] =
                  IF done.ok /\ delivered
                  THEN [step |-> "open", id |-> used.ids + 1, entries |-> client[c].entries,
                        unwritten |-> count["membership"] = client[c].writes]
                  ELSE Idle]
           /\ used' = [Spent(fails) EXCEPT !.ids = @ + 1]
    /\ UNCHANGED <<count, failed, replicas, released, author, peers, met, acked, flushed, pipe>>

Registered(c) == \E x \in Reclaimed : x.id = client[c].id /\ x.store = "records"

\* A message brings k entries the replica lacks; egress reads the snapshot.
SyncProcessMessage(c) ==
    /\ Serves /\ client[c].step = "open" /\ client[c].unwritten
    /\ Registered(c) /\ Syncs("records")
    /\ \E k \in Setting.entries : used.writes + k <= Setting.writes /\ Puts("records", k, "write", TRUE)
    /\ sessions' = Reclaimed
    /\ UNCHANGED <<failed, replicas, client, released, author, peers, met, flushed>>

\* A membership session's messages bring entries of the membership store.
RemoteMembership ==
    /\ Serves /\ Syncs("membership") /\ Setting.remote
    /\ \E k \in Setting.entries : used.writes + k <= Setting.writes /\ Puts("membership", k, "write", TRUE)
    /\ sessions' = Reclaimed
    /\ UNCHANGED <<failed, replicas, client, released, author, peers, met, flushed>>

\* The client drops its handle: the release is queued with a reference, or lost
\* to a full queue.
DropSession(c) ==
    /\ client[c].step = "open" /\ turn # "off"
    /\ client' = [client EXCEPT ![c] = Idle]
    /\ \E queued \in BOOLEAN :
           /\ queued \/ Setting.lossy
           /\ released' = IF queued THEN released \cup {client[c].id} ELSE released
           /\ sessions' = {IF x.id = client[c].id THEN [x EXCEPT !.alive = queued] ELSE x : x \in sessions}
    /\ UNCHANGED <<case, db, count, failed, turn, replicas, swept, author, peers, met, acked,
                   flushed, used, pipe>>

SyncSessionEnd(i) ==
    /\ Serves /\ i \in released
    /\ released' = released \ {i}
    /\ sessions' = {x \in Reclaimed : x.id # i}
    /\ UNCHANGED <<db, count, failed, replicas, client, author, peers, met, acked, flushed, used, pipe>>
-----------------------------------------------------------------------------
(***************************************************************************)
(* The live actor's requests, while it goes on taking events.                  *)
(***************************************************************************)
Ask ==
    /\ ~asked /\ author.step = "loaded" /\ turn # "off" /\ used.asks < Setting.asks
    /\ asked' = TRUE
    /\ used' = [used EXCEPT !.asks = @ + 1]
    /\ UNCHANGED <<case, db, mem, author, peers, met, acked, flushed, pending, channel, held, feed,
                   pump, out, reader, observed>>

\* The sync actor answers: GetSyncPeers, HasNewsForUs and their like read the
\* tables.
AnswerLive ==
    /\ Serves /\ asked
    /\ asked' = FALSE
    /\ sessions' = Reclaimed
    /\ \E fails \in Failing("read", db.old /\ Commits(db)) :
           db' = CurrentWrite(db, fails).db /\ used' = Spent(fails)
    /\ UNCHANGED <<count, failed, replicas, client, released, author, peers, met, acked, flushed,
                   pending, channel, held, feed, pump, out, reader, observed>>

LeaveStore(s) ==
    /\ used.leaves < Setting.leaves /\ turn # "off"
    /\ LeaveObserved(s)
    /\ used' = [used EXCEPT !.leaves = @ + 1]
    /\ UNCHANGED <<case, db, mem, author, peers, met, acked, flushed>>

Deliver == PipeStep /\ turn # "off" /\ UNCHANGED <<case, db, mem, author, peers, met, acked, flushed, used>>
-----------------------------------------------------------------------------
(***************************************************************************)
(* The default author: a file names it, and the store holds its key.           *)
(***************************************************************************)
AuthorWrite(n) == WriteOf("author", n, "put")
Loads == Takes /\ sessions' = Reclaimed

LoadNamed ==
    /\ Loads /\ author.step = "check" /\ author.file # -1
    /\ \E fails \in Failing("read", db.old /\ Commits(db)) :
           LET done == CurrentWrite(db, fails) IN
           /\ db' = done.db /\ used' = Spent(fails)
           /\ author' = [author EXCEPT !.step =
                  IF done.ok /\ AuthorWrite(author.file) \in done.db.seen \cup done.db.batch
                  THEN "loaded" ELSE "failed"]
    /\ UNCHANGED <<count, failed, replicas, client, released, peers, met, acked, flushed, pipe>>

\* Mutant of AfterImport: the file names an author not flushed.
UnflushedImport == "flushed"

AfterImport == "imported"

ImportAuthor ==
    /\ Loads /\ author.step = "check" /\ author.file = -1
    /\ LET done == Modify(db, {AuthorWrite(used.writes + 1)}, FALSE) IN
           /\ db' = done.db
           /\ author' = [author EXCEPT !.step = IF done.ok THEN AfterImport ELSE "failed",
                                       !.made = used.writes + 1]
           /\ acked' = IF done.ok THEN acked \cup {AuthorWrite(used.writes + 1)} ELSE acked
           /\ used' = [used EXCEPT !.writes = @ + 1]
    /\ UNCHANGED <<count, failed, replicas, client, released, peers, met, flushed, pipe>>

FlushAuthor ==
    /\ Takes /\ author.step = "imported"
    /\ Flushes([author EXCEPT !.step = "flushed"], [author EXCEPT !.step = "failed"])

\* Written beside and renamed over: the file is whole or absent.
PersistAuthor ==
    /\ turn # "off" /\ author.step = "flushed"
    /\ author' = [author EXCEPT !.step = "loaded", !.file = author.made]
    /\ UNCHANGED <<case, db, mem, peers, met, acked, flushed, used, pipe>>
-----------------------------------------------------------------------------
(***************************************************************************)
(* Shutdown, crash and start.                                                  *)
(***************************************************************************)
Forgets ==
    /\ count' = [s \in Store |-> 0] /\ failed' = FALSE
    /\ turn' = "off"
    /\ replicas' = [s \in Store |-> Closed0]
    /\ sessions' = {} /\ swept' = "young" /\ released' = {}
    /\ client' = [c \in Client |-> Idle]
    /\ author' = [author EXCEPT !.step = "check"]
    /\ pending' = <<>> /\ channel' = <<>> /\ held' = <<>> /\ asked' = FALSE
    /\ feed' = [s \in Store |-> [NewSubscriber EXCEPT !.open = FALSE]]
    /\ pump' = [lost |-> {}, streams |-> {}, hand |-> <<>>, runs |-> FALSE]
    /\ out' = <<>> /\ observed' = {}
    /\ reader' = [read |-> 0, taking |-> FALSE, waiting |-> 0, permit |-> FALSE]
    /\ used' = [used EXCEPT !.crashes = @ + 1, !.fails = 0]
    /\ UNCHANGED <<case, peers, met, flushed>>

\* The last flush may fail, which is only logged.
Shutdown ==
    /\ turn = "select" /\ pending = <<>> /\ used.crashes < Setting.crashes
    /\ \E fails \in Failing("timer", CommitsOrSyncs(db)) : LET left == Crashed(Flush(db, fails).db) IN
           db' = left /\ acked' = acked \cap left.disk
    /\ Forgets

Crash ==
    /\ turn # "off" /\ used.crashes < Setting.crashes
    /\ db' = Crashed(db) /\ acked' = acked \cap db.disk
    /\ Forgets

Start ==
    /\ turn = "off"
    /\ turn' = "top"
    /\ UNCHANGED <<case, db, count, failed, replicas, sessions, swept, client, released,
                   author, peers, met, acked, flushed, used, pipe>>
-----------------------------------------------------------------------------
Names == {WriteOf(s, 0, "name") : s \in Store} \cup {AuthorWrite(0)}

Init ==
    /\ case \in DOMAIN Cases
    /\ db = Opened(IF Setting.fresh THEN {} ELSE Names)
    /\ count = [s \in Store |-> 0] /\ failed = FALSE /\ turn = "top"
    /\ replicas = [s \in Store |-> IF Setting.fresh THEN Closed0 ELSE [handles |-> 1, sync |-> TRUE]]
    /\ sessions = {} /\ swept = "young" /\ released = {}
    /\ client = [c \in Client |-> Idle]
    /\ author = IF Setting.fresh THEN [step |-> "check", file |-> -1, made |-> -1]
                ELSE [step |-> "loaded", file |-> 0, made |-> 0]
    /\ peers = <<>> /\ met = <<>> /\ acked = {} /\ flushed = {}
    /\ used = [writes |-> 0, fails |-> 0, opens |-> 0, closes |-> 0, drops |-> 0, flushes |-> 0,
               starts |-> 0, ids |-> 0, asks |-> 0, leaves |-> 0, crashes |-> 0,
               events |-> [s \in Store |-> 0]]
    /\ PipeInit(Setting.observed)

Next ==
    \/ Top \/ CommitOnTimer \/ BatchAges \/ SyncFallsDue \/ SweepFallsDue
    \/ \E s \in Store :
           InsertLocal(s) \/ ImportNamespace(s) \/ Open(s, TRUE) \/ Close(s) \/ DropReplica(s) \/ LeaveStore(s)
    \/ FlushStore \/ GetMany \/ RemoteMembership
    \/ \E p \in Peer : RegisterUsefulPeer(p)
    \/ \E c \in Client :
           ReadCount(c) \/ ReadEntries(c) \/ SyncSessionStart(c) \/ SyncProcessMessage(c) \/ DropSession(c)
    \/ \E i \in released : SyncSessionEnd(i)
    \/ Ask \/ AnswerLive \/ Deliver
    \/ LoadNamed \/ ImportAuthor \/ FlushAuthor \/ PersistAuthor
    \/ Shutdown \/ Crash \/ Start

\* The loop turns: whatever it selects, it comes back to its top, and the top
\* goes on.  Delays pass.  The request of the live actor is taken in its turn of
\* the queue, events in flight move, and the live actor keeps taking them.
LoopTurns == []<>(turn = "off" \/ pending # <<>>) \/ ([]<>(turn = "top") /\ []<>(turn = "select"))

Fairness ==
    /\ LoopTurns
    /\ WF_vars(SyncFallsDue) /\ WF_vars(SweepFallsDue)
    /\ WF_vars(Emit /\ Deliver) /\ WF_vars(Drain /\ Deliver) /\ WF_vars(OnReplicaEvent /\ Deliver)
    /\ SF_vars(AnswerLive)

Spec == Init /\ [][Next]_vars /\ Fairness
-----------------------------------------------------------------------------
\* What a flush promised is on disk: nothing acknowledged before it is lost to a
\* crash, and the failure of a commit that lost something reaches the flush, even
\* one the store made on its own timer (DocsApi::flush, failed_commit).
FlushedIsDurable == flushed \subseteq db.disk

\* A registered session's replica is open: what a session reads is never the
\* snapshot of a replica closed, or removed and created again, under it.
SessionsOfOpen ==
    \A x \in sessions :
        /\ IsOpen(x.store)
        /\ \A w \in db.seen \cup db.batch :
               w.store = x.store /\ w.kind = "drop" => w \in x.snap

\* A session opened as "unwritten" serves the records of an open replica under the
\* decision made on the membership entries of its own snapshot
\* (sync_session_start_unless_written).
JudgedAsServed ==
    /\ SessionsOfOpen
    /\ \A c \in Client, x \in sessions :
         client[c].step = "open" /\ client[c].unwritten /\ client[c].id = x.id
             => Content(x.snap, "membership") = client[c].entries

\* The default author's file never names an author the store lost: a start finds
\* it, whatever crashed or failed before (DefaultAuthorStorage::load).
AuthorNamed == author.file # -1 => AuthorWrite(author.file) \in db.disk

LastMet(p) == CHOOSE i \in DOMAIN met : met[i] = p /\ \A j \in DOMAIN met : met[j] = p => j <= i

\* The peers kept are the latest distinct ones, in their order, and no more than
\* the cache holds (register_useful_peer).
RecentPeers ==
    /\ \A p \in Range(met) :
           p \in Range(peers) <=>
               Cardinality({q \in Range(met) : LastMet(q) > LastMet(p)}) < PEERS_PER_DOC_CACHE_SIZE
    /\ \A i, j \in DOMAIN peers : i < j => LastMet(peers[i]) < LastMet(peers[j])

\* What a reader saw reaches the disk however busy the actor is: a steady stream
\* of reads does not keep their unsynced commits off it (run_async).
SeenReachesDisk == []<>(db.seen = db.disk \/ db.broken \/ turn = "off")

\* A registration nobody references is dropped, on a busy actor too: a release
\* lost to a full queue or a reply nobody received pins no snapshot for good.
SnapshotsReleased == []<>(\A x \in sessions : x.alive)

\* The actor keeps up with its own duties and with those that wait for it,
\* whatever else is asked of it (run_async, Events::during).
ActorGoesOn == SeenReachesDisk /\ SnapshotsReleased /\ Answered
=============================================================================
