------------------------------ MODULE Fetches -------------------------------
(***************************************************************************)
(* The payloads one live actor fetches for the stores it syncs (pdn-store   *)
(* engine/live.rs over live/fetches.rs).  An entry arrives with the hash of *)
(* its payload; the payload is fetched from the nodes registered as holding *)
(* it, or parked until one is.  Every action is one turn of the actor's loop,    *)
(* the parking of what it left without a provider included.                 *)
(***************************************************************************)
EXTENDS FetchQueue, FiniteSetsExt

CONSTANTS
    Stores,
    Before,      \* store -> the payloads of the entries it starts with
    MaxSeries,   \* bound on the series of pauses
    Budgets      \* the bounds on the environment to explore: see Left

ASSUME StoresAssumption ==
    /\ IsFiniteSet(Stores) /\ Before \in [Stores -> SUBSET Hash] /\ MaxSeries \in Nat
    /\ Budgets \subseteq [inserts : Nat, syncs : Nat, news : Nat, swarm : Nat, leaves : Nat]

VARIABLES
    fetches,     \* the record FetchQueue's operators work on
    queued,      \* queued_hashes: the <<store, payload>> waiting on a fetch
    missing,     \* missing_hashes: those parked
    syncing,     \* the stores in the sync set
    may_emit,    \* the stores whose PendingContentReady a finished sync left due
    topics,      \* node -> the stores in whose swarm it is a neighbor
    scans,       \* content_scans: store -> the peer met while a scan runs, if any
    scanning,    \* store -> scans that have not read the store yet
    scanned,     \* what scans read, on its way to the actor
    events,      \* the remote inserts on their way to the actor
    entries,     \* store -> the payloads its entries name
    blobs,       \* the payloads the blob store holds whole
    left         \* what the environment may still do

actor == <<fetches, queued, missing, may_emit>>
around == <<syncing, topics, scans, scanning, scanned>>
stored == <<events, entries, blobs>>
vars == <<actor, around, stored, left>>

Left == [inserts : Nat, syncs : Nat, news : Nat, swarm : Nat, leaves : Nat]
Spend(what) == left[what] > 0 /\ left' = [left EXCEPT ![what] = @ - 1]

Waiting(q, s) == {h \in Hash : <<s, h>> \in q}

\* The orders a turn may walk the providers of a payload in.
Order == SetToSeqs(Node)
-----------------------------------------------------------------------------
(***************************************************************************)
(* What the handlers share.  y is a turn so far: the fetches x, the queued  *)
(* pairs q and the parked pairs m.                                          *)
(***************************************************************************)
WantFor(y, s, h, order) ==
    IF IsWanted(y.x, h) THEN [y EXCEPT !.q = @ \cup {<<s, h>>}]
    ELSE IF y.x.holders[h] = {} THEN [y EXCEPT !.m = @ \cup {<<s, h>>}]
    ELSE [y EXCEPT !.q = @ \cup {<<s, h>>}, !.x = Want(@, h, order)]

RegisterProvider(y, s, h, p, order) ==
    LET z == [y EXCEPT !.x = Register(@, h, p)]
    IN IF <<s, h>> \in z.m THEN WantFor([z EXCEPT !.m = @ \ {<<s, h>>}], s, h, order) ELSE z

\* Parked as a remote insert whose sender lacks the payload parks it.
Park(y, s, h) ==
    IF \E t \in Stores : <<t, h>> \in y.q THEN [y EXCEPT !.q = @ \cup {<<s, h>>}]
    ELSE [y EXCEPT !.m = @ \cup {<<s, h>>}]

Begun == [x |-> fetches, q |-> queued, m |-> missing]

\* The stores that waited in q and wait for nothing in r.
Emptied(q, r) == {s \in Stores : Waiting(q, s) # {} /\ Waiting(r, s) = {}}

\* Mutant of Parked: what was not routed is dropped.
ParkedNone(y, lost) == {}

\* What a turn left unrouted is parked, for the stores still synced.
Parked(y, lost) == {sh \in y.q : sh[2] \in lost /\ sh[1] \in syncing'}

\* A store that waits for nothing any more emits its PendingContentReady.
Due(q, r, rest) == (may_emit \cap syncing') \ (Emptied(q, r) \cup Emptied(r, rest))

EndTurn(y) ==
    LET lost == {h \in y.x.unrouted : ~IsWanted(y.x, h)}
        rest == {sh \in y.q : sh[2] \notin lost}
    IN /\ fetches' = [y.x EXCEPT !.unrouted = {}]
       /\ queued' = rest
       /\ missing' = y.m \cup Parked(y, lost)
       /\ may_emit' = Due(queued, y.q, rest)
-----------------------------------------------------------------------------
(***************************************************************************)
(* Entries arrive: the replica takes one, and the actor hears of it.        *)
(***************************************************************************)
Insert(s, h, p, complete) ==
    /\ s \in syncing /\ Spend("inserts")
    /\ entries' = [entries EXCEPT ![s] = @ \cup {h}]
    /\ events' = Append(events, [store |-> s, hash |-> h, from |-> p, complete |-> complete])
    /\ UNCHANGED <<actor, around, blobs>>

OnRemoteInsert(order) ==
    LET e == Head(events)
        told == [Begun EXCEPT !.x = Register(@, e.hash, e.from), !.m = @ \ {<<e.store, e.hash>>}]
    IN
    /\ events # <<>>
    /\ events' = Tail(events)
    /\ UNCHANGED <<around, entries, blobs, left>>
    /\ EndTurn(IF e.complete THEN WantFor(told, e.store, e.hash, order)
               ELSE Park(Begun, e.store, e.hash))

\* A session on s with p ended; one that went through tells that p has what s
\* waits for.
RegisterAll(y, s, hs, p, order) ==
    FoldLeft(LAMBDA z, h : RegisterProvider(z, s, h, p, order[h]), y, hs)

OnSyncFinished(s, p, ok, parked, waiting, order) ==
    LET met == RegisterAll(RegisterAll(Begun, s, parked, p, order), s, waiting, p, order)
        y == IF ok THEN met ELSE Begun
    IN
    /\ s \in syncing /\ Spend("syncs")
    /\ parked \in SetToSeqs(Waiting(missing, s)) /\ waiting \in SetToSeqs(Waiting(queued, s))
    /\ scans' = IF ok /\ s \in DOMAIN scans THEN [scans EXCEPT ![s] = {p}] ELSE scans
    /\ UNCHANGED <<syncing, topics, scanning, scanned, stored>>
    /\ fetches' = y.x /\ queued' = y.q /\ missing' = y.m
    /\ \/ may_emit' = IF Waiting(y.q, s) # {} THEN may_emit \cup {s} ELSE may_emit \ {s}
       \/ UNCHANGED may_emit    \* superseded: the pair is another session's

\* Gossip: a neighbor has a payload; nodes become neighbors and cease to be.
NeighborContentReady(s, h, p, order) ==
    /\ Spend("news")
    /\ UNCHANGED <<around, stored>>
    /\ EndTurn(RegisterProvider(Begun, s, h, p, order))

NeighborUp(p, s) ==
    /\ s \in syncing /\ s \notin topics[p] /\ Spend("swarm")
    /\ topics' = [topics EXCEPT ![p] = @ \cup {s}]
    /\ UNCHANGED <<actor, syncing, scans, scanning, scanned, stored>>

\* ps lose the swarm of s.
Gone(x, ps) == FoldLeft(LAMBDA z, p : NeighborGone(z, p), x, SetToSeq(ps))

NeighborDown(p, s) ==
    /\ s \in topics[p] /\ Spend("swarm")
    /\ topics' = [topics EXCEPT ![p] = @ \ {s}]
    /\ UNCHANGED <<syncing, scans, scanning, scanned, stored>>
    /\ EndTurn([Begun EXCEPT !.x = Gone(@, IF topics[p] = {s} THEN {p} ELSE {})])
-----------------------------------------------------------------------------
(***************************************************************************)
(* Fetches end, and pauses.                                                 *)
(***************************************************************************)

\* A task that began before the payload landed may end in any way.
OnFetchFinished(p, h, outcome, spent, order) ==
    LET y == [Begun EXCEPT !.x = Finished(@, p, h, outcome, topics[p] # {}, spent, order),
                           !.q = IF outcome \in {"Fetched", "Held"}
                                 THEN {sh \in @ : sh[2] # h} ELSE @]
        series == fetches.provider[p].series
    IN
    /\ fetches.tasks[<<p, h>>] > 0
    /\ outcome = "Held" => h \in blobs
    /\ series.tries = MaxTries => spent
    /\ spent => series.state = "probing"
    /\ y.x.next_series <= MaxSeries
    /\ blobs' = IF outcome = "Fetched" THEN blobs \cup {h} ELSE blobs
    /\ UNCHANGED <<around, events, entries, left>>
    /\ EndTurn(y)

ResumeFetches(p, id) ==
    /\ <<p, id>> \in fetches.timers
    /\ UNCHANGED <<around, stored, left>>
    /\ EndTurn([Begun EXCEPT !.x = Resume(@, p, id)])
-----------------------------------------------------------------------------
(***************************************************************************)
(* A store enters the sync set, which scans it for payloads it lacks, and   *)
(* leaves it.                                                               *)
(***************************************************************************)
StartSync(s) ==
    /\ s \notin syncing
    /\ syncing' = syncing \cup {s}
    /\ scans' = [t \in DOMAIN scans \cup {s} |-> IF t = s THEN {} ELSE scans[t]]
    /\ scanning' = [scanning EXCEPT ![s] = @ + 1]
    /\ UNCHANGED <<actor, topics, scanned, stored, left>>

ReadStore(s) ==
    /\ scanning[s] > 0
    /\ scanning' = [scanning EXCEPT ![s] = @ - 1]
    /\ scanned' = Append(scanned, [store |-> s, missing |-> entries[s] \ blobs])
    /\ UNCHANGED <<actor, syncing, topics, scans, stored, left>>

OnContentScanned(order) ==
    LET r == Head(scanned)
        s == r.store
        met == IF s \in DOMAIN scans THEN scans[s] ELSE {}
        step(y, h) == LET z == Park(y, s, h)
                      IN IF met = {} THEN z
                         ELSE RegisterProvider(z, s, h, CHOOSE p \in met : TRUE, order[h])
    IN
    /\ scanned # <<>>
    /\ scanned' = Tail(scanned)
    /\ scans' = Restrict(scans, DOMAIN scans \ {s})
    /\ UNCHANGED <<syncing, topics, scanning, stored, left>>
    /\ IF s \in syncing
       THEN \E hs \in SetToSeqs(r.missing) : EndTurn(FoldLeft(step, Begun, hs))
       ELSE UNCHANGED actor

Leave(s) ==
    LET rest == {sh \in queued : sh[1] # s}
        unwanted == {h \in Waiting(queued, s) : \A t \in Stores : <<t, h>> \notin rest}
        x == FoldLeft(LAMBDA z, h : Unwant(z, h), fetches, SetToSeq(unwanted))
        gone == {p \in Node : topics[p] = {s}}
    IN
    /\ s \in syncing /\ Spend("leaves")
    /\ syncing' = syncing \ {s}
    /\ topics' = [p \in Node |-> topics[p] \ {s}]
    /\ UNCHANGED <<scans, scanning, scanned, stored>>
    /\ EndTurn([x |-> Gone(x, gone), q |-> rest, m |-> {sh \in missing : sh[1] # s}])
-----------------------------------------------------------------------------
Init ==
    /\ fetches = NoFetches
    /\ queued = {} /\ missing = {} /\ syncing = {} /\ may_emit = {}
    /\ topics = [p \in Node |-> {}]
    /\ scans = <<>> /\ scanning = [s \in Stores |-> 0] /\ scanned = <<>>
    /\ events = <<>> /\ entries = Before /\ blobs = {}
    /\ left \in Budgets

FetchEnds(p, h) ==
    \E outcome \in Outcome, spent \in BOOLEAN, order \in Order :
        OnFetchFinished(p, h, outcome, spent, order)

Next ==
    \/ \E s \in Stores : StartSync(s) \/ ReadStore(s) \/ Leave(s)
    \/ \E s \in Stores, p \in Node : NeighborUp(p, s) \/ NeighborDown(p, s)
    \/ \E s \in Stores, h \in Hash, p \in Node :
         \/ \E complete \in BOOLEAN : Insert(s, h, p, complete)
         \/ \E order \in Order : NeighborContentReady(s, h, p, order)
    \/ \E order \in Order : OnRemoteInsert(order)
    \/ \E order \in [Hash -> Order] : OnContentScanned(order)
    \/ \E s \in Stores, p \in Node, ok \in BOOLEAN, order \in [Hash -> Order] :
         \E parked \in SetToSeqs(Waiting(missing, s)), waiting \in SetToSeqs(Waiting(queued, s)) :
            OnSyncFinished(s, p, ok, parked, waiting, order)
    \/ \E p \in Node, h \in Hash : FetchEnds(p, h)
    \/ \E t \in fetches.timers : ResumeFetches(t[1], t[2])

Spec == Init /\ [][Next]_vars

\* Every fetch ends, by NO_PROGRESS at the latest; timers fire, scans come back,
\* and the actor takes what is sent to it.  Weak fairness, each with the condition
\* its action waits for written out.
Fairness ==
    /\ \A t \in Node \X Hash :
         []<>(fetches.tasks[t] = 0) \/ []<><<fetches'.tasks[t] < fetches.tasks[t]>>_vars
    /\ []<>(fetches.timers = {}) \/ []<><<fetches.timers \ fetches'.timers # {}>>_vars
    /\ []<>(events = <<>>) \/ []<><<Len(events') < Len(events)>>_vars
    /\ []<>(scanned = <<>>) \/ []<><<Len(scanned') < Len(scanned)>>_vars
    /\ \A s \in Stores :
         []<>(scanning[s] = 0) \/ []<><<scanning'[s] < scanning[s]>>_vars

FairSpec == Spec /\ Fairness
-----------------------------------------------------------------------------
TypeOK ==
    /\ DOMAIN fetches.wanted \subseteq Hash
    /\ \A h \in DOMAIN fetches.wanted :
         fetches.wanted[h] \in WantedRec /\ Cardinality(fetches.wanted[h].fetching) <= 1
    /\ \A p \in Node : LET e == fetches.provider[p] IN
         e.queue \in Seq(Hash) /\ e.in_flight \in Nat /\ e.series \in Series
    /\ fetches.tasks \in [Node \X Hash -> Nat] /\ fetches.unrouted = {}
    /\ queued \subseteq Stores \X Hash /\ missing \subseteq Stores \X Hash
    /\ syncing \subseteq Stores /\ may_emit \subseteq syncing
    /\ DOMAIN scans \subseteq Stores /\ left \in Left

\* At most Limit fetches toward one provider run, and the count dispatch goes by
\* is the number of tasks: a provider dropped, unwanted or named again while its
\* fetches run neither loses nor gains any ("at most a limit of fetches in
\* flight toward each").
BoundedPerProvider ==
    \A p \in Node :
        LET running == SumFunctionOnSet(fetches.tasks, {p} \X Hash)
        IN running = fetches.provider[p].in_flight /\ running <= Limit

\* A payload wanted and not being fetched waits in the queue of every provider it
\* may come from, and none of them has room: it waits for a fetch to end or for
\* a pause to.
WaitsOnlyForRoom ==
    \A h \in DOMAIN fetches.wanted :
        LET w == fetches.wanted[h] IN
        IF w.fetching # {}
        THEN \A p \in w.fetching : fetches.tasks[<<p, h>>] > 0
        ELSE /\ w.eligible # {}
             /\ \A p \in w.eligible : LET e == fetches.provider[p] IN
                  h \in Range(e.queue) /\ e.in_flight >= Room(e.series)

\* A series of pauses keeps one try due: its timer while it pauses, its probe
\* after ("a series keeps one try due").
SeriesGoesOn ==
    \A p \in Node : LET e == fetches.provider[p] IN
        /\ e.series.state = "paused" => <<p, e.series.id>> \in fetches.timers
        /\ e.series.state = "probing" => e.in_flight > 0

\* The stores' waits and the fetches agree: a payload is wanted exactly while
\* some store waits on its fetch.
QueuedIsWanted == {sh[2] : sh \in queued} = DOMAIN fetches.wanted

\* A payload a synced store lacks is being fetched or parked, or news of it is on
\* its way to the actor.
LackedIsKnown ==
    \A s \in syncing : \A h \in entries[s] \ blobs :
        \/ <<s, h>> \in queued \cup missing
        \/ scanning[s] > 0
        \/ \E i \in DOMAIN scanned : scanned[i].store = s /\ h \in scanned[i].missing
        \/ \E i \in DOMAIN events : events[i].store = s /\ events[i].hash = h

\* A store whose PendingContentReady is due still waits for a payload, whose end
\* will emit it.
DueIsAwaited == \A s \in may_emit : Waiting(queued, s) # {}

\* No payload is forgotten on its way: one a synced store lacks is known to be
\* lacking, one waited for is wanted of a provider that is fetching it or has no
\* room, and the report that a store's payloads are in waits on one that is not
\* (park_unrouted, on_finished, emit_pending_content_ready).
NoneForgotten == LackedIsKnown /\ QueuedIsWanted /\ WaitsOnlyForRoom /\ DueIsAwaited

\* Every fetch comes to an end: in the end no store waits on one, its payloads
\* held or parked.
Settles == <>[](queued = {})
=============================================================================
