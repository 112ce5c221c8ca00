-------------------------------- MODULE Swarm --------------------------------
(***************************************************************************)
(* The live actor of one engine toward the peers of a pod's two stores: the  *)
(* gossip subscriptions and their generations (pdn-store engine/gossip.rs),  *)
(* the neighbors they report, whom a peer is dialed as, the dials held        *)
(* behind the membership store's exchange, and the retry series toward a      *)
(* neighbor no dial reaches (engine/live.rs).  Pure operators over a record   *)
(* `e`; the slots are those of PeerState, and how two engines share an        *)
(* exchange is SyncSessions' subject.                                         *)
(*                                                                            *)
(* A contact is a pair of a peer and the identity it is dialed as.  A         *)
(* generation is a positive number, 0 no subscription.                        *)
(***************************************************************************)
EXTENDS Naturals, Sequences, FiniteSets, PeerState

CONSTANTS Peers, Contacts, Default

Stores == {"m", "r"}

Dials == Stores \X Contacts

NoSeries == [id |-> 0, armed |-> FALSE, exhausted |-> FALSE]

\* LiveActor::new.  `writes` is the membership replica's write count; `dialing`
\* and `accepting` are the sessions running, the oldest first, each with the count it
\* opened at, whether or not it still holds the slot.
NewEngine ==
    [syncing |-> {}, ordered |-> FALSE,
     active |-> [s \in Stores |-> 0], generation |-> 0,
     neighbors |-> [p \in Peers |-> {}],
     stated |-> [s \in Stores |-> {}],
     inSession |-> [d \in Dials |-> 0],
     slot |-> [d \in Dials |-> IdlePeer],
     held |-> [c \in Contacts |-> <<>>],
     series |-> [d \in Dials |-> NoSeries], nextSeries |-> 1,
     redials |-> {},
     dialing |-> [d \in Dials |-> <<>>], accepting |-> [d \in Dials |-> <<>>],
     writes |-> 1]

IsNeighbor(e, p) == e.neighbors[p] # {}

\* learned_identities, as contacts of the peer.
Learned(e, s, p) == {c \in Contacts : c[1] = p /\ (c \in e.stated[s] \/ e.inSession[<<s, c>>] > 0)}

\* identities_of_peer: what contacts and running sessions named, else the default.
IdentitiesOf(e, s, p) ==
    IF Learned(e, s, p) # {} THEN Learned(e, s, p) ELSE {<<p, Default>>}

\* LiveActor::dial, nothing for a store out of the sync set.
Dial(e, s, c, reason) ==
    LET d == <<s, c>>
    IN IF s \notin e.syncing THEN e
       ELSE [e EXCEPT !.slot[d] = StartConnect(@, reason),
                      !.dialing[d] = IF IsRunning(e.slot[d]) THEN @
                                     ELSE Append(@, [reason |-> reason, opened |-> e.writes])]

\* One more dial held.  At its release the first starts the exchange and any further
\* one but a resync queues another, so two stand for all.
Held(reasons, reason) ==
    IF Len(reasons) < 2 THEN Append(reasons, reason)
    ELSE IF reasons[2] = "Resync" THEN <<reasons[1], reason>> ELSE reasons

\* sync_with_identity: the membership store is dialed first, and the record
\* store's dial is held while that exchange runs.
SyncWithIdentity(e, s, c, reason) ==
    IF s = "m" \/ ~e.ordered THEN Dial(e, s, c, reason)
    ELSE LET first == IF IsRunning(e.slot[<<"m", c>>]) THEN e ELSE Dial(e, "m", c, reason)
         IN IF IsRunning(first.slot[<<"m", c>>])
            THEN [first EXCEPT !.held[c] = Held(@, reason)]
            ELSE Dial(first, "r", c, reason)

\* The contacts dialed one after the other: they share no slot and hold nothing in
\* common, so each is dialed as if alone.
DialAll(e, s, contacts, reason) ==
    LET alone(c) == SyncWithIdentity(e, s, c, reason)
    IN [e EXCEPT !.slot = [d \in Dials |-> IF d[2] \in contacts THEN alone(d[2]).slot[d]
                                           ELSE e.slot[d]],
                 !.dialing = [d \in Dials |-> IF d[2] \in contacts THEN alone(d[2]).dialing[d]
                                              ELSE e.dialing[d]],
                 !.held = [c \in Contacts |-> IF c \in contacts THEN alone(c).held[c]
                                             ELSE e.held[c]]]

\* release_held, of the dials held on the membership exchange with c.
ReleaseHeld(e, c) ==
    LET reasons == e.held[c]
        first == [e EXCEPT !.held[c] = <<>>]
        second == IF Len(reasons) > 0 THEN Dial(first, "r", c, reasons[1]) ELSE first
    IN IF Len(reasons) > 1 THEN Dial(second, "r", c, reasons[2]) ELSE second

\* forget_neighbor with end_retries_toward.
ForgetNeighbor(e, s, p) ==
    LET left == [e EXCEPT !.neighbors[p] = @ \ {s}]
    IN IF IsNeighbor(e, p) /\ ~IsNeighbor(left, p)
       THEN [left EXCEPT !.series = [d \in Dials |-> IF d[2][1] = p THEN NoSeries ELSE @[d]]]
       ELSE left

\* forget_topic_neighbors.
ForgetTopic(e, s) ==
    [e EXCEPT !.neighbors = [p \in Peers |-> e.neighbors[p] \ {s}],
              !.series = [d \in Dials |-> IF d[2][1] \in Peers /\ e.neighbors[d[2][1]] = {s}
                                          THEN NoSeries ELSE e.series[d]]]

\* Mutant of IsCurrent: any subscription of a joined topic is taken for current.
IsCurrentJoined(e, s, generation) == e.active[s] # 0

\* GossipState::is_current.
IsCurrent(e, s, generation) == e.active[s] = generation

\* GossipState::join: a topic held is asked for more peers, another subscribed
\* under the next generation.
Join(e, s) ==
    IF e.active[s] # 0 THEN e
    ELSE [e EXCEPT !.active[s] = e.generation + 1, !.generation = @ + 1]

\* leave_gossip with GossipState::quit.
LeaveGossip(e, s) == ForgetTopic([e EXCEPT !.active[s] = 0], s)

\* start_sync with join_peers, toward handed peers alone.  `joins` says whether
\* gossip takes the join: a failed one ends the start before any dial.
StartSync(e, s, contacts, join, joins) ==
    LET opened == [e EXCEPT !.syncing = @ \cup {s}, !.stated[s] = @ \cup contacts]
        joined == IF join THEN Join(opened, s) ELSE opened
        dialed == UNION {IdentitiesOf(opened, s, c[1]) : c \in contacts}
    IN IF join /\ ~joins THEN opened ELSE DialAll(joined, s, dialed, "DirectJoin")

\* state_contacts: the stated identities are these alone.
StateContacts(e, s, contacts) == [e EXCEPT !.stated[s] = contacts]

\* OrderAfter, of the record store after the membership store.
OrderAfter(e) == [e EXCEPT !.ordered = TRUE]

\* leave, for the record store dropped at a departure.
LeaveRecords(e) ==
    LET unheld == [e EXCEPT !.ordered = FALSE, !.held = [c \in Contacts |-> <<>>]]
    IN IF "r" \notin e.syncing THEN unheld
       ELSE LeaveGossip(
              [unheld EXCEPT !.syncing = @ \ {"r"}, !.stated["r"] = {},
                 !.inSession = [d \in Dials |-> IF d[1] = "r" THEN 0 ELSE @[d]],
                 !.slot = [d \in Dials |-> IF d[1] = "r" THEN IdlePeer ELSE @[d]],
                 !.series = [d \in Dials |-> IF d[1] = "r" THEN NoSeries ELSE @[d]]], "r")

\* NeighborUp.
NeighborUp(e, s, p, generation) ==
    IF ~IsCurrent(e, s, generation) THEN e
    ELSE DialAll([e EXCEPT !.neighbors[p] = @ \cup {s}], s, IdentitiesOf(e, s, p), "NewNeighbor")

\* NeighborDown.
NeighborDown(e, s, p, generation) ==
    IF IsCurrent(e, s, generation) THEN ForgetNeighbor(e, s, p) ELSE e

\* GossipState::ended with its arm of the actor's loop: a receive loop that ended
\* on its own takes its topic with it, if the topic is still its own.
LoopEnded(e, s, generation) ==
    IF IsCurrent(e, s, generation) THEN LeaveGossip(e, s) ELSE e

\* consumer_names.
ConsumerNames(e, s, i) == i = Default \/ \E c \in e.stated[s] : c[2] = i

\* on_sync_report with sync_with_reporter, of a report with news.
SyncReported(e, s, p, reporter) ==
    LET callees == IF Learned(e, s, p) = {} /\ ConsumerNames(e, s, reporter)
                   THEN {<<p, reporter>>} ELSE IdentitiesOf(e, s, p)
    IN IF s \in e.syncing THEN DialAll(e, s, callees, "SyncReport") ELSE e

\* on_sync_finished, as to the slot, the dials held on it and the queued resync.
Finished(e, s, c, origin) ==
    LET d      == <<s, c>>
        resync == ResyncQueued(e.slot[d], origin)
        freed  == [e EXCEPT !.slot[d] = Finish(@, origin)]
        loose  == IF s = "m" /\ ~resync /\ ~IsRunning(freed.slot[d]) THEN ReleaseHeld(freed, c) ELSE freed
    IN IF resync THEN SyncWithIdentity(loose, s, c, "Resync") ELSE loose

\* on_sync_via_connect_finished, of the oldest dial of d, which connected.
DialReached(e, d) ==
    Finished([e EXCEPT !.series[d] = NoSeries, !.dialing[d] = Tail(@)],
             d[1], d[2], Head(e.dialing[d]).reason)

\* Mutant of RetryUnreached: the timer is not set for a series already there.
RetryUnreachedFirst(e, d, reason, spent) ==
    IF IsNeighbor(e, d[2][1]) /\ e.series[d] = NoSeries
    THEN [e EXCEPT !.series[d] = [id |-> e.nextSeries, armed |-> TRUE, exhausted |-> FALSE],
                   !.redials = @ \cup {<<d, reason, e.nextSeries>>},
                   !.nextSeries = @ + 1]
    ELSE e

\* retry_unreached_dial with RetrySeries::arm; `spent` says that the series has
\* run its span.
RetryUnreached(e, d, reason, spent) ==
    LET kept   == e.series[d]
        series == IF kept # NoSeries THEN kept ELSE [NoSeries EXCEPT !.id = e.nextSeries]
        next   == IF kept # NoSeries THEN e.nextSeries ELSE e.nextSeries + 1
    IN IF ~IsNeighbor(e, d[2][1]) THEN [e EXCEPT !.series[d] = NoSeries]
       ELSE IF series.armed \/ series.exhausted THEN e
       ELSE IF spent /\ kept # NoSeries THEN [e EXCEPT !.series[d].exhausted = TRUE]
       ELSE [e EXCEPT !.series[d] = [series EXCEPT !.armed = TRUE],
                      !.redials = @ \cup {<<d, reason, series.id>>},
                      !.nextSeries = next]

\* on_sync_via_connect_finished, of the oldest dial of d, which could not connect.
DialUnreached(e, d, spent) ==
    LET reason == Head(e.dialing[d]).reason
    IN RetryUnreached(Finished([e EXCEPT !.dialing[d] = Tail(@)], d[1], d[2], reason),
                      d, reason, spent)

\* RetrySeries::fired.
Fired(series, id) == IF series.id = id THEN [series EXCEPT !.armed = FALSE] ELSE series

\* Redial, of a retry series' timer.
Redial(e, redial) ==
    LET d == redial[1]
        fired == [e EXCEPT !.redials = @ \ {redial},
                           !.series[d] = IF @ = NoSeries THEN @ ELSE Fired(@, redial[3])]
    IN SyncWithIdentity(fired, d[1], d[2], redial[2])

\* AcceptSyncRequest of an admitted caller, whose session takes an idle pair: this
\* engine's dials are the ones that survive a crossing.
AcceptSync(e, d) ==
    [e EXCEPT !.inSession[d] = @ + 1,
              !.slot[d] = Accept(@),
              !.accepting[d] = Append(@, e.writes)]

\* release_peer_identity.
ReleaseIdentity(e, d) == [e EXCEPT !.inSession[d] = IF @ = 0 THEN 0 ELSE @ - 1]

\* release_peer_identity and on_sync_via_accept_finished, of the oldest
\* session accepted from d.
AcceptFinished(e, d) ==
    Finished([ReleaseIdentity(e, d) EXCEPT !.series[d] = NoSeries, !.accepting[d] = Tail(@)],
             d[1], d[2], "Accept")
=============================================================================
