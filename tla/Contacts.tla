------------------------------ MODULE Contacts ------------------------------
(***************************************************************************)
(* One hosted identity's pod on one device (data-layer node.rs): whom its    *)
(* two stores are dialed at, derived again and again from the membership     *)
(* view by tasks that run at once (the membership store's watcher, the        *)
(* periodic pass, the watcher of the identity's own devices, a membership     *)
(* write, a start), and when the stores are in their gossip swarm, which a    *)
(* departure (forget_pod) and a join after it (import_pod) turn around        *)
(* while those tasks run.  The engine below is Swarm's.                       *)
(*                                                                            *)
(* The membership view is read off the replica's write count: Setting.views   *)
(* gives the view after each write, and how that write comes about.           *)
(***************************************************************************)
EXTENDS Swarm

CONSTANTS Me, Cases, NoTomb

VARIABLES case,      \* which of Cases this behaviour runs
          engine,    \* the live actor
          topic,     \* <<store, generation, peer>> a subscription's loop reported up, not down since
          inbox,     \* what the receive loops have sent and the actor not read
          ended,     \* the receive loops that ended on their own, by store and generation
          own,       \* the identity's own other devices, as its PMS lists them
          held,      \* the stores the registry holds of the pod
          tracked,   \* TrackedDoc of each store
          tomb,      \* Tombstone of the pod
          lock,      \* the tasks at the pod's derivation lock, the holder first
          task,      \* what each task is at
          starting,  \* the pod is among starting_pods
          events,    \* the watcher's unread events
          seen,      \* the watcher's Seen, and whether it read the identity departed
          foundEmpty,\* the pod is in found_empty
          left       \* what the environment may still do

nodeVars == <<own, held, tracked, tomb, lock, task, starting, events, seen, foundEmpty>>
netVars == <<topic, inbox, ended>>
contactVars == <<case, engine, netVars, nodeVars, left>>

Setting == Cases[case]
Views == Setting.views
View == Views[engine.writes]

Tasks == {"watch", "pass", "own", "write", "start", "forget"}

Idle == [at |-> "idle", held |-> {}, met |-> {}, view |-> 0, contacts |-> [s \in Stores |-> {}],
         ticketed |-> [s \in Stores |-> {}], todo |-> <<>>, toward |-> {}, swarm |-> FALSE,
         departed |-> FALSE, nobody |-> FALSE]

Doc(contacts, strategy) ==
    [contacts |-> contacts, ticketed |-> contacts, strategy |-> strategy, view |-> 0]

\* A store not tracked.
NoDoc == Doc({}, "None")

May(what) == left[what] > 0
Spend(what) == left' = [left EXCEPT ![what] = @ - 1]

ContactsInit ==
    /\ case \in DOMAIN Cases
    /\ engine = [NewEngine EXCEPT !.syncing = Stores, !.ordered = TRUE,
                                  !.active = [s \in Stores |-> IF s = "m" THEN 1 ELSE 2],
                                  !.generation = 2,
                                  !.stated = [s \in Stores |-> Setting.ticketed]]
    /\ topic = {}
    /\ inbox = <<>>
    /\ ended = {}
    /\ own = {}
    /\ held = Stores
    /\ tracked = [s \in Stores |-> Doc(Setting.ticketed, "Swarm")]
    /\ tomb = NoTomb
    /\ lock = <<>>
    /\ task = [t \in Tasks |-> Idle]
    /\ starting = FALSE
    /\ events = {}
    /\ seen = [met |-> {}, broughtBy |-> {}, departed |-> FALSE]
    /\ foundEmpty = FALSE
    /\ left = Setting.may

At(t, at) == task[t].at = at

Moves(t, at) == task' = [task EXCEPT ![t].at = at]

\* What the subscribers of the membership store are sent.
Tell(event) == events' = events \cup {event}

\* An event of store s that carries nothing the watcher of the membership store reads.
TellOf(s) == IF s = "m" THEN Tell([kind |-> "other"]) ELSE UNCHANGED events

-----------------------------------------------------------------------------
(* What a derivation computes. *)

\* ticketed_unlisted.
TicketedUnlisted(heldStores, view) ==
    {c \in UNION {tracked[s].ticketed : s \in {x \in heldStores : tracked[x] # NoDoc}} :
        view.members = {} \/ (c[2] \in view.members /\ c[1] \notin view.nodes)}

\* Mutant of Carried: a session must have opened past the count.
CarriedPast(kept, view, met) == \E s \in met : s[2] > kept.heldAt /\ s[1][2] \in view.members

\* A session with a member opened at the departure's count or later took it along.
Carried(kept, view, met) == \E s \in met : s[2] >= kept.heldAt /\ s[1][2] \in view.members

\* tombstone_converged, as to the tombstone kept: the departure at the count read
\* past the view, and the sessions met since.
TombAfter(heldStores, view, met) ==
    LET kept == IF ~view.departed THEN NoTomb
                ELSE IF tomb # NoTomb THEN tomb
                ELSE [heldAt |-> engine.writes, converged |-> FALSE]
    IN IF kept = NoTomb THEN NoTomb
       ELSE [kept EXCEPT !.converged = "r" \notin heldStores /\ (@ \/ Carried(kept, view, met))]

\* pod_contacts, for a view that lists somebody.
PodContacts(heldStores, view, converged) ==
    own \cup (IF converged THEN {} ELSE view.listed \cup TicketedUnlisted(heldStores, view))

-----------------------------------------------------------------------------
(* derive_pod_contacts, step by step: the lock, the view, the rest of what it  *)
(* reads with the first write, and a statement to the engine per store.        *)

\* Mutant of Holds: the derivations of a pod run beside one another.
HoldsAlways(t) == At(t, "waits")

Holds(t) == At(t, "waits") /\ Head(lock) = t

\* derive_pod_contacts begun by t, for the stores the registry names now: it queues
\* for the pod's lock.
Derives(t, record, heldStores, met) ==
    /\ task' = [task EXCEPT ![t] = [record EXCEPT !.at = "waits", !.held = heldStores, !.met = met]]
    /\ lock' = Append(lock, t)

\* The lock taken and the membership view read; a start keeps what its stores are
\* tracked with.
ReadsView(t) ==
    /\ Holds(t)
    /\ task' = [task EXCEPT ![t].at = "read", ![t].view = engine.writes,
                            ![t].ticketed = [s \in Stores |-> IF tracked[s] = NoDoc THEN {}
                                                              ELSE tracked[s].contacts]]
    /\ UNCHANGED <<case, engine, netVars, own, held, tracked, tomb, lock, starting, events,
                   seen, foundEmpty, left>>

\* set_contacts; an untracked store is refused, and the refusal dropped.
SetContacts(s, contacts, view) ==
    IF tracked[s] = NoDoc THEN tracked
    ELSE [tracked EXCEPT ![s].contacts = contacts, ![s].view = view]

\* The guard dropped, by its holder.
Unlocked(t) == IF Head(lock) = t THEN Tail(lock) ELSE lock

\* What a task keeps of its derivation; a start goes on holding the lock.
Derived(t, departed, nobody) ==
    task' = [task EXCEPT ![t] =
               IF t = "start" THEN [@ EXCEPT !.at = "joins"]
               ELSE [Idle EXCEPT !.at = "derived", !.held = task[t].held, !.toward = task[t].toward,
                                 !.departed = departed, !.nobody = nobody]]
GivesBack(t) == lock' = IF t = "start" THEN lock ELSE Unlocked(t)

\* pod_contacts' own devices, write count and tombstone, then the first store's
\* contacts.  A view that lists nobody leaves the contacts as they are.
ComputesContacts(t) ==
    /\ At(t, "read")
    /\ LET view == Views[task[t].view]
           after == TombAfter(task[t].held, view, task[t].met)
           contacts == PodContacts(task[t].held, view, after # NoTomb /\ after.converged)
       IN IF view.nobody
          THEN /\ Derived(t, FALSE, TRUE)
               /\ GivesBack(t)
               /\ UNCHANGED <<tracked, tomb>>
          ELSE /\ tomb' = after
               /\ tracked' = SetContacts("m", contacts, task[t].view)
               /\ task' = [task EXCEPT ![t].at = "states m",
                                       ![t].contacts = [s \in Stores |-> contacts]]
               /\ UNCHANGED lock
    /\ UNCHANGED <<case, engine, netVars, own, held, starting, events, seen, foundEmpty, left>>

\* A derivation whose reads fail: nothing is set, and nothing is said to be found.
DerivationFails(t) ==
    /\ At(t, "read")
    /\ May("fails") /\ Spend("fails")
    /\ Derived(t, FALSE, FALSE)
    /\ GivesBack(t)
    /\ UNCHANGED <<case, engine, netVars, own, held, tracked, tomb, starting, events, seen,
                   foundEmpty>>

\* The engine told of the membership store's contacts, then the record store's set.
StatesMembership(t) ==
    /\ At(t, "states m")
    /\ engine' = StateContacts(engine, "m", task[t].contacts["m"])
    /\ LET both == "r" \in task[t].held
       IN IF both
          THEN /\ tracked' = SetContacts("r", task[t].contacts["r"], task[t].view)
               /\ Moves(t, "states r")
               /\ UNCHANGED lock
          ELSE Derived(t, Views[task[t].view].departed, FALSE) /\ GivesBack(t) /\ UNCHANGED tracked
    /\ UNCHANGED <<case, netVars, own, held, tomb, starting, events, seen, foundEmpty, left>>

StatesRecords(t) ==
    /\ At(t, "states r")
    /\ engine' = StateContacts(engine, "r", task[t].contacts["r"])
    /\ Derived(t, Views[task[t].view].departed, FALSE)
    /\ GivesBack(t)
    /\ UNCHANGED <<case, netVars, own, held, tracked, tomb, starting, events, seen, foundEmpty, left>>

\* derive_before_start's second half: each ticket contact whose node the derived
\* ones leave out is kept beside them, and the lock given back.
JoinsTicketed ==
    /\ At("start", "joins")
    /\ LET all(s) == tracked[s].contacts
                     \cup {c \in task["start"].ticketed[s] :
                              \A k \in tracked[s].contacts : k[1] # c[1]}
       IN /\ tracked' = [s \in Stores |-> [tracked[s] EXCEPT !.contacts = all(s)]]
          /\ engine' = StateContacts(StateContacts(engine, "m", all("m")), "r", all("r"))
          /\ task' = [task EXCEPT !["start"] = [Idle EXCEPT !.at = "starts m",
                                                            !.contacts = [s \in Stores |-> all(s)]]]
    /\ lock' = Unlocked("start")
    /\ UNCHANGED <<case, netVars, own, held, tomb, starting, events, seen, foundEmpty, left>>

-----------------------------------------------------------------------------
(* sync_pod_store over a list of stores. *)

MembershipFirst(stores) == (IF "m" \in stores THEN <<"m">> ELSE <<>>)
                           \o (IF "r" \in stores THEN <<"r">> ELSE <<>>)

\* draw, at most Setting.draws contacts.
Draws(contacts) ==
    {d \in SUBSET contacts : Cardinality(d) = IF Cardinality(contacts) <= Setting.draws
                                              THEN Cardinality(contacts) ELSE Setting.draws}

\* The next store of the list as it is tracked now.  The pass draws per store; the
\* others were handed their contacts.
AsksStore(t) ==
    /\ At(t, "syncs")
    /\ LET s == Head(task[t].todo)
       IN IF task[t].todo = <<>> THEN task' = [task EXCEPT ![t] = Idle]
          ELSE IF tracked[s] = NoDoc THEN task' = [task EXCEPT ![t].todo = Tail(@)]
          ELSE \E drawn \in IF t = "pass" THEN Draws(tracked[s].contacts) ELSE {task[t].toward} :
                  task' = [task EXCEPT ![t].at = "asked", ![t].toward = drawn,
                                       ![t].swarm = tracked[s].strategy = "Swarm"]
    /\ UNCHANGED <<case, engine, netVars, own, held, tracked, tomb, lock, starting, events,
                   seen, foundEmpty, left>>

\* A join is taken unless the subscription held lost its receive loop.
JoinTaken(s) == IF <<s, engine.active[s]>> \in ended THEN BOOLEAN ELSE {TRUE}

TurnedOut(s) == tracked[s] # NoDoc /\ tracked[s].strategy = "ContactsOnly"

\* The replica is there: a record store dropped is not opened by a handle kept of it.
IsThere(s) == s \in held /\ (s = "r" => ~At("forget", "turns out"))

\* start_pod_store, and the second read of the strategy.
StartsStore(t) ==
    /\ At(t, "asked")
    /\ LET s == Head(task[t].todo)
       IN \E joins \in JoinTaken(s) :
            LET fails  == ~IsThere(s) \/ (task[t].swarm /\ ~joins)
                leaves == ~fails /\ task[t].swarm /\ TurnedOut(s)
            IN /\ engine' = IF IsThere(s)
                            THEN StartSync(engine, s, task[t].toward, task[t].swarm, joins) ELSE engine
               /\ task' = [task EXCEPT
                             ![t].at = IF leaves THEN "leaves" ELSE "syncs",
                             ![t].todo = IF leaves THEN @
                                         ELSE IF fails /\ t = "watch" THEN <<>> ELSE Tail(@)]
    /\ UNCHANGED <<case, netVars, own, held, tracked, tomb, lock, starting, events, seen,
                   foundEmpty, left>>

LeavesAgain(t) ==
    /\ At(t, "leaves")
    /\ engine' = LeaveGossip(engine, Head(task[t].todo))
    /\ task' = [task EXCEPT ![t].at = "syncs", ![t].todo = Tail(@)]
    /\ UNCHANGED <<case, netVars, own, held, tracked, tomb, lock, starting, events, seen,
                   foundEmpty, left>>

-----------------------------------------------------------------------------
(* The tasks. *)

\* pod_reconcile_pass over this pod.
PassRuns ==
    /\ At("pass", "idle") /\ held # {} /\ ~starting
    /\ IF Setting.recurring THEN UNCHANGED left ELSE May("passes") /\ Spend("passes")
    /\ Derives("pass", Idle, held, {})
    /\ UNCHANGED <<case, engine, netVars, own, held, tracked, tomb, starting, events, seen, foundEmpty>>

\* reconcile_pod past the derivation.
PassDerived ==
    /\ At("pass", "derived")
    /\ foundEmpty' = task["pass"].nobody
    /\ task' = [task EXCEPT !["pass"].at = "syncs",
                            !["pass"].todo = MembershipFirst(task["pass"].held)]
    /\ UNCHANGED <<case, engine, netVars, own, held, tracked, tomb, lock, starting, events,
                   seen, left>>

\* watch_own_devices: the PMS lists another device, and the pod is derived and
\* dialed toward it.
OwnDeviceListed ==
    /\ At("own", "idle") /\ May("devices")
    /\ \E c \in {x \in Contacts : x[2] = Me} \ own :
         /\ own' = own \cup {c}
         /\ IF starting THEN UNCHANGED <<task, lock>>
            ELSE Derives("own", [Idle EXCEPT !.toward = {c}], held, {})
    /\ Spend("devices")
    /\ UNCHANGED <<case, engine, netVars, held, tracked, tomb, starting, events, seen, foundEmpty>>

OwnDerived ==
    /\ At("own", "derived")
    /\ task' = [task EXCEPT !["own"].at = "syncs", !["own"].todo = MembershipFirst(task["own"].held)]
    /\ UNCHANGED <<case, engine, netVars, own, held, tracked, tomb, lock, starting, events,
                   seen, foundEmpty, left>>

\* write_pod_entry into the membership store, with the derivation that ends it.
WritesMembership ==
    /\ At("write", "idle") /\ "r" \in held
    /\ engine.writes < Len(Views) /\ Views[engine.writes + 1].by = "write"
    /\ engine' = [engine EXCEPT !.writes = @ + 1]
    /\ Tell([kind |-> "other"])
    /\ Derives("write", Idle, held, {})
    /\ UNCHANGED <<case, netVars, own, held, tracked, tomb, starting, seen, foundEmpty, left>>

WriteReturns ==
    /\ At("write", "derived")
    /\ task' = [task EXCEPT !["write"] = Idle]
    /\ UNCHANGED <<case, engine, netVars, own, held, tracked, tomb, lock, starting, events,
                   seen, foundEmpty, left>>

\* Seen::note over the events queued.
Noted(now) ==
    [seen EXCEPT !.met = now \cup {<<e.contact, e.opened>> : e \in {x \in events : x.kind = "met"}},
                 !.broughtBy = @ \cup {e.peer : e \in {x \in events : x.kind = "entry"}}]

Listing == \E e \in events : e.kind \in {"entry", "lagged"}

\* watch_pod_membership wakes: what is queued joins, and without a listing event
\* it waits for the store to settle.
WatcherWakes ==
    /\ At("watch", "idle") /\ events # {}
    /\ seen' = Noted({})
    /\ events' = {}
    /\ IF Listing THEN Derives("watch", Idle, held, seen'.met)
       ELSE Moves("watch", "settles") /\ UNCHANGED lock
    /\ UNCHANGED <<case, engine, netVars, own, held, tracked, tomb, starting, foundEmpty, left>>

WatcherSettles ==
    /\ At("watch", "settles")
    /\ seen' = Noted(seen.met)
    /\ events' = {}
    /\ Derives("watch", Idle, held, seen'.met)
    /\ UNCHANGED <<case, engine, netVars, own, held, tracked, tomb, starting, foundEmpty, left>>

\* The rest of the watcher's turn: a departed replica dials again whoever brought
\* entries (dial_again), one held again reconciles both stores (dial_drawn).  While
\* a start is in flight the record store is left to it.
WatcherDerived ==
    /\ At("watch", "derived")
    /\ LET stores == IF starting THEN task["watch"].held \ {"r"} ELSE task["watch"].held
           again  == {s[1] : s \in {x \in seen.met : x[1][1] \in seen.broughtBy}}
           found  == task["watch"].departed
       IN /\ seen' = [seen EXCEPT !.broughtBy = @ \ {c[1] : c \in again}, !.departed = found]
          /\ IF found /\ again # {}
             THEN task' = [task EXCEPT !["watch"].at = "syncs", !["watch"].toward = again,
                                       !["watch"].todo = MembershipFirst(stores)]
             ELSE IF seen.departed /\ ~found /\ "r" \in stores
             THEN \E drawn \in Draws(tracked["m"].contacts) :
                    task' = [task EXCEPT !["watch"].at = "syncs", !["watch"].toward = drawn,
                                         !["watch"].todo = MembershipFirst(stores)]
             ELSE task' = [task EXCEPT !["watch"] = Idle]
    /\ UNCHANGED <<case, engine, netVars, own, held, tracked, tomb, lock, starting, events,
                   foundEmpty, left>>

\* forget_pod, for an identity whose departure stands: the record store dropped,
PodForgotten ==
    /\ At("forget", "idle") /\ At("start", "idle") /\ At("write", "idle")
    /\ "r" \in held /\ View.departed
    /\ engine' = LeaveRecords(engine)
    /\ Moves("forget", "turns out")
    /\ UNCHANGED <<case, netVars, own, held, tracked, tomb, lock, starting, events, seen, foundEmpty, left>>

\* the tracked documents once it is, and the membership store turned out of its swarm.
TurnedContactsOnly(docs) == [docs EXCEPT !["r"] = NoDoc, !["m"].strategy = "ContactsOnly"]

ForgetTurnsOut ==
    /\ At("forget", "turns out")
    /\ held' = {"m"}
    /\ tracked' = TurnedContactsOnly(tracked)
    /\ Moves("forget", "leaves swarm")
    /\ UNCHANGED <<case, engine, netVars, own, tomb, lock, starting, events, seen, foundEmpty, left>>

ForgetLeavesSwarm ==
    /\ At("forget", "leaves swarm")
    /\ engine' = LeaveGossip(engine, "m")
    /\ Moves("forget", "idle")
    /\ UNCHANGED <<case, netVars, own, held, tracked, tomb, lock, starting, events, seen, foundEmpty, left>>

\* import_pod_observing of a pod held as a tombstone: held out of the passes' reach,
ImportBegins ==
    /\ At("start", "idle") /\ At("forget", "idle") /\ May("imports")
    /\ held = {"m"}
    /\ starting' = TRUE
    /\ Moves("start", "imports")
    /\ Spend("imports")
    /\ UNCHANGED <<case, engine, netVars, own, held, tracked, tomb, lock, events, seen, foundEmpty>>

\* import_records_onto_tombstone, up to the derivation before its start.
ImportsRecords ==
    /\ At("start", "imports")
    /\ held' = Stores
    /\ tracked' = [tracked EXCEPT !["r"] = Doc(Setting.ticketed, "Swarm"), !["m"].strategy = "Swarm"]
    /\ Derives("start", Idle, Stores, {})
    /\ UNCHANGED <<case, engine, netVars, own, tomb, starting, events, seen, foundEmpty, left>>

\* start_pod: both stores ordered and the membership store started, in its swarm,
StartsMembership ==
    /\ At("start", "starts m")
    /\ \E joins \in JoinTaken("m") :
         /\ engine' = StartSync(OrderAfter(engine), "m", task["start"].contacts["m"], TRUE, joins)
         /\ IF joins THEN Moves("start", "awaits") /\ UNCHANGED starting
            ELSE task' = [task EXCEPT !["start"] = Idle] /\ starting' = FALSE
    /\ UNCHANGED <<case, netVars, own, held, tracked, tomb, lock, events, seen, foundEmpty, left>>

\* await_own_membership: until the view shows no departure, or the wait is over.
AwaitsMembership ==
    /\ At("start", "awaits")
    /\ Moves("start", "starts r")
    /\ UNCHANGED <<case, engine, netVars, own, held, tracked, tomb, lock, starting, events, seen,
                   foundEmpty, left>>

\* then the record store.
StartsRecords ==
    /\ At("start", "starts r")
    /\ \E joins \in JoinTaken("r") :
         engine' = StartSync(engine, "r", task["start"].contacts["r"], TRUE, joins)
    /\ task' = [task EXCEPT !["start"] = Idle]
    /\ starting' = FALSE
    /\ UNCHANGED <<case, netVars, own, held, tracked, tomb, lock, events, seen, foundEmpty, left>>

-----------------------------------------------------------------------------
(* Sessions, gossip and timers, as the engine takes them. *)

\* The view a session with c may bring: a rejoin's only once it is under way.
Brought(c) ==
    engine.writes < Len(Views)
    /\ \/ Views[engine.writes + 1].by = "session"
       \/ Views[engine.writes + 1].by = "rejoin" /\ "r" \in held

\* A session over d that went through: of the membership store it may bring the
\* next view, and its end is told.
SessionEnds(d, opened, after) ==
    \/ /\ engine' = after
       /\ events' = IF d[1] = "r" THEN events
                    ELSE events \cup {[kind |-> "met", contact |-> d[2], opened |-> opened]}
    \/ /\ d[1] = "m" /\ Brought(d[2])
       /\ engine' = [after EXCEPT !.writes = @ + 1]
       /\ events' = events \cup {[kind |-> "met", contact |-> d[2], opened |-> opened],
                                 [kind |-> "entry", peer |-> d[2][1]]}

DialGoesThrough(d) ==
    /\ engine.dialing[d] # <<>> /\ d \in Setting.reachable
    /\ SessionEnds(d, Head(engine.dialing[d]).opened, DialReached(engine, d))
    /\ UNCHANGED <<case, netVars, own, held, tracked, tomb, lock, task, starting, seen, foundEmpty, left>>

\* A dial that connects and comes to nothing.
DialFails(d) ==
    /\ engine.dialing[d] # <<>> /\ May("cuts")
    /\ engine' = DialReached(engine, d)
    /\ TellOf(d[1])
    /\ Spend("cuts")
    /\ UNCHANGED <<case, netVars, own, held, tracked, tomb, lock, task, starting, seen, foundEmpty>>

\* A dial that cannot connect; its retry series may have run its span.
DialMisses(d) ==
    /\ engine.dialing[d] # <<>> /\ May("misses")
    /\ \E spent \in BOOLEAN : engine' = DialUnreached(engine, d, spent)
    /\ TellOf(d[1])
    /\ Spend("misses")
    /\ UNCHANGED <<case, netVars, own, held, tracked, tomb, lock, task, starting, seen, foundEmpty>>

RetryFires(r) ==
    /\ engine' = Redial(engine, r)
    /\ UNCHANGED <<case, netVars, nodeVars, left>>

Accepts(d) ==
    /\ May("accepts") /\ d[1] \in engine.syncing /\ ~IsRunning(engine.slot[d])
    /\ engine' = AcceptSync(engine, d)
    /\ Spend("accepts")
    /\ UNCHANGED <<case, netVars, nodeVars>>

AcceptEnds(d) ==
    /\ engine.accepting[d] # <<>>
    /\ SessionEnds(d, Head(engine.accepting[d]), AcceptFinished(engine, d))
    /\ UNCHANGED <<case, netVars, own, held, tracked, tomb, lock, task, starting, seen, foundEmpty, left>>

\* receive_loop of the subscription to s passes on what gossip tells it.
LoopReportsUp(s, p) ==
    /\ engine.active[s] # 0 /\ <<s, engine.active[s]>> \notin ended
    /\ <<s, engine.active[s], p>> \notin topic /\ May("ups")
    /\ topic' = {x \in topic : x[1] # s \/ x[2] = engine.active[s]} \cup {<<s, engine.active[s], p>>}
    /\ inbox' = Append(inbox, [kind |-> "up", store |-> s, peer |-> p, generation |-> engine.active[s]])
    /\ Spend("ups")
    /\ UNCHANGED <<case, engine, ended, nodeVars>>

LoopReportsDown(s, p) ==
    /\ engine.active[s] # 0 /\ <<s, engine.active[s]>> \notin ended
    /\ <<s, engine.active[s], p>> \in topic /\ May("downs")
    /\ topic' = topic \ {<<s, engine.active[s], p>>}
    /\ inbox' = Append(inbox, [kind |-> "down", store |-> s, peer |-> p, generation |-> engine.active[s]])
    /\ Spend("downs")
    /\ UNCHANGED <<case, engine, ended, nodeVars>>

LoopReportsNews(s, p) ==
    /\ engine.active[s] # 0 /\ <<s, engine.active[s]>> \notin ended
    /\ <<s, engine.active[s], p>> \in topic /\ May("reports")
    /\ inbox' = Append(inbox, [kind |-> "report", store |-> s, peer |-> p, generation |-> 0])
    /\ Spend("reports")
    /\ UNCHANGED <<case, engine, topic, ended, nodeVars>>

\* The actor's loop takes the next message of its inbox.
ActorReads ==
    /\ inbox # <<>>
    /\ LET m == Head(inbox)
       IN /\ IF m.kind = "report" THEN UNCHANGED events ELSE TellOf(m.store)
          /\ engine' = CASE m.kind = "up"     -> NeighborUp(engine, m.store, m.peer, m.generation)
                         [] m.kind = "down"   -> NeighborDown(engine, m.store, m.peer, m.generation)
                         [] m.kind = "report" -> SyncReported(engine, m.store, m.peer, Default)
    /\ inbox' = Tail(inbox)
    /\ UNCHANGED <<case, topic, ended, own, held, tracked, tomb, lock, task, starting, seen, foundEmpty, left>>

\* The gossip library ends a subscription's stream.
LoopEnds(s) ==
    /\ engine.active[s] # 0 /\ <<s, engine.active[s]>> \notin ended /\ May("ends")
    /\ ended' = ended \cup {<<s, engine.active[s]>>}
    /\ Spend("ends")
    /\ UNCHANGED <<case, engine, topic, inbox, nodeVars>>

\* next_ended.
ActorHearsEnd(loop) ==
    /\ loop \in ended
    /\ engine' = LoopEnded(engine, loop[1], loop[2])
    /\ ended' = ended \ {loop}
    /\ UNCHANGED <<case, topic, inbox, nodeVars, left>>

\* The watcher's buffer runs over.
EventsLag ==
    /\ events # {} /\ May("lags")
    /\ events' = {[kind |-> "lagged"]}
    /\ Spend("lags")
    /\ UNCHANGED <<case, engine, netVars, own, held, tracked, tomb, lock, task, starting, seen, foundEmpty>>
=============================================================================
