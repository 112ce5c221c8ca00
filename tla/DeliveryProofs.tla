--------------------------- MODULE DeliveryProofs ---------------------------
(***************************************************************************)
(* Theorems about the contacts and the swarms of a pod, for any peers,     *)
(* contacts, views and budgets of faults:                                  *)
(*                                                                         *)
(*   NeighborsAlwaysCurrent  nobody is a neighbor by the word of a         *)
(*                           subscription that is over;                    *)
(*   ViewsNeverGoBack        the contacts of a store are never derived     *)
(*                           from an earlier view again.                   *)
(*                                                                         *)
(* Most of what the actor does leaves its subscriptions, its neighbors and *)
(* the write count alone (Quiet), which is shown once per operator.        *)
(***************************************************************************)
EXTENDS Delivery, TLAPS

EngineFields == DOMAIN NewEngine

\* The shape of an engine, as far as its subscriptions and neighbors go.
EngineOK(e) ==
    /\ DOMAIN e = EngineFields
    /\ DOMAIN e.active = Stores /\ \A s \in Stores : e.active[s] \in 0 .. e.generation
    /\ DOMAIN e.neighbors = Peers /\ \A p \in Peers : e.neighbors[p] \subseteq Stores
    /\ e.generation \in Nat /\ e.writes \in Nat

\* f is e but for its dials, its contacts and its timers.
Quiet(e, f) ==
    /\ DOMAIN f = DOMAIN e
    /\ f.active = e.active /\ f.generation = e.generation
    /\ f.neighbors = e.neighbors /\ f.writes = e.writes

LEMMA FieldsAre ==
    EngineFields = {"syncing", "ordered", "active", "generation", "neighbors", "stated",
                    "inSession", "slot", "held", "series", "nextSeries", "redials", "dialing",
                    "accepting", "writes"}
BY Zenon DEF EngineFields, NewEngine

LEMMA QuietKeeps ==
    ASSUME NEW e, NEW f, EngineOK(e), Quiet(e, f)
    PROVE  EngineOK(f)
BY Zenon DEF EngineOK, Quiet

LEMMA QuietTwice ==
    ASSUME NEW e, NEW f, NEW g, Quiet(e, f), Quiet(f, g)
    PROVE  Quiet(e, g)
BY Zenon DEF Quiet

LEMMA DialQuiet ==
    ASSUME NEW e, DOMAIN e = EngineFields, NEW s, NEW c, NEW reason
    PROVE  Quiet(e, Dial(e, s, c, reason))
BY FieldsAre, Zenon DEF Quiet, Dial

\* sync_with_identity: the dials and what is held behind them.
LEMMA SyncQuiet ==
    ASSUME NEW e, DOMAIN e = EngineFields, NEW s, NEW c, NEW reason
    PROVE  Quiet(e, SyncWithIdentity(e, s, c, reason))
<1> DEFINE first == IF IsRunning(e.slot[<<"m", c>>]) THEN e ELSE Dial(e, "m", c, reason)
<1>1. Quiet(e, first)
  BY DialQuiet DEF Quiet
<1>2. DOMAIN first = EngineFields
  BY <1>1, Zenon DEF Quiet
<1>3. Quiet(first, Dial(first, "r", c, reason))
  BY <1>2, DialQuiet, Zenon
<1>4. Quiet(first, [first EXCEPT !.held[c] = Held(@, reason)])
  BY <1>2, FieldsAre, Zenon DEF Quiet
<1>5. \/ SyncWithIdentity(e, s, c, reason) = Dial(e, s, c, reason)
      \/ SyncWithIdentity(e, s, c, reason) = Dial(first, "r", c, reason)
      \/ SyncWithIdentity(e, s, c, reason) = [first EXCEPT !.held[c] = Held(@, reason)]
  BY Zenon DEF SyncWithIdentity
<1> HIDE DEF first
<1> QED BY <1>1, <1>3, <1>4, <1>5, DialQuiet, QuietTwice

LEMMA DialAllQuiet ==
    ASSUME NEW e, DOMAIN e = EngineFields, NEW s, NEW contacts, NEW reason
    PROVE  Quiet(e, DialAll(e, s, contacts, reason))
BY FieldsAre, Zenon DEF Quiet, DialAll

LEMMA ReleaseQuiet ==
    ASSUME NEW e, DOMAIN e = EngineFields, NEW c
    PROVE  Quiet(e, ReleaseHeld(e, c))
<1> DEFINE reasons == e.held[c]
           first == [e EXCEPT !.held[c] = <<>>]
           second == IF Len(reasons) > 0 THEN Dial(first, "r", c, reasons[1]) ELSE first
<1>1. Quiet(e, first) /\ DOMAIN first = EngineFields
  BY FieldsAre, Zenon DEF Quiet
<1>2. Quiet(first, second) /\ DOMAIN second = EngineFields
  <2> HIDE DEF first
  <2>1. Quiet(first, Dial(first, "r", c, reasons[1]))
    BY <1>1, DialQuiet, Zenon
  <2> QED BY <1>1, <2>1, Zenon DEF Quiet
<1>3. \/ ReleaseHeld(e, c) = second
      \/ ReleaseHeld(e, c) = Dial(second, "r", c, reasons[2])
  BY Zenon DEF ReleaseHeld
<1>4. Quiet(second, Dial(second, "r", c, reasons[2]))
  BY <1>2, DialQuiet, Zenon
<1> HIDE DEF first, second, reasons
<1> QED BY <1>1, <1>2, <1>3, <1>4, QuietTwice

\* on_sync_finished, whatever of the pair it frees, releases or dials again.
LEMMA FinishedQuiet ==
    ASSUME NEW e, DOMAIN e = EngineFields, NEW s, NEW c, NEW origin
    PROVE  Quiet(e, Finished(e, s, c, origin))
<1> DEFINE d == <<s, c>>
           freed == [e EXCEPT !.slot[d] = Finish(@, origin)]
           loose == IF s = "m" /\ ~ResyncQueued(e.slot[d], origin) /\ ~IsRunning(freed.slot[d])
                    THEN ReleaseHeld(freed, c) ELSE freed
<1>1. Quiet(e, freed) /\ DOMAIN freed = EngineFields
  BY FieldsAre, Zenon DEF Quiet
<1>2. Quiet(freed, loose) /\ DOMAIN loose = EngineFields
  <2> HIDE DEF freed
  <2>1. Quiet(freed, ReleaseHeld(freed, c))
    BY <1>1, ReleaseQuiet, Zenon
  <2> QED BY <1>1, <2>1, Zenon DEF Quiet
<1>3. \/ Finished(e, s, c, origin) = loose
      \/ Finished(e, s, c, origin) = SyncWithIdentity(loose, s, c, "Resync")
  BY Zenon DEF Finished
<1>4. Quiet(loose, SyncWithIdentity(loose, s, c, "Resync"))
  BY <1>2, SyncQuiet, Zenon
<1> HIDE DEF freed, loose
<1> QED BY <1>1, <1>2, <1>3, <1>4, QuietTwice

\* The ends of sessions, the timers and the accepts.
LEMMA DialReachedQuiet ==
    ASSUME NEW e, DOMAIN e = EngineFields, NEW d
    PROVE  Quiet(e, DialReached(e, d))
<1> DEFINE f == [e EXCEPT !.series[d] = NoSeries, !.dialing[d] = Tail(@)]
<1>1. Quiet(e, f) /\ DOMAIN f = EngineFields
  BY FieldsAre, Zenon DEF Quiet
<1>2. Quiet(f, Finished(f, d[1], d[2], Head(e.dialing[d]).reason))
  <2> HIDE DEF f
  <2> QED BY <1>1, FinishedQuiet, Zenon
<1>3. DialReached(e, d) = Finished(f, d[1], d[2], Head(e.dialing[d]).reason)
  BY Zenon DEF DialReached
<1> HIDE DEF f
<1> QED BY <1>1, <1>2, <1>3, QuietTwice, Zenon

LEMMA RetryQuiet ==
    ASSUME NEW e, DOMAIN e = EngineFields, NEW d, NEW reason, NEW spent
    PROVE  Quiet(e, RetryUnreached(e, d, reason, spent))
BY FieldsAre, Zenon DEF Quiet, RetryUnreached

LEMMA DialUnreachedQuiet ==
    ASSUME NEW e, DOMAIN e = EngineFields, NEW d, NEW spent
    PROVE  Quiet(e, DialUnreached(e, d, spent))
<1> DEFINE reason == Head(e.dialing[d]).reason
           f == [e EXCEPT !.dialing[d] = Tail(@)]
           g == Finished(f, d[1], d[2], reason)
<1>1. Quiet(e, f) /\ DOMAIN f = EngineFields
  BY FieldsAre, Zenon DEF Quiet
<1>2. Quiet(f, g) /\ DOMAIN g = EngineFields
  <2> HIDE DEF f
  <2>1. Quiet(f, Finished(f, d[1], d[2], reason))
    BY <1>1, FinishedQuiet, Zenon
  <2> QED BY <1>1, <2>1, Zenon DEF Quiet
<1>3. DialUnreached(e, d, spent) = RetryUnreached(g, d, reason, spent)
  BY Zenon DEF DialUnreached
<1> HIDE DEF f, g
<1>4. Quiet(g, RetryUnreached(g, d, reason, spent))
  BY <1>2, RetryQuiet, Zenon
<1> QED BY <1>1, <1>2, <1>3, <1>4, QuietTwice, Zenon

LEMMA RedialQuiet ==
    ASSUME NEW e, DOMAIN e = EngineFields, NEW retry
    PROVE  Quiet(e, Redial(e, retry))
<1> DEFINE d == retry[1]
           f == [e EXCEPT !.redials = @ \ {retry},
                          !.series[d] = IF @ = NoSeries THEN @ ELSE Fired(@, retry[3])]
<1>1. Quiet(e, f) /\ DOMAIN f = EngineFields
  BY FieldsAre, Zenon DEF Quiet
<1>2. Redial(e, retry) = SyncWithIdentity(f, d[1], d[2], retry[2])
  BY Zenon DEF Redial
<1> HIDE DEF f
<1>3. Quiet(f, SyncWithIdentity(f, d[1], d[2], retry[2]))
  BY <1>1, SyncQuiet, Zenon
<1> QED BY <1>1, <1>2, <1>3, QuietTwice, Zenon

LEMMA AcceptFinishedQuiet ==
    ASSUME NEW e, DOMAIN e = EngineFields, NEW d
    PROVE  Quiet(e, AcceptFinished(e, d))
<1> DEFINE r == ReleaseIdentity(e, d)
           f == [r EXCEPT !.series[d] = NoSeries, !.accepting[d] = Tail(@)]
<1>1. Quiet(e, r) /\ DOMAIN r = EngineFields
  BY FieldsAre, Zenon DEF Quiet, ReleaseIdentity
<1>2. AcceptFinished(e, d) = Finished(f, d[1], d[2], "Accept")
  BY Zenon DEF AcceptFinished
<1> HIDE DEF r
<1>3. Quiet(r, f) /\ DOMAIN f = EngineFields
  BY <1>1, FieldsAre, Zenon DEF Quiet
<1> HIDE DEF f
<1>4. Quiet(f, Finished(f, d[1], d[2], "Accept"))
  BY <1>3, FinishedQuiet, Zenon
<1> QED BY <1>1, <1>2, <1>3, <1>4, QuietTwice, Zenon

LEMMA PlainQuiet ==
    ASSUME NEW e, DOMAIN e = EngineFields
    PROVE  /\ \A s, contacts : Quiet(e, StateContacts(e, s, contacts))
           /\ Quiet(e, OrderAfter(e))
           /\ \A d : Quiet(e, AcceptSync(e, d))
           /\ \A s, p, reporter : Quiet(e, SyncReported(e, s, p, reporter))
<1>1. \A s, contacts : Quiet(e, StateContacts(e, s, contacts))
  BY FieldsAre, Zenon DEF Quiet, StateContacts
<1>2. Quiet(e, OrderAfter(e))
  BY FieldsAre, Zenon DEF Quiet, OrderAfter
<1>3. \A d : Quiet(e, AcceptSync(e, d))
  BY FieldsAre, Zenon DEF Quiet, AcceptSync
<1>4. \A s, p, reporter : Quiet(e, SyncReported(e, s, p, reporter))
  <2> SUFFICES ASSUME NEW s, NEW p, NEW reporter PROVE Quiet(e, SyncReported(e, s, p, reporter))
    BY Zenon
  <2>1. \A callees : Quiet(e, DialAll(e, s, callees, "SyncReport"))
    BY DialAllQuiet, Zenon
  <2>2. \/ SyncReported(e, s, p, reporter) = e
        \/ \E callees : SyncReported(e, s, p, reporter) = DialAll(e, s, callees, "SyncReport")
    BY Zenon DEF SyncReported
  <2> QED BY <2>1, <2>2, Zenon DEF Quiet
<1> QED BY <1>1, <1>2, <1>3, <1>4, Zenon
-----------------------------------------------------------------------------
(* What a step may do to the subscriptions and the neighbors of an engine.  *)

\* A topic not held is subscribed under the next generation.
Joined(e, f, s) ==
    /\ DOMAIN f = DOMAIN e
    /\ e.active[s] = 0
    /\ f.active = [e.active EXCEPT ![s] = e.generation + 1] /\ f.generation = e.generation + 1
    /\ f.neighbors = e.neighbors /\ f.writes = e.writes

\* A topic is left, and with it its neighbors.
Quit(e, f, s) ==
    /\ DOMAIN f = DOMAIN e
    /\ f.active = [e.active EXCEPT ![s] = 0] /\ f.generation = e.generation
    /\ f.neighbors = [p \in Peers |-> e.neighbors[p] \ {s}] /\ f.writes = e.writes

LEMMA StartSyncSteps ==
    ASSUME NEW e, DOMAIN e = EngineFields, DOMAIN e.active = Stores, NEW s \in Stores,
           NEW contacts, NEW join, NEW joins
    PROVE  \/ Quiet(e, StartSync(e, s, contacts, join, joins))
           \/ Joined(e, StartSync(e, s, contacts, join, joins), s)
<1> DEFINE opened == [e EXCEPT !.syncing = @ \cup {s}, !.stated[s] = @ \cup contacts]
           joined == IF join THEN Join(opened, s) ELSE opened
           dialed == UNION {IdentitiesOf(opened, s, c[1]) : c \in contacts}
           after == DialAll(joined, s, dialed, "DirectJoin")
<1>1. Quiet(e, opened) /\ DOMAIN opened = EngineFields
  BY FieldsAre, Zenon DEF Quiet
<1>2. StartSync(e, s, contacts, join, joins) = opened \/ StartSync(e, s, contacts, join, joins) = after
  BY Zenon DEF StartSync
<1> HIDE DEF opened
<1>3. (Quiet(e, joined) \/ Joined(e, joined, s)) /\ DOMAIN joined = EngineFields
  BY <1>1, FieldsAre, Zenon DEF Quiet, Joined, Join
<1> HIDE DEF joined, dialed
<1>4. Quiet(joined, after)
  BY <1>3, DialAllQuiet, Zenon
<1> HIDE DEF after
<1>5. Quiet(e, after) \/ Joined(e, after, s)
  BY <1>3, <1>4, Zenon DEF Quiet, Joined
<1> QED BY <1>1, <1>2, <1>5, Zenon

LEMMA LeaveGossipQuits ==
    ASSUME NEW e, DOMAIN e = EngineFields, NEW s
    PROVE  Quit(e, LeaveGossip(e, s), s)
<1> DEFINE f == [e EXCEPT !.active[s] = 0]
<1>1. /\ DOMAIN f = EngineFields /\ f.active = [e.active EXCEPT ![s] = 0]
      /\ f.generation = e.generation /\ f.neighbors = e.neighbors /\ f.writes = e.writes
  BY FieldsAre, Zenon
<1>2. LeaveGossip(e, s) = ForgetTopic(f, s)
  BY Zenon DEF LeaveGossip
<1> HIDE DEF f
<1> QED BY <1>1, <1>2, FieldsAre DEF Quit, ForgetTopic

LEMMA LeaveRecordsSteps ==
    ASSUME NEW e, DOMAIN e = EngineFields
    PROVE  Quiet(e, LeaveRecords(e)) \/ Quit(e, LeaveRecords(e), "r")
<1> DEFINE unheld == [e EXCEPT !.ordered = FALSE, !.held = [c \in Contacts |-> <<>>]]
           cleared == [unheld EXCEPT !.syncing = @ \ {"r"}, !.stated["r"] = {},
                         !.inSession = [d \in Dials |-> IF d[1] = "r" THEN 0 ELSE @[d]],
                         !.slot = [d \in Dials |-> IF d[1] = "r" THEN IdlePeer ELSE @[d]],
                         !.series = [d \in Dials |-> IF d[1] = "r" THEN NoSeries ELSE @[d]]]
<1>1. Quiet(e, unheld) /\ DOMAIN unheld = EngineFields
  BY FieldsAre, Zenon DEF Quiet
<1>2. LeaveRecords(e) = unheld \/ LeaveRecords(e) = LeaveGossip(cleared, "r")
  BY Zenon DEF LeaveRecords
<1> HIDE DEF unheld
<1>3. Quiet(unheld, cleared) /\ DOMAIN cleared = EngineFields
  BY <1>1, FieldsAre, Zenon DEF Quiet
<1> HIDE DEF cleared
<1>4. Quit(cleared, LeaveGossip(cleared, "r"), "r")
  BY <1>3, LeaveGossipQuits, Zenon
<1>5. Quit(e, LeaveGossip(cleared, "r"), "r")
  BY <1>1, <1>3, <1>4, Zenon DEF Quiet, Quit
<1> QED BY <1>1, <1>2, <1>5, Zenon

\* p becomes a neighbor in s, or stops being one.
With(neighbors, p, s) == [neighbors EXCEPT ![p] = @ \cup {s}]
Without(neighbors, p, s) == [neighbors EXCEPT ![p] = @ \ {s}]

\* A neighbor comes by the word of the subscription held.
LEMMA UpSteps ==
    ASSUME NEW e, DOMAIN e = EngineFields, NEW s, NEW p, NEW g
    PROVE  LET f == NeighborUp(e, s, p, g)
           IN  /\ DOMAIN f = EngineFields /\ f.active = e.active
               /\ f.generation = e.generation /\ f.writes = e.writes
               /\ \/ f.neighbors = e.neighbors
                  \/ g = e.active[s] /\ f.neighbors = With(e.neighbors, p, s)
<1> DEFINE up == [e EXCEPT !.neighbors[p] = @ \cup {s}]
           after == DialAll(up, s, IdentitiesOf(e, s, p), "NewNeighbor")
<1>1. /\ DOMAIN up = EngineFields /\ up.active = e.active
      /\ up.generation = e.generation /\ up.writes = e.writes
      /\ up.neighbors = With(e.neighbors, p, s)
  BY FieldsAre, Zenon DEF With
<1>2. \/ NeighborUp(e, s, p, g) = e
      \/ e.active[s] = g /\ NeighborUp(e, s, p, g) = after
  BY Zenon DEF NeighborUp, IsCurrent
<1> HIDE DEF up
<1>3. Quiet(up, after)
  BY <1>1, DialAllQuiet, Zenon
<1> HIDE DEF after
<1> QED BY <1>1, <1>2, <1>3, Zenon DEF Quiet

\* A neighbor goes by the word of the subscription held.
LEMMA DownSteps ==
    ASSUME NEW e, DOMAIN e = EngineFields, NEW s, NEW p, NEW g
    PROVE  LET f == NeighborDown(e, s, p, g)
           IN  /\ DOMAIN f = EngineFields /\ f.active = e.active
               /\ f.generation = e.generation /\ f.writes = e.writes
               /\ \/ g # e.active[s] /\ f.neighbors = e.neighbors
                  \/ f.neighbors = Without(e.neighbors, p, s)
<1> DEFINE gone == [e EXCEPT !.neighbors[p] = @ \ {s}]
           f == NeighborDown(e, s, p, g)
           ended1 == [gone EXCEPT !.series = [d \in Dials |-> IF d[2][1] = p THEN NoSeries ELSE @[d]]]
<1>1. /\ DOMAIN gone = EngineFields /\ gone.active = e.active
      /\ gone.generation = e.generation /\ gone.writes = e.writes
      /\ gone.neighbors = Without(e.neighbors, p, s)
  BY FieldsAre, Zenon DEF Without
<1>2. (g # e.active[s] /\ f = e) \/ f = gone \/ f = ended1
  BY Zenon DEF NeighborDown, IsCurrent, ForgetNeighbor
<1> HIDE DEF gone, f
<1>3. /\ DOMAIN ended1 = EngineFields /\ ended1.active = gone.active
      /\ ended1.generation = gone.generation /\ ended1.writes = gone.writes
      /\ ended1.neighbors = gone.neighbors
  BY <1>1, FieldsAre, Zenon
<1> HIDE DEF ended1
<1> QED BY <1>1, <1>2, <1>3, Zenon DEF f
-----------------------------------------------------------------------------
(* Neighbors.  What a receive loop said is in the topic until it says        *)
(* otherwise, which the actor may not have read.                             *)

Message == [kind : {"up", "down", "report"}, store : Stores, peer : Peers, generation : Nat]
Down(s, p, g) == [kind |-> "down", store |-> s, peer |-> p, generation |-> g]

\* No generation is ahead of the engine's.
GenerationsOK ==
    /\ inbox \in Seq(Message)
    /\ \A k \in DOMAIN inbox :
          /\ inbox[k].generation <= engine.generation
          /\ inbox[k].kind = "up" => inbox[k].generation # 0
    /\ \A x \in topic : x[2] \in 0 .. engine.generation

\* An "up" of the subscription held stands in the topic, or is taken back further
\* down the inbox.
UpsOK ==
    \A k \in DOMAIN inbox :
        LET m == inbox[k]
        IN  m.kind = "up" /\ m.generation = engine.active[m.store] =>
              \/ <<m.store, m.generation, m.peer>> \in topic
              \/ \E j \in DOMAIN inbox : j > k /\ inbox[j] = Down(m.store, m.peer, m.generation)

SwarmInv == EngineOK(engine) /\ held \subseteq Stores /\ GenerationsOK /\ UpsOK /\ NeighborsAreCurrent

\* A step that leaves the subscriptions and the neighbors alone; a write may come.
Calm(e, f) ==
    /\ DOMAIN f = DOMAIN e
    /\ f.active = e.active /\ f.generation = e.generation /\ f.neighbors = e.neighbors
    /\ f.writes \in {e.writes, e.writes + 1}

EngineMoves(e, f) ==
    Calm(e, f) \/ (\E s \in Stores : Joined(e, f, s)) \/ (\E s : Quit(e, f, s))

LEMMA QuietMoves ==
    ASSUME NEW e, NEW f, Quiet(e, f)
    PROVE  EngineMoves(e, f)
BY Zenon DEF Quiet, Calm, EngineMoves

\* Whatever the actor does but read its inbox.
LEMMA MovesKeepSwarm ==
    ASSUME SwarmInv, UNCHANGED <<topic, inbox>>, (held \subseteq Stores)', EngineMoves(engine, engine')
    PROVE  SwarmInv'
<1> DEFINE e == engine
           f == engine'
<1>1. CASE Calm(e, f)
  <2>1. EngineOK(f)
    BY <1>1 DEF SwarmInv, EngineOK, Calm
  <2>2. GenerationsOK'
    BY <1>1, Zenon DEF SwarmInv, GenerationsOK, Calm
  <2>3. UpsOK'
    BY <1>1, Zenon DEF SwarmInv, UpsOK, Calm
  <2>4. NeighborsAreCurrent'
    BY <1>1, ZenonT(40) DEF SwarmInv, NeighborsAreCurrent, Calm
  <2> QED BY <2>1, <2>2, <2>3, <2>4, Zenon DEF SwarmInv
<1>2. ASSUME NEW s \in Stores, Joined(e, f, s)
      PROVE  SwarmInv'
  <2>1. /\ f.active[s] = e.generation + 1 /\ f.generation = e.generation + 1
        /\ \A z \in Stores \ {s} : f.active[z] = e.active[z]
        /\ f.neighbors = e.neighbors /\ e.active[s] = 0 /\ e.generation \in Nat
    BY <1>2, Zenon DEF SwarmInv, EngineOK, Joined
  <2>2. EngineOK(f)
    BY <1>2, <2>1 DEF SwarmInv, EngineOK, Joined
  <2>3. GenerationsOK'
    <3>0. \A k \in DOMAIN inbox : inbox[k] \in Message /\ inbox[k].generation <= e.generation
      BY DEF SwarmInv, GenerationsOK
    <3>1. \A k \in DOMAIN inbox : inbox[k].generation \in Nat /\ inbox[k].generation <= e.generation
      BY <3>0, Zenon DEF Message
    <3>2. \A k \in DOMAIN inbox : inbox[k].generation <= f.generation
      BY <2>1, <3>1
    <3>3. \A x \in topic : x[2] \in 0 .. f.generation
      BY <2>1 DEF SwarmInv, GenerationsOK
    <3> QED BY <3>2, <3>3, Zenon DEF SwarmInv, GenerationsOK
  <2>4. UpsOK'
    <3> SUFFICES ASSUME NEW k \in DOMAIN inbox, inbox[k].kind = "up",
                        inbox[k].generation = f.active[inbox[k].store]
                 PROVE  \/ <<inbox[k].store, inbox[k].generation, inbox[k].peer>> \in topic
                        \/ \E j \in DOMAIN inbox :
                              j > k /\ inbox[j] = Down(inbox[k].store, inbox[k].peer, inbox[k].generation)
      BY Zenon DEF UpsOK
    <3>1. inbox[k] \in Message /\ inbox[k].generation <= e.generation
      BY DEF SwarmInv, GenerationsOK
    <3>2. inbox[k].store # s
      BY <2>1, <3>1 DEF Message
    <3> QED BY <2>1, <3>1, <3>2, Zenon DEF SwarmInv, UpsOK, Message
  <2>5. NeighborsAreCurrent'
    <3>1. \A p \in Peers : s \notin e.neighbors[p]
      BY <2>1, Zenon DEF SwarmInv, NeighborsAreCurrent
    <3>2. \A p \in Peers : \A z \in e.neighbors[p] : z \in Stores \ {s}
      BY <3>1, Zenon DEF SwarmInv, EngineOK
    <3> QED BY <2>1, <3>2 DEF SwarmInv, NeighborsAreCurrent
  <2> QED BY <2>2, <2>3, <2>4, <2>5, Zenon DEF SwarmInv
<1>3. ASSUME NEW s, Quit(e, f, s)
      PROVE  SwarmInv'
  <2>1. /\ s \in Stores => f.active[s] = 0
        /\ f.generation = e.generation /\ e.generation \in Nat
        /\ \A z \in Stores \ {s} : f.active[z] = e.active[z]
        /\ \A p \in Peers : f.neighbors[p] = e.neighbors[p] \ {s}
    BY <1>3, Zenon DEF SwarmInv, EngineOK, Quit
  <2>2. EngineOK(f)
    BY <1>3, <2>1 DEF SwarmInv, EngineOK, Quit
  <2>3. GenerationsOK'
    BY <2>1, Zenon DEF SwarmInv, GenerationsOK
  <2>4. UpsOK'
    <3> SUFFICES ASSUME NEW k \in DOMAIN inbox, inbox[k].kind = "up",
                        inbox[k].generation = f.active[inbox[k].store]
                 PROVE  \/ <<inbox[k].store, inbox[k].generation, inbox[k].peer>> \in topic
                        \/ \E j \in DOMAIN inbox :
                              j > k /\ inbox[j] = Down(inbox[k].store, inbox[k].peer, inbox[k].generation)
      BY Zenon DEF UpsOK
    <3>1. inbox[k] \in Message /\ inbox[k].generation # 0
      BY DEF SwarmInv, GenerationsOK
    <3>2. inbox[k].store # s
      BY <2>1, <3>1, Zenon DEF Message
    <3> QED BY <2>1, <3>1, <3>2, Zenon DEF SwarmInv, UpsOK, Message
  <2>5. NeighborsAreCurrent'
    <3>1. \A p \in Peers : \A z \in f.neighbors[p] : z \in e.neighbors[p] /\ z \in Stores \ {s}
      BY <2>1, Zenon DEF SwarmInv, EngineOK
    <3> QED BY <2>1, <3>1 DEF SwarmInv, NeighborsAreCurrent
  <2> QED BY <2>2, <2>3, <2>4, <2>5, Zenon DEF SwarmInv
<1> QED BY <1>1, <1>2, <1>3, Zenon DEF EngineMoves

\* A receive loop tells of a neighbor: what it said of the subscription before the
\* one held is forgotten.
LEMMA UpKeepsSwarm ==
    ASSUME SwarmInv, NEW s \in Stores, NEW p \in Peers, LoopReportsUp(s, p)
    PROVE  SwarmInv'
<1> DEFINE g == engine.active[s]
           m == [kind |-> "up", store |-> s, peer |-> p, generation |-> g]
<1>1. /\ engine' = engine /\ held' = held /\ inbox' = Append(inbox, m) /\ g # 0
      /\ topic' = {x \in topic : x[1] # s \/ x[2] = g} \cup {<<s, g, p>>}
  BY Zenon DEF LoopReportsUp, nodeVars
<1>2. g \in Nat /\ g <= engine.generation /\ m \in Message
  BY DEF SwarmInv, EngineOK, Message
<1>3. inbox \in Seq(Message)
  BY Zenon DEF SwarmInv, GenerationsOK
<1>4. /\ inbox' \in Seq(Message) /\ DOMAIN inbox' = 1 .. Len(inbox) + 1
      /\ DOMAIN inbox = 1 .. Len(inbox) /\ Len(inbox) \in Nat
      /\ \A k \in DOMAIN inbox : inbox'[k] = inbox[k]
      /\ inbox'[Len(inbox) + 1] = m
  BY <1>1, <1>2, <1>3
<1>5. \A z \in Stores : \A y : <<z, engine.active[z], y>> \in topic => <<z, engine.active[z], y>> \in topic'
  BY <1>1, Zenon
<1>6. GenerationsOK'
  <2>1. \A x \in topic' : x[2] \in 0 .. engine.generation
    BY <1>1, <1>2 DEF SwarmInv, GenerationsOK
  <2>2. \A k \in DOMAIN inbox' : /\ inbox'[k].generation <= engine.generation
                                 /\ inbox'[k].kind = "up" => inbox'[k].generation # 0
    BY <1>1, <1>2, <1>4 DEF SwarmInv, GenerationsOK
  <2> QED BY <1>1, <1>4, <2>1, <2>2, Zenon DEF GenerationsOK
<1>7. UpsOK'
  <2> SUFFICES ASSUME NEW k \in DOMAIN inbox', inbox'[k].kind = "up",
                      inbox'[k].generation = engine.active[inbox'[k].store]
               PROVE  \/ <<inbox'[k].store, inbox'[k].generation, inbox'[k].peer>> \in topic'
                      \/ \E j \in DOMAIN inbox' :
                            j > k /\ inbox'[j] = Down(inbox'[k].store, inbox'[k].peer, inbox'[k].generation)
    BY <1>1, Zenon DEF UpsOK
  <2>1. CASE k = Len(inbox) + 1
    BY <1>1, <1>4, <2>1
  <2>2. CASE k # Len(inbox) + 1
    <3>1. k \in DOMAIN inbox /\ inbox'[k] = inbox[k] /\ inbox[k] \in Message
      BY <1>3, <1>4, <2>2
    <3>2. \/ <<inbox[k].store, inbox[k].generation, inbox[k].peer>> \in topic
          \/ \E j \in DOMAIN inbox :
                j > k /\ inbox[j] = Down(inbox[k].store, inbox[k].peer, inbox[k].generation)
      BY <3>1, Zenon DEF SwarmInv, UpsOK
    <3>3. CASE <<inbox[k].store, inbox[k].generation, inbox[k].peer>> \in topic
      BY <1>5, <3>1, <3>3, Zenon DEF Message
    <3>4. CASE \E j \in DOMAIN inbox :
                  j > k /\ inbox[j] = Down(inbox[k].store, inbox[k].peer, inbox[k].generation)
      BY <1>4, <3>1, <3>4
    <3> QED BY <3>2, <3>3, <3>4, Zenon
  <2> QED BY <2>1, <2>2, Zenon
<1>8. NeighborsAreCurrent'
  <2> SUFFICES ASSUME NEW q \in Peers, NEW z \in engine.neighbors[q]
               PROVE  /\ engine.active[z] # 0
                      /\ \/ <<z, engine.active[z], q>> \in topic'
                         \/ \E k \in DOMAIN inbox' : inbox'[k] = Down(z, q, engine.active[z])
    BY <1>1 DEF NeighborsAreCurrent, Down
  <2>1. z \in Stores
    BY Zenon DEF SwarmInv, EngineOK
  <2>2. /\ engine.active[z] # 0
        /\ \/ <<z, engine.active[z], q>> \in topic
           \/ \E k \in DOMAIN inbox : inbox[k] = Down(z, q, engine.active[z])
    BY Zenon DEF SwarmInv, NeighborsAreCurrent, Down
  <2> QED BY <1>4, <1>5, <2>1, <2>2
<1> QED BY <1>1, <1>6, <1>7, <1>8, Zenon DEF SwarmInv

\* It takes one back, or passes on news: something joins the inbox, and only what
\* the loop takes back goes from the topic.
LEMMA SaidKeepsSwarm ==
    ASSUME SwarmInv, NEW s \in Stores, NEW p \in Peers, LoopReportsDown(s, p) \/ LoopReportsNews(s, p)
    PROVE  SwarmInv'
<1> DEFINE g == engine.active[s]
<1> PICK m \in Message :
      /\ inbox' = Append(inbox, m) /\ m.kind # "up" /\ m.generation <= engine.generation
      /\ topic' = topic \/ (m = Down(s, p, g) /\ topic' = topic \ {<<s, g, p>>})
  <2>1. g \in Nat /\ g <= engine.generation
    BY DEF SwarmInv, EngineOK
  <2>2. CASE LoopReportsDown(s, p)
    <3>1. Down(s, p, g) \in Message
      BY <2>1, Zenon DEF Message, Down
    <3> QED BY <2>1, <2>2, <3>1, Zenon DEF LoopReportsDown, Down
  <2>3. CASE LoopReportsNews(s, p)
    <3> DEFINE n == [kind |-> "report", store |-> s, peer |-> p, generation |-> 0]
    <3>1. n \in Message /\ n.generation <= engine.generation
      BY <2>1 DEF Message, SwarmInv, EngineOK
    <3> QED BY <2>3, <3>1, Zenon DEF LoopReportsNews
  <2> QED BY <2>2, <2>3, Zenon
<1>1. engine' = engine /\ held' = held
  BY Zenon DEF LoopReportsDown, LoopReportsNews, nodeVars
<1>3. inbox \in Seq(Message)
  BY Zenon DEF SwarmInv, GenerationsOK
<1>4. /\ inbox' \in Seq(Message) /\ DOMAIN inbox' = 1 .. Len(inbox) + 1
      /\ DOMAIN inbox = 1 .. Len(inbox) /\ Len(inbox) \in Nat
      /\ \A k \in DOMAIN inbox : inbox'[k] = inbox[k]
      /\ inbox'[Len(inbox) + 1] = m
  BY <1>3
<1>5. \A z, h, y : <<z, h, y>> \in topic => \/ <<z, h, y>> \in topic'
                                            \/ m = Down(z, y, h)
  BY Zenon
<1>6. GenerationsOK'
  <2>1. \A x \in topic' : x[2] \in 0 .. engine.generation
    BY Zenon DEF SwarmInv, GenerationsOK
  <2>2. \A k \in DOMAIN inbox' : /\ inbox'[k].generation <= engine.generation
                                 /\ inbox'[k].kind = "up" => inbox'[k].generation # 0
    BY <1>4 DEF SwarmInv, GenerationsOK
  <2> QED BY <1>1, <1>4, <2>1, <2>2, Zenon DEF GenerationsOK
<1>7. UpsOK'
  <2> SUFFICES ASSUME NEW k \in DOMAIN inbox', inbox'[k].kind = "up",
                      inbox'[k].generation = engine.active[inbox'[k].store]
               PROVE  \/ <<inbox'[k].store, inbox'[k].generation, inbox'[k].peer>> \in topic'
                      \/ \E j \in DOMAIN inbox' :
                            j > k /\ inbox'[j] = Down(inbox'[k].store, inbox'[k].peer, inbox'[k].generation)
    BY <1>1, Zenon DEF UpsOK
  <2>1. k \in DOMAIN inbox /\ inbox'[k] = inbox[k] /\ Len(inbox) + 1 > k
    BY <1>4
  <2>2. \/ <<inbox[k].store, inbox[k].generation, inbox[k].peer>> \in topic
        \/ \E j \in DOMAIN inbox :
              j > k /\ inbox[j] = Down(inbox[k].store, inbox[k].peer, inbox[k].generation)
    BY <2>1, Zenon DEF SwarmInv, UpsOK
  <2>3. CASE <<inbox[k].store, inbox[k].generation, inbox[k].peer>> \in topic
    <3>1. Len(inbox) + 1 \in DOMAIN inbox'
      BY <1>4
    <3> QED BY <1>4, <1>5, <2>1, <2>3, <3>1, Zenon
  <2>4. ASSUME NEW j \in DOMAIN inbox, j > k
        PROVE  j \in DOMAIN inbox' /\ inbox'[j] = inbox[j]
    BY <1>4
  <2> QED BY <2>1, <2>2, <2>3, <2>4, Zenon
<1>8. NeighborsAreCurrent'
  <2> SUFFICES ASSUME NEW q \in Peers, NEW z \in engine.neighbors[q]
               PROVE  /\ engine.active[z] # 0
                      /\ \/ <<z, engine.active[z], q>> \in topic'
                         \/ \E k \in DOMAIN inbox' : inbox'[k] = Down(z, q, engine.active[z])
    BY <1>1 DEF NeighborsAreCurrent, Down
  <2>2. /\ engine.active[z] # 0
        /\ \/ <<z, engine.active[z], q>> \in topic
           \/ \E k \in DOMAIN inbox : inbox[k] = Down(z, q, engine.active[z])
    BY Zenon DEF SwarmInv, NeighborsAreCurrent, Down
  <2> QED BY <1>4, <1>5, <2>2
<1> QED BY <1>1, <1>6, <1>7, <1>8, Zenon DEF SwarmInv

\* What reading a message does to the neighbors.
LEMMA ReadSteps ==
    ASSUME SwarmInv, ActorReads
    PROVE  LET m == Head(inbox)
               e == engine
               f == engine'
           IN  /\ DOMAIN f = DOMAIN e /\ f.active = e.active /\ f.generation = e.generation
               /\ f.writes = e.writes
               /\ \/ f.neighbors = e.neighbors /\ (m.kind = "down" => m.generation # e.active[m.store])
                  \/ /\ m.kind = "up" /\ m.generation = e.active[m.store]
                     /\ f.neighbors = With(e.neighbors, m.peer, m.store)
                  \/ m.kind = "down" /\ f.neighbors = Without(e.neighbors, m.peer, m.store)
<1> DEFINE m == Head(inbox)
           e == engine
           f == engine'
<1>0. m \in Message
  BY DEF SwarmInv, GenerationsOK, ActorReads
<1>1. DOMAIN e = EngineFields
  BY Zenon DEF SwarmInv, EngineOK
<1>2. CASE m.kind = "up"
  <2>1. f = NeighborUp(e, m.store, m.peer, m.generation)
    BY <1>2, Zenon DEF ActorReads
  <2>2. /\ DOMAIN f = EngineFields /\ f.active = e.active
        /\ f.generation = e.generation /\ f.writes = e.writes
        /\ \/ f.neighbors = e.neighbors
           \/ /\ m.generation = e.active[m.store]
              /\ f.neighbors = With(e.neighbors, m.peer, m.store)
    <3> HIDE DEF m, e, f
    <3> QED BY <1>1, <2>1, UpSteps
  <2> QED BY <1>1, <1>2, <2>2, Zenon
<1>3. CASE m.kind = "down"
  <2>1. f = NeighborDown(e, m.store, m.peer, m.generation)
    BY <1>3, Zenon DEF ActorReads
  <2>2. /\ DOMAIN f = EngineFields /\ f.active = e.active
        /\ f.generation = e.generation /\ f.writes = e.writes
        /\ \/ m.generation # e.active[m.store] /\ f.neighbors = e.neighbors
           \/ f.neighbors = Without(e.neighbors, m.peer, m.store)
    <3> HIDE DEF m, e, f
    <3> QED BY <1>1, <2>1, DownSteps
  <2> QED BY <1>1, <1>3, <2>2, Zenon
<1>4. CASE m.kind = "report"
  <2>1. f = SyncReported(e, m.store, m.peer, Default)
    BY <1>4, Zenon DEF ActorReads
  <2>2. Quiet(e, f)
    BY <1>1, <2>1, PlainQuiet, Zenon
  <2> QED BY <1>4, <2>2, Zenon DEF Quiet
<1> QED BY <1>0, <1>2, <1>3, <1>4, Zenon DEF Message

\* The actor reads its inbox.
LEMMA ReadKeepsSwarm ==
    ASSUME SwarmInv, ActorReads
    PROVE  SwarmInv'
<1> DEFINE m == Head(inbox)
<1>1. inbox \in Seq(Message) /\ inbox # <<>> /\ inbox' = Tail(inbox) /\ topic' = topic
      /\ held' = held
  BY Zenon DEF SwarmInv, GenerationsOK, ActorReads
<1>2. /\ m \in Message /\ m = inbox[1] /\ 1 \in DOMAIN inbox
      /\ inbox' \in Seq(Message)
      /\ DOMAIN inbox = 1 .. Len(inbox) /\ DOMAIN inbox' = 1 .. Len(inbox) - 1
      /\ \A k \in DOMAIN inbox' : k + 1 \in DOMAIN inbox /\ inbox'[k] = inbox[k + 1]
      /\ Len(inbox) \in Nat
  BY <1>1
<1>3. \A k \in DOMAIN inbox : k # 1 => k - 1 \in DOMAIN inbox' /\ inbox'[k - 1] = inbox[k]
  BY <1>2
<1> DEFINE e == engine
           f == engine'
<1>4. /\ DOMAIN f = DOMAIN e /\ f.active = e.active /\ f.generation = e.generation
      /\ f.writes = e.writes
      /\ \/ f.neighbors = e.neighbors /\ (m.kind = "down" => m.generation # e.active[m.store])
         \/ /\ m.kind = "up" /\ m.generation = e.active[m.store]
            /\ f.neighbors = With(e.neighbors, m.peer, m.store)
         \/ m.kind = "down" /\ f.neighbors = Without(e.neighbors, m.peer, m.store)
  BY ReadSteps, Zenon
<1>5. EngineOK(f)
  <2>1. EngineOK(e) /\ m.peer \in Peers /\ m.store \in Stores
    BY <1>2, Zenon DEF SwarmInv, Message
  <2>2. DOMAIN f.neighbors = Peers /\ \A p \in Peers : f.neighbors[p] \subseteq Stores
    BY <1>4, <2>1 DEF EngineOK, With, Without
  <2> QED BY <1>4, <2>1, <2>2, Zenon DEF EngineOK
<1>6. GenerationsOK'
  BY <1>1, <1>2, <1>4, Zenon DEF SwarmInv, GenerationsOK
<1>7. UpsOK'
  <2> SUFFICES ASSUME NEW k \in DOMAIN inbox', inbox'[k].kind = "up",
                      inbox'[k].generation = e.active[inbox'[k].store]
               PROVE  \/ <<inbox'[k].store, inbox'[k].generation, inbox'[k].peer>> \in topic
                      \/ \E j \in DOMAIN inbox' :
                            j > k /\ inbox'[j] = Down(inbox'[k].store, inbox'[k].peer, inbox'[k].generation)
    BY <1>1, <1>4, Zenon DEF UpsOK
  <2>1. k + 1 \in DOMAIN inbox /\ inbox'[k] = inbox[k + 1] /\ k \in Nat /\ k > 0
    BY <1>2
  <2>2. \/ <<inbox[k + 1].store, inbox[k + 1].generation, inbox[k + 1].peer>> \in topic
        \/ \E j \in DOMAIN inbox : j > k + 1 /\ inbox[j] =
              Down(inbox[k + 1].store, inbox[k + 1].peer, inbox[k + 1].generation)
    BY <2>1, Zenon DEF SwarmInv, UpsOK
  <2>3. ASSUME NEW j \in DOMAIN inbox, j > k + 1
        PROVE  j - 1 \in DOMAIN inbox' /\ j - 1 > k /\ inbox'[j - 1] = inbox[j]
    BY <1>2, <1>3, <2>1, <2>3
  <2> QED BY <2>1, <2>2, <2>3, Zenon
<1>8. NeighborsAreCurrent'
  <2> SUFFICES ASSUME NEW q \in Peers, NEW z \in f.neighbors[q]
               PROVE  /\ e.active[z] # 0
                      /\ \/ <<z, e.active[z], q>> \in topic
                         \/ \E k \in DOMAIN inbox' : inbox'[k] = Down(z, q, e.active[z])
    BY <1>1, <1>4, ZenonT(40) DEF NeighborsAreCurrent, Down
  <2>1. CASE z \in e.neighbors[q] /\ m # Down(z, q, e.active[z])
    <3>1. /\ e.active[z] # 0
          /\ \/ <<z, e.active[z], q>> \in topic
             \/ \E k \in DOMAIN inbox : inbox[k] = Down(z, q, e.active[z])
      BY <2>1, Zenon DEF SwarmInv, NeighborsAreCurrent, Down
    <3> QED BY <1>2, <1>3, <2>1, <3>1, Zenon
  <2>2. CASE z \in e.neighbors[q] /\ m = Down(z, q, e.active[z])
    <3>1. m.kind = "down" /\ m.store = z /\ m.peer = q /\ m.generation = e.active[m.store]
      BY <2>2 DEF Down
    <3>2. f.neighbors = Without(e.neighbors, q, z)
      BY <1>4, <3>1, Zenon
    <3>3. z \notin f.neighbors[q]
      BY <3>2, Zenon DEF SwarmInv, EngineOK, Without
    <3> QED BY <3>3, Zenon
  <2>3. CASE z \notin e.neighbors[q]
    <3>a. DOMAIN e.neighbors = Peers
      BY Zenon DEF SwarmInv, EngineOK
    <3>b. f.neighbors # e.neighbors
      BY <2>3, Zenon
    <3>c. f.neighbors # Without(e.neighbors, m.peer, m.store)
      BY <2>3, <3>a, Zenon DEF Without
    <3>d. /\ m.kind = "up" /\ m.generation = e.active[m.store]
          /\ f.neighbors = With(e.neighbors, m.peer, m.store)
      BY <1>4, <3>b, <3>c, Zenon
    <3>e. m.peer = q /\ m.store = z
      BY <2>3, <3>a, <3>d, Zenon DEF With
    <3>1. m.kind = "up" /\ m.peer = q /\ m.store = z /\ m.generation = e.active[z]
      BY <3>d, <3>e, Zenon
    <3>2. e.active[z] # 0
      BY <1>2, <3>1, Zenon DEF SwarmInv, GenerationsOK
    <3>3. \/ <<z, e.active[z], q>> \in topic
          \/ \E j \in DOMAIN inbox : j > 1 /\ inbox[j] = Down(z, q, e.active[z])
      BY <1>2, <3>1, Zenon DEF SwarmInv, UpsOK
    <3>4. ASSUME NEW j \in DOMAIN inbox, j > 1
          PROVE  j - 1 \in DOMAIN inbox' /\ inbox'[j - 1] = inbox[j]
      BY <1>2, <1>3, <3>4
    <3> QED BY <3>2, <3>3, <3>4, Zenon
  <2> QED BY <2>1, <2>2, <2>3, Zenon
<1> QED BY <1>1, <1>5, <1>6, <1>7, <1>8, Zenon DEF SwarmInv

\* Whatever goes on but the reports of the receive loops and their reading: the topic
\* and the inbox stay, and the engine takes one of the steps above.
LEMMA ActorMoves ==
    ASSUME EngineOK(engine), held \subseteq Stores, Steps \/ Happens
    PROVE  \/ ActorReads
           \/ \E s \in Stores, p \in Peers :
                 LoopReportsUp(s, p) \/ LoopReportsDown(s, p) \/ LoopReportsNews(s, p)
           \/ UNCHANGED <<topic, inbox>> /\ EngineMoves(engine, engine')
<1> DEFINE e == engine
           f == engine'
           Goal == UNCHANGED <<topic, inbox>> /\ EngineMoves(e, f)
<1>0. DOMAIN e = EngineFields /\ DOMAIN e.active = Stores /\ e.writes \in Nat
  BY Zenon DEF EngineOK
<1>same. EngineMoves(e, e)
  BY <1>0, Zenon DEF EngineMoves, Calm
<1>1. ASSUME NEW t \in Tasks, Runs(t) PROVE Goal
  <2>0. UNCHANGED <<topic, inbox>>
    BY <1>1, Zenon DEF Runs, ReadsView, ComputesContacts, StatesMembership, StatesRecords, AsksStore,
                StartsStore, LeavesAgain, netVars
  <2>1. CASE ReadsView(t) \/ ComputesContacts(t) \/ AsksStore(t)
    <3>1. f = e
      BY <2>1, Zenon DEF ReadsView, ComputesContacts, AsksStore
    <3> QED BY <1>same, <2>0, <3>1, Zenon
  <2>2. CASE StatesMembership(t) \/ StatesRecords(t)
    <3>1. PICK s, contacts : f = StateContacts(e, s, contacts)
      BY <2>2, Zenon DEF StatesMembership, StatesRecords
    <3> QED BY <1>0, <2>0, <3>1, PlainQuiet, QuietMoves, Zenon
  <2>3. CASE StartsStore(t)
    <3>1. PICK s, contacts, join, joins :
             f = IF IsThere(s) THEN StartSync(e, s, contacts, join, joins) ELSE e
      BY <2>3, Zenon DEF StartsStore
    <3>2. CASE ~IsThere(s)
      BY <1>same, <2>0, <3>1, <3>2, Zenon
    <3>3. CASE IsThere(s)
      <4>1. s \in Stores
        BY <3>3, Zenon DEF IsThere
      <4>2. f = StartSync(e, s, contacts, join, joins)
        BY <3>1, <3>3, Zenon
      <4>3. Quiet(e, f) \/ Joined(e, f, s)
        BY <1>0, <4>1, <4>2, StartSyncSteps, Zenon
      <4> QED BY <2>0, <4>1, <4>3, QuietMoves, Zenon DEF EngineMoves
    <3> QED BY <3>2, <3>3, Zenon
  <2>4. CASE LeavesAgain(t)
    <3>1. f = LeaveGossip(e, Head(task[t].todo))
      BY <2>4, Zenon DEF LeavesAgain
    <3> QED BY <1>0, <2>0, <3>1, LeaveGossipQuits, Zenon DEF EngineMoves
  <2> QED BY <1>1, <2>1, <2>2, <2>3, <2>4, Zenon DEF Runs
<1>2. CASE JoinsTicketed
  <2>1. PICK s, contacts, z, others : f = StateContacts(StateContacts(e, s, contacts), z, others)
    BY <1>2, Zenon DEF JoinsTicketed
  <2>2. Quiet(e, StateContacts(e, s, contacts))
    BY <1>0, PlainQuiet, Zenon
  <2>3. Quiet(StateContacts(e, s, contacts), f)
    BY <1>0, <2>1, <2>2, PlainQuiet DEF Quiet
  <2>4. UNCHANGED <<topic, inbox>>
    BY <1>2, Zenon DEF JoinsTicketed, netVars
  <2> QED BY <2>2, <2>3, <2>4, QuietTwice, QuietMoves, Zenon
<1>3. ASSUME \/ PassDerived \/ OwnDerived \/ WriteReturns \/ WatcherWakes \/ WatcherSettles
             \/ WatcherDerived \/ ForgetTurnsOut \/ ImportsRecords \/ AwaitsMembership
             \/ PassRuns \/ OwnDeviceListed \/ ImportBegins \/ EventsLag
             \/ (\E t \in Tasks : DerivationFails(t)) \/ (\E s \in Stores : LoopEnds(s))
      PROVE  Goal
  <2>1. UNCHANGED <<topic, inbox, engine>>
    BY <1>3, Zenon DEF PassDerived, OwnDerived, WriteReturns, WatcherWakes, WatcherSettles,
                WatcherDerived, ForgetTurnsOut, ImportsRecords, AwaitsMembership, PassRuns,
                OwnDeviceListed, ImportBegins, EventsLag, DerivationFails, LoopEnds, netVars
  <2> QED BY <1>same, <2>1, Zenon
<1>4. CASE ForgetLeavesSwarm
  <2>1. f = LeaveGossip(e, "m") /\ UNCHANGED <<topic, inbox>>
    BY <1>4, Zenon DEF ForgetLeavesSwarm, netVars
  <2> QED BY <1>0, <2>1, LeaveGossipQuits, Zenon DEF EngineMoves
<1>5. CASE PodForgotten
  <2>1. f = LeaveRecords(e) /\ UNCHANGED <<topic, inbox>>
    BY <1>5, Zenon DEF PodForgotten, netVars
  <2>2. Quiet(e, f) \/ Quit(e, f, "r")
    BY <1>0, <2>1, LeaveRecordsSteps, Zenon
  <2> QED BY <2>1, <2>2, QuietMoves, Zenon DEF EngineMoves
<1>6. CASE StartsMembership
  <2>1. PICK contacts, joins : f = StartSync(OrderAfter(e), "m", contacts, TRUE, joins)
    BY <1>6, Zenon DEF StartsMembership
  <2>2. Quiet(e, OrderAfter(e))
    BY <1>0, PlainQuiet, Zenon
  <2>3. Quiet(OrderAfter(e), f) \/ Joined(OrderAfter(e), f, "m")
    <3> DEFINE g == OrderAfter(e)
    <3>1. DOMAIN g = EngineFields /\ DOMAIN g.active = Stores
      BY <1>0, <2>2, Zenon DEF Quiet
    <3> HIDE DEF g
    <3>2. Quiet(g, StartSync(g, "m", contacts, TRUE, joins))
            \/ Joined(g, StartSync(g, "m", contacts, TRUE, joins), "m")
      BY <3>1, StartSyncSteps, Zenon DEF Stores
    <3> QED BY <2>1, <3>2, Zenon DEF g
  <2>4. Quiet(e, f) \/ Joined(e, f, "m")
    BY <2>2, <2>3, Zenon DEF Quiet, Joined
  <2>5. UNCHANGED <<topic, inbox>>
    BY <1>6, Zenon DEF StartsMembership, netVars
  <2> QED BY <2>4, <2>5, QuietMoves, Zenon DEF EngineMoves, Stores
<1>7. CASE StartsRecords
  <2>1. PICK contacts, joins : f = StartSync(e, "r", contacts, TRUE, joins)
    BY <1>7, Zenon DEF StartsRecords
  <2>2. Quiet(e, f) \/ Joined(e, f, "r")
    BY <1>0, <2>1, StartSyncSteps, Zenon DEF Stores
  <2>3. UNCHANGED <<topic, inbox>>
    BY <1>7, Zenon DEF StartsRecords, netVars
  <2> QED BY <2>2, <2>3, QuietMoves, Zenon DEF EngineMoves, Stores
<1>8. ASSUME NEW d \in Dials, DialGoesThrough(d) \/ AcceptEnds(d) PROVE Goal
  <2>1. PICK g : Quiet(e, g) /\ (f = g \/ f = [g EXCEPT !.writes = @ + 1])
    <3>1. \/ f = DialReached(e, d) \/ f = [DialReached(e, d) EXCEPT !.writes = @ + 1]
          \/ f = AcceptFinished(e, d) \/ f = [AcceptFinished(e, d) EXCEPT !.writes = @ + 1]
      BY <1>8, Zenon DEF DialGoesThrough, AcceptEnds, SessionEnds
    <3> QED BY <1>0, <3>1, DialReachedQuiet, AcceptFinishedQuiet, Zenon
  <2>2. Calm(e, f)
    BY <1>0, <2>1, FieldsAre, Zenon DEF Quiet, Calm
  <2>3. UNCHANGED <<topic, inbox>>
    BY <1>8, Zenon DEF DialGoesThrough, AcceptEnds, netVars
  <2> QED BY <2>2, <2>3, Zenon DEF EngineMoves
<1>9. CASE \E d \in Dials : DialFails(d) \/ DialMisses(d) \/ Accepts(d)
  <2>1. PICK d, spent : f = DialReached(e, d) \/ f = DialUnreached(e, d, spent) \/ f = AcceptSync(e, d)
    BY <1>9, Zenon DEF DialFails, DialMisses, Accepts
  <2>2. Quiet(e, f)
    BY <1>0, <2>1, DialReachedQuiet, DialUnreachedQuiet, PlainQuiet, Zenon
  <2>3. UNCHANGED <<topic, inbox>>
    BY <1>9, Zenon DEF DialFails, DialMisses, Accepts, netVars
  <2> QED BY <2>2, <2>3, QuietMoves, Zenon
<1>10. ASSUME NEW r, RetryFires(r) PROVE Goal
  <2>1. f = Redial(e, r) /\ UNCHANGED <<topic, inbox>>
    BY <1>10, Zenon DEF RetryFires, netVars
  <2> QED BY <1>0, <2>1, RedialQuiet, QuietMoves, Zenon
<1>11. ASSUME NEW l, ActorHearsEnd(l) PROVE Goal
  <2>1. f = LoopEnded(e, l[1], l[2]) /\ UNCHANGED <<topic, inbox>>
    BY <1>11, Zenon DEF ActorHearsEnd
  <2>2. f = e \/ f = LeaveGossip(e, l[1])
    BY <2>1, Zenon DEF LoopEnded
  <2> QED BY <1>0, <1>same, <2>1, <2>2, LeaveGossipQuits, Zenon DEF EngineMoves
<1>12. CASE WritesMembership
  <2>1. f = [e EXCEPT !.writes = @ + 1] /\ UNCHANGED <<topic, inbox>>
    BY <1>12, Zenon DEF WritesMembership, netVars
  <2>2. Calm(e, f)
    BY <1>0, <2>1, FieldsAre, Zenon DEF Calm
  <2> QED BY <2>1, <2>2, Zenon DEF EngineMoves
<1> HIDE DEF Goal, e, f
<1>13. CASE Steps
  BY <1>13, <1>1, <1>2, <1>3, <1>4, <1>6, <1>7, <1>8, <1>10, <1>11, Zenon DEF Steps, Goal, e, f
<1>14. CASE Happens
  BY <1>14, <1>3, <1>5, <1>9, <1>12, Zenon DEF Happens, Goal, e, f
<1> QED BY <1>13, <1>14, Zenon

\* Only a departure and an import change what the registry holds of the pod.
LEMMA HeldStores ==
    ASSUME held \subseteq Stores, Steps \/ Happens
    PROVE  held' \subseteq Stores
<1>1. CASE Steps
  BY <1>1, Zenon DEF Steps, Runs, ReadsView, ComputesContacts, StatesMembership, StatesRecords, AsksStore,
              StartsStore, LeavesAgain, JoinsTicketed, PassDerived, OwnDerived, WriteReturns,
              WatcherWakes, WatcherSettles, WatcherDerived, ForgetTurnsOut, ForgetLeavesSwarm,
              ImportsRecords, StartsMembership, AwaitsMembership, StartsRecords, DialGoesThrough,
              AcceptEnds, RetryFires, ActorReads, ActorHearsEnd, nodeVars, Stores
<1>2. CASE Happens
  BY <1>2, Zenon DEF Happens, PassRuns, OwnDeviceListed, WritesMembership, PodForgotten, ImportBegins,
              DerivationFails, DialFails, DialMisses, Accepts, LoopReportsUp, LoopReportsDown,
              LoopReportsNews, LoopEnds, EventsLag, nodeVars
<1> QED BY <1>1, <1>2, Zenon

\* The neighbors stay the subscriptions' own, whatever step is taken.
LEMMA SwarmStep == SwarmInv /\ [Next]_vars => SwarmInv'
<1> SUFFICES ASSUME SwarmInv, [Next]_vars PROVE SwarmInv'
  BY Zenon
<1>1. CASE UNCHANGED contactVars
  BY <1>1 DEF contactVars, netVars, nodeVars, SwarmInv, EngineOK, GenerationsOK, UpsOK,
              NeighborsAreCurrent
<1>2. CASE Steps \/ Happens
  <2>1. (held \subseteq Stores)'
    BY <1>2, HeldStores, Zenon DEF SwarmInv
  <2> QED BY <1>2, <2>1, ActorMoves, MovesKeepSwarm, ReadKeepsSwarm, UpKeepsSwarm, SaidKeepsSwarm, Zenon
          DEF SwarmInv
<1> QED BY <1>1, <1>2, Zenon DEF Next, vars

\* Init with its two subscriptions and no neighbor.
LEMMA InitSwarm == Init => SwarmInv
<1> SUFFICES ASSUME Init PROVE SwarmInv
  BY Zenon
<1>1. /\ DOMAIN engine = EngineFields /\ engine.generation = 2 /\ engine.writes = 1
      /\ engine.active = [s \in Stores |-> IF s = "m" THEN 1 ELSE 2]
      /\ engine.neighbors = [p \in Peers |-> {}]
  BY Zenon DEF Init, ContactsInit, NewEngine, EngineFields
<1>2. topic = {} /\ inbox = <<>> /\ held = Stores
  BY Zenon DEF Init, ContactsInit
<1> QED BY <1>1, <1>2 DEF SwarmInv, EngineOK, GenerationsOK, UpsOK, NeighborsAreCurrent

\* For any peers, contacts and views, and any interleaving of receive loops, their
\* ends, departures, joins and passes, nobody is a neighbor in a topic but by the word
\* of the subscription the topic holds now (GossipState::is_current,
\* forget_topic_neighbors).
THEOREM NeighborsAlwaysCurrent == Spec => []NeighborsAreCurrent
<1>1. SwarmInv => NeighborsAreCurrent
  BY Zenon DEF SwarmInv
<1> QED BY <1>1, InitSwarm, SwarmStep, PTL DEF Spec
-----------------------------------------------------------------------------
(* Derivations.  A pod's lock is a queue whose head holds it: a derivation     *)
(* under way is the head, so the view it read is the latest any derivation     *)
(* wrote.  A record store tracked anew starts from no view, and is tracked     *)
(* anew only where it was not.                                                 *)

TaskFields == DOMAIN Idle
DocFields == {"contacts", "ticketed", "strategy", "view"}

\* Where a derivation holds the lock, and where it has read its view; a start goes on
\* holding it.
DerivingAt(at) == at \in {"read", "states m", "states r"}
HoldingAt(t, at) == DerivingAt(at) \/ (t = "start" /\ at = "joins")
QueuedAt(t, at) == at = "waits" \/ HoldingAt(t, at)

TasksOK == DOMAIN task = Tasks /\ \A t \in Tasks : DOMAIN task[t] = TaskFields

LockOK ==
    /\ lock \in Seq(Tasks)
    /\ \A j, k \in DOMAIN lock : lock[j] = lock[k] => j = k
    /\ \A k \in DOMAIN lock : QueuedAt(lock[k], task[lock[k]].at)
    /\ \A t \in Tasks : QueuedAt(t, task[t].at) => \E k \in DOMAIN lock : lock[k] = t
    /\ \A t \in Tasks : HoldingAt(t, task[t].at) => lock[1] = t

DocsOK ==
    /\ DOMAIN tracked = Stores
    /\ \A s \in Stores : DOMAIN tracked[s] = DocFields /\ tracked[s].view \in 0 .. engine.writes

\* The view of a derivation under way is behind no document's.
ViewsOK ==
    \A t \in Tasks : DerivingAt(task[t].at) =>
        /\ task[t].view \in 0 .. engine.writes
        /\ \A s \in Stores : tracked[s].view <= task[t].view

\* A departure and a start exclude one another, and the record store is held and
\* tracked past the import of a start.
StartOK ==
    /\ ~At("start", "idle") => At("forget", "idle")
    /\ At("start", "imports") => "r" \notin held
    /\ ~At("start", "idle") /\ ~At("start", "imports") => "r" \in held
    /\ "r" \notin held => tracked["r"] = NoDoc

DerivationInv == engine.writes \in Nat /\ TasksOK /\ LockOK /\ DocsOK /\ ViewsOK /\ StartOK

\* How a step of t moves it as to the lock: beside it, into the queue, on as its holder,
\* or out of it.
Others(t) == TasksOK' /\ \A u \in Tasks \ {t} : task'[u] = task[u]
StaysAside(t) ==
    Others(t) /\ lock' = lock /\ ~QueuedAt(t, task[t].at) /\ ~QueuedAt(t, task'[t].at)
Queues(t) ==
    Others(t) /\ lock' = Append(lock, t) /\ ~QueuedAt(t, task[t].at) /\ task'[t].at = "waits"
GoesOn(t) ==
    Others(t) /\ lock' = lock /\ lock[1] = t /\ QueuedAt(t, task[t].at) /\ HoldingAt(t, task'[t].at)
GoesOut(t) ==
    Others(t) /\ lock' = Tail(lock) /\ HoldingAt(t, task[t].at) /\ ~QueuedAt(t, task'[t].at)

LEMMA LockAside ==
    ASSUME LockOK, NEW t \in Tasks, StaysAside(t)
    PROVE  LockOK'
<1>1. \A k \in DOMAIN lock : lock[k] \in Tasks \ {t}
  BY DEF LockOK, StaysAside
<1>2. \A k \in DOMAIN lock : QueuedAt(lock[k], task'[lock[k]].at)
  BY <1>1, Zenon DEF LockOK, StaysAside, Others
<1>3. \A u \in Tasks : QueuedAt(u, task'[u].at) => u # t /\ task'[u] = task[u]
  BY Zenon DEF StaysAside, Others
<1>4. \A u \in Tasks : QueuedAt(u, task'[u].at) => \E k \in DOMAIN lock : lock[k] = u
  BY <1>3, Zenon DEF LockOK
<1>5. \A u \in Tasks : HoldingAt(u, task'[u].at) => lock[1] = u
  BY <1>3, Zenon DEF LockOK, QueuedAt
<1> QED BY <1>2, <1>4, <1>5, Zenon DEF LockOK, StaysAside

LEMMA LockQueues ==
    ASSUME LockOK, NEW t \in Tasks, Queues(t)
    PROVE  LockOK'
<1>1. /\ lock \in Seq(Tasks) /\ DOMAIN lock = 1 .. Len(lock) /\ Len(lock) \in Nat
      /\ \A k \in DOMAIN lock : lock[k] \in Tasks \ {t}
  BY DEF LockOK, Queues
<1>2. /\ lock' \in Seq(Tasks) /\ DOMAIN lock' = 1 .. Len(lock) + 1
      /\ \A k \in DOMAIN lock : lock'[k] = lock[k]
      /\ lock'[Len(lock) + 1] = t
  BY <1>1 DEF Queues
<1>3. \A j, k \in DOMAIN lock' : lock'[j] = lock'[k] => j = k
  BY <1>1, <1>2 DEF LockOK
<1>4. \A k \in DOMAIN lock' : QueuedAt(lock'[k], task'[lock'[k]].at)
  <2> SUFFICES ASSUME NEW k \in DOMAIN lock' PROVE QueuedAt(lock'[k], task'[lock'[k]].at)
    BY Zenon
  <2>1. CASE k \in DOMAIN lock
    BY <1>1, <1>2, <2>1 DEF LockOK, Queues, Others
  <2>2. CASE k = Len(lock) + 1
    BY <1>2, <2>2, Zenon DEF Queues, QueuedAt
  <2> QED BY <1>1, <1>2, <2>1, <2>2
<1>5. \A u \in Tasks : QueuedAt(u, task'[u].at) => \E k \in DOMAIN lock' : lock'[k] = u
  <2> SUFFICES ASSUME NEW u \in Tasks, QueuedAt(u, task'[u].at)
               PROVE  \E k \in DOMAIN lock' : lock'[k] = u
    BY Zenon
  <2>1. CASE u = t
    BY <1>1, <1>2, <2>1
  <2>2. CASE u # t
    <3>1. \E k \in DOMAIN lock : lock[k] = u
      BY <2>2, Zenon DEF LockOK, Queues, Others
    <3> QED BY <1>1, <1>2, <3>1
  <2> QED BY <2>1, <2>2, Zenon
<1>6. \A u \in Tasks : HoldingAt(u, task'[u].at) => lock'[1] = u
  <2> SUFFICES ASSUME NEW u \in Tasks, HoldingAt(u, task'[u].at) PROVE lock'[1] = u
    BY Zenon
  <2>1. u # t
    BY Zenon DEF Queues, HoldingAt, DerivingAt
  <2>2. lock[1] = u /\ \E k \in DOMAIN lock : lock[k] = u
    BY <2>1, Zenon DEF LockOK, Queues, Others, QueuedAt
  <2> QED BY <1>1, <1>2, <2>2
<1> QED BY <1>2, <1>3, <1>4, <1>5, <1>6, Zenon DEF LockOK

LEMMA LockGoesOn ==
    ASSUME LockOK, NEW t \in Tasks, GoesOn(t)
    PROVE  LockOK'
<1>1. \A k \in DOMAIN lock : lock[k] \in Tasks /\ (lock[k] = t \/ lock[k] \in Tasks \ {t})
  BY DEF LockOK
<1>2. \A k \in DOMAIN lock : QueuedAt(lock[k], task'[lock[k]].at)
  BY <1>1, Zenon DEF LockOK, GoesOn, Others, QueuedAt
<1>3. \A u \in Tasks : QueuedAt(u, task'[u].at) => \E k \in DOMAIN lock : lock[k] = u
  BY Zenon DEF LockOK, GoesOn, Others
<1>4. \A u \in Tasks : HoldingAt(u, task'[u].at) => lock[1] = u
  BY Zenon DEF LockOK, GoesOn, Others
<1> QED BY <1>2, <1>3, <1>4, Zenon DEF LockOK, GoesOn

LEMMA LockGoesOut ==
    ASSUME LockOK, NEW t \in Tasks, GoesOut(t)
    PROVE  LockOK'
<1>1. /\ lock \in Seq(Tasks) /\ lock[1] = t /\ Len(lock) \in Nat /\ Len(lock) > 0
      /\ DOMAIN lock = 1 .. Len(lock)
  BY DEF LockOK, GoesOut, QueuedAt
<1>2. /\ lock' \in Seq(Tasks) /\ DOMAIN lock' = 1 .. Len(lock) - 1
      /\ \A k \in DOMAIN lock' : k + 1 \in DOMAIN lock /\ lock'[k] = lock[k + 1]
  BY <1>1 DEF GoesOut
<1>3. \A k \in DOMAIN lock : k # 1 => k - 1 \in DOMAIN lock' /\ lock'[k - 1] = lock[k]
  BY <1>1, <1>2
<1>4. \A k \in DOMAIN lock : lock[k] = t => k = 1
  BY <1>1 DEF LockOK
<1>5. \A k \in DOMAIN lock' : lock'[k] \in Tasks \ {t}
  <2> SUFFICES ASSUME NEW k \in DOMAIN lock' PROVE lock'[k] \in Tasks \ {t}
    BY Zenon
  <2>1. k + 1 # 1 /\ k + 1 \in DOMAIN lock /\ lock[k + 1] \in Tasks
    BY <1>1, <1>2
  <2> QED BY <1>2, <1>4, <2>1, Zenon
<1>6. \A j, k \in DOMAIN lock' : lock'[j] = lock'[k] => j = k
  <2> SUFFICES ASSUME NEW j \in DOMAIN lock', NEW k \in DOMAIN lock', lock'[j] = lock'[k]
               PROVE  j = k
    BY Zenon
  <2>1. j + 1 = k + 1
    BY <1>2 DEF LockOK
  <2> QED BY <1>1, <1>2, <2>1
<1>7. \A k \in DOMAIN lock' : QueuedAt(lock'[k], task'[lock'[k]].at)
  BY <1>2, <1>5 DEF LockOK, GoesOut, Others
<1>8. \A u \in Tasks : QueuedAt(u, task'[u].at) => \E k \in DOMAIN lock' : lock'[k] = u
  <2> SUFFICES ASSUME NEW u \in Tasks, QueuedAt(u, task'[u].at)
               PROVE  \E k \in DOMAIN lock' : lock'[k] = u
    BY Zenon
  <2>1. u # t
    BY Zenon DEF GoesOut
  <2>2. PICK k \in DOMAIN lock : lock[k] = u
    BY <2>1, Zenon DEF LockOK, GoesOut, Others
  <2>3. k # 1
    BY <1>1, <2>1, <2>2, Zenon
  <2> QED BY <1>3, <2>2, <2>3, Zenon
<1>9. \A u \in Tasks : ~HoldingAt(u, task'[u].at)
  <2> SUFFICES ASSUME NEW u \in Tasks, HoldingAt(u, task'[u].at) PROVE FALSE
    BY Zenon
  <2>1. u # t
    BY Zenon DEF GoesOut, QueuedAt
  <2>2. lock[1] = u
    BY <2>1, Zenon DEF LockOK, GoesOut, Others
  <2> QED BY <1>1, <2>1, <2>2, Zenon
<1> QED BY <1>2, <1>6, <1>7, <1>8, <1>9, Zenon DEF LockOK

LEMMA LockKept ==
    ASSUME LockOK, NEW t \in Tasks, StaysAside(t) \/ Queues(t) \/ GoesOn(t) \/ GoesOut(t)
    PROVE  LockOK'
BY LockAside, LockQueues, LockGoesOn, LockGoesOut, Zenon

\* A step of t keeps to the lock, and its view is the one it read or the count now.
KeepsToLock(t) ==
    /\ StaysAside(t) \/ Queues(t) \/ GoesOn(t) \/ GoesOut(t)
    /\ DerivingAt(task'[t].at) => \/ DerivingAt(task[t].at) /\ task'[t].view = task[t].view
                                  \/ task'[t].view = engine.writes

DocsShaped(docs) == DOMAIN docs = Stores /\ \A s \in Stores : DOMAIN docs[s] = DocFields

\* The view of no derivation comes to lie behind a document's.
LEMMA KeepsViews ==
    ASSUME DerivationInv, NEW t \in Tasks, KeepsToLock(t),
           engine'.writes \in Nat, engine'.writes >= engine.writes, DocsShaped(tracked'),
           \A s \in Stores : tracked'[s].view \in {tracked[s].view, 0},
           StartOK'
    PROVE  DerivationInv'
<1>0. TasksOK' /\ \A u \in Tasks \ {t} : task'[u] = task[u]
  BY Zenon DEF KeepsToLock, StaysAside, Queues, GoesOn, GoesOut, Others
<1>1. LockOK'
  BY LockKept, Zenon DEF DerivationInv, KeepsToLock
<1>2. \A s \in Stores : tracked[s].view \in Nat /\ tracked[s].view <= engine.writes
  BY DEF DerivationInv, DocsOK
<1>3. DocsOK'
  BY <1>2 DEF DocsOK, DerivationInv, DocsShaped
<1>4. ASSUME NEW u \in Tasks, DerivingAt(task'[u].at)
      PROVE  task'[u].view \in 0 .. engine.writes /\ \A s \in Stores : tracked[s].view <= task'[u].view
  <2>1. CASE DerivingAt(task[u].at) /\ task'[u].view = task[u].view
    BY <2>1, Zenon DEF DerivationInv, ViewsOK
  <2>2. CASE task'[u].view = engine.writes
    BY <1>2, <2>2 DEF DerivationInv
  <2> QED BY <1>0, <1>4, <2>1, <2>2, Zenon DEF KeepsToLock
<1>5. ViewsOK'
  BY <1>2, <1>4 DEF ViewsOK, DerivationInv
<1> QED BY <1>0, <1>1, <1>3, <1>5, Zenon DEF DerivationInv

\* The one derivation under way sets the view of documents to its own.
LEMMA SetsViews ==
    ASSUME DerivationInv, NEW t \in Tasks, DerivingAt(task[t].at), KeepsToLock(t),
           engine'.writes = engine.writes, DocsShaped(tracked'),
           DerivingAt(task'[t].at) => task'[t].view = task[t].view,
           \A s \in Stores : tracked'[s].view \in {tracked[s].view, task[t].view},
           StartOK'
    PROVE  /\ DerivationInv'
           /\ \A s \in Stores : tracked'[s].view >= tracked[s].view
<1>0. TasksOK' /\ \A u \in Tasks \ {t} : task'[u] = task[u]
  BY Zenon DEF KeepsToLock, StaysAside, Queues, GoesOn, GoesOut, Others
<1>1. LockOK'
  BY LockKept, Zenon DEF DerivationInv, KeepsToLock
<1>2. /\ engine.writes \in Nat /\ task[t].view \in 0 .. engine.writes
      /\ \A s \in Stores : tracked[s].view \in 0 .. engine.writes /\ tracked[s].view <= task[t].view
  BY Zenon DEF DerivationInv, DocsOK, ViewsOK
<1>3. DocsOK'
  BY <1>2, Zenon DEF DocsOK, DocsShaped
<1>4. \A s \in Stores : tracked'[s].view <= task[t].view /\ tracked'[s].view >= tracked[s].view
  BY <1>2
<1>5. \A u \in Tasks : DerivingAt(task[u].at) => u = t
  BY Zenon DEF DerivationInv, LockOK, HoldingAt
<1>6. \A u \in Tasks : DerivingAt(task'[u].at) => u = t
  BY <1>0, <1>5, Zenon
<1>7. ViewsOK'
  BY <1>2, <1>4, <1>6, Zenon DEF ViewsOK
<1> QED BY <1>0, <1>1, <1>2, <1>3, <1>4, <1>7, Zenon DEF DerivationInv

\* What one task's record becomes.
LEMMA TaskBecomes ==
    ASSUME TasksOK, NEW t \in Tasks, NEW r, DOMAIN r = TaskFields, task' = [task EXCEPT ![t] = r]
    PROVE  Others(t) /\ task'[t] = r
BY Zenon DEF TasksOK, Others

LEMMA TaskMoves ==
    ASSUME TasksOK, NEW t \in Tasks, NEW at, Moves(t, at)
    PROVE  Others(t) /\ task'[t].at = at /\ task'[t].view = task[t].view
<1>1. DOMAIN Idle = TaskFields /\ "at" \in TaskFields /\ "view" \in TaskFields
  BY Zenon DEF TaskFields, Idle
<1> QED BY <1>1, Zenon DEF TasksOK, Others, Moves

\* A derivation begun.
LEMMA DerivesQueues ==
    ASSUME TasksOK, NEW t \in Tasks, NEW record, NEW stores, NEW met,
           DOMAIN record = TaskFields, Derives(t, record, stores, met), ~QueuedAt(t, task[t].at)
    PROVE  KeepsToLock(t) /\ task'[t].at = "waits"
<1> DEFINE r == [record EXCEPT !.at = "waits", !.held = stores, !.met = met]
<1>1. DOMAIN Idle = TaskFields /\ "at" \in TaskFields /\ "held" \in TaskFields /\ "met" \in TaskFields
  BY Zenon DEF TaskFields, Idle
<1>2. DOMAIN r = TaskFields /\ r.at = "waits"
  BY <1>1, Zenon
<1>3. task' = [task EXCEPT ![t] = r] /\ lock' = Append(lock, t)
  BY Zenon DEF Derives
<1> HIDE DEF r
<1>4. Others(t) /\ task'[t] = r
  BY <1>2, <1>3, TaskBecomes, Zenon
<1> QED BY <1>2, <1>3, <1>4, Zenon DEF KeepsToLock, Queues, DerivingAt

\* The holder of the lock is the head of its queue.
LEMMA HolderIsHead ==
    ASSUME LockOK, NEW t \in Tasks, HoldingAt(t, task[t].at)
    PROVE  lock[1] = t /\ Head(lock) = t /\ Unlocked(t) = Tail(lock)
<1>1. lock \in Seq(Tasks) /\ lock[1] = t /\ DOMAIN lock # {}
  BY Zenon DEF LockOK, QueuedAt
<1> QED BY <1>1 DEF Unlocked

\* A derivation ended.
LEMMA DerivedGoesOut ==
    ASSUME DerivationInv, NEW t \in Tasks, DerivingAt(task[t].at), NEW departed, NEW nobody,
           Derived(t, departed, nobody), GivesBack(t)
    PROVE  KeepsToLock(t) /\ ~DerivingAt(task'[t].at) /\ task'[t].at # "imports"
<1>0. TasksOK /\ HoldingAt(t, task[t].at) /\ QueuedAt(t, task[t].at)
  BY Zenon DEF DerivationInv, HoldingAt, QueuedAt
<1>1. lock[1] = t /\ Unlocked(t) = Tail(lock)
  BY <1>0, HolderIsHead, Zenon DEF DerivationInv
<1>2. DOMAIN Idle = TaskFields /\ {"at", "held", "toward", "departed", "nobody"} \subseteq TaskFields
  BY Zenon DEF TaskFields, Idle
<1>3. CASE t = "start"
  <2> DEFINE r == [task[t] EXCEPT !.at = "joins"]
  <2>1. DOMAIN r = TaskFields /\ r.at = "joins"
    BY <1>0, <1>2, Zenon DEF TasksOK
  <2>2. task' = [task EXCEPT ![t] = r] /\ lock' = lock
    BY <1>3, Zenon DEF Derived, GivesBack
  <2> HIDE DEF r
  <2>3. Others(t) /\ task'[t] = r
    BY <1>0, <2>1, <2>2, TaskBecomes, Zenon
  <2> QED BY <1>0, <1>1, <1>3, <2>1, <2>2, <2>3, Zenon DEF KeepsToLock, GoesOn, HoldingAt, DerivingAt
<1>4. CASE t # "start"
  <2> DEFINE r == [Idle EXCEPT !.at = "derived", !.held = task[t].held, !.toward = task[t].toward,
                               !.departed = departed, !.nobody = nobody]
  <2>1. DOMAIN r = TaskFields /\ r.at = "derived"
    BY <1>2, Zenon
  <2>2. task' = [task EXCEPT ![t] = r] /\ lock' = Tail(lock)
    BY <1>1, <1>4, Zenon DEF Derived, GivesBack
  <2> HIDE DEF r
  <2>3. Others(t) /\ task'[t] = r
    BY <1>0, <2>1, <2>2, TaskBecomes, Zenon
  <2> QED BY <1>0, <2>1, <2>2, <2>3, Zenon DEF KeepsToLock, GoesOut, HoldingAt, QueuedAt, DerivingAt
<1> QED BY <1>3, <1>4, Zenon

\* Between its import and its end a start keeps the departure out.
LEMMA StartKept ==
    ASSUME StartOK, NEW t \in Tasks, Others(t), held' = held,
           task[t].at \notin {"idle", "imports"}, task'[t].at # "imports",
           tracked["r"] = NoDoc /\ "r" \notin held => tracked'["r"] = NoDoc
    PROVE  StartOK'
<1>1. \A u \in Tasks : u # t => task'[u] = task[u]
  BY Zenon DEF Others
<1> QED BY <1>1, Zenon DEF StartOK, At, Tasks

\* A derivation at its first document, or at its second, or at none.
LEMMA SetShapes ==
    ASSUME DocsShaped(tracked), NEW s \in Stores, NEW contacts, NEW view
    PROVE  /\ DocsShaped(SetContacts(s, contacts, view))
           /\ \A z \in Stores : SetContacts(s, contacts, view)[z].view \in {tracked[z].view, view}
           /\ tracked["r"] = NoDoc => SetContacts(s, contacts, view)["r"] = NoDoc
BY Zenon DEF DocsShaped, SetContacts, DocFields, Stores

LEMMA StatingWrites ==
    ASSUME NEW e, NEW s, NEW contacts, DOMAIN e = EngineFields
    PROVE  StateContacts(e, s, contacts).writes = e.writes
           /\ DOMAIN StateContacts(e, s, contacts) = EngineFields
BY DEF StateContacts, EngineFields

\* A derivation's steps.
LEMMA DerivingKeeps ==
    ASSUME DerivationInv, EngineOK(engine), NEW t \in Tasks,
           \/ ReadsView(t) \/ ComputesContacts(t) \/ StatesMembership(t) \/ StatesRecords(t)
           \/ DerivationFails(t)
    PROVE  /\ DerivationInv'
           /\ \A s \in Stores : tracked'[s].view >= tracked[s].view
<1>0. /\ TasksOK /\ LockOK /\ StartOK /\ DOMAIN engine = EngineFields /\ engine.writes \in Nat
      /\ DocsShaped(tracked)
      /\ \A s \in Stores : tracked[s].view \in Nat
  BY DEF DerivationInv, EngineOK, DocsOK, DocsShaped
<1>f. DOMAIN Idle = TaskFields /\ {"at", "view", "contacts", "ticketed"} \subseteq TaskFields
  BY Zenon DEF TaskFields, Idle
<1>1. CASE ReadsView(t)
  <2>1. /\ task[t].at = "waits" /\ Head(lock) = t /\ lock' = lock /\ tracked' = tracked
        /\ engine' = engine /\ held' = held
    BY <1>1, Zenon DEF ReadsView, Holds, At
  <2>2. Others(t) /\ task'[t].at = "read" /\ task'[t].view = engine.writes
    <3> DEFINE r == [task[t] EXCEPT !.at = "read", !.view = engine.writes,
                                    !.ticketed = [s \in Stores |-> IF tracked[s] = NoDoc THEN {}
                                                                   ELSE tracked[s].contacts]]
    <3>1. DOMAIN r = TaskFields /\ r.at = "read" /\ r.view = engine.writes
      BY <1>0, <1>f, Zenon DEF TasksOK
    <3>2. task' = [task EXCEPT ![t] = r]
      BY <1>1, <1>0, Zenon DEF ReadsView, TasksOK
    <3> HIDE DEF r
    <3> QED BY <1>0, <3>1, <3>2, TaskBecomes, Zenon
  <2>3. lock[1] = t
    BY <1>0, <2>1 DEF LockOK, QueuedAt
  <2>4. KeepsToLock(t)
    BY <2>1, <2>2, <2>3, Zenon DEF KeepsToLock, GoesOn, QueuedAt, HoldingAt, DerivingAt
  <2>5. StartOK'
    BY <1>0, <2>1, <2>2, StartKept, Zenon
  <2> QED BY <1>0, <2>1, <2>4, <2>5, KeepsViews
<1>2. ASSUME DerivingAt(task[t].at), engine'.writes = engine.writes, tracked' = tracked, held' = held,
             NEW departed, NEW nobody, Derived(t, departed, nobody), GivesBack(t)
      PROVE  /\ DerivationInv'
             /\ \A s \in Stores : tracked'[s].view >= tracked[s].view
  <2>1. KeepsToLock(t) /\ ~DerivingAt(task'[t].at) /\ task'[t].at # "imports"
    BY <1>2, DerivedGoesOut, Zenon
  <2>2. Others(t)
    BY <2>1, Zenon DEF KeepsToLock, StaysAside, Queues, GoesOn, GoesOut
  <2>3. task[t].at \notin {"idle", "imports"}
    BY <1>2, Zenon DEF DerivingAt
  <2>4. StartOK'
    BY <1>0, <1>2, <2>1, <2>2, <2>3, StartKept, Zenon
  <2> QED BY <1>0, <1>2, <2>1, <2>4, SetsViews, Zenon
<1>3. ASSUME task[t].at \in {"read", "states m"}, NEW at, at \in {"states m", "states r"},
             engine'.writes = engine.writes, held' = held, lock' = lock,
             Others(t), task'[t].at = at, task'[t].view = task[t].view,
             NEW s \in Stores, NEW contacts, tracked' = SetContacts(s, contacts, task[t].view)
      PROVE  /\ DerivationInv'
             /\ \A z \in Stores : tracked'[z].view >= tracked[z].view
  <2>1. DerivingAt(task[t].at) /\ HoldingAt(t, task[t].at) /\ QueuedAt(t, task[t].at)
    BY <1>3, Zenon DEF DerivingAt, HoldingAt, QueuedAt
  <2>2. lock[1] = t
    BY <1>0, <2>1, HolderIsHead, Zenon
  <2>3. KeepsToLock(t)
    BY <1>3, <2>1, <2>2, Zenon DEF KeepsToLock, GoesOn, HoldingAt, DerivingAt
  <2>4. /\ DocsShaped(tracked')
        /\ \A z \in Stores : tracked'[z].view \in {tracked[z].view, task[t].view}
        /\ tracked["r"] = NoDoc => tracked'["r"] = NoDoc
    <3> DEFINE set == SetContacts(s, contacts, task[t].view)
    <3>1. /\ DocsShaped(set) /\ \A z \in Stores : set[z].view \in {tracked[z].view, task[t].view}
          /\ tracked["r"] = NoDoc => set["r"] = NoDoc
      BY <1>0, SetShapes
    <3>2. tracked' = set
      BY <1>3, Zenon
    <3> HIDE DEF set
    <3> QED BY <3>1, <3>2, Zenon
  <2>5. StartOK'
    BY <1>0, <1>3, <2>4, StartKept, Zenon
  <2> QED BY <1>3, <2>1, <2>3, <2>4, <2>5, SetsViews, Zenon
<1>4. CASE ComputesContacts(t)
  <2>0. task[t].at = "read" /\ engine' = engine /\ held' = held
    BY <1>4, Zenon DEF ComputesContacts, At
  <2>1. CASE Views[task[t].view].nobody
    <3>1. Derived(t, FALSE, TRUE) /\ GivesBack(t) /\ tracked' = tracked
      BY <1>4, <2>1, Zenon DEF ComputesContacts
    <3> QED BY <1>2, <2>0, <3>1, Zenon DEF DerivingAt
  <2>2. CASE ~Views[task[t].view].nobody
    <3>1. PICK contacts : /\ tracked' = SetContacts("m", contacts, task[t].view) /\ lock' = lock
                          /\ task' = [task EXCEPT ![t].at = "states m",
                                                  ![t].contacts = [s \in Stores |-> contacts]]
      <4> DEFINE view == Views[task[t].view]
                 after == TombAfter(task[t].held, view, task[t].met)
                 found == PodContacts(task[t].held, view, after # NoTomb /\ after.converged)
      <4>1. /\ tracked' = SetContacts("m", found, task[t].view) /\ lock' = lock
            /\ task' = [task EXCEPT ![t].at = "states m", ![t].contacts = [s \in Stores |-> found]]
        BY <1>4, <2>2, Zenon DEF ComputesContacts
      <4> HIDE DEF found
      <4> QED BY <4>1, Zenon
    <3>2. Others(t) /\ task'[t].at = "states m" /\ task'[t].view = task[t].view
      <4> DEFINE r == [task[t] EXCEPT !.at = "states m", !.contacts = [s \in Stores |-> contacts]]
      <4>1. DOMAIN r = TaskFields /\ r.at = "states m" /\ r.view = task[t].view
        BY <1>0, <1>f, Zenon DEF TasksOK
      <4>2. task' = [task EXCEPT ![t] = r]
        BY <1>0, <3>1, Zenon DEF TasksOK
      <4> HIDE DEF r
      <4> QED BY <1>0, <4>1, <4>2, TaskBecomes, Zenon
    <3>3. "m" \in Stores
      BY Zenon DEF Stores
    <3> QED BY <1>3, <2>0, <3>1, <3>2, <3>3, Zenon
  <2> QED BY <2>1, <2>2, Zenon
<1>5. CASE StatesMembership(t)
  <2>0. task[t].at = "states m" /\ held' = held
        /\ engine' = StateContacts(engine, "m", task[t].contacts["m"])
    BY <1>5, Zenon DEF StatesMembership, At
  <2>1. engine'.writes = engine.writes
    BY <1>0, <2>0, StatingWrites, Zenon
  <2>2. CASE "r" \in task[t].held
    <3>1. /\ tracked' = SetContacts("r", task[t].contacts["r"], task[t].view)
          /\ Moves(t, "states r") /\ lock' = lock
      BY <1>5, <2>2, Zenon DEF StatesMembership
    <3>2. Others(t) /\ task'[t].at = "states r" /\ task'[t].view = task[t].view
      BY <1>0, <3>1, TaskMoves, Zenon
    <3>3. "r" \in Stores
      BY Zenon DEF Stores
    <3> QED BY <1>3, <2>0, <2>1, <3>1, <3>2, <3>3, Zenon
  <2>3. CASE "r" \notin task[t].held
    <3>1. /\ Derived(t, Views[task[t].view].departed, FALSE) /\ GivesBack(t) /\ tracked' = tracked
      BY <1>5, <2>3, Zenon DEF StatesMembership
    <3> QED BY <1>2, <2>0, <2>1, <3>1, Zenon DEF DerivingAt
  <2> QED BY <2>2, <2>3, Zenon
<1>6. CASE StatesRecords(t)
  <2>0. /\ task[t].at = "states r" /\ held' = held /\ tracked' = tracked
        /\ engine' = StateContacts(engine, "r", task[t].contacts["r"])
        /\ Derived(t, Views[task[t].view].departed, FALSE) /\ GivesBack(t)
    BY <1>6, Zenon DEF StatesRecords, At
  <2>1. engine'.writes = engine.writes
    BY <1>0, <2>0, StatingWrites, Zenon
  <2> QED BY <1>2, <2>0, <2>1, Zenon DEF DerivingAt
<1>7. CASE DerivationFails(t)
  <2>0. /\ task[t].at = "read" /\ held' = held /\ tracked' = tracked /\ engine' = engine
        /\ Derived(t, FALSE, FALSE) /\ GivesBack(t)
    BY <1>7, Zenon DEF DerivationFails, At
  <2> QED BY <1>2, <2>0, Zenon DEF DerivingAt
<1> QED BY <1>1, <1>4, <1>5, <1>6, <1>7, Zenon

\* The membership replica's write count never falls.
LEMMA WritesGrow ==
    ASSUME SwarmInv, Steps \/ Happens
    PROVE  engine'.writes \in Nat /\ engine'.writes >= engine.writes
<1>0. EngineOK(engine) /\ engine.writes \in Nat
  BY Zenon DEF SwarmInv, EngineOK
<1>1. CASE ActorReads
  <2>1. engine'.writes = engine.writes
    BY <1>1, ReadSteps, Zenon
  <2> QED BY <1>0, <2>1
<1>2. CASE \E s \in Stores, p \in Peers :
              LoopReportsUp(s, p) \/ LoopReportsDown(s, p) \/ LoopReportsNews(s, p)
  BY <1>0, <1>2 DEF LoopReportsUp, LoopReportsDown, LoopReportsNews
<1>3. CASE EngineMoves(engine, engine')
  <2>1. engine'.writes \in {engine.writes, engine.writes + 1}
    BY <1>3, Zenon DEF EngineMoves, Calm, Joined, Quit
  <2> QED BY <1>0, <2>1
<1> QED BY <1>0, <1>1, <1>2, <1>3, ActorMoves, Zenon DEF SwarmInv

\* The tasks beside the lock.
LEMMA AsideKeeps ==
    ASSUME DerivationInv, engine'.writes \in Nat, engine'.writes >= engine.writes,
           NEW t \in Tasks,
           ~QueuedAt(t, task[t].at), ~QueuedAt(t, task'[t].at), Others(t), lock' = lock,
           tracked' = tracked, StartOK'
    PROVE  DerivationInv' /\ \A s \in Stores : tracked'[s].view >= tracked[s].view
<1>1. KeepsToLock(t)
  BY Zenon DEF KeepsToLock, StaysAside, QueuedAt, HoldingAt
<1>2. DocsShaped(tracked') /\ \A s \in Stores : tracked[s].view \in Nat
  BY DEF DerivationInv, DocsOK, DocsShaped
<1>3. \A s \in Stores : tracked'[s].view \in {tracked[s].view, 0}
  BY Zenon
<1>4. DerivationInv'
  BY <1>1, <1>2, <1>3, KeepsViews, ZenonT(40)
<1>5. \A s \in Stores : tracked'[s].view >= tracked[s].view
  BY <1>2
<1> QED BY <1>4, <1>5, Zenon

\* A task at its list of stores.
LEMMA SyncingKeeps ==
    ASSUME DerivationInv, engine'.writes \in Nat, engine'.writes >= engine.writes,
           NEW t \in Tasks, AsksStore(t) \/ StartsStore(t) \/ LeavesAgain(t)
    PROVE  DerivationInv' /\ \A s \in Stores : tracked'[s].view >= tracked[s].view
<1>0. TasksOK /\ StartOK
  BY Zenon DEF DerivationInv
<1>1. lock' = lock /\ tracked' = tracked /\ held' = held
  BY Zenon DEF AsksStore, StartsStore, LeavesAgain
<1>2. task[t].at \in {"syncs", "asked", "leaves"}
  BY Zenon DEF AsksStore, StartsStore, LeavesAgain, At
<1>f. DOMAIN Idle = TaskFields /\ {"at", "todo", "toward", "swarm"} \subseteq TaskFields
      /\ Idle.at = "idle"
  BY Zenon DEF TaskFields, Idle
<1>3. PICK r : /\ task' = [task EXCEPT ![t] = r] /\ DOMAIN r = TaskFields
               /\ r.at \in {"idle", "syncs", "asked", "leaves"}
  <2>0. DOMAIN task[t] = TaskFields
    BY <1>0, Zenon DEF TasksOK
  <2>1. CASE AsksStore(t)
    <3>1. \/ task' = [task EXCEPT ![t] = Idle]
          \/ \E todo : task' = [task EXCEPT ![t].todo = todo]
          \/ \E toward, swarm : task' = [task EXCEPT ![t].at = "asked", ![t].toward = toward,
                                                     ![t].swarm = swarm]
      BY <2>1, Zenon DEF AsksStore
    <3>2. CASE task' = [task EXCEPT ![t] = Idle]
      BY <1>f, <3>2, Zenon
    <3>3. ASSUME NEW todo, task' = [task EXCEPT ![t].todo = todo]
          PROVE  \E r : /\ task' = [task EXCEPT ![t] = r] /\ DOMAIN r = TaskFields
                        /\ r.at \in {"idle", "syncs", "asked", "leaves"}
      <4> DEFINE n == [task[t] EXCEPT !.todo = todo]
      <4>1. DOMAIN n = TaskFields /\ n.at = task[t].at
        BY <1>f, <2>0, Zenon
      <4>2. task' = [task EXCEPT ![t] = n]
        BY <1>0, <3>3, Zenon DEF TasksOK
      <4> QED BY <1>2, <4>1, <4>2, Zenon
    <3>4. ASSUME NEW toward, NEW swarm,
                 task' = [task EXCEPT ![t].at = "asked", ![t].toward = toward, ![t].swarm = swarm]
          PROVE  \E r : /\ task' = [task EXCEPT ![t] = r] /\ DOMAIN r = TaskFields
                        /\ r.at \in {"idle", "syncs", "asked", "leaves"}
      <4> DEFINE n == [task[t] EXCEPT !.at = "asked", !.toward = toward, !.swarm = swarm]
      <4>1. DOMAIN n = TaskFields /\ n.at = "asked"
        BY <1>f, <2>0, Zenon
      <4>2. task' = [task EXCEPT ![t] = n]
        BY <1>0, <3>4, Zenon DEF TasksOK
      <4> QED BY <4>1, <4>2, Zenon
    <3> QED BY <3>1, <3>2, <3>3, <3>4, Zenon
  <2>2. CASE StartsStore(t) \/ LeavesAgain(t)
    <3>1. \E at, todo : /\ task' = [task EXCEPT ![t].at = at, ![t].todo = todo]
                        /\ at = "leaves" \/ at = "syncs"
      BY <2>2, Zenon DEF StartsStore, LeavesAgain
    <3>2. PICK at, todo : /\ task' = [task EXCEPT ![t].at = at, ![t].todo = todo]
                          /\ at = "leaves" \/ at = "syncs"
      BY <3>1, Zenon
    <3> DEFINE n == [task[t] EXCEPT !.at = at, !.todo = todo]
    <3>3. DOMAIN n = TaskFields /\ n.at = at
      BY <1>f, <2>0, Zenon
    <3>4. task' = [task EXCEPT ![t] = n]
      BY <1>0, <3>2, Zenon DEF TasksOK
    <3> QED BY <3>2, <3>3, <3>4, Zenon
  <2> QED BY <2>1, <2>2, Zenon
<1>4. Others(t) /\ task'[t] = r
  BY <1>0, <1>3, TaskBecomes, Zenon
<1>5. ~QueuedAt(t, task[t].at) /\ ~QueuedAt(t, task'[t].at)
  BY <1>2, <1>3, <1>4, Zenon DEF QueuedAt, HoldingAt, DerivingAt
<1>6. StartOK'
  BY <1>0, <1>1, <1>2, <1>3, <1>4, StartKept, Zenon
<1> QED BY <1>1, <1>4, <1>5, <1>6, AsideKeeps, Zenon

\* Derivations begun by the tasks.
LEMMA BegunKeeps ==
    ASSUME DerivationInv, engine'.writes \in Nat, engine'.writes >= engine.writes,
           NEW t \in Tasks \ {"start", "forget"}, NEW record, NEW met, DOMAIN record = TaskFields,
           Derives(t, record, held, met), At(t, "idle") \/ At(t, "settles"),
           UNCHANGED <<held, tracked>>
    PROVE  DerivationInv' /\ \A s \in Stores : tracked'[s].view >= tracked[s].view
<1>0. TasksOK /\ DocsShaped(tracked') /\ \A s \in Stores : tracked[s].view \in Nat
  BY DEF DerivationInv, DocsOK, DocsShaped
<1>1. ~QueuedAt(t, task[t].at)
  BY Zenon DEF QueuedAt, HoldingAt, DerivingAt, At
<1>2. KeepsToLock(t)
  BY <1>0, <1>1, DerivesQueues, Zenon
<1>3. \A u \in Tasks : u # t => task'[u] = task[u]
  BY <1>2, Zenon DEF KeepsToLock, StaysAside, Queues, GoesOn, GoesOut, Others
<1>4. StartOK'
  BY <1>3, Zenon DEF DerivationInv, StartOK, At, Tasks
<1>5. \A s \in Stores : tracked'[s].view \in {tracked[s].view, 0}
  BY Zenon
<1>6. DerivationInv'
  BY <1>0, <1>2, <1>4, <1>5, KeepsViews, ZenonT(40)
<1>7. \A s \in Stores : tracked'[s].view >= tracked[s].view
  BY <1>0
<1> QED BY <1>6, <1>7, Zenon

\* No document tracked before and after has its view go back.
NoneGoesBack ==
    \A s \in Stores : tracked[s] # NoDoc /\ tracked'[s] # NoDoc => tracked'[s].view >= tracked[s].view

\* The rest of what the watcher, the pass, the own-device watcher and a write do.
LEMMA TurnKeeps ==
    ASSUME DerivationInv, engine'.writes \in Nat, engine'.writes >= engine.writes,
           NEW t \in Tasks \ {"start", "forget"}, NEW r, DOMAIN r = TaskFields,
           task' = [task EXCEPT ![t] = r],
           task[t].at \in {"idle", "derived"}, r.at \in {"idle", "syncs", "settles"},
           UNCHANGED <<held, tracked, lock>>
    PROVE  DerivationInv' /\ \A s \in Stores : tracked'[s].view >= tracked[s].view
<1>1. Others(t) /\ task'[t] = r
  BY TaskBecomes, Zenon DEF DerivationInv
<1>2. ~QueuedAt(t, task[t].at) /\ ~QueuedAt(t, task'[t].at)
  BY <1>1, Zenon DEF QueuedAt, HoldingAt, DerivingAt
<1>3. \A u \in Tasks : u # t => task'[u] = task[u]
  BY <1>1, Zenon DEF Others
<1>4. StartOK'
  BY <1>3, Zenon DEF DerivationInv, StartOK, At, Tasks
<1> QED BY <1>1, <1>2, <1>4, AsideKeeps, Zenon

LEMMA TurnsKeep ==
    ASSUME DerivationInv, engine'.writes \in Nat, engine'.writes >= engine.writes,
           \/ PassDerived \/ OwnDerived \/ WriteReturns \/ WatcherDerived
           \/ PassRuns \/ OwnDeviceListed \/ WritesMembership \/ WatcherWakes \/ WatcherSettles
    PROVE  DerivationInv' /\ \A s \in Stores : tracked'[s].view >= tracked[s].view
<1>0. /\ TasksOK /\ \A s \in Stores : tracked[s].view \in Nat
      /\ {"watch", "pass", "own", "write"} \subseteq Tasks \ {"start", "forget"}
      /\ \A t \in {"watch", "pass", "own", "write"} : t \in Tasks
  BY DEF DerivationInv, DocsOK, Tasks
<1>f. DOMAIN Idle = TaskFields /\ Idle.at = "idle"
      /\ {"at", "todo", "toward", "view", "contacts", "ticketed"} \subseteq TaskFields
  BY Zenon DEF TaskFields, Idle
<1>d. ASSUME NEW t \in {"watch", "pass", "own", "write"}
      PROVE  DOMAIN task[t] = TaskFields
  BY <1>0, <1>d, Zenon DEF TasksOK
<1>1. ASSUME NEW t \in {"pass", "own"}, NEW todo,
             task' = [task EXCEPT ![t].at = "syncs", ![t].todo = todo],
             task[t].at = "derived", UNCHANGED <<held, tracked, lock>>
      PROVE  DerivationInv' /\ \A s \in Stores : tracked'[s].view >= tracked[s].view
  <2> DEFINE r == [task[t] EXCEPT !.at = "syncs", !.todo = todo]
  <2>1. DOMAIN r = TaskFields /\ r.at = "syncs"
    BY <1>d, <1>f, Zenon
  <2>2. task' = [task EXCEPT ![t] = r]
    BY <1>0, <1>1, Zenon DEF TasksOK
  <2> HIDE DEF r
  <2> QED BY <1>0, <1>1, <2>1, <2>2, TurnKeeps, ZenonT(40)
<1>2. CASE PassDerived
  <2>1. /\ task' = [task EXCEPT !["pass"].at = "syncs",
                                !["pass"].todo = MembershipFirst(task["pass"].held)]
        /\ task["pass"].at = "derived" /\ UNCHANGED <<held, tracked, lock>>
    BY <1>2, Zenon DEF PassDerived, At
  <2> QED BY <1>1, <2>1, Zenon
<1>3. CASE OwnDerived
  <2>1. /\ task' = [task EXCEPT !["own"].at = "syncs",
                                !["own"].todo = MembershipFirst(task["own"].held)]
        /\ task["own"].at = "derived" /\ UNCHANGED <<held, tracked, lock>>
    BY <1>3, Zenon DEF OwnDerived, At
  <2> QED BY <1>1, <2>1, Zenon
<1>4. CASE WriteReturns
  <2>1. /\ task' = [task EXCEPT !["write"] = Idle]
        /\ task["write"].at = "derived" /\ UNCHANGED <<held, tracked, lock>>
    BY <1>4, Zenon DEF WriteReturns, At
  <2> QED BY <1>0, <1>f, <2>1, TurnKeeps, Zenon
<1>5. CASE WatcherDerived
  <2>0. task["watch"].at = "derived" /\ UNCHANGED <<held, tracked, lock>>
    BY <1>5, Zenon DEF WatcherDerived, At
  <2>1. \/ task' = [task EXCEPT !["watch"] = Idle]
        \/ \E toward, todo : task' = [task EXCEPT !["watch"].at = "syncs", !["watch"].toward = toward,
                                                  !["watch"].todo = todo]
    BY <1>5, Zenon DEF WatcherDerived
  <2>2. CASE task' = [task EXCEPT !["watch"] = Idle]
    BY <1>0, <1>f, <2>0, <2>2, TurnKeeps, Zenon
  <2>3. ASSUME NEW toward, NEW todo,
               task' = [task EXCEPT !["watch"].at = "syncs", !["watch"].toward = toward,
                                    !["watch"].todo = todo]
        PROVE  DerivationInv' /\ \A s \in Stores : tracked'[s].view >= tracked[s].view
    <3> DEFINE r == [task["watch"] EXCEPT !.at = "syncs", !.toward = toward, !.todo = todo]
    <3>1. DOMAIN r = TaskFields /\ r.at = "syncs"
      BY <1>d, <1>f, Zenon
    <3>2. task' = [task EXCEPT !["watch"] = r]
      BY <1>0, <2>3, Zenon DEF TasksOK
    <3> HIDE DEF r
    <3> QED BY <1>0, <2>0, <3>1, <3>2, TurnKeeps, Zenon
  <2> QED BY <2>1, <2>2, <2>3, Zenon
<1>6. CASE PassRuns
  <2>1. At("pass", "idle") /\ Derives("pass", Idle, held, {}) /\ UNCHANGED <<held, tracked>>
    BY <1>6, Zenon DEF PassRuns
  <2> QED BY <1>0, <1>f, <2>1, BegunKeeps, Zenon
<1>7. CASE OwnDeviceListed
  <2>0. At("own", "idle") /\ UNCHANGED <<held, tracked>>
    BY <1>7, Zenon DEF OwnDeviceListed
  <2>1. \/ UNCHANGED <<task, lock>>
        \/ \E c : Derives("own", [Idle EXCEPT !.toward = {c}], held, {})
    BY <1>7, Zenon DEF OwnDeviceListed
  <2>2. CASE UNCHANGED <<task, lock>>
    <3>1. Others("own") /\ "own" \in Tasks
      BY <1>0, <2>2, Zenon DEF Others, TasksOK, Tasks
    <3>2. ~QueuedAt("own", task["own"].at) /\ ~QueuedAt("own", task'["own"].at)
      BY <2>0, <2>2, Zenon DEF At, QueuedAt, HoldingAt, DerivingAt
    <3>3. StartOK'
      BY <2>0, <2>2, Zenon DEF DerivationInv, StartOK, At
    <3> QED BY <2>0, <2>2, <3>1, <3>2, <3>3, AsideKeeps, Zenon
  <2>3. ASSUME NEW c, Derives("own", [Idle EXCEPT !.toward = {c}], held, {})
        PROVE  DerivationInv' /\ \A s \in Stores : tracked'[s].view >= tracked[s].view
    <3>1. DOMAIN [Idle EXCEPT !.toward = {c}] = TaskFields
      BY <1>f, Zenon
    <3> QED BY <1>0, <2>0, <2>3, <3>1, BegunKeeps, Zenon
  <2> QED BY <2>1, <2>2, <2>3, Zenon
<1>8. CASE WritesMembership
  <2>1. At("write", "idle") /\ Derives("write", Idle, held, {}) /\ UNCHANGED <<held, tracked>>
    BY <1>8, Zenon DEF WritesMembership
  <2> QED BY <1>0, <1>f, <2>1, BegunKeeps, Zenon
<1>9. CASE WatcherWakes
  <2>0. At("watch", "idle") /\ UNCHANGED <<held, tracked>>
    BY <1>9, Zenon DEF WatcherWakes
  <2>1. \/ Derives("watch", Idle, held, seen'.met)
        \/ Moves("watch", "settles") /\ lock' = lock
    BY <1>9, Zenon DEF WatcherWakes
  <2>2. CASE Derives("watch", Idle, held, seen'.met)
    BY <1>0, <1>f, <2>0, <2>2, BegunKeeps, Zenon
  <2>3. CASE Moves("watch", "settles") /\ lock' = lock
    <3> DEFINE r == [task["watch"] EXCEPT !.at = "settles"]
    <3>1. DOMAIN r = TaskFields /\ r.at = "settles"
      BY <1>d, <1>f, Zenon
    <3>2. task' = [task EXCEPT !["watch"] = r]
      BY <1>0, <2>3, Zenon DEF TasksOK, Moves
    <3> HIDE DEF r
    <3> QED BY <1>0, <2>0, <2>3, <3>1, <3>2, TurnKeeps, Zenon DEF At
  <2> QED BY <2>1, <2>2, <2>3, Zenon
<1>10. CASE WatcherSettles
  <2>1. At("watch", "settles") /\ Derives("watch", Idle, held, seen'.met) /\ UNCHANGED <<held, tracked>>
    BY <1>10, Zenon DEF WatcherSettles
  <2> QED BY <1>0, <1>f, <2>1, BegunKeeps, Zenon
<1> QED BY <1>2, <1>3, <1>4, <1>5, <1>6, <1>7, <1>8, <1>9, <1>10, Zenon

\* A departure.
LEMMA ForgetKeeps ==
    ASSUME DerivationInv, held \subseteq Stores, engine'.writes \in Nat, engine'.writes >= engine.writes,
           PodForgotten \/ ForgetTurnsOut \/ ForgetLeavesSwarm
    PROVE  DerivationInv' /\ NoneGoesBack
<1>0. /\ TasksOK /\ StartOK /\ DocsShaped(tracked) /\ \A s \in Stores : tracked[s].view \in Nat
      /\ "forget" \in Tasks /\ "start" \in Tasks
  BY DEF DerivationInv, DocsOK, DocsShaped, Tasks
<1>1. PICK at : Moves("forget", at) /\ at \in {"turns out", "leaves swarm", "idle"}
  BY Zenon DEF PodForgotten, ForgetTurnsOut, ForgetLeavesSwarm
<1>2. Others("forget") /\ task'["forget"].at = at
  BY <1>0, <1>1, TaskMoves, Zenon
<1>3. /\ task'["start"] = task["start"] /\ task["start"].at = "idle"
      /\ task["forget"].at \in {"turns out", "leaves swarm", "idle"} /\ lock' = lock
  BY <1>0, <1>2, Zenon DEF PodForgotten, ForgetTurnsOut, ForgetLeavesSwarm, At, StartOK, Others
<1>4. KeepsToLock("forget")
  BY <1>1, <1>2, <1>3, Zenon DEF KeepsToLock, StaysAside, QueuedAt, HoldingAt, DerivingAt
<1>5. CASE tracked' = tracked /\ held' = held
  <2>1. StartOK'
    BY <1>0, <1>3, <1>5, Zenon DEF StartOK, At
  <2> QED BY <1>0, <1>4, <1>5, <2>1, KeepsViews DEF NoneGoesBack
<1>6. CASE ForgetTurnsOut
  <2>1. held' = {"m"} /\ tracked' = TurnedContactsOnly(tracked)
    BY <1>6, Zenon DEF ForgetTurnsOut
  <2>2. NoDoc.view = 0 /\ DOMAIN NoDoc = DocFields
    BY Zenon DEF NoDoc, Doc, DocFields
  <2>3. /\ DocsShaped(tracked') /\ tracked'["r"] = NoDoc
        /\ tracked'["m"].view = tracked["m"].view
    BY <1>0, <2>1, <2>2, Zenon DEF TurnedContactsOnly, DocsShaped, Stores, DocFields
  <2>4. StartOK'
    BY <1>3, <2>1, <2>3, Zenon DEF StartOK, At
  <2>5. \A s \in Stores : tracked'[s].view \in {tracked[s].view, 0}
    BY <2>2, <2>3, Zenon DEF Stores
  <2>6. DerivationInv'
    BY <1>0, <1>4, <2>3, <2>4, <2>5, KeepsViews, Zenon
  <2>7. NoneGoesBack
    BY <1>0, <2>3 DEF NoneGoesBack, Stores
  <2> QED BY <2>6, <2>7, Zenon
<1> QED BY <1>5, <1>6, Zenon DEF PodForgotten, ForgetLeavesSwarm

\* A start, up to the derivation before it.
LEMMA ImportKeeps ==
    ASSUME DerivationInv, held \subseteq Stores, engine'.writes \in Nat, engine'.writes >= engine.writes,
           ImportBegins \/ ImportsRecords
    PROVE  DerivationInv' /\ NoneGoesBack
<1>0. /\ TasksOK /\ StartOK /\ DocsShaped(tracked) /\ \A s \in Stores : tracked[s].view \in Nat
      /\ "forget" \in Tasks /\ "start" \in Tasks
  BY DEF DerivationInv, DocsOK, DocsShaped, Tasks
<1>1. CASE ImportBegins
  <2>1. /\ task["start"].at = "idle" /\ task["forget"].at = "idle" /\ held = {"m"}
        /\ Moves("start", "imports") /\ UNCHANGED <<held, tracked, lock>>
    BY <1>1, Zenon DEF ImportBegins, At
  <2>2. Others("start") /\ task'["start"].at = "imports"
    BY <1>0, <2>1, TaskMoves, Zenon
  <2>3. task'["forget"] = task["forget"]
    BY <1>0, <2>2, Zenon DEF Others
  <2>4. StartOK'
    BY <1>0, <2>1, <2>2, <2>3, Zenon DEF StartOK, At
  <2>5. ~QueuedAt("start", task["start"].at) /\ ~QueuedAt("start", task'["start"].at)
    BY <2>1, <2>2, Zenon DEF QueuedAt, HoldingAt, DerivingAt
  <2> QED BY <1>0, <2>1, <2>2, <2>4, <2>5, AsideKeeps, Zenon DEF NoneGoesBack
<1>2. CASE ImportsRecords
  <2> DEFINE doc == Doc(Setting.ticketed, "Swarm")
  <2>1. /\ task["start"].at = "imports" /\ held' = Stores
        /\ Derives("start", Idle, Stores, {})
        /\ tracked' = [tracked EXCEPT !["r"] = doc, !["m"].strategy = "Swarm"]
    BY <1>2, Zenon DEF ImportsRecords, At
  <2>2. doc.view = 0 /\ DOMAIN doc = DocFields
    BY Zenon DEF Doc, DocFields
  <2> HIDE DEF doc
  <2>3. DOMAIN Idle = TaskFields
    BY Zenon DEF TaskFields
  <2>4. KeepsToLock("start") /\ task'["start"].at = "waits"
    BY <1>0, <2>1, <2>3, DerivesQueues, Zenon DEF QueuedAt, HoldingAt, DerivingAt
  <2>5. task'["forget"] = task["forget"] /\ task["forget"].at = "idle" /\ "r" \notin held
    BY <1>0, <2>1, <2>4, Zenon DEF KeepsToLock, StaysAside, Queues, GoesOn, GoesOut, Others, StartOK, At
  <2>6. DocsShaped(tracked') /\ tracked'["r"].view = 0 /\ tracked'["m"].view = tracked["m"].view
    BY <1>0, <2>1, <2>2, Zenon DEF DocsShaped, Stores, DocFields
  <2>7. StartOK'
    BY <2>1, <2>4, <2>5, Zenon DEF StartOK, At, Stores
  <2>8. \A s \in Stores : tracked'[s].view \in {tracked[s].view, 0}
    BY <2>6, Zenon DEF Stores
  <2>9. DerivationInv'
    BY <1>0, <2>4, <2>6, <2>7, <2>8, KeepsViews, Zenon
  <2>10. tracked["r"] = NoDoc
    BY <1>0, <2>5, Zenon DEF StartOK
  <2>11. NoneGoesBack
    BY <1>0, <2>6, <2>10 DEF NoneGoesBack, Stores
  <2> QED BY <2>9, <2>11, Zenon
<1> QED BY <1>1, <1>2, Zenon

\* And past it.
LEMMA StartingKeeps ==
    ASSUME DerivationInv, held \subseteq Stores, engine'.writes \in Nat, engine'.writes >= engine.writes,
           JoinsTicketed \/ StartsMembership \/ AwaitsMembership \/ StartsRecords
    PROVE  DerivationInv' /\ NoneGoesBack
<1>0. /\ TasksOK /\ StartOK /\ LockOK /\ DocsShaped(tracked)
      /\ \A s \in Stores : tracked[s].view \in Nat
      /\ "start" \in Tasks
  BY DEF DerivationInv, DocsOK, DocsShaped, Tasks
<1>f. DOMAIN Idle = TaskFields /\ Idle.at = "idle" /\ {"at", "contacts"} \subseteq TaskFields
  BY Zenon DEF TaskFields, Idle
<1>1. CASE JoinsTicketed
  <2>1. PICK all, contacts :
          /\ tracked' = [s \in Stores |-> [tracked[s] EXCEPT !.contacts = all[s]]]
          /\ task' = [task EXCEPT !["start"] = [Idle EXCEPT !.at = "starts m", !.contacts = contacts]]
    <3> DEFINE all(s) == tracked[s].contacts
                         \cup {c \in task["start"].ticketed[s] :
                                  \A k \in tracked[s].contacts : k[1] # c[1]}
               fn == [s \in Stores |-> all(s)]
    <3>1. /\ tracked' = [s \in Stores |-> [tracked[s] EXCEPT !.contacts = all(s)]]
          /\ task' = [task EXCEPT !["start"] = [Idle EXCEPT !.at = "starts m", !.contacts = fn]]
      BY <1>1, Zenon DEF JoinsTicketed
    <3> HIDE DEF all
    <3>2. tracked' = [s \in Stores |-> [tracked[s] EXCEPT !.contacts = fn[s]]]
      BY <3>1, Zenon
    <3> HIDE DEF fn
    <3> QED BY <3>1, <3>2, Zenon
  <2>2. task["start"].at = "joins" /\ lock' = Unlocked("start") /\ held' = held
    BY <1>1, Zenon DEF JoinsTicketed, At
  <2> DEFINE r == [Idle EXCEPT !.at = "starts m", !.contacts = contacts]
  <2>3. DOMAIN r = TaskFields /\ r.at = "starts m"
    BY <1>f, Zenon
  <2>4. Others("start") /\ task'["start"] = r
    BY <1>0, <2>1, <2>3, TaskBecomes, Zenon
  <2> HIDE DEF r
  <2>5. HoldingAt("start", task["start"].at)
    BY <2>2, Zenon DEF HoldingAt
  <2>6. lock' = Tail(lock)
    BY <1>0, <2>2, <2>5, HolderIsHead, Zenon
  <2>7. KeepsToLock("start")
    BY <2>3, <2>4, <2>5, <2>6, Zenon DEF KeepsToLock, GoesOut, QueuedAt, HoldingAt, DerivingAt
  <2>8. DocsShaped(tracked') /\ \A s \in Stores : tracked'[s].view = tracked[s].view
    BY <1>0, <2>1, Zenon DEF DocsShaped, DocFields
  <2>9. "r" \in held
    BY <1>0, <2>2, Zenon DEF StartOK, At
  <2>10. StartOK'
    BY <1>0, <2>2, <2>3, <2>4, <2>9, StartKept, Zenon
  <2> QED BY <1>0, <2>7, <2>8, <2>10, KeepsViews DEF NoneGoesBack
<1>2. CASE StartsMembership \/ AwaitsMembership \/ StartsRecords
  <2>1. /\ task["start"].at \in {"starts m", "awaits", "starts r"}
        /\ UNCHANGED <<held, tracked, lock>>
        /\ \/ task' = [task EXCEPT !["start"] = Idle]
           \/ Moves("start", "awaits") \/ Moves("start", "starts r")
    BY <1>2, Zenon DEF StartsMembership, AwaitsMembership, StartsRecords, At
  <2>2. Others("start") /\ task'["start"].at \in {"idle", "awaits", "starts r"}
    BY <1>0, <1>f, <2>1, TaskBecomes, TaskMoves, Zenon
  <2>3. ~QueuedAt("start", task["start"].at) /\ ~QueuedAt("start", task'["start"].at)
    BY <2>1, <2>2, Zenon DEF QueuedAt, HoldingAt, DerivingAt
  <2>4. StartOK'
    BY <1>0, <2>1, <2>2, StartKept, Zenon
  <2> QED BY <1>0, <2>1, <2>2, <2>3, <2>4, AsideKeeps, Zenon DEF NoneGoesBack
<1> QED BY <1>1, <1>2, Zenon

\* Whatever else goes on leaves the tasks and the documents alone.
LEMMA RestKeeps ==
    ASSUME DerivationInv, engine'.writes \in Nat, engine'.writes >= engine.writes,
           UNCHANGED <<task, lock, tracked, held>>
    PROVE  DerivationInv' /\ NoneGoesBack
<1>1. \A s \in Stores : tracked[s].view \in Nat
  BY DEF DerivationInv, DocsOK
<1>2. DocsOK'
  BY DEF DerivationInv, DocsOK
<1>3. ViewsOK'
  BY DEF DerivationInv, ViewsOK
<1>4. TasksOK' /\ LockOK' /\ StartOK'
  BY Zenon DEF DerivationInv, TasksOK, LockOK, StartOK, At
<1>5. NoneGoesBack
  BY <1>1 DEF NoneGoesBack
<1> QED BY <1>2, <1>3, <1>4, <1>5, Zenon DEF DerivationInv

\* The view of a derivation under way stays behind no document's, and no document
\* goes back.
LEMMA DerivationStep ==
    ASSUME SwarmInv, DerivationInv, Steps \/ Happens
    PROVE  DerivationInv' /\ NoneGoesBack
<1>0. /\ engine'.writes \in Nat /\ engine'.writes >= engine.writes
      /\ EngineOK(engine) /\ held \subseteq Stores
  BY WritesGrow, Zenon DEF SwarmInv
<1>1. ASSUME NEW t \in Tasks,
             \/ ReadsView(t) \/ ComputesContacts(t) \/ StatesMembership(t) \/ StatesRecords(t)
             \/ DerivationFails(t)
      PROVE  DerivationInv' /\ NoneGoesBack
  BY <1>0, <1>1, DerivingKeeps, Zenon DEF NoneGoesBack
<1>2. ASSUME NEW t \in Tasks, AsksStore(t) \/ StartsStore(t) \/ LeavesAgain(t)
      PROVE  DerivationInv' /\ NoneGoesBack
  BY <1>0, <1>2, SyncingKeeps, Zenon DEF NoneGoesBack
<1>3. CASE \/ PassDerived \/ OwnDerived \/ WriteReturns \/ WatcherDerived
           \/ PassRuns \/ OwnDeviceListed \/ WritesMembership \/ WatcherWakes \/ WatcherSettles
  BY <1>0, <1>3, TurnsKeep, Zenon DEF NoneGoesBack
<1>4. CASE PodForgotten \/ ForgetTurnsOut \/ ForgetLeavesSwarm
  BY <1>0, <1>4, ForgetKeeps, Zenon
<1>5. CASE ImportBegins \/ ImportsRecords
  BY <1>0, <1>5, ImportKeeps, Zenon
<1>6. CASE JoinsTicketed \/ StartsMembership \/ AwaitsMembership \/ StartsRecords
  BY <1>0, <1>6, StartingKeeps, Zenon
<1>7. CASE \/ \E d \in Dials : DialGoesThrough(d) \/ AcceptEnds(d)
           \/ \E r \in engine.redials : RetryFires(r)
           \/ ActorReads
           \/ \E l \in ended : ActorHearsEnd(l)
  <2>1. UNCHANGED <<task, lock, tracked, held>>
    BY <1>7, Zenon DEF DialGoesThrough, AcceptEnds, RetryFires, ActorReads, ActorHearsEnd, nodeVars
  <2> QED BY <1>0, <2>1, RestKeeps, Zenon
<1>8. CASE \/ \E d \in Dials : DialFails(d) \/ DialMisses(d) \/ Accepts(d)
           \/ \E s \in Stores, p \in Peers :
                 LoopReportsUp(s, p) \/ LoopReportsDown(s, p) \/ LoopReportsNews(s, p)
           \/ \E s \in Stores : LoopEnds(s)
           \/ EventsLag
  <2>1. UNCHANGED <<task, lock, tracked, held>>
    BY <1>8, Zenon DEF DialFails, DialMisses, Accepts, LoopReportsUp, LoopReportsDown, LoopReportsNews,
                LoopEnds, EventsLag, nodeVars
  <2> QED BY <1>0, <2>1, RestKeeps, Zenon
<1>9. CASE Steps
  BY <1>9, <1>1, <1>2, <1>3, <1>4, <1>5, <1>6, <1>7, Zenon DEF Steps, Runs
<1>10. CASE Happens
  BY <1>10, <1>1, <1>3, <1>4, <1>5, <1>8, Zenon DEF Happens
<1> QED BY <1>9, <1>10, Zenon

LEMMA InitDerivation == Init => DerivationInv
<1> SUFFICES ASSUME Init PROVE DerivationInv
  BY Zenon
<1>1. /\ engine.writes = 1 /\ lock = <<>> /\ held = Stores
      /\ task = [t \in Tasks |-> Idle]
      /\ tracked = [s \in Stores |-> Doc(Setting.ticketed, "Swarm")]
  BY Zenon DEF Init, ContactsInit, NewEngine
<1>2. Idle.at = "idle" /\ DOMAIN Idle = TaskFields
  BY Zenon DEF Idle, TaskFields
<1>3. TasksOK /\ \A t \in Tasks : ~QueuedAt(t, task[t].at)
  BY <1>1, <1>2, Zenon DEF TasksOK, QueuedAt, HoldingAt, DerivingAt
<1>4. LockOK
  BY <1>1, <1>3 DEF LockOK, QueuedAt
<1>5. DocsOK
  BY <1>1 DEF DocsOK, Doc, DocFields
<1>6. ViewsOK
  BY <1>3, Zenon DEF ViewsOK, QueuedAt, HoldingAt
<1>7. StartOK
  BY <1>1, <1>2, Zenon DEF StartOK, At, Tasks, Stores
<1> QED BY <1>1, <1>3, <1>4, <1>5, <1>6, <1>7 DEF DerivationInv

\* For any views and any interleaving of watcher, pass, own-device watcher, write,
\* start and departure, what is tracked of a store never goes back to an earlier
\* membership view (HostedStack::pod_derivations).
THEOREM ViewsNeverGoBack == Spec => ContactsNeverGoBack
<1>1. Init => SwarmInv /\ DerivationInv
  BY InitSwarm, InitDerivation, Zenon
<1>2. SwarmInv /\ DerivationInv /\ [Next]_vars
        => /\ (SwarmInv /\ DerivationInv)'
           /\ [\A s \in Stores : tracked[s] # NoDoc /\ tracked'[s] # NoDoc
                                   => tracked'[s].view >= tracked[s].view]_vars
  <2> SUFFICES ASSUME SwarmInv, DerivationInv, [Next]_vars
               PROVE  DerivationInv' /\ (NoneGoesBack \/ UNCHANGED vars)
    BY SwarmStep, Zenon DEF NoneGoesBack
  <2>1. CASE Steps \/ Happens
    BY <2>1, DerivationStep, Zenon
  <2>2. CASE UNCHANGED contactVars
    <3>1. UNCHANGED <<task, lock, tracked, held, engine>>
      BY <2>2, Zenon DEF contactVars, nodeVars
    <3>2. engine'.writes \in Nat /\ engine'.writes >= engine.writes
      BY <3>1 DEF DerivationInv
    <3> QED BY <3>1, <3>2, RestKeeps, Zenon
  <2> QED BY <2>1, <2>2, Zenon DEF Next, vars
<1> QED BY <1>1, <1>2, PTL DEF Spec, ContactsNeverGoBack
=============================================================================
