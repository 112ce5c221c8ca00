----------------------------- MODULE FetchQueue -----------------------------
(***************************************************************************)
(* The queues of payload fetches (pdn-store engine/live/fetches.rs): a queue*)
(* per provider, a limit of fetches in flight toward each, and the pauses of*)
(* a provider whose fetch stalled or failed.                                *)
(*                                                                          *)
(* Pure operators over a record x with the fields of Fetches and, beside    *)
(* them, what the live actor makes of Steps: tasks counts the fetches started    *)
(* and not reported yet, timers are the pauses running, unrouted the payloads    *)
(* this turn left without a provider.                                       *)
(***************************************************************************)
EXTENDS Integers, Sequences, FiniteSets, SequencesExt, Functions

CONSTANTS
    Hash,        \* payloads
    Node,        \* providers
    Limit,       \* fetches in flight toward one provider
    MaxTries     \* bound on the pauses UNREACHED_RETRY_FOR leaves room for

ASSUME FetchAssumption ==
    /\ IsFiniteSet(Hash) /\ IsFiniteSet(Node)
    /\ Limit \in Nat \ {0} /\ MaxTries \in Nat \ {0}

Outcome == {"Fetched", "Held", "Stalled", "ConnectFailed", "Lacks", "Failed", "LocalFailure"}

\* fetching holds the provider a payload is fetched from, if any.
WantedRec == [eligible : SUBSET Node, fetching : SUBSET Node]

Series == [state : {"none", "paused", "probing"}, id : Nat, tries : 0 .. MaxTries]
NoSeries == [state |-> "none", id |-> 0, tries |-> 0]

Idle == [queue |-> <<>>, holds |-> {}, in_flight |-> 0, series |-> NoSeries]

NoFetches ==
    [holders |-> [h \in Hash |-> {}], wanted |-> <<>>, provider |-> [p \in Node |-> Idle],
     next_series |-> 0, tasks |-> [t \in Node \X Hash |-> 0], timers |-> {}, unrouted |-> {}]

IsWanted(x, h) == h \in DOMAIN x.wanted

\* A queue's payload is dropped in its turn unless it can be fetched here.
Takes(x, p, h) ==
    IsWanted(x, h) /\ x.wanted[h].fetching = {} /\ p \in x.wanted[h].eligible

Room(series) ==
    CASE series.state = "none" -> Limit
      [] series.state = "probing" -> 1
      [] series.state = "paused" -> 0

\* Fetches start toward p while it has room; a probe that finds nothing to fetch
\* ends the series.
Dispatch(x, p) ==
    LET e == x.provider[p]
        ready == {i \in DOMAIN e.queue : /\ Takes(x, p, e.queue[i])
                                         /\ \A j \in 1 .. i - 1 : e.queue[j] # e.queue[i]}
        popped == {i \in DOMAIN e.queue :
                     Cardinality({j \in ready : j < i}) < Room(e.series) - e.in_flight}
        taken == {e.queue[i] : i \in ready \cap popped}
        in_flight == e.in_flight + Cardinality(taken)
    IN [x EXCEPT
          !.wanted = [h \in DOMAIN @ |-> IF h \in taken THEN [@[h] EXCEPT !.fetching = {p}] ELSE @[h]],
          !.tasks = [t \in DOMAIN @ |-> IF t[1] = p /\ t[2] \in taken THEN @[t] + 1 ELSE @[t]],
          !.provider[p] =
             [@ EXCEPT !.queue = SubSeq(@, Cardinality(popped) + 1, Len(@)),
                       !.in_flight = in_flight,
                       !.series = IF in_flight = 0 /\ @.state = "probing" THEN NoSeries ELSE @]]

\* h at the end of the queue of each of ps, which are dispatched in some order.
Enqueue(x, h, ps, order) ==
    LET y == [x EXCEPT !.provider = [p \in Node |->
                IF p \in ps THEN [@[p] EXCEPT !.queue = Append(@, h), !.holds = @ \cup {h}] ELSE @[p]]]
    IN FoldLeft(LAMBDA z, p : IF p \in ps THEN Dispatch(z, p) ELSE z, y, order)

\* p is recorded as holding h, and queues it while it is wanted.
Register(x, h, p) ==
    LET y == [x EXCEPT !.holders[h] = @ \cup {p}] IN
    IF ~IsWanted(y, h) \/ p \in y.wanted[h].eligible THEN y
    ELSE Enqueue([y EXCEPT !.wanted[h].eligible = @ \cup {p}], h, {p}, <<p>>)

\* h is wanted of every provider registered for it; there is one.
Want(x, h, order) ==
    LET ps == x.holders[h]
        record == [eligible |-> ps, fetching |-> {}]
    IN Enqueue([x EXCEPT !.wanted = [k \in DOMAIN @ \cup {h} |-> IF k = h THEN record ELSE @[k]]],
               h, ps, order)

Forget(x, h) == [x EXCEPT !.wanted = Restrict(@, DOMAIN @ \ {h})]

Unwant(x, h) ==
    IF ~IsWanted(x, h) THEN x
    ELSE [Forget(x, h) EXCEPT !.provider =
            [p \in Node |-> IF p \in x.wanted[h].eligible
                            THEN [@[p] EXCEPT !.holds = @ \ {h}] ELSE @[p]]]

Stranded(x, h) == IsWanted(x, h) /\ x.wanted[h].eligible = {} /\ x.wanted[h].fetching = {}

UnrouteIfStranded(x, hs) ==
    LET lost == {h \in hs : Stranded(x, h)}
    IN [x EXCEPT !.wanted = Restrict(@, DOMAIN @ \ lost), !.unrouted = @ \cup lost]

\* Mutant of DropPair: a provider that lacks the payload stays eligible for it.
DropPairKeeps(x, h, p) == x

DropPair(x, h, p) ==
    [x EXCEPT !.wanted = [k \in DOMAIN @ |->
                            IF k = h THEN [@[k] EXCEPT !.eligible = @ \ {p}] ELSE @[k]],
              !.provider[p].holds = @ \ {h}]

\* Mutant of DropProvider: the count of what runs goes with the provider.
DropProviderForgets(x, p) ==
    UnrouteIfStranded([x EXCEPT
        !.wanted = [h \in DOMAIN @ |-> [@[h] EXCEPT !.eligible = @ \ {p}]],
        !.provider[p] = Idle], x.provider[p].holds)

DropProvider(x, p) ==
    LET holds == x.provider[p].holds
        y == [x EXCEPT
                !.wanted = [h \in DOMAIN @ |->
                              IF h \in holds THEN [@[h] EXCEPT !.eligible = @ \ {p}] ELSE @[h]],
                !.provider[p] = [Idle EXCEPT !.in_flight = x.provider[p].in_flight]]
    IN UnrouteIfStranded(y, holds)

Paused(x, p, id, tries) ==
    [x EXCEPT !.provider[p].series = [state |-> "paused", id |-> id, tries |-> tries],
              !.timers = @ \cup {<<p, id>>}]

\* Mutant of Pause: the timer of a first pause is not armed.
PauseUnarmed(x, p, spent) ==
    LET s == x.provider[p].series
    IN CASE s.state = "paused" -> x
         [] s.state = "none" -> [Paused(x, p, x.next_series, 1) EXCEPT !.next_series = @ + 1,
                                                                        !.timers = x.timers]
         [] s.state = "probing" /\ ~spent -> Paused(x, p, s.id, s.tries + 1)
         [] s.state = "probing" /\ spent -> DropProvider(x, p)

\* The series of p starts, or its next pause; spent tells that it has lasted
\* UNREACHED_RETRY_FOR.
Pause(x, p, spent) ==
    LET s == x.provider[p].series
    IN CASE s.state = "paused" -> x
         [] s.state = "none" -> [Paused(x, p, x.next_series, 1) EXCEPT !.next_series = @ + 1]
         [] s.state = "probing" /\ ~spent -> Paused(x, p, s.id, s.tries + 1)
         [] s.state = "probing" /\ spent -> DropProvider(x, p)

Requeue(x, h, order) ==
    IF IsWanted(x, h) THEN Enqueue(x, h, x.wanted[h].eligible, order) ELSE x

\* A fetch of h from p ended.
Finished(x, p, h, outcome, neighbor, spent, order) ==
    LET ended == [x EXCEPT
                    !.tasks[<<p, h>>] = @ - 1,
                    !.provider[p].in_flight = @ - 1,
                    !.wanted = [k \in DOMAIN @ |->
                                  IF k = h THEN [@[k] EXCEPT !.fetching = @ \ {p}] ELSE @[k]]]
        judged ==
            CASE outcome = "Fetched" -> [Unwant(ended, h) EXCEPT !.provider[p].series = NoSeries]
              [] outcome = "Held" -> Unwant(ended, h)
              [] outcome = "LocalFailure" ->
                   [Unwant(ended, h) EXCEPT !.unrouted = @ \cup ({h} \cap DOMAIN ended.wanted)]
              [] outcome = "Stalled" \/ (outcome \in {"ConnectFailed", "Failed"} /\ neighbor) ->
                   Requeue(Pause(ended, p, spent), h, order)
              [] outcome = "ConnectFailed" /\ ~neighbor -> Requeue(DropProvider(ended, p), h, order)
              [] outcome = "Lacks" \/ (outcome = "Failed" /\ ~neighbor) ->
                   Requeue(DropPair(ended, h, p), h, order)
    IN UnrouteIfStranded(Dispatch(judged, p), {h})

\* The pause of p's series id is over.
Resume(x, p, id) ==
    LET s == x.provider[p].series
        y == [x EXCEPT !.timers = @ \ {<<p, id>>}]
    IN IF s.state = "paused" /\ s.id = id
       THEN Dispatch([y EXCEPT !.provider[p].series.state = "probing"], p)
       ELSE y

\* p is a gossip neighbor in no swarm any more.
NeighborGone(x, p) ==
    IF x.provider[p].series.state # "none" THEN DropProvider(x, p) ELSE x
=============================================================================
