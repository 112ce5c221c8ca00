----------------------------- MODULE Observation ----------------------------
(***************************************************************************)
(* How the inserts of a store's replicas reach an observer: from the sync      *)
(* actor through the live actor's bounded channel, which the sync actor waits  *)
(* on (engine/live/draining.rs), the live actor's ordered subscriptions, which *)
(* drop behind a notice (subscribers.rs), and the task that numbers them for   *)
(* the consumer (pdn-node observation.rs).  The sync actor's own actions are   *)
(* in SyncActor: an insert leaves its events in pending.                       *)
(***************************************************************************)
EXTENDS Integers, Sequences, Functions

CONSTANTS
    Store,          \* the replicas
    EVENTS_CAP,     \* events the live actor's channel holds
    STORE_CAPACITY, \* events an ordered subscription holds
    BOUND           \* records the numbering task sends ahead of the consumer

VARIABLES
    pending,  \* events the sync actor has yet to emit before it answers
    channel,  \* the live actor's replica events
    held,     \* those it took while it waited for an answer
    asked,    \* whether it waits for one
    feed,     \* per store, its ordered subscription
    pump,     \* the numbering task: lost and open stores, whether it runs
    out,      \* the records sent to the consumer, all of them
    reader,   \* the consumer: records read, those waiting, notices
    observed  \* the stores subscribed to

\* The body of a record is the number of an insert, or one of these.
Lagged == -1
EndOfStore == -2

pipe == <<pending, channel, held, asked, feed, pump, out, reader, observed>>
-----------------------------------------------------------------------------
(***************************************************************************)
(* A subscriber: what it has not read, how much was ever put, and the          *)
(* position of the last notice.                                                *)
(***************************************************************************)
NewSubscriber == [queue |-> <<>>, sent |-> 0, notice |-> -1, open |-> TRUE]

Put(sub, event) ==
    IF Len(sub.queue) < STORE_CAPACITY
    THEN [sub EXCEPT !.queue = Append(@, event), !.sent = @ + 1] ELSE sub

\* Mutant of Offer: the last place of the buffer is used for an event.
OfferToTheBrim(sub, event) ==
    LET taken == sub.sent - Len(sub.queue) IN
    IF Len(sub.queue) < STORE_CAPACITY THEN Put(sub, event)
    ELSE IF taken <= sub.notice THEN sub
    ELSE [Put(sub, Lagged) EXCEPT !.notice = sub.sent]

\* The last slot is kept for the notice; a notice still unread stands for what
\* is dropped after it.
Offer(sub, event) ==
    LET taken == sub.sent - Len(sub.queue) IN
    IF Len(sub.queue) + 1 < STORE_CAPACITY THEN Put(sub, event)
    ELSE IF taken <= sub.notice THEN sub
    ELSE [Put(sub, Lagged) EXCEPT !.notice = sub.sent]
-----------------------------------------------------------------------------
(***************************************************************************)
(* The two actors.                                                            *)
(***************************************************************************)
\* The sync actor sends the next event once there is room.
Emit ==
    /\ pending # <<>> /\ Len(channel) < EVENTS_CAP
    /\ channel' = Append(channel, Head(pending))
    /\ pending' = Tail(pending)
    /\ UNCHANGED <<held, asked, feed, pump, out, reader, observed>>

\* Mutant of Drain: the wait takes no event.
DrainNothing == FALSE /\ UNCHANGED pipe

\* A wait of the live actor goes on taking events.
Drain ==
    /\ asked /\ channel # <<>>
    /\ held' = Append(held, Head(channel))
    /\ channel' = Tail(channel)
    /\ UNCHANGED <<pending, asked, feed, pump, out, reader, observed>>

\* The next event is handled, a held one first, and offered to the store's
\* subscriber.
OnReplicaEvent ==
    LET queue == held \o channel
        e == Head(queue)
    IN
    /\ ~asked /\ queue # <<>>
    /\ held' = IF held # <<>> THEN Tail(held) ELSE held
    /\ channel' = IF held # <<>> THEN channel ELSE Tail(channel)
    /\ feed' = IF feed[e.store].open
               THEN [feed EXCEPT ![e.store] = Offer(@, e.n)] ELSE feed
    /\ UNCHANGED <<pending, asked, pump, out, reader, observed>>

\* The live actor leaves a store with its subscribers: the stream ends.
LeaveObserved(s) ==
    /\ ~asked /\ feed[s].open
    /\ feed' = [feed EXCEPT ![s].open = FALSE]
    /\ UNCHANGED <<pending, channel, held, asked, pump, out, reader, observed>>
-----------------------------------------------------------------------------
(***************************************************************************)
(* The numbering task.  line is what it has sent, so the number of a record    *)
(* is its place.                                                               *)
(***************************************************************************)
Line == [out |-> out, waiting |-> reader.waiting, lost |-> pump.lost]

Send(line, s, body) ==
    [line EXCEPT !.out = Append(@, [store |-> s, body |-> body]), !.waiting = @ + 1]

FlushLag(line, s) ==
    IF s \in line.lost /\ line.waiting < BOUND
    THEN [Send(line, s, Lagged) EXCEPT !.lost = @ \ {s}] ELSE line

FlushLags(line) == FlushLag(FlushLag(line, "membership"), "records")

Admit(line, s, body) ==
    LET marked == IF s \in line.lost
                  THEN [Send(line, s, Lagged) EXCEPT !.lost = @ \ {s}] ELSE line
    IN IF line.waiting < BOUND THEN Send(line, s, body)
       ELSE IF body # EndOfStore THEN [line EXCEPT !.lost = @ \cup {s}]
       ELSE Send(marked, s, body)

\* The task waits for the next event, and room it lagged for comes first.
Selecting == pump.runs /\ pump.hand = <<>> /\ ~(reader.permit /\ pump.lost # {})

PumpHas(line, hand) ==
    /\ out' = line.out
    /\ reader' = [reader EXCEPT !.waiting = line.waiting]
    /\ pump' = [pump EXCEPT !.lost = line.lost, !.hand = hand]

PumpTakes(s) ==
    /\ Selecting /\ s \in pump.streams /\ feed[s].queue # <<>>
    /\ feed' = [feed EXCEPT ![s].queue = Tail(@)]
    /\ PumpHas(FlushLags(Line), <<s, Head(feed[s].queue)>>)
    /\ UNCHANGED <<pending, channel, held, asked, observed>>

PumpCloses(s) ==
    LET line == FlushLags(Line) IN
    /\ Selecting /\ s \in pump.streams /\ feed[s].queue = <<>> /\ ~feed[s].open
    /\ out' = line.out
    /\ reader' = [reader EXCEPT !.waiting = line.waiting]
    /\ pump' = [pump EXCEPT !.lost = line.lost, !.hand = <<s, EndOfStore>>, !.streams = @ \ {s}]
    /\ UNCHANGED <<pending, channel, held, asked, feed, observed>>

PumpAdmits ==
    /\ pump.hand # <<>>
    /\ PumpHas(Admit(Line, pump.hand[1], pump.hand[2]), <<>>)
    /\ UNCHANGED <<pending, channel, held, asked, feed, observed>>

\* The consumer made room while records were lost.
PumpFlushes ==
    LET line == FlushLags(Line) IN
    /\ pump.runs /\ pump.hand = <<>> /\ reader.permit /\ pump.lost # {}
    /\ out' = line.out
    /\ reader' = [reader EXCEPT !.waiting = line.waiting, !.permit = FALSE]
    /\ pump' = [pump EXCEPT !.lost = line.lost]
    /\ UNCHANGED <<pending, channel, held, asked, feed, observed>>

PumpEnds ==
    /\ pump.runs /\ pump.hand = <<>> /\ pump.streams = {} /\ pump.lost = {}
    /\ pump' = [pump EXCEPT !.runs = FALSE]
    /\ UNCHANGED <<pending, channel, held, asked, feed, out, reader, observed>>

\* The consumer takes a record, and only then counts it read and notifies.
ReaderTakes ==
    /\ ~reader.taking /\ reader.read < Len(out)
    /\ reader' = [reader EXCEPT !.read = @ + 1, !.taking = TRUE]
    /\ UNCHANGED <<pending, channel, held, asked, feed, pump, out, observed>>

ReaderCounts ==
    /\ reader.taking
    /\ reader' = [reader EXCEPT !.taking = FALSE, !.waiting = @ - 1, !.permit = TRUE]
    /\ UNCHANGED <<pending, channel, held, asked, feed, pump, out, observed>>
-----------------------------------------------------------------------------
PipeInit(watched) ==
    /\ observed = watched
    /\ pending = <<>> /\ channel = <<>> /\ held = <<>> /\ asked = FALSE
    /\ feed = [s \in Store |-> [NewSubscriber EXCEPT !.open = s \in watched]]
    /\ pump = [lost |-> {}, streams |-> watched, hand |-> <<>>,
              runs |-> watched # {}]
    /\ out = <<>>
    /\ reader = [read |-> 0, taking |-> FALSE, waiting |-> 0, permit |-> FALSE]

PipeStep ==
    \/ Emit \/ Drain \/ OnReplicaEvent
    \/ \E s \in Store : PumpTakes(s) \/ PumpCloses(s)
    \/ PumpAdmits \/ PumpFlushes \/ PumpEnds \/ ReaderTakes \/ ReaderCounts
-----------------------------------------------------------------------------
\* The records of one store, as the consumer reads them.
RecordsOf(s) == SelectSeq(out, LAMBDA r : r.store = s)

\* Where the records of a store skip an insert, in the
\* subscription or at the bound, a lagged record of it follows the last insert
\* before the gap, or is still owed (LiveEvent::Lagged, Pump::admit).
GapsTold ==
    \A s \in Store :
        LET line == RecordsOf(s)
            number(i) == IF i = 0 THEN 0 ELSE line[i].body
        IN  \A j \in DOMAIN line, i \in 0 .. Len(line) :
                /\ i < j /\ number(i) \in Nat /\ number(j) \in Nat
                /\ number(i) + 1 < number(j)
                /\ \A k \in i + 1 .. j - 1 : line[k].body \notin Nat
                => s \in pump.lost \/ \E k \in i + 1 .. Len(line) : line[k].body = Lagged

\* The end of a store reaches the consumer however late it reads, and behind the
\* lagged record of what the store lost: nothing of that store follows it.
EndIsLast ==
    \A s \in Store : LET line == RecordsOf(s) IN
        \A i \in DOMAIN line : line[i].body = EndOfStore => i = Len(line)

\* A store whose stream ended has told so, or is about to.
EndTold ==
    \A s \in observed \ pump.streams :
        pump.hand = <<s, EndOfStore>> \/ \E r \in Range(out) : r.store = s /\ r.body = EndOfStore

\* No loss is silent: neither a skipped insert, in the subscription or at the
\* bound of the numbered stream, nor the end of a store (Subscriber::offer,
\* Pump::admit).
LossTold == GapsTold /\ EndTold

\* What the live actor asks of the sync actor is answered, whatever the events
\* the sync actor has to emit first (draining.rs: "a bare wait leaves both actors
\* waiting for good").
Answered == asked ~> ~asked
=============================================================================
