---------------------------- MODULE SyncSessions -----------------------------
(***************************************************************************)
(* The live actors of hosted identities exchanging the two stores of a pod  *)
(* (pdn-store engine/live.rs over net.rs and net/codec.rs).  Every party     *)
(* keeps one PeerState per counterpart and store; dials and accepted          *)
(* sessions run as tasks whose results reach the actor later, in any order.   *)
(*                                                                           *)
(* A connection is a slot of a bounded pool with an end at the dialer and an  *)
(* end at the acceptor.  Each end runs, then holds a result its actor has     *)
(* not handled yet, then is over; a slot with both ends over is reused.       *)
(*                                                                           *)
(* The data of a store is a version per writer.  A session serves the         *)
(* snapshot it froze at its start, so what a party has got from a             *)
(* counterpart is the highest version some finished exchange carried.         *)
(***************************************************************************)
EXTENDS PeerState, Integers, Sequences

CONSTANTS
    Party,       \* the (node id, identity) pairs, numbered in their order
    Stores,      \* the stores synced: "membership", "records" or both
    Conn,        \* the pool of connections
    Triggers,    \* the reasons the environment asks for a dial with
    Askers,      \* the parties the environment asks
    Fresh,       \* the parties whose replica starts empty: it judges no caller
    InProcess,   \* whether the parties share a node (and so an in-process pipe)
    MAX_REDIALS,
    Budgets      \* bounds on the environment, of which a behaviour has one: see Left

\* One pair: the slots of different pairs are independent.
ASSUME PartyAssumption == /\ Party \subseteq Nat
                          /\ \A p, q, r \in Party : p = q \/ q = r \/ p = r
ASSUME StoresAssumption == Stores \subseteq {"membership", "records"}
ASSUME TriggersAssumption == Triggers \subseteq SyncReason \ {"Resync"}
ASSUME AskersAssumption == Askers \subseteq Party
ASSUME RedialsAssumption == MAX_REDIALS \in Nat
ASSUME BudgetAssumption ==
    Budgets \subseteq [asks : Nat, writes : Nat, losses : Nat, unwritten : Nat, leaves : Nat]

VARIABLES
    syncing,     \* party -> the stores in its sync set
    slot,        \* key -> PeerState
    refused,     \* the keys whose last dial was answered "not found"
    streak,      \* key -> "already syncing" answers in a row
    due,         \* <<key, reason>> -> redials armed and not yet fired
    held,        \* <<party, peer>> -> dials of "records" held on "membership"
    conn,        \* the connections
    judges,      \* the parties whose access provider admits a caller
    ver,         \* <<party, store>> -> version written there
    told,        \* key -> version of the peer a report named
    got,         \* key -> version of the peer taken from exchanges
    left         \* what the environment may still do

engine == <<syncing, slot, refused, streak, due, held>>
data == <<judges, ver, told, got>>
vars == <<engine, conn, data, left>>

Pair == {k \in Party \X Party : k[1] # k[2]}
Key == {k \in Party \X Party \X Stores : k[1] # k[2]}

\* The key the acceptor of a connection files it under, and the dialer's.
DialerKey(c) == <<c.from, c.to, c.store>>
AcceptorKey(c) == <<c.to, c.from, c.store>>

DialResult == {"Ok", "AlreadySyncing", "NotFound", "Error"}
AcceptResult == {"Ok", "Error"} \cup (IF InProcess THEN {"Unnamed"} ELSE {})

\* reason is the dial's; answer is the refusal sent back, if any; snap and
\* served are the versions the two ends' snapshots hold, -1 before they open.
ConnRec ==
    {c \in [from : Party, to : Party, store : Stores, reason : SyncReason,
            dial : {"connecting", "sent", "over"} \cup DialResult,
            accept : {"none", "serving", "over"} \cup AcceptResult,
            answer : {"none", "AlreadySyncing", "NotFound"},
            snap : Int, served : Int] : c.from # c.to}

Closed == [dial |-> "over", accept |-> "over"]

\* A connection neither end of which is still to be handled is closed.
Retire(c) == IF c.dial = "over" /\ c.accept = "over" THEN Closed ELSE c

Open(cs) == {i \in Conn : cs[i] # Closed}

\* The environment's budget: dials asked for, versions written, exchanges
\* failed, refusals that cannot be written, stores left.
Left == [asks : Nat, writes : Nat, losses : Nat, unwritten : Nat, leaves : Nat]

Spend(what) == left[what] > 0 /\ left' = [left EXCEPT ![what] = @ - 1]

Max2(a, b) == IF a >= b THEN a ELSE b
-----------------------------------------------------------------------------
(***************************************************************************)
(* Dialing.  The operators take the slots s and the connections cs a handler *)
(* has come to, so that a handler that frees a pair and dials is one step;    *)
(* the sync set they read is the one the handler leaves.                      *)
(***************************************************************************)

\* Between two identities of a node the ask goes to the consumer, which opens
\* a pipe; the dial over it is always Announced.
ReasonOf(r) == IF InProcess THEN "Announced" ELSE r

Synced(k) == k[3] \in syncing'[k[1]]

Starts(s, k) == Synced(k) /\ ~IsRunning(s[k])

\* dial: start_connect, and a task when it says so.
DialSlots(s, k, r) ==
    IF Synced(k) THEN [s EXCEPT ![k] = StartConnect(@, ReasonOf(r))] ELSE s

DialTask(k, r) ==
    [from |-> k[1], to |-> k[2], store |-> k[3], reason |-> ReasonOf(r),
     dial |-> "connecting", accept |-> "none", answer |-> "none",
     snap |-> -1, served |-> -1]

DialConns(s, cs, k, r) ==
    IF Starts(s, k)
    THEN [cs EXCEPT ![CHOOSE i \in Conn \ Open(cs) : TRUE] = DialTask(k, r)]
    ELSE cs

\* Bound: a handler that starts a dial finds a connection of the pool free.
Room(s, cs, k) == Starts(s, k) => Open(cs) # Conn

Dial(s, cs, k, r) ==
    /\ Room(s, cs, k)
    /\ slot' = DialSlots(s, k, r)
    /\ conn' = DialConns(s, cs, k, r)

\* Mutant of ReleaseHeld: the dials held are dropped.
ReleaseHeldDrops(s, cs, k) ==
    slot' = s /\ conn' = cs /\ UNCHANGED held

\* release_held: the dials held on the membership exchange of k run one
\* after the other.  Past the first the records pair is running, so each of
\* the others only queues.
ReleaseHeld(s, cs, k) ==
    LET pair == <<k[1], k[2]>>
        rec == <<k[1], k[2], "records">>
        rs == held[pair]
        queues == \E i \in 2 .. Len(rs) : rs[i] # "Resync"
        first == DialSlots(s, rec, Head(rs))
    IN IF k[3] # "membership" \/ rec \notin Key \/ rs = <<>>
       THEN slot' = s /\ conn' = cs /\ UNCHANGED held
       ELSE /\ Room(s, cs, rec)
            /\ held' = [held EXCEPT ![pair] = <<>>]
            /\ conn' = DialConns(s, cs, rec, Head(rs))
            /\ slot' = IF Synced(rec)
                       THEN [first EXCEPT ![rec].resync = @ \/ queues]
                       ELSE s

\* Mutant of SyncWith: a record store is dialed at once.
SyncWithAtOnce(s, cs, k, r) == Dial(s, cs, k, r) /\ UNCHANGED held

\* sync_with_identity: the records store waits for the membership exchange
\* with the counterpart, which is dialed first when none runs.
SyncWith(s, cs, k, r) ==
    LET first == <<k[1], k[2], "membership">>
    IN IF k[3] = "records" /\ first \in Key /\ (IsRunning(s[first]) \/ Starts(s, first))
       THEN /\ held' = [held EXCEPT ![<<k[1], k[2]>>] = Append(@, r)]
            /\ IF IsRunning(s[first]) THEN slot' = s /\ conn' = cs
               ELSE Dial(s, cs, first, r)
       ELSE Dial(s, cs, k, r) /\ UNCHANGED held
-----------------------------------------------------------------------------
(***************************************************************************)
(* What asks for a dial.                                                     *)
(***************************************************************************)

\* A contact to sync with, a new neighbour, an announced write, or the retry
\* of a dial that reached no one.
Ask(k, r) ==
    /\ k[1] \in Askers /\ r \in Triggers
    /\ Spend("asks")
    /\ UNCHANGED <<syncing, refused, streak, due, data>>
    /\ SyncWith(slot, conn, k, r)

Write(p, n) ==
    /\ Spend("writes")
    /\ ver' = [ver EXCEPT ![<<p, n>>] = @ + 1]
    /\ UNCHANGED <<engine, conn, judges, told, got>>

\* A gossip report of what the peer holds: dialed when it names news.
Report(k) ==
    LET v == ver[<<k[2], k[3]>>] IN
    /\ told[k] < v
    /\ k[3] \in syncing[k[1]]
    /\ told' = [told EXCEPT ![k] = v]
    /\ UNCHANGED <<syncing, refused, streak, due, judges, ver, got, left>>
    /\ IF got[k] < v THEN SyncWith(slot, conn, k, "SyncReport")
       ELSE UNCHANGED <<slot, conn, held>>

\* A redial armed by redial_after fires, however late.
Redial(k, r) ==
    /\ due[<<k, r>>] > 0
    /\ due' = [due EXCEPT ![<<k, r>>] = @ - 1]
    /\ UNCHANGED <<syncing, refused, streak, data, left>>
    /\ SyncWith(slot, conn, k, r)
-----------------------------------------------------------------------------
(***************************************************************************)
(* The tasks: what happens on a connection.                                  *)
(***************************************************************************)

\* The dialer is connected: it freezes its snapshot and sends Init.
SendInit(i) ==
    /\ i \in Open(conn) /\ conn[i].dial = "connecting"
    /\ conn' = [conn EXCEPT ![i].dial = "sent",
                            ![i].snap = ver[<<conn[i].from, conn[i].store>>]]
    /\ UNCHANGED <<engine, data, left>>

\* The acceptor has read Init: its access provider is asked, then its actor.
\* A refusal goes out as a frame and ends the session.
Answered(c, reason) ==
    Retire([c EXCEPT !.accept = "over",
                     !.answer = IF c.dial = "sent" THEN reason ELSE @])

Decide(i) ==
    LET c == conn[i]
        k == AcceptorKey(c)
        admitted == /\ c.to \in judges
                    /\ c.store \in syncing[c.to]
                    /\ Admits(slot[k], k \in refused, c.to > c.from)
        reason == IF c.to \in judges /\ c.store \in syncing[c.to]
                  THEN "AlreadySyncing" ELSE "NotFound"
    IN
    /\ i \in Open(conn) /\ c.snap >= 0 /\ c.accept = "none"
    /\ IF admitted
       THEN /\ slot' = [slot EXCEPT ![k] = Accept(@)]
            /\ conn' = [conn EXCEPT ![i].accept = "serving",
                                    ![i].served = ver[<<c.to, c.store>>]]
            /\ UNCHANGED left
       ELSE /\ UNCHANGED slot
            /\ \/ conn' = [conn EXCEPT ![i] = Answered(c, reason)]
                  /\ UNCHANGED left
               \/ conn' = [conn EXCEPT ![i].accept = "Error",
                                       ![i].dial = IF @ = "sent" THEN "Error" ELSE @]
                  /\ Spend("unwritten")
    /\ UNCHANGED <<syncing, refused, streak, due, held, data>>

\* The rounds run to the end on both sides, each taking what the other's
\* snapshot held.
Complete(i) ==
    LET c == conn[i] IN
    /\ i \in Open(conn) /\ c.dial = "sent" /\ c.accept = "serving"
    /\ conn' = [conn EXCEPT ![i].dial = "Ok", ![i].accept = "Ok"]
    /\ got' = [got EXCEPT ![DialerKey(c)] = Max2(@, c.served),
                          ![AcceptorKey(c)] = Max2(@, c.snap)]
    /\ judges' = judges \cup {c.from}
    /\ UNCHANGED <<engine, ver, told, left>>

\* One side has read all it needs when the other's connection fails.
HalfComplete(i) ==
    LET c == conn[i] IN
    /\ i \in Open(conn) /\ c.dial = "sent" /\ c.accept = "serving"
    /\ Spend("losses")
    /\ \/ /\ conn' = [conn EXCEPT ![i].dial = "Ok", ![i].accept = "Error"]
          /\ got' = [got EXCEPT ![DialerKey(c)] = Max2(@, c.served)]
          /\ judges' = judges \cup {c.from}
       \/ /\ conn' = [conn EXCEPT ![i].dial = "Error", ![i].accept = "Ok"]
          /\ got' = [got EXCEPT ![AcceptorKey(c)] = Max2(@, c.snap)]
          /\ UNCHANGED judges
    /\ UNCHANGED <<engine, ver, told>>

\* The dialer reads the refusal.
ReadAnswer(i) ==
    LET c == conn[i] IN
    /\ i \in Open(conn) /\ c.dial = "sent" /\ c.answer # "none"
    /\ conn' = [conn EXCEPT ![i].dial = c.answer]
    /\ UNCHANGED <<engine, data, left>>

\* The connection is lost, the session times out, or a side fails.  The dialer
\* notices: the acceptor may have finished, fail with it, not have seen Init,
\* or go on and notice later.
LoseDialer(i) ==
    LET c == conn[i] IN
    /\ i \in Open(conn) /\ c.dial \in {"connecting", "sent"}
    /\ Spend("losses")
    /\ \E a \in {c.accept} \cup (IF c.accept = "none" THEN {"over"} ELSE {}) :
         /\ c.snap < 0 => a = "over"
         /\ conn' = [conn EXCEPT ![i].dial = "Error", ![i].accept = a,
                                 ![i].answer = "none"]
    /\ UNCHANGED <<engine, data>>

\* What the decision rests on was written before the snapshot froze, and the
\* provider, asked again, refuses: the session ends as a failed exchange.
RefuseAgain(i) ==
    LET c == conn[i] IN
    /\ i \in Open(conn) /\ c.accept = "serving"
    /\ Spend("losses")
    /\ conn' = [conn EXCEPT ![i].accept = "Error",
                            ![i].answer = IF c.dial = "sent" THEN "NotFound" ELSE @]
    /\ UNCHANGED <<engine, data>>

\* A session inside the process that times out names no namespace.
LoseAcceptor(i) ==
    LET c == conn[i] IN
    /\ i \in Open(conn) /\ c.accept = "serving"
    /\ IF c.dial = "sent" THEN Spend("losses") ELSE UNCHANGED left
    /\ \E a \in AcceptResult \ {"Ok"} :
         conn' = [conn EXCEPT ![i].accept = a,
                              ![i].dial = IF @ = "sent" THEN "Error" ELSE @]
    /\ UNCHANGED <<engine, data>>
-----------------------------------------------------------------------------
(***************************************************************************)
(* The live actor handles what ended.                                        *)
(***************************************************************************)

\* on_sync_finished, with cs the connections past the one that ended.
OnSyncFinished(cs, k, origin, ok) ==
    LET s == IF Synced(k) THEN [slot EXCEPT ![k] = Finish(@, origin)] ELSE slot
        resync == Synced(k) /\ ResyncQueued(slot[k], origin)
    IN
    /\ streak' = IF ok THEN [streak EXCEPT ![k] = 0] ELSE streak
    /\ IF resync THEN SyncWith(s, cs, k, "Resync")
       ELSE IF IsRunning(s[k]) THEN slot' = s /\ conn' = cs /\ UNCHANGED held
       ELSE ReleaseHeld(s, cs, k)

DialOver(i) == [conn EXCEPT ![i] = Retire([@ EXCEPT !.dial = "over"])]
AcceptOver(i) == [conn EXCEPT ![i] = Retire([@ EXCEPT !.accept = "over"])]

Exhausted(n) == n > MAX_REDIALS

\* A dial answered "already syncing": its pair is cleared and a redial armed,
\* at most MAX_REDIALS in a row.
DialAborted(i) ==
    LET c == conn[i]
        k == DialerKey(c)
        s == IF Synced(k) THEN [slot EXCEPT ![k] = AbortConnect(@, c.reason)] ELSE slot
        n == streak[k] + 1
    IN
    /\ i \in Open(conn) /\ c.dial = "AlreadySyncing"
    /\ UNCHANGED <<syncing, refused, data, left>>
    /\ streak' = [streak EXCEPT ![k] = IF Exhausted(n) THEN @ ELSE n]
    /\ IF Exhausted(n)
       THEN /\ UNCHANGED due
            /\ IF IsRunning(s[k]) THEN slot' = s /\ conn' = DialOver(i) /\ UNCHANGED held
               ELSE ReleaseHeld(s, DialOver(i), k)
       ELSE /\ due' = [due EXCEPT ![<<k, c.reason>>] = @ + 1]
            /\ slot' = s /\ conn' = DialOver(i) /\ UNCHANGED held

DialFinished(i) ==
    LET c == conn[i]
        k == DialerKey(c)
    IN
    /\ i \in Open(conn) /\ c.dial \in {"Ok", "NotFound", "Error"}
    /\ refused' = CASE c.dial = "Ok" -> refused \ {k}
                    [] c.dial = "NotFound" -> refused \cup {k}
                    [] OTHER -> refused
    /\ UNCHANGED <<syncing, due, data, left>>
    /\ OnSyncFinished(DialOver(i), k, c.reason, c.dial = "Ok")

AcceptFinished(i) ==
    LET c == conn[i]
        k == AcceptorKey(c)
    IN
    /\ i \in Open(conn) /\ c.accept \in AcceptResult
    /\ refused' = IF c.accept = "Ok" THEN refused \ {k} ELSE refused
    /\ UNCHANGED <<syncing, due, data, left>>
    /\ IF c.accept = "Unnamed"
       THEN conn' = AcceptOver(i) /\ UNCHANGED <<slot, streak, held>>
       ELSE OnSyncFinished(AcceptOver(i), k, "Accept", c.accept = "Ok")
-----------------------------------------------------------------------------
(***************************************************************************)
(* A store leaves the sync set, and comes back to it.                        *)
(***************************************************************************)

Leave(p, n) ==
    LET s == [k \in Key |-> IF k[1] = p /\ k[3] = n THEN IdlePeer ELSE slot[k]]
    IN
    /\ n \in syncing[p]
    /\ Spend("leaves")
    /\ syncing' = [syncing EXCEPT ![p] = @ \ {n}]
    /\ refused' = {k \in refused : k[1] # p \/ k[3] # n}
    /\ streak' = [k \in Key |-> IF k[1] = p /\ k[3] = n THEN 0 ELSE streak[k]]
    /\ UNCHANGED <<due, data>>
    /\ IF n = "records"
       THEN /\ held' = [pq \in Pair |-> IF pq[1] = p THEN <<>> ELSE held[pq]]
            /\ slot' = s /\ UNCHANGED conn
       ELSE \E q \in Party \ {p} : ReleaseHeld(s, conn, <<p, q, n>>)

\* start_sync, with or without the counterpart among the contacts it dials.
StartSync(p, n) ==
    /\ n \in Stores \ syncing[p]
    /\ syncing' = [syncing EXCEPT ![p] = @ \cup {n}]
    /\ UNCHANGED <<refused, streak, due, data, left>>
    /\ \/ UNCHANGED <<slot, held, conn>>
       \/ \E q \in Party \ {p} : SyncWith(slot, conn, <<p, q, n>>, "DirectJoin")
-----------------------------------------------------------------------------
Init ==
    /\ syncing = [p \in Party |-> Stores]
    /\ slot = [k \in Key |-> IdlePeer]
    /\ refused = {}
    /\ streak = [k \in Key |-> 0]
    /\ due = [kr \in Key \X SyncReason |-> 0]
    /\ held = [pq \in Pair |-> <<>>]
    /\ conn = [i \in Conn |-> Closed]
    /\ judges = Party \ Fresh
    /\ ver = [pn \in Party \X Stores |-> 0]
    /\ told = [k \in Key |-> 0]
    /\ got = [k \in Key |-> 0]
    /\ left \in Budgets

TaskStep(i) ==
    SendInit(i) \/ Decide(i) \/ Complete(i) \/ ReadAnswer(i)

ActorStep(i) ==
    DialAborted(i) \/ DialFinished(i) \/ AcceptFinished(i)

Next ==
    \/ \E k \in Key : Report(k) \/ \E r \in SyncReason : Ask(k, r) \/ Redial(k, r)
    \/ \E p \in Party, n \in Stores : Write(p, n) \/ Leave(p, n) \/ StartSync(p, n)
    \/ \E i \in Conn : \/ TaskStep(i) \/ ActorStep(i)
                       \/ HalfComplete(i) \/ RefuseAgain(i)
                       \/ LoseDialer(i) \/ LoseAcceptor(i)

\* Tasks are polled, bounded by SYNC_SESSION_TIMEOUT, and every result and
\* timer reaches the actor's queue; the environment owes nothing.
DeadDialer(i) == conn[i] # Closed /\ conn[i].dial # "sent" /\ LoseAcceptor(i)

Fairness ==
    /\ \A i \in Conn : /\ WF_vars(TaskStep(i)) /\ WF_vars(ActorStep(i))
                       /\ WF_vars(DeadDialer(i))
    /\ \A k \in Key, r \in SyncReason : WF_vars(Redial(k, r))

Spec == Init /\ [][Next]_vars

FairSpec == Spec /\ Fairness
-----------------------------------------------------------------------------
TypeOK ==
    /\ syncing \in [Party -> SUBSET Stores]
    /\ slot \in [Key -> PeerStates]
    /\ refused \subseteq Key
    /\ streak \in [Key -> 0 .. MAX_REDIALS]
    /\ due \in [Key \X SyncReason -> Nat]
    /\ held \in [Pair -> Seq(SyncReason)]
    /\ conn \in [Conn -> ConnRec \cup {Closed}]
    /\ judges \subseteq Party
    /\ ver \in [Party \X Stores -> Nat]
    /\ told \in [Key -> Nat]
    /\ got \in [Key -> Int]
    /\ left \in Left

\* A dial of k with reason r, or an admitted session of k, that its actor has
\* not handled the end of.
DialAlive(cs, k, r) ==
    \E i \in Open(cs) :
        DialerKey(cs[i]) = k /\ cs[i].reason = r /\ cs[i].dial # "over"

AcceptAlive(cs, k) ==
    \E i \in Open(cs) :
        AcceptorKey(cs[i]) = k /\ cs[i].accept \notin {"none", "over"}

Backed(s, cs, k) ==
    /\ s[k].state = "Accept" => AcceptAlive(cs, k)
    /\ s[k].state \in SyncReason => DialAlive(cs, k, s[k].state)

\* A pair that is running has an exchange behind it whose end the actor has
\* still to handle, so no pair stays running for good and swallows every later
\* trigger (the comments on abort_connect and on the accept errors say why).
SlotHasExchange == \A k \in Key : Backed(slot, conn, k)

\* Dials of the record store held on a membership exchange are never stranded:
\* that exchange still runs, or a redial of it is due and will release them.
HeldIsAwaited ==
    \A pq \in Pair : held[pq] # <<>> =>
        LET k == <<pq[1], pq[2], "membership">>
        IN IsRunning(slot[k]) \/ \E r \in SyncReason : due[<<k, r>>] > 0

\* A record store is dialed only when no membership exchange with the
\* counterpart runs here: it is judged on the view that exchange brings.
RecordsFollowMembership ==
    [][\A i \in Conn :
         (conn'[i] # conn[i] /\ conn'[i] # Closed /\ conn'[i].dial = "connecting"
            /\ conn'[i].store = "records" /\ "membership" \in Stores)
         => ~IsRunning(slot'[<<conn'[i].from, conn'[i].to, "membership">>])]_vars

\* A party serves one session of a pair at a time: two at once would read two
\* snapshots and judge the caller twice ("never run two syncs at the same time").
OneServed ==
    \A i, j \in Open(conn) :
        (/\ conn[i].accept = "serving" /\ conn[j].accept = "serving"
         /\ AcceptorKey(conn[i]) = AcceptorKey(conn[j])) => i = j

\* Asks, redials and resyncs die out: every pair comes to rest with nothing
\* held and nothing due, so no answer keeps two parties dialing for ever.
Quiet ==
    /\ \A k \in Key : ~IsRunning(slot[k])
    /\ \A pq \in Pair : held[pq] = <<>>
    /\ \A kr \in Key \X SyncReason : due[kr] = 0

Settles == <>[]Quiet
=============================================================================
