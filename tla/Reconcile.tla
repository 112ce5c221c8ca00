----------------------------- MODULE Reconcile ------------------------------
(***************************************************************************)
(* Replicas of one namespace and the sync sessions between them (pdn-store    *)
(* sync.rs, filter.rs, heads.rs and the rounds of net/codec.rs over the       *)
(* store of store/fs.rs).  A session reads, on each side, a view frozen when  *)
(* that side began and cut down to what its access provider serves; what     *)
(* arrives is put into the live replica, beside local writes and the other   *)
(* sessions.                                                               *)
(***************************************************************************)
EXTENDS RangeSync

CONSTANTS
    Replica,
    Links,      \* the <<dialing, accepting>> replicas
    AuthorOf,   \* key -> the author its record identifier names
    Rank,       \* the ranks of the records there are
    Cases       \* initial contents, access rules and bounds: see Case

Sides(s) == {s[1], s[2]}
Author == {AuthorOf[k] : k \in Key}
Rules == [sends : [Replica -> SUBSET Key], takes : [Replica -> SUBSET Key]]
Left == [sessions : [Links -> Nat], writes : Nat, cuts : Nat]
Case == [live : [Replica -> Content], rules : Rules, left : Left]

ASSUME ReconcileAssumption ==
    /\ Links \subseteq Replica \X Replica /\ \A s \in Links : s[1] # s[2]
    /\ Rank \subseteq Nat \ {0} /\ Cases \subseteq Case

VARIABLES
    live,      \* replica -> its content
    latest,    \* replica -> author -> the time of the author's latest record
    written,   \* the <<key, rank>> of every record written: history
    rules,     \* replica -> what it serves, and what it takes
    left,      \* what the environment may still do
    \* of the session over each link:
    state,     \* none, dialed, open or done
    view,      \* the view each side reads
    message,   \* the message under way
    to,        \* the side it is for
    received,  \* the author heads each side received (SyncOutcome::heads_received)
    sent       \* the keys of the entries each side sent: history

store == <<live, latest, written>>
exchange == <<state, view, message, to>>
outcome == <<received, sent>>
vars == <<store, rules, left, exchange, outcome>>

Spend(what) == left[what] > 0 /\ left' = [left EXCEPT ![what] = @ - 1]

\* The time of a record: ranks 2t and 2t + 1 are records of time t, by hash.
Timestamp(rank) == rank \div 2

NoHeads == [a \in Author |-> 0]

\* The times of the records of content that each author wrote.
Times(content, a) == {Timestamp(content[k]) : k \in {j \in Held(content) : AuthorOf[j] = a}}

HeadsAfter(heads, content) == [a \in Author |-> Max({heads[a]} \cup Times(content, a))]

HasNewsFor(heads, other) == \E a \in Author : heads[a] > other[a]

NoViews == [r \in Replica |-> Nothing]
-----------------------------------------------------------------------------
(***************************************************************************)
(* A local insert or delete: refused where the replica holds a later record. *)
(***************************************************************************)
Write(r, k, v) ==
    /\ v > live[r][k] /\ Spend("writes")
    /\ live' = [live EXCEPT ![r][k] = v]
    /\ latest' = [latest EXCEPT ![r] = HeadsAfter(@, [Nothing EXCEPT ![k] = v])]
    /\ written' = written \cup {<<k, v>>}
    /\ UNCHANGED <<rules, exchange, outcome>>

(***************************************************************************)
(* The view a side of a session reads: what its replica holds now, as far as *)
(* its provider serves it.                                                 *)
(***************************************************************************)
View(r) == Only(live[r], rules.sends[r])

NoOutcome(s) ==
    /\ received' = [received EXCEPT ![s] = [r \in Replica |-> NoHeads]]
    /\ sent' = [sent EXCEPT ![s] = [r \in Replica |-> {}]]

Start(s) ==
    /\ state[s] \in {"none", "done"} /\ left.sessions[s] > 0
    /\ left' = [left EXCEPT !.sessions[s] = @ - 1]
    /\ state' = [state EXCEPT ![s] = "dialed"]
    /\ view' = [view EXCEPT ![s] = [NoViews EXCEPT ![s[1]] = View(s[1])]]
    /\ message' = [message EXCEPT ![s] = Initial(View(s[1]))]
    /\ to' = [to EXCEPT ![s] = s[2]]
    /\ NoOutcome(s)
    /\ UNCHANGED <<store, rules>>

Accept(s) ==
    /\ state[s] = "dialed"
    /\ state' = [state EXCEPT ![s] = "open"]
    /\ view' = [view EXCEPT ![s][s[2]] = View(s[2])]
    /\ UNCHANGED <<store, rules, left, message, to, outcome>>

\* What the verdict of this side's provider lets in.
Admitted(r, m) == Only(Carried(m), rules.takes[r])

\* Mutant of Inserted: a record as new as the held one replaces it.
InsertedTies(r, m) ==
    [k \in Key |-> IF Timestamp(Admitted(r, m)[k]) >= Timestamp(live[r][k]) THEN Admitted(r, m)[k] ELSE 0]

\* What is inserted: later than what the live replica holds at its key now, not than
\* what the session's view does.
Inserted(r, m) ==
    [k \in Key |-> IF Admitted(r, m)[k] > live[r][k] THEN Admitted(r, m)[k] ELSE 0]

\* The records whose authors' heads the side counts as received.
Announced(r, m) == Inserted(r, m)

\* Mutant of StateAfter: a side with nothing to send waits on.
StateAfterNever(reply) == "open"

\* A side with nothing to answer ends the exchange, and the other with it.
StateAfter(reply) == IF reply = {} THEN "done" ELSE "open"

\* One round: the side the message is for takes what it brings and answers it from
\* its view.
Receive(s) ==
    LET r == to[s]
        reply == Reply(view[s][r], message[s])
        inserted == Inserted(r, message[s])
    IN
    /\ state[s] = "open"
    /\ live' = [live EXCEPT ![r] = Put(@, inserted)]
    /\ latest' = [latest EXCEPT ![r] = HeadsAfter(@, inserted)]
    /\ message' = [message EXCEPT ![s] = reply]
    /\ to' = [to EXCEPT ![s] = IF r = s[1] THEN s[2] ELSE s[1]]
    /\ state' = [state EXCEPT ![s] = StateAfter(reply)]
    /\ received' = [received EXCEPT ![s][r] = HeadsAfter(@, Announced(r, message[s]))]
    /\ sent' = [sent EXCEPT ![s][r] = @ \cup Held(Carried(reply))]
    /\ UNCHANGED <<written, rules, left, view>>

\* The connection ends before the exchange does: what was put stays.
Cut(s) ==
    /\ state[s] \in {"dialed", "open"} /\ Spend("cuts")
    /\ state' = [state EXCEPT ![s] = "none"]
    /\ view' = [view EXCEPT ![s] = NoViews]
    /\ message' = [message EXCEPT ![s] = {}]
    /\ to' = [to EXCEPT ![s] = s[2]]
    /\ NoOutcome(s)
    /\ UNCHANGED <<store, rules>>

Init ==
    /\ \E c \in Cases : live = c.live /\ rules = c.rules /\ left = c.left
    /\ latest = [r \in Replica |-> HeadsAfter(NoHeads, live[r])]
    /\ written = {<<k, live[r][k]>> : r \in Replica, k \in Key}
    /\ state = [s \in Links |-> "none"]
    /\ view = [s \in Links |-> NoViews]
    /\ message = [s \in Links |-> {}]
    /\ to = [s \in Links |-> s[2]]
    /\ received = [s \in Links |-> [r \in Replica |-> NoHeads]]
    /\ sent = [s \in Links |-> [r \in Replica |-> {}]]

Next ==
    \/ \E r \in Replica, k \in Key, v \in Rank : Write(r, k, v)
    \/ \E s \in Links : Start(s) \/ Accept(s) \/ Receive(s) \/ Cut(s)

Spec == Init /\ [][Next]_vars

\* A session's rounds go on: a dial is accepted, and each side answers what it is
\* sent.  Weak fairness of Accept and Receive, with the condition each waits for
\* written out; every round passes the turn.
FairSpec ==
    Spec /\ \A s \in Links :
              /\ []<>(state[s] # "dialed")
              /\ []<>(state[s] # "open") \/ []<><<to'[s] # to[s]>>_vars
-----------------------------------------------------------------------------
(***************************************************************************)
(* Properties.                                                             *)
(***************************************************************************)
Parts == [range : [x : Key \cup {0}, y : Key \cup {0}], kind : Kinds, values : Content]

TypeOK ==
    /\ live \in [Replica -> Content]
    /\ latest \in [Replica -> [Author -> Nat]]
    /\ rules \in Rules /\ left \in Left
    /\ state \in [Links -> {"none", "dialed", "open", "done"}]
    /\ view \in [Links -> [Replica -> Content]]
    /\ message \in [Links -> SUBSET Parts]
    /\ to \in [Links -> Replica] /\ \A s \in Links : to[s] \in Sides(s)
    /\ received \in [Links -> [Replica -> [Author -> Nat]]]
    /\ sent \in [Links -> [Replica -> SUBSET Key]]

\* A session that ran to its end delivered, each way, every record of the view the
\* sending side served that the receiving side takes, or a later one at its key:
\* whatever was written meanwhile, whatever other sessions brought, and however the
\* two views were split into ranges.
Brought ==
    \A s \in Links : state[s] = "done" =>
        \A r, q \in Sides(s) : r # q =>
            \A k \in rules.takes[r] : live[r][k] >= view[s][q][k]

\* What a side reports as received (heads_received, from which the live actor makes
\* the report to its neighbors) it holds: a record its provider's verdict dropped,
\* or one older than it held, names no head.
ReceivedIsHeld ==
    \A s \in Links : \A r \in Sides(s) : ~HasNewsFor(received[s][r], latest[r])

\* A replica that holds all another does, or later, is told of no news by it: the
\* author heads never move back, however late an older record arrives.
NoFalseNews ==
    \A r, q \in Replica :
        (\A k \in Key : live[q][k] >= live[r][k]) => ~HasNewsFor(latest[r], latest[q])

\* An exchange that ended delivered all that was served and taken, and the heads
\* that go round after it name nothing that is not held and no news that is none
\* (process_message, sync_process_message, has_news_for_us).
Delivered == Brought /\ ReceivedIsHeld /\ NoFalseNews

\* Sessions, local writes and each other's late messages refine the replicas' promise.
Promise == INSTANCE Replicas WITH live <- live, written <- written
Refines == Promise!Spec

\* Every exchange comes to an end.
Ends == \A s \in Links : state[s] \in {"dialed", "open"} ~> state[s] \in {"none", "done"}
=============================================================================
