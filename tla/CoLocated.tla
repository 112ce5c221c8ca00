----------------------------- MODULE CoLocated ------------------------------
(***************************************************************************)
(* Two identities of one node holding one pod (data-layer node.rs, pdn-store *)
(* engine.rs and engine/live.rs): a write announced over a bounded channel,   *)
(* sessions over a pipe inside the process, and the periodic pass, which      *)
(* leaves a pair alone while the write counts stand where its last session    *)
(* found them.  The slots of the two engines are PeerState's.                 *)
(***************************************************************************)
EXTENDS Naturals, Sequences, FiniteSets, PeerState

CONSTANTS Identities, First, Capacity, MaxRedials, NoReading

VARIABLES has,      \* what each identity's replica of each store holds
          count,    \* the write count of each replica
          slot,     \* each engine's slot toward the other identity, per store
          session,  \* the sessions asked for and running, by dialing identity and store
          redial,   \* the dials refused as "already syncing" to be dialed again
          streak,   \* the refusals in a row of each pair
          requests, \* the channel of CoLocatedRequest
          serving,  \* the requests taken up: announcements_in_flight and their task
          pass,     \* what the pass is at
          memo,     \* what `reconciled` keeps of the pair
          may       \* what the environment may still do

coVars == <<has, count, slot, session, redial, streak, requests, serving, pass, memo, may>>

PodStores == {"m", "r"}
Other(i) == CHOOSE j \in Identities : j # i
Pairs == Identities \X PodStores

\* No session, or what its caller and its two ends are at.
NoSession == [at |-> "none", caller |-> <<>>, snap |-> {}, served |-> {}]

Reading == [i \in Identities |-> count[i]]

CoInit(allowed) ==
    /\ has = [i \in Identities |-> [s \in PodStores |-> {}]]
    /\ count = [i \in Identities |-> [s \in PodStores |-> 0]]
    /\ slot = [p \in Pairs |-> IdlePeer]
    /\ session = [p \in Pairs |-> NoSession]
    /\ redial = {}
    /\ streak = [p \in Pairs |-> 0]
    /\ requests = <<>>
    /\ serving = [p \in Pairs |-> "none"]
    /\ pass = [at |-> "idle", reading |-> NoReading]
    /\ memo = NoReading
    /\ may = allowed

\* A pod held as a tombstone has the membership store alone.
Uses(what) == may[what] > 0 /\ may' = [may EXCEPT ![what] = @ - 1]

\* ask_co_located: a full channel drops the request.
Asked(queue, i, s) == IF Len(queue) < Capacity THEN Append(queue, <<i, s>>) ELSE queue

\* A local write, with the announcement its event asks for.
Writes(i, s) ==
    /\ s \in may.stores /\ Uses("writes")
    /\ has' = [has EXCEPT ![i][s] = @ \cup {<<i, count[i][s] + 1>>}]
    /\ count' = [count EXCEPT ![i][s] = @ + 1]
    /\ requests' = Asked(requests, i, s)
    /\ UNCHANGED <<slot, session, redial, streak, serving, pass, memo>>

-----------------------------------------------------------------------------
(* Engine::sync_in_process, asked for by a caller that waits for the opening.   *)

\* The state of both engines once identity i is asked to dial store s for `caller`:
\* held behind the membership exchange, queued as a resync, or opening.
Opened(i, s, caller) ==
    LET p == <<i, s>>
    IN IF s = "r" /\ IsRunning(slot[<<i, "m">>]) /\ session[p].at = "none"
       THEN [slot |-> slot, session |-> [session EXCEPT ![p] = [NoSession EXCEPT !.at = "held", !.caller = caller]]]
       ELSE [slot |-> [slot EXCEPT ![p] = StartConnect(@, "Announced")],
             session |-> IF IsRunning(slot[p]) THEN session
                         ELSE [session EXCEPT ![p] = [NoSession EXCEPT !.at = "opening", !.caller = caller]]]

\* One dial of a pair at a time: one a takeover left without its slot is answered
\* before the next is opened.
Free(p) == session[p].at = "none" \/ (IsRunning(slot[p]) /\ session[p].at \notin {"held", "refused"})

\* A dial not started closes its pipe, and its caller is told so at once.
Refuses(i, s) ==
    /\ IsRunning(slot[<<i, s>>])
    /\ ~(s = "r" /\ IsRunning(slot[<<i, "m">>]) /\ session[<<i, s>>].at = "none")

\* What the caller goes on to, told whether the opening was read.
AnnounceGoesOn(p, ok) ==
    serving' = [serving EXCEPT ![p] = IF @ = "first" THEN "then" ELSE "none"]

\* Mutant of KeptMemo: the counts are read again once the session is over.
KeptMemoAfter(ok) == IF ok THEN Reading ELSE memo

\* The reading kept, of before the session, if the opening of both stores was read.
KeptMemo(ok) == IF ok THEN pass.reading ELSE memo

PassGoesOn(ok) ==
    IF pass.at = "awaits m" /\ ok /\ "r" \in may.stores
    THEN pass' = [pass EXCEPT !.at = "opens r"] /\ UNCHANGED memo
    ELSE pass' = [at |-> "idle", reading |-> NoReading] /\ memo' = KeptMemo(ok)

\* The caller of a session told.  An announcement of the record store opens the
\* membership store's session first, and goes on whatever came of it.
Told(caller, p, ok) ==
    IF caller = <<"pass">> THEN PassGoesOn(ok) /\ UNCHANGED serving
    ELSE AnnounceGoesOn(caller, ok) /\ UNCHANGED <<pass, memo>>

\* The dialing half opened its snapshot and wrote the first message, and the other
\* engine's actor was handed it.
OpeningRead(p) ==
    /\ session[p].at = "opening"
    /\ session' = [session EXCEPT ![p].at = "handed", ![p].caller = <<>>,
                                  ![p].snap = has[p[1]][p[2]]]
    /\ Told(session[p].caller, p, TRUE)
    /\ UNCHANGED <<has, count, slot, redial, streak, requests, may>>

\* release_held, of the record dial held on the membership exchange p in the engine
\* of p[1], once nothing runs there.
Released(e, p) ==
    LET r == <<p[1], "r">>
    IN IF p[2] # "m" \/ IsRunning(e.slot[p]) \/ e.session[r].at # "held" THEN e
       ELSE [e EXCEPT !.slot[r] = StartConnect(@, "Announced"),
                      !.session[r].at = IF IsRunning(e.slot[r]) THEN "refused" ELSE "opening"]

\* sync_with_identity toward this node's own id: the exchange is asked for in the
\* process, and a request dropped releases what waits for it.
DialsHere(e, p) ==
    IF Len(e.requests) < Capacity THEN [e EXCEPT !.requests = Append(@, p)] ELSE Released(e, p)

Engines == [slot |-> slot, session |-> session, requests |-> requests]
Sets(e) == slot' = e.slot /\ session' = e.session /\ requests' = e.requests

\* on_sync_finished of an exchange of pair p in the engine of p[1].
EndIn(e, p, origin) ==
    LET freed == [e EXCEPT !.slot[p] = Finish(@, origin)]
    IN IF ResyncQueued(e.slot[p], origin) THEN DialsHere(freed, p) ELSE Released(freed, p)

\* The same of the dialing end, whose session is over.
DialOver(p) == EndIn([Engines EXCEPT !.session[p] = NoSession], p, "Announced")

\* The dialing half fails before its first message.
OpeningFails(p) ==
    /\ session[p].at = "opening" /\ Uses("fails")
    /\ Sets(DialOver(p))
    /\ Told(session[p].caller, p, FALSE)
    /\ UNCHANGED <<has, count, redial, streak>>

\* A held dial released onto a busy pair: the pipe is closed and the caller told.
HeldRefused(p) ==
    /\ session[p].at = "refused"
    /\ session' = [session EXCEPT ![p] = NoSession]
    /\ Told(session[p].caller, p, FALSE)
    /\ UNCHANGED <<has, count, slot, redial, streak, requests, may>>

\* The other engine admits the session, and opens its snapshot.
SessionAdmitted(p) ==
    LET q == <<Other(p[1]), p[2]>>
    IN /\ session[p].at = "handed"
       /\ Admits(slot[q], FALSE, p[1] = First)
       /\ slot' = [slot EXCEPT ![q] = Accept(@)]
       /\ session' = [session EXCEPT ![p].at = "runs", ![p].served = has[q[1]][q[2]]]
       /\ UNCHANGED <<has, count, redial, streak, requests, serving, pass, memo, may>>

\* The other engine answers "already syncing": the dial is to be repeated, so many
\* times in a row at most.
SessionRefused(p) ==
    LET q == <<Other(p[1]), p[2]>>
    IN /\ session[p].at = "handed"
       /\ ~Admits(slot[q], FALSE, p[1] = First)
       /\ streak' = [streak EXCEPT ![p] = IF @ > MaxRedials THEN @ ELSE @ + 1]
       /\ LET aborted == [Engines EXCEPT !.slot[p] = AbortConnect(@, "Announced"),
                                         !.session[p] = NoSession]
          IN IF streak[p] < MaxRedials
             THEN Sets(aborted) /\ redial' = redial \cup {p}
             ELSE Sets(Released(aborted, p)) /\ UNCHANGED redial
       /\ UNCHANGED <<has, count, serving, pass, memo, may>>

\* Redial: a dial of this node's own id asks for the exchange in the process again.
Redials(p) ==
    /\ p \in redial
    /\ redial' = redial \ {p}
    /\ Sets(DialsHere(Engines, p))
    /\ UNCHANGED <<has, count, streak, serving, pass, memo, may>>

\* Both ends of a session finish; `carried` says whether the rounds ran.
SessionOver(p, carried) ==
    LET i == p[1]
        j == Other(i)
        s == p[2]
        q == <<j, s>>
        gains(x, from) == Cardinality(from \ has[x][s])
    IN /\ Sets(EndIn(DialOver(p), q, "Accept"))
       /\ IF carried
          THEN /\ has' = [has EXCEPT ![i][s] = @ \cup session[p].served, ![j][s] = @ \cup session[p].snap]
               /\ count' = [count EXCEPT ![i][s] = @ + gains(i, session[p].served),
                                         ![j][s] = @ + gains(j, session[p].snap)]
               /\ streak' = [streak EXCEPT ![p] = 0, ![q] = 0]
          ELSE UNCHANGED <<has, count, streak>>

SessionEndsWell(p) ==
    /\ session[p].at = "runs"
    /\ SessionOver(p, TRUE)
    /\ UNCHANGED <<redial, serving, pass, memo, may>>

\* A session handed over and denied by the other identity's access provider, or
\* cut while it runs.
SessionFails(p) ==
    /\ session[p].at \in {"handed", "runs"} /\ Uses("cuts")
    /\ IF session[p].at = "runs" THEN SessionOver(p, FALSE)
       ELSE Sets(DialOver(p)) /\ UNCHANGED <<has, count, streak>>
    /\ UNCHANGED <<redial, serving, pass, memo>>

-----------------------------------------------------------------------------
(* Who asks. *)

\* serve_co_located with reconcile_with_co_located: one task per store and other
\* identity at a time, another request meanwhile dropped.
RequestServed ==
    /\ requests # <<>>
    /\ LET p == Head(requests)
       IN serving' = [serving EXCEPT ![p] = IF @ # "none" THEN @
                                            ELSE IF p[2] = "r" THEN "first" ELSE "then"]
    /\ requests' = Tail(requests)
    /\ UNCHANGED <<has, count, slot, session, redial, streak, pass, memo, may>>

\* The store the announcement task of p opens next.
NextStore(p) == IF serving[p] = "first" THEN "m" ELSE p[2]

\* The task opens its session, unless one of the same dial is still opening.
AnnouncementOpens(p) ==
    LET d == <<p[1], NextStore(p)>>
        after == Opened(d[1], d[2], p)
    IN /\ serving[p] \in {"first", "then"}
       /\ \A x \in Pairs : session[x].caller # p
       /\ Free(d)
       /\ slot' = after.slot /\ session' = after.session
       /\ IF Refuses(d[1], d[2]) THEN AnnounceGoesOn(p, FALSE) ELSE UNCHANGED serving
       /\ UNCHANGED <<has, count, redial, streak, requests, pass, memo, may>>

\* reconcile_co_located, the record stores' counts read,
PassReads ==
    /\ pass.at = "idle" /\ Uses("passes")
    /\ pass' = [at |-> "reads", reading |-> Reading]
    /\ UNCHANGED <<has, count, slot, session, redial, streak, requests, serving, memo>>

\* then the membership stores'; a pair that stands where it was found is left.
PassWeighs ==
    /\ pass.at = "reads"
    /\ LET reading == [i \in Identities |-> [pass.reading[i] EXCEPT !["m"] = count[i]["m"]]]
       IN pass' = IF memo = reading THEN [at |-> "idle", reading |-> NoReading]
                  ELSE [at |-> "opens m", reading |-> reading]
    /\ UNCHANGED <<has, count, slot, session, redial, streak, requests, serving, memo, may>>

\* The pass dials from the identity its walk meets first.
PassOpens(s) ==
    LET after == Opened(First, s, <<"pass">>)
    IN /\ pass.at = IF s = "m" THEN "opens m" ELSE "opens r"
       /\ Free(<<First, s>>)
       /\ slot' = after.slot /\ session' = after.session
       /\ IF Refuses(First, s) THEN PassGoesOn(FALSE)
          ELSE pass' = [pass EXCEPT !.at = IF s = "m" THEN "awaits m" ELSE "awaits r"] /\ UNCHANGED memo
       /\ UNCHANGED <<has, count, redial, streak, requests, serving, may>>
=============================================================================
