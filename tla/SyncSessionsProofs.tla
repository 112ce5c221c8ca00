------------------------- MODULE SyncSessionsProofs -------------------------
(***************************************************************************)
(* For any two parties, stores, connections and budgets: a pair that is       *)
(* running has an exchange behind it (as long as no session runs inside the   *)
(* process), a dial held behind a membership exchange has that exchange or a  *)
(* redial of it to release it, and no record exchange is dialed while the     *)
(* membership exchange of its pair runs.  Every handler is a composition of   *)
(* freeing a pair, releasing what is held and dialing, so each of the three   *)
(* results has a lemma for each of those.                                     *)
(***************************************************************************)
EXTENDS SyncSessions, TLAPS

Slots == [Key -> PeerStates]
Conns == [Conn -> ConnRec \cup {Closed}]

\* Every running pair is backed; where sessions run inside the process, one that
\* times out leaves its pair running, and only the types are kept.
AllBacked(s, cs) == InProcess \/ \A k \in Key : Backed(s, cs, k)

\* A pair of a store that is not in the sync set is idle: the operators on
\* slots leave such a pair alone, so one running there would stay so.
OffIdle == \A k \in Key : k[3] \notin syncing[k[1]] => slot[k].state = "Idle"

Inv == TypeOK /\ AllBacked(slot, conn) /\ OffIdle

\* The same of the slots s and connections cs a handler has come to.
Good(s, cs) ==
    /\ s \in Slots /\ cs \in Conns /\ AllBacked(s, cs)
    /\ \A k \in Key : ~Synced(k) => s[k].state = "Idle"

\* The invariant gives the slots and the connections their types.
LEMMA Shape ==
    ASSUME TypeOK
    PROVE  slot \in Slots /\ conn \in Conns /\ held \in [Pair -> Seq(SyncReason)]
BY Zenon DEF TypeOK, Slots, Conns

\* A closed connection is told from an open one by its fields.
LEMMA OpenIsRec ==
    ASSUME NEW cs \in Conns, NEW i \in Open(cs)
    PROVE  i \in Conn /\ cs[i] \in ConnRec
BY Zenon DEF Conns, Open

\* A connection record, which has a reason, is not the closed mark.
LEMMA RecNotClosed ==
    ASSUME NEW c \in ConnRec
    PROVE  c # Closed
BY DEF ConnRec, Closed

\* The slot operators keep the type and only name states they were given.
LEMMA SlotTypes ==
    ASSUME NEW s \in PeerStates, NEW r \in SyncReason
    PROVE  /\ StartConnect(s, r) \in PeerStates
           /\ AbortConnect(s, r) \in PeerStates
           /\ Accept(s) \in PeerStates
           /\ Finish(s, r) \in PeerStates
           /\ Finish(s, "Accept") \in PeerStates
BY Zenon DEF StartConnect, AbortConnect, Accept, Finish, Frees, IsRunning, PeerStates, SyncState, SyncReason

\* A dial keeps every running pair backed: the pair it takes is backed by the
\* task it starts, in a connection that backed nothing.
LEMMA DialParts ==
    ASSUME NEW s, NEW cs, Good(s, cs), NEW k \in Key, NEW r \in SyncReason, Room(s, cs, k)
    PROVE  Good(DialSlots(s, k, r), DialConns(s, cs, k, r))
<1> DEFINE q == ReasonOf(r)
           sd == DialSlots(s, k, r)
           cd == DialConns(s, cs, k, r)
<1>q. q \in SyncReason
  BY Zenon DEF ReasonOf, SyncReason
<1>0. s \in Slots /\ cs \in Conns /\ AllBacked(s, cs)
  BY Zenon DEF Good
<1>s. sd \in Slots /\ \A j \in Key : j # k => sd[j] = s[j]
  BY <1>0, <1>q, SlotTypes, Zenon DEF DialSlots, Slots
<1>o. \A j \in Key : ~Synced(j) => sd[j].state = "Idle"
  BY <1>s, Zenon DEF Good, DialSlots
<1>1. CASE ~Starts(s, k)
  <2>1. cd = cs
    BY <1>1, Zenon DEF DialConns
  <2>2. sd[k].state = s[k].state
    BY <1>0, <1>1, Zenon DEF DialSlots, Starts, StartConnect, Slots, PeerStates
  <2>3. \A j \in Key : sd[j].state = s[j].state
    BY <2>2, <1>s, Zenon
  <2> QED BY <2>1, <2>3, <1>0, <1>s, <1>o, Zenon DEF Good, AllBacked, Backed
<1>2. CASE Starts(s, k)
  <2> DEFINE n == CHOOSE i \in Conn \ Open(cs) : TRUE
             t == DialTask(k, r)
  <2>1. n \in Conn \ Open(cs)
    BY <1>2, Zenon DEF Room, Open
  <2>2. cd = [cs EXCEPT ![n] = t]
    BY <1>2, Zenon DEF DialConns
  <2>3. t \in ConnRec /\ DialerKey(t) = k /\ t.reason = q /\ t.dial = "connecting"
    BY <1>q DEF DialTask, ConnRec, DialerKey, Key
  <2>4. cd \in Conns /\ cd[n] = t /\ n \in Open(cd)
    BY <1>0, <2>1, <2>2, <2>3, RecNotClosed, Zenon DEF Conns, Open
  <2>5. \A i \in Open(cs) : i \in Open(cd) /\ cd[i] = cs[i]
    BY <1>0, <2>1, <2>2, Zenon DEF Open, Conns
  <2>6. sd[k].state = q
    BY <1>0, <1>2, Zenon DEF DialSlots, Starts, StartConnect, IsRunning, Slots, PeerStates
  <2>7. Backed(sd, cd, k)
    BY <2>3, <2>4, <2>6, <1>q, Zenon DEF Backed, DialAlive, SyncReason
  <2>8. ASSUME NEW j \in Key, j # k PROVE InProcess \/ Backed(sd, cd, j)
    BY <1>0, <2>5, <2>8, <1>s DEF AllBacked, Backed, DialAlive, AcceptAlive
  <2> QED BY <1>s, <1>o, <2>4, <2>7, <2>8, Zenon DEF Good, AllBacked
<1> QED BY <1>1, <1>2, Zenon

\* A dial (start_connect and its task) keeps what Good says of the pairs.
LEMMA DialBacked ==
    ASSUME NEW s, NEW cs, Good(s, cs), NEW k \in Key, NEW r \in SyncReason, Dial(s, cs, k, r)
    PROVE  Good(slot', conn')
BY DialParts, Zenon DEF Dial

\* Releasing the held dials dials the record store once and queues the rest.
LEMMA ReleaseBacked ==
    ASSUME NEW s, NEW cs, Good(s, cs), NEW k \in Key,
           held \in [Pair -> Seq(SyncReason)], ReleaseHeld(s, cs, k)
    PROVE  Good(slot', conn') /\ held' \in [Pair -> Seq(SyncReason)]
<1> DEFINE pair == <<k[1], k[2]>>
           rec == <<k[1], k[2], "records">>
           rs == held[pair]
           none == k[3] # "membership" \/ rec \notin Key \/ rs = <<>>
<1>1. CASE none
  BY <1>1, Zenon DEF ReleaseHeld
<1>2. CASE ~none
  <2>p. pair \in Pair /\ rec \in Key
    BY <1>2, Zenon DEF Pair, Key
  <2> DEFINE h == Head(rs)
             first == DialSlots(s, rec, h)
             task == DialConns(s, cs, rec, h)
             queues == \E i \in 2 .. Len(rs) : rs[i] # "Resync"
  <2>1. rs \in Seq(SyncReason) /\ rs # <<>> /\ h \in SyncReason
    BY <1>2, <2>p
  <2>2. /\ Room(s, cs, rec)
        /\ held' = [held EXCEPT ![pair] = <<>>]
        /\ conn' = task
        /\ slot' = IF Synced(rec) THEN [first EXCEPT ![rec].resync = @ \/ queues] ELSE s
    BY <1>2, Zenon DEF ReleaseHeld
  <2>3. held' \in [Pair -> Seq(SyncReason)]
    <3>1. <<>> \in Seq(SyncReason)
      OBVIOUS
    <3> HIDE DEF pair
    <3> QED BY <2>2, <2>p, <3>1, Zenon
  <2>4. Good(first, task)
    BY DialParts, <2>1, <2>2, <2>p, Zenon
  <2>5. CASE Synced(rec)
    <3>1. slot' = [first EXCEPT ![rec] = [first[rec] EXCEPT !.resync = @ \/ queues]]
      BY <2>2, <2>5, Zenon
    <3>2. [first[rec] EXCEPT !.resync = @ \/ queues] \in PeerStates
      BY <2>4, <2>p, ZenonT(40) DEF Good, Slots, PeerStates
    <3>3. slot' \in Slots /\ \A j \in Key : slot'[j].state = first[j].state
      BY <3>1, <3>2, <2>4, <2>p, Zenon DEF Good, Slots, PeerStates
    <3> QED BY <2>2, <2>3, <2>4, <3>3, Zenon DEF Good, AllBacked, Backed
  <2>6. CASE ~Synced(rec)
    BY <2>2, <2>3, <2>4, <2>6, Zenon DEF DialSlots
  <2> QED BY <2>5, <2>6, Zenon
<1> QED BY <1>1, <1>2, Zenon

\* An ask dials the pair, or dials the membership store and is held on it, or
\* is held on the membership exchange that runs.
LEMMA SyncWithBacked ==
    ASSUME NEW s, NEW cs, Good(s, cs), NEW k \in Key, NEW r \in SyncReason,
           held \in [Pair -> Seq(SyncReason)], SyncWith(s, cs, k, r)
    PROVE  Good(slot', conn') /\ held' \in [Pair -> Seq(SyncReason)]
<1> DEFINE pair == <<k[1], k[2]>>
           first == <<k[1], k[2], "membership">>
           waits == k[3] = "records" /\ first \in Key /\ (IsRunning(s[first]) \/ Starts(s, first))
<1>1. CASE ~waits
  BY <1>1, DialBacked, Zenon DEF SyncWith
<1>2. CASE waits
  <2>1. pair \in Pair /\ first \in Key
    BY <1>2, Zenon DEF Pair, Key
  <2>2. held' = [held EXCEPT ![pair] = Append(@, r)]
    BY <1>2, Zenon DEF SyncWith
  <2>3. held' \in [Pair -> Seq(SyncReason)]
    BY <2>1, <2>2
  <2>4. \/ slot' = s /\ conn' = cs
        \/ Dial(s, cs, first, r)
    BY <1>2, Zenon DEF SyncWith
  <2> QED BY <2>1, <2>3, <2>4, DialBacked, Zenon
<1> QED BY <1>1, <1>2, Zenon

\* The end of a dial, handled, leaves every pair backed: a pair this dial
\* backed is idle now, and it backed no other.
LEMMA DialOverBacked ==
    ASSUME NEW i \in Open(conn), NEW p \in PeerStates, NEW k \in Key, Inv,
           k = DialerKey(conn[i]),
           p.state \in {"Idle", slot[k].state}, p.state # conn[i].reason
    PROVE  /\ [slot EXCEPT ![k] = p] \in Slots
           /\ DialOver(i) \in Conns
           /\ AllBacked([slot EXCEPT ![k] = p], DialOver(i))
<1> DEFINE t == [slot EXCEPT ![k] = p]
           c == conn[i]
           d == [c EXCEPT !.dial = "over"]
           ct == [conn EXCEPT ![i] = Retire(d)]
<1>1. i \in Conn /\ c \in ConnRec /\ conn \in Conns /\ slot \in Slots
  BY OpenIsRec, Shape, Zenon DEF Inv
<1>2. t \in Slots
  BY <1>1, Zenon DEF Slots
<1>3. d \in ConnRec /\ Retire(d) \in {d, Closed}
  BY <1>1, Zenon DEF ConnRec, Retire
<1>4. ct = DialOver(i) /\ ct \in Conns
  BY <1>1, <1>3, Zenon DEF DialOver, Conns
<1>5. \A w \in Open(conn) : w # i => w \in Open(ct) /\ ct[w] = conn[w]
  BY <1>1, Zenon DEF Open, Conns
<1>6. ASSUME ~InProcess, NEW j \in Key PROVE Backed(t, ct, j)
  <2>1. t[j].state # "Idle" => t[j].state = slot[j].state
    BY <1>1, Zenon DEF Slots
  <2>2. ASSUME t[j].state = "Accept" PROVE AcceptAlive(ct, j)
    <3>1. PICK w \in Open(conn) : AcceptorKey(conn[w]) = j /\ conn[w].accept \notin {"none", "over"}
      BY <1>6, <2>1, <2>2, Zenon DEF Inv, AllBacked, Backed, AcceptAlive
    <3>2. CASE w # i
      BY <3>1, <3>2, <1>5, Zenon DEF AcceptAlive
    <3>3. CASE w = i
      <4>1. AcceptorKey(d) = j /\ d.accept \notin {"none", "over"} /\ Retire(d) = d
        BY <3>1, <3>3, <1>1, Zenon DEF AcceptorKey, Retire, ConnRec
      <4>2. i \in Open(ct) /\ ct[i] = d
        BY <4>1, <1>1, <1>3, RecNotClosed, Zenon DEF Open, Conns
      <4> QED BY <4>1, <4>2, Zenon DEF AcceptAlive
    <3> QED BY <3>2, <3>3, Zenon
  <2>3. ASSUME t[j].state \in SyncReason PROVE DialAlive(ct, j, t[j].state)
    <3>0. t[j].state = slot[j].state
      BY <2>1, <2>3, Zenon DEF SyncReason
    <3>1. PICK w \in Open(conn) :
            DialerKey(conn[w]) = j /\ conn[w].reason = t[j].state /\ conn[w].dial # "over"
      BY <1>6, <3>0, <2>3, Zenon DEF Inv, AllBacked, Backed, DialAlive
    <3>2. w # i
      BY <3>1, <1>1, Zenon DEF Slots
    <3> QED BY <3>1, <3>2, <1>5, Zenon DEF DialAlive
  <2> QED BY <2>2, <2>3, Zenon DEF Backed
<1> QED BY <1>2, <1>4, <1>6, Zenon DEF AllBacked

\* The end of an accepted session, handled, likewise.
LEMMA AcceptOverBacked ==
    ASSUME NEW i \in Open(conn), NEW p \in PeerStates, NEW k \in Key, Inv,
           k = AcceptorKey(conn[i]),
           p.state \in {"Idle", slot[k].state}, p.state # "Accept"
    PROVE  /\ [slot EXCEPT ![k] = p] \in Slots
           /\ AcceptOver(i) \in Conns
           /\ AllBacked([slot EXCEPT ![k] = p], AcceptOver(i))
<1> DEFINE t == [slot EXCEPT ![k] = p]
           c == conn[i]
           d == [c EXCEPT !.accept = "over"]
           ct == [conn EXCEPT ![i] = Retire(d)]
<1>1. i \in Conn /\ c \in ConnRec /\ conn \in Conns /\ slot \in Slots
  BY OpenIsRec, Shape, Zenon DEF Inv
<1>2. t \in Slots
  BY <1>1, Zenon DEF Slots
<1>3. d \in ConnRec /\ Retire(d) \in {d, Closed}
  BY <1>1, Zenon DEF ConnRec, Retire
<1>4. ct = AcceptOver(i) /\ ct \in Conns
  BY <1>1, <1>3, Zenon DEF AcceptOver, Conns
<1>5. \A w \in Open(conn) : w # i => w \in Open(ct) /\ ct[w] = conn[w]
  BY <1>1, Zenon DEF Open, Conns
<1>6. ASSUME ~InProcess, NEW j \in Key PROVE Backed(t, ct, j)
  <2>1. t[j].state # "Idle" => t[j].state = slot[j].state
    BY <1>1, Zenon DEF Slots
  <2>2. ASSUME t[j].state = "Accept" PROVE AcceptAlive(ct, j)
    <3>1. PICK w \in Open(conn) : AcceptorKey(conn[w]) = j /\ conn[w].accept \notin {"none", "over"}
      BY <1>6, <2>1, <2>2, Zenon DEF Inv, AllBacked, Backed, AcceptAlive
    <3>2. w # i
      BY <3>1, <2>2, <1>1, Zenon DEF Slots
    <3> QED BY <3>1, <3>2, <1>5, Zenon DEF AcceptAlive
  <2>3. ASSUME t[j].state \in SyncReason PROVE DialAlive(ct, j, t[j].state)
    <3>0. t[j].state = slot[j].state
      BY <2>1, <2>3, Zenon DEF SyncReason
    <3>1. PICK w \in Open(conn) :
            DialerKey(conn[w]) = j /\ conn[w].reason = t[j].state /\ conn[w].dial # "over"
      BY <1>6, <3>0, <2>3, Zenon DEF Inv, AllBacked, Backed, DialAlive
    <3>2. CASE w # i
      BY <3>1, <3>2, <1>5, Zenon DEF DialAlive
    <3>3. CASE w = i
      <4>1. DialerKey(d) = j /\ d.reason = t[j].state /\ d.dial # "over" /\ Retire(d) = d
        BY <3>1, <3>3, <1>1, Zenon DEF DialerKey, Retire, ConnRec
      <4>2. i \in Open(ct) /\ ct[i] = d
        BY <4>1, <1>1, <1>3, RecNotClosed, Zenon DEF Open, Conns
      <4> QED BY <4>1, <4>2, Zenon DEF DialAlive
    <3> QED BY <3>2, <3>3, Zenon
  <2> QED BY <2>2, <2>3, Zenon DEF Backed
<1> QED BY <1>2, <1>4, <1>6, Zenon DEF AllBacked

\* A task that goes on, or ends with a result to handle, backs what it backed.
LEMMA TaskBacked ==
    ASSUME NEW i \in Open(conn), NEW c \in ConnRec \cup {Closed}, Inv,
           c # Closed => /\ DialerKey(c) = DialerKey(conn[i])
                         /\ AcceptorKey(c) = AcceptorKey(conn[i])
                         /\ c.reason = conn[i].reason,
           conn[i].dial # "over" => c # Closed /\ c.dial # "over",
           conn[i].accept \notin {"none", "over"} =>
               c # Closed /\ c.accept \notin {"none", "over"}
    PROVE  /\ [conn EXCEPT ![i] = c] \in Conns
           /\ AllBacked(slot, [conn EXCEPT ![i] = c])
<1> DEFINE ct == [conn EXCEPT ![i] = c]
<1>1. i \in Conn /\ conn[i] \in ConnRec /\ conn \in Conns
  BY OpenIsRec, Shape, Zenon DEF Inv
<1>2. ct \in Conns /\ ct[i] = c /\ (c # Closed => i \in Open(ct))
  BY <1>1, Zenon DEF Conns, Open
<1>3. \A w \in Open(conn) : w # i => w \in Open(ct) /\ ct[w] = conn[w]
  BY <1>1, Zenon DEF Open, Conns
<1>4. ASSUME NEW j \in Key, AcceptAlive(conn, j) PROVE AcceptAlive(ct, j)
  BY <1>2, <1>3, <1>4, Zenon DEF AcceptAlive
<1>5. ASSUME NEW j \in Key, NEW r \in SyncReason, DialAlive(conn, j, r) PROVE DialAlive(ct, j, r)
  BY <1>2, <1>3, <1>5, Zenon DEF DialAlive
<1> QED BY <1>2, <1>4, <1>5, Zenon DEF Inv, AllBacked, Backed

\* The key a connection is filed under, at either end, is a key.
LEMMA KeysOfConn ==
    ASSUME NEW c \in ConnRec
    PROVE  DialerKey(c) \in Key /\ AcceptorKey(c) \in Key
BY Zenon DEF DialerKey, AcceptorKey, Key, ConnRec

-----------------------------------------------------------------------------
\* The acceptor's decision (accept_request and its refusals) backs the pair it
\* takes with the session it starts, and otherwise changes no pair.
LEMMA DecideStep ==
    ASSUME Inv, NEW i \in Conn, Decide(i)
    PROVE  slot' \in Slots /\ conn' \in Conns /\ AllBacked(slot', conn')
<1> DEFINE c == conn[i]
           k == AcceptorKey(c)
<1>1. i \in Open(conn) /\ c \in ConnRec /\ c.accept = "none" /\ slot \in Slots /\ conn \in Conns
  BY OpenIsRec, Shape, Zenon DEF Decide, Inv
<1>2. CASE /\ slot' = [slot EXCEPT ![k] = Accept(@)]
           /\ conn' = [conn EXCEPT ![i].accept = "serving", ![i].served = ver[<<c.to, c.store>>]]
  <2> DEFINE d == [c EXCEPT !.accept = "serving", !.served = ver[<<c.to, c.store>>]]
  <2>1. ver[<<c.to, c.store>>] \in Int
    BY <1>1 DEF Inv, TypeOK, ConnRec
  <2>2. /\ d \in ConnRec /\ DialerKey(d) = DialerKey(c) /\ AcceptorKey(d) = k
        /\ d.reason = c.reason /\ d.dial = c.dial /\ d.accept = "serving"
    BY <1>1, <2>1, Zenon DEF ConnRec, DialerKey, AcceptorKey
  <2>3. conn' = [conn EXCEPT ![i] = d]
    BY <1>1, <1>2, Zenon DEF Conns
  <2>4. conn' \in Conns /\ AllBacked(slot, conn')
    BY <1>1, <2>2, <2>3, RecNotClosed, TaskBacked, Zenon
  <2>5. k \in Key /\ i \in Open(conn') /\ conn'[i] = d
    BY <1>1, <2>2, <2>3, KeysOfConn, RecNotClosed, Zenon DEF Open, Conns
  <2>6. AcceptAlive(conn', k)
    BY <2>2, <2>5, Zenon DEF AcceptAlive
  <2>7. slot' \in Slots /\ slot'[k].state = "Accept" /\ \A j \in Key \ {k} : slot'[j] = slot[j]
    BY <1>1, <1>2, <2>5, SlotTypes, Zenon DEF Slots, Accept, SyncReason
  <2>8. Backed(slot', conn', k)
    BY <2>6, <2>7, Zenon DEF Backed, SyncReason
  <2>9. InProcess \/ \A j \in Key \ {k} : Backed(slot', conn', j)
    BY <2>4, <2>7, Zenon DEF AllBacked, Backed
  <2> QED BY <2>4, <2>7, <2>8, <2>9, Zenon DEF AllBacked
<1>3. CASE /\ slot' = slot
           /\ \/ \E reason \in {"AlreadySyncing", "NotFound"} :
                    conn' = [conn EXCEPT ![i] = Answered(c, reason)]
              \/ conn' = [conn EXCEPT ![i].accept = "Error",
                                      ![i].dial = IF @ = "sent" THEN "Error" ELSE @]
  <2>1. PICK d \in ConnRec \cup {Closed} :
          /\ conn' = [conn EXCEPT ![i] = d]
          /\ d # Closed => /\ DialerKey(d) = DialerKey(c) /\ AcceptorKey(d) = k
                           /\ d.reason = c.reason
          /\ c.dial # "over" => d # Closed /\ d.dial # "over"
    <3>1. CASE \E reason \in {"AlreadySyncing", "NotFound"} :
                 conn' = [conn EXCEPT ![i] = Answered(c, reason)]
      <4>1. PICK reason \in {"AlreadySyncing", "NotFound"} :
                 conn' = [conn EXCEPT ![i] = Answered(c, reason)]
        BY <3>1, Zenon
      <4> DEFINE e == [c EXCEPT !.accept = "over", !.answer = IF c.dial = "sent" THEN reason ELSE @]
      <4>2. /\ e \in ConnRec /\ DialerKey(e) = DialerKey(c) /\ AcceptorKey(e) = k
            /\ e.reason = c.reason /\ e.dial = c.dial
        BY <1>1, Zenon DEF ConnRec, DialerKey, AcceptorKey
      <4>3. Answered(c, reason) = Retire(e) /\ Retire(e) \in {e, Closed}
            /\ (c.dial # "over" => Retire(e) = e)
        BY <4>2, Zenon DEF Answered, Retire
      <4> QED BY <4>1, <4>2, <4>3, RecNotClosed, Zenon
    <3>2. CASE conn' = [conn EXCEPT ![i].accept = "Error",
                                    ![i].dial = IF @ = "sent" THEN "Error" ELSE @]
      <4> DEFINE e == [c EXCEPT !.accept = "Error", !.dial = IF @ = "sent" THEN "Error" ELSE @]
      <4>1. /\ e \in ConnRec /\ DialerKey(e) = DialerKey(c) /\ AcceptorKey(e) = k
            /\ e.reason = c.reason /\ (c.dial # "over" => e.dial # "over")
        BY <1>1, Zenon DEF ConnRec, DialerKey, AcceptorKey, DialResult, AcceptResult
      <4>2. conn' = [conn EXCEPT ![i] = e]
        BY <1>1, <3>2, Zenon DEF Conns
      <4> QED BY <4>1, <4>2, RecNotClosed, Zenon
    <3> QED BY <1>3, <3>1, <3>2, Zenon
  <2> QED BY <1>1, <1>3, <2>1, TaskBacked, Zenon
<1> QED BY <1>2, <1>3, Zenon DEF Decide

\* The steps of a task that touch only its connection and leave the pairs
\* alone: the connection changes to a d that goes on backing what it backed.
Carries(c, d) ==
    /\ DialerKey(d) = DialerKey(c) /\ AcceptorKey(d) = AcceptorKey(c)
    /\ d.reason = c.reason
    /\ c.dial # "over" => d.dial # "over"
    /\ c.accept \notin {"none", "over"} => d.accept \notin {"none", "over"}

\* Every step of a task (net.rs, codec.rs) changes one connection, whose two
\* ends go on carrying what they carried.
LEMMA TaskChange ==
    ASSUME Inv, NEW i \in Conn,
           SendInit(i) \/ Complete(i) \/ ReadAnswer(i) \/ HalfComplete(i)
           \/ RefuseAgain(i) \/ LoseDialer(i) \/ LoseAcceptor(i)
    PROVE  /\ UNCHANGED slot
           /\ conn' \in Conns /\ AllBacked(slot', conn')
<1> DEFINE c == conn[i]
<1>1. i \in Open(conn) /\ c \in ConnRec /\ conn \in Conns
  BY OpenIsRec, Shape, Zenon
     DEF Inv, SendInit, Complete, ReadAnswer, HalfComplete, RefuseAgain, LoseDialer, LoseAcceptor
<1>2. \E d \in ConnRec : conn' = [conn EXCEPT ![i] = d] /\ Carries(c, d)
  <2>1. CASE SendInit(i)
    <3> DEFINE d == [c EXCEPT !.dial = "sent", !.snap = ver[<<c.from, c.store>>]]
    <3>1. ver[<<c.from, c.store>>] \in Int
      BY <1>1 DEF Inv, TypeOK, ConnRec
    <3>2. conn' = [conn EXCEPT ![i] = d]
      BY <2>1, <1>1, Zenon DEF SendInit, Conns
    <3>3. d \in ConnRec /\ Carries(c, d)
      BY <1>1, <3>1, Zenon DEF ConnRec, Carries, DialerKey, AcceptorKey
    <3> QED BY <3>2, <3>3, Zenon
  <2>2. CASE Complete(i)
    <3> DEFINE d == [c EXCEPT !.dial = "Ok", !.accept = "Ok"]
    <3>2. conn' = [conn EXCEPT ![i] = d]
      BY <2>2, <1>1, Zenon DEF Complete, Conns
    <3>3. d \in ConnRec /\ Carries(c, d)
      BY <1>1, Zenon DEF ConnRec, Carries, DialerKey, AcceptorKey, DialResult, AcceptResult
    <3> QED BY <3>2, <3>3, Zenon
  <2>3. CASE ReadAnswer(i)
    <3> DEFINE d == [c EXCEPT !.dial = c.answer]
    <3>2. conn' = [conn EXCEPT ![i] = d]
      BY <2>3, <1>1, Zenon DEF ReadAnswer, Conns
    <3>3. d \in ConnRec /\ Carries(c, d)
      BY <2>3, <1>1, Zenon DEF ReadAnswer, ConnRec, Carries, DialerKey, AcceptorKey, DialResult
    <3> QED BY <3>2, <3>3, Zenon
  <2>4. CASE HalfComplete(i)
    <3> DEFINE d == [c EXCEPT !.dial = "Ok", !.accept = "Error"]
               e == [c EXCEPT !.dial = "Error", !.accept = "Ok"]
    <3>2. conn' = [conn EXCEPT ![i] = d] \/ conn' = [conn EXCEPT ![i] = e]
      BY <2>4, <1>1, Zenon DEF HalfComplete, Conns
    <3>3. d \in ConnRec /\ Carries(c, d) /\ e \in ConnRec /\ Carries(c, e)
      BY <1>1, ZenonT(30) DEF ConnRec, Carries, DialerKey, AcceptorKey, DialResult, AcceptResult
    <3> QED BY <3>2, <3>3, Zenon
  <2>5. CASE RefuseAgain(i)
    <3> DEFINE d == [c EXCEPT !.accept = "Error", !.answer = IF c.dial = "sent" THEN "NotFound" ELSE @]
    <3>2. conn' = [conn EXCEPT ![i] = d]
      BY <2>5, <1>1, Zenon DEF RefuseAgain, Conns
    <3>3. d \in ConnRec /\ Carries(c, d)
      BY <1>1, ZenonT(30) DEF ConnRec, Carries, DialerKey, AcceptorKey, DialResult, AcceptResult
    <3> QED BY <3>2, <3>3, Zenon
  <2>6. CASE LoseDialer(i)
    <3>1. PICK a \in {c.accept} \cup (IF c.accept = "none" THEN {"over"} ELSE {}) :
            conn' = [conn EXCEPT ![i].dial = "Error", ![i].accept = a, ![i].answer = "none"]
      BY <2>6, Zenon DEF LoseDialer
    <3> DEFINE d == [c EXCEPT !.dial = "Error", !.accept = a, !.answer = "none"]
    <3>2. conn' = [conn EXCEPT ![i] = d]
      BY <3>1, <1>1, Zenon DEF Conns
    <3>3. d \in ConnRec /\ Carries(c, d)
      BY <1>1, ZenonT(30) DEF ConnRec, Carries, DialerKey, AcceptorKey, DialResult, AcceptResult
    <3> QED BY <3>2, <3>3, Zenon
  <2>7. CASE LoseAcceptor(i)
    <3>1. PICK a \in AcceptResult \ {"Ok"} :
            conn' = [conn EXCEPT ![i].accept = a, ![i].dial = IF @ = "sent" THEN "Error" ELSE @]
      BY <2>7, Zenon DEF LoseAcceptor
    <3> DEFINE d == [c EXCEPT !.accept = a, !.dial = IF @ = "sent" THEN "Error" ELSE @]
    <3>2. conn' = [conn EXCEPT ![i] = d]
      BY <3>1, <1>1, Zenon DEF Conns
    <3>3. d \in ConnRec /\ Carries(c, d)
      BY <1>1, ZenonT(30) DEF ConnRec, Carries, DialerKey, AcceptorKey, DialResult, AcceptResult
    <3> QED BY <3>2, <3>3, Zenon
  <2> QED BY <2>1, <2>2, <2>3, <2>4, <2>5, <2>6, <2>7, Zenon
<1>3. UNCHANGED slot
  BY Zenon DEF SendInit, Complete, ReadAnswer, HalfComplete, RefuseAgain, LoseDialer, LoseAcceptor, engine
<1> QED BY <1>1, <1>2, <1>3, TaskBacked, RecNotClosed, Zenon DEF Carries

\* The three things a handler may do once it has freed a pair.
LEMMA AfterFree ==
    ASSUME NEW s, NEW cs, Good(s, cs), NEW k \in Key,
           held \in [Pair -> Seq(SyncReason)],
           \/ SyncWith(s, cs, k, "Resync")
           \/ slot' = s /\ conn' = cs /\ UNCHANGED held
           \/ ReleaseHeld(s, cs, k)
    PROVE  Good(slot', conn') /\ held' \in [Pair -> Seq(SyncReason)]
BY SyncWithBacked, ReleaseBacked, Zenon DEF SyncReason

\* A finish frees the pair of its origin's kind, so it leaves no state that
\* the ended exchange backed.
LEMMA FinishState ==
    ASSUME NEW p \in PeerStates, NEW r \in SyncReason
    PROVE  /\ Finish(p, r).state \in {"Idle", p.state} /\ Finish(p, r).state # r
           /\ Finish(p, "Accept").state \in {"Idle", p.state}
           /\ Finish(p, "Accept").state # "Accept"
           /\ AbortConnect(p, r).state \in {"Idle", p.state} /\ AbortConnect(p, r).state # r
BY Zenon DEF Finish, Frees, AbortConnect, PeerStates, SyncState, SyncReason

\* A dial whose end the actor handled, with its pair freed, leaves the pairs
\* good for the handler to go on from (on_sync_via_connect_finished).
LEMMA DialEnded ==
    ASSUME Inv, UNCHANGED syncing, NEW i \in Open(conn), NEW k \in Key,
           NEW f \in PeerStates, k = DialerKey(conn[i]),
           f.state \in {"Idle", slot[k].state}, f.state # conn[i].reason
    PROVE  Good(IF Synced(k) THEN [slot EXCEPT ![k] = f] ELSE slot, DialOver(i))
<1> DEFINE p == IF Synced(k) THEN f ELSE slot[k]
<1>1. slot \in Slots /\ conn[i].reason \in SyncReason
  BY Shape, OpenIsRec, Zenon DEF Inv, ConnRec
<1>2. ~Synced(k) => slot[k].state = "Idle"
  BY Zenon DEF Inv, OffIdle, Synced
<1>3. p \in PeerStates /\ p.state \in {"Idle", slot[k].state} /\ p.state # conn[i].reason
  BY <1>1, <1>2, Zenon DEF Slots, SyncReason
<1>4. [slot EXCEPT ![k] = p] = IF Synced(k) THEN [slot EXCEPT ![k] = f] ELSE slot
  BY <1>1, Zenon DEF Slots
<1>5. \A j \in Key : ~Synced(j) => [slot EXCEPT ![k] = p][j].state = "Idle"
  BY <1>1, <1>3, Zenon DEF Inv, OffIdle, Synced, Slots
<1> HIDE DEF p
<1>6. /\ [slot EXCEPT ![k] = p] \in Slots
      /\ DialOver(i) \in Conns
      /\ AllBacked([slot EXCEPT ![k] = p], DialOver(i))
  BY <1>3, DialOverBacked, Zenon
<1> QED BY <1>4, <1>5, <1>6, Zenon DEF Good

\* The same for an accepted session (on_sync_via_accept_finished).
LEMMA AcceptEnded ==
    ASSUME Inv, UNCHANGED syncing, NEW i \in Open(conn), NEW k \in Key,
           NEW f \in PeerStates, k = AcceptorKey(conn[i]),
           f.state \in {"Idle", slot[k].state}, f.state # "Accept"
    PROVE  Good(IF Synced(k) THEN [slot EXCEPT ![k] = f] ELSE slot, AcceptOver(i))
<1> DEFINE p == IF Synced(k) THEN f ELSE slot[k]
<1>1. slot \in Slots
  BY Shape, Zenon DEF Inv
<1>2. ~Synced(k) => slot[k].state = "Idle"
  BY Zenon DEF Inv, OffIdle, Synced
<1>3. p \in PeerStates /\ p.state \in {"Idle", slot[k].state} /\ p.state # "Accept"
  BY <1>1, <1>2, Zenon DEF Slots
<1>4. [slot EXCEPT ![k] = p] = IF Synced(k) THEN [slot EXCEPT ![k] = f] ELSE slot
  BY <1>1, Zenon DEF Slots
<1>5. \A j \in Key : ~Synced(j) => [slot EXCEPT ![k] = p][j].state = "Idle"
  BY <1>1, <1>3, Zenon DEF Inv, OffIdle, Synced, Slots
<1> HIDE DEF p
<1>6. /\ [slot EXCEPT ![k] = p] \in Slots
      /\ AcceptOver(i) \in Conns
      /\ AllBacked([slot EXCEPT ![k] = p], AcceptOver(i))
  BY <1>3, AcceptOverBacked, Zenon
<1> QED BY <1>4, <1>5, <1>6, Zenon DEF Good

\* A whole handler of an ended exchange, with the resync or the held dials it
\* then starts, keeps every running pair backed.
LEMMA ActorStepBacked ==
    ASSUME Inv, NEW i \in Conn, ActorStep(i)
    PROVE  Good(slot', conn') /\ held' \in [Pair -> Seq(SyncReason)]
<1> DEFINE c == conn[i]
<1>1. i \in Open(conn) /\ c \in ConnRec /\ UNCHANGED syncing
  BY OpenIsRec, Shape, Zenon DEF Inv, ActorStep, DialAborted, DialFinished, AcceptFinished
<1>2. DialerKey(c) \in Key /\ AcceptorKey(c) \in Key /\ c.reason \in SyncReason
  BY <1>1, KeysOfConn, Zenon DEF ConnRec
<1>3. slot \in Slots /\ held \in [Pair -> Seq(SyncReason)]
  BY Shape, Zenon DEF Inv
<1>4. CASE DialAborted(i)
  <2> DEFINE k == DialerKey(c)
             f == AbortConnect(slot[k], c.reason)
             s == IF Synced(k) THEN [slot EXCEPT ![k] = f] ELSE slot
  <2>1. f \in PeerStates /\ f.state \in {"Idle", slot[k].state} /\ f.state # c.reason
    BY <1>2, <1>3, SlotTypes, FinishState, Zenon DEF Slots
  <2>2. Good(s, DialOver(i))
    BY <1>1, <1>2, <2>1, DialEnded, Zenon
  <2>3. \/ slot' = s /\ conn' = DialOver(i) /\ UNCHANGED held
        \/ ReleaseHeld(s, DialOver(i), k)
    BY <1>4, Zenon DEF DialAborted
  <2> QED BY <1>2, <1>3, <2>2, <2>3, AfterFree, Zenon
<1>5. CASE DialFinished(i)
  <2> DEFINE k == DialerKey(c)
             f == Finish(slot[k], c.reason)
             s == IF Synced(k) THEN [slot EXCEPT ![k] = f] ELSE slot
  <2>1. f \in PeerStates /\ f.state \in {"Idle", slot[k].state} /\ f.state # c.reason
    BY <1>2, <1>3, SlotTypes, FinishState, Zenon DEF Slots
  <2>2. Good(s, DialOver(i))
    BY <1>1, <1>2, <2>1, DialEnded, Zenon
  <2>3. \/ SyncWith(s, DialOver(i), k, "Resync")
        \/ slot' = s /\ conn' = DialOver(i) /\ UNCHANGED held
        \/ ReleaseHeld(s, DialOver(i), k)
    BY <1>5, Zenon DEF DialFinished, OnSyncFinished
  <2> QED BY <1>2, <1>3, <2>2, <2>3, AfterFree, Zenon
<1>6. CASE AcceptFinished(i) /\ c.accept # "Unnamed"
  <2> DEFINE k == AcceptorKey(c)
             f == Finish(slot[k], "Accept")
             s == IF Synced(k) THEN [slot EXCEPT ![k] = f] ELSE slot
  <2>1. f \in PeerStates /\ f.state \in {"Idle", slot[k].state} /\ f.state # "Accept"
    BY <1>2, <1>3, SlotTypes, FinishState, Zenon DEF Slots
  <2>2. Good(s, AcceptOver(i))
    BY <1>1, <1>2, <2>1, AcceptEnded, Zenon
  <2>3. \/ SyncWith(s, AcceptOver(i), k, "Resync")
        \/ slot' = s /\ conn' = AcceptOver(i) /\ UNCHANGED held
        \/ ReleaseHeld(s, AcceptOver(i), k)
    BY <1>6, Zenon DEF AcceptFinished, OnSyncFinished
  <2> QED BY <1>2, <1>3, <2>2, <2>3, AfterFree, Zenon
<1>7. CASE AcceptFinished(i) /\ c.accept = "Unnamed"
  <2> DEFINE d == [c EXCEPT !.accept = "over"]
  <2>1. InProcess /\ UNCHANGED <<slot, held>> /\ conn' = [conn EXCEPT ![i] = Retire(d)]
    BY <1>7, Zenon DEF AcceptFinished, AcceptResult, AcceptOver
  <2>2. d \in ConnRec /\ Retire(d) \in {d, Closed}
    BY <1>1, Zenon DEF ConnRec, Retire
  <2>3. conn' \in Conns
    BY <1>1, <2>1, <2>2, Shape, Zenon DEF Inv, Conns
  <2>4. \A k \in Key : ~Synced(k) => slot[k].state = "Idle"
    BY <1>1, Zenon DEF Inv, OffIdle, Synced
  <2> QED BY <1>3, <2>1, <2>3, <2>4, Zenon DEF Good, AllBacked
<1> QED BY <1>4, <1>5, <1>6, <1>7, Zenon DEF ActorStep

-----------------------------------------------------------------------------
\* The types of what the handlers change beside the slots, the connections
\* and the held dials.
Rest ==
    /\ syncing \in [Party -> SUBSET Stores]
    /\ refused \subseteq Key
    /\ streak \in [Key -> 0 .. MAX_REDIALS]
    /\ due \in [Key \X SyncReason -> Nat]
    /\ judges \subseteq Party
    /\ ver \in [Party \X Stores -> Nat]
    /\ told \in [Key -> Nat]
    /\ got \in [Key -> Int]
    /\ left \in Left

\* Spending from the environment's budget keeps its type.
LEMMA SpendType ==
    ASSUME left \in Left, NEW w \in {"asks", "writes", "losses", "unwritten", "leaves"}, Spend(w)
    PROVE  left' \in Left
BY DEF Left, Spend

\* The handlers that ask for a dial keep the types of what is not slots and
\* connections.
LEMMA AskRest ==
    ASSUME Inv, NEW k \in Key, NEW r \in SyncReason, Ask(k, r) \/ Redial(k, r) \/ Report(k)
    PROVE  Rest'
<1>1. CASE Ask(k, r)
  BY <1>1, SpendType, Zenon DEF Inv, TypeOK, Rest, Ask, data
<1>2. CASE Redial(k, r)
  BY <1>2 DEF Inv, TypeOK, Rest, Redial, data
<1>3. CASE Report(k)
  <2>1. ver[<<k[2], k[3]>>] \in Nat
    BY Zenon DEF Inv, TypeOK, Key
  <2> QED BY <1>3, <2>1, Zenon DEF Inv, TypeOK, Rest, Report
<1> QED BY <1>1, <1>2, <1>3, Zenon

\* The steps that write, leave or start a store keep those types.
LEMMA StoreRest ==
    ASSUME Inv, NEW p \in Party, NEW n \in Stores, Write(p, n) \/ Leave(p, n) \/ StartSync(p, n)
    PROVE  Rest'
<1>1. CASE Write(p, n)
  BY <1>1, SpendType DEF Inv, TypeOK, Rest, Write, engine
<1>2. CASE Leave(p, n)
  <2>1. streak' \in [Key -> 0 .. MAX_REDIALS]
    BY <1>2, RedialsAssumption DEF Inv, TypeOK, Leave
  <2>2. syncing' \in [Party -> SUBSET Stores] /\ refused' \subseteq Key
    BY <1>2, Zenon DEF Inv, TypeOK, Leave
  <2>3. left' \in Left /\ UNCHANGED <<due, data>>
    BY <1>2, SpendType, Zenon DEF Inv, TypeOK, Leave
  <2> QED BY <2>1, <2>2, <2>3, Zenon DEF Inv, TypeOK, Rest, data
<1>3. CASE StartSync(p, n)
  BY <1>3, Zenon DEF Inv, TypeOK, Rest, StartSync, data
<1> QED BY <1>1, <1>2, <1>3, Zenon

\* The steps of the tasks keep those types.
LEMMA TaskRest ==
    ASSUME Inv, NEW i \in Conn,
           SendInit(i) \/ Decide(i) \/ Complete(i) \/ ReadAnswer(i) \/ HalfComplete(i)
           \/ RefuseAgain(i) \/ LoseDialer(i) \/ LoseAcceptor(i)
    PROVE  Rest' /\ UNCHANGED <<syncing, held>>
<1>1. CASE SendInit(i) \/ ReadAnswer(i)
  BY <1>1, Zenon DEF Inv, TypeOK, Rest, SendInit, ReadAnswer, engine, data
<1>2. CASE RefuseAgain(i) \/ LoseDialer(i) \/ LoseAcceptor(i)
  BY <1>2, SpendType, Zenon DEF Inv, TypeOK, Rest, RefuseAgain, LoseDialer, LoseAcceptor, engine, data
<1>3. CASE Decide(i)
  BY <1>3, SpendType, Zenon DEF Inv, TypeOK, Rest, Decide, data
<1>4. CASE Complete(i) \/ HalfComplete(i)
  <2> DEFINE c == conn[i]
  <2>1. c \in ConnRec
    BY <1>4, OpenIsRec, Shape, Zenon DEF Inv, Complete, HalfComplete
  <2>2. c.served \in Int /\ c.snap \in Int /\ c.from \in Party /\ DialerKey(c) \in Key /\ AcceptorKey(c) \in Key
    BY <2>1, KeysOfConn, Zenon DEF ConnRec
  <2>3. got' \in [Key -> Int]
    BY <1>4, <2>2, Zenon DEF Inv, TypeOK, Complete, HalfComplete, Max2
  <2>4. judges' \subseteq Party
    BY <1>4, <2>2, Zenon DEF Inv, TypeOK, Complete, HalfComplete
  <2> QED BY <1>4, <2>3, <2>4, SpendType, Zenon DEF Inv, TypeOK, Rest, Complete, HalfComplete, engine
<1> QED BY <1>1, <1>2, <1>3, <1>4, Zenon

\* The handlers of ended exchanges keep those types; the streak of refusals
\* stays within MAX_REDIALS.
LEMMA ActorRest ==
    ASSUME Inv, NEW i \in Conn, ActorStep(i)
    PROVE  Rest'
<1> DEFINE c == conn[i]
<1>1. c \in ConnRec
  BY OpenIsRec, Shape, Zenon DEF Inv, ActorStep, DialAborted, DialFinished, AcceptFinished
<1>2. DialerKey(c) \in Key /\ AcceptorKey(c) \in Key /\ c.reason \in SyncReason
  BY <1>1, KeysOfConn, Zenon DEF ConnRec
<1>3. CASE DialAborted(i)
  <2>1. streak' \in [Key -> 0 .. MAX_REDIALS]
    BY <1>2, <1>3, RedialsAssumption DEF Inv, TypeOK, DialAborted, Exhausted
  <2>2. due' \in [Key \X SyncReason -> Nat]
    <3> DEFINE kr == <<DialerKey(c), c.reason>>
    <3>1. kr \in Key \X SyncReason
      BY <1>2, Zenon
    <3>2. due' = due \/ due' = [due EXCEPT ![kr] = @ + 1]
      BY <1>3, Zenon DEF DialAborted
    <3>3. due[kr] + 1 \in Nat
      BY <3>1 DEF Inv, TypeOK
    <3> HIDE DEF kr
    <3> QED BY <3>1, <3>2, <3>3, Zenon DEF Inv, TypeOK
  <2> QED BY <1>3, <2>1, <2>2, Zenon DEF Inv, TypeOK, Rest, DialAborted, data
<1>4. CASE DialFinished(i)
  <2>1. refused' \subseteq Key
    BY <1>2, <1>4, Zenon DEF Inv, TypeOK, DialFinished
  <2>2. streak' \in [Key -> 0 .. MAX_REDIALS]
    <3> DEFINE k == DialerKey(c)
    <3>1. k \in Key
      BY <1>2, Zenon
    <3>2. streak' = streak \/ streak' = [streak EXCEPT ![k] = 0]
      BY <1>4, Zenon DEF DialFinished, OnSyncFinished
    <3>3. 0 \in 0 .. MAX_REDIALS
      BY RedialsAssumption
    <3> HIDE DEF k
    <3> QED BY <3>1, <3>2, <3>3 DEF Inv, TypeOK
  <2> QED BY <1>4, <2>1, <2>2, Zenon DEF Inv, TypeOK, Rest, DialFinished, data
<1>5. CASE AcceptFinished(i)
  <2>1. refused' \subseteq Key
    BY <1>2, <1>5, Zenon DEF Inv, TypeOK, AcceptFinished
  <2>2. streak' \in [Key -> 0 .. MAX_REDIALS]
    <3> DEFINE k == AcceptorKey(c)
    <3>1. k \in Key
      BY <1>2, Zenon
    <3>2. streak' = streak \/ streak' = [streak EXCEPT ![k] = 0]
      BY <1>5, Zenon DEF AcceptFinished, OnSyncFinished
    <3>3. 0 \in 0 .. MAX_REDIALS
      BY RedialsAssumption
    <3> HIDE DEF k
    <3> QED BY <3>1, <3>2, <3>3 DEF Inv, TypeOK
  <2> QED BY <1>5, <2>1, <2>2, Zenon DEF Inv, TypeOK, Rest, AcceptFinished, data
<1> QED BY <1>3, <1>4, <1>5, Zenon DEF ActorStep

\* The parts put together are the invariant of the next state.
LEMMA Assemble ==
    ASSUME Rest', Good(slot', conn'), held' \in [Pair -> Seq(SyncReason)]
    PROVE  Inv'
BY Zenon DEF Rest, Good, Inv, TypeOK, OffIdle, AllBacked, Slots, Conns, Synced

\* A live actor that has just started satisfies the invariant.
LEMMA InitInv == Init => Inv
<1> SUFFICES ASSUME Init PROVE Inv
  BY Zenon
<1>1. IdlePeer \in PeerStates /\ IdlePeer.state = "Idle"
  BY Zenon DEF IdlePeer, PeerStates, SyncState
<1>2. slot \in Slots /\ \A k \in Key : slot[k].state = "Idle"
  BY <1>1, Zenon DEF Init, Slots
<1>3. conn \in Conns
  BY Zenon DEF Init, Conns
<1>4. held \in [Pair -> Seq(SyncReason)]
  BY DEF Init
<1>5. Rest
  BY RedialsAssumption, BudgetAssumption DEF Init, Rest, Left
<1>6. AllBacked(slot, conn) /\ OffIdle
  BY <1>2, Zenon DEF AllBacked, Backed, OffIdle, SyncReason
<1> QED BY <1>2, <1>3, <1>4, <1>5, <1>6, Zenon DEF Inv, TypeOK, Rest, Slots, Conns

\* A store that leaves idles its pairs; its tasks go on and back nothing.
LEMMA LeaveGood ==
    ASSUME Inv, NEW p \in Party, NEW n \in Stores, Leave(p, n)
    PROVE  Good([k \in Key |-> IF k[1] = p /\ k[3] = n THEN IdlePeer ELSE slot[k]], conn)
<1> DEFINE s == [k \in Key |-> IF k[1] = p /\ k[3] = n THEN IdlePeer ELSE slot[k]]
<1>1. slot \in Slots /\ conn \in Conns /\ held \in [Pair -> Seq(SyncReason)]
  BY Shape, Zenon DEF Inv
<1>2. IdlePeer \in PeerStates /\ IdlePeer.state = "Idle"
  BY Zenon DEF IdlePeer, PeerStates, SyncState
<1>3. s \in Slots /\ \A k \in Key : s[k].state \in {"Idle", slot[k].state}
  BY <1>1, <1>2, Zenon DEF Slots
<1>4. AllBacked(s, conn)
  BY <1>3, Zenon DEF Inv, AllBacked, Backed, SyncReason
<1>5. ASSUME NEW k \in Key, ~Synced(k) PROVE s[k].state = "Idle"
  <2>1. CASE k[1] = p /\ k[3] = n
    BY <2>1, <1>2, Zenon
  <2>2. CASE ~(k[1] = p /\ k[3] = n)
    <3>1. k[1] \in Party /\ k[3] \in Stores
      BY Zenon DEF Key
    <3>2. k[3] \notin syncing[k[1]]
      BY <1>5, <2>2, <3>1, Zenon DEF Leave, Synced, Inv, TypeOK
    <3> QED BY <2>2, <3>2, Zenon DEF Inv, OffIdle
  <2> QED BY <2>1, <2>2, Zenon
<1> QED BY <1>1, <1>3, <1>4, <1>5, Zenon DEF Good

\* What it then releases or drops keeps the running pairs backed.
LEMMA LeaveBacked ==
    ASSUME Inv, NEW p \in Party, NEW n \in Stores, Leave(p, n)
    PROVE  Good(slot', conn') /\ held' \in [Pair -> Seq(SyncReason)]
<1> DEFINE s == [k \in Key |-> IF k[1] = p /\ k[3] = n THEN IdlePeer ELSE slot[k]]
<1>1. held \in [Pair -> Seq(SyncReason)]
  BY Shape, Zenon DEF Inv
<1>6. Good(s, conn)
  BY LeaveGood, Zenon
<1> HIDE DEF s
<1>7. CASE n = "records"
  <2>1. slot' = s /\ conn' = conn
    BY <1>7, Zenon DEF Leave, s
  <2>2. held' = [pq \in Pair |-> IF pq[1] = p THEN <<>> ELSE held[pq]]
    BY <1>7, Zenon DEF Leave
  <2>3. <<>> \in Seq(SyncReason)
    OBVIOUS
  <2>4. held' \in [Pair -> Seq(SyncReason)]
    BY <1>1, <2>2, <2>3, Zenon
  <2> QED BY <1>6, <2>1, <2>4, Zenon
<1>8. CASE n # "records"
  <2>1. PICK q \in Party \ {p} : ReleaseHeld(s, conn, <<p, q, n>>)
    BY <1>8, Zenon DEF Leave, s
  <2>2. <<p, q, n>> \in Key
    BY Zenon DEF Key
  <2> QED BY <1>1, <1>6, <2>1, <2>2, ReleaseBacked, Zenon
<1> QED BY <1>7, <1>8, Zenon

\* Every step of the live actors, the tasks and the environment keeps it.
LEMMA StepInv == Inv /\ [Next]_vars => Inv'
<1> SUFFICES ASSUME Inv, [Next]_vars PROVE Inv'
  BY Zenon
<1> USE Shape
<1>t. slot \in Slots /\ conn \in Conns /\ held \in [Pair -> Seq(SyncReason)] /\ TypeOK
  BY Zenon DEF Inv
<1>g. UNCHANGED syncing => Good(slot, conn)
  BY <1>t, Zenon DEF Inv, OffIdle, Good, Synced
<1>1. ASSUME NEW k \in Key, NEW r \in SyncReason, Ask(k, r) \/ Redial(k, r) \/ Report(k) PROVE Inv'
  <2>1. UNCHANGED syncing
    BY <1>1, Zenon DEF Ask, Redial, Report
  <2>2. \/ \E q \in SyncReason : SyncWith(slot, conn, k, q)
        \/ UNCHANGED <<slot, conn, held>>
    BY <1>1, Zenon DEF Ask, Redial, Report, SyncReason
  <2>3. Good(slot', conn') /\ held' \in [Pair -> Seq(SyncReason)]
    BY <1>t, <1>g, <2>1, <2>2, SyncWithBacked, Zenon
  <2> QED BY <1>1, <2>3, AskRest, Assemble, Zenon
<1>2. ASSUME NEW p \in Party, NEW n \in Stores, Write(p, n) PROVE Inv'
  <2>1. UNCHANGED <<syncing, slot, conn, held>>
    BY <1>2, Zenon DEF Write, engine
  <2>2. Good(slot', conn') /\ held' \in [Pair -> Seq(SyncReason)]
    BY <1>t, <1>g, <2>1, Zenon
  <2> QED BY <1>2, <2>2, StoreRest, Assemble, Zenon
<1>3. ASSUME NEW p \in Party, NEW n \in Stores, Leave(p, n) PROVE Inv'
  BY <1>3, LeaveBacked, StoreRest, Assemble, Zenon
<1>4. ASSUME NEW p \in Party, NEW n \in Stores, StartSync(p, n) PROVE Inv'
  <2>1. \A k \in Key : ~Synced(k) => k[3] \notin syncing[k[1]]
    BY <1>4, <1>t, Zenon DEF StartSync, Synced, TypeOK, Key
  <2>2. Good(slot, conn)
    BY <1>t, <2>1, Zenon DEF Good, Inv, OffIdle
  <2>3. \/ UNCHANGED <<slot, held, conn>>
        \/ \E q \in Party \ {p} : SyncWith(slot, conn, <<p, q, n>>, "DirectJoin")
    BY <1>4, Zenon DEF StartSync
  <2>4. \A q \in Party \ {p} : <<p, q, n>> \in Key
    BY Zenon DEF Key
  <2>5. Good(slot', conn') /\ held' \in [Pair -> Seq(SyncReason)]
    BY <1>t, <2>2, <2>3, <2>4, SyncWithBacked, Zenon DEF SyncReason
  <2> QED BY <1>4, <2>5, StoreRest, Assemble, Zenon
<1>5. ASSUME NEW i \in Conn, ActorStep(i) PROVE Inv'
  BY <1>5, ActorStepBacked, ActorRest, Assemble, Zenon
<1>6. ASSUME NEW i \in Conn,
             SendInit(i) \/ Complete(i) \/ ReadAnswer(i) \/ HalfComplete(i)
             \/ RefuseAgain(i) \/ LoseDialer(i) \/ LoseAcceptor(i)
      PROVE  Inv'
  <2>1. Rest' /\ UNCHANGED <<syncing, held>>
    BY <1>6, TaskRest, Zenon
  <2>2. UNCHANGED slot /\ conn' \in Conns /\ AllBacked(slot', conn')
    BY <1>6, TaskChange, Zenon
  <2>3. Good(slot', conn')
    BY <1>t, <1>g, <2>1, <2>2, Zenon DEF Good
  <2> QED BY <1>t, <2>1, <2>3, Assemble, Zenon
<1>7. ASSUME NEW i \in Conn, Decide(i) PROVE Inv'
  <2>1. Rest' /\ UNCHANGED <<syncing, held>>
    BY <1>7, TaskRest, Zenon
  <2>2. slot' \in Slots /\ conn' \in Conns /\ AllBacked(slot', conn')
    BY <1>7, DecideStep, Zenon
  <2>3. \A k \in Key : ~Synced(k) => slot'[k] = slot[k]
    BY <1>7, <1>t, <2>1 DEF Decide, Synced, Slots, AcceptorKey
  <2>4. Good(slot', conn')
    BY <1>g, <2>1, <2>2, <2>3, Zenon DEF Good
  <2> QED BY <1>t, <2>1, <2>4, Assemble, Zenon
<1>8. CASE UNCHANGED vars
  BY <1>8, Zenon DEF vars, engine, data, Inv, TypeOK, AllBacked, Backed, DialAlive, AcceptAlive, Open, OffIdle
<1>9. ASSUME NEW k \in Key, Report(k) PROVE Inv'
  <2>1. "Resync" \in SyncReason
    BY Zenon DEF SyncReason
  <2> QED BY <1>1, <1>9, <2>1, Zenon
<1> QED BY <1>1, <1>2, <1>3, <1>4, <1>5, <1>6, <1>7, <1>8, <1>9, Zenon DEF Next, TaskStep

\* Between nodes, for two parties, any stores, connections and budgets, a pair
\* that is running has an exchange whose end will be handled and free it:
\* dials and accepted sessions that fail, are refused, superseded, lost, or
\* outlive their store's place in the sync set included.
THEOREM NoPairStuck == ~InProcess => (Spec => [](TypeOK /\ SlotHasExchange))
<1> SUFFICES ASSUME ~InProcess PROVE Spec => [](TypeOK /\ SlotHasExchange)
  BY Zenon
<1>1. Inv => TypeOK /\ SlotHasExchange
  BY Zenon DEF Inv, AllBacked, SlotHasExchange
<1> QED BY InitInv, StepInv, <1>1, PTL DEF Spec
-----------------------------------------------------------------------------
(***************************************************************************)
(* Dials held on the membership exchange.  What a handler owes a pair with   *)
(* held dials is said of the slots s, the held dials h and the armed redials  *)
(* d it has come to, and of the sync set it leaves.                           *)
(***************************************************************************)
MKey(pq) == <<pq[1], pq[2], "membership">>
RKey(pq) == <<pq[1], pq[2], "records">>
Armed(d, k) == \E r \in SyncReason : d[<<k, r>>] > 0

Owed(s, h, d, pq) ==
    h[pq] # <<>> => /\ MKey(pq) \in Key /\ RKey(pq) \in Key /\ Synced(MKey(pq))
                    /\ IsRunning(s[MKey(pq)]) \/ Armed(d, MKey(pq))

\* Dials are held only while the membership store is in the sync set: out of
\* it a redial that fires dials nothing, and what it was to release would stay.
HInv ==
    /\ Inv
    /\ \A pq \in Pair : held[pq] # <<>> =>
         /\ MKey(pq) \in Key /\ RKey(pq) \in Key /\ "membership" \in syncing[pq[1]]
         /\ IsRunning(slot[MKey(pq)]) \/ Armed(due, MKey(pq))

\* What the pair of k may lack when k is about to be dialed or released.
ButFor(s, d, k) ==
    \A pq \in Pair :
        \/ Owed(s, held, d, pq)
        \/ k = MKey(pq) /\ (held[pq] # <<>> => RKey(pq) \in Key /\ Synced(k))

\* A dial leaves running what runs, and the pair it is for, if synced, runs.
LEMMA DialRuns ==
    ASSUME NEW s \in Slots, NEW k \in Key, NEW r \in SyncReason
    PROVE  /\ \A j \in Key : IsRunning(s[j]) => IsRunning(DialSlots(s, k, r)[j])
           /\ Synced(k) => IsRunning(DialSlots(s, k, r)[k])
<1>1. ReasonOf(r) # "Idle"
  BY Zenon DEF ReasonOf, SyncReason
<1>2. IsRunning(StartConnect(s[k], ReasonOf(r)))
  BY <1>1, Zenon DEF StartConnect, IsRunning, Slots, PeerStates
<1>3. CASE Synced(k)
  <2>1. DialSlots(s, k, r) = [s EXCEPT ![k] = StartConnect(s[k], ReasonOf(r))]
    BY <1>3, Zenon DEF DialSlots
  <2> QED BY <1>2, <2>1, Zenon DEF Slots
<1>4. CASE ~Synced(k)
  BY <1>4, Zenon DEF DialSlots
<1> QED BY <1>3, <1>4, Zenon

\* An ask holds a dial only on a membership exchange that runs, or that it
\* starts, of a store in the sync set.
LEMMA SyncWithOwes ==
    ASSUME NEW s, NEW cs, NEW d, Good(s, cs), NEW k \in Key, NEW r \in SyncReason,
           held \in [Pair -> Seq(SyncReason)], SyncWith(s, cs, k, r), ButFor(s, d, k)
    PROVE  \A pq \in Pair : Owed(slot', held', d, pq)
<1> DEFINE pair == <<k[1], k[2]>>
           first == <<k[1], k[2], "membership">>
           waits == k[3] = "records" /\ first \in Key /\ (IsRunning(s[first]) \/ Starts(s, first))
<1>s. s \in Slots
  BY Zenon DEF Good
<1>1. CASE ~waits
  <2>1. slot' = DialSlots(s, k, r) /\ held' = held
    BY <1>1, Zenon DEF SyncWith, Dial
  <2>2. ASSUME NEW pq \in Pair PROVE Owed(slot', held', d, pq)
    <3>1. CASE Owed(s, held, d, pq)
      BY <3>1, <2>1, <1>s, DialRuns, Zenon DEF Owed
    <3>2. CASE k = MKey(pq) /\ (held[pq] # <<>> => RKey(pq) \in Key /\ Synced(k))
      BY <3>2, <2>1, <1>s, DialRuns, Zenon DEF Owed
    <3> QED BY <3>1, <3>2, Zenon DEF ButFor
  <2> QED BY <2>2, Zenon
<1>2. CASE waits
  <2>1. pair \in Pair /\ first \in Key /\ first = MKey(pair) /\ k = RKey(pair)
    BY <1>2 DEF Pair, Key, MKey, RKey
  <2>2. held' = [held EXCEPT ![pair] = Append(@, r)]
    BY <1>2, Zenon DEF SyncWith
  <2>3. Synced(first)
    BY <1>2, <2>1, Zenon DEF Good, Starts, IsRunning
  <2>4. (slot' = s /\ IsRunning(s[first])) \/ slot' = DialSlots(s, first, r)
    BY <1>2, Zenon DEF SyncWith, Dial
  <2>5. IsRunning(slot'[first]) /\ \A j \in Key : IsRunning(s[j]) => IsRunning(slot'[j])
    BY <1>s, <2>1, <2>3, <2>4, DialRuns, Zenon
  <2>6. ASSUME NEW pq \in Pair PROVE Owed(slot', held', d, pq)
    <3>1. CASE pq = pair
      BY <3>1, <2>1, <2>3, <2>5, Zenon DEF Owed
    <3>2. CASE pq # pair
      <4>1. held'[pq] = held[pq]
        BY <3>2, <2>2, Zenon
      <4>2. k # MKey(pq)
        BY <1>2 DEF MKey
      <4>3. Owed(s, held, d, pq)
        BY <4>2, Zenon DEF ButFor
      <4> QED BY <4>1, <4>3, <2>5, Zenon DEF Owed
    <3> QED BY <3>1, <3>2, Zenon
  <2> QED BY <2>6, Zenon
<1> QED BY <1>1, <1>2, Zenon

\* The release of the dials held on k leaves none held there.
LEMMA ReleaseOwes ==
    ASSUME NEW s, NEW cs, NEW d, Good(s, cs), NEW k \in Key,
           held \in [Pair -> Seq(SyncReason)], ReleaseHeld(s, cs, k),
           \A pq \in Pair : \/ Owed(s, held, d, pq)
                            \/ k = MKey(pq) /\ (held[pq] # <<>> => RKey(pq) \in Key)
    PROVE  \A pq \in Pair : Owed(slot', held', d, pq)
<1> DEFINE pair == <<k[1], k[2]>>
           rec == <<k[1], k[2], "records">>
           rs == held[pair]
           none == k[3] # "membership" \/ rec \notin Key \/ rs = <<>>
<1>s. s \in Slots
  BY Zenon DEF Good
<1>1. CASE none
  <2>1. slot' = s /\ held' = held
    BY <1>1, Zenon DEF ReleaseHeld
  <2>2. ASSUME NEW pq \in Pair, k = MKey(pq), held[pq] # <<>> => RKey(pq) \in Key
        PROVE  held[pq] = <<>>
    <3>1. pair = pq /\ rec = RKey(pq) /\ k[3] = "membership"
      BY <2>2 DEF MKey, RKey, Pair
    <3> QED BY <1>1, <2>2, <3>1, Zenon
  <2> QED BY <2>1, <2>2, Zenon DEF Owed
<1>2. CASE ~none
  <2>1. pair \in Pair /\ rec \in Key /\ k = MKey(pair)
    BY <1>2 DEF Pair, Key, MKey
  <2>2. rs \in Seq(SyncReason) /\ rs # <<>>
    BY <1>2, <2>1, Zenon
  <2> DEFINE h == Head(rs)
             first == DialSlots(s, rec, h)
             queues == \E i \in 2 .. Len(rs) : rs[i] # "Resync"
  <2>3. h \in SyncReason
    BY <2>2
  <2>4. /\ held' = [held EXCEPT ![pair] = <<>>]
        /\ slot' = IF Synced(rec) THEN [first EXCEPT ![rec].resync = @ \/ queues] ELSE s
    BY <1>2, Zenon DEF ReleaseHeld
  <2>5. first \in Slots
    BY <1>s, <2>1, <2>3, SlotTypes, Zenon DEF DialSlots, Slots, ReasonOf, SyncReason
  <2>6. \A j \in Key : slot'[j].state \in {first[j].state, s[j].state}
    BY <1>s, <2>1, <2>4, <2>5, Zenon DEF Slots, PeerStates
  <2>7. \A j \in Key : IsRunning(s[j]) => IsRunning(slot'[j])
    BY <1>s, <2>1, <2>3, <2>6, DialRuns, Zenon DEF IsRunning
  <2>8. ASSUME NEW pq \in Pair PROVE Owed(slot', held', d, pq)
    <3>1. CASE pq = pair
      BY <3>1, <2>1, <2>4, Zenon DEF Owed
    <3>2. CASE pq # pair
      <4>1. held'[pq] = held[pq]
        BY <3>2, <2>4, Zenon
      <4>2. k # MKey(pq)
        BY <3>2 DEF MKey, Pair
      <4> QED BY <4>1, <4>2, <2>7, Zenon DEF Owed
    <3> QED BY <3>1, <3>2, Zenon
  <2> QED BY <2>8, Zenon
<1> QED BY <1>1, <1>2, Zenon

\* A handler that has changed only the slot of k owes every other pair what
\* it was owed.
LEMMA OthersOwed ==
    ASSUME HInv, UNCHANGED syncing, NEW k \in Key, NEW s,
           \A j \in Key : j # k => s[j] = slot[j]
    PROVE  ButFor(s, due, k)
<1> SUFFICES ASSUME NEW pq \in Pair
             PROVE  \/ Owed(s, held, due, pq)
                    \/ k = MKey(pq) /\ (held[pq] # <<>> => RKey(pq) \in Key /\ Synced(k))
  BY Zenon DEF ButFor
<1>1. held[pq] # <<>> => Synced(MKey(pq))
  BY Zenon DEF HInv, Synced, MKey
<1> QED BY <1>1, Zenon DEF HInv, Owed

\* What the slots, the held dials and the redials owe is the invariant.
LEMMA OwedIsHeld ==
    ASSUME Inv', \A pq \in Pair : Owed(slot', held', due', pq)
    PROVE  HInv'
BY Zenon DEF HInv, Owed, Synced, MKey, RKey, Armed

\* The invariant as what is owed, where the sync set does not shrink.
LEMMA HeldIsOwed ==
    ASSUME HInv, \A pq \in Pair : "membership" \in syncing[pq[1]] => "membership" \in syncing'[pq[1]]
    PROVE  \A pq \in Pair : Owed(slot, held, due, pq)
BY Zenon DEF HInv, Owed, Synced, MKey

\* A handler of an ended exchange dials the queued ask, leaves the pair to the
\* exchange that superseded this one, arms a redial, or releases what is held.
LEMMA ActorOwes ==
    ASSUME HInv, NEW i \in Conn, ActorStep(i)
    PROVE  \A pq \in Pair : Owed(slot', held', due', pq)
<1> DEFINE c == conn[i]
<1>1. Inv /\ i \in Open(conn) /\ c \in ConnRec /\ UNCHANGED syncing
  BY OpenIsRec, Shape, Zenon DEF HInv, Inv, ActorStep, DialAborted, DialFinished, AcceptFinished
<1>2. DialerKey(c) \in Key /\ AcceptorKey(c) \in Key /\ c.reason \in SyncReason
  BY <1>1, KeysOfConn, Zenon DEF ConnRec
<1>3. slot \in Slots /\ held \in [Pair -> Seq(SyncReason)]
  BY <1>1, Shape, Zenon DEF Inv
<1>r. "Resync" \in SyncReason
  BY Zenon DEF SyncReason
<1>f. ASSUME NEW k \in Key, NEW s, NEW cs, Good(s, cs), due' = due,
             \A j \in Key : j # k => s[j] = slot[j],
             \/ Synced(k) /\ SyncWith(s, cs, k, "Resync")
             \/ IsRunning(s[k]) /\ slot' = s /\ UNCHANGED held
             \/ ReleaseHeld(s, cs, k)
      PROVE  \A pq \in Pair : Owed(slot', held', due', pq)
  <2>1. ButFor(s, due, k)
    BY <1>1, <1>f, OthersOwed, Zenon
  <2>2. CASE SyncWith(s, cs, k, "Resync")
    BY <1>3, <1>r, <1>f, <2>1, <2>2, SyncWithOwes, Zenon
  <2>3. CASE IsRunning(s[k]) /\ slot' = s /\ UNCHANGED held
    BY <1>f, <2>1, <2>3, Zenon DEF ButFor, Owed
  <2>4. CASE ReleaseHeld(s, cs, k)
    <3>1. \A pq \in Pair : \/ Owed(s, held, due, pq)
                           \/ k = MKey(pq) /\ (held[pq] # <<>> => RKey(pq) \in Key)
      BY <2>1, Zenon DEF ButFor
    <3> QED BY <1>3, <1>f, <2>4, <3>1, ReleaseOwes, Zenon
  <2> QED BY <1>f, <2>2, <2>3, <2>4, Zenon
<1>4. CASE DialAborted(i)
  <2> DEFINE k == DialerKey(c)
             f == AbortConnect(slot[k], c.reason)
             s == IF Synced(k) THEN [slot EXCEPT ![k] = f] ELSE slot
             n == streak[k] + 1
             kr == <<k, c.reason>>
  <2>1. f \in PeerStates /\ f.state \in {"Idle", slot[k].state} /\ f.state # c.reason
    BY <1>2, <1>3, SlotTypes, FinishState, Zenon DEF Slots
  <2>2. Good(s, DialOver(i))
    BY <1>1, <1>2, <2>1, DialEnded, Zenon
  <2>3. \A j \in Key : j # k => s[j] = slot[j]
    BY <1>3, Zenon DEF Slots
  <2>4. CASE Exhausted(n)
    <3>1. due' = due /\ \/ IsRunning(s[k]) /\ slot' = s /\ UNCHANGED held
                        \/ ReleaseHeld(s, DialOver(i), k)
      BY <1>4, <2>4, Zenon DEF DialAborted
    <3> QED BY <1>2, <1>f, <2>2, <2>3, <3>1, Zenon
  <2>5. CASE ~Exhausted(n)
    <3>1. due' = [due EXCEPT ![kr] = @ + 1] /\ slot' = s /\ held' = held
      BY <1>4, <2>5, Zenon DEF DialAborted
    <3>2. kr \in Key \X SyncReason /\ due \in [Key \X SyncReason -> Nat]
      BY <1>1, <1>2, Zenon DEF Inv, TypeOK
    <3>3. due'[kr] > 0 /\ \A x \in Key \X SyncReason : due'[x] >= due[x]
      <4> HIDE DEF kr
      <4> QED BY <3>1, <3>2
    <3>4. Armed(due', k) /\ \A j \in Key : Armed(due, j) => Armed(due', j)
      <4>1. Armed(due', k)
        BY <1>2, <3>3, Zenon DEF Armed
      <4>2. ASSUME NEW j \in Key, NEW r \in SyncReason, due[<<j, r>>] > 0 PROVE due'[<<j, r>>] > 0
        <5>1. <<j, r>> \in Key \X SyncReason /\ due[<<j, r>>] \in Nat /\ due'[<<j, r>>] >= due[<<j, r>>]
          BY <3>2, <3>3, Zenon
        <5>2. due'[<<j, r>>] \in Nat
          BY <3>1, <3>2
        <5> HIDE DEF kr
        <5> QED BY <4>2, <5>1, <5>2
      <4> QED BY <4>1, <4>2, Zenon DEF Armed
    <3>5. ButFor(s, due, k)
      BY <1>1, <1>2, <2>3, OthersOwed, Zenon
    <3> HIDE DEF s, k
    <3> QED BY <3>1, <3>4, <3>5, <1>2, Zenon DEF ButFor, Owed, k
  <2> QED BY <2>4, <2>5, Zenon
<1>5. CASE DialFinished(i)
  <2> DEFINE k == DialerKey(c)
             f == Finish(slot[k], c.reason)
             s == IF Synced(k) THEN [slot EXCEPT ![k] = f] ELSE slot
  <2>1. f \in PeerStates /\ f.state \in {"Idle", slot[k].state} /\ f.state # c.reason
    BY <1>2, <1>3, SlotTypes, FinishState, Zenon DEF Slots
  <2>2. Good(s, DialOver(i))
    BY <1>1, <1>2, <2>1, DialEnded, Zenon
  <2>3. \A j \in Key : j # k => s[j] = slot[j]
    BY <1>3, Zenon DEF Slots
  <2>4. /\ due' = due
        /\ \/ Synced(k) /\ SyncWith(s, DialOver(i), k, "Resync")
           \/ IsRunning(s[k]) /\ slot' = s /\ UNCHANGED held
           \/ ReleaseHeld(s, DialOver(i), k)
    BY <1>5, Zenon DEF DialFinished, OnSyncFinished
  <2> QED BY <1>2, <1>f, <2>2, <2>3, <2>4, Zenon
<1>6. CASE AcceptFinished(i) /\ c.accept # "Unnamed"
  <2> DEFINE k == AcceptorKey(c)
             f == Finish(slot[k], "Accept")
             s == IF Synced(k) THEN [slot EXCEPT ![k] = f] ELSE slot
  <2>1. f \in PeerStates /\ f.state \in {"Idle", slot[k].state} /\ f.state # "Accept"
    BY <1>2, <1>3, SlotTypes, FinishState, Zenon DEF Slots
  <2>2. Good(s, AcceptOver(i))
    BY <1>1, <1>2, <2>1, AcceptEnded, Zenon
  <2>3. \A j \in Key : j # k => s[j] = slot[j]
    BY <1>3, Zenon DEF Slots
  <2>4. /\ due' = due
        /\ \/ Synced(k) /\ SyncWith(s, AcceptOver(i), k, "Resync")
           \/ IsRunning(s[k]) /\ slot' = s /\ UNCHANGED held
           \/ ReleaseHeld(s, AcceptOver(i), k)
    BY <1>6, Zenon DEF AcceptFinished, OnSyncFinished
  <2> QED BY <1>2, <1>f, <2>2, <2>3, <2>4, Zenon
<1>7. CASE AcceptFinished(i) /\ c.accept = "Unnamed"
  <2>1. slot' = slot /\ held' = held /\ due' = due
    BY <1>7, Zenon DEF AcceptFinished
  <2> QED BY <1>1, <2>1, HeldIsOwed, Zenon
<1> QED BY <1>4, <1>5, <1>6, <1>7, Zenon DEF ActorStep

\* A membership store that leaves releases what is held on it; a record store
\* that leaves drops its held dials.
LEMMA LeaveOwes ==
    ASSUME HInv, NEW p \in Party, NEW n \in Stores, Leave(p, n)
    PROVE  \A pq \in Pair : Owed(slot', held', due', pq)
<1> DEFINE s == [k \in Key |-> IF k[1] = p /\ k[3] = n THEN IdlePeer ELSE slot[k]]
<1>1. /\ slot \in Slots /\ conn \in Conns /\ held \in [Pair -> Seq(SyncReason)]
      /\ syncing \in [Party -> SUBSET Stores] /\ due' = due
      /\ syncing' = [syncing EXCEPT ![p] = @ \ {n}]
  BY Shape, Zenon DEF HInv, Inv, TypeOK, Leave
<1>2. ASSUME NEW pq \in Pair, pq[1] # p \/ n = "records" PROVE Owed(s, held, due, pq)
  <2>1. pq[1] \in Party
    BY Zenon DEF Pair
  <2>2. "membership" \in syncing[pq[1]] => "membership" \in syncing'[pq[1]]
    BY <1>1, <1>2, <2>1, Zenon
  <2>3. MKey(pq) \in Key => s[MKey(pq)] = slot[MKey(pq)]
    BY <1>2, Zenon DEF MKey
  <2>4. MKey(pq)[3] = "membership" /\ MKey(pq)[1] = pq[1]
    BY Zenon DEF MKey
  <2> QED BY <2>2, <2>3, <2>4, Zenon DEF HInv, Owed, Synced
<1>3. CASE n = "records"
  <2>1. slot' = s /\ held' = [pq \in Pair |-> IF pq[1] = p THEN <<>> ELSE held[pq]]
    BY <1>3, Zenon DEF Leave
  <2> QED BY <1>1, <1>2, <1>3, <2>1, Zenon DEF Owed
<1>4. CASE n # "records"
  <2>1. PICK q \in Party \ {p} : ReleaseHeld(s, conn, <<p, q, n>>)
    BY <1>4, Zenon DEF Leave
  <2>2. n = "membership" /\ <<p, q, n>> \in Key
    BY <1>4, StoresAssumption, Zenon DEF Key
  <2>3. ASSUME NEW pq \in Pair, pq[1] = p PROVE <<p, q, n>> = MKey(pq)
    <3>1. pq[2] \in Party /\ pq[2] # p
      BY <2>3, Zenon DEF Pair
    <3>2. pq[2] = q
      BY <3>1, PartyAssumption, Zenon
    <3> QED BY <2>2, <2>3, <3>2, Zenon DEF MKey
  <2>4. \A pq \in Pair : held[pq] # <<>> => RKey(pq) \in Key
    BY Zenon DEF HInv
  <2>5. Good(s, conn)
    BY <1>1, LeaveGood, Zenon DEF HInv
  <2> HIDE DEF s
  <2> QED BY <1>1, <1>2, <2>1, <2>2, <2>3, <2>4, <2>5, ReleaseOwes, Zenon
<1> QED BY <1>3, <1>4, Zenon

\* Every step keeps the held dials awaited.
LEMMA StepHeld == HInv /\ [Next]_vars => HInv'
<1> SUFFICES ASSUME HInv, [Next]_vars PROVE HInv'
  BY Zenon
<1>i. Inv /\ Inv'
  BY StepInv, Zenon DEF HInv
<1>t. slot \in Slots /\ conn \in Conns /\ held \in [Pair -> Seq(SyncReason)] /\ TypeOK
  BY <1>i, Shape, Zenon DEF Inv
<1> SUFFICES ASSUME TRUE PROVE \A pq \in Pair : Owed(slot', held', due', pq)
  BY <1>i, OwedIsHeld, Zenon
<1>g. UNCHANGED syncing => Good(slot, conn)
  BY <1>i, <1>t, Zenon DEF Inv, OffIdle, Good, Synced
<1>o. UNCHANGED syncing => \A pq \in Pair : Owed(slot, held, due, pq)
  BY HeldIsOwed, Zenon
<1>1. ASSUME NEW k \in Key, NEW r \in SyncReason, Ask(k, r) \/ Report(k)
      PROVE  \A pq \in Pair : Owed(slot', held', due', pq)
  <2>1. UNCHANGED <<syncing, due>>
    BY <1>1, Zenon DEF Ask, Report
  <2>2. \/ \E q \in SyncReason : SyncWith(slot, conn, k, q)
        \/ UNCHANGED <<slot, held>>
    BY <1>1, Zenon DEF Ask, Report, SyncReason
  <2>3. ButFor(slot, due, k)
    BY <1>o, <2>1, Zenon DEF ButFor
  <2> QED BY <1>t, <1>g, <1>o, <2>1, <2>2, <2>3, SyncWithOwes, Zenon
<1>2. ASSUME NEW k \in Key, NEW r \in SyncReason, Redial(k, r)
      PROVE  \A pq \in Pair : Owed(slot', held', due', pq)
  <2>1. UNCHANGED syncing /\ due' = [due EXCEPT ![<<k, r>>] = @ - 1] /\ SyncWith(slot, conn, k, r)
    BY <1>2, Zenon DEF Redial
  <2>2. \A j \in Key : j # k /\ Armed(due, j) => Armed(due', j)
    BY <1>t, <2>1, Zenon DEF Armed, TypeOK
  <2>3. ButFor(slot, due, k)
    BY <2>1, OthersOwed, Zenon
  <2>4. ButFor(slot, due', k)
    <3> SUFFICES ASSUME NEW pq \in Pair
                 PROVE  \/ Owed(slot, held, due', pq)
                        \/ k = MKey(pq) /\ (held[pq] # <<>> => RKey(pq) \in Key /\ Synced(k))
      BY Zenon DEF ButFor
    <3>1. Owed(slot, held, due, pq)
      BY <1>o, <2>1, Zenon
    <3> QED BY <2>2, <3>1, Zenon DEF Owed
  <2> QED BY <1>t, <1>g, <2>1, <2>4, SyncWithOwes, Zenon
<1>3. ASSUME NEW p \in Party, NEW n \in Stores, Write(p, n)
      PROVE  \A pq \in Pair : Owed(slot', held', due', pq)
  BY <1>3, <1>o, Zenon DEF Write, engine
<1>4. ASSUME NEW p \in Party, NEW n \in Stores, StartSync(p, n)
      PROVE  \A pq \in Pair : Owed(slot', held', due', pq)
  <2>1. due' = due /\ \A x \in Party : syncing[x] \subseteq syncing'[x]
    BY <1>4, <1>t, Zenon DEF StartSync, TypeOK
  <2>2. \A pq \in Pair : Owed(slot, held, due, pq)
    BY <2>1, HeldIsOwed, Zenon DEF Pair
  <2>3. Good(slot, conn)
    BY <1>i, <1>t, <2>1, Zenon DEF Good, Inv, OffIdle, Synced, Key
  <2>4. \/ UNCHANGED <<slot, held, conn>>
        \/ \E q \in Party \ {p} : SyncWith(slot, conn, <<p, q, n>>, "DirectJoin")
    BY <1>4, Zenon DEF StartSync
  <2>5. CASE UNCHANGED <<slot, held, conn>>
    BY <2>1, <2>2, <2>5, Zenon
  <2>6. ASSUME NEW q \in Party \ {p}, SyncWith(slot, conn, <<p, q, n>>, "DirectJoin")
        PROVE  \A pq \in Pair : Owed(slot', held', due', pq)
    <3>1. <<p, q, n>> \in Key /\ "DirectJoin" \in SyncReason
      BY Zenon DEF Key, SyncReason
    <3>2. ButFor(slot, due, <<p, q, n>>)
      BY <2>2, Zenon DEF ButFor
    <3> QED BY <1>t, <2>1, <2>3, <2>6, <3>1, <3>2, SyncWithOwes, Zenon
  <2> QED BY <2>4, <2>5, <2>6, Zenon
<1>5. ASSUME NEW i \in Conn,
             SendInit(i) \/ Complete(i) \/ ReadAnswer(i) \/ HalfComplete(i)
             \/ RefuseAgain(i) \/ LoseDialer(i) \/ LoseAcceptor(i)
      PROVE  \A pq \in Pair : Owed(slot', held', due', pq)
  <2>1. UNCHANGED engine
    BY <1>5, Zenon DEF SendInit, Complete, ReadAnswer, HalfComplete, RefuseAgain, LoseDialer, LoseAcceptor
  <2> QED BY <2>1, <1>o, Zenon DEF engine
<1>6. ASSUME NEW i \in Conn, Decide(i) PROVE \A pq \in Pair : Owed(slot', held', due', pq)
  <2>1. UNCHANGED <<syncing, held, due>>
    BY <1>6, Zenon DEF Decide
  <2>2. slot' = slot \/ slot' = [slot EXCEPT ![AcceptorKey(conn[i])] = Accept(@)]
    BY <1>6, Zenon DEF Decide
  <2>3. \A j \in Key : IsRunning(slot[j]) => IsRunning(slot'[j])
    BY <1>t, <2>2 DEF Slots, Accept, IsRunning
  <2> QED BY <1>o, <2>1, <2>3, Zenon DEF Owed
<1>7. ASSUME NEW i \in Conn, ActorStep(i) PROVE \A pq \in Pair : Owed(slot', held', due', pq)
  BY <1>7, ActorOwes, Zenon
<1>8. ASSUME NEW p \in Party, NEW n \in Stores, Leave(p, n)
      PROVE  \A pq \in Pair : Owed(slot', held', due', pq)
  BY <1>8, LeaveOwes, Zenon
<1>9. CASE UNCHANGED vars
  BY <1>9, <1>o, Zenon DEF vars, engine
<1>10. ASSUME NEW k \in Key, Report(k) PROVE \A pq \in Pair : Owed(slot', held', due', pq)
  <2>1. "Resync" \in SyncReason
    BY Zenon DEF SyncReason
  <2> QED BY <1>1, <1>10, <2>1, Zenon
<1> QED BY <1>1, <1>2, <1>3, <1>4, <1>5, <1>6, <1>7, <1>8, <1>9, <1>10, Zenon DEF Next, TaskStep

\* Whatever is lost, refused, superseded, left or redialed, between nodes or
\* inside one: a dial of a record store is held only while the membership
\* exchange it waits for runs or is to be redialed (sync_with_identity,
\* release_held).
THEOREM HeldAlwaysAwaited == Spec => []HeldIsAwaited
<1>1. Init => HInv
  <2>1. ASSUME Init PROVE \A pq \in Pair : held[pq] = <<>>
    BY <2>1, Zenon DEF Init
  <2> QED BY <2>1, InitInv, Zenon DEF HInv
<1>2. HInv => HeldIsAwaited
  BY Zenon DEF HInv, HeldIsAwaited, MKey, Armed
<1> QED BY <1>1, <1>2, StepHeld, PTL DEF Spec

-----------------------------------------------------------------------------
(***************************************************************************)
(* A record store is not dialed beside the membership exchange.              *)
(***************************************************************************)

\* A connection whose dialer has not sent Init has no acceptor.
Unsent(c) == c # Closed /\ c.dial = "connecting" => c.accept = "none" /\ c.snap = -1

FInv == Inv /\ \A i \in Conn : Unsent(conn[i])

\* No connection of cs is a dial that was not there before the step.
NoDial(cs) ==
    \A i \in Conn : cs[i] = conn[i] \/ cs[i] = Closed \/ cs[i].dial # "connecting"

\* A new dial has no acceptor, and is of a record store only where the slots s
\* have no membership exchange running.
Follows(s, c) ==
    /\ c.accept = "none" /\ c.snap = -1
    /\ c.store = "records" /\ "membership" \in Stores =>
         ~IsRunning(s[<<c.from, c.to, "membership">>])

DialsFollow(s, cs) ==
    \A i \in Conn : \/ cs[i] = conn[i] \/ cs[i] = Closed \/ cs[i].dial # "connecting"
                    \/ Follows(s, cs[i])

\* A dial of a store that does not wait, or of a record store when no
\* membership exchange runs, follows.
LEMMA DialFollows ==
    ASSUME NEW s \in Slots, NEW cs \in Conns, NoDial(cs), NEW k \in Key, NEW r \in SyncReason,
           Room(s, cs, k),
           k[3] = "records" /\ "membership" \in Stores => ~IsRunning(s[<<k[1], k[2], "membership">>])
    PROVE  DialsFollow(DialSlots(s, k, r), DialConns(s, cs, k, r))
<1> DEFINE sd == DialSlots(s, k, r)
           cd == DialConns(s, cs, k, r)
           t == DialTask(k, r)
           n == CHOOSE i \in Conn \ Open(cs) : TRUE
           first == <<k[1], k[2], "membership">>
<1>1. CASE ~Starts(s, k)
  <2>1. cd = cs
    BY <1>1, Zenon DEF DialConns
  <2> QED BY <2>1, Zenon DEF NoDial, DialsFollow
<1>2. CASE Starts(s, k)
  <2>1. n \in Conn \ Open(cs) /\ cd = [cs EXCEPT ![n] = t]
    BY <1>2, Zenon DEF Room, Open, DialConns
  <2>2. /\ t.accept = "none" /\ t.snap = -1 /\ t.store = k[3] /\ t.from = k[1] /\ t.to = k[2]
    BY Zenon DEF DialTask
  <2>3. k[3] = "records" => k # first /\ (first \in Key => sd[first] = s[first])
    BY DEF DialSlots, Slots
  <2>4. "membership" \in Stores => first \in Key
    BY Zenon DEF Key
  <2>5. Follows(sd, t)
    BY <2>2, <2>3, <2>4, Zenon DEF Follows
  <2> HIDE DEF t, n, sd, cd
  <2>6. cd[n] = t /\ \A j \in Conn : j # n => cd[j] = cs[j]
    BY <2>1, Zenon DEF Conns
  <2> SUFFICES ASSUME NEW j \in Conn
               PROVE  \/ cd[j] = conn[j] \/ cd[j] = Closed \/ cd[j].dial # "connecting"
                      \/ Follows(sd, cd[j])
    BY Zenon DEF DialsFollow, sd, cd
  <2>7. CASE j = n
    BY <2>5, <2>6, <2>7, Zenon
  <2>8. CASE j # n
    BY <2>6, <2>8, Zenon DEF NoDial
  <2> QED BY <2>7, <2>8, Zenon
<1> QED BY <1>1, <1>2, Zenon

\* sync_with_identity dials the membership store first.
LEMMA SyncWithFollows ==
    ASSUME NEW s \in Slots, NEW cs \in Conns, NoDial(cs), NEW k \in Key, NEW r \in SyncReason,
           SyncWith(s, cs, k, r)
    PROVE  DialsFollow(slot', conn')
<1> DEFINE first == <<k[1], k[2], "membership">>
           waits == k[3] = "records" /\ first \in Key /\ (IsRunning(s[first]) \/ Starts(s, first))
<1>1. CASE ~waits
  <2>1. Room(s, cs, k) /\ slot' = DialSlots(s, k, r) /\ conn' = DialConns(s, cs, k, r)
    BY <1>1, Zenon DEF SyncWith, Dial
  <2>2. k[3] = "records" /\ "membership" \in Stores => ~IsRunning(s[first])
    BY <1>1, Zenon DEF Key
  <2> QED BY <2>1, <2>2, DialFollows, Zenon
<1>2. CASE waits
  <2>1. \/ slot' = s /\ conn' = cs
        \/ Room(s, cs, first) /\ slot' = DialSlots(s, first, r) /\ conn' = DialConns(s, cs, first, r)
    BY <1>2, Zenon DEF SyncWith, Dial
  <2>2. CASE slot' = s /\ conn' = cs
    BY <2>2, Zenon DEF NoDial, DialsFollow
  <2>3. first \in Key /\ first[3] # "records"
    BY <1>2, Zenon
  <2> HIDE DEF first
  <2> QED BY <2>1, <2>2, <2>3, DialFollows, Zenon
<1> QED BY <1>1, <1>2, Zenon

\* The connections with a dial's task among them are connections.
LEMMA TaskType ==
    ASSUME NEW s, NEW cs \in Conns, NEW k \in Key, NEW r \in SyncReason
    PROVE  DialConns(s, cs, k, r) \in Conns
<1>1. DialTask(k, r) \in ConnRec
  BY DEF DialTask, ConnRec, Key, ReasonOf, SyncReason
<1> QED BY <1>1, Zenon DEF DialConns, Conns

\* release_held runs once the membership pair is free.
LEMMA ReleaseFollows ==
    ASSUME NEW s \in Slots, NEW cs \in Conns, NoDial(cs), NEW k \in Key,
           held \in [Pair -> Seq(SyncReason)], ReleaseHeld(s, cs, k), ~IsRunning(s[k])
    PROVE  DialsFollow(slot', conn')
<1> DEFINE pair == <<k[1], k[2]>>
           rec == <<k[1], k[2], "records">>
           rs == held[pair]
           none == k[3] # "membership" \/ rec \notin Key \/ rs = <<>>
<1>1. CASE none
  <2>1. slot' = s /\ conn' = cs
    BY <1>1, Zenon DEF ReleaseHeld
  <2> QED BY <2>1, Zenon DEF NoDial, DialsFollow
<1>2. CASE ~none
  <2>1. pair \in Pair /\ rec \in Key /\ k = <<rec[1], rec[2], "membership">>
    BY <1>2 DEF Pair, Key
  <2>2. rs \in Seq(SyncReason) /\ rs # <<>>
    BY <1>2, <2>1, Zenon
  <2> DEFINE h == Head(rs)
             first == DialSlots(s, rec, h)
             task == DialConns(s, cs, rec, h)
             queues == \E i \in 2 .. Len(rs) : rs[i] # "Resync"
  <2>3. h \in SyncReason
    BY <2>2
  <2>4. /\ Room(s, cs, rec) /\ conn' = task
        /\ slot' = IF Synced(rec) THEN [first EXCEPT ![rec].resync = @ \/ queues] ELSE s
    BY <1>2, Zenon DEF ReleaseHeld
  <2>5. DialsFollow(first, task)
    BY <2>1, <2>3, <2>4, DialFollows, Zenon
  <2>6. first \in Slots
    BY <2>1, <2>3, SlotTypes, Zenon DEF DialSlots, Slots, ReasonOf, SyncReason
  <2>7. ~Synced(rec) => first = s
    BY Zenon DEF DialSlots
  <2>8. \A j \in Key : IsRunning(slot'[j]) = IsRunning(first[j])
    BY <2>1, <2>4, <2>6, <2>7, Zenon DEF Slots, PeerStates, IsRunning
  <2>9. task \in Conns
    BY <2>1, <2>3, TaskType, Zenon
  <2>10. ASSUME NEW i \in Conn, Follows(first, task[i]), task[i] # Closed PROVE Follows(slot', task[i])
    <3>1. task[i] \in ConnRec
      BY <2>9, <2>10, Zenon DEF Conns
    <3>2. "membership" \in Stores => <<task[i].from, task[i].to, "membership">> \in Key
      BY <3>1, Zenon DEF ConnRec, Key
    <3> HIDE DEF task, first
    <3> QED BY <2>8, <2>10, <3>2, Zenon DEF Follows
  <2> HIDE DEF task, first
  <2> QED BY <2>4, <2>5, <2>10, Zenon DEF DialsFollow
<1> QED BY <1>1, <1>2, Zenon

\* No step of a task opens a dial: it changes one connection, to one that is
\* closed or whose dialer has sent Init.
LEMMA TaskNoDial ==
    ASSUME FInv, NEW i \in Conn,
           SendInit(i) \/ Decide(i) \/ Complete(i) \/ ReadAnswer(i) \/ HalfComplete(i)
           \/ RefuseAgain(i) \/ LoseDialer(i) \/ LoseAcceptor(i)
    PROVE  NoDial(conn')
<1> DEFINE c == conn[i]
<1>1. i \in Open(conn) /\ c \in ConnRec /\ conn \in Conns /\ Unsent(c) /\ c # Closed
  BY OpenIsRec, Shape, Zenon DEF FInv, Inv, Open, SendInit, Decide, Complete, ReadAnswer, HalfComplete,
                          RefuseAgain, LoseDialer, LoseAcceptor
<1>2. SUFFICES conn'[i] = Closed \/ conn'[i].dial # "connecting"
  <2>1. \A j \in Conn : j # i => conn'[j] = conn[j]
    BY <1>1, Zenon DEF Conns, SendInit, Decide, Complete, ReadAnswer, HalfComplete,
                RefuseAgain, LoseDialer, LoseAcceptor
  <2> QED BY <1>2, <2>1, Zenon DEF NoDial
<1>3. CASE SendInit(i) \/ Complete(i) \/ HalfComplete(i) \/ LoseDialer(i)
  <2>1. CASE SendInit(i)
    BY <1>1, <2>1, Zenon DEF Conns, ConnRec, SendInit
  <2>2. CASE Complete(i)
    BY <1>1, <2>2, Zenon DEF Conns, ConnRec, Complete
  <2>3. CASE HalfComplete(i)
    BY <1>1, <2>3, ZenonT(40) DEF Conns, ConnRec, HalfComplete
  <2>4. CASE LoseDialer(i)
    <3>1. PICK a : conn' = [conn EXCEPT ![i].dial = "Error", ![i].accept = a,
                                        ![i].answer = "none"]
      BY <2>4, Zenon DEF LoseDialer
    <3>2. conn'[i].dial = "Error"
      BY <1>1, <3>1, Zenon DEF Conns, ConnRec
    <3> QED BY <3>2, Zenon
  <2> QED BY <1>3, <2>1, <2>2, <2>3, <2>4, Zenon
<1>4. CASE ReadAnswer(i)
  BY <1>1, <1>4, Zenon DEF Conns, ConnRec, ReadAnswer
<1>5. CASE RefuseAgain(i) \/ LoseAcceptor(i)
  <2>1. c.dial # "connecting"
    BY <1>1, <1>5, Zenon DEF Unsent, RefuseAgain, LoseAcceptor
  <2>2. CASE RefuseAgain(i)
    BY <1>1, <2>1, <2>2, Zenon DEF Conns, ConnRec, RefuseAgain
  <2>3. CASE LoseAcceptor(i)
    <3>1. PICK a : conn' = [conn EXCEPT ![i].accept = a,
                                        ![i].dial = IF @ = "sent" THEN "Error" ELSE @]
      BY <2>3, Zenon DEF LoseAcceptor
    <3>2. conn'[i].dial # "connecting"
      BY <1>1, <2>1, <3>1, Zenon DEF Conns, ConnRec
    <3> QED BY <3>2, Zenon
  <2> QED BY <1>5, <2>2, <2>3, Zenon
<1>6. CASE Decide(i)
  <2>1. c.snap \in Int /\ c.snap >= 0
    BY <1>1, <1>6, Zenon DEF Decide, ConnRec
  <2>2. c.dial # "connecting"
    BY <1>1, <2>1 DEF Unsent
  <2>3. \/ \E reason \in {"AlreadySyncing", "NotFound"} : conn' = [conn EXCEPT ![i] = Answered(c, reason)]
        \/ conn' = [conn EXCEPT ![i].accept = "serving", ![i].served = ver[<<c.to, c.store>>]]
        \/ conn' = [conn EXCEPT ![i].accept = "Error", ![i].dial = IF @ = "sent" THEN "Error" ELSE @]
    BY <1>6, Zenon DEF Decide
  <2>4. ASSUME NEW reason \in {"AlreadySyncing", "NotFound"}
        PROVE  Answered(c, reason) = Closed \/ Answered(c, reason).dial # "connecting"
    BY <1>1, <2>2, Zenon DEF Answered, Retire, ConnRec
  <2>5. CASE \E reason \in {"AlreadySyncing", "NotFound"} : conn' = [conn EXCEPT ![i] = Answered(c, reason)]
    BY <1>1, <2>4, <2>5, Zenon DEF Conns
  <2>6. CASE ~\E reason \in {"AlreadySyncing", "NotFound"} : conn' = [conn EXCEPT ![i] = Answered(c, reason)]
    BY <1>1, <2>2, <2>3, <2>6 DEF Conns, ConnRec
  <2> QED BY <2>5, <2>6, Zenon
<1> QED BY <1>3, <1>4, <1>5, <1>6, Zenon

\* Nor does the end of an exchange, before its handler goes on.
LEMMA OverNoDial ==
    ASSUME FInv, NEW i \in Open(conn)
    PROVE  /\ DialOver(i) \in Conns /\ NoDial(DialOver(i))
           /\ conn[i].accept \in AcceptResult => NoDial(AcceptOver(i))
           /\ AcceptOver(i) \in Conns
<1> DEFINE c == conn[i]
           d == [c EXCEPT !.dial = "over"]
           e == [c EXCEPT !.accept = "over"]
<1>1. i \in Conn /\ c \in ConnRec /\ conn \in Conns /\ Unsent(c) /\ c # Closed
  BY OpenIsRec, Shape, Zenon DEF FInv, Inv, Open
<1>2. d \in ConnRec /\ d.dial = "over" /\ Retire(d) \in {d, Closed}
  BY <1>1, Zenon DEF ConnRec, Retire
<1>3. e \in ConnRec /\ e.dial = c.dial /\ Retire(e) \in {e, Closed}
  BY <1>1, Zenon DEF ConnRec, Retire
<1>4. c.accept \in AcceptResult => c.dial # "connecting"
  BY <1>1, Zenon DEF Unsent, AcceptResult
<1>5. DialOver(i) = [conn EXCEPT ![i] = Retire(d)] /\ AcceptOver(i) = [conn EXCEPT ![i] = Retire(e)]
  BY Zenon DEF DialOver, AcceptOver
<1> HIDE DEF d, e
<1> QED BY <1>1, <1>2, <1>3, <1>4, <1>5 DEF NoDial, Conns

\* A handler of an ended exchange dials as sync_with_identity does, or
\* releases what was held once the pair is free.
LEMMA ActorFollows ==
    ASSUME FInv, NEW i \in Conn, ActorStep(i)
    PROVE  DialsFollow(slot', conn')
<1> DEFINE c == conn[i]
<1>1. Inv /\ i \in Open(conn) /\ c \in ConnRec
  BY OpenIsRec, Shape, Zenon DEF FInv, Inv, ActorStep, DialAborted, DialFinished, AcceptFinished
<1>2. DialerKey(c) \in Key /\ AcceptorKey(c) \in Key /\ c.reason \in SyncReason
  BY <1>1, KeysOfConn, Zenon DEF ConnRec
<1>3. slot \in Slots /\ held \in [Pair -> Seq(SyncReason)]
  BY <1>1, Shape, Zenon DEF Inv
<1>r. "Resync" \in SyncReason
  BY Zenon DEF SyncReason
<1>f. ASSUME NEW k \in Key, NEW f \in PeerStates, NEW s, NEW cs \in Conns, NoDial(cs),
             s = IF Synced(k) THEN [slot EXCEPT ![k] = f] ELSE slot,
             \/ SyncWith(s, cs, k, "Resync")
             \/ conn' = cs
             \/ ~IsRunning(s[k]) /\ ReleaseHeld(s, cs, k)
      PROVE  DialsFollow(slot', conn')
  <2>1. s \in Slots
    BY <1>3, <1>f, Zenon DEF Slots
  <2>2. CASE SyncWith(s, cs, k, "Resync")
    BY <1>r, <1>f, <2>1, <2>2, SyncWithFollows, Zenon
  <2>3. CASE conn' = cs
    BY <1>f, <2>3, Zenon DEF NoDial, DialsFollow
  <2>4. CASE ~IsRunning(s[k]) /\ ReleaseHeld(s, cs, k)
    BY <1>3, <1>f, <2>1, <2>4, ReleaseFollows, Zenon
  <2> QED BY <1>f, <2>2, <2>3, <2>4, Zenon
<1>4. CASE DialAborted(i)
  <2> DEFINE k == DialerKey(c)
             f == AbortConnect(slot[k], c.reason)
             s == IF Synced(k) THEN [slot EXCEPT ![k] = f] ELSE slot
  <2>1. f \in PeerStates
    BY <1>2, <1>3, SlotTypes, Zenon DEF Slots
  <2>2. conn' = DialOver(i) \/ (~IsRunning(s[k]) /\ ReleaseHeld(s, DialOver(i), k))
    BY <1>4, Zenon DEF DialAborted
  <2> QED BY <1>1, <1>2, <1>f, <2>1, <2>2, OverNoDial, Zenon
<1>5. CASE DialFinished(i)
  <2> DEFINE k == DialerKey(c)
             f == Finish(slot[k], c.reason)
             s == IF Synced(k) THEN [slot EXCEPT ![k] = f] ELSE slot
  <2>1. f \in PeerStates
    BY <1>2, <1>3, SlotTypes, Zenon DEF Slots
  <2>2. \/ SyncWith(s, DialOver(i), k, "Resync")
        \/ conn' = DialOver(i)
        \/ ~IsRunning(s[k]) /\ ReleaseHeld(s, DialOver(i), k)
    BY <1>5, Zenon DEF DialFinished, OnSyncFinished
  <2> QED BY <1>1, <1>2, <1>f, <2>1, <2>2, OverNoDial, Zenon
<1>6. CASE AcceptFinished(i)
  <2> DEFINE k == AcceptorKey(c)
             f == Finish(slot[k], "Accept")
             s == IF Synced(k) THEN [slot EXCEPT ![k] = f] ELSE slot
  <2>1. f \in PeerStates
    BY <1>2, <1>3, SlotTypes, Zenon DEF Slots
  <2>2. \/ SyncWith(s, AcceptOver(i), k, "Resync")
        \/ conn' = AcceptOver(i)
        \/ ~IsRunning(s[k]) /\ ReleaseHeld(s, AcceptOver(i), k)
    BY <1>6, Zenon DEF AcceptFinished, OnSyncFinished
  <2>3. c.accept \in AcceptResult
    BY <1>6, Zenon DEF AcceptFinished
  <2> QED BY <1>1, <1>2, <1>f, <2>1, <2>2, <2>3, OverNoDial, Zenon
<1> QED BY <1>4, <1>5, <1>6, Zenon DEF ActorStep

\* Every step that dials a record store does so with no membership exchange
\* running.
LEMMA StepFollows == FInv /\ [Next]_vars => DialsFollow(slot', conn')
<1> SUFFICES ASSUME FInv, [Next]_vars PROVE DialsFollow(slot', conn')
  BY Zenon
<1>t. slot \in Slots /\ conn \in Conns /\ held \in [Pair -> Seq(SyncReason)]
  BY Shape, Zenon DEF FInv, Inv
<1>n. NoDial(conn)
  BY Zenon DEF NoDial
<1>u. conn' = conn => DialsFollow(slot', conn')
  BY Zenon DEF DialsFollow
<1>1. ASSUME NEW k \in Key, NEW r \in SyncReason, Ask(k, r) \/ Redial(k, r) \/ Report(k)
      PROVE  DialsFollow(slot', conn')
  <2>1. conn' = conn \/ \E q \in SyncReason : SyncWith(slot, conn, k, q)
    BY <1>1, Zenon DEF Ask, Redial, Report, SyncReason
  <2> QED BY <1>t, <1>n, <1>u, <2>1, SyncWithFollows, Zenon
<1>2. ASSUME NEW p \in Party, NEW n \in Stores, Write(p, n) PROVE DialsFollow(slot', conn')
  BY <1>2, <1>u, Zenon DEF Write
<1>3. ASSUME NEW p \in Party, NEW n \in Stores, Leave(p, n) PROVE DialsFollow(slot', conn')
  <2> DEFINE s == [k \in Key |-> IF k[1] = p /\ k[3] = n THEN IdlePeer ELSE slot[k]]
  <2>1. CASE n = "records"
    BY <1>3, <1>u, <2>1, Zenon DEF Leave
  <2>2. CASE n # "records"
    <3>1. PICK q \in Party \ {p} : ReleaseHeld(s, conn, <<p, q, n>>)
      BY <1>3, <2>2, Zenon DEF Leave
    <3>2. <<p, q, n>> \in Key
      BY Zenon DEF Key
    <3>3. s \in Slots /\ ~IsRunning(s[<<p, q, n>>])
      BY <1>t, <3>2, Zenon DEF Slots, IdlePeer, PeerStates, SyncState, IsRunning
    <3> HIDE DEF s
    <3> QED BY <1>t, <1>n, <3>1, <3>2, <3>3, ReleaseFollows, Zenon
  <2> QED BY <2>1, <2>2, Zenon
<1>4. ASSUME NEW p \in Party, NEW n \in Stores, StartSync(p, n) PROVE DialsFollow(slot', conn')
  <2>1. conn' = conn \/ \E q \in Party \ {p} : SyncWith(slot, conn, <<p, q, n>>, "DirectJoin")
    BY <1>4, Zenon DEF StartSync
  <2>2. "DirectJoin" \in SyncReason /\ \A q \in Party \ {p} : <<p, q, n>> \in Key
    BY Zenon DEF Key, SyncReason
  <2> QED BY <1>t, <1>n, <1>u, <2>1, <2>2, SyncWithFollows, Zenon
<1>5. ASSUME NEW i \in Conn,
             SendInit(i) \/ Decide(i) \/ Complete(i) \/ ReadAnswer(i) \/ HalfComplete(i)
             \/ RefuseAgain(i) \/ LoseDialer(i) \/ LoseAcceptor(i)
      PROVE  DialsFollow(slot', conn')
  BY <1>5, TaskNoDial, Zenon DEF NoDial, DialsFollow
<1>6. ASSUME NEW i \in Conn, ActorStep(i) PROVE DialsFollow(slot', conn')
  BY <1>6, ActorFollows, Zenon
<1>7. CASE UNCHANGED vars
  BY <1>7, <1>u, Zenon DEF vars
<1>8. ASSUME NEW k \in Key, Report(k) PROVE DialsFollow(slot', conn')
  <2>1. "Resync" \in SyncReason
    BY Zenon DEF SyncReason
  <2> QED BY <1>1, <1>8, <2>1, Zenon
<1> QED BY <1>1, <1>2, <1>3, <1>4, <1>5, <1>6, <1>7, <1>8, Zenon DEF Next, TaskStep

\* No step of either party dials a record store while a membership exchange
\* with the counterpart runs there: the ask waits, and is released only once
\* the pair is free (sync_with_identity, on_sync_finished, release_held).
THEOREM RecordsNeverOvertake == Spec => RecordsFollowMembership
<1> DEFINE A == \A i \in Conn :
                  (conn'[i] # conn[i] /\ conn'[i] # Closed /\ conn'[i].dial = "connecting"
                     /\ conn'[i].store = "records" /\ "membership" \in Stores)
                  => ~IsRunning(slot'[<<conn'[i].from, conn'[i].to, "membership">>])
<1>1. Init => FInv
  BY InitInv, Zenon DEF FInv, Init, Unsent
<1>2. FInv /\ [Next]_vars => FInv'
  <2> SUFFICES ASSUME FInv, [Next]_vars PROVE FInv'
    BY Zenon
  <2>1. Inv' /\ DialsFollow(slot', conn')
    BY StepInv, StepFollows, Zenon DEF FInv
  <2> QED BY <2>1, Zenon DEF FInv, DialsFollow, Follows, Unsent
<1>3. FInv /\ [Next]_vars => A
  BY StepFollows, Zenon DEF DialsFollow, Follows
<1>4. FInv /\ [Next]_vars => [A]_vars
  BY <1>3, Zenon
<1>5. RecordsFollowMembership <=> [][A]_vars
  BY Zenon DEF RecordsFollowMembership
<1> HIDE DEF A
<1> QED BY <1>1, <1>2, <1>4, <1>5, PTL DEF Spec
=============================================================================
