------------------------- MODULE PodHoldingsProofs --------------------------
(***************************************************************************)
(* The order of record_pod and of create_to_record, for every budget of    *)
(* calls, faults and kills: what the PMS lists as held on disk has its     *)
(* tickets there, and a created pod its event.                             *)
(*                                                                         *)
(* The property speaks of the disk alone and is not inductive.  What makes *)
(* its first half so is that an entry has its tickets on disk wherever it  *)
(* is itself, in the batch or on disk (Backed), that the disk never runs   *)
(* ahead of the memory (Behind), and that a call about to write the entry  *)
(* has put both tickets (PutSoFar) and flushed them (Flushed).  The second *)
(* half holds of the memory and of the disk alike (Grounded), because a    *)
(* create has its event from its second step on and a departure of a bound *)
(* pod leaves the membership store (CInv).                                 *)
(***************************************************************************)
EXTENDS PodHoldings, TLAPS

Both == {"membership", "records"}
Kinds == {"membership", "records", "inviter_membership", "inviter_records"}
Entries == [seq : Nat, held : BOOLEAN]
Database == [stores : SUBSET Both, run : Nat, tickets : SUBSET Kinds,
             recorded : SUBSET Entries]
Calls == [of : {"none", "create", "join"}, put : Nat, seq : Nat,
          at : {"no", "event", "tickets", "flush", "record", "answer",
                "dialogue", "import", "wait"}]

Typed ==
    /\ docs \in Database /\ disk \in Database
    /\ payloads \in SUBSET Kinds /\ paid \in SUBSET Kinds
    /\ chain \in Seq(BOOLEAN)
    /\ call \in Calls

Behind == disk.tickets \subseteq docs.tickets /\ paid \subseteq payloads

PutSoFar ==
    /\ call.put >= 1 => "membership" \in docs.tickets \cap payloads
    /\ call.put >= 2 => "records" \in docs.tickets \cap payloads
    /\ call.at \in {"no", "event", "dialogue"} => call.put = 0
    /\ call.at = "event" => call.of = "create"
    /\ call.at = "dialogue" => call.of = "join"
    /\ call.at = "tickets" =>
          \/ call.of = "create" /\ call.put < 2
          \/ call.of = "join" /\ call.put < 4
    /\ call.at = "flush" => call.put >= 2

Flushed == call.at = "record" => Both \subseteq disk.tickets \cap paid

Held(d) == \E r \in d.recorded : r.held
Backed == Held(docs) \/ Held(disk) => Both \subseteq disk.tickets \cap paid

IInv == Typed /\ Behind /\ PutSoFar /\ Flushed /\ Backed

-----------------------------------------------------------------------------
\* What any step keeps that writes no entry that lists the pod as held, lets
\* go of no ticket and leaves the call where it is or ends it.
LEMMA QuietStep ==
    ASSUME IInv, Typed', docs.tickets \subseteq docs'.tickets,
           Held(docs') => Held(docs),
           UNCHANGED payloads, call' \in {call, NoCall},
           \/ UNCHANGED disk
           \/ disk'.tickets = docs'.tickets /\ (Held(disk') => Held(docs')),
           paid' \in {paid, payloads}
    PROVE  IInv'
<1> USE DEF IInv, Behind
<1>1. disk.tickets \subseteq disk'.tickets /\ paid \subseteq paid'
  OBVIOUS
<1>2. Behind'
  OBVIOUS
<1>3. PutSoFar' /\ Flushed'
  BY <1>1 DEF PutSoFar, Flushed, NoCall
<1>4. Backed'
  BY <1>1 DEF Backed
<1> QED BY <1>2, <1>3, <1>4

\* An entry of the PMS, of either kind.
LEMMA EntryTyped ==
    ASSUME NEW seq \in Nat, NEW held \in BOOLEAN
    PROVE  [seq |-> seq, held |-> held] \in Entries
  BY Zenon DEF Entries

\* tombstone_pod and forget_pod list nothing as held.
LEMMA DepartListsNone ==
    ASSUME NEW d \in Database, NEW seq \in Nat
    PROVE  /\ Tombstoned(d, seq) \in Database
           /\ Tombstoned(d, seq).tickets = d.tickets
           /\ Held(Tombstoned(d, seq)) => Held(d)
           /\ ForgetPod(d) \in Database
           /\ ForgetPod(d).tickets = d.tickets
           /\ Held(ForgetPod(d)) => Held(d)
<1> DEFINE e == [seq |-> seq, held |-> FALSE]
           Rec == {r \in d.recorded : r.seq # seq} \cup {e}
<1>1. e \in Entries
  BY EntryTyped, Zenon
<1>2. Rec \in SUBSET Entries
  BY <1>1, Zenon DEF Database
<1>3. /\ Tombstoned(d, seq) = [d EXCEPT !.recorded = Rec]
  BY DEF Tombstoned
<1>4. ~e.held
  OBVIOUS
<1>5. Held([d EXCEPT !.recorded = Rec]) => \E r \in Rec : r.held
  <2> HIDE DEF Rec
  <2> QED BY DEF Database, Held
<1>6. (\E r \in Rec : r.held) => Held(d)
  BY <1>4 DEF Held
<1>7. /\ [d EXCEPT !.recorded = Rec] \in Database
      /\ [d EXCEPT !.recorded = Rec].tickets = d.tickets
  <2> HIDE DEF Rec
  <2> QED BY <1>2 DEF Database
<1>8. /\ ForgetPod(d) \in Database
      /\ ForgetPod(d).tickets = d.tickets
      /\ ForgetPod(d).recorded = d.recorded
  BY DEF Database, ForgetPod
<1> QED BY <1>3, <1>5, <1>6, <1>7, <1>8 DEF Held

\* depart, as far as it comes.
LEMMA DepartKeeps ==
    ASSUME NEW d \in Database, NEW seq \in Nat, NEW e,
           e \in {d, Tombstoned(d, seq), ForgetPod(Tombstoned(d, seq))}
    PROVE  e \in Database /\ e.tickets = d.tickets /\ (Held(e) => Held(d))
<1> DEFINE t == Tombstoned(d, seq)
<1>1. t \in Database /\ t.tickets = d.tickets /\ (Held(t) => Held(d))
  BY DepartListsNone
<1> HIDE DEF t
<1>2. /\ ForgetPod(t) \in Database /\ ForgetPod(t).tickets = t.tickets
      /\ Held(ForgetPod(t)) => Held(t)
  BY <1>1, DepartListsNone
<1>3. e \in {d, t, ForgetPod(t)}
  BY DEF t
<1> QED BY <1>1, <1>2, <1>3

\* The chain stays a sequence.
LEMMA AppendTyped ==
    ASSUME NEW S, NEW s \in Seq(S), NEW e \in S
    PROVE  Append(s, e) \in Seq(S) /\ Len(Append(s, e)) \in Nat /\ Len(s) \in Nat
  OBVIOUS

\* The initial database is empty.
LEMMA InitHolds == Init => IInv
<1> SUFFICES ASSUME Init PROVE IInv
  OBVIOUS
<1>1. Typed
  BY DEF Init, Typed, Database, Calls, NoCall
<1>2. Behind /\ PutSoFar /\ Flushed
  BY DEF Init, Behind, PutSoFar, Flushed, NoCall
<1>3. Backed
  BY DEF Init, Backed, Held
<1> QED BY <1>1, <1>2, <1>3 DEF IInv

-----------------------------------------------------------------------------
\* A call ends, or is cut, and leaves what it wrote.
LEMMA EndedKeeps ==
    ASSUME IInv, call' = NoCall, UNCHANGED <<chain, docs, disk, paid, payloads>>
    PROVE  IInv'
<1>1. NoCall \in Calls
  BY DEF NoCall, Calls
<1> QED BY <1>1, QuietStep DEF IInv, Typed, Held

\* A failed create discards its stores or keeps what is recorded.
LEMMA UndoneKeeps ==
    ASSUME IInv, call' = NoCall, docs' = CreateUndone,
           UNCHANGED <<chain, disk, paid, payloads>>
    PROVE  IInv'
<1>1. NoCall \in Calls
  BY DEF NoCall, Calls
<1>2. /\ docs' \in Database /\ docs'.tickets = docs.tickets
      /\ docs'.recorded = docs.recorded
  BY Zenon DEF CreateUndone, IInv, Typed, Database
<1> QED BY <1>1, <1>2, QuietStep DEF IInv, Typed, Held

\* What record_pod puts, by its order.
LEMMA TicketsInOrder ==
    /\ Len(TicketKinds("create")) = 2 /\ Len(TicketKinds("join")) = 4
    /\ TicketKinds("create")[1] = "membership" /\ TicketKinds("create")[2] = "records"
    /\ TicketKinds("join")[1] = "membership" /\ TicketKinds("join")[2] = "records"
    /\ TicketKinds("join")[3] \in Kinds /\ TicketKinds("join")[4] \in Kinds
<1>1. TicketKinds("create") = <<"membership", "records">>
  BY DEF TicketKinds
<1>2. TicketKinds("join")
          = <<"membership", "records", "inviter_membership", "inviter_records">>
  BY DEF TicketKinds
<1>3. "inviter_membership" \in Kinds /\ "inviter_records" \in Kinds
  BY DEF Kinds
<1>4. /\ Len(TicketKinds("create")) = 2
      /\ TicketKinds("create")[1] = "membership" /\ TicketKinds("create")[2] = "records"
  BY <1>1
<1>5. Len(TicketKinds("join")) = 4
  BY <1>2
<1>6. TicketKinds("join")[1] = "membership" /\ TicketKinds("join")[2] = "records"
  BY <1>2
<1>7. TicketKinds("join")[3] \in Kinds /\ TicketKinds("join")[4] \in Kinds
  BY <1>2, <1>3
<1> QED BY <1>4, <1>5, <1>6, <1>7

\* The steps of a create and of a join.
LEMMA CallSteps ==
    ASSUME IInv,
           \/ CreateBegins \/ CreatedWritten \/ PutTicket \/ TicketsFlush
           \/ RecordWritten \/ CreateFails \/ CreateAnswers
           \/ JoinBegins \/ JoinServed \/ JoinImports \/ JoinEnds \/ JoinCut
    PROVE  IInv'
<1> USE DEF IInv
<1>1. CASE CreateBegins
  <2>1. /\ docs' = [docs EXCEPT !.stores = Both]
        /\ call' = [NoCall EXCEPT !.of = "create", !.at = "event"]
        /\ UNCHANGED <<chain, disk, paid, payloads>>
    BY <1>1 DEF CreateBegins, durable, Both
  <2>2. /\ docs'.tickets = docs.tickets /\ docs'.recorded = docs.recorded
        /\ docs' \in Database
    BY <2>1 DEF Typed, Database
  <2>3. /\ call' \in Calls /\ call'.put = 0 /\ call'.at = "event" /\ call'.of = "create"
    BY <2>1, Zenon DEF NoCall, Calls
  <2>4. Typed' /\ Behind' /\ PutSoFar' /\ Flushed'
    BY <2>1, <2>2, <2>3 DEF Typed, Behind, PutSoFar, Flushed
  <2>5. Backed'
    BY <2>1, <2>2 DEF Backed, Held
  <2> QED BY <2>4, <2>5
<1>2. CASE CreatedWritten
  <2>1. /\ docs' = [docs EXCEPT !.run = 1]
        /\ call.at = "event" /\ call' = [call EXCEPT !.at = "tickets", !.seq = 1]
        /\ disk' = docs' /\ paid' = payloads /\ payloads' = payloads
        /\ chain' = <<TRUE>>
    BY <1>2 DEF CreatedWritten
  <2>2. /\ docs'.tickets = docs.tickets /\ docs'.recorded = docs.recorded
        /\ docs' \in Database
    BY <2>1, Zenon DEF Typed, Database
  <2>3. call' \in Calls /\ call'.put = 0 /\ call'.at = "tickets" /\ call'.of = "create"
    BY <2>1, Zenon DEF Typed, Calls, PutSoFar
  <2>4. Typed' /\ Behind' /\ PutSoFar' /\ Flushed'
    BY <2>1, <2>2, <2>3 DEF Typed, Behind, PutSoFar, Flushed
  <2>5. Backed'
    BY <2>1, <2>2 DEF Backed, Held, Behind
  <2> QED BY <2>4, <2>5
<1>3. CASE PutTicket
  <2> DEFINE kind == TicketKinds(call.of)[call.put + 1]
             next == IF call.put + 1 = Len(TicketKinds(call.of)) THEN "flush" ELSE call.at
  <2>1. /\ docs' = [docs EXCEPT !.tickets = @ \cup {kind}]
        /\ payloads' = payloads \cup {kind}
        /\ call.at = "tickets" /\ call' = [call EXCEPT !.put = call.put + 1, !.at = next]
        /\ UNCHANGED <<chain, disk, paid>>
    BY <1>3 DEF PutTicket, durable
  <2>2. /\ kind \in Kinds
        /\ call.put = 0 => kind = "membership"
        /\ call.put = 1 => kind = "records"
        /\ next = "flush" => call.put \in {1, 3}
        /\ next # "flush" =>
              /\ next = "tickets"
              /\ \/ call.of = "create" /\ call.put = 0
                 \/ call.of = "join" /\ call.put < 3
    <3> "membership" \in Kinds /\ "records" \in Kinds
      BY DEF Kinds
    <3>1. CASE call.of = "create" /\ call.put = 0
      BY <3>1, <2>1, TicketsInOrder
    <3>2. CASE call.of = "create" /\ call.put = 1
      BY <3>2, <2>1, TicketsInOrder
    <3>3. CASE call.of = "join" /\ call.put = 0
      BY <3>3, <2>1, TicketsInOrder
    <3>4. CASE call.of = "join" /\ call.put = 1
      BY <3>4, <2>1, TicketsInOrder
    <3>5. CASE call.of = "join" /\ call.put = 2
      BY <3>5, <2>1, TicketsInOrder
    <3>6. CASE call.of = "join" /\ call.put = 3
      BY <3>6, <2>1, TicketsInOrder
    <3>7. /\ call.put \in Nat
          /\ \/ call.of = "create" /\ call.put < 2
             \/ call.of = "join" /\ call.put < 4
      BY <2>1 DEF PutSoFar, Typed, Calls
    <3> QED BY <3>1, <3>2, <3>3, <3>4, <3>5, <3>6, <3>7
  <2> HIDE DEF kind, next
  <2>3. /\ docs'.tickets = docs.tickets \cup {kind}
        /\ docs'.recorded = docs.recorded /\ docs' \in Database
    BY <2>1, <2>2 DEF Typed, Database
  <2>4. /\ call' \in Calls /\ call'.put = call.put + 1
        /\ call'.at = next /\ call'.of = call.of
    <3>1. call \in Calls /\ next \in {"flush", "tickets"}
      BY <2>2 DEF Typed
    <3>2. /\ DOMAIN call = {"of", "at", "put", "seq"}
          /\ call.put + 1 \in Nat /\ call.seq \in Nat
          /\ call.of \in {"none", "create", "join"}
      BY <3>1 DEF Calls
    <3>3. call' = [of |-> call.of, at |-> next, put |-> call.put + 1, seq |-> call.seq]
      BY <3>1, <3>2, <2>1, Zenon DEF Calls
    <3> QED BY <3>1, <3>2, <3>3 DEF Calls
  <2>5. Typed' /\ Behind' /\ Flushed'
    BY <2>1, <2>2, <2>3, <2>4 DEF Typed, Behind, Flushed
  <2>6. PutSoFar'
    BY <2>1, <2>2, <2>3, <2>4 DEF PutSoFar, Typed, Calls
  <2>7. Backed'
    BY <2>1, <2>3 DEF Backed, Held
  <2> QED BY <2>5, <2>6, <2>7
<1>4. CASE TicketsFlush
  <2>1. /\ call.at = "flush" /\ call' = [call EXCEPT !.at = "record"]
        /\ disk' = docs /\ paid' = payloads /\ UNCHANGED <<chain, docs, payloads>>
    BY <1>4 DEF TicketsFlush, FlushStores
  <2>2. call' \in Calls /\ call'.put = call.put /\ call'.at = "record"
    BY <2>1 DEF Typed, Calls
  <2>3. Both \subseteq docs.tickets \cap payloads
    BY <2>1 DEF PutSoFar, Both, Typed, Calls
  <2>4. Typed' /\ Behind' /\ PutSoFar' /\ Flushed' /\ Backed'
    BY <2>1, <2>2, <2>3 DEF Typed, Behind, PutSoFar, Flushed, Backed
  <2> QED BY <2>4
<1>5. CASE RecordWritten
  <2> DEFINE e == [seq |-> call.seq, held |-> TRUE]
  <2>1. /\ docs' = [docs EXCEPT !.recorded = @ \cup {e}] /\ call.at = "record"
        /\ call' \in {NoCall, [call EXCEPT !.at = "import"]}
        /\ UNCHANGED <<chain, disk, paid, payloads>>
    BY <1>5 DEF RecordWritten, durable
  <2>2. e \in Entries
    BY EntryTyped, Zenon DEF Typed, Calls
  <2> HIDE DEF e
  <2>3. docs'.tickets = docs.tickets /\ docs' \in Database
    BY <2>1, <2>2 DEF Typed, Database
  <2>4. /\ call' \in Calls
        /\ \/ call'.put = 0 /\ call'.at = "no"
           \/ call'.put = call.put /\ call'.at = "import"
    BY <2>1 DEF Typed, Calls, NoCall
  <2>5. Typed' /\ Behind' /\ PutSoFar' /\ Flushed'
    BY <2>1, <2>3, <2>4 DEF Typed, Behind, PutSoFar, Flushed
  <2>6. Backed'
    BY <2>1 DEF Flushed, Backed
  <2> QED BY <2>5, <2>6
<1>6. CASE CreateFails
  <2> DEFINE e == [seq |-> 1, held |-> TRUE]
  <2>1. UNCHANGED <<chain, disk, paid, payloads>>
    BY <1>6 DEF CreateFails, durable
  <2>2. CASE docs' = CreateUndone /\ call' = NoCall
    BY <2>1, <2>2, UndoneKeeps
  <2>3. CASE /\ call.at = "record" /\ docs' = [docs EXCEPT !.recorded = @ \cup {e}]
             /\ call' = [call EXCEPT !.at = "answer"]
    <3>1. e \in Entries
      BY EntryTyped, Zenon
    <3> HIDE DEF e
    <3>2. docs'.tickets = docs.tickets /\ docs' \in Database
      BY <2>3, <3>1, Zenon DEF Typed, Database
    <3>3. call' \in Calls /\ call'.put = call.put /\ call'.at = "answer"
      BY <2>3 DEF Typed, Calls
    <3>4. Typed' /\ Behind' /\ PutSoFar' /\ Flushed'
      BY <2>1, <3>2, <3>3 DEF Typed, Behind, PutSoFar, Flushed
    <3>5. Backed'
      BY <2>1, <2>3 DEF Flushed, Backed
    <3> QED BY <3>4, <3>5
  <2>4. CASE call' = NoCall /\ UNCHANGED docs
    BY <2>1, <2>4, EndedKeeps
  <2> QED BY <1>6, <2>2, <2>3, <2>4 DEF CreateFails
<1>7. CASE CreateAnswers
  BY <1>7, UndoneKeeps DEF CreateAnswers, durable
<1>8. CASE JoinBegins
  <2>1. /\ call' = [NoCall EXCEPT !.of = "join", !.at = "dialogue"]
        /\ UNCHANGED <<chain, docs, disk, paid, payloads>>
    BY <1>8 DEF JoinBegins, durable
  <2>2. call' \in Calls /\ call'.put = 0 /\ call'.at = "dialogue" /\ call'.of = "join"
    BY <2>1, Zenon DEF NoCall, Calls
  <2>3. Typed' /\ Behind' /\ PutSoFar' /\ Flushed' /\ Backed'
    BY <2>1, <2>2 DEF Typed, Behind, PutSoFar, Flushed, Backed
  <2> QED BY <2>3
<1>9. CASE JoinServed
  <2>1. /\ call.at = "dialogue"
        /\ call' = [call EXCEPT !.at = "tickets", !.seq = OfferedSeq]
        /\ chain' \in {chain, Append(chain, TRUE)}
        /\ UNCHANGED <<docs, disk, paid, payloads>>
    BY <1>9 DEF JoinServed, durable
  <2>2. OfferedSeq \in Nat /\ chain' \in Seq(BOOLEAN)
    <3>1. chain \in Seq(BOOLEAN) /\ TRUE \in BOOLEAN
      BY DEF Typed
    <3>2. Append(chain, TRUE) \in Seq(BOOLEAN) /\ Len(chain) \in Nat
      BY <3>1, AppendTyped
    <3>3. OfferedSeq \in Nat
      BY <3>2 DEF OfferedSeq
    <3> QED BY <2>1, <3>1, <3>2, <3>3, Zenon
  <2>3. call' \in Calls /\ call'.put = 0 /\ call'.at = "tickets" /\ call'.of = "join"
    BY <2>1, <2>2, Zenon DEF Typed, Calls, PutSoFar
  <2>4. Typed' /\ Behind' /\ PutSoFar' /\ Flushed' /\ Backed'
    BY <2>1, <2>2, <2>3 DEF Typed, Behind, PutSoFar, Flushed, Backed
  <2> QED BY <2>4
<1>10. CASE JoinImports
  <2>1. /\ call.at = "import" /\ call' = [call EXCEPT !.at = "wait"]
        /\ docs' = [docs EXCEPT !.stores = Both]
        /\ UNCHANGED <<chain, disk, paid, payloads>>
    BY <1>10 DEF JoinImports, ImportPod, durable, Both
  <2>2. /\ docs'.tickets = docs.tickets /\ docs'.recorded = docs.recorded
        /\ docs' \in Database
    BY <2>1 DEF Typed, Database
  <2>3. call' \in Calls /\ call'.put = call.put /\ call'.at = "wait"
    BY <2>1 DEF Typed, Calls
  <2>4. Typed' /\ Behind' /\ PutSoFar' /\ Flushed' /\ Backed'
    BY <2>1, <2>2, <2>3 DEF Typed, Behind, PutSoFar, Flushed, Backed, Held
  <2> QED BY <2>4
<1>11. CASE JoinEnds \/ JoinCut
  BY <1>11, EndedKeeps, Zenon DEF JoinEnds, JoinCut, durable
<1> QED BY <1>1, <1>2, <1>3, <1>4, <1>5, <1>6, <1>7, <1>8, <1>9, <1>10, <1>11

-----------------------------------------------------------------------------
\* The steps of sessions, of the armer and of the disk, departures and kills.
LEMMA OtherSteps ==
    ASSUME IInv,
           \/ EventsArrive \/ Leave \/ SiblingLeaves \/ Removed \/ SettlePod
           \/ DocsSettle \/ PayloadsSettle \/ Killed
    PROVE  IInv'
<1> USE DEF IInv
<1>1. CASE EventsArrive
  <2>1. /\ docs' = [docs EXCEPT !.run = Len(chain)]
        /\ UNCHANGED <<chain, disk, paid, payloads, call>>
    BY <1>1 DEF EventsArrive, durable
  <2>2. Len(chain) \in Nat
    BY DEF Typed
  <2>3. /\ docs'.tickets = docs.tickets /\ docs'.recorded = docs.recorded
        /\ docs' \in Database
    BY <2>1, <2>2 DEF Typed, Database
  <2> QED BY <2>1, <2>3, QuietStep DEF Typed, Held
<1>2. CASE Leave
  <2> DEFINE w == [docs EXCEPT !.run = @ + 1]
  <2>1. /\ chain' = Append(chain, FALSE) /\ disk' = w /\ paid' = payloads
        /\ docs' \in {w, Tombstoned(w, w.run), ForgetPod(Tombstoned(w, w.run))}
        /\ UNCHANGED <<payloads, call>>
    BY <1>2 DEF Leave, Depart, DepartFails
  <2>2. /\ w \in Database /\ w.tickets = docs.tickets /\ w.recorded = docs.recorded
        /\ w.run \in Nat
    BY DEF Typed, Database
  <2> HIDE DEF w
  <2>3. docs' \in Database /\ docs'.tickets = w.tickets /\ (Held(docs') => Held(w))
    BY <2>1, <2>2, DepartKeeps
  <2>4. chain' \in Seq(BOOLEAN)
    BY <2>1, AppendTyped DEF Typed
  <2>5. Typed'
    BY <2>1, <2>2, <2>3, <2>4 DEF Typed
  <2>6. Behind' /\ PutSoFar' /\ Flushed'
    BY <2>1, <2>2, <2>3 DEF Behind, PutSoFar, Flushed
  <2>7. Backed'
    BY <2>1, <2>2, <2>3 DEF Behind, Backed, Held
  <2> QED BY <2>5, <2>6, <2>7
<1>3. CASE SiblingLeaves
  <2>1. /\ chain' = Append(chain, FALSE) /\ docs' = Tombstoned(docs, Len(chain'))
        /\ UNCHANGED <<disk, paid, payloads, call>>
    BY <1>3 DEF SiblingLeaves, durable
  <2>2. chain' \in Seq(BOOLEAN) /\ Len(chain') \in Nat
    BY <2>1, AppendTyped DEF Typed
  <2>3. docs' \in Database /\ docs'.tickets = docs.tickets /\ (Held(docs') => Held(docs))
    BY <2>1, <2>2, DepartListsNone, Zenon DEF Typed
  <2> QED BY <2>1, <2>2, <2>3, QuietStep DEF Typed
<1>4. CASE Removed
  <2>1. /\ chain' = Append(chain, FALSE)
        /\ UNCHANGED <<docs, disk, paid, payloads, call>>
    BY <1>4 DEF Removed, durable
  <2>2. chain' \in Seq(BOOLEAN)
    BY <2>1, AppendTyped DEF Typed
  <2> QED BY <2>1, <2>2, QuietStep DEF Typed, Held
<1>5. CASE SettlePod
  <2>1. UNCHANGED <<chain, disk, paid, payloads, call>>
    BY <1>5 DEF SettlePod, durable
  <2>2. \/ \E stores \in SUBSET Both : docs' = [docs EXCEPT !.stores = stores]
        \/ docs' = docs
        \/ docs' = Tombstoned(docs, docs.run)
        \/ docs' = ForgetPod(Tombstoned(docs, docs.run))
        \/ docs' = ForgetPod(docs)
    <3>1. docs.stores \cup {"membership"} \in SUBSET Both
      BY DEF Typed, Database, Both
    <3> QED BY <1>5, <3>1 DEF SettlePod, OpenPod, OpenTombstone, ImportPod,
               ImportTombstone, Depart, DepartFails, Both
  <2>3. docs.run \in Nat
    BY DEF Typed, Database
  <2>4. docs' \in Database /\ docs'.tickets = docs.tickets /\ (Held(docs') => Held(docs))
    <3>1. CASE \E stores \in SUBSET Both : docs' = [docs EXCEPT !.stores = stores]
      BY <3>1 DEF Typed, Database, Held
    <3>2. CASE docs' = docs
      BY <3>2 DEF Typed, Held
    <3>3. CASE docs' \in {docs, Tombstoned(docs, docs.run),
                           ForgetPod(Tombstoned(docs, docs.run))}
      BY <2>3, <3>3, DepartKeeps DEF Typed
    <3>4. CASE docs' = ForgetPod(docs)
      BY <2>3, <3>4, DepartListsNone DEF Typed
    <3> QED BY <2>2, <3>1, <3>2, <3>3, <3>4
  <2> QED BY <2>1, <2>4, QuietStep DEF Typed
<1>6. CASE DocsSettle \/ PayloadsSettle
  <2>1. /\ UNCHANGED <<chain, docs, payloads, call>>
        /\ disk' \in {disk, docs} /\ paid' \in {paid, payloads}
    BY <1>6 DEF DocsSettle, PayloadsSettle
  <2>2. Typed' /\ Behind' /\ PutSoFar' /\ Flushed' /\ Backed'
    BY <2>1 DEF Typed, Behind, PutSoFar, Flushed, Backed, Held
  <2> QED BY <2>2
<1>7. CASE Killed
  <2>1. /\ docs' = disk /\ payloads' = paid /\ call' = NoCall
        /\ UNCHANGED <<chain, disk, paid>>
    BY <1>7 DEF Killed, durable
  <2>2. call' \in Calls /\ call'.put = 0 /\ call'.at = "no"
    BY <2>1 DEF NoCall, Calls
  <2>3. Typed' /\ Behind' /\ PutSoFar' /\ Flushed'
    BY <2>1, <2>2 DEF Typed, Behind, PutSoFar, Flushed
  <2>4. Backed'
    BY <2>1 DEF Backed, Held
  <2> QED BY <2>3, <2>4
<1> QED BY <1>1, <1>2, <1>3, <1>4, <1>5, <1>6, <1>7

-----------------------------------------------------------------------------
\* Every step keeps the invariant, whatever the budgets are.
LEMMA StepHolds == IInv /\ [Next]_vars => IInv'
<1> SUFFICES ASSUME IInv, [Next]_vars PROVE IInv'
  OBVIOUS
<1>1. CASE UNCHANGED vars
  BY <1>1 DEF vars, durable, IInv, Typed, Behind, PutSoFar, Flushed, Backed, Held
<1>2. CASE Progress \/ Chance
  BY <1>2, CallSteps, OtherSteps DEF Progress, Chance
<1> QED BY <1>1, <1>2 DEF Next

\* record_pod: an entry on disk that lists the pod as held has both tickets and
\* their payloads on disk beside it.
LEMMA ListedHasTickets == Spec => [](IInv /\ HeldHasTickets)
<1>1. IInv => HeldHasTickets
  BY DEF IInv, Backed, Held, HeldHasTickets, Both
<1> QED BY <1>1, InitHolds, StepHolds, PTL DEF Spec

-----------------------------------------------------------------------------
\* A database that lists the pod has the membership store and an event in it.
Grounded(d) == d.recorded # {} => d.run > 0 /\ "membership" \in d.stores

\* What a device that creates the pod keeps beside IInv: a bound pod has its
\* membership store, and the create has the event before anything it records.
CInv ==
    /\ case \in DOMAIN Cases /\ left \in [Budgets -> Nat]
    /\ bound # "none" => "membership" \in docs.stores
    /\ call.of = "none" => call.at = "no"
    /\ Setting.creates > 0 =>
          /\ left.joins = 0 /\ call.of # "join"
          /\ Grounded(docs) /\ Grounded(disk)
          /\ call.of = "create" =>
                "membership" \in docs.stores /\ (call.at # "event" => docs.run > 0)

\* A budget that is spent leaves the others as they are.
LEMMA SpendKeeps ==
    ASSUME left \in [Budgets -> Nat], NEW what \in Budgets, Spend(what)
    PROVE  /\ left' \in [Budgets -> Nat]
           /\ left.joins = 0 => what # "joins" /\ left'.joins = 0
<1>1. "joins" \in Budgets
  BY DEF Budgets
<1>2. left[what] > 0 /\ left[what] - 1 \in Nat
  BY DEF Spend
<1> QED BY <1>1, <1>2 DEF Spend

\* The rest of CInv, where the database here is set by a step and the call goes
\* on or ends.
LEMMA Regrounded ==
    ASSUME Typed, CInv, UNCHANGED case, left' \in [Budgets -> Nat],
           left.joins = 0 => left'.joins = 0,
           bound' # "none" => "membership" \in docs'.stores,
           call' \in {call, NoCall},
           docs.run > 0 => docs'.run > 0,
           call.of = "create" /\ call' = call => docs'.stores = docs.stores,
           Setting.creates > 0 => Grounded(docs') /\ Grounded(disk')
    PROVE  CInv'
<1>1. Setting' = Setting
  BY DEF Setting
<1>2. NoCall.of = "none" /\ NoCall.at = "no"
  BY DEF NoCall
<1> QED BY <1>1, <1>2 DEF CInv, Grounded

\* Cases allow a device one of the two: a pod created or a pod joined.
LEMMA CreatedInit == Init => CInv
<1> SUFFICES ASSUME Init PROVE CInv
  OBVIOUS
<1>1. case \in DOMAIN Cases /\ left = Cases[case]
  BY DEF Init, Setting
<1>2. left \in [Budgets -> Nat] /\ (left.creates = 0 \/ left.joins = 0)
  BY <1>1, CasesAssumption
<1>3. Grounded(docs) /\ Grounded(disk)
  BY DEF Init, Grounded
<1> QED BY <1>1, <1>2, <1>3 DEF Init, CInv, NoCall, Setting

\* The steps of a create.
LEMMA CreateGrounded ==
    ASSUME Typed, CInv,
           \/ CreateBegins \/ CreatedWritten \/ PutTicket \/ TicketsFlush
           \/ RecordWritten \/ CreateFails \/ CreateAnswers
    PROVE  CInv'
<1>1. Setting' = Setting /\ UNCHANGED case
  BY Zenon DEF Setting, CreateBegins, CreatedWritten, PutTicket, TicketsFlush,
         RecordWritten, CreateFails, CreateAnswers
<1>2. NoCall.of = "none" /\ NoCall.at = "no"
  BY DEF NoCall
<1>3. docs \in Database /\ call \in Calls
  BY DEF Typed
<1>4. {"creates", "fails"} \subseteq Budgets
  BY DEF Budgets
<1>5. CASE CreateBegins
  <2>1. /\ docs' = [docs EXCEPT !.stores = {"membership", "records"}]
        /\ call'.of = "create" /\ call'.at = "event" /\ disk' = disk
    BY <1>5 DEF CreateBegins, NoCall, durable
  <2>2. left' \in [Budgets -> Nat] /\ (left.joins = 0 => left'.joins = 0)
    BY <1>4, <1>5, SpendKeeps DEF CreateBegins, CInv
  <2>3. /\ docs'.recorded = docs.recorded /\ docs'.run = docs.run
        /\ "membership" \in docs'.stores
    BY <1>3, <2>1 DEF Database
  <2> QED BY <1>1, <2>1, <2>2, <2>3 DEF CInv, Grounded
<1>6. CASE CreatedWritten
  <2>1. /\ docs' = [docs EXCEPT !.run = 1] /\ disk' = docs' /\ call.at = "event"
        /\ call' = [call EXCEPT !.at = "tickets", !.seq = 1]
        /\ UNCHANGED <<bound, left>>
    BY <1>6 DEF CreatedWritten
  <2>2. docs'.run = 1 /\ docs'.stores = docs.stores
    BY <1>3, <2>1 DEF Database
  <2>3. call'.of = call.of /\ call'.at = "tickets"
    BY <1>3, <2>1 DEF Calls
  <2>4. call.of # "none" /\ (Setting.creates > 0 => call.of = "create")
    BY <1>3, <2>1 DEF CInv, Calls
  <2> QED BY <1>1, <2>1, <2>2, <2>3, <2>4 DEF CInv, Grounded
<1>7. CASE PutTicket
  <2> DEFINE kind == TicketKinds(call.of)[call.put + 1]
             next == IF call.put + 1 = Len(TicketKinds(call.of)) THEN "flush" ELSE call.at
  <2>1. /\ docs' = [docs EXCEPT !.tickets = @ \cup {kind}] /\ disk' = disk
        /\ call.at = "tickets" /\ call' = [call EXCEPT !.put = call.put + 1, !.at = next]
        /\ next \in {"flush", "tickets"} /\ UNCHANGED <<bound, left>>
    BY <1>7 DEF PutTicket, durable
  <2> HIDE DEF kind, next
  <2>2. docs'.run = docs.run /\ docs'.stores = docs.stores /\ docs'.recorded = docs.recorded
    BY <1>3, <2>1 DEF Database
  <2>3. call'.of = call.of /\ call'.at = next
    BY <1>3, <2>1 DEF Calls
  <2> QED BY <1>1, <2>1, <2>2, <2>3 DEF CInv, Grounded
<1>8. CASE TicketsFlush
  <2>1. /\ docs' = docs /\ disk' = docs /\ call.at = "flush"
        /\ call' = [call EXCEPT !.at = "record"] /\ UNCHANGED <<bound, left>>
    BY <1>8 DEF TicketsFlush, FlushStores
  <2>2. call'.of = call.of /\ call'.at = "record"
    BY <1>3, <2>1 DEF Calls
  <2> QED BY <1>1, <2>1, <2>2 DEF CInv, Grounded
<1>9. CASE RecordWritten
  <2>1. /\ docs' = [docs EXCEPT !.recorded = @ \cup {[seq |-> call.seq, held |-> TRUE]}]
        /\ disk' = disk /\ call.at = "record" /\ UNCHANGED <<bound, left>>
        /\ call' = IF call.of = "create" THEN NoCall ELSE [call EXCEPT !.at = "import"]
    BY <1>9 DEF RecordWritten, durable
  <2>2. docs'.run = docs.run /\ docs'.stores = docs.stores
    BY <1>3, <2>1 DEF Database
  <2>3. call.of # "none" /\ (Setting.creates > 0 => call.of = "create")
    BY <1>3, <2>1 DEF CInv, Calls
  <2>4. \/ call'.of = "none" /\ call'.at = "no"
        \/ call'.of = call.of /\ call.of # "create"
    BY <1>2, <1>3, <2>1 DEF Calls
  <2> QED BY <1>1, <2>1, <2>2, <2>3, <2>4 DEF CInv, Grounded
<1>10. CASE CreateFails
  <2>1. disk' = disk /\ call.of = "create"
    BY <1>10 DEF CreateFails, durable
  <2>2. left' \in [Budgets -> Nat] /\ (left.joins = 0 => left'.joins = 0)
    BY <1>4, <1>10, SpendKeeps DEF CreateFails, CInv
  <2>3. CASE /\ docs' = CreateUndone /\ call' = NoCall
             /\ bound' = IF docs'.stores = {} THEN "none" ELSE bound
    BY <1>1, <1>2, <1>3, <2>1, <2>2, <2>3 DEF CInv, Grounded, CreateUndone, Recorded, Database
  <2>4. CASE /\ call.at = "record" /\ UNCHANGED bound
             /\ docs' = [docs EXCEPT !.recorded = @ \cup {[seq |-> 1, held |-> TRUE]}]
             /\ call' = [call EXCEPT !.at = "answer"]
    <3>1. docs'.run = docs.run /\ docs'.stores = docs.stores
      BY <1>3, <2>4 DEF Database
    <3>2. call'.of = "create" /\ call'.at = "answer"
      BY <1>3, <2>1, <2>4 DEF Calls
    <3> QED BY <1>1, <2>1, <2>2, <2>4, <3>1, <3>2 DEF CInv, Grounded
  <2>5. CASE call' = NoCall /\ UNCHANGED <<docs, bound>>
    BY <1>1, <1>2, <2>1, <2>2, <2>5 DEF CInv, Grounded
  <2> QED BY <1>10, <2>3, <2>4, <2>5 DEF CreateFails
<1>11. CASE CreateAnswers
  <2>1. /\ docs' = CreateUndone /\ call' = NoCall /\ disk' = disk /\ left' = left
        /\ bound' = IF docs'.stores = {} THEN "none" ELSE bound
    BY <1>11 DEF CreateAnswers, durable
  <2> QED BY <1>1, <1>2, <1>3, <2>1 DEF CInv, Grounded, CreateUndone, Recorded, Database
<1> QED BY <1>5, <1>6, <1>7, <1>8, <1>9, <1>10, <1>11

\* The steps of a join: none where the pod is created here.
LEMMA JoinGrounded ==
    ASSUME Typed, CInv,
           JoinBegins \/ JoinServed \/ JoinImports \/ JoinEnds \/ JoinCut
    PROVE  CInv'
<1>1. Setting' = Setting /\ UNCHANGED <<case, disk>>
  BY Zenon DEF Setting, JoinBegins, JoinServed, JoinImports, JoinEnds, JoinCut, durable
<1>2. docs \in Database /\ call \in Calls /\ NoCall.of = "none" /\ NoCall.at = "no"
  BY DEF Typed, NoCall
<1>3. {"joins", "fails", "cancels"} \subseteq Budgets
  BY DEF Budgets
<1>4. CASE JoinBegins
  <2>1. left' \in [Budgets -> Nat] /\ left.joins # 0
    BY <1>3, <1>4, SpendKeeps DEF JoinBegins, CInv
  <2>2. call'.of = "join" /\ UNCHANGED <<docs, bound>>
    BY <1>4 DEF JoinBegins, NoCall
  <2> QED BY <1>1, <2>1, <2>2 DEF CInv
<1>5. CASE JoinServed
  <2>1. /\ call' = [call EXCEPT !.at = "tickets", !.seq = OfferedSeq]
        /\ call.at = "dialogue" /\ UNCHANGED <<docs, bound, left>>
    BY <1>5 DEF JoinServed
  <2>2. call'.of = call.of /\ call'.at = "tickets"
    BY <1>2, <2>1 DEF Calls
  <2> QED BY <1>1, <2>1, <2>2 DEF CInv, Grounded
<1>6. CASE JoinImports
  <2>1. /\ docs' = [docs EXCEPT !.stores = {"membership", "records"}]
        /\ call.at = "import" /\ call' = [call EXCEPT !.at = "wait"] /\ left' = left
    BY <1>6 DEF JoinImports, ImportPod
  <2>2. /\ docs'.run = docs.run /\ docs'.recorded = docs.recorded
        /\ "membership" \in docs'.stores
    BY <1>2, <2>1 DEF Database
  <2>3. call'.of = call.of /\ call'.at = "wait"
    BY <1>2, <2>1 DEF Calls
  <2> QED BY <1>1, <2>1, <2>2, <2>3 DEF CInv, Grounded
<1>7. CASE JoinEnds
  BY <1>1, <1>7, Regrounded DEF JoinEnds, CInv, Grounded, Typed, durable
<1>8. CASE JoinCut
  <2>1. left' \in [Budgets -> Nat] /\ (left.joins = 0 => left'.joins = 0)
    BY <1>3, <1>8, SpendKeeps DEF JoinCut, CInv
  <2>2. call' = NoCall /\ UNCHANGED <<docs, bound>>
    BY <1>8 DEF JoinCut
  <2> QED BY <1>1, <2>1, <2>2, Regrounded DEF CInv, Grounded
<1> QED BY <1>4, <1>5, <1>6, <1>7, <1>8

\* depart, as far as it comes, takes neither the chain nor the membership store.
LEMMA DepartGrounds ==
    ASSUME NEW d \in Database, NEW seq \in Nat, NEW e,
           e \in {d, Tombstoned(d, seq), ForgetPod(Tombstoned(d, seq)), ForgetPod(d)},
           d.run > 0, "membership" \in d.stores
    PROVE  /\ e.run = d.run /\ "membership" \in e.stores /\ Grounded(e)
<1>1. Tombstoned(d, seq) \in Database
  BY DepartListsNone
<1>2. Tombstoned(d, seq).run = d.run /\ Tombstoned(d, seq).stores = d.stores
  BY DEF Tombstoned, Database
<1>3. \A c \in Database : ForgetPod(c).run = c.run /\ ForgetPod(c).stores = c.stores \ {"records"}
  BY DEF ForgetPod, Database
<1> QED BY <1>1, <1>2, <1>3 DEF Grounded

\* The steps of sessions, of the armer and of the disk, departures and kills.
LEMMA OthersGrounded ==
    ASSUME Typed, CInv,
           \/ EventsArrive \/ Leave \/ SiblingLeaves \/ Removed \/ SettlePod
           \/ DocsSettle \/ PayloadsSettle \/ Killed
    PROVE  CInv'
<1>1. UNCHANGED case
  BY Zenon DEF EventsArrive, Leave, SiblingLeaves, Removed, SettlePod, DocsSettle,
         PayloadsSettle, Killed
<1>2. /\ docs \in Database /\ docs.run \in Nat /\ call \in Calls
      /\ left \in [Budgets -> Nat] /\ chain \in Seq(BOOLEAN) /\ Len(chain) \in Nat
  BY DEF Typed, CInv, Database
<1>3. {"leaves", "failed_leaves", "sibling_leaves", "removes", "fails", "kills"}
          \subseteq Budgets
  BY DEF Budgets
<1>4. CASE EventsArrive
  <2>1. /\ docs' = [docs EXCEPT !.run = Len(chain)] /\ docs.run < Len(chain)
        /\ UNCHANGED <<disk, bound, call, left>>
    BY <1>4 DEF EventsArrive, durable
  <2>2. /\ docs'.run = Len(chain) /\ docs'.run > 0
        /\ docs'.stores = docs.stores /\ docs'.recorded = docs.recorded
    BY <1>2, <2>1 DEF Database
  <2> QED BY <1>1, <1>2, <2>1, <2>2, Regrounded DEF CInv, Grounded
<1>5. CASE Leave
  <2> DEFINE w == [docs EXCEPT !.run = @ + 1]
  <2>1. /\ disk' = w /\ bound = "whole" /\ call.of # "create"
        /\ docs' \in {w, Tombstoned(w, w.run), ForgetPod(Tombstoned(w, w.run))}
        /\ UNCHANGED call
    BY <1>5 DEF Leave, Depart, DepartFails, Locked
  <2>2. /\ w \in Database /\ w.run = docs.run + 1 /\ w.run \in Nat
        /\ w.stores = docs.stores
    <3>1. w \in Database
      BY <1>2 DEF Database
    <3>2. w.run = docs.run + 1
      BY <1>2 DEF Database
    <3>3. w.stores = docs.stores
      BY <1>2 DEF Database
    <3> QED BY <1>2, <3>1, <3>2, <3>3
  <2>3. left' \in [Budgets -> Nat] /\ (left.joins = 0 => left'.joins = 0)
    BY <1>2, <1>3, <1>5, SpendKeeps, Zenon DEF Leave
  <2> HIDE DEF w
  <2>4. w.run > 0 /\ "membership" \in w.stores
    BY <1>2, <2>1, <2>2 DEF CInv
  <2>5. docs'.run = w.run /\ "membership" \in docs'.stores /\ Grounded(docs')
    BY <2>1, <2>2, <2>4, DepartGrounds
  <2>6. Grounded(disk')
    BY <2>1, <2>4 DEF Grounded
  <2> QED BY <1>1, <2>1, <2>3, <2>4, <2>5, <2>6, Regrounded
<1>6. CASE SiblingLeaves
  <2>1. /\ docs' = Tombstoned(docs, Len(chain')) /\ docs.recorded # {}
        /\ chain' = Append(chain, FALSE) /\ UNCHANGED <<disk, bound, call>>
    BY <1>6 DEF SiblingLeaves, Recorded, durable
  <2>2. left' \in [Budgets -> Nat] /\ (left.joins = 0 => left'.joins = 0)
    BY <1>2, <1>3, <1>6, SpendKeeps, Zenon DEF SiblingLeaves
  <2>3. docs'.run = docs.run /\ docs'.stores = docs.stores
    BY <1>2, <2>1 DEF Tombstoned, Database
  <2> QED BY <1>1, <2>1, <2>2, <2>3, Regrounded DEF CInv, Grounded
<1>7. CASE Removed
  <2>1. UNCHANGED <<docs, disk, bound, call>>
    BY <1>7 DEF Removed, durable
  <2>2. left' \in [Budgets -> Nat] /\ (left.joins = 0 => left'.joins = 0)
    BY <1>2, <1>3, <1>7, SpendKeeps, Zenon DEF Removed
  <2> QED BY <1>1, <2>1, <2>2, Regrounded DEF CInv, Grounded
<1>8. CASE SettlePod
  <2>1. UNCHANGED <<disk, call>> /\ call.of # "create"
    BY <1>8 DEF SettlePod, durable, Locked
  <2>2. left' \in [Budgets -> Nat] /\ (left.joins = 0 => left'.joins = 0)
    BY <1>2, <1>3, <1>8, SpendKeeps, Zenon DEF SettlePod
  <2>3. CASE OpenPod \/ OpenTombstone
    <3>1. /\ docs'.run = docs.run /\ docs'.recorded = docs.recorded
          /\ "membership" \in docs'.stores
      BY <1>2, <2>3 DEF OpenPod, OpenTombstone, ImportPod, ImportTombstone, Database
    <3> QED BY <1>1, <2>1, <2>2, <3>1, Regrounded DEF CInv, Grounded
  <2>4. CASE bound = "whole" /\ Own
             /\ docs' \in {docs, Tombstoned(docs, docs.run), ForgetPod(Tombstoned(docs, docs.run))}
    <3>1. docs.run > 0 /\ "membership" \in docs.stores
      BY <2>4 DEF CInv, Own
    <3>2. docs'.run = docs.run /\ "membership" \in docs'.stores /\ Grounded(docs')
      BY <1>2, <2>4, <3>1, DepartGrounds
    <3> QED BY <1>1, <2>1, <2>2, <3>1, <3>2, Regrounded DEF CInv
  <2>5. CASE docs' = ForgetPod(docs) /\ bound = "whole"
    <3>1. /\ docs'.run = docs.run /\ docs'.recorded = docs.recorded
          /\ docs'.stores = docs.stores \ {"records"}
      BY <1>2, <2>5 DEF ForgetPod, Database
    <3> QED BY <1>1, <2>1, <2>2, <2>5, <3>1, Regrounded DEF CInv, Grounded
  <2> QED BY <1>8, <2>3, <2>4, <2>5 DEF SettlePod, Depart, DepartFails
<1>9. CASE DocsSettle \/ PayloadsSettle
  <2>1. UNCHANGED <<docs, bound, call, left>> /\ disk' \in {disk, docs}
    BY <1>9 DEF DocsSettle, PayloadsSettle
  <2>2. Setting.creates > 0 => Grounded(docs') /\ Grounded(disk')
    BY <2>1 DEF CInv, Grounded
  <2> QED BY <1>1, <1>2, <2>1, <2>2, Regrounded DEF CInv
<1>10. CASE Killed
  <2>1. docs' = disk /\ disk' = disk /\ bound' = "none" /\ call' = NoCall
    BY <1>10 DEF Killed, durable
  <2>2. left' \in [Budgets -> Nat] /\ (left.joins = 0 => left'.joins = 0)
    BY <1>2, <1>3, <1>10, SpendKeeps, Zenon DEF Killed
  <2>3. NoCall.of = "none" /\ NoCall.at = "no" /\ Setting' = Setting
    BY <1>1 DEF NoCall, Setting
  <2> QED BY <1>1, <2>1, <2>2, <2>3 DEF CInv, Grounded
<1> QED BY <1>4, <1>5, <1>6, <1>7, <1>8, <1>9, <1>10

\* Every step keeps the second invariant beside the first.
LEMMA CreatedStep == Typed /\ CInv /\ [Next]_vars => CInv'
<1> SUFFICES ASSUME Typed, CInv, [Next]_vars PROVE CInv'
  OBVIOUS
<1>1. CASE UNCHANGED vars
  BY <1>1 DEF vars, durable, CInv, Grounded, Setting
<1>2. CASE Progress \/ Chance
  BY <1>2, CreateGrounded, JoinGrounded, OthersGrounded DEF Progress, Chance
<1> QED BY <1>1, <1>2 DEF Next

\* record_pod and create_to_record: in every behaviour, of any number of creates,
\* joins, departures, failures and kills, an entry on disk that lists the pod as
\* held has both tickets and their payloads on disk beside it, and a pod created
\* here and listed on disk has its membership store and the created event there.
THEOREM ListedAlwaysOpens == Spec => []ListedOpens
<1>1. IInv => Typed
  BY DEF IInv
<1>2. CInv => CreatedIsThere
  BY DEF CInv, CreatedIsThere, Grounded
<1>3. HeldHasTickets /\ CreatedIsThere => ListedOpens
  BY DEF ListedOpens
<1> QED BY <1>1, <1>2, <1>3, ListedHasTickets, CreatedInit, CreatedStep, PTL DEF Spec
=============================================================================
