-------------------------- MODULE ReconcileProofs ---------------------------
(***************************************************************************)
(* Sync sessions implement the replicas' promise, and an exchange that ends  *)
(* delivered what was served and taken, for every number of replicas, links, *)
(* keys, records and sessions.                                             *)
(*                                                                         *)
(* A message is answered from a view frozen earlier and put into a replica    *)
(* that moved on, so neither is inductive by itself.  For the promise, Inv    *)
(* adds what travels: every record of a view and of a message under way was  *)
(* written.  For the delivery, Owed says what is left to do for each key of   *)
(* a session: it is settled both ways, or a part of the message under way     *)
(* speaks for it; and the parts are honest, each what its sender's view has   *)
(* of its range.  That no key falls between two halves of a range is          *)
(* SplitCovers, which rests on the pivots being keys of it.                  *)
(***************************************************************************)
EXTENDS Reconcile, FiniteSetTheorems, WellFoundedInduction, TLAPS

\* A content every record of which is among those of w.
Known(c, w) == c \in Content /\ \A k \in Key : c[k] > 0 => <<k, c[k]>> \in w

KnownMessage(m, w) == \A p \in m : Known(p.values, w)

Inv ==
    /\ live \in [Replica -> Content]
    /\ \A r \in Replica : Known(live[r], written)
    /\ view \in [Links -> [Replica -> Content]]
    /\ \A s \in Links : \A r \in Replica : Known(view[s][r], written)
    /\ DOMAIN message = Links
    /\ \A s \in Links : KnownMessage(message[s], written)
    /\ to \in [Links -> Replica]

-----------------------------------------------------------------------------
(***************************************************************************)
(* What the operators of range reconciliation make is made of known records. *)
(***************************************************************************)

\* A part of a known content is known: what an access provider serves or takes.
LEMMA OnlyKnown ==
    ASSUME NEW w, NEW c, Known(c, w), NEW ks PROVE Known(Only(c, ks), w)
BY DEF Known, Only, Content

\* The entries of a range of a known content are known.
LEMMA WithinKnown ==
    ASSUME NEW w, NEW c, Known(c, w), NEW r PROVE Known(Within(c, r), w)
BY DEF Known, Within, Content

\* No entry at all is known.
LEMMA NothingKnown == ASSUME NEW w PROVE Known(Nothing, w)
BY DEF Known, Nothing, Content

\* Records stay known when more are written.
LEMMA KnownGrows ==
    ASSUME NEW w, NEW v, w \subseteq v, NEW c, Known(c, w) PROVE Known(c, v)
BY Zenon DEF Known

\* Message::init carries the fingerprint of the view alone.
LEMMA InitialKnown ==
    ASSUME NEW w, NEW c, Known(c, w) PROVE KnownMessage(Initial(c), w)
BY DEF KnownMessage, Initial, Part

\* What the other side lacks of a range comes from the view.
LEMMA DiffKnown ==
    ASSUME NEW w, NEW c, Known(c, w), NEW p PROVE Known(Diff(c, p), w)
<1>1. Known(Within(c, p.range), w)
  BY WithinKnown, Zenon
<1> QED BY <1>1 DEF Known, Diff, Content

\* process_message answers from the view alone, whatever the message claims.
LEMMA ReplyKnown ==
    ASSUME NEW w, NEW c, Known(c, w), NEW m PROVE KnownMessage(Reply(c, m), w)
<1> SUFFICES ASSUME NEW p \in m, NEW q \in Answer(c, p) PROVE Known(q.values, w)
  BY Zenon DEF KnownMessage, Reply
<1>1. CASE \E r : q = Chunk(c, r)
  BY <1>1, WithinKnown DEF Chunk, Part
<1>2. CASE q = Part(p.range, "rest", Diff(c, p))
  BY <1>2, DiffKnown, Zenon DEF Part
<1>3. CASE q = Part(p.range, "items", Within(c, p.range))
  BY <1>3, WithinKnown, Zenon DEF Part
<1> QED BY <1>1, <1>2, <1>3, Zenon DEF Answer

\* The entries a known message brings are known.
LEMMA CarriedKnown ==
    ASSUME NEW w, NEW m, KnownMessage(m, w) PROVE Known(Carried(m), w)
<1> DEFINE Brings(k) == \E p \in Items(m) : p.values[k] > 0
           Bringer(k) == CHOOSE p \in Items(m) : p.values[k] > 0
<1>1. ASSUME NEW k \in Key, Brings(k)
      PROVE  Bringer(k).values[k] \in Nat /\ <<k, Bringer(k).values[k]>> \in w
  <2>1. Bringer(k) \in Items(m) /\ Bringer(k).values[k] > 0
    BY <1>1, Zenon
  <2>2. Known(Bringer(k).values, w)
    BY <2>1, Zenon DEF Items, KnownMessage
  <2> QED BY <2>1, <2>2, Zenon DEF Known, Content
<1> DEFINE Value(k) == IF Brings(k) THEN Bringer(k).values[k] ELSE 0
<1>2. Carried(m) = [k \in Key |-> Value(k)]
  BY Zenon DEF Carried
<1>3. \A k \in Key : Value(k) \in Nat /\ (Value(k) > 0 => <<k, Value(k)>> \in w)
  BY <1>1
<1> HIDE DEF Value
<1> QED BY <1>2, <1>3, Zenon DEF Known, Content

\* What a message inserts is known, and later than what the replica holds.
LEMMA InsertedKnown ==
    ASSUME NEW r \in Replica, live \in [Replica -> Content], NEW m, KnownMessage(m, written)
    PROVE  /\ Known(Inserted(r, m), written)
           /\ \A k \in Key : Inserted(r, m)[k] > 0 => Inserted(r, m)[k] > live[r][k]
<1>1. Known(Admitted(r, m), written)
  BY CarriedKnown, OnlyKnown, Zenon DEF Admitted
<1> QED BY <1>1 DEF Inserted, Known, Content
-----------------------------------------------------------------------------
(***************************************************************************)
(* One step per action.                                                    *)
(***************************************************************************)

\* The replicas start as the promise has them start, with nothing under way.
LEMMA InitInv == Init => Inv /\ Promise!Init
<1> SUFFICES ASSUME Init PROVE Inv /\ Promise!Init
  BY Zenon
<1>1. live \in [Replica -> Content]
  BY ReconcileAssumption, Zenon DEF Init, Case
<1>2. Promise!Init
  BY <1>1 DEF Init, Promise!Init, Content
<1>3. \A r \in Replica : Known(live[r], written)
  BY <1>1 DEF Init, Known
<1>4. \A s \in Links : \A r \in Replica : Known(view[s][r], written)
  BY NothingKnown, Zenon DEF Init, NoViews
<1>5. view \in [Links -> [Replica -> Content]]
  BY Zenon DEF Init, NoViews, Nothing, Content
<1>6. DOMAIN message = Links /\ \A s \in Links : KnownMessage(message[s], written)
  BY Zenon DEF Init, KnownMessage
<1>7. to \in [Links -> Replica]
  BY ReconcileAssumption, Zenon DEF Init
<1> QED BY <1>1, <1>2, <1>3, <1>4, <1>5, <1>6, <1>7, Zenon DEF Inv

\* A local write is the promise's.
LEMMA WriteStep ==
    ASSUME Inv, NEW r \in Replica, NEW k \in Key, NEW v \in Rank, Write(r, k, v)
    PROVE  Inv' /\ Promise!Write(r, k, v)
<1>1. v \in Nat /\ written \subseteq written'
  BY ReconcileAssumption, Zenon DEF Write
<1>2. live' \in [Replica -> Content]
  BY <1>1, Zenon DEF Inv, Write, Content
<1>3. \A q \in Replica : Known(live'[q], written')
  <2> SUFFICES ASSUME NEW q \in Replica, NEW j \in Key, live'[q][j] > 0
               PROVE  <<j, live'[q][j]>> \in written'
    BY <1>2, Zenon DEF Known
  <2>1. CASE q = r /\ j = k
    BY <2>1, Zenon DEF Inv, Write, Content
  <2>2. CASE ~(q = r /\ j = k)
    <3>1. live'[q][j] = live[q][j]
      BY <2>2, Zenon DEF Inv, Write, Content
    <3> QED BY <3>1, <1>1, Zenon DEF Inv, Known
  <2> QED BY <2>1, <2>2, Zenon
<1>4. view' = view /\ message' = message /\ to' = to
  BY Zenon DEF Write, exchange
<1>5. \A s \in Links : \A q \in Replica : Known(view'[s][q], written')
  BY <1>1, <1>4, KnownGrows, Zenon DEF Inv
<1>6. \A s \in Links : KnownMessage(message'[s], written')
  BY <1>1, <1>4, KnownGrows, Zenon DEF Inv, KnownMessage
<1> QED BY <1>2, <1>3, <1>4, <1>5, <1>6, Zenon DEF Inv, Write, Promise!Write

\* A session begins: its view and its first message are the replica's own records.
LEMMA StartStep ==
    ASSUME Inv, NEW s \in Links, Start(s)
    PROVE  Inv' /\ UNCHANGED <<live, written>>
<1>1. live' = live /\ written' = written
  BY Zenon DEF Start, store
<1>2. s[1] \in Replica /\ s[2] \in Replica
  BY ReconcileAssumption, Zenon
<1>3. Known(View(s[1]), written)
  BY <1>2, OnlyKnown, Zenon DEF Inv, View
<1>4. view' \in [Links -> [Replica -> Content]]
  BY <1>2, <1>3, NothingKnown, Zenon DEF Inv, Start, NoViews, Known
<1>5. \A t \in Links : \A q \in Replica : Known(view'[t][q], written)
  BY <1>2, <1>3, NothingKnown, Zenon DEF Inv, Start, NoViews
<1>6. DOMAIN message' = Links /\ \A t \in Links : KnownMessage(message'[t], written)
  BY <1>3, InitialKnown, Zenon DEF Inv, Start
<1>7. to' \in [Links -> Replica]
  BY <1>2, Zenon DEF Inv, Start
<1> QED BY <1>1, <1>4, <1>5, <1>6, <1>7, Zenon DEF Inv

\* The accepting side takes its view.
LEMMA AcceptStep ==
    ASSUME Inv, NEW s \in Links, Accept(s)
    PROVE  Inv' /\ UNCHANGED <<live, written>>
<1>1. live' = live /\ written' = written /\ message' = message /\ to' = to
  BY Zenon DEF Accept, store
<1>2. s[2] \in Replica
  BY ReconcileAssumption, Zenon
<1>3. Known(View(s[2]), written)
  BY <1>2, OnlyKnown, Zenon DEF Inv, View
<1>4. view' \in [Links -> [Replica -> Content]]
  BY <1>2, <1>3, Zenon DEF Inv, Accept, Known
<1>5. \A t \in Links : \A q \in Replica : Known(view'[t][q], written)
  BY <1>2, <1>3, Zenon DEF Inv, Accept
<1> QED BY <1>1, <1>4, <1>5, Zenon DEF Inv

\* A round: the replica learns written records, each later than the one it had.
LEMMA ReceiveStep ==
    ASSUME Inv, NEW s \in Links, Receive(s)
    PROVE  Inv' /\ \E r \in Replica : Promise!Learn(r)
<1> DEFINE r == to[s]
           put == Inserted(r, message[s])
<1>1. r \in Replica
  BY Zenon DEF Inv
<1>2. Known(put, written) /\ \A k \in Key : put[k] > 0 => put[k] > live[r][k]
  BY <1>1, InsertedKnown, Zenon DEF Inv
<1>3. /\ live' = [live EXCEPT ![r] = Put(live[r], put)]
      /\ message' = [message EXCEPT ![s] = Reply(view[s][r], message[s])]
      /\ to' = [to EXCEPT ![s] = IF r = s[1] THEN s[2] ELSE s[1]]
      /\ written' = written /\ view' = view
  BY Zenon DEF Receive
<1> HIDE DEF r, put
<1>4. /\ Put(live[r], put) \in Content
      /\ \A k \in Key : Put(live[r], put)[k] = IF put[k] > 0 THEN put[k] ELSE live[r][k]
  BY <1>1, <1>2, Zenon DEF Put, Inv, Known, Content
<1>5. Known(Put(live[r], put), written)
  BY <1>1, <1>2, <1>4, Zenon DEF Inv, Known
<1>6. live' \in [Replica -> Content] /\ \A q \in Replica : Known(live'[q], written)
  BY <1>1, <1>3, <1>4, <1>5, Zenon DEF Inv
<1>7. KnownMessage(Reply(view[s][r], message[s]), written)
  BY <1>1, ReplyKnown, Zenon DEF Inv
<1>8. DOMAIN message' = Links /\ \A t \in Links : KnownMessage(message'[t], written)
  BY <1>3, <1>7, Zenon DEF Inv
<1>9. to' \in [Links -> Replica]
  BY <1>3, ReconcileAssumption, Zenon DEF Inv
<1>10. Inv'
  BY <1>3, <1>6, <1>8, <1>9, Zenon DEF Inv
<1>11. ASSUME NEW k \in Key
       PROVE  \/ live'[r][k] = live[r][k]
              \/ live'[r][k] > live[r][k] /\ <<k, live'[r][k]>> \in written
  <2>1. live'[r][k] = IF put[k] > 0 THEN put[k] ELSE live[r][k]
    BY <1>1, <1>3, <1>4, Zenon DEF Inv
  <2> QED BY <2>1, <1>2, Zenon DEF Known
<1>12. Promise!Learn(r)
  BY <1>1, <1>3, <1>6, <1>11, Zenon DEF Promise!Learn, Inv, Content
<1> QED BY <1>1, <1>10, <1>12, Zenon

\* A cut leaves what was put.
LEMMA CutStep ==
    ASSUME Inv, NEW s \in Links, Cut(s)
    PROVE  Inv' /\ UNCHANGED <<live, written>>
<1>1. live' = live /\ written' = written
  BY Zenon DEF Cut, store
<1>2. view' \in [Links -> [Replica -> Content]]
  BY NothingKnown, Zenon DEF Inv, Cut, NoViews, Known
<1>3. \A t \in Links : \A q \in Replica : Known(view'[t][q], written)
  BY NothingKnown, Zenon DEF Inv, Cut, NoViews
<1>4. DOMAIN message' = Links /\ \A t \in Links : KnownMessage(message'[t], written)
  BY Zenon DEF Inv, Cut, KnownMessage
<1>5. to' \in [Links -> Replica]
  BY ReconcileAssumption, Zenon DEF Inv, Cut
<1> QED BY <1>1, <1>2, <1>3, <1>4, <1>5, Zenon DEF Inv

\* Every step keeps what travels known, and is a step of the promise or none.
LEMMA NextStep == Inv /\ [Next]_vars => Inv' /\ [Promise!Next]_(Promise!vars)
<1> SUFFICES ASSUME Inv, [Next]_vars PROVE Inv' /\ [Promise!Next]_(Promise!vars)
  BY Zenon
<1>1. ASSUME NEW r \in Replica, NEW k \in Key, NEW v \in Rank, Write(r, k, v)
      PROVE  Inv' /\ Promise!Next
  BY <1>1, WriteStep, Zenon DEF Promise!Next
<1>2. ASSUME NEW s \in Links, Start(s) \/ Accept(s) \/ Cut(s)
      PROVE  Inv' /\ UNCHANGED Promise!vars
  BY <1>2, StartStep, AcceptStep, CutStep, Zenon DEF Promise!vars
<1>3. ASSUME NEW s \in Links, Receive(s) PROVE Inv' /\ Promise!Next
  BY <1>3, ReceiveStep, Zenon DEF Promise!Next
<1>4. CASE UNCHANGED vars
  BY <1>4, Zenon DEF vars, store, exchange, Inv, Promise!vars
<1> QED BY <1>1, <1>2, <1>3, <1>4, Zenon DEF Next

\* Whatever the sessions, their filters, local writes beside them and cut
\* connections: a replica holds only records somebody wrote, and gives one up for a
\* later one at its key alone (insert_entry and Store::put over a session's frozen
\* view).
THEOREM SessionsKeepPromise == Spec => Refines
<1>1. Init => Inv /\ Promise!Init
  BY InitInv, Zenon
<1>2. Inv /\ [Next]_vars => Inv' /\ [Promise!Next]_(Promise!vars)
  BY NextStep, Zenon
<1> QED BY <1>1, <1>2, PTL DEF Spec, Refines, Promise!Spec
-----------------------------------------------------------------------------
(***************************************************************************)
(* A range is cut in two at keys of the view (ranger.rs process_message), and *)
(* no key of it is lost between the two.                                    *)
(***************************************************************************)

\* A set of keys has a first one, the point Message::init begins at.
LEMMA MinIsOne == ASSUME NEW S \in SUBSET Nat, S # {} PROVE Min(S) \in S
<1>1. PICK m \in S : \A s \in S : ~(<<s, m>> \in OpToRel(<, Nat))
  BY NatLessThanWellFounded, WFMin, Zenon
<1>2. \A s \in S : m <= s
  <2> TAKE s \in S
  <2>1. s \in Nat /\ m \in Nat
    BY Zenon
  <2>2. ~(s < m)
    BY <1>1, <2>1, Zenon DEF OpToRel
  <2> QED BY <2>1, <2>2
<1>3. \E x \in S : \A y \in S : x <= y
  BY <1>2, Zenon
<1> QED BY <1>3, Zenon DEF Min

\* Counted from x on around, of the keys before k.
Before(ks, x, k) == {j \in ks : IF (j >= x) <=> (k >= x) THEN j < k ELSE j >= x}

\* Two keys are at different places.
LEMMA PlacesDiffer ==
    ASSUME NEW ks, IsFiniteSet(ks), ks \subseteq Nat, NEW x \in Nat,
           NEW j \in ks, NEW k \in ks, j # k
    PROVE  Place(ks, x, j) # Place(ks, x, k)
<1>1. ASSUME NEW a \in ks, NEW b \in ks, Before(ks, x, a) \subseteq Before(ks, x, b),
             a \in Before(ks, x, b), a \notin Before(ks, x, a)
      PROVE  Place(ks, x, a) # Place(ks, x, b)
  <2>1. Before(ks, x, b) \in SUBSET ks
    BY Zenon DEF Before
  <2>2. IsFiniteSet(Before(ks, x, b))
    BY <2>1, FS_Subset, Zenon
  <2>3. Cardinality(Before(ks, x, b)) # Cardinality(Before(ks, x, a))
    BY <1>1, <2>2, FS_Subset, Zenon
  <2> QED BY <2>3, Zenon DEF Place, Before
<1>2. ASSUME NEW a \in ks, NEW b \in ks, a \in Before(ks, x, b)
      PROVE  Before(ks, x, a) \subseteq Before(ks, x, b)
  <2> SUFFICES ASSUME NEW e \in Before(ks, x, a) PROVE e \in Before(ks, x, b)
    BY Zenon
  <2>1. e \in ks /\ e \in Nat /\ a \in Nat /\ b \in Nat
    BY Zenon DEF Before
  <2>2. IF (e >= x) <=> (a >= x) THEN e < a ELSE e >= x
    BY Zenon DEF Before
  <2>3. IF (a >= x) <=> (b >= x) THEN a < b ELSE a >= x
    BY <1>2, Zenon DEF Before
  <2>4. IF (e >= x) <=> (b >= x) THEN e < b ELSE e >= x
    BY <2>1, <2>2, <2>3
  <2> QED BY <2>1, <2>4, Zenon DEF Before
<1>3. ASSUME NEW a \in ks, NEW b \in ks, a \in Before(ks, x, b)
      PROVE  Place(ks, x, a) # Place(ks, x, b)
  <2>1. a \notin Before(ks, x, a)
    BY DEF Before
  <2> QED BY <2>1, <1>1, <1>2, <1>3, Zenon
<1>4. j \in Before(ks, x, k) \/ k \in Before(ks, x, j)
  BY DEF Before
<1> QED BY <1>3, <1>4, Zenon

\* Every place is a key's, so the pivots are keys of the range.
LEMMA EveryPlaceIsTaken ==
    ASSUME NEW ks, IsFiniteSet(ks), ks \subseteq Nat, NEW x \in Nat,
           NEW i \in 0 .. Cardinality(ks) - 1
    PROVE  \E k \in ks : Place(ks, x, k) = i
<1> DEFINE n == Cardinality(ks)
           T == 0 .. n - 1
           f == [k \in ks |-> Place(ks, x, k)]
<1>1. n \in Nat
  BY FS_CardinalityType, Zenon
<1>2. ASSUME NEW k \in ks PROVE Place(ks, x, k) \in T
  <2>1. Before(ks, x, k) \in SUBSET (ks \ {k})
    BY DEF Before
  <2>2. IsFiniteSet(ks \ {k}) /\ Cardinality(ks \ {k}) = n - 1
    BY FS_RemoveElement, Zenon
  <2>3. /\ Cardinality(Before(ks, x, k)) <= Cardinality(ks \ {k})
        /\ IsFiniteSet(Before(ks, x, k))
    BY <2>1, <2>2, FS_Subset, Zenon
  <2>4. Cardinality(Before(ks, x, k)) \in Nat
    BY <2>3, FS_CardinalityType, Zenon
  <2>5. Place(ks, x, k) = Cardinality(Before(ks, x, k))
    BY Zenon DEF Place, Before
  <2> QED BY <1>1, <2>2, <2>3, <2>4, <2>5
<1>3. IsFiniteSet(T) /\ Cardinality(T) = n
  <2>1. 0 \in Int /\ n - 1 \in Int
    BY <1>1
  <2>2. IsFiniteSet(T) /\ Cardinality(T) = IF 0 > n - 1 THEN 0 ELSE n - 1 - 0 + 1
    BY <2>1, FS_Interval, Zenon
  <2> QED BY <1>1, <2>2
<1>4. f \in Injection(ks, T)
  <2>1. f \in [ks -> T]
    BY <1>2, Zenon
  <2>2. \A j, k \in ks : f[j] = f[k] => j = k
    BY PlacesDiffer, Zenon
  <2> QED BY <2>1, <2>2, Zenon DEF Injection, IsInjective
<1>5. f \in Surjection(ks, T)
  <2> HIDE DEF f, T
  <2> QED BY <1>3, <1>4, FS_Injection, Zenon
<1> QED BY <1>5, Zenon DEF Surjection

\* The ranges of the messages: their ends are keys or the start of all.
IsRange(r) == r.x \in Key \cup {0} /\ r.y \in Key \cup {0}

\* The two pivots of more than one key are keys, and differ.
LEMMA PivotsAreKeys ==
    ASSUME NEW ks, ks \subseteq Key, Cardinality(ks) > 1, NEW x \in Nat
    PROVE  /\ Pivot(ks, x, 0) \in ks /\ Pivot(ks, x, 1) \in ks
           /\ Pivot(ks, x, 0) # Pivot(ks, x, 1)
<1> DEFINE n == Cardinality(ks)
           at(i) == ((n * (i + 1)) \div 2) % n
<1>1. IsFiniteSet(ks) /\ ks \subseteq Nat
  BY KeyAssumption, FS_Subset, Zenon
<1>2. n \in Nat /\ n > 1
  BY <1>1, FS_CardinalityType, Zenon
<1>3. at(0) \in 1 .. n - 1
  BY <1>2
<1>4. at(1) = 0
  BY <1>2
<1>5. ASSUME NEW i, at(i) \in 0 .. n - 1
      PROVE  Pivot(ks, x, i) \in ks /\ Place(ks, x, Pivot(ks, x, i)) = at(i)
  <2>1. \E k \in ks : Place(ks, x, k) = at(i)
    BY <1>1, <1>5, EveryPlaceIsTaken, Zenon
  <2> QED BY <2>1, Zenon DEF Pivot
<1>6. at(0) \in 0 .. n - 1 /\ at(1) \in 0 .. n - 1 /\ at(0) # at(1)
  BY <1>2, <1>3, <1>4
<1> HIDE DEF at, n
<1> QED BY <1>5, <1>6, Zenon

\* The three kinds of range.
Between(x, y, k) ==
    \/ x = y
    \/ x < y /\ x <= k /\ k < y
    \/ x > y /\ (x <= k \/ k < y)

LEMMA ContainsIs ==
    ASSUME NEW r, r.x \in Nat, r.y \in Nat, NEW k \in Nat
    PROVE  Contains(r, k) <=> Between(r.x, r.y, k)
<1>1. CASE r.x = r.y
  <2>1. ~(r.x < r.y) /\ ~(r.x > r.y)
    BY <1>1
  <2>2. Contains(r, k)
    BY <1>1, <2>1, Zenon DEF Contains
  <2> QED BY <1>1, <2>2, Zenon DEF Between
<1>2. CASE r.x < r.y
  <2>1. r.x # r.y /\ ~(r.x > r.y)
    BY <1>2
  <2>2. Contains(r, k) <=> r.x <= k /\ k < r.y
    BY <1>2, <2>1, Zenon DEF Contains
  <2> QED BY <1>2, <2>1, <2>2, Zenon DEF Between
<1>3. CASE r.x > r.y
  BY <1>3 DEF Contains, Between
<1> QED BY <1>1, <1>2, <1>3

\* The same of a range given by its ends.
LEMMA ContainsOfEnds ==
    ASSUME NEW x \in Nat, NEW y \in Nat, NEW k \in Nat
    PROVE  Contains([x |-> x, y |-> y], k) <=> Between(x, y, k)
<1> DEFINE r == [x |-> x, y |-> y]
<1>1. r.x = x /\ r.y = y
  BY Zenon
<1> HIDE DEF r
<1>2. Contains(r, k) <=> Between(r.x, r.y, k)
  BY <1>1, ContainsIs, Zenon
<1> QED BY <1>1, <1>2, Zenon DEF r

\* Both halves are ranges, and a key of the range is in one of them.
LEMMA SplitCovers ==
    ASSUME NEW c \in Content, NEW r, IsRange(r), Cardinality(Held(Within(c, r))) > 1
    PROVE  /\ \A h \in Split(c, r) : IsRange(h)
           /\ \A k \in Key : Contains(r, k) => \E h \in Split(c, r) : Contains(h, k)
<1> DEFINE ks == Held(Within(c, r))
           p == Pivot(ks, r.x, 0)
           q == Pivot(ks, r.x, 1)
<1>1. ks \subseteq Key /\ \A k \in ks : Contains(r, k)
  BY DEF Held, Within
<1>2. r.x \in Nat /\ r.y \in Nat
  <2>1. \A k \in Key \cup {0} : k \in Nat
    BY KeyAssumption
  <2> QED BY <2>1, Zenon DEF IsRange
<1>3. p \in ks /\ q \in ks /\ p # q
  BY <1>1, <1>2, PivotsAreKeys, Zenon
<1>4. p \in Key /\ q \in Key /\ p \in Nat /\ q \in Nat /\ Contains(r, p)
  BY <1>1, <1>3, KeyAssumption, Zenon
<1>5. Split(c, r) = IF r.x = r.y THEN {h \in {[x |-> p, y |-> q], [x |-> q, y |-> p]} : h.x # h.y}
                    ELSE {[x |-> r.x, y |-> p], [x |-> p, y |-> r.y]}
  BY Zenon DEF Split
<1> HIDE DEF ks, p, q
<1>6. CASE r.x = r.y
  <2>1. Split(c, r) = {[x |-> p, y |-> q], [x |-> q, y |-> p]}
    BY <1>3, <1>5, <1>6, Zenon
  <2>2. IsRange([x |-> p, y |-> q]) /\ IsRange([x |-> q, y |-> p])
    BY <1>4, Zenon DEF IsRange
  <2>3. ASSUME NEW k \in Key
        PROVE  Contains([x |-> p, y |-> q], k) \/ Contains([x |-> q, y |-> p], k)
    <3>1. k \in Nat
      BY KeyAssumption, Zenon
    <3>2. Between(p, q, k) \/ Between(q, p, k)
      BY <3>1, <1>4 DEF Between
    <3> QED BY <3>1, <3>2, <1>4, ContainsOfEnds, Zenon
  <2> QED BY <2>1, <2>2, <2>3, Zenon
<1>7. CASE r.x # r.y
  <2>1. Split(c, r) = {[x |-> r.x, y |-> p], [x |-> p, y |-> r.y]}
    BY <1>5, <1>7, Zenon
  <2>2. IsRange([x |-> r.x, y |-> p]) /\ IsRange([x |-> p, y |-> r.y])
    BY <1>4, Zenon DEF IsRange
  <2>3. ASSUME NEW k \in Key, Contains(r, k)
        PROVE  Contains([x |-> r.x, y |-> p], k) \/ Contains([x |-> p, y |-> r.y], k)
    <3>1. k \in Nat
      BY KeyAssumption, Zenon
    <3>2. Between(r.x, r.y, k) /\ Between(r.x, r.y, p)
      BY <3>1, <2>3, <1>2, <1>4, ContainsIs, Zenon
    <3>3. Between(r.x, p, k) \/ Between(p, r.y, k)
      BY <3>1, <3>2, <1>2, <1>4, <1>7 DEF Between
    <3> QED BY <3>1, <3>3, <1>2, <1>4, ContainsOfEnds, Zenon
  <2> QED BY <2>1, <2>2, <2>3, Zenon
<1> QED BY <1>6, <1>7, Zenon
-----------------------------------------------------------------------------
(***************************************************************************)
(* What a session owes each key.  Inv does not say that a message still       *)
(* speaks for a key neither side has told the other of: Owed does.           *)
(***************************************************************************)

Other(s, r) == IF r = s[1] THEN s[2] ELSE s[1]

\* What of a range of c is later than what d holds there.
Rest(c, d, r) == [k \in Key |-> IF Contains(r, k) /\ c[k] > d[k] THEN c[k] ELSE 0]

\* A part is what a side whose view is c says to one whose view is d.
Honest(p, c, d) ==
    /\ IsRange(p.range) /\ p.kind \in Kinds
    /\ IF p.kind = "rest" THEN p.values = Rest(c, d, p.range)
       ELSE p.values = Within(c, p.range)

\* r has, or does not take, what is as late as v at k.
Got(r, k, v) == k \in rules.takes[r] => live[r][k] >= v

Settled(s, k) ==
    /\ Got(s[1], k, view[s][s[2]][k])
    /\ Got(s[2], k, view[s][s[1]][k])

\* A part that speaks for k; the last of a range follows what its sender took.
Spoken(p, r, c, k) == Contains(p.range, k) /\ (p.kind = "rest" => Got(r, k, c[k]))

Owed(s) ==
    LET r == to[s]
        q == Other(s, r)
        m == message[s]
    IN /\ r \in Sides(s)
       /\ state[s] = "dialed" =>
             /\ r = s[2]
             /\ \A p \in m : p.kind = "fingerprint" /\ Honest(p, view[s][q], view[s][r])
             /\ \A k \in Key : \E p \in m : Contains(p.range, k)
       /\ state[s] = "open" =>
             /\ \A p \in m : Honest(p, view[s][q], view[s][r])
             /\ \A k \in Key : Settled(s, k) \/ \E p \in m : Spoken(p, q, view[s][r], k)
       /\ state[s] = "done" => \A k \in Key : Settled(s, k)

\* A view is never ahead of the replica it was taken from.
Lags == \A s \in Links, r \in Replica, k \in Key : view[s][r][k] <= live[r][k]

-----------------------------------------------------------------------------
\* Answers are honest, of the one who gives them.
LEMMA AnswerHonest ==
    ASSUME NEW c \in Content, NEW d \in Content, NEW p, Honest(p, c, d), NEW q \in Answer(d, p)
    PROVE  Honest(q, d, c)
<1>1. IsRange(p.range)
  BY Zenon DEF Honest
<1>2. CASE p.kind = "items" /\ q = Part(p.range, "rest", Diff(d, p))
  <2>1. p.values = Within(c, p.range)
    BY <1>2, Zenon DEF Honest
  <2>2. ASSUME NEW k \in Key
        PROVE  (IF p.values[k] >= Within(d, p.range)[k] THEN 0 ELSE Within(d, p.range)[k])
               = IF Contains(p.range, k) /\ d[k] > c[k] THEN d[k] ELSE 0
    BY <2>1 DEF Within, Content
  <2>3. Diff(d, p) = Rest(d, c, p.range)
    BY <2>2, Zenon DEF Diff, Rest
  <2> QED BY <1>1, <1>2, <2>3, Zenon DEF Honest, Part, Kinds
<1>3. CASE q = Part(p.range, "items", Within(d, p.range))
  BY <1>1, <1>3, Zenon DEF Honest, Part, Kinds
<1>4. CASE Recurses(d, p) /\ \E r \in Split(d, p.range) : q = Chunk(d, r)
  <2>1. Cardinality(Held(Within(d, p.range))) > 1
    BY <1>4, Zenon DEF Recurses
  <2>2. PICK r \in Split(d, p.range) : q = Chunk(d, r)
    BY <1>4, Zenon
  <2>3. IsRange(r)
    BY <1>1, <2>1, SplitCovers, Zenon
  <2>4. q.range = r /\ q.kind \in {"fingerprint", "items"} /\ q.values = Within(d, r)
    BY <2>2, Zenon DEF Chunk, Part
  <2> QED BY <2>3, <2>4, Zenon DEF Honest, Kinds
<1> QED BY <1>2, <1>3, <1>4, Zenon DEF Answer

\* A key of a part is spoken for by the answer, unless the two views agree there
\* or the sender of the part is ahead.
LEMMA AnswerSpeaks ==
    ASSUME NEW c \in Content, NEW d \in Content, NEW p, Honest(p, c, d), p.kind # "rest",
           NEW k \in Key, Contains(p.range, k)
    PROVE  \/ \E q \in Answer(d, p) :
                 Contains(q.range, k) /\ (q.kind = "rest" => p.kind = "items")
           \/ p.kind = "items" /\ d[k] <= c[k]
           \/ p.kind = "fingerprint" /\ d[k] = c[k]
<1>1. p.values = Within(c, p.range) /\ IsRange(p.range) /\ p.kind \in {"items", "fingerprint"}
  BY Zenon DEF Honest, Kinds
<1>2. c[k] \in Nat /\ d[k] \in Nat /\ p.values[k] = c[k] /\ Within(d, p.range)[k] = d[k]
  BY <1>1, Zenon DEF Content, Within
<1>3. CASE p.kind = "items"
  <2>1. CASE Held(Diff(d, p)) = {}
    <3>1. ~(Diff(d, p)[k] > 0)
      BY <2>1, Zenon DEF Held
    <3>2. Diff(d, p)[k] = IF c[k] >= d[k] THEN 0 ELSE d[k]
      BY <1>2, Zenon DEF Diff
    <3> QED BY <1>2, <1>3, <3>1, <3>2
  <2>2. CASE Held(Diff(d, p)) # {}
    <3>1. Answer(d, p) = {Part(p.range, "rest", Diff(d, p))}
      BY <1>3, <2>2, Zenon DEF Answer
    <3> QED BY <1>3, <3>1, Zenon DEF Part
  <2> QED BY <2>1, <2>2, Zenon
<1>4. CASE p.kind = "fingerprint"
  <2>1. CASE Within(d, p.range) = p.values
    BY <1>2, <1>4, <2>1, Zenon
  <2>2. CASE Within(d, p.range) # p.values /\ Recurses(d, p)
    <3>1. Answer(d, p) = {Chunk(d, r) : r \in Split(d, p.range)}
      BY <1>4, <2>2, Zenon DEF Answer
    <3>2. Cardinality(Held(Within(d, p.range))) > 1
      BY <2>2, Zenon DEF Recurses
    <3>3. PICK r \in Split(d, p.range) : Contains(r, k)
      BY <1>1, <3>2, SplitCovers, Zenon
    <3>4. Chunk(d, r).range = r /\ Chunk(d, r).kind # "rest"
      BY Zenon DEF Chunk, Part
    <3> QED BY <3>1, <3>3, <3>4, Zenon
  <2>3. CASE Within(d, p.range) # p.values /\ ~Recurses(d, p)
    <3>1. Answer(d, p) = {Part(p.range, "items", Within(d, p.range))}
      BY <1>4, <2>3, Zenon DEF Answer
    <3> QED BY <3>1 DEF Part
  <2> QED BY <2>1, <2>2, <2>3, Zenon
<1> QED BY <1>1, <1>3, <1>4, Zenon

\* What an honest message brings of a key is what its sender's view has there.
LEMMA CarriedIs ==
    ASSUME NEW c \in Content, NEW d \in Content, NEW m, \A p \in m : Honest(p, c, d),
           NEW p \in m, p.kind # "fingerprint", NEW k \in Key, Contains(p.range, k),
           p.kind = "rest" => c[k] > d[k]
    PROVE  Carried(m)[k] = c[k]
<1> DEFINE Brings(q) == q.values[k] > 0
           q == CHOOSE o \in Items(m) : Brings(o)
<1>1. Carried(m)[k] = IF \E o \in Items(m) : Brings(o) THEN q.values[k] ELSE 0
  BY Zenon DEF Carried
<1>2. ASSUME NEW o \in Items(m) PROVE o.values[k] \in {0, c[k]}
  <2>1. Honest(o, c, d)
    BY Zenon DEF Items
  <2> QED BY <2>1, Zenon DEF Honest, Within, Rest
<1>3. p \in Items(m)
  BY Zenon DEF Items
<1>4. c[k] \in Nat /\ d[k] \in Nat
  BY Zenon DEF Content
<1>5. p.values[k] = c[k]
  <2>1. Honest(p, c, d)
    BY Zenon
  <2> QED BY <2>1, Zenon DEF Honest, Within, Rest
<1>6. CASE c[k] = 0
  <2>1. \A o \in Items(m) : ~Brings(o)
    BY <1>2, <1>6
  <2> QED BY <1>1, <1>6, <2>1, Zenon
<1>7. CASE c[k] > 0
  <2>1. Brings(p)
    BY <1>5, <1>7, Zenon
  <2>2. q \in Items(m) /\ Brings(q)
    BY <1>3, <2>1, Zenon
  <2>3. q.values[k] = c[k]
    BY <1>2, <2>2
  <2> QED BY <1>1, <1>3, <2>1, <2>3, Zenon
<1> QED BY <1>4, <1>6, <1>7

\* Once taken, the record of a message is held, or a later one.
LEMMA TakenIsHeld ==
    ASSUME Inv, NEW r \in Replica, NEW m, KnownMessage(m, written), NEW k \in Key,
           k \in rules.takes[r]
    PROVE  Put(live[r], Inserted(r, m))[k] >= Carried(m)[k]
<1>1. Known(Carried(m), written)
  BY CarriedKnown, Zenon
<1>2. Carried(m)[k] \in Nat /\ live[r][k] \in Nat
  BY <1>1, Zenon DEF Inv, Known, Content
<1>3. Admitted(r, m)[k] = Carried(m)[k]
  BY Zenon DEF Admitted, Only
<1>4. Inserted(r, m)[k] = IF Carried(m)[k] > live[r][k] THEN Carried(m)[k] ELSE 0
  BY <1>3, Zenon DEF Inserted
<1>5. Put(live[r], Inserted(r, m))[k]
        = IF Inserted(r, m)[k] > 0 THEN Inserted(r, m)[k] ELSE live[r][k]
  BY Zenon DEF Put
<1> QED BY <1>2, <1>4, <1>5

\* No step takes a record from a replica but for a later one.
LEMMA LiveGrows ==
    ASSUME Inv, Inv', [Promise!Next]_(Promise!vars)
    PROVE  \A r \in Replica, k \in Key :
              live[r][k] \in Nat /\ live'[r][k] \in Nat /\ live'[r][k] >= live[r][k]
<1>1. \A r \in Replica, k \in Key : live[r][k] \in Nat /\ live'[r][k] \in Nat
  BY Zenon DEF Inv, Content
<1>2. CASE UNCHANGED Promise!vars
  BY <1>1, <1>2 DEF Promise!vars
<1>3. ASSUME NEW q \in Replica, NEW j \in Key, NEW v \in Rank, Promise!Write(q, j, v)
      PROVE  \A r \in Replica, k \in Key : live'[r][k] >= live[r][k]
  <2> SUFFICES ASSUME NEW r \in Replica, NEW k \in Key PROVE live'[r][k] >= live[r][k]
    BY Zenon
  <2>1. live' = [live EXCEPT ![q][j] = v] /\ v > live[q][j]
    BY <1>3, Zenon DEF Promise!Write
  <2>2. CASE r = q /\ k = j
    <3>1. live'[r][k] = v
      BY <2>1, <2>2, Zenon DEF Inv, Content
    <3> QED BY <1>1, <2>1, <2>2, <3>1
  <2>3. CASE ~(r = q /\ k = j)
    <3>1. live'[r][k] = live[r][k]
      BY <2>1, <2>3, Zenon DEF Inv, Content
    <3> QED BY <1>1, <3>1
  <2> QED BY <2>2, <2>3, Zenon
<1>4. ASSUME NEW q \in Replica, Promise!Learn(q)
      PROVE  \A r \in Replica, k \in Key : live'[r][k] >= live[r][k]
  <2> SUFFICES ASSUME NEW r \in Replica, NEW k \in Key PROVE live'[r][k] >= live[r][k]
    BY Zenon
  <2>1. live'[r][k] = live[r][k] \/ live'[r][k] > live[r][k]
    BY <1>4, Zenon DEF Promise!Learn
  <2> QED BY <2>1, <1>1
<1>5. \A r \in Replica, k \in Key : live'[r][k] >= live[r][k]
  BY <1>2, <1>3, <1>4, Zenon DEF Promise!Next
<1> QED BY <1>1, <1>5, Zenon

\* What was got stays so: live only grows, and the rules stand.
LEMMA GotStays ==
    ASSUME rules' = rules, NEW r \in Replica, NEW k \in Key, NEW v \in Nat, Got(r, k, v),
           live[r][k] \in Nat, live'[r][k] \in Nat, live'[r][k] >= live[r][k]
    PROVE  Got(r, k, v)'
<1>1. CASE k \notin rules.takes[r]
  BY <1>1, Zenon DEF Got
<1>2. CASE k \in rules.takes[r]
  <2>1. live[r][k] >= v
    BY <1>2, Zenon DEF Got
  <2>2. live'[r][k] >= v
    BY <2>1
  <2> QED BY <2>2, Zenon DEF Got
<1> QED BY <1>1, <1>2, Zenon

Grows == \A r \in Replica, k \in Key :
            live[r][k] \in Nat /\ live'[r][k] \in Nat /\ live'[r][k] >= live[r][k]

\* The two sides of a link.
LEMMA TwoSides ==
    ASSUME NEW s \in Links
    PROVE  /\ s[1] \in Replica /\ s[2] \in Replica /\ s[1] # s[2]
           /\ \A r \in Sides(s) :
                 /\ r \in Replica /\ Other(s, r) \in Replica /\ Other(s, r) \in Sides(s)
                 /\ Other(s, r) # r /\ Other(s, Other(s, r)) = r
<1>1. s[1] \in Replica /\ s[2] \in Replica /\ s[1] # s[2]
  BY ReconcileAssumption, Zenon
<1> SUFFICES ASSUME NEW r \in Sides(s)
             PROVE  /\ r \in Replica /\ Other(s, r) \in Replica /\ Other(s, r) \in Sides(s)
                    /\ Other(s, r) # r /\ Other(s, Other(s, r)) = r
  BY <1>1, Zenon
<1>2. CASE r = s[1]
  BY <1>1, <1>2, Zenon DEF Sides, Other
<1>3. CASE r = s[2]
  BY <1>1, <1>3, Zenon DEF Sides, Other
<1> QED BY <1>2, <1>3, Zenon DEF Sides

\* Settled, by either side's name.
LEMMA SettledEither ==
    ASSUME NEW s \in Links, NEW r \in Sides(s), NEW k
    PROVE  Settled(s, k) <=> /\ Got(r, k, view[s][Other(s, r)][k])
                             /\ Got(Other(s, r), k, view[s][r][k])
BY TwoSides, Zenon DEF Settled, Sides, Other

\* A session a step leaves alone is owed no less, whatever its replicas took.
LEMMA OwedStays ==
    ASSUME Inv, Inv', Grows, rules' = rules, NEW s \in Links, Owed(s),
           state'[s] = state[s], view'[s] = view[s], message'[s] = message[s], to'[s] = to[s]
    PROVE  Owed(s)'
<1>1. PICK r \in Sides(s) : r = to[s]
  BY Zenon DEF Owed
<1>2. PICK q \in Sides(s) : q = Other(s, r)
  BY TwoSides, Zenon
<1>3. ASSUME NEW k \in Key, NEW a \in Sides(s), NEW b \in Sides(s), Got(a, k, view[s][b][k])
      PROVE  Got(a, k, view[s][b][k])'
  <2>1. a \in Replica /\ b \in Replica /\ view[s][b][k] \in Nat
    <3>1. a \in Replica /\ b \in Replica
      BY TwoSides, Zenon
    <3> QED BY <3>1 DEF Inv, Content
  <2>2. Got(a, k, view[s][b][k])' <=> (k \in rules.takes[a] => live'[a][k] >= view[s][b][k])
    BY Zenon DEF Got
  <2>3. k \in rules.takes[a] => live[a][k] >= view[s][b][k]
    BY <1>3, Zenon DEF Got
  <2>4. live[a][k] \in Nat /\ live'[a][k] \in Nat /\ live'[a][k] >= live[a][k]
    BY <2>1, Zenon DEF Grows
  <2> QED BY <2>1, <2>2, <2>3, <2>4
<1>4. s[1] \in Sides(s) /\ s[2] \in Sides(s)
  BY Zenon DEF Sides
<1>5. ASSUME NEW k \in Key, Settled(s, k) PROVE Settled(s, k)'
  BY <1>3, <1>4, <1>5, Zenon DEF Settled
<1>6. ASSUME NEW k \in Key, NEW p \in message[s], Spoken(p, q, view[s][r], k)
      PROVE  Spoken(p, q, view[s][r], k)'
  BY <1>1, <1>2, <1>3, <1>6, Zenon DEF Spoken
<1>7. state[s] = "dialed" => Owed(s)'
  BY Zenon DEF Owed, Honest
<1>8. state[s] = "open" => Owed(s)'
  <2> SUFFICES ASSUME state[s] = "open" PROVE Owed(s)'
    BY Zenon
  <2>1. /\ \A p \in message'[s] : Honest(p, view'[s][q], view'[s][r])
        /\ \A k \in Key : Settled(s, k)' \/ \E p \in message'[s] : Spoken(p, q, view[s][r], k)'
    BY <1>1, <1>2, <1>5, <1>6, Zenon DEF Owed
  <2>2. state'[s] = "open" /\ "open" # "dialed" /\ "open" # "done" /\ to'[s] = r
    BY <1>1, Zenon
  <2> QED BY <1>1, <1>2, <2>1, <2>2, Zenon DEF Owed
<1>9. state[s] = "done" => Owed(s)'
  BY <1>1, <1>5, Zenon DEF Owed
<1> QED BY <1>1, <1>7, <1>8, <1>9, Zenon DEF Owed

\* What a round brings of a key of a part that carries entries, the receiver has.
LEMMA RoundBrings ==
    ASSUME Inv, NEW r \in Replica, NEW c \in Content, NEW d \in Content, NEW m,
           KnownMessage(m, written), \A p \in m : Honest(p, c, d),
           NEW k \in Key, d[k] <= live[r][k],
           NEW p \in m, p.kind # "fingerprint", Contains(p.range, k),
           k \in rules.takes[r]
    PROVE  Put(live[r], Inserted(r, m))[k] >= c[k]
<1>1. c[k] \in Nat /\ d[k] \in Nat /\ live[r][k] \in Nat
  BY Zenon DEF Inv, Content
<1>2. Known(Inserted(r, m), written) /\
        (Inserted(r, m)[k] > 0 => Inserted(r, m)[k] > live[r][k])
  BY InsertedKnown, Zenon DEF Inv
<1>3. Put(live[r], Inserted(r, m))[k]
        = IF Inserted(r, m)[k] > 0 THEN Inserted(r, m)[k] ELSE live[r][k]
  BY Zenon DEF Put
<1>4. CASE p.kind = "rest" /\ ~(c[k] > d[k])
  <2>1. Inserted(r, m)[k] \in Nat
    BY <1>2, Zenon DEF Known, Content
  <2> QED BY <1>1, <1>2, <1>3, <1>4, <2>1
<1>5. CASE ~(p.kind = "rest" /\ ~(c[k] > d[k]))
  <2>1. Carried(m)[k] = c[k]
    BY <1>5, CarriedIs, ZenonT(40)
  <2>2. Put(live[r], Inserted(r, m))[k] >= Carried(m)[k]
    BY TakenIsHeld, Zenon
  <2> QED BY <2>1, <2>2, Zenon
<1> QED BY <1>4, <1>5, Zenon

\* A round answers every key its message spoke for, or settles it.
LEMMA RoundOwes ==
    ASSUME Inv, Inv', Grows, Lags, DOMAIN state = Links, NEW s \in Links, Owed(s), Receive(s)
    PROVE  Owed(s)'
<1>1. state[s] = "open" /\ rules' = rules /\ view' = view
  BY Zenon DEF Receive
<1>2. PICK r \in Sides(s) : r = to[s]
  BY Zenon DEF Owed
<1>3. PICK q \in Sides(s) : q = Other(s, r)
  BY TwoSides, Zenon
<1>4. r \in Replica /\ q \in Replica /\ r # q /\ Other(s, q) = r
  BY <1>3, TwoSides, Zenon
<1>5. PICK c \in Content : c = view[s][q]
  BY <1>4, Zenon DEF Inv
<1>6. PICK d \in Content : d = view[s][r]
  BY <1>4, Zenon DEF Inv
<1>7. PICK m : m = message[s]
  BY Zenon
<1>8. PICK reply : reply = Reply(d, m)
  BY Zenon
<1>9. /\ message'[s] = reply /\ to'[s] = q
      /\ state'[s] = StateAfter(reply)
      /\ live'[r] = Put(live[r], Inserted(r, m))
  <2>1. DOMAIN message = Links /\ DOMAIN to = Links /\ DOMAIN live = Replica
    BY Zenon DEF Inv
  <2>2. /\ message' = [message EXCEPT ![s] = Reply(view[s][to[s]], message[s])]
        /\ to' = [to EXCEPT ![s] = IF to[s] = s[1] THEN s[2] ELSE s[1]]
        /\ live' = [live EXCEPT ![to[s]] = Put(live[to[s]], Inserted(to[s], message[s]))]
    BY Zenon DEF Receive
  <2>3. state'[s] = StateAfter(reply)
    <3>1. state' = [state EXCEPT ![s] = StateAfter(Reply(view[s][to[s]], message[s]))]
      BY Zenon DEF Receive
    <3> QED BY <3>1, <1>2, <1>6, <1>7, <1>8, Zenon
  <2> QED BY <2>1, <2>2, <2>3, <1>2, <1>3, <1>4, <1>6, <1>7, <1>8, Zenon DEF Other
<1>10. /\ \A p \in m : Honest(p, c, d)
       /\ \A k \in Key : Settled(s, k) \/ \E p \in m : Spoken(p, q, d, k)
  BY <1>1, <1>2, <1>3, <1>5, <1>6, <1>7, Zenon DEF Owed
<1>11. KnownMessage(m, written)
  BY <1>7, Zenon DEF Inv
<1>12. \A p \in reply : Honest(p, d, c)
  <2> SUFFICES ASSUME NEW o \in reply PROVE Honest(o, d, c)
    BY Zenon
  <2>1. PICK p \in m : o \in Answer(d, p)
    BY <1>8, Zenon DEF Reply
  <2> QED BY <1>10, <2>1, AnswerHonest, Zenon
<1>13. ASSUME NEW k \in Key, NEW a \in Replica, NEW v \in Nat, Got(a, k, v)
       PROVE  k \in rules.takes[a] => live'[a][k] >= v
  <2>1. live[a][k] \in Nat /\ live'[a][k] \in Nat /\ live'[a][k] >= live[a][k]
    BY Zenon DEF Grows
  <2>2. k \in rules.takes[a] => live[a][k] >= v
    BY <1>13, Zenon DEF Got
  <2> QED BY <2>1, <2>2
<1>14. ASSUME NEW k \in Key
       PROVE  /\ c[k] \in Nat /\ d[k] \in Nat
              /\ c[k] <= live'[q][k] /\ d[k] <= live'[r][k] /\ d[k] <= live[r][k]
  <2>1. c[k] <= live[q][k] /\ d[k] <= live[r][k]
    BY <1>4, <1>5, <1>6, Zenon DEF Lags
  <2>2. /\ live[q][k] \in Nat /\ live'[q][k] \in Nat /\ live'[q][k] >= live[q][k]
        /\ live[r][k] \in Nat /\ live'[r][k] \in Nat /\ live'[r][k] >= live[r][k]
    BY <1>4, Zenon DEF Grows
  <2>3. c[k] \in Nat /\ d[k] \in Nat
    BY Zenon DEF Content
  <2> QED BY <2>1, <2>2, <2>3
<1> DEFINE RHas(k) == k \in rules.takes[r] => live'[r][k] >= c[k]
           QHas(k) == k \in rules.takes[q] => live'[q][k] >= d[k]
           GoesOn(k) == \E p \in reply : Contains(p.range, k) /\ (p.kind = "rest" => RHas(k))
<1>15. ASSUME NEW k \in Key PROVE (RHas(k) /\ QHas(k)) \/ GoesOn(k)
  <2>1. CASE Settled(s, k)
    <3>1. Got(r, k, c[k]) /\ Got(q, k, d[k])
      BY <1>3, <1>5, <1>6, <2>1, SettledEither, Zenon
    <3> QED BY <3>1, <1>4, <1>13, <1>14, Zenon
  <2>2. ASSUME NEW p \in m, Spoken(p, q, d, k) PROVE (RHas(k) /\ QHas(k)) \/ GoesOn(k)
    <3>1. Contains(p.range, k) /\ Honest(p, c, d) /\ (p.kind = "rest" => Got(q, k, d[k]))
      BY <1>10, <2>2, Zenon DEF Spoken
    <3>2. p.kind # "fingerprint" => RHas(k)
      BY <1>4, <1>9, <1>10, <1>11, <1>14, <3>1, RoundBrings, Zenon
    <3>3. CASE p.kind = "rest"
      <4>1. QHas(k)
        BY <1>4, <1>13, <1>14, <3>1, <3>3, Zenon
      <4> QED BY <3>2, <3>3, <4>1, Zenon
    <3>4. ASSUME NEW o \in Answer(d, p), Contains(o.range, k), o.kind = "rest" => p.kind = "items"
          PROVE  GoesOn(k)
      <4>1. o \in reply
        BY <1>8, Zenon DEF Reply
      <4>2. o.kind = "rest" => RHas(k)
        BY <3>2, <3>4, Zenon
      <4> QED BY <3>4, <4>1, <4>2, Zenon
    <3>5. CASE p.kind = "items" /\ d[k] <= c[k]
      <4>1. QHas(k)
        <5>1. live'[q][k] \in Nat
          BY <1>4, Zenon DEF Grows
        <5> QED BY <1>14, <3>5, <5>1
      <4> QED BY <3>2, <3>5, <4>1, Zenon
    <3>6. CASE p.kind = "fingerprint" /\ d[k] = c[k]
      <4>1. live'[q][k] >= d[k] /\ live'[r][k] >= c[k]
        BY <1>14, <3>6, Zenon
      <4> QED BY <4>1, Zenon
    <3>7. CASE p.kind # "rest"
      <4>1. \/ \E o \in Answer(d, p) :
                   Contains(o.range, k) /\ (o.kind = "rest" => p.kind = "items")
            \/ p.kind = "items" /\ d[k] <= c[k]
            \/ p.kind = "fingerprint" /\ d[k] = c[k]
        BY <3>1, <3>7, AnswerSpeaks
      <4> HIDE DEF RHas, QHas, GoesOn
      <4> QED BY <3>4, <3>5, <3>6, <4>1, Zenon
    <3> QED BY <3>3, <3>7, Zenon
  <2> QED BY <1>10, <2>1, <2>2, Zenon
<1>16. ASSUME NEW k \in Key, RHas(k), QHas(k) PROVE Settled(s, k)'
  <2>1. Got(r, k, view[s][q][k])' /\ Got(q, k, view[s][r][k])'
    BY <1>1, <1>5, <1>6, <1>16, Zenon DEF Got
  <2> QED BY <1>3, <2>1, TwoSides, Zenon DEF Settled, Sides, Other
<1>17. ASSUME NEW k \in Key, NEW p \in reply, Contains(p.range, k), p.kind = "rest" => RHas(k)
       PROVE  Spoken(p, r, view[s][q], k)'
  BY <1>1, <1>5, <1>17, Zenon DEF Spoken, Got
<1>18. CASE reply = {}
  <2>1. state'[s] = "done" /\ "done" # "open" /\ "done" # "dialed"
    BY <1>9, <1>18, Zenon DEF StateAfter
  <2>2. \A k \in Key : Settled(s, k)'
    BY <1>15, <1>16, <1>18, Zenon
  <2> QED BY <1>9, <2>1, <2>2, Zenon DEF Owed
<1>19. CASE reply # {}
  <2>1. state'[s] = "open" /\ "open" # "done" /\ "open" # "dialed"
    BY <1>9, <1>19, Zenon DEF StateAfter
  <2>2. \A k \in Key : Settled(s, k)' \/ \E p \in reply : Spoken(p, r, view[s][q], k)'
    BY <1>15, <1>16, <1>17, Zenon
  <2>3. \A p \in reply : Honest(p, view'[s][r], view'[s][q])
    BY <1>1, <1>5, <1>6, <1>12, Zenon
  <2> QED BY <1>4, <1>9, <2>1, <2>2, <2>3, Zenon DEF Owed
<1> QED BY <1>18, <1>19, Zenon

\* A dial speaks for every key with one fingerprint of all it serves.
LEMMA InitialSpeaks ==
    ASSUME NEW c \in Content, NEW d
    PROVE  /\ \A p \in Initial(c) : p.kind = "fingerprint" /\ Honest(p, c, d)
           /\ \A k \in Key : \E p \in Initial(c) : Contains(p.range, k)
<1> DEFINE x == IF Held(c) = {} THEN 0 ELSE Min(Held(c))
           r == [x |-> x, y |-> x]
           part == Part(r, "fingerprint", c)
<1>1. x \in Key \cup {0}
  <2>1. Held(c) \in SUBSET Nat /\ Held(c) \subseteq Key
    BY KeyAssumption, Zenon DEF Held
  <2>2. Held(c) # {} => Min(Held(c)) \in Held(c)
    BY <2>1, MinIsOne, Zenon
  <2> QED BY <2>1, <2>2, Zenon
<1>2. Initial(c) = {part}
  BY Zenon DEF Initial
<1> HIDE DEF x
<1>3. IsRange(r)
  BY <1>1, Zenon DEF IsRange
<1>4. \A k : Contains(r, k)
  <2>1. x \in Nat
    BY <1>1, KeyAssumption
  <2>2. r.x = r.y /\ ~(r.x < r.y) /\ ~(r.x > r.y)
    BY <2>1
  <2> HIDE DEF r
  <2> QED BY <2>2, Zenon DEF Contains
<1>5. Within(c, r) = c
  <2> HIDE DEF r
  <2> QED BY <1>4, Zenon DEF Within, Content
<1>6. part.range = r /\ part.kind = "fingerprint" /\ part.values = c
  BY Zenon DEF Part
<1> HIDE DEF part, r
<1>7. Honest(part, c, d)
  BY <1>3, <1>5, <1>6, Zenon DEF Honest, Kinds
<1> QED BY <1>2, <1>4, <1>6, <1>7, Zenon

\* A new dial owes all, an accept leaves it so, and a cut owes nothing.
LEMMA OpeningOwes ==
    ASSUME Inv, Inv', DOMAIN state = Links, NEW s \in Links, Owed(s),
           Start(s) \/ Accept(s) \/ Cut(s)
    PROVE  Owed(s)'
<1>1. s[1] \in Replica /\ s[2] \in Replica /\ s[1] # s[2] /\ Other(s, s[2]) = s[1]
  BY TwoSides, Zenon DEF Other
<1>2. s[2] \in Sides(s)
  BY Zenon DEF Sides
<1>3. DOMAIN view = Links /\ DOMAIN message = Links /\ DOMAIN to = Links
  BY Zenon DEF Inv
<1>4. CASE Start(s)
  <2>1. state'[s] = "dialed" /\ message'[s] = Initial(View(s[1])) /\ to'[s] = s[2]
    BY <1>3, <1>4, Zenon DEF Start
  <2>2. view'[s][s[1]] = View(s[1])
    BY <1>1, <1>3, <1>4, Zenon DEF Start, NoViews
  <2>3. View(s[1]) \in Content
    BY <1>1, OnlyKnown, Zenon DEF Inv, View, Known
  <2>4. /\ \A p \in message'[s] : p.kind = "fingerprint" /\ Honest(p, view'[s][s[1]], view'[s][s[2]])
        /\ \A k \in Key : \E p \in message'[s] : Contains(p.range, k)
    BY <2>1, <2>2, <2>3, InitialSpeaks, Zenon
  <2> QED BY <1>1, <1>2, <2>1, <2>4, Zenon DEF Owed
<1>5. CASE Accept(s)
  <2>1. state[s] = "dialed" /\ state'[s] = "open" /\ message' = message /\ to' = to
    BY <1>5, Zenon DEF Accept
  <2>2. view'[s][s[1]] = view[s][s[1]]
    <3>1. DOMAIN view[s] = Replica
      BY Zenon DEF Inv
    <3> QED BY <1>1, <1>3, <1>5, <3>1, Zenon DEF Accept
  <2>3. /\ to[s] = s[2]
        /\ \A p \in message[s] : p.kind = "fingerprint" /\ Honest(p, view[s][s[1]], view[s][s[2]])
        /\ \A k \in Key : \E p \in message[s] : Contains(p.range, k)
    BY <1>1, <2>1, Zenon DEF Owed
  <2>4. \A p \in message[s] : Honest(p, view'[s][s[1]], view'[s][s[2]])
    BY <2>2, <2>3, Zenon DEF Honest
  <2>5. \A k \in Key : \E p \in message[s] : Spoken(p, s[1], view[s][s[2]], k)'
    BY <2>3, Zenon DEF Spoken
  <2> QED BY <1>1, <1>2, <2>1, <2>3, <2>4, <2>5, Zenon DEF Owed
<1>6. CASE Cut(s)
  <2>1. state'[s] = "none" /\ to'[s] = s[2]
    BY <1>3, <1>6, Zenon DEF Cut
  <2> QED BY <1>2, <2>1, Zenon DEF Owed
<1> QED BY <1>4, <1>5, <1>6, Zenon

\* Views are taken from what a replica holds, and it only grows.
LEMMA LagsStay == ASSUME Inv, Inv', Grows, Lags, [Next]_vars PROVE Lags'
<1> SUFFICES ASSUME NEW s \in Links, NEW r \in Replica, NEW k \in Key
             PROVE  view'[s][r][k] <= live'[r][k]
  BY Zenon DEF Lags
<1>1. /\ view[s][r][k] \in Nat /\ view[s][r][k] <= live[r][k] /\ live[r][k] \in Nat
      /\ live'[r][k] \in Nat /\ live'[r][k] >= live[r][k]
  <2>1. view[s][r][k] \in Nat
    BY DEF Inv, Content
  <2> QED BY <2>1, Zenon DEF Lags, Grows
<1>2. View(r)[k] <= live[r][k] /\ View(r)[k] \in Nat
  BY <1>1 DEF View, Only
<1>3. view'[s][r][k] \in {view[s][r][k], View(r)[k], 0}
  <2>1. DOMAIN view = Links /\ DOMAIN view[s] = Replica
    BY Zenon DEF Inv
  <2>2. CASE view' = view
    BY <2>2, Zenon
  <2>3. ASSUME NEW t \in Links, view' = [view EXCEPT ![t] = NoViews]
        PROVE  view'[s][r][k] \in {view[s][r][k], View(r)[k], 0}
    BY <2>1, <2>3, Zenon DEF NoViews, Nothing
  <2>4. ASSUME NEW t \in Links, NEW q \in Replica,
               view' = [view EXCEPT ![t] = [NoViews EXCEPT ![q] = View(q)]]
        PROVE  view'[s][r][k] \in {view[s][r][k], View(r)[k], 0}
    BY <2>1, <2>4, Zenon DEF NoViews, Nothing
  <2>5. ASSUME NEW t \in Links, NEW q \in Replica, view' = [view EXCEPT ![t][q] = View(q)]
        PROVE  view'[s][r][k] \in {view[s][r][k], View(r)[k], 0}
    BY <2>1, <2>5, Zenon
  <2>6. \A t \in Links : t[1] \in Replica /\ t[2] \in Replica
    BY TwoSides, Zenon
  <2>7. CASE UNCHANGED vars
    BY <2>2, <2>7, Zenon DEF vars, exchange
  <2>8. ASSUME NEW t \in Links, Start(t) \/ Accept(t) \/ Receive(t) \/ Cut(t)
        PROVE  view'[s][r][k] \in {view[s][r][k], View(r)[k], 0}
    BY <2>2, <2>3, <2>4, <2>5, <2>6, <2>8, Zenon DEF Start, Accept, Receive, Cut
  <2>9. ASSUME NEW q \in Replica, NEW j \in Key, NEW v \in Rank, Write(q, j, v) PROVE view' = view
    BY <2>9, Zenon DEF Write, exchange
  <2> QED BY <2>2, <2>7, <2>8, <2>9, Zenon DEF Next
<1> QED BY <1>1, <1>2, <1>3

\* What every session owes, beside what is known.
DeliveryInv ==
    /\ Inv /\ rules \in Rules /\ DOMAIN state = Links
    /\ Lags /\ \A s \in Links : Owed(s)

LEMMA InitDelivery == Init => DeliveryInv
<1> SUFFICES ASSUME Init PROVE DeliveryInv
  BY Zenon
<1>1. Inv
  BY InitInv, Zenon
<1>2. Lags
  <2> SUFFICES ASSUME NEW s \in Links, NEW r \in Replica, NEW k \in Key
               PROVE  view[s][r][k] <= live[r][k]
    BY Zenon DEF Lags
  <2>1. view[s][r][k] = 0
    BY Zenon DEF Init, NoViews, Nothing
  <2>2. live[r][k] \in Nat
    BY <1>1, Zenon DEF Inv, Content
  <2> QED BY <2>1, <2>2
<1>3. ASSUME NEW s \in Links PROVE Owed(s)
  BY Zenon DEF Init, Owed, Sides
<1>4. rules \in Rules
  BY ReconcileAssumption, Zenon DEF Init, Case
<1> QED BY <1>1, <1>2, <1>3, <1>4, Zenon DEF DeliveryInv, Init

LEMMA NextDelivery == DeliveryInv /\ [Next]_vars => DeliveryInv'
<1> SUFFICES ASSUME DeliveryInv, [Next]_vars PROVE DeliveryInv'
  BY Zenon
<1>1. Inv /\ Lags /\ rules \in Rules /\ DOMAIN state = Links /\ \A s \in Links : Owed(s)
  BY Zenon DEF DeliveryInv
<1>2. Inv' /\ [Promise!Next]_(Promise!vars)
  BY <1>1, NextStep, Zenon
<1>3. Grows
  BY <1>1, <1>2, LiveGrows, Zenon DEF Grows
<1>4. Lags'
  BY <1>1, <1>2, <1>3, LagsStay, Zenon
<1>5. CASE UNCHANGED <<rules, exchange>>
  <2>1. rules' = rules /\ state' = state /\ view' = view /\ message' = message /\ to' = to
    BY <1>5, Zenon DEF exchange
  <2>2. ASSUME NEW t \in Links PROVE Owed(t)'
    BY <1>1, <1>2, <1>3, <2>1, OwedStays, Zenon
  <2> QED BY <1>1, <1>2, <1>4, <2>1, <2>2, Zenon DEF DeliveryInv
<1>6. ASSUME NEW s \in Links, Start(s) \/ Accept(s) \/ Receive(s) \/ Cut(s)
      PROVE  DeliveryInv'
  <2>1. rules' = rules
    BY <1>6, Zenon DEF Start, Accept, Receive, Cut
  <2>2. DOMAIN state' = Links
    BY <1>1, <1>6, Zenon DEF Start, Accept, Receive, Cut
  <2>3. Owed(s)'
    BY <1>1, <1>2, <1>3, <1>6, RoundOwes, OpeningOwes, Zenon
  <2>4. ASSUME NEW t \in Links, t # s
        PROVE  state'[t] = state[t] /\ view'[t] = view[t] /\ message'[t] = message[t] /\ to'[t] = to[t]
    <3>1. DOMAIN view = Links /\ DOMAIN message = Links /\ DOMAIN to = Links
      BY <1>1, Zenon DEF Inv
    <3>2. CASE Start(s)
      BY <1>1, <2>4, <3>1, <3>2, Zenon DEF Start
    <3>3. CASE Accept(s)
      BY <1>1, <2>4, <3>1, <3>3, Zenon DEF Accept
    <3>4. CASE Receive(s)
      BY <1>1, <2>4, <3>1, <3>4, Zenon DEF Receive
    <3>5. CASE Cut(s)
      BY <1>1, <2>4, <3>1, <3>5, Zenon DEF Cut
    <3> QED BY <1>6, <3>2, <3>3, <3>4, <3>5, Zenon
  <2>5. ASSUME NEW t \in Links, t # s PROVE Owed(t)'
    BY <1>1, <1>2, <1>3, <2>1, <2>4, <2>5, OwedStays, Zenon
  <2> QED BY <1>1, <1>2, <1>4, <2>1, <2>2, <2>3, <2>5, Zenon DEF DeliveryInv
<1>7. ASSUME NEW q \in Replica, NEW j \in Key, NEW v \in Rank, Write(q, j, v)
      PROVE  UNCHANGED <<rules, exchange>>
  BY <1>7, Zenon DEF Write
<1>8. UNCHANGED vars => UNCHANGED <<rules, exchange>>
  BY Zenon DEF vars
<1> QED BY <1>5, <1>6, <1>7, <1>8, Zenon DEF Next

LEMMA OwedIsBrought == DeliveryInv => Brought
<1> SUFFICES ASSUME DeliveryInv, NEW s \in Links, state[s] = "done",
                    NEW r \in Sides(s), NEW q \in Sides(s), r # q,
                    NEW k \in rules.takes[r]
             PROVE  live[r][k] >= view[s][q][k]
  BY Zenon DEF Brought
<1>1. r \in Replica /\ q = Other(s, r)
  BY TwoSides, Zenon DEF Sides, Other
<1>2. k \in Key
  BY <1>1, Zenon DEF DeliveryInv, Rules
<1>3. Settled(s, k)
  BY <1>2, Zenon DEF DeliveryInv, Owed
<1> QED BY <1>1, <1>3, SettledEither, Zenon DEF Got
-----------------------------------------------------------------------------
(***************************************************************************)
(* The heads a replica and a session keep (heads.rs).  Heads ties the latest *)
(* times to what is held: a session's heads were inserted through both.      *)
(***************************************************************************)

\* A finite set of times has a latest.
LEMMA MaxIsOne ==
    ASSUME NEW S \in SUBSET Nat, S # {}, IsFiniteSet(S)
    PROVE  Max(S) \in S /\ \A s \in S : Max(S) >= s
<1> DEFINE Above(x) == {y \in S : y > x}
           N == {Cardinality(Above(x)) : x \in S}
<1>1. \A x \in S : IsFiniteSet(Above(x)) /\ Cardinality(Above(x)) \in Nat
  <2> TAKE x \in S
  <2>1. Above(x) \in SUBSET S
    BY Zenon
  <2>2. IsFiniteSet(Above(x))
    BY <2>1, FS_Subset, Zenon
  <2> QED BY <2>2, FS_CardinalityType, Zenon
<1>2. N \in SUBSET Nat /\ N # {}
  <2>1. PICK x \in S : TRUE
    BY Zenon
  <2> QED BY <1>1, <2>1, Zenon
<1>3. PICK n \in N : \A o \in N : ~(<<o, n>> \in OpToRel(<, Nat))
  <2> HIDE DEF N
  <2> QED BY <1>2, NatLessThanWellFounded, WFMin, Zenon
<1>4. PICK m \in S : n = Cardinality(Above(m))
  BY Zenon
<1>5. ASSUME NEW s \in S, s > m PROVE FALSE
  <2>1. m \in Nat /\ s \in Nat
    BY Zenon
  <2>2. ASSUME NEW y \in Above(s) PROVE y \in Above(m)
    <3>1. y \in S /\ y \in Nat /\ y > s
      BY Zenon
    <3>2. y > m
      BY <1>5, <2>1, <3>1
    <3> QED BY <3>1, <3>2, Zenon
  <2>3. s \in Above(m) /\ s \notin Above(s)
    BY <1>5, <2>1
  <2> HIDE DEF Above
  <2>4. /\ Cardinality(Above(s)) <= Cardinality(Above(m))
        /\ Cardinality(Above(s)) # Cardinality(Above(m))
    <3>1. Above(s) \in SUBSET Above(m)
      BY <2>2, Zenon
    <3> QED BY <1>1, <2>3, <3>1, FS_Subset, Zenon
  <2>5. Cardinality(Above(s)) \in Nat /\ Cardinality(Above(m)) \in Nat
    BY <1>1, Zenon
  <2>6. Cardinality(Above(s)) < Cardinality(Above(m))
    BY <2>4, <2>5
  <2>7. Cardinality(Above(s)) \in N
    BY Zenon
  <2> QED BY <1>3, <1>4, <2>5, <2>6, <2>7, Zenon DEF OpToRel
<1>6. \A s \in S : m >= s
  <2> TAKE s \in S
  <2>1. m \in Nat /\ s \in Nat /\ ~(s > m)
    BY <1>5, Zenon
  <2> QED BY <2>1
<1>7. \E x \in S : \A y \in S : x >= y
  BY <1>6, Zenon
<1> QED BY <1>7, Zenon DEF Max

\* The head of an author after some records: the old one or a record's time, and
\* no less than either.
LEMMA HeadsAfterIs ==
    ASSUME NEW h \in [Author -> Nat], NEW c \in Content, NEW a \in Author
    PROVE  /\ HeadsAfter(h, c)[a] \in Nat /\ HeadsAfter(h, c)[a] >= h[a]
           /\ \A k \in Key : c[k] > 0 /\ AuthorOf[k] = a => HeadsAfter(h, c)[a] >= Timestamp(c[k])
           /\ \/ HeadsAfter(h, c)[a] = h[a]
              \/ \E k \in Key : /\ c[k] > 0 /\ AuthorOf[k] = a
                                /\ HeadsAfter(h, c)[a] = Timestamp(c[k])
<1> DEFINE K == {j \in Held(c) : AuthorOf[j] = a}
           T == Times(c, a)
           f == [k \in K |-> Timestamp(c[k])]
           S == {h[a]} \cup T
<1>1. T = {Timestamp(c[k]) : k \in K} /\ K \in SUBSET Key
  BY Zenon DEF Times, Held
<1>2. \A k \in Key : c[k] \in Nat /\ Timestamp(c[k]) \in Nat
  BY DEF Content, Timestamp
<1>3. IsFiniteSet(T)
  <2>1. IsFiniteSet(K)
    BY <1>1, KeyAssumption, FS_Subset, Zenon
  <2>2. f \in Surjection(K, T)
    BY <1>1, Zenon DEF Surjection
  <2> HIDE DEF f, K, T
  <2> QED BY <2>1, <2>2, FS_Surjection, Zenon
<1>4. S \in SUBSET Nat /\ S # {} /\ IsFiniteSet(S)
  <2>1. h[a] \in Nat
    BY Zenon
  <2>2. T \subseteq Nat
    BY <1>1, <1>2, Zenon
  <2>3. IsFiniteSet(T \cup {h[a]}) /\ T \cup {h[a]} = S
    BY <1>3, FS_AddElement, Zenon
  <2> HIDE DEF T
  <2> QED BY <2>1, <2>2, <2>3, Zenon
<1>5. Max(S) \in S /\ \A s \in S : Max(S) >= s
  <2> HIDE DEF S
  <2> QED BY <1>4, MaxIsOne, Zenon
<1>6. HeadsAfter(h, c)[a] = Max(S)
  BY Zenon DEF HeadsAfter
<1>7. ASSUME NEW k \in Key, c[k] > 0, AuthorOf[k] = a PROVE Timestamp(c[k]) \in S
  BY <1>1, <1>7, Zenon DEF Held
<1>8. Max(S) = h[a] \/ \E k \in Key : c[k] > 0 /\ AuthorOf[k] = a /\ Max(S) = Timestamp(c[k])
  BY <1>1, <1>5, Zenon DEF Held
<1> HIDE DEF S
<1>9. Max(S) \in Nat
  BY <1>4, <1>5, Zenon
<1>10. h[a] \in S
  BY Zenon DEF S
<1> QED BY <1>5, <1>6, <1>7, <1>8, <1>9, <1>10, Zenon

\* The times of the heads are those of the records held, the latest of each author.
HeadsOf(h, c) ==
    /\ h \in [Author -> Nat]
    /\ \A k \in Key : h[AuthorOf[k]] >= Timestamp(c[k])
    /\ \A a \in Author :
          h[a] = 0 \/ \E k \in Key : AuthorOf[k] = a /\ Timestamp(c[k]) >= h[a]

\* Times follow ranks.
LEMMA LaterTime ==
    ASSUME NEW v \in Nat, NEW w \in Nat, w >= v
    PROVE  /\ Timestamp(v) \in Nat /\ Timestamp(w) \in Nat /\ Timestamp(w) >= Timestamp(v)
BY DEF Timestamp

\* Heads stay those of what is held when records are put and their times taken in.
LEMMA HeadsFollow ==
    ASSUME NEW h, NEW c \in Content, HeadsOf(h, c), NEW e \in Content, NEW new \in Content,
           \A k \in Key : /\ new[k] = IF e[k] > 0 THEN e[k] ELSE c[k]
                          /\ new[k] >= c[k]
    PROVE  HeadsOf(HeadsAfter(h, e), new)
<1> DEFINE g == HeadsAfter(h, e)
<1>1. h \in [Author -> Nat]
  BY Zenon DEF HeadsOf
<1>2. \A a \in Author :
        /\ g[a] \in Nat /\ g[a] >= h[a]
        /\ \A k \in Key : e[k] > 0 /\ AuthorOf[k] = a => g[a] >= Timestamp(e[k])
        /\ g[a] = h[a] \/ \E k \in Key : e[k] > 0 /\ AuthorOf[k] = a /\ g[a] = Timestamp(e[k])
  BY <1>1, HeadsAfterIs, Zenon
<1>3. g = [a \in Author |-> g[a]]
  BY Zenon DEF HeadsAfter
<1> HIDE DEF g
<1>4. g \in [Author -> Nat]
  BY <1>2, <1>3, Zenon
<1>5. \A k \in Key : /\ AuthorOf[k] \in Author /\ c[k] \in Nat /\ e[k] \in Nat /\ new[k] \in Nat
                     /\ Timestamp(c[k]) \in Nat /\ Timestamp(e[k]) \in Nat
                     /\ Timestamp(new[k]) \in Nat /\ Timestamp(new[k]) >= Timestamp(c[k])
  <2> TAKE k \in Key
  <2>1. AuthorOf[k] \in Author
    BY Zenon DEF Author
  <2>2. c[k] \in Nat /\ e[k] \in Nat /\ new[k] \in Nat /\ new[k] >= c[k]
    BY Zenon DEF Content
  <2> QED BY <2>1, <2>2, LaterTime
<1>6. ASSUME NEW k \in Key PROVE g[AuthorOf[k]] >= Timestamp(new[k])
  <2>1. h[AuthorOf[k]] >= Timestamp(c[k]) /\ h[AuthorOf[k]] \in Nat
    BY <1>1, <1>5, Zenon DEF HeadsOf
  <2>2. CASE e[k] > 0
    BY <1>2, <1>5, <2>2, Zenon
  <2>3. CASE ~(e[k] > 0)
    <3>1. new[k] = c[k]
      BY <2>3, Zenon
    <3>2. g[AuthorOf[k]] \in Nat /\ g[AuthorOf[k]] >= h[AuthorOf[k]]
      BY <1>2, <1>5, Zenon
    <3>3. Timestamp(c[k]) \in Nat
      BY <1>5, Zenon
    <3>4. g[AuthorOf[k]] >= Timestamp(c[k])
      BY <2>1, <3>2, <3>3
    <3> QED BY <3>1, <3>4, Zenon
  <2> QED BY <2>2, <2>3, Zenon
<1>7. ASSUME NEW a \in Author
      PROVE  g[a] = 0 \/ \E k \in Key : AuthorOf[k] = a /\ Timestamp(new[k]) >= g[a]
  <2>1. CASE g[a] = h[a] /\ h[a] # 0
    <3>1. PICK k \in Key : AuthorOf[k] = a /\ Timestamp(c[k]) >= h[a]
      BY <2>1, Zenon DEF HeadsOf
    <3>2. Timestamp(new[k]) >= Timestamp(c[k]) /\ Timestamp(new[k]) \in Nat /\ Timestamp(c[k]) \in Nat
      BY <1>5, Zenon
    <3>3. Timestamp(new[k]) >= g[a]
      <4>1. h[a] \in Nat
        BY <1>1, Zenon
      <4> QED BY <2>1, <3>1, <3>2, <4>1
    <3> QED BY <3>1, <3>3, Zenon
  <2>2. ASSUME NEW k \in Key, e[k] > 0, AuthorOf[k] = a, g[a] = Timestamp(e[k])
        PROVE  Timestamp(new[k]) >= g[a]
    <3>1. new[k] = e[k] /\ Timestamp(e[k]) \in Nat
      BY <1>5, <2>2, Zenon
    <3> QED BY <2>2, <3>1
  <2> QED BY <1>2, <2>1, <2>2, Zenon
<1> QED BY <1>4, <1>6, <1>7, Zenon DEF HeadsOf, g

HeadsInv ==
    /\ DOMAIN latest = Replica /\ \A r \in Replica : HeadsOf(latest[r], live[r])
    /\ received \in [Links -> [Replica -> [Author -> Nat]]]
    /\ \A s \in Links, r \in Replica, a \in Author : received[s][r][a] <= latest[r][a]

LEMMA InitHeads == ASSUME Init, Inv PROVE HeadsInv
<1>1. NoHeads \in [Author -> Nat] /\ \A a \in Author : NoHeads[a] = 0
  BY Zenon DEF NoHeads
<1>2. Nothing \in Content /\ \A k \in Key : Nothing[k] = 0
  BY Zenon DEF Nothing, Content
<1>3. HeadsOf(NoHeads, Nothing)
  <2>1. \A k \in Key : AuthorOf[k] \in Author
    BY Zenon DEF Author
  <2>2. Timestamp(0) = 0
    BY DEF Timestamp
  <2> QED BY <1>1, <1>2, <2>1, <2>2 DEF HeadsOf
<1>4. ASSUME NEW r \in Replica PROVE HeadsOf(latest[r], live[r])
  <2>1. live[r] \in Content /\ latest[r] = HeadsAfter(NoHeads, live[r])
    BY Zenon DEF Inv, Init
  <2>2. \A k \in Key : /\ live[r][k] = IF live[r][k] > 0 THEN live[r][k] ELSE Nothing[k]
                       /\ live[r][k] >= Nothing[k]
    BY <1>2, <2>1 DEF Content
  <2>3. HeadsOf(HeadsAfter(NoHeads, live[r]), live[r])
    BY <1>2, <1>3, <2>1, <2>2, HeadsFollow, Zenon
  <2> QED BY <2>1, <2>3, Zenon
<1>5. received = [s \in Links |-> [r \in Replica |-> NoHeads]]
  BY Zenon DEF Init
<1>6. ASSUME NEW s \in Links, NEW r \in Replica, NEW a \in Author
      PROVE  received[s][r][a] <= latest[r][a]
  <2>1. received[s][r][a] = 0
    BY <1>1, <1>5, Zenon
  <2>2. latest[r][a] \in Nat
    BY <1>4, Zenon DEF HeadsOf
  <2> QED BY <2>1, <2>2
<1>7. received \in [Links -> [Replica -> [Author -> Nat]]]
  BY <1>1, <1>5, Zenon
<1>8. DOMAIN latest = Replica
  BY Zenon DEF Init
<1> QED BY <1>4, <1>6, <1>7, <1>8, Zenon DEF HeadsInv

\* Records put into a replica and taken into its heads, and into those of a
\* session where it was one.
LEMMA PutKeepsHeads ==
    ASSUME Inv, Inv', Grows, HeadsInv, NEW r \in Replica, NEW e \in Content,
           live' = [live EXCEPT ![r] = Put(@, e)],
           latest' = [latest EXCEPT ![r] = HeadsAfter(@, e)],
           \/ received' = received
           \/ \E s \in Links : received' = [received EXCEPT ![s][r] = HeadsAfter(@, e)]
    PROVE  HeadsInv'
<1>1. live \in [Replica -> Content] /\ live' \in [Replica -> Content] /\ DOMAIN latest = Replica
  BY Zenon DEF Inv, HeadsInv
<1>2. DOMAIN latest' = Replica /\ latest'[r] = HeadsAfter(latest[r], e) /\ live'[r] = Put(live[r], e)
  BY <1>1, Zenon
<1>3. ASSUME NEW q \in Replica, q # r PROVE latest'[q] = latest[q] /\ live'[q] = live[q]
  BY <1>1, <1>3, Zenon
<1>4. HeadsOf(latest'[r], live'[r])
  <2>1. ASSUME NEW k \in Key
        PROVE  /\ live'[r][k] = IF e[k] > 0 THEN e[k] ELSE live[r][k]
               /\ live'[r][k] >= live[r][k]
    BY <1>2, Zenon DEF Put, Grows
  <2>2. live[r] \in Content /\ live'[r] \in Content /\ HeadsOf(latest[r], live[r])
    BY <1>1, Zenon DEF HeadsInv
  <2> QED BY <1>2, <2>1, <2>2, HeadsFollow, Zenon
<1>5. \A q \in Replica : HeadsOf(latest'[q], live'[q])
  BY <1>3, <1>4, Zenon DEF HeadsInv
<1>6. ASSUME NEW h \in [Author -> Nat], NEW g \in [Author -> Nat], \A a \in Author : h[a] <= g[a]
      PROVE  \A a \in Author : HeadsAfter(h, e)[a] <= HeadsAfter(g, e)[a]
  <2> TAKE a \in Author
  <2>1. /\ HeadsAfter(h, e)[a] \in Nat
        /\ \/ HeadsAfter(h, e)[a] = h[a]
           \/ \E k \in Key : /\ e[k] > 0 /\ AuthorOf[k] = a
                             /\ HeadsAfter(h, e)[a] = Timestamp(e[k])
    BY HeadsAfterIs, Zenon
  <2>2. /\ HeadsAfter(g, e)[a] \in Nat /\ HeadsAfter(g, e)[a] >= g[a]
        /\ \A k \in Key : e[k] > 0 /\ AuthorOf[k] = a => HeadsAfter(g, e)[a] >= Timestamp(e[k])
    BY HeadsAfterIs, Zenon
  <2>3. h[a] <= g[a] /\ h[a] \in Nat /\ g[a] \in Nat
    BY <1>6, Zenon
  <2>4. CASE HeadsAfter(h, e)[a] = h[a]
    BY <2>2, <2>3, <2>4
  <2>5. CASE HeadsAfter(h, e)[a] # h[a]
    <3>1. HeadsAfter(g, e)[a] >= HeadsAfter(h, e)[a]
      BY <2>1, <2>2, <2>5, Zenon
    <3> QED BY <2>1, <2>2, <3>1, Zenon
  <2> QED BY <2>4, <2>5, Zenon
<1>7. latest[r] \in [Author -> Nat] /\ latest'[r] \in [Author -> Nat]
  BY <1>4, Zenon DEF HeadsInv, HeadsOf
<1>8. ASSUME NEW s \in Links
      PROVE  received[s][r] \in [Author -> Nat] /\ \A a \in Author : received[s][r][a] <= latest[r][a]
  BY Zenon DEF HeadsInv
<1>9. ASSUME NEW s \in Links
      PROVE  HeadsAfter(received[s][r], e) \in [Author -> Nat]
  <2>1. \A a \in Author : HeadsAfter(received[s][r], e)[a] \in Nat
    BY <1>8, HeadsAfterIs, Zenon
  <2>2. HeadsAfter(received[s][r], e) = [a \in Author |-> HeadsAfter(received[s][r], e)[a]]
    BY Zenon DEF HeadsAfter
  <2> QED BY <2>1, <2>2, Zenon
<1>10. received' \in [Links -> [Replica -> [Author -> Nat]]]
  <2>1. received \in [Links -> [Replica -> [Author -> Nat]]]
    BY Zenon DEF HeadsInv
  <2>2. ASSUME NEW s \in Links, received' = [received EXCEPT ![s][r] = HeadsAfter(@, e)]
        PROVE  received' \in [Links -> [Replica -> [Author -> Nat]]]
    <3>1. [received[s] EXCEPT ![r] = HeadsAfter(received[s][r], e)] \in [Replica -> [Author -> Nat]]
      BY <1>9, <2>1, Zenon
    <3>2. received' = [received EXCEPT ![s] = [received[s] EXCEPT ![r] = HeadsAfter(received[s][r], e)]]
      BY <2>2, Zenon
    <3> QED BY <2>1, <3>1, <3>2, Zenon
  <2> QED BY <2>1, <2>2, Zenon
<1>11. ASSUME NEW t \in Links, NEW q \in Replica, NEW a \in Author
       PROVE  received'[t][q][a] <= latest'[q][a]
  <2>1. received \in [Links -> [Replica -> [Author -> Nat]]]
    BY Zenon DEF HeadsInv
  <2>2. received'[t][q] \in {received[t][q]} \cup (IF q = r THEN {HeadsAfter(received[t][r], e)} ELSE {})
    BY <2>1, ZenonT(40)
  <2>3. CASE q # r
    BY <1>3, <2>2, <2>3, Zenon DEF HeadsInv
  <2>4. CASE q = r /\ received'[t][q] = HeadsAfter(received[t][r], e)
    BY <1>2, <1>6, <1>7, <1>8, <2>4, Zenon
  <2>5. CASE q = r /\ received'[t][q] = received[t][q]
    <3>1. received[t][r][a] <= latest[r][a] /\ received[t][r][a] \in Nat /\ latest[r][a] \in Nat
      BY <1>7, <1>8, Zenon
    <3>2. latest'[r][a] >= latest[r][a] /\ latest'[r][a] \in Nat
      BY <1>2, <1>7, HeadsAfterIs, Zenon
    <3>3. received[t][r][a] <= latest'[r][a]
      BY <3>1, <3>2
    <3> QED BY <2>5, <3>3, Zenon
  <2> QED BY <2>2, <2>3, <2>4, <2>5, Zenon
<1> QED BY <1>2, <1>5, <1>10, <1>11, Zenon DEF HeadsInv

LEMMA NextHeads == ASSUME Inv, Inv', Grows, HeadsInv, [Next]_vars PROVE HeadsInv'
<1>1. CASE UNCHANGED <<store, outcome>>
  <2>1. live' = live /\ latest' = latest /\ received' = received
    BY <1>1, Zenon DEF store, outcome
  <2> QED BY <2>1, Zenon DEF HeadsInv
<1>2. ASSUME NEW r \in Replica, NEW k \in Key, NEW v \in Rank, Write(r, k, v) PROVE HeadsInv'
  <2> DEFINE e == [Nothing EXCEPT ![k] = v]
  <2>1. v \in Nat /\ v > 0
    BY ReconcileAssumption
  <2>2. e \in Content /\ \A j \in Key : e[j] = IF j = k THEN v ELSE 0
    BY <2>1, Zenon DEF Content, Nothing
  <2>3. /\ live' = [live EXCEPT ![r][k] = v] /\ received' = received
        /\ latest' = [latest EXCEPT ![r] = HeadsAfter(@, e)]
    BY <1>2, Zenon DEF Write, outcome
  <2> HIDE DEF e
  <2>4. [live[r] EXCEPT ![k] = v] = Put(live[r], e)
    <3>1. live[r] \in [Key -> Nat]
      BY Zenon DEF Inv, Content
    <3> QED BY <2>1, <2>2, <3>1 DEF Put
  <2>5. live' = [live EXCEPT ![r] = Put(@, e)]
    BY <2>3, <2>4, Zenon
  <2> QED BY <2>2, <2>3, <2>5, PutKeepsHeads, Zenon
<1>3. ASSUME NEW s \in Links, Receive(s) PROVE HeadsInv'
  <2> DEFINE r == to[s]
             e == Inserted(r, message[s])
  <2>1. r \in Replica
    BY Zenon DEF Inv
  <2>2. e \in Content
    BY <2>1, InsertedKnown, Zenon DEF Inv, Known
  <2>3. /\ live' = [live EXCEPT ![r] = Put(@, e)]
        /\ latest' = [latest EXCEPT ![r] = HeadsAfter(@, e)]
        /\ received' = [received EXCEPT ![s][r] = HeadsAfter(@, e)]
    BY <1>3, Zenon DEF Receive, Announced
  <2> HIDE DEF e, r
  <2> QED BY <2>1, <2>2, <2>3, PutKeepsHeads, Zenon
<1>4. ASSUME NEW s \in Links, Start(s) \/ Cut(s) PROVE HeadsInv'
  <2>1. live' = live /\ latest' = latest /\ NoOutcome(s)
    BY <1>4, Zenon DEF Start, Cut, store
  <2>2. received' = [received EXCEPT ![s] = [r \in Replica |-> NoHeads]]
    BY <2>1, Zenon DEF NoOutcome
  <2>3. received \in [Links -> [Replica -> [Author -> Nat]]]
    BY Zenon DEF HeadsInv
  <2>4. NoHeads \in [Author -> Nat] /\ \A a \in Author : NoHeads[a] = 0
    BY Zenon DEF NoHeads
  <2>5. received' \in [Links -> [Replica -> [Author -> Nat]]]
    BY <2>2, <2>3, <2>4, Zenon
  <2>6. ASSUME NEW t \in Links, NEW r \in Replica, NEW a \in Author
        PROVE  received'[t][r][a] <= latest'[r][a]
    <3>1. CASE t = s
      <4>1. received'[t][r][a] = 0
        BY <2>2, <2>3, <2>4, <3>1, Zenon
      <4>2. latest[r][a] \in Nat
        BY Zenon DEF HeadsInv, HeadsOf
      <4> QED BY <2>1, <4>1, <4>2
    <3>2. CASE t # s
      <4>1. received'[t] = received[t]
        BY <2>2, <2>3, <3>2, Zenon
      <4> QED BY <2>1, <4>1, Zenon DEF HeadsInv
    <3> QED BY <3>1, <3>2, Zenon
  <2> QED BY <2>1, <2>5, <2>6, Zenon DEF HeadsInv
<1>5. ASSUME NEW s \in Links, Accept(s) PROVE UNCHANGED <<store, outcome>>
  BY <1>5, Zenon DEF Accept
<1>6. UNCHANGED vars => UNCHANGED <<store, outcome>>
  BY Zenon DEF vars
<1> QED BY <1>1, <1>2, <1>3, <1>4, <1>5, <1>6, Zenon DEF Next

LEMMA HeadsTellTrue == ASSUME Inv, HeadsInv PROVE ReceivedIsHeld /\ NoFalseNews
<1>1. \A r \in Replica, a \in Author : latest[r][a] \in Nat
  BY Zenon DEF HeadsInv, HeadsOf
<1>2. ReceivedIsHeld
  <2> SUFFICES ASSUME NEW s \in Links, NEW r \in Sides(s), NEW a \in Author
               PROVE  ~(received[s][r][a] > latest[r][a])
    BY Zenon DEF ReceivedIsHeld, HasNewsFor
  <2>1. r \in Replica
    BY TwoSides, Zenon
  <2>2. received[s][r][a] \in Nat /\ received[s][r][a] <= latest[r][a]
    BY <2>1 DEF HeadsInv
  <2> QED BY <1>1, <2>1, <2>2
<1>3. NoFalseNews
  <2> SUFFICES ASSUME NEW r \in Replica, NEW q \in Replica,
                      \A k \in Key : live[q][k] >= live[r][k], NEW a \in Author
               PROVE  ~(latest[r][a] > latest[q][a])
    BY Zenon DEF NoFalseNews, HasNewsFor
  <2>1. latest[r][a] \in Nat /\ latest[q][a] \in Nat
    BY <1>1, Zenon
  <2>2. CASE latest[r][a] = 0
    BY <2>1, <2>2
  <2>3. CASE latest[r][a] # 0
    <3>1. PICK k \in Key : AuthorOf[k] = a /\ Timestamp(live[r][k]) >= latest[r][a]
      BY <2>3, Zenon DEF HeadsInv, HeadsOf
    <3>2. latest[q][a] >= Timestamp(live[q][k])
      BY <3>1, Zenon DEF HeadsInv, HeadsOf
    <3>3. live[r][k] \in Nat /\ live[q][k] \in Nat /\ live[q][k] >= live[r][k]
      BY Zenon DEF Inv, Content
    <3>4. /\ Timestamp(live[r][k]) \in Nat /\ Timestamp(live[q][k]) \in Nat
          /\ Timestamp(live[q][k]) >= Timestamp(live[r][k])
      BY <3>3, LaterTime, Zenon
    <3> QED BY <2>1, <3>1, <3>2, <3>4
  <2> QED BY <2>2, <2>3, Zenon
<1> QED BY <1>2, <1>3, Zenon

\* Whatever the contents, the filters, the ranges they are split into, the writes
\* and the sessions beside it: an exchange that ran to its end left each side with
\* every record the other served and it takes, or a later one; what it reports as
\* received it holds, and heads tell no news that is none (process_message,
\* sync_process_message, heads.rs).
THEOREM ExchangesAlwaysDeliver == Spec => []Delivered
<1>1. Init => DeliveryInv /\ HeadsInv
  BY InitDelivery, InitHeads, Zenon DEF DeliveryInv
<1>2. DeliveryInv /\ HeadsInv /\ [Next]_vars => DeliveryInv' /\ HeadsInv'
  <2> SUFFICES ASSUME DeliveryInv, HeadsInv, [Next]_vars PROVE DeliveryInv' /\ HeadsInv'
    BY Zenon
  <2>1. DeliveryInv'
    BY NextDelivery, Zenon
  <2>2. Inv /\ Inv'
    BY <2>1, Zenon DEF DeliveryInv
  <2>3. Grows
    BY <2>2, NextStep, LiveGrows, Zenon DEF Grows
  <2> QED BY <2>1, <2>2, <2>3, NextHeads, Zenon
<1>3. DeliveryInv /\ HeadsInv => Delivered
  BY OwedIsBrought, HeadsTellTrue, Zenon DEF DeliveryInv, Delivered
<1> QED BY <1>1, <1>2, <1>3, PTL DEF Spec
=============================================================================
