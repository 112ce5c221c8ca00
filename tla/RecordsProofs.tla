--------------------------- MODULE RecordsProofs ----------------------------
(***************************************************************************)
(* For any devices, identities, cases and number of writes, leaves and       *)
(* returns: what a device wrote is read wherever it is held (WrittenCounts); *)
(* no two operations share a key (OneWritePerKey); a flush that answered true *)
(* left the leaving identity's entries and payloads with another member      *)
(* (FlushedIsHeld); and a departed identity is given nothing written since   *)
(* (NoneAfterRemoval).  The second and third where no device is killed: a    *)
(* kill breaks the second and loses what the flush's witness had not saved.  *)
(* The last where one device acts for the members that stay.                 *)
(*                                                                         *)
(* An entry is judged long after it was written, on another device's prefix  *)
(* of the chain.  Inv carries the writer's check to that moment: the point of *)
(* the chain an entry names exists, counts its writer as a member, and stays *)
(* as it is while the chain grows.  Keys adds what the count of operations   *)
(* rests on: at the point of the chain a member writes at, its store holds   *)
(* all it wrote there.  FlushInv adds what a flush rests on: a device of a    *)
(* member that stays never loses an entry, and keeps a payload only with its *)
(* entry, so a payload that answers for a stamp answers for the entry.       *)
(***************************************************************************)
EXTENDS Records, FiniteSetTheorems, WellFoundedInduction, TLAPS

\* Every entry there is.
Written == {First} \cup {k.entry : k \in knew}

\* What writing gives an entry, whatever its key.
Shaped(e) ==
    /\ e.mseq \in 1..Len(chain)
    /\ StateAt(e.writer, e.mseq)
    /\ e.op \in Nat /\ e.stamp \in Nat
    /\ IF e.record.kind = "mergeable" THEN e.op > 0 ELSE e.record.id = e.stamp

SessionOver(w) ==
    [at : {"dialed", "judged", "runs"}, sends : SUBSET w,
     takes : SUBSET Devices, answers : SUBSET w,
     read : Nat, since : SUBSET Devices]

Inv ==
    /\ chain \in Seq(BOOLEAN)
    /\ run \in [Devices -> 1..Len(chain)]
    /\ \A e \in Written : Shaped(e)
    /\ IsFiniteSet(knew)
    /\ \A e \in Written : /\ e.stamp <= Cardinality(knew)
                          /\ e.op <= Cardinality(knew) + 1
    /\ recs \in [Devices -> SUBSET Written]
    /\ disk \in [Devices -> SUBSET Written]
    /\ sessions \in [Pairs -> SessionOver(Written) \cup {None}]

-----------------------------------------------------------------------------
\* The greatest of a bounded set of numbers, as next_op_seq takes it.
LEMMA MaxOfBounded ==
    ASSUME NEW b \in Nat, NEW S, S \subseteq 0..b, S # {}
    PROVE  Max(S) \in S /\ \A s \in S : s <= Max(S)
<1> DEFINE T == {b - s : s \in S}
<1>1. T \subseteq Nat /\ T # {}
  <2>1. \A s \in S : b - s \in Nat
    OBVIOUS
  <2>2. PICK s \in S : TRUE
    BY Zenon
  <2>3. b - s \in T
    BY Zenon
  <2> QED BY <2>1, <2>3, Zenon
<1>2. PICK t \in T : \A u \in T : ~(<<u, t>> \in OpToRel(<, Nat))
  <2> HIDE DEF T
  <2> QED BY <1>1, NatLessThanWellFounded, WFMin, Zenon
<1>3. PICK m \in S : t = b - m
  BY Zenon
<1>4. ASSUME NEW s \in S PROVE m >= s
  <2>1. b - s \in T /\ t \in Nat /\ b - s \in Nat
    BY <1>1, Zenon
  <2>2. ~(<<b - s, t>> \in OpToRel(<, Nat))
    BY <1>2, <2>1, Zenon
  <2>3. ~(b - s < t)
    BY <2>1, <2>2, Zenon DEF OpToRel
  <2> QED BY <2>3, <1>3
<1>5. \E x \in S : \A y \in S : x >= y
  BY <1>4, Zenon
<1>6. Max(S) \in S /\ \A y \in S : Max(S) >= y
  BY <1>5, Zenon DEF Max
<1> QED BY <1>6, Zenon

\* The longer of two prefixes is one of them and no shorter than either.
LEMMA MaxOfTwo ==
    ASSUME NEW x \in Nat, NEW y \in Nat
    PROVE  Max({x, y}) \in {x, y} /\ Max({x, y}) >= x /\ Max({x, y}) >= y
<1>1. \E t \in {x, y} : \A s \in {x, y} : t >= s
  OBVIOUS
<1>2. Max({x, y}) \in {x, y} /\ \A s \in {x, y} : Max({x, y}) >= s
  BY <1>1, Zenon DEF Max
<1> QED BY <1>2, Zenon

\* The first document's writer never leaves.
LEMMA FirstStays ==
    /\ First.writer # Guest /\ First.mseq = 1 /\ First.op = 1 /\ First.stamp = 0
    /\ First.record.kind = "mergeable" /\ First.record.id = 0
    /\ First.author \in Devices /\ First.writer = IdentityOf[First.author]
<1> DEFINE host == CHOOSE d \in Devices : IdentityOf[d] # Guest
<1>1. host \in Devices /\ IdentityOf[host] # Guest
  BY RecordsAssumption, Zenon
<1>2. First = Entry(Ref(IdentityOf[host], "mergeable", 0), host, 1, 1, 0)
  BY Zenon DEF First
<1> HIDE DEF host
<1> QED BY <1>1, <1>2, Zenon DEF Entry, Ref

\* A store keeps a part of what it is given.
LEMMA KeptPart == ASSUME NEW S PROVE Kept(S) \subseteq S
BY Zenon DEF Kept

\* A session over fewer entries is one over more.
LEMMA SessionGrows ==
    ASSUME NEW u, NEW w, u \subseteq w PROVE SessionOver(u) \subseteq SessionOver(w)
BY Zenon DEF SessionOver

\* A session that is opened, decided or answered from entries there are.
LEMMA SessionTypes ==
    ASSUME NEW w, NEW u \in SUBSET w, NEW n \in Nat, NEW x \in SUBSET Devices,
           NEW y \in SUBSET Devices
    PROVE  /\ [at |-> "dialed", sends |-> u, takes |-> x, answers |-> {},
              read |-> 0, since |-> y] \in SessionOver(w)
           /\ \A s \in SessionOver(w) :
                 /\ [s EXCEPT !.at = "judged", !.read = n] \in SessionOver(w)
                 /\ [s EXCEPT !.at = "runs", !.answers = u] \in SessionOver(w)
<1>1. [at |-> "dialed", sends |-> u, takes |-> x, answers |-> {},
       read |-> 0, since |-> y] \in SessionOver(w)
  BY Zenon DEF SessionOver
<1>2. ASSUME NEW s \in SessionOver(w)
      PROVE  [s EXCEPT !.at = "judged", !.read = n] \in SessionOver(w)
  BY Zenon DEF SessionOver
<1>3. ASSUME NEW s \in SessionOver(w)
      PROVE  [s EXCEPT !.at = "runs", !.answers = u] \in SessionOver(w)
  BY Zenon DEF SessionOver
<1> QED BY <1>1, <1>2, <1>3, Zenon

LEMMA InitInv == Init => Inv
<1> SUFFICES ASSUME Init PROVE Inv
  BY Zenon
<1>1. Written = {First}
  BY Zenon DEF Init, Written
<1>2. Shaped(First)
  BY FirstStays DEF Init, Shaped, StateAt
<1>3. IsFiniteSet(knew) /\ Cardinality(knew) = 0
  BY FS_EmptySet, Zenon DEF Init
<1>4. First.stamp <= 0 /\ First.op <= 0 + 1
  BY FirstStays
<1> QED BY <1>1, <1>2, <1>3, <1>4 DEF Init, Inv

-----------------------------------------------------------------------------
\* Nothing is written, to the chain or to a store.
LEMMA StoresKeep ==
    ASSUME Inv, UNCHANGED <<chain, knew>>,
           run' \in [Devices -> 1..Len(chain)],
           recs' \in [Devices -> SUBSET Written],
           disk' \in [Devices -> SUBSET Written],
           sessions' \in [Pairs -> SessionOver(Written) \cup {None}]
    PROVE  Inv'
<1>1. Written' = Written
  BY Zenon DEF Written, First
<1>2. \A e : Shaped(e)' <=> Shaped(e)
  BY Zenon DEF Shaped, StateAt
<1> QED BY <1>1, <1>2, Zenon DEF Inv

\* Only what Inv does not speak of changes.
LEMMA StillKeeps ==
    ASSUME Inv, UNCHANGED <<chain, run, knew, recs, disk, sessions>> PROVE Inv'
BY StoresKeep, Zenon DEF Inv

\* The operations an author holds of a record are counted from one.
LEMMA NextOpSeqCounts ==
    ASSUME Inv, NEW d \in Devices, NEW r
    PROVE  /\ NextOpSeq(d, r) \in Nat /\ NextOpSeq(d, r) > 0
           /\ NextOpSeq(d, r) <= Cardinality(knew) + 2
           /\ \A e \in recs[d] : e.author = d /\ e.record = r
                                  => e.op < NextOpSeq(d, r)
<1> DEFINE ops == {e.op : e \in {f \in recs[d] : f.author = d /\ f.record = r}}
           S == {0} \cup ops
           b == Cardinality(knew) + 1
<1>1. b \in Nat /\ Cardinality(knew) \in Nat
  BY FS_CardinalityType DEF Inv
<1>2. \A e \in recs[d] : e.op \in 0..b
  BY <1>1 DEF Inv, Shaped
<1>3. S \subseteq 0..b /\ S # {}
  BY <1>1, <1>2
<1>4. NextOpSeq(d, r) = Max(S) + 1
  BY Zenon DEF NextOpSeq
<1>5. \A e \in recs[d] : e.author = d /\ e.record = r => e.op \in S
  BY Zenon
<1> HIDE DEF S, b
<1>6. Max(S) \in S /\ \A s \in S : s <= Max(S)
  BY <1>1, <1>3, MaxOfBounded, Zenon
<1>7. Max(S) \in 0..b
  BY <1>3, <1>6, Zenon
<1>8. \A e \in recs[d] : e.author = d /\ e.record = r => e.op < Max(S) + 1
  BY <1>1, <1>2, <1>5, <1>6, <1>7
<1> QED BY <1>1, <1>4, <1>7, <1>8 DEF b

\* A new entry carries a stamp of its own.
LEMMA StampIsNew ==
    ASSUME Inv, NEW e, e.stamp = Stamp, NEW at
    PROVE  /\ Stamp \in Nat /\ \A f \in Written : f.stamp < Stamp
           /\ LET more == knew \cup {[entry |-> e, at |-> at]}
              IN IsFiniteSet(more) /\ Cardinality(more) = Cardinality(knew) + 1
<1> DEFINE k == [entry |-> e, at |-> at]
<1>1. Cardinality(knew) \in Nat /\ Stamp = Cardinality(knew) + 1
  BY FS_CardinalityType, Zenon DEF Inv, Stamp
<1>2. \A f \in Written : f.stamp \in Nat /\ f.stamp < Stamp
  BY <1>1 DEF Inv, Shaped
<1>3. \A l \in knew : l.entry \in Written
  BY Zenon DEF Written
<1>4. k.entry = e
  BY Zenon
<1>5. k \notin knew
  BY <1>1, <1>2, <1>3, <1>4
<1>6. IsFiniteSet(knew)
  BY Zenon DEF Inv
<1>7. IsFiniteSet(knew \cup {k}) /\ Cardinality(knew \cup {k}) = Cardinality(knew) + 1
  BY <1>5, <1>6, FS_AddElement, ZenonT(40)
<1>8. Stamp \in Nat
  BY <1>1
<1> QED BY <1>2, <1>7, <1>8, Zenon

\* write_pod_entry after the writer's check: the entry names the writer's point.
LEMMA WriteKeeps ==
    ASSUME Inv, NEW d \in Devices, RequireMember(d), NEW r, NEW op \in Nat,
           op <= Cardinality(knew) + 2,
           IF r.kind = "mergeable" THEN op > 0 ELSE r.id = Stamp,
           Write(d, Entry(r, d, Mseq(d), op, Stamp)), UNCHANGED sessions
    PROVE  Inv'
<1> DEFINE e == Entry(r, d, Mseq(d), op, Stamp)
           k == [entry |-> e, at |-> run[d]]
<1>1. /\ e.mseq = Mseq(d) /\ e.writer = IdentityOf[d] /\ e.op = op
      /\ e.stamp = Stamp /\ e.record = r /\ k.entry = e
  BY Zenon DEF Entry
<1>2. /\ knew' = knew \cup {k} /\ UNCHANGED <<chain, run, disk>>
      /\ recs' = [recs EXCEPT ![d] = Kept(@ \cup {e})]
  BY Zenon DEF Write
<1> HIDE DEF e, k
<1>3. Mseq(d) \in 1..Len(chain) /\ StateAt(IdentityOf[d], Mseq(d))
  BY DEF Inv, Mseq, RequireMember, IsMember, StateAt
<1>4. /\ Stamp \in Nat /\ IsFiniteSet(knew')
      /\ Cardinality(knew') = Cardinality(knew) + 1
  BY <1>1, <1>2, StampIsNew, Zenon DEF k
<1>5. Cardinality(knew) \in Nat /\ Stamp = Cardinality(knew) + 1
  BY FS_CardinalityType, Zenon DEF Inv, Stamp
<1>6. Written' = Written \cup {e}
  BY <1>1, <1>2, Zenon DEF Written, First
<1>7. \A f : Shaped(f)' <=> Shaped(f)
  BY <1>2, Zenon DEF Shaped, StateAt
<1>8. Shaped(e)
  BY <1>1, <1>3, <1>4, Zenon DEF Shaped
<1>9. \A f \in Written' : /\ f.stamp <= Cardinality(knew')
                          /\ f.op <= Cardinality(knew') + 1
  BY <1>1, <1>4, <1>5, <1>6 DEF Inv, Shaped
<1>10. recs' \in [Devices -> SUBSET Written']
  <2>1. Kept(recs[d] \cup {e}) \subseteq Written'
    BY <1>6, KeptPart, Zenon DEF Inv
  <2> QED BY <1>2, <1>6, <2>1, Zenon DEF Inv
<1>11. sessions' \in [Pairs -> SessionOver(Written') \cup {None}]
  <2>1. SessionOver(Written) \subseteq SessionOver(Written')
    BY <1>6, SessionGrows, Zenon
  <2> QED BY <2>1, Zenon DEF Inv
<1> QED BY <1>2, <1>4, <1>6, <1>7, <1>8, <1>9, <1>10, <1>11, Zenon DEF Inv

\* An event is appended and taken by the device that writes it.
LEMMA EventKeeps ==
    ASSUME Inv, NEW d \in Devices, NEW b \in BOOLEAN, chain' = Append(chain, b),
           run[d] = Len(chain), run' = [run EXCEPT ![d] = @ + 1],
           UNCHANGED <<knew, sessions>>,
           recs' \in [Devices -> SUBSET Written],
           disk' \in [Devices -> SUBSET Written]
    PROVE  Inv'
<1>1. chain' \in Seq(BOOLEAN) /\ Len(chain') = Len(chain) + 1
  BY DEF Inv
<1>2. \A i \in 1..Len(chain) : chain'[i] = chain[i]
  BY DEF Inv
<1>3. run' \in [Devices -> 1..Len(chain')]
  BY <1>1 DEF Inv
<1>4. Written' = Written
  BY Zenon DEF Written, First
<1>5. \A e : Shaped(e) => Shaped(e)'
  BY <1>1, <1>2 DEF Shaped, StateAt, Inv
<1> QED BY <1>1, <1>3, <1>4, <1>5, Zenon DEF Inv

-----------------------------------------------------------------------------
\* The sessions after one of them moved on or ended.
LEMMA SessionMoves ==
    ASSUME Inv, NEW p \in Pairs, NEW s \in SessionOver(Written) \cup {None},
           sessions' = [sessions EXCEPT ![p] = s],
           UNCHANGED <<chain, run, knew, disk>>,
           recs' \in [Devices -> SUBSET Written]
    PROVE  Inv'
<1>1. sessions' \in [Pairs -> SessionOver(Written) \cup {None}]
  BY Zenon DEF Inv
<1> QED BY <1>1, StoresKeep, Zenon DEF Inv

LEMMA WritesKeep == ASSUME Inv, NEW d \in Devices, Writes(d) PROVE Inv'
<1>1. Cardinality(knew) \in Nat
  BY FS_CardinalityType, Zenon DEF Inv
<1>2. ASSUME NEW kind, RequireMember(d), Write(d, FreshRecord(d, kind)),
             UNCHANGED sessions
      PROVE  Inv'
  <2> DEFINE r == Ref(IdentityOf[d], kind, Stamp)
             op == IF kind = "mergeable" THEN 1 ELSE 0
  <2>1. op \in Nat /\ op <= Cardinality(knew) + 2
    BY <1>1
  <2>2. IF r.kind = "mergeable" THEN op > 0 ELSE r.id = Stamp
    BY DEF Ref
  <2>3. Write(d, Entry(r, d, Mseq(d), op, Stamp))
    BY <1>2, Zenon DEF FreshRecord
  <2> HIDE DEF r, op
  <2> QED BY <1>2, <2>1, <2>2, <2>3, WriteKeeps, Zenon
<1>3. ASSUME NEW kind, PutRecord(d, kind) PROVE Inv'
  BY <1>2, <1>3, Zenon DEF PutRecord
<1>4. ASSUME NEW r, AppendOp(d, r) PROVE Inv'
  <2>1. /\ NextOpSeq(d, r) \in Nat /\ NextOpSeq(d, r) > 0
        /\ NextOpSeq(d, r) <= Cardinality(knew) + 2
    BY NextOpSeqCounts, Zenon
  <2> QED BY <1>4, <2>1, WriteKeeps, Zenon DEF AppendOp
<1>5. CASE StreamBegins(d)
  BY <1>5, StillKeeps, Zenon DEF StreamBegins, stores
<1>6. CASE StreamImports(d)
  BY <1>6, StillKeeps, Zenon DEF StreamImports, stores
<1>7. CASE StreamEnds(d)
  <2>1. CASE WriterStill(d) /\ Write(d, FreshRecord(d, "claim"))
    BY <1>2, <1>7, <2>1, Zenon DEF StreamEnds, WriterStill
  <2>2. CASE UNCHANGED <<stores, knew>>
    BY <1>7, <2>2, StillKeeps, Zenon DEF StreamEnds, stores
  <2> QED BY <1>7, <2>1, <2>2, Zenon DEF StreamEnds
<1> QED BY <1>3, <1>4, <1>5, <1>6, <1>7, Zenon DEF Writes

LEMMA GoesKeep == ASSUME Inv, NEW d \in Devices, Goes(d) PROVE Inv'
<1>1. CASE LeaveBegins(d)
  <2>1. sessions' \in [Pairs -> SessionOver(Written) \cup {None}]
    <3>1. ASSUME NEW p \in Pairs, sessions[p] # None
          PROVE  [sessions[p] EXCEPT !.since = @ \ {d}] \in SessionOver(Written)
      <4>1. sessions[p] \in SessionOver(Written)
        BY <3>1, Zenon DEF Inv
      <4> QED BY <4>1, Zenon DEF SessionOver
    <3> QED BY <1>1, <3>1, Zenon DEF LeaveBegins
  <2> QED BY <1>1, <2>1, StoresKeep, Zenon DEF LeaveBegins, stores, Inv
<1>2. CASE FlushEnds(d)
  BY <1>2, StillKeeps, Zenon DEF FlushEnds, stores
<1>3. CASE LeaveWrites(d)
  <2>1. CASE /\ run[d] = Len(chain) /\ chain' = Append(chain, FALSE)
             /\ run' = [run EXCEPT ![d] = @ + 1] /\ Forget(d)
    <3>1. /\ recs' \in [Devices -> SUBSET Written]
          /\ disk' \in [Devices -> SUBSET Written]
      BY <2>1, Zenon DEF Forget, Inv
    <3> QED BY <1>3, <2>1, <3>1, EventKeeps, Zenon DEF LeaveWrites
  <2>2. CASE UNCHANGED <<chain, run, holds, recs, disk>>
    BY <1>3, <2>2, StillKeeps, Zenon DEF LeaveWrites
  <2> QED BY <1>3, <2>1, <2>2, Zenon DEF LeaveWrites
<1>4. CASE Settles(d)
  <2>1. /\ recs' \in [Devices -> SUBSET Written]
        /\ disk' \in [Devices -> SUBSET Written]
    BY <1>4, Zenon DEF Settles, Forget, Inv
  <2> QED BY <1>4, <2>1, StoresKeep, Zenon DEF Settles, Inv
<1>5. CASE Removes(d)
  BY <1>5, EventKeeps, Zenon DEF Removes, Inv
<1>6. CASE BatchSettles(d)
  <2>1. disk' \in [Devices -> SUBSET Written]
    BY <1>6, Zenon DEF BatchSettles, Inv
  <2> QED BY <1>6, <2>1, StoresKeep, Zenon DEF BatchSettles, Inv
<1>7. CASE Killed(d)
  <2>1. recs' \in [Devices -> SUBSET Written]
    BY <1>7, Zenon DEF Killed, Inv
  <2>2. sessions' \in [Pairs -> SessionOver(Written) \cup {None}]
    BY <1>7, Zenon DEF Killed, Inv
  <2> QED BY <1>7, <2>1, <2>2, StoresKeep, Zenon DEF Killed, Inv
<1> QED BY <1>1, <1>2, <1>3, <1>4, <1>5, <1>6, <1>7, Zenon DEF Goes

LEMMA MeetsKeep ==
    ASSUME Inv, NEW d \in Devices, NEW a \in Devices, d # a, Meets(d, a)
    PROVE  Inv'
<1> DEFINE p == <<d, a>>
<1>1. p \in Pairs
  BY Zenon DEF Pairs
<1>2. sessions[p] # None => sessions[p] \in SessionOver(Written)
  BY <1>1, Zenon DEF Inv
<1>3. CASE MembershipMet(d, a)
  <2>1. Max({run[d], run[a]}) \in 1..Len(chain)
    BY MaxOfTwo DEF Inv
  <2>2. run' \in [Devices -> 1..Len(chain)]
    BY <1>3, <2>1, Zenon DEF MembershipMet, Inv
  <2> QED BY <1>3, <2>2, StoresKeep, Zenon DEF MembershipMet, Inv
<1>4. CASE PayloadArrives(d, a)
  BY <1>4, StillKeeps, Zenon DEF PayloadArrives
<1>5. CASE Rejoins(d, a)
  BY <1>5, EventKeeps, Zenon DEF Rejoins, Inv
<1>6. CASE DialOpens(d, a)
  <2> DEFINE s == [at |-> "dialed",
                   sends |-> IF ServesRecords(d, a) THEN recs[d] ELSE {},
                   takes |-> IF ServesRecords(d, a) THEN Devices
                             ELSE TakenUnserved(d),
                   answers |-> {}, read |-> 0,
                   since |-> {x \in {d, a} : leaving[x].at = "flushes"}]
  <2>1. s \in SessionOver(Written)
    <3> DEFINE u == IF ServesRecords(d, a) THEN recs[d] ELSE {}
               x == IF ServesRecords(d, a) THEN Devices ELSE TakenUnserved(d)
               y == {z \in {d, a} : leaving[z].at = "flushes"}
    <3>1. u \in SUBSET Written
      BY Zenon DEF Inv
    <3>2. x \in SUBSET Devices /\ y \in SUBSET Devices
      BY Zenon DEF TakenUnserved
    <3> HIDE DEF u, x, y
    <3>3. [at |-> "dialed", sends |-> u, takes |-> x, answers |-> {}, read |-> 0,
           since |-> y] \in SessionOver(Written)
      BY <3>1, <3>2, SessionTypes, Zenon
    <3> QED BY <3>3, Zenon DEF u, x, y
  <2>2. sessions' = [sessions EXCEPT ![p] = s]
    BY <1>6, Zenon DEF DialOpens
  <2> HIDE DEF s
  <2> QED BY <1>1, <1>6, <2>1, <2>2, SessionMoves, Zenon DEF DialOpens, stores, Inv
<1>7. ASSUME UNCHANGED <<chain, run, knew, disk>>,
             recs' \in [Devices -> SUBSET Written],
             sessions' = [sessions EXCEPT ![p] = None]
      PROVE  Inv'
  BY <1>1, <1>7, SessionMoves, Zenon
<1>8. CASE AcceptDecides(d, a)
  <2>1. CASE sessions' = [sessions EXCEPT ![p].at = "judged", ![p].read = run[a]]
    <3> DEFINE s == [sessions[p] EXCEPT !.at = "judged", !.read = run[a]]
    <3>1. s \in SessionOver(Written)
      <4>1. sessions[p] \in SessionOver(Written)
        BY <1>2, <1>8, Zenon DEF AcceptDecides
      <4>2. run[a] \in Nat
        BY DEF Inv
      <4> QED BY <4>1, <4>2, SessionTypes, Zenon
    <3>2. sessions' = [sessions EXCEPT ![p] = s]
      BY <1>1, <2>1, Zenon DEF Inv
    <3> HIDE DEF s
    <3> QED BY <1>1, <1>8, <3>1, <3>2, SessionMoves, Zenon DEF AcceptDecides, stores, Inv
  <2>2. CASE sessions' = [sessions EXCEPT ![p] = None]
    BY <1>7, <1>8, <2>2, Zenon DEF AcceptDecides, stores, Inv
  <2> QED BY <1>8, <2>1, <2>2, Zenon DEF AcceptDecides
<1>9. CASE AcceptOpens(d, a)
  <2>1. CASE sessions' = [sessions EXCEPT ![p].at = "runs", ![p].answers = recs[a]]
    <3> DEFINE s == [sessions[p] EXCEPT !.at = "runs", !.answers = recs[a]]
    <3>1. s \in SessionOver(Written)
      <4>1. sessions[p] \in SessionOver(Written)
        BY <1>2, <1>9, Zenon DEF AcceptOpens
      <4>2. recs[a] \in SUBSET Written
        BY Zenon DEF Inv
      <4> QED BY <4>1, <4>2, SessionTypes, Zenon
    <3>2. sessions' = [sessions EXCEPT ![p] = s]
      BY <1>1, <2>1, Zenon DEF Inv
    <3> HIDE DEF s
    <3> QED BY <1>1, <1>9, <3>1, <3>2, SessionMoves, Zenon DEF AcceptOpens, stores, Inv
  <2>2. CASE sessions' = [sessions EXCEPT ![p] = None]
    BY <1>7, <1>9, <2>2, Zenon DEF AcceptOpens, stores, Inv
  <2> QED BY <1>9, <2>1, <2>2, Zenon DEF AcceptOpens
<1>10. CASE SessionEnds(d, a)
  <2> DEFINE s == sessions[p]
             came == {e \in s.answers : e.author \in s.takes}
  <2>1. s.sends \subseteq Written /\ came \subseteq Written
    BY <1>2, <1>10, Zenon DEF SessionEnds, SessionOver
  <2>2. /\ Kept(recs[a] \cup s.sends) \subseteq Written
        /\ Kept(recs[d] \cup came) \subseteq Written
    BY <2>1, KeptPart, Zenon DEF Inv
  <2>3. recs' = [recs EXCEPT ![a] = Kept(@ \cup s.sends), ![d] = Kept(@ \cup came)]
    BY <1>10, Zenon DEF SessionEnds
  <2> HIDE DEF came
  <2>4. recs' \in [Devices -> SUBSET Written]
    BY <2>2, <2>3, Zenon DEF Inv
  <2> QED BY <1>7, <1>10, <2>4, Zenon DEF SessionEnds
<1>11. CASE SessionFails(d, a)
  BY <1>7, <1>11, Zenon DEF SessionFails, stores, Inv
<1> QED BY <1>3, <1>4, <1>5, <1>6, <1>8, <1>9, <1>10, <1>11, Zenon DEF Meets

LEMMA NextInv == Inv /\ [Next]_vars => Inv'
<1> SUFFICES ASSUME Inv, [Next]_vars PROVE Inv'
  BY Zenon
<1>1. CASE UNCHANGED vars
  BY <1>1, StillKeeps, Zenon DEF vars
<1>2. CASE \E d \in Devices : Writes(d)
  BY <1>2, WritesKeep, Zenon
<1>3. CASE \E d \in Devices : Goes(d)
  BY <1>3, GoesKeep, Zenon
<1>4. CASE \E p \in Pairs : Meets(p[1], p[2])
  BY <1>4, MeetsKeep, Zenon DEF Pairs
<1> QED BY <1>1, <1>2, <1>3, <1>4, Zenon DEF Next

\* What the check before a write promised holds when an entry is judged.
LEMMA InvCounts == Inv => WrittenCounts
<1> SUFFICES ASSUME Inv, NEW k \in knew, NEW d \in Devices, RequireMember(d),
                    k.entry \in recs[d], k.entry.stamp \in blobs[d],
                    Reaches(d, k.entry.writer, k.entry.mseq)
             PROVE  LET e == k.entry
                        answer == IF e.record.kind = "mergeable"
                                  THEN ReadOps(d, e.record) ELSE Read(d, e.record)
                    IN /\ e.record \in ListRecords(d)
                       /\ answer.said = "ok" /\ e \in answer.entries
  BY Zenon DEF WrittenCounts
<1> DEFINE e == k.entry
           r == e.record
<1>1. Shaped(e) /\ \A f \in recs[d] : Shaped(f)
  BY Zenon DEF Inv, Written
<1>2. Judge(d, e) = "counted"
  BY <1>1, Zenon DEF Judge, Shaped
<1>3. e \in ReadEntries(d, r) /\ r \in ListRecords(d)
  BY <1>2, Zenon DEF RecordView, ReadEntries, ListRecords, ReadRecords
<1>4. CASE r.kind = "mergeable"
  <2>1. e \in Operations(d, r)
    BY <1>1, <1>3, <1>4, Zenon DEF Operations, Shaped
  <2>2. ReadOps(d, r) = [said |-> "ok", entries |-> Operations(d, r)]
    BY <1>4, <2>1, Zenon DEF ReadOps, Answer
  <2> QED BY <1>3, <1>4, <2>1, <2>2
<1>5. CASE r.kind # "mergeable"
  <2>1. \A f \in ReadEntries(d, r) : f.stamp <= e.stamp
    BY <1>1, <1>5 DEF RecordView, ReadEntries, Shaped
  <2>2. e \in Placed(d, r)
    BY <1>3, <1>5, <2>1, Zenon DEF Placed
  <2>3. Read(d, r) = [said |-> "ok", entries |-> Placed(d, r)]
    BY <1>5, Zenon DEF Read, Answer
  <2> QED BY <1>3, <1>5, <2>2, <2>3
<1> QED BY <1>4, <1>5, Zenon

\* put_record, put_record_streamed and append_op against judge and the reading
\* calls: what a device wrote under its check is read on every member's device
\* holding it, its payload and the chain it names, through any leaves,
\* removals, returns and kills.
THEOREM WrittenAlwaysCounts == Spec => []WrittenCounts
<1>1. Spec => []Inv
  BY InitInv, NextInv, PTL DEF Spec
<1> QED BY <1>1, InvCounts, PTL

-----------------------------------------------------------------------------
(***************************************************************************)
(* Keys of operations, where no device is killed.                           *)
(***************************************************************************)
NoKills ==
    \A c \in DOMAIN Cases :
        "kills" \in DOMAIN Cases[c].allows /\ Cases[c].allows["kills"] = 0

KillsNone == "kills" \in DOMAIN left /\ left["kills"] = 0

KeysDiffer(S) == \A e, f \in S : KeyOf(e) = KeyOf(f) => e = f

\* The author of an entry wrote it where its chain already was.
Signed(e) ==
    /\ e.author \in Devices /\ e.writer = IdentityOf[e.author]
    /\ e.mseq <= Mseq(e.author)
    /\ e.record.id \in Nat /\ e.record.id <= Cardinality(knew)

\* A member holds all it wrote at the point it writes at.
HoldsOwn(d) ==
    IsMember(d, IdentityOf[d]) =>
        \A e \in Written : e.author = d /\ e.mseq = Mseq(d) => e \in recs[d]

Keys ==
    /\ KillsNone
    /\ KeysDiffer(Written)
    /\ \A e \in Written : Signed(e)
    /\ \A d \in Devices : HoldsOwn(d)

\* Where keys differ, a store keeps all it is given.
LEMMA KeptAll ==
    ASSUME NEW S, KeysDiffer(S), \A e \in S : e.stamp \in Nat PROVE Kept(S) = S
BY DEF Kept, KeysDiffer

\* What any call but a kill spends.
LEMMA SpendKillsNone ==
    ASSUME KillsNone, NEW what, what # "kills", Spend(what) PROVE KillsNone'
BY Zenon DEF KillsNone, Spend

LEMMA InitKeys == ASSUME NoKills PROVE Init => Keys
<1> SUFFICES ASSUME Init PROVE Keys
  BY Zenon
<1>1. Written = {First}
  BY Zenon DEF Init, Written
<1>2. KillsNone
  BY Zenon DEF Init, NoKills, KillsNone, Setting
<1>3. Cardinality(knew) = 0
  BY FS_EmptySet, Zenon DEF Init
<1>4. Mseq(First.author) = 1
  BY FirstStays, Zenon DEF Mseq, Init
<1>5. Signed(First)
  BY <1>3, <1>4, FirstStays DEF Signed
<1>6. \A d \in Devices : First \in recs[d]
  BY Zenon DEF Init
<1> QED BY <1>1, <1>2, <1>5, <1>6, Zenon DEF Keys, KeysDiffer, HoldsOwn

\* Nothing is written and no store loses an entry.
LEMMA KeysStay ==
    ASSUME Keys, KillsNone', UNCHANGED <<chain, run, knew>>,
           \A d \in Devices : recs[d] \subseteq recs'[d]
    PROVE  Keys'
<1>1. Written' = Written
  BY Zenon DEF Written, First
<1>2. \A e : Signed(e)' <=> Signed(e)
  BY Zenon DEF Signed, Mseq
<1>3. ASSUME NEW d \in Devices PROVE HoldsOwn(d)'
  <2>1. (IsMember(d, IdentityOf[d])' <=> IsMember(d, IdentityOf[d])) /\ Mseq(d)' = Mseq(d)
    BY Zenon DEF IsMember, StateAt, Mseq
  <2>2. HoldsOwn(d)
    BY Zenon DEF Keys
  <2> QED BY <1>1, <2>1, <2>2, Zenon DEF HoldsOwn
<1>4. KeysDiffer(Written)' <=> KeysDiffer(Written)
  BY <1>1, Zenon DEF KeysDiffer, KeyOf
<1> QED BY <1>1, <1>2, <1>3, <1>4, Zenon DEF Keys

\* A write under a record of its own, or under the next of its operations.
LEMMA KeysWrite ==
    ASSUME Inv, Keys, KillsNone', NEW d \in Devices, RequireMember(d),
           NEW r, NEW op \in Nat, r.id \in Nat,
           Write(d, Entry(r, d, Mseq(d), op, Stamp)),
           \/ r.id = Stamp
           \/ /\ r.id <= Cardinality(knew)
              /\ \A f \in recs[d] : f.author = d /\ f.record = r => f.op < op
    PROVE  Keys'
<1> DEFINE e == Entry(r, d, Mseq(d), op, Stamp)
           k == [entry |-> e, at |-> run[d]]
<1>1. /\ e.mseq = Mseq(d) /\ e.writer = IdentityOf[d] /\ e.op = op
      /\ e.stamp = Stamp /\ e.record = r /\ e.author = d /\ k.entry = e
  BY Zenon DEF Entry
<1>2. /\ knew' = knew \cup {k} /\ UNCHANGED <<chain, run>>
      /\ recs' = [recs EXCEPT ![d] = Kept(@ \cup {e})]
  BY Zenon DEF Write
<1> HIDE DEF e, k
<1>3. Cardinality(knew) \in Nat /\ Stamp = Cardinality(knew) + 1
  BY FS_CardinalityType, Zenon DEF Inv, Stamp
<1>4. Cardinality(knew') = Cardinality(knew) + 1
  BY <1>1, <1>2, StampIsNew, Zenon DEF k
<1>5. Written' = Written \cup {e}
  BY <1>1, <1>2, Zenon DEF Written, First
<1>6. IsMember(d, IdentityOf[d])
  BY Zenon DEF RequireMember
<1>7. ASSUME NEW f \in Written, KeyOf(f) = KeyOf(e) PROVE FALSE
  <2>1. f.record = r /\ f.author = d /\ f.mseq = Mseq(d) /\ f.op = op
    BY <1>1, <1>7, Zenon DEF KeyOf
  <2>2. f \in recs[d]
    BY <1>6, <2>1, Zenon DEF Keys, HoldsOwn
  <2>3. f.record.id <= Cardinality(knew)
    BY Zenon DEF Keys, Signed
  <2> QED BY <1>3, <2>1, <2>2, <2>3
<1>8. KeysDiffer(Written \cup {e})
  BY <1>7, Zenon DEF Keys, KeysDiffer
<1>9. Kept(recs[d] \cup {e}) = recs[d] \cup {e}
  <2>1. recs[d] \cup {e} \subseteq Written \cup {e}
    BY Zenon DEF Inv
  <2>2. KeysDiffer(recs[d] \cup {e})
    BY <1>8, <2>1, Zenon DEF KeysDiffer
  <2>3. \A f \in recs[d] \cup {e} : f.stamp \in Nat
    BY <1>1, <1>3 DEF Inv, Shaped
  <2> QED BY <2>2, <2>3, KeptAll, Zenon
<1>10. recs'[d] = recs[d] \cup {e} /\ \A x \in Devices \ {d} : recs'[x] = recs[x]
  BY <1>2, <1>9, Zenon DEF Inv
<1>11. \A x : Mseq(x)' = Mseq(x)
  BY <1>2, Zenon DEF Mseq
<1>12. ASSUME NEW f \in Written' PROVE Signed(f)'
  <2>1. CASE f \in Written
    BY <1>3, <1>4, <1>11, <2>1 DEF Keys, Signed
  <2>2. CASE f = e
    BY <1>1, <1>3, <1>4, <1>11, <2>2 DEF Signed, Inv, Mseq
  <2> QED BY <1>5, <2>1, <2>2, Zenon
<1>13. ASSUME NEW x \in Devices PROVE HoldsOwn(x)'
  <2>1. IsMember(x, IdentityOf[x])' <=> IsMember(x, IdentityOf[x])
    BY <1>2, Zenon DEF IsMember, StateAt
  <2>2. HoldsOwn(x)
    BY Zenon DEF Keys
  <2> QED BY <1>1, <1>5, <1>10, <1>11, <2>1, <2>2, Zenon DEF HoldsOwn
<1>14. KeysDiffer(Written)'
  BY <1>5, <1>8, Zenon DEF KeysDiffer, KeyOf
<1> QED BY <1>12, <1>13, <1>14, Zenon DEF Keys

\* The chain grows, devices follow it, and a store is dropped only where its
\* identity is no member by what the device then holds.
LEMMA KeysFollow ==
    ASSUME Inv, Keys, KillsNone', knew' = knew,
           \A i \in 1..Len(chain) : chain'[i] = chain[i],
           run' \in [Devices -> Nat], \A d \in Devices : run[d] <= run'[d],
           \A d \in Devices : \/ recs[d] \subseteq recs'[d]
                             \/ ~IsMember(d, IdentityOf[d])'
    PROVE  Keys'
<1>1. Written' = Written
  BY Zenon DEF Written, First
<1>2. \A d \in Devices : run[d] \in 1..Len(chain)
  BY Zenon DEF Inv
<1>3. \A d \in Devices : Mseq(d) \in Nat /\ Mseq(d)' \in Nat /\ Mseq(d) <= Mseq(d)'
  BY <1>2 DEF Mseq
<1>4. ASSUME NEW e \in Written PROVE Signed(e)'
  <2>1. Signed(e) /\ e.mseq \in Nat
    BY DEF Keys, Inv, Shaped
  <2>2. e.mseq <= Mseq(e.author)'
    BY <1>3, <2>1 DEF Signed
  <2> QED BY <2>1, <2>2, Zenon DEF Signed
<1>5. ASSUME NEW d \in Devices PROVE HoldsOwn(d)'
  <2> SUFFICES ASSUME IsMember(d, IdentityOf[d])', NEW e \in Written,
                      e.author = d, e.mseq = Mseq(d)'
               PROVE  e \in recs'[d]
    BY <1>1, Zenon DEF HoldsOwn
  <2>1. recs[d] \subseteq recs'[d]
    BY Zenon
  <2>2. e.mseq <= Mseq(d) /\ e.mseq \in Nat
    BY DEF Keys, Signed, Inv, Shaped
  <2>3. Mseq(d)' = Mseq(d)
    BY <1>3, <2>2
  <2>4. IsMember(d, IdentityOf[d])
    <3>1. CASE IdentityOf[d] # Guest
      BY <3>1, Zenon DEF IsMember, StateAt
    <3>2. CASE IdentityOf[d] = Guest
      <4>1. run'[d] = run[d]
        BY <2>3, <3>2, Zenon DEF Mseq
      <4>2. chain'[run'[d]]
        BY <3>2, Zenon DEF IsMember, StateAt
      <4> QED BY <1>2, <4>1, <4>2, Zenon DEF IsMember, StateAt
    <3> QED BY <3>1, <3>2, Zenon
  <2>5. HoldsOwn(d)
    BY Zenon DEF Keys
  <2> QED BY <2>1, <2>3, <2>4, <2>5, Zenon DEF HoldsOwn
<1>6. KeysDiffer(Written)'
  BY <1>1, Zenon DEF Keys, KeysDiffer, KeyOf
<1> QED BY <1>1, <1>4, <1>5, <1>6, Zenon DEF Keys

\* An event of the chain, written by d, which forgets its store or not.
LEMMA KeysEvent ==
    ASSUME Inv, Keys, KillsNone', knew' = knew, NEW d \in Devices,
           NEW b \in BOOLEAN, chain' = Append(chain, b),
           run[d] = Len(chain), run' = [run EXCEPT ![d] = @ + 1],
           \A x \in Devices \ {d} : recs[x] \subseteq recs'[x],
           recs[d] \subseteq recs'[d] \/ (IdentityOf[d] = Guest /\ b = FALSE)
    PROVE  Keys'
<1>1. /\ \A i \in 1..Len(chain) : chain'[i] = chain[i]
      /\ chain'[Len(chain) + 1] = b
  BY DEF Inv
<1>2. run' \in [Devices -> Nat] /\ \A x \in Devices : run[x] <= run'[x]
  BY DEF Inv
<1>3. ASSUME IdentityOf[d] = Guest, b = FALSE PROVE ~IsMember(d, IdentityOf[d])'
  <2>1. run'[d] = Len(chain) + 1
    BY Zenon DEF Inv
  <2> QED BY <1>1, <1>3, <2>1, Zenon DEF IsMember, StateAt
<1>4. \A x \in Devices : recs[x] \subseteq recs'[x] \/ ~IsMember(x, IdentityOf[x])'
  BY <1>3, Zenon
<1> QED BY <1>1, <1>2, <1>4, KeysFollow, Zenon

LEMMA WritesKeepKeys ==
    ASSUME Inv, Keys, NEW d \in Devices, Writes(d) PROVE Keys'
<1>1. Cardinality(knew) \in Nat /\ Stamp \in Nat
  BY FS_CardinalityType DEF Inv, Stamp
<1>2. ASSUME NEW kind, RequireMember(d), Write(d, FreshRecord(d, kind)), KillsNone'
      PROVE  Keys'
  <2> DEFINE r == Ref(IdentityOf[d], kind, Stamp)
             op == IF kind = "mergeable" THEN 1 ELSE 0
  <2>1. op \in Nat
    BY Zenon
  <2>2. r.id = Stamp
    BY Zenon DEF Ref
  <2>3. Write(d, Entry(r, d, Mseq(d), op, Stamp))
    BY <1>2, Zenon DEF FreshRecord
  <2> HIDE DEF r, op
  <2> QED BY <1>1, <1>2, <2>1, <2>2, <2>3, KeysWrite, Zenon
<1>3. KillsNone
  BY Zenon DEF Keys
<1>4. ASSUME NEW kind, PutRecord(d, kind) PROVE Keys'
  BY <1>2, <1>3, <1>4, SpendKillsNone, Zenon DEF PutRecord
<1>5. ASSUME NEW r, AppendOp(d, r) PROVE Keys'
  <2>1. PICK e \in recs[d] : e.record = r
    BY <1>5, Zenon DEF AppendOp, ReadRecords, RecordView
  <2>2. r.id \in Nat /\ r.id <= Cardinality(knew)
    BY <2>1, Zenon DEF Inv, Keys, Signed
  <2>3. /\ NextOpSeq(d, r) \in Nat
        /\ \A f \in recs[d] : f.author = d /\ f.record = r => f.op < NextOpSeq(d, r)
    BY NextOpSeqCounts, Zenon
  <2>4. KillsNone'
    BY <1>3, <1>5, SpendKillsNone, Zenon DEF AppendOp
  <2> QED BY <1>5, <2>2, <2>3, <2>4, KeysWrite, Zenon DEF AppendOp
<1>6. CASE StreamBegins(d)
  <2>1. KillsNone'
    BY <1>3, <1>6, SpendKillsNone, Zenon DEF StreamBegins
  <2> QED BY <1>6, <2>1, KeysStay, Zenon DEF StreamBegins, stores
<1>7. CASE StreamImports(d)
  BY <1>3, <1>7, KeysStay, Zenon DEF StreamImports, stores, KillsNone
<1>8. CASE StreamEnds(d)
  <2>1. KillsNone'
    BY <1>3, <1>8, Zenon DEF StreamEnds, KillsNone
  <2>2. CASE WriterStill(d) /\ Write(d, FreshRecord(d, "claim"))
    BY <1>2, <2>1, <2>2, Zenon DEF WriterStill
  <2>3. CASE UNCHANGED <<stores, knew>>
    BY <2>1, <2>3, KeysStay, Zenon DEF stores
  <2> QED BY <1>8, <2>2, <2>3, Zenon DEF StreamEnds
<1> QED BY <1>4, <1>5, <1>6, <1>7, <1>8, Zenon DEF Writes

LEMMA GoesKeepKeys == ASSUME Inv, Keys, NEW d \in Devices, Goes(d) PROVE Keys'
<1>1. KillsNone
  BY Zenon DEF Keys
<1>2. CASE LeaveBegins(d)
  <2>1. KillsNone'
    BY <1>1, <1>2, SpendKillsNone, Zenon DEF LeaveBegins
  <2> QED BY <1>2, <2>1, KeysStay, Zenon DEF LeaveBegins, stores
<1>3. CASE FlushEnds(d)
  BY <1>1, <1>3, KeysStay, Zenon DEF FlushEnds, stores, KillsNone
<1>4. CASE LeaveWrites(d)
  <2>1. KillsNone'
    BY <1>1, <1>4, Zenon DEF LeaveWrites, KillsNone
  <2>2. CASE /\ IdentityOf[d] = Guest /\ run[d] = Len(chain)
             /\ chain' = Append(chain, FALSE)
             /\ run' = [run EXCEPT ![d] = @ + 1] /\ Forget(d)
    <3>1. \A x \in Devices \ {d} : recs[x] \subseteq recs'[x]
      BY <2>2, Zenon DEF Forget, Inv
    <3> QED BY <1>4, <2>1, <2>2, <3>1, KeysEvent, Zenon DEF LeaveWrites
  <2>3. CASE UNCHANGED <<chain, run, holds, recs, disk>>
    BY <1>4, <2>1, <2>3, KeysStay, Zenon DEF LeaveWrites
  <2> QED BY <1>4, <2>2, <2>3, Zenon DEF LeaveWrites
<1>5. CASE Settles(d)
  <2>1. KillsNone' /\ UNCHANGED <<chain, run, knew>>
    BY <1>1, <1>5, Zenon DEF Settles, KillsNone
  <2>2. ~IsMember(d, IdentityOf[d])'
    BY <1>5, <2>1, Zenon DEF Settles, IsMember, StateAt
  <2>3. \A x \in Devices \ {d} : recs[x] \subseteq recs'[x]
    BY <1>5, Zenon DEF Settles, Forget, Inv
  <2>4. run' \in [Devices -> Nat] /\ \A x \in Devices : run[x] <= run'[x]
    BY <2>1 DEF Inv
  <2> QED BY <2>1, <2>2, <2>3, <2>4, KeysFollow, Zenon
<1>6. CASE Removes(d)
  <2>1. KillsNone'
    BY <1>1, <1>6, SpendKillsNone, Zenon DEF Removes
  <2> QED BY <1>6, <2>1, KeysEvent, Zenon DEF Removes
<1>7. CASE BatchSettles(d)
  BY <1>1, <1>7 DEF BatchSettles, KillsNone
<1>8. CASE Killed(d)
  BY <1>1, <1>8 DEF Killed, Spend, KillsNone
<1> QED BY <1>2, <1>3, <1>4, <1>5, <1>6, <1>7, <1>8, Zenon DEF Goes

LEMMA MeetsKeepKeys ==
    ASSUME Inv, Keys, NEW d \in Devices, NEW a \in Devices, d # a, Meets(d, a)
    PROVE  Keys'
<1>1. KillsNone
  BY Zenon DEF Keys
<1>2. CASE MembershipMet(d, a)
  <2>1. KillsNone' /\ UNCHANGED <<chain, knew, recs>>
    BY <1>1, <1>2, Zenon DEF MembershipMet, KillsNone
  <2>2. \A x \in Devices : run[x] \in Nat
    BY DEF Inv
  <2> DEFINE m == Max({run[d], run[a]})
  <2>3. m \in Nat /\ run[d] <= m /\ run[a] <= m
    BY <2>2, MaxOfTwo, Zenon
  <2>4. run' = [x \in Devices |-> IF x \in {d, a} THEN m ELSE run[x]]
    BY <1>2, Zenon DEF MembershipMet
  <2> HIDE DEF m
  <2>5. run' \in [Devices -> Nat] /\ \A x \in Devices : run[x] <= run'[x]
    BY <2>2, <2>3, <2>4
  <2> QED BY <2>1, <2>5, KeysFollow, Zenon
<1>3. CASE PayloadArrives(d, a)
  BY <1>1, <1>3, KeysStay, Zenon DEF PayloadArrives, KillsNone
<1>4. CASE Rejoins(d, a)
  <2>1. KillsNone'
    BY <1>1, <1>4, SpendKillsNone, Zenon DEF Rejoins
  <2> QED BY <1>4, <2>1, KeysEvent, Zenon DEF Rejoins
<1>5. CASE DialOpens(d, a)
  <2>1. KillsNone'
    BY <1>1, <1>5, SpendKillsNone, Zenon DEF DialOpens
  <2> QED BY <1>5, <2>1, KeysStay, Zenon DEF DialOpens, stores
<1>6. CASE AcceptDecides(d, a)
  BY <1>1, <1>6, KeysStay, Zenon DEF AcceptDecides, stores, KillsNone
<1>7. CASE AcceptOpens(d, a)
  BY <1>1, <1>7, KeysStay, Zenon DEF AcceptOpens, stores, KillsNone
<1>8. CASE SessionEnds(d, a)
  <2> DEFINE s == sessions[<<d, a>>]
             came == {e \in s.answers : e.author \in s.takes}
  <2>1. <<d, a>> \in Pairs
    BY Zenon DEF Pairs
  <2>2. s \in SessionOver(Written)
    BY <1>8, <2>1, Zenon DEF SessionEnds, Inv
  <2>3. s.sends \subseteq Written /\ came \subseteq Written
    BY <2>2, Zenon DEF SessionOver
  <2>4. ASSUME NEW S, S \subseteq Written PROVE Kept(S) = S
    BY <2>4, KeptAll, Zenon DEF Keys, KeysDiffer, Inv, Shaped
  <2>5. recs[a] \subseteq Written /\ recs[d] \subseteq Written
    BY Zenon DEF Inv
  <2>6. /\ Kept(recs[a] \cup s.sends) = recs[a] \cup s.sends
        /\ Kept(recs[d] \cup came) = recs[d] \cup came
    BY <2>3, <2>4, <2>5, Zenon
  <2>7. recs' = [recs EXCEPT ![a] = Kept(@ \cup s.sends), ![d] = Kept(@ \cup came)]
    BY <1>8, Zenon DEF SessionEnds
  <2> HIDE DEF came
  <2>8. \A x \in Devices : recs[x] \subseteq recs'[x]
    BY <2>6, <2>7, Zenon DEF Inv
  <2>9. KillsNone' /\ UNCHANGED <<chain, run, knew>>
    BY <1>1, <1>8, Zenon DEF SessionEnds, KillsNone
  <2> QED BY <2>8, <2>9, KeysStay, Zenon
<1>9. CASE SessionFails(d, a)
  <2>1. KillsNone'
    BY <1>1, <1>9, SpendKillsNone, Zenon DEF SessionFails, KillsNone
  <2> QED BY <1>9, <2>1, KeysStay, Zenon DEF SessionFails, stores
<1> QED BY <1>2, <1>3, <1>4, <1>5, <1>6, <1>7, <1>8, <1>9, Zenon DEF Meets

LEMMA NextKeys == Inv /\ Keys /\ [Next]_vars => Keys'
<1> SUFFICES ASSUME Inv, Keys, [Next]_vars PROVE Keys'
  BY Zenon
<1>1. CASE UNCHANGED vars
  BY <1>1, KeysStay, Zenon DEF vars, Keys, KillsNone
<1>2. CASE \E d \in Devices : Writes(d)
  BY <1>2, WritesKeepKeys, Zenon
<1>3. CASE \E d \in Devices : Goes(d)
  BY <1>3, GoesKeepKeys, Zenon
<1>4. CASE \E p \in Pairs : Meets(p[1], p[2])
  BY <1>4, MeetsKeepKeys, Zenon DEF Pairs
<1> QED BY <1>1, <1>2, <1>3, <1>4, Zenon DEF Next

LEMMA KeysDiffered == Inv /\ Keys => OneWritePerKey
BY Zenon DEF Inv, Keys, KeysDiffer, OneWritePerKey

\* append_op under the lock, next_op_seq over all an author holds, and the
\* chain's length in the key: where no device is killed, no two operations
\* share a key, through any leaves and returns to an empty store.
THEOREM KeysAlwaysDiffer == ASSUME NoKills PROVE Spec => []OneWritePerKey
<1>1. Spec => []Inv
  BY InitInv, NextInv, PTL DEF Spec
<1>2. Init => Keys
  BY InitKeys, Zenon
<1>3. Spec => []Keys
  BY <1>1, <1>2, NextKeys, PTL DEF Spec
<1> QED BY <1>1, <1>3, KeysDiffered, PTL
-----------------------------------------------------------------------------
(***************************************************************************)
(* What a flush was told.  The device asked answers for payloads alone, and  *)
(* fetched them for entries it holds: FlushInv says so, and that a device of *)
(* another member gives up no entry until the leave is written.            *)
(***************************************************************************)

Leaves(w) ==
    [at : {"no", "flushes", "flushed", "unflushed"}, own : SUBSET w,
     members : BOOLEAN, by : Devices \cup {None}]

\* A leave under way is of the guest, and its witness is of another member.
LeftWell(d) ==
    /\ leaving[d].at \in {"flushes", "flushed"} => IdentityOf[d] = Guest
    /\ leaving[d].by # None => IdentityOf[leaving[d].by] # Guest
    /\ leaving[d].at = "flushed" =>
          leaving[d].by # None /\ HeldBy(leaving[d].own, leaving[d].by)

FlushInv ==
    /\ \A e, f \in Written : e.stamp = f.stamp => e = f
    /\ blobs \in [Devices -> SUBSET Nat]
    /\ \A d \in Devices : \A b \in blobs[d] : b <= Cardinality(knew)
    /\ \A d \in Devices : IdentityOf[d] # Guest =>
          \A e \in Written : e.stamp \in blobs[d] => e \in recs[d]
    /\ leaving \in [Devices -> Leaves(Written)]
    /\ \A d \in Devices : LeftWell(d)

\* Records only come to the devices of members that stay.
OthersKeep == \A d \in Devices : IdentityOf[d] # Guest => recs[d] \subseteq recs'[d]

LEMMA InitFlush == Init => FlushInv
<1> SUFFICES ASSUME Init PROVE FlushInv
  BY Zenon
<1>1. Written = {First}
  BY Zenon DEF Init, Written
<1>2. Cardinality(knew) = 0
  BY FS_EmptySet, Zenon DEF Init
<1>3. NoLeave \in Leaves(Written)
  BY Zenon DEF NoLeave, Leaves
<1>4. \A d \in Devices : LeftWell(d)
  BY Zenon DEF Init, LeftWell, NoLeave
<1>5. blobs \in [Devices -> SUBSET Nat] /\ \A d \in Devices : \A b \in blobs[d] : b <= 0
  BY DEF Init
<1>6. recs = [d \in Devices |-> {First}] /\ leaving = [d \in Devices |-> NoLeave]
  BY Zenon DEF Init
<1>7. leaving \in [Devices -> Leaves(Written)]
  BY <1>3, <1>6, Zenon
<1>8. \A d \in Devices : \A e \in Written : e \in recs[d]
  BY <1>1, <1>6, Zenon
<1> QED BY <1>1, <1>2, <1>4, <1>5, <1>7, <1>8, Zenon DEF FlushInv

\* A leave that is not touched stays well while payloads only come.
LEMMA LeftStays ==
    ASSUME FlushInv, NEW d \in Devices, leaving'[d] = leaving[d],
           \A x \in Devices : blobs[x] \subseteq blobs'[x]
    PROVE  LeftWell(d)'
<1>1. LeftWell(d) /\ leaving[d].by \in Devices \cup {None}
  BY Zenon DEF FlushInv, Leaves
<1>2. ASSUME leaving[d].by # None, HeldBy(leaving[d].own, leaving[d].by)
      PROVE  HeldBy(leaving[d].own, leaving[d].by)'
  BY <1>1, <1>2, Zenon DEF HeldBy
<1> QED BY <1>1, <1>2, Zenon DEF LeftWell

\* Nothing is written: payloads come to where their entries are.
LEMMA FlushFollows ==
    ASSUME Inv, FlushInv, knew' = knew, OthersKeep,
           blobs' \in [Devices -> SUBSET Nat],
           \A d \in Devices : /\ blobs[d] \subseteq blobs'[d]
                              /\ \A b \in blobs'[d] \ blobs[d] : \E e \in recs[d] : e.stamp = b,
           leaving' \in [Devices -> Leaves(Written)],
           \A d \in Devices : LeftWell(d)'
    PROVE  FlushInv'
<1>1. Written' = Written
  BY Zenon DEF Written, First
<1>2. \A d \in Devices : \A e \in recs[d] : e \in Written /\ e.stamp <= Cardinality(knew)
  BY Zenon DEF Inv
<1>3. ASSUME NEW d \in Devices, NEW b \in blobs'[d] PROVE b <= Cardinality(knew)
  <2>1. CASE b \in blobs[d]
    BY <2>1, Zenon DEF FlushInv
  <2>2. CASE b \notin blobs[d]
    <3>1. PICK e \in recs[d] : e.stamp = b
      BY <2>2, Zenon
    <3> QED BY <1>2, <3>1, Zenon
  <2> QED BY <2>1, <2>2, Zenon
<1>4. ASSUME NEW d \in Devices, IdentityOf[d] # Guest, NEW e \in Written, e.stamp \in blobs'[d]
      PROVE  e \in recs'[d]
  <2>1. CASE e.stamp \in blobs[d]
    BY <1>4, <2>1, Zenon DEF FlushInv, OthersKeep
  <2>2. CASE e.stamp \notin blobs[d]
    <3>1. PICK f \in recs[d] : f.stamp = e.stamp
      BY <1>4, <2>2, Zenon
    <3>2. f = e
      BY <1>2, <3>1, Zenon DEF FlushInv
    <3> QED BY <1>4, <3>2, Zenon DEF OthersKeep
  <2> QED BY <2>1, <2>2, Zenon
<1> QED BY <1>1, <1>3, <1>4, Zenon DEF FlushInv

\* Neither payloads nor leaves are touched.
LEMMA FlushStays ==
    ASSUME Inv, FlushInv, UNCHANGED <<knew, blobs, leaving>>, OthersKeep
    PROVE  FlushInv'
<1>1. \A d \in Devices : LeftWell(d)'
  BY LeftStays, Zenon
<1>2. blobs' \in [Devices -> SUBSET Nat] /\ leaving' \in [Devices -> Leaves(Written)]
  BY Zenon DEF FlushInv
<1>3. \A d \in Devices : /\ blobs[d] \subseteq blobs'[d]
                         /\ \A b \in blobs'[d] \ blobs[d] : \E e \in recs[d] : e.stamp = b
  BY Zenon
<1> QED BY <1>1, <1>2, <1>3, FlushFollows, Zenon

\* write_pod_entry: the payload and the entry come together, under a new stamp.
LEMMA FlushWrite ==
    ASSUME Inv, FlushInv, Inv', Keys', NEW d \in Devices, NEW e, e.stamp = Stamp,
           Write(d, e), leaving' = leaving
    PROVE  FlushInv'
<1> DEFINE k == [entry |-> e, at |-> run[d]]
<1>1. k.entry = e /\ knew' = knew \cup {k}
  BY Zenon DEF Write
<1>2. /\ recs' = [recs EXCEPT ![d] = Kept(@ \cup {e})]
      /\ blobs' = [blobs EXCEPT ![d] = @ \cup {e.stamp}]
  BY Zenon DEF Write
<1>3. /\ Stamp \in Nat /\ \A f \in Written : f.stamp < Stamp
      /\ Cardinality(knew') = Cardinality(knew) + 1
  BY <1>1, StampIsNew, Zenon
<1> HIDE DEF k
<1>4. Written' = Written \cup {e}
  BY <1>1, Zenon DEF Written, First
<1>5. Cardinality(knew) \in Nat /\ Stamp = Cardinality(knew) + 1
  BY FS_CardinalityType, Zenon DEF Inv, Stamp
<1>6. recs'[d] = recs[d] \cup {e} /\ \A x \in Devices \ {d} : recs'[x] = recs[x]
  <2>1. recs[d] \cup {e} \subseteq Written'
    BY <1>4, Zenon DEF Inv
  <2>2. KeysDiffer(recs[d] \cup {e})
    BY <2>1, Zenon DEF Keys, KeysDiffer, KeyOf
  <2>3. \A f \in recs[d] \cup {e} : f.stamp \in Nat
    BY <2>1, Zenon DEF Inv, Shaped
  <2>4. Kept(recs[d] \cup {e}) = recs[d] \cup {e}
    BY <2>2, <2>3, KeptAll, Zenon
  <2> QED BY <1>2, <2>4, Zenon DEF Inv
<1>7. blobs'[d] = blobs[d] \cup {Stamp} /\ \A x \in Devices \ {d} : blobs'[x] = blobs[x]
  BY <1>2, Zenon DEF FlushInv
<1>8. blobs' \in [Devices -> SUBSET Nat]
  BY <1>2, <1>3, Zenon DEF FlushInv
<1>9. \A x \in Devices : \A b \in blobs'[x] : b <= Cardinality(knew')
  <2> TAKE x \in Devices
  <2> TAKE b \in blobs'[x]
  <2>1. b = Stamp \/ b <= Cardinality(knew)
    BY <1>7, Zenon DEF FlushInv
  <2>2. b \in Nat
    BY <1>8, Zenon
  <2> QED BY <1>3, <1>5, <2>1, <2>2
<1>10. \A f \in Written : f.stamp \in Nat /\ f.stamp # Stamp
  BY <1>3 DEF Inv, Shaped
<1>11. \A f, g \in Written' : f.stamp = g.stamp => f = g
  BY <1>4, <1>10, Zenon DEF FlushInv
<1>12. \A x \in Devices : Stamp \notin blobs[x]
  <2> TAKE x \in Devices
  <2>1. \A b \in blobs[x] : b <= Cardinality(knew)
    BY Zenon DEF FlushInv
  <2> QED BY <1>5, <2>1
<1>13. ASSUME NEW x \in Devices, IdentityOf[x] # Guest, NEW f \in Written', f.stamp \in blobs'[x]
       PROVE  f \in recs'[x]
  <2>1. CASE f = e
    BY <1>6, <1>7, <1>12, <1>13, <2>1, Zenon
  <2>2. CASE f \in Written
    BY <1>6, <1>7, <1>10, <1>13, <2>2, Zenon DEF FlushInv
  <2> QED BY <1>4, <2>1, <2>2, Zenon
<1>14. \A x \in Devices : LeftWell(x)'
  BY <1>7, LeftStays, Zenon
<1>15. leaving' \in [Devices -> Leaves(Written')]
  <2>1. Leaves(Written) \subseteq Leaves(Written')
    BY <1>4, Zenon DEF Leaves
  <2> QED BY <2>1, Zenon DEF FlushInv
<1> QED BY <1>8, <1>9, <1>11, <1>13, <1>14, <1>15, Zenon DEF FlushInv

\* Nobody is killed and members that stay never settle: their stores only grow.
LEMMA OthersOnlyGain == ASSUME Inv, Keys, [Next]_vars, Inv', Keys' PROVE OthersKeep
<1>1. ASSUME NEW S, S \subseteq Written' PROVE Kept(S) = S
  <2>1. KeysDiffer(S)
    BY <1>1, Zenon DEF Keys, KeysDiffer, KeyOf
  <2>2. \A e \in S : e.stamp \in Nat
    BY <1>1, Zenon DEF Inv, Shaped
  <2> QED BY <2>1, <2>2, KeptAll, Zenon
<1>2. CASE recs' = recs
  BY <1>2, Zenon DEF OthersKeep
<1>3. ASSUME NEW d \in Devices, NEW e, Write(d, e) PROVE OthersKeep
  <2>1. recs' = [recs EXCEPT ![d] = Kept(@ \cup {e})]
    BY <1>3, Zenon DEF Write
  <2>2. recs[d] \cup {e} \subseteq Written'
    <3>1. [entry |-> e, at |-> run[d]] \in knew' /\ knew \subseteq knew'
      BY <1>3, Zenon DEF Write
    <3>2. [entry |-> e, at |-> run[d]].entry = e
      BY Zenon
    <3>3. e \in Written'
      BY <3>1, <3>2, Zenon DEF Written
    <3>4. Written \subseteq Written'
      BY <3>1, Zenon DEF Written, First
    <3>5. recs[d] \subseteq Written
      BY Zenon DEF Inv
    <3> QED BY <3>3, <3>4, <3>5, Zenon
  <2>3. Kept(recs[d] \cup {e}) = recs[d] \cup {e}
    BY <1>1, <2>2, Zenon
  <2> QED BY <2>1, <2>3, Zenon DEF OthersKeep, Inv
<1>4. ASSUME NEW d \in Devices, IdentityOf[d] = Guest, Forget(d) PROVE OthersKeep
  BY <1>4, Zenon DEF Forget, OthersKeep, Inv
<1>5. ASSUME NEW d \in Devices, NEW a \in Devices, d # a, SessionEnds(d, a) PROVE OthersKeep
  <2> DEFINE s == sessions[<<d, a>>]
             came == {e \in s.answers : e.author \in s.takes}
  <2>1. <<d, a>> \in Pairs
    BY <1>5, Zenon DEF Pairs
  <2>2. s \in SessionOver(Written)
    BY <1>5, <2>1, Zenon DEF SessionEnds, Inv
  <2>3. s.sends \subseteq Written /\ came \subseteq Written
    BY <2>2, Zenon DEF SessionOver
  <2>4. Written' = Written
    BY <1>5, Zenon DEF SessionEnds, Written, First
  <2>5. recs[a] \subseteq Written /\ recs[d] \subseteq Written
    BY Zenon DEF Inv
  <2>6. /\ Kept(recs[a] \cup s.sends) = recs[a] \cup s.sends
        /\ Kept(recs[d] \cup came) = recs[d] \cup came
    BY <1>1, <2>3, <2>4, <2>5, Zenon
  <2>7. recs' = [recs EXCEPT ![a] = Kept(@ \cup s.sends), ![d] = Kept(@ \cup came)]
    BY <1>5, Zenon DEF SessionEnds
  <2> HIDE DEF came
  <2> QED BY <2>6, <2>7, Zenon DEF Inv, OthersKeep
<1>6. CASE UNCHANGED vars
  BY <1>2, <1>6, Zenon DEF vars
<1>7. ASSUME NEW d \in Devices, Writes(d) PROVE OthersKeep
  <2>1. ASSUME NEW kind, PutRecord(d, kind) PROVE OthersKeep
    BY <1>3, <2>1, Zenon DEF PutRecord
  <2>2. ASSUME NEW r, AppendOp(d, r) PROVE OthersKeep
    BY <1>3, <2>2, Zenon DEF AppendOp
  <2>3. CASE StreamBegins(d) \/ StreamImports(d)
    BY <1>2, <2>3, Zenon DEF StreamBegins, StreamImports, stores
  <2>4. CASE StreamEnds(d)
    BY <1>2, <1>3, <2>4, Zenon DEF StreamEnds, stores
  <2> QED BY <1>7, <2>1, <2>2, <2>3, <2>4, Zenon DEF Writes
<1>8. ASSUME NEW d \in Devices, Goes(d) PROVE OthersKeep
  <2>1. CASE LeaveBegins(d) \/ FlushEnds(d) \/ Removes(d) \/ BatchSettles(d)
    BY <1>2, <2>1, Zenon DEF LeaveBegins, FlushEnds, Removes, BatchSettles, stores
  <2>2. CASE LeaveWrites(d)
    BY <1>2, <1>4, <2>2, Zenon DEF LeaveWrites
  <2>3. CASE Settles(d)
    BY <1>4, <2>3, Zenon DEF Settles, IsMember, StateAt
  <2>4. CASE Killed(d)
    BY <2>4 DEF Keys, Killed, Spend, KillsNone
  <2> QED BY <1>8, <2>1, <2>2, <2>3, <2>4, Zenon DEF Goes
<1>9. ASSUME NEW d \in Devices, NEW a \in Devices, d # a, Meets(d, a) PROVE OthersKeep
  <2>1. CASE \/ MembershipMet(d, a) \/ PayloadArrives(d, a) \/ Rejoins(d, a)
             \/ DialOpens(d, a) \/ AcceptDecides(d, a) \/ AcceptOpens(d, a) \/ SessionFails(d, a)
    BY <1>2, <2>1, Zenon DEF MembershipMet, PayloadArrives, Rejoins, DialOpens,
       AcceptDecides, AcceptOpens, SessionFails, stores
  <2>2. CASE SessionEnds(d, a)
    BY <1>5, <1>9, <2>2, Zenon
  <2> QED BY <1>9, <2>1, <2>2, Zenon DEF Meets
<1> QED BY <1>6, <1>7, <1>8, <1>9, Zenon DEF Next, Pairs

\* One leave moves on.
LEMMA FlushOne ==
    ASSUME Inv, FlushInv, OthersKeep, UNCHANGED <<knew, blobs>>,
           NEW d \in Devices, NEW l \in Leaves(Written),
           leaving' = [leaving EXCEPT ![d] = l], LeftWell(d)'
    PROVE  FlushInv'
<1>1. leaving \in [Devices -> Leaves(Written)] /\ blobs \in [Devices -> SUBSET Nat]
  BY Zenon DEF FlushInv
<1>2. leaving' \in [Devices -> Leaves(Written)]
  BY <1>1, Zenon
<1>3. ASSUME NEW x \in Devices PROVE LeftWell(x)'
  <2>1. x # d => leaving'[x] = leaving[x]
    BY <1>1, Zenon
  <2> QED BY <2>1, LeftStays, Zenon
<1> QED BY <1>1, <1>2, <1>3, FlushFollows, Zenon

LEMMA GoesKeepFlush ==
    ASSUME Inv, Keys, FlushInv, OthersKeep, NEW d \in Devices, Goes(d) PROVE FlushInv'
<1>1. leaving \in [Devices -> Leaves(Written)] /\ LeftWell(d)
  BY Zenon DEF FlushInv
<1>2. NoLeave \in Leaves(Written) /\ NoLeave.at = "no" /\ NoLeave.by = None
  BY Zenon DEF NoLeave, Leaves
<1>3. CASE LeaveBegins(d)
  <2>1. Own(d) \subseteq Written
    BY Zenon DEF Own, Inv
  <2>2. /\ Flush(d) \in Leaves(Written) /\ Flush(d).at = "flushes" /\ Flush(d).by = None
    BY <2>1, Zenon DEF Flush, NoLeave, Leaves
  <2>3. leaving' = [leaving EXCEPT ![d] = Flush(d)] /\ IdentityOf[d] = Guest
    BY <1>3, Zenon DEF LeaveBegins
  <2>4. UNCHANGED <<knew, blobs>>
    BY <1>3, Zenon DEF LeaveBegins, stores
  <2>5. leaving'[d] = Flush(d)
    BY <1>1, <2>3, Zenon
  <2>6. LeftWell(d)'
    BY <2>2, <2>3, <2>5, Zenon DEF LeftWell
  <2> QED BY <2>2, <2>3, <2>4, <2>6, FlushOne, Zenon
<1>4. CASE FlushEnds(d)
  <2>1. UNCHANGED <<knew, blobs>> /\ leaving[d].at = "flushes"
    BY <1>4, Zenon DEF FlushEnds, stores
  <2>2. CASE /\ leaving[d].by # None /\ HeldBy(leaving[d].own, leaving[d].by)
             /\ leaving' = [leaving EXCEPT ![d].at = "flushed"]
    <3>0. PICK l : l = [leaving[d] EXCEPT !.at = "flushed"]
      BY Zenon
    <3>1. leaving[d] \in Leaves(Written)
      BY <1>1, Zenon
    <3>2. /\ l \in Leaves(Written) /\ l.at = "flushed"
          /\ l.own = leaving[d].own /\ l.by = leaving[d].by
      BY <3>0, <3>1, Zenon DEF Leaves
    <3>3. leaving' = [leaving EXCEPT ![d] = l]
      BY <2>2, <3>0, Zenon
    <3>4. leaving'[d] = l
      BY <1>1, <3>3, Zenon
    <3>5. HeldBy(l.own, l.by)'
      BY <2>1, <2>2, <3>2, <3>4, Zenon DEF HeldBy
    <3>6. LeftWell(d)'
      BY <1>1, <2>1, <2>2, <3>2, <3>4, <3>5, Zenon DEF LeftWell
    <3> QED BY <2>1, <3>2, <3>3, <3>6, FlushOne, Zenon
  <2>3. CASE leaving' = [leaving EXCEPT ![d] = [NoLeave EXCEPT !.at = "unflushed"]]
    <3> DEFINE l == [NoLeave EXCEPT !.at = "unflushed"]
    <3>1. l \in Leaves(Written) /\ l.at = "unflushed" /\ l.by = None
      BY Zenon DEF NoLeave, Leaves
    <3>2. leaving'[d] = l
      BY <1>1, <2>3, Zenon
    <3>3. LeftWell(d)'
      BY <3>1, <3>2, Zenon DEF LeftWell
    <3> QED BY <2>1, <2>3, <3>1, <3>3, FlushOne, Zenon
  <2> QED BY <1>4, <2>2, <2>3, Zenon DEF FlushEnds
<1>5. CASE LeaveWrites(d)
  <2>1. leaving' = [leaving EXCEPT ![d] = NoLeave] /\ UNCHANGED <<knew, blobs>>
    BY <1>5, Zenon DEF LeaveWrites
  <2>2. leaving'[d] = NoLeave
    BY <1>1, <2>1, Zenon
  <2>3. LeftWell(d)'
    BY <1>2, <2>2, Zenon DEF LeftWell
  <2> QED BY <1>2, <2>1, <2>3, FlushOne, Zenon
<1>6. CASE Settles(d) \/ Removes(d) \/ BatchSettles(d)
  BY <1>6, FlushStays, Zenon DEF Settles, Removes, BatchSettles
<1>7. CASE Killed(d)
  BY <1>7 DEF Keys, Killed, Spend, KillsNone
<1> QED BY <1>3, <1>4, <1>5, <1>6, <1>7, Zenon DEF Goes

\* A session or an exchange moves the leaves of its two ends.
LEMMA FlushMoves ==
    ASSUME Inv, FlushInv, OthersKeep, UNCHANGED <<knew, blobs>>,
           DOMAIN leaving' = Devices,
           \A x \in Devices :
              \/ leaving'[x] = leaving[x]
              \/ leaving'[x] = [leaving[x] EXCEPT !.members = TRUE] /\ leaving[x].at = "flushes"
              \/ \E y \in Devices :
                    /\ IdentityOf[y] # IdentityOf[x] /\ leaving[x].at = "flushes"
                    /\ leaving'[x] = [leaving[x] EXCEPT !.by = y],
           leaving' = [x \in Devices |-> leaving'[x]]
    PROVE  FlushInv'
<1>1. ASSUME NEW x \in Devices PROVE leaving'[x] \in Leaves(Written) /\ LeftWell(x)'
  <2>1. leaving[x] \in Leaves(Written) /\ LeftWell(x)
    BY Zenon DEF FlushInv
  <2>2. CASE leaving'[x] = leaving[x]
    BY <2>1, <2>2, LeftStays, Zenon
  <2>3. CASE leaving'[x] = [leaving[x] EXCEPT !.members = TRUE] /\ leaving[x].at = "flushes"
    <3>1. /\ leaving'[x] \in Leaves(Written) /\ leaving'[x].at = "flushes"
          /\ leaving'[x].by = leaving[x].by
      BY <2>1, <2>3, Zenon DEF Leaves
    <3> QED BY <2>1, <2>3, <3>1, Zenon DEF LeftWell
  <2>4. ASSUME NEW y \in Devices, IdentityOf[y] # IdentityOf[x], leaving[x].at = "flushes",
               leaving'[x] = [leaving[x] EXCEPT !.by = y]
        PROVE  leaving'[x] \in Leaves(Written) /\ LeftWell(x)'
    <3>1. /\ leaving'[x] \in Leaves(Written) /\ leaving'[x].at = "flushes"
          /\ leaving'[x].by = y
      BY <2>1, <2>4, ZenonT(40) DEF Leaves
    <3>2. IdentityOf[x] = Guest
      BY <2>1, <2>4, Zenon DEF LeftWell
    <3> QED BY <2>4, <3>1, <3>2, Zenon DEF LeftWell
  <2> QED BY <2>2, <2>3, <2>4, Zenon
<1>2. leaving' \in [Devices -> Leaves(Written)]
  BY <1>1, Zenon
<1>3. blobs \in [Devices -> SUBSET Nat]
  BY Zenon DEF FlushInv
<1> QED BY <1>1, <1>2, <1>3, FlushFollows, Zenon

LEMMA MeetsKeepFlush ==
    ASSUME Inv, Keys, FlushInv, OthersKeep, NEW d \in Devices, NEW a \in Devices, d # a,
           Meets(d, a)
    PROVE  FlushInv'
<1>1. leaving \in [Devices -> Leaves(Written)] /\ blobs \in [Devices -> SUBSET Nat]
  BY Zenon DEF FlushInv
<1>2. CASE MembershipMet(d, a)
  <2>1. UNCHANGED <<knew, blobs>>
    BY <1>2, Zenon DEF MembershipMet
  <2>2. leaving' = [x \in Devices |->
           IF x \in {d, a} /\ leaving[x].at = "flushes"
              /\ \E y \in {d, a} : IdentityOf[y] # IdentityOf[x]
           THEN [leaving[x] EXCEPT !.members = TRUE] ELSE leaving[x]]
    BY <1>2, Zenon DEF MembershipMet
  <2>3. DOMAIN leaving' = Devices /\ leaving' = [x \in Devices |-> leaving'[x]]
    BY <2>2, Zenon
  <2>4. \A x \in Devices :
           \/ leaving'[x] = leaving[x]
           \/ leaving'[x] = [leaving[x] EXCEPT !.members = TRUE] /\ leaving[x].at = "flushes"
    BY <2>2, Zenon
  <2> QED BY <2>1, <2>3, <2>4, FlushMoves, Zenon
<1>3. CASE SessionEnds(d, a)
  <2> DEFINE other(x) == IF x = d THEN a ELSE d
             s == sessions[<<d, a>>]
             met(x) == /\ x \in {d, a} /\ leaving[x].at = "flushes"
                       /\ leaving[x].by = None /\ Since(s, x)
                       /\ IdentityOf[other(x)] # IdentityOf[x]
  <2>1. UNCHANGED <<knew, blobs>>
    BY <1>3, Zenon DEF SessionEnds
  <2>2. leaving' = [x \in Devices |-> IF met(x) THEN [leaving[x] EXCEPT !.by = other(x)] ELSE leaving[x]]
    BY <1>3, Zenon DEF SessionEnds
  <2>3. DOMAIN leaving' = Devices /\ leaving' = [x \in Devices |-> leaving'[x]]
    BY <2>2, Zenon
  <2>4. \A x \in Devices :
           \/ leaving'[x] = leaving[x]
           \/ \E y \in Devices :
                 /\ IdentityOf[y] # IdentityOf[x] /\ leaving[x].at = "flushes"
                 /\ leaving'[x] = [leaving[x] EXCEPT !.by = y]
    <3> TAKE x \in Devices
    <3>1. leaving'[x] = IF met(x) THEN [leaving[x] EXCEPT !.by = other(x)] ELSE leaving[x]
      BY <2>2, Zenon
    <3>2. other(x) \in Devices
      BY Zenon
    <3> QED BY <3>1, <3>2, Zenon
  <2> QED BY <2>1, <2>3, <2>4, FlushMoves, Zenon
<1>4. CASE PayloadArrives(d, a)
  <2>1. PICK e \in recs[d] : blobs' = [blobs EXCEPT ![d] = @ \cup {e.stamp}]
    BY <1>4, Zenon DEF PayloadArrives
  <2>2. e.stamp \in Nat
    BY Zenon DEF Inv, Shaped
  <2>3. blobs'[d] = blobs[d] \cup {e.stamp} /\ \A x \in Devices \ {d} : blobs'[x] = blobs[x]
    BY <1>1, <2>1, Zenon
  <2>4. blobs' \in [Devices -> SUBSET Nat]
    BY <1>1, <2>1, <2>2, Zenon
  <2>5. \A x \in Devices : /\ blobs[x] \subseteq blobs'[x]
                           /\ \A b \in blobs'[x] \ blobs[x] : \E f \in recs[x] : f.stamp = b
    BY <2>3, Zenon
  <2>6. leaving' = leaving /\ knew' = knew
    BY <1>4, Zenon DEF PayloadArrives
  <2>7. \A x \in Devices : LeftWell(x)'
    BY <2>5, <2>6, LeftStays, Zenon
  <2> QED BY <1>1, <2>4, <2>5, <2>6, <2>7, FlushFollows, Zenon
<1>5. CASE \/ Rejoins(d, a) \/ DialOpens(d, a) \/ AcceptDecides(d, a)
           \/ AcceptOpens(d, a) \/ SessionFails(d, a)
  BY <1>5, FlushStays, Zenon DEF Rejoins, DialOpens, AcceptDecides, AcceptOpens, SessionFails, stores
<1> QED BY <1>2, <1>3, <1>4, <1>5, Zenon DEF Meets

LEMMA WritesKeepFlush ==
    ASSUME Inv, Keys, FlushInv, OthersKeep, Inv', Keys', NEW d \in Devices, Writes(d)
    PROVE  FlushInv'
<1>1. \A r, op : Entry(r, d, Mseq(d), op, Stamp).stamp = Stamp
  BY Zenon DEF Entry
<1>2. \A kind : FreshRecord(d, kind).stamp = Stamp
  BY <1>1, Zenon DEF FreshRecord
<1>3. ASSUME NEW kind, PutRecord(d, kind) PROVE FlushInv'
  BY <1>2, <1>3, FlushWrite, Zenon DEF PutRecord
<1>4. ASSUME NEW r, AppendOp(d, r) PROVE FlushInv'
  BY <1>1, <1>4, FlushWrite, Zenon DEF AppendOp
<1>5. CASE StreamBegins(d) \/ StreamImports(d)
  BY <1>5, FlushStays, Zenon DEF StreamBegins, StreamImports, stores
<1>6. CASE StreamEnds(d)
  <2>1. leaving' = leaving
    BY <1>6, Zenon DEF StreamEnds
  <2>2. CASE Write(d, FreshRecord(d, "claim"))
    BY <1>2, <2>1, <2>2, FlushWrite, Zenon
  <2>3. CASE UNCHANGED <<stores, knew>>
    BY <2>1, <2>3, FlushStays, Zenon DEF stores
  <2> QED BY <1>6, <2>2, <2>3, Zenon DEF StreamEnds
<1> QED BY <1>3, <1>4, <1>5, <1>6, Zenon DEF Writes

LEMMA NextFlush == Inv /\ Keys /\ FlushInv /\ [Next]_vars => FlushInv'
<1> SUFFICES ASSUME Inv, Keys, FlushInv, [Next]_vars PROVE FlushInv'
  BY Zenon
<1>1. Inv' /\ Keys'
  BY NextInv, NextKeys, Zenon
<1>2. OthersKeep
  BY <1>1, OthersOnlyGain, Zenon
<1>3. CASE UNCHANGED vars
  BY <1>2, <1>3, FlushStays, Zenon DEF vars
<1>4. CASE \E d \in Devices : Writes(d)
  BY <1>1, <1>2, <1>4, WritesKeepFlush, Zenon
<1>5. CASE \E d \in Devices : Goes(d)
  BY <1>2, <1>5, GoesKeepFlush, Zenon
<1>6. CASE \E p \in Pairs : Meets(p[1], p[2])
  BY <1>2, <1>6, MeetsKeepFlush, Zenon DEF Pairs
<1> QED BY <1>3, <1>4, <1>5, <1>6, Zenon DEF Next

LEMMA FlushedHeld == Inv /\ FlushInv => FlushedIsHeld
<1> SUFFICES ASSUME Inv, FlushInv, NEW d \in Devices, leaving[d].at = "flushed",
                    NEW e \in leaving[d].own
             PROVE  e \in recs[leaving[d].by] /\ e.stamp \in blobs[leaving[d].by]
  BY Zenon DEF FlushedIsHeld
<1>1. leaving[d] \in Leaves(Written) /\ LeftWell(d)
  BY Zenon DEF FlushInv
<1>2. e \in Written /\ leaving[d].by \in Devices \cup {None}
  BY <1>1, Zenon DEF Leaves
<1>3. /\ leaving[d].by # None /\ IdentityOf[leaving[d].by] # Guest
      /\ e.stamp \in blobs[leaving[d].by]
  BY <1>1, Zenon DEF LeftWell, HeldBy
<1> QED BY <1>2, <1>3, Zenon DEF FlushInv

\* A flush that answered true (flush_pod, PodFlush::wait): where no device is
\* killed, every entry the leaving identity held as the flush began is, with its
\* payload, on the device of another member that the flush names, and stays there
\* until the leave is written, whatever is removed, rejoined or lost beside it.
THEOREM FlushedAlwaysHeld == ASSUME NoKills PROVE Spec => []FlushedIsHeld
<1>1. Spec => []Inv
  BY InitInv, NextInv, PTL DEF Spec
<1>2. Init => Keys
  BY InitKeys, Zenon
<1>3. Spec => []Keys
  BY <1>1, <1>2, NextKeys, PTL DEF Spec
<1>4. Spec => []FlushInv
  BY <1>1, <1>3, InitFlush, NextFlush, PTL DEF Spec
<1> QED BY <1>1, <1>4, FlushedHeld, PTL

-----------------------------------------------------------------------------
(***************************************************************************)
(* What a departed identity is given.  A decision to serve is read, used and *)
(* sent at three moments; RemovalInv carries it from one to the next, through *)
(* the snapshots of sessions and the disk a kill goes back to.  It speaks of *)
(* one device that writes and serves for the members that stay: a second one *)
(* that has yet to hear of the removal may still relay what the first wrote. *)
(***************************************************************************)

\* One device at most acts for the members that stay.
OneHost ==
    \A c \in DOMAIN Cases : \A d, x \in Devices :
        (/\ {d, x} \subseteq Cases[c].awake \cup Cases[c].writers
         /\ IdentityOf[d] # Guest /\ IdentityOf[x] # Guest) => d = x

Host(h) ==
    /\ h \in Devices /\ IdentityOf[h] # Guest
    /\ \A d \in Devices : d \in Setting.awake \cup Setting.writers /\ IdentityOf[d] # Guest => d = h

\* An entry the guest may hold: of its own, or written while it was a member,
\* or before it joined again.
Meant(e) ==
    \A k \in knew : k.entry = e /\ e.writer # Guest /\ ~chain[k.at] =>
        \E j \in DOMAIN chain : j > k.at /\ chain[j]

SessionMeant(p, s) ==
    /\ IdentityOf[p[2]] = Guest => \A e \in s.sends : Meant(e)
    /\ IdentityOf[p[1]] = Guest => \A e \in s.answers : Meant(e)
    /\ s.at = "judged" /\ IdentityOf[p[1]] = Guest /\ IdentityOf[p[2]] # Guest
          => s.read \in DOMAIN chain /\ chain[s.read]

RemovalInv(h) ==
    /\ Host(h)
    /\ \A k \in knew : /\ k.at \in 1..Len(chain)
                       /\ k.entry.writer # Guest => k.at <= run[h]
    /\ \A d \in GuestDevices : \A e \in recs[d] \cup disk[d] : Meant(e)
    /\ \A p \in Pairs : sessions[p] # None => SessionMeant(p, sessions[p])

LEMMA InitRemoval == ASSUME OneHost, Init PROVE \E h \in Devices : RemovalInv(h)
<1>1. \E h \in Devices : Host(h)
  <2>1. CASE \E d \in Devices : d \in Setting.awake \cup Setting.writers /\ IdentityOf[d] # Guest
    <3>1. PICK h \in Devices : h \in Setting.awake \cup Setting.writers /\ IdentityOf[h] # Guest
      BY <2>1, Zenon
    <3>2. \A d \in Devices : d \in Setting.awake \cup Setting.writers /\ IdentityOf[d] # Guest => d = h
      BY <3>1, Zenon DEF Init, OneHost, Setting
    <3> QED BY <3>1, <3>2, Zenon DEF Host
  <2>2. CASE ~ \E d \in Devices : d \in Setting.awake \cup Setting.writers /\ IdentityOf[d] # Guest
    BY <2>2, RecordsAssumption, Zenon DEF Host
  <2> QED BY <2>1, <2>2, Zenon
<1>2. knew = {} /\ \A p \in Pairs : sessions[p] = None
  BY Zenon DEF Init
<1> QED BY <1>1, <1>2, Zenon DEF RemovalInv, Meant

\* The chain stays as it is or grows by an event.
ChainGrows == chain' = chain \/ \E b \in BOOLEAN : chain' = Append(chain, b)

LEMMA GrownChain ==
    ASSUME Inv, ChainGrows
    PROVE  /\ Len(chain') \in Nat /\ Len(chain) \in Nat /\ Len(chain') >= Len(chain)
           /\ DOMAIN chain = 1..Len(chain) /\ DOMAIN chain' = 1..Len(chain')
           /\ \A i \in 1..Len(chain) : i \in 1..Len(chain') /\ chain'[i] = chain[i]
<1>1. CASE chain' = chain
  BY <1>1 DEF Inv
<1>2. ASSUME NEW b \in BOOLEAN, chain' = Append(chain, b)
      PROVE  /\ Len(chain') \in Nat /\ Len(chain) \in Nat /\ Len(chain') >= Len(chain)
             /\ DOMAIN chain = 1..Len(chain) /\ DOMAIN chain' = 1..Len(chain')
             /\ \A i \in 1..Len(chain) : i \in 1..Len(chain') /\ chain'[i] = chain[i]
  BY <1>2 DEF Inv
<1> QED BY <1>1, <1>2, Zenon DEF ChainGrows

\* Where the host is on the chain.
LEMMA HostRuns ==
    ASSUME Inv, NEW h, RemovalInv(h)
    PROVE  /\ h \in Devices /\ IdentityOf[h] # Guest
           /\ run[h] \in Nat /\ run[h] >= run[h] /\ run[h] + 1 \in Nat /\ run[h] + 1 >= run[h]
           /\ run \in [Devices -> Nat]
<1>1. h \in Devices /\ IdentityOf[h] # Guest
  BY Zenon DEF RemovalInv, Host
<1>2. run \in [Devices -> Nat]
  BY DEF Inv
<1>3. \A n \in Nat : n >= n /\ n + 1 \in Nat /\ n + 1 >= n
  OBVIOUS
<1>4. run[h] \in Nat
  BY <1>1, <1>2, Zenon
<1> QED BY <1>1, <1>2, <1>3, <1>4, Zenon

\* What is meant for the guest stays so as its chain grows.
LEMMA MeantStays ==
    ASSUME Inv, NEW h, RemovalInv(h), knew' = knew, ChainGrows, NEW e, Meant(e)
    PROVE  Meant(e)'
<1> SUFFICES ASSUME NEW k \in knew, k.entry = e, e.writer # Guest, ~chain'[k.at]
             PROVE  \E j \in DOMAIN chain' : j > k.at /\ chain'[j]
  BY Zenon DEF Meant
<1>1. k.at \in 1..Len(chain)
  BY Zenon DEF RemovalInv
<1>2. ~chain[k.at]
  BY <1>1, GrownChain, Zenon
<1>3. PICK j \in DOMAIN chain : j > k.at /\ chain[j]
  BY <1>2, Zenon DEF Meant
<1> QED BY <1>3, GrownChain, Zenon

\* A device that counts the guest as a member holds only what is meant for it.
LEMMA HostMeans ==
    ASSUME Inv, NEW h, RemovalInv(h), chain[run[h]]
    PROVE  \A e \in recs[h] : Meant(e)
<1> SUFFICES ASSUME NEW e, NEW k \in knew, k.entry = e, e.writer # Guest, ~chain[k.at]
             PROVE  \E j \in DOMAIN chain : j > k.at /\ chain[j]
  BY Zenon DEF Meant
<1>1. k.at \in 1..Len(chain) /\ k.at <= run[h]
  BY Zenon DEF RemovalInv
<1>2. run[h] \in 1..Len(chain) /\ DOMAIN chain = 1..Len(chain)
  BY DEF Inv, RemovalInv, Host
<1>3. k.at # run[h]
  BY Zenon
<1>4. run[h] > k.at
  BY <1>1, <1>2, <1>3
<1> QED BY <1>2, <1>4, Zenon

\* Nothing is written to a record store.
LEMMA RemovalFollows ==
    ASSUME Inv, NEW h, RemovalInv(h), UNCHANGED <<case, knew>>, ChainGrows,
           run'[h] \in Nat, run'[h] >= run[h],
           \A d \in GuestDevices : \A e \in recs'[d] \cup disk'[d] : Meant(e),
           \A p \in Pairs : sessions'[p] # None => SessionMeant(p, sessions'[p])
    PROVE  RemovalInv(h)'
<1>1. Host(h)'
  BY Zenon DEF RemovalInv, Host, Setting
<1>2. ASSUME NEW k \in knew'
      PROVE  k.at \in 1..Len(chain') /\ (k.entry.writer # Guest => k.at <= run'[h])
  <2>1. k.at \in 1..Len(chain) /\ (k.entry.writer # Guest => k.at <= run[h])
    BY <1>2, Zenon DEF RemovalInv
  <2>2. k.at \in 1..Len(chain')
    BY <2>1, GrownChain, Zenon
  <2>3. run[h] \in Nat
    BY HostRuns, Zenon
  <2>4. k.at <= run[h] => k.at <= run'[h]
    BY <2>1, <2>3
  <2> QED BY <2>1, <2>2, <2>4, Zenon
<1>3. \A d \in GuestDevices : \A e \in recs'[d] \cup disk'[d] : Meant(e)'
  BY MeantStays, Zenon
<1>4. ASSUME NEW p \in Pairs, sessions'[p] # None PROVE SessionMeant(p, sessions[p])'
  <2>1. PICK s : s = sessions'[p]
    BY Zenon
  <2>2. SessionMeant(p, s)
    BY <1>4, <2>1, Zenon
  <2>3. DOMAIN chain = 1..Len(chain) /\ DOMAIN chain' = 1..Len(chain')
    BY GrownChain, Zenon
  <2>4. s.read \in DOMAIN chain /\ chain[s.read] => s.read \in DOMAIN chain' /\ chain'[s.read]
    BY <2>3, GrownChain, Zenon
  <2>5. (\A e \in s.sends : Meant(e)) => (\A e \in s.sends : Meant(e)')
    BY MeantStays, Zenon
  <2>6. (\A e \in s.answers : Meant(e)) => (\A e \in s.answers : Meant(e)')
    BY MeantStays, Zenon
  <2> QED BY <2>1, <2>2, <2>4, <2>5, <2>6, Zenon DEF SessionMeant
<1> QED BY <1>1, <1>2, <1>3, <1>4, Zenon DEF RemovalInv, GuestDevices

\* Sessions are not touched, and the guest's stores gain nothing.
LEMMA RemovalStays ==
    ASSUME Inv, NEW h, RemovalInv(h), UNCHANGED <<case, knew, sessions>>, ChainGrows,
           run'[h] \in Nat, run'[h] >= run[h],
           \A d \in GuestDevices : recs'[d] \cup disk'[d] \subseteq recs[d] \cup disk[d]
    PROVE  RemovalInv(h)'
<1>1. \A d \in GuestDevices : \A e \in recs'[d] \cup disk'[d] : Meant(e)
  BY Zenon DEF RemovalInv
<1>2. \A p \in Pairs : sessions'[p] # None => SessionMeant(p, sessions'[p])
  BY Zenon DEF RemovalInv
<1> QED BY <1>1, <1>2, RemovalFollows, Zenon

\* One session moves on or ends; stores and the chain are as they were.
LEMMA RemovalMoves ==
    ASSUME Inv, NEW h, RemovalInv(h), UNCHANGED <<case, chain, run, knew, recs, disk>>,
           NEW p \in Pairs, NEW s, s # None => SessionMeant(p, s),
           sessions' = [sessions EXCEPT ![p] = s]
    PROVE  RemovalInv(h)'
<1>1. \A d \in GuestDevices : \A e \in recs'[d] \cup disk'[d] : Meant(e)
  BY Zenon DEF RemovalInv
<1>2. \A q \in Pairs : sessions'[q] = IF q = p THEN s ELSE sessions[q]
  BY Zenon DEF Inv
<1>3. \A q \in Pairs : sessions'[q] # None => SessionMeant(q, sessions'[q])
  BY <1>2, Zenon DEF RemovalInv
<1>4. run[h] \in Nat /\ run'[h] \in Nat /\ run'[h] >= run[h]
  BY HostRuns, Zenon
<1>5. ChainGrows
  BY Zenon DEF ChainGrows
<1> QED BY <1>1, <1>3, <1>4, <1>5, RemovalFollows, Zenon

\* write_pod_entry: the guest's own, or the host's at the chain it holds.
LEMMA RemovalWrite ==
    ASSUME Inv, NEW h, RemovalInv(h), NEW d \in Devices, d \in Setting.writers,
           NEW e, e.stamp = Stamp, e.writer = IdentityOf[d],
           Write(d, e), UNCHANGED <<case, sessions>>
    PROVE  RemovalInv(h)'
<1>1. PICK k : k = [entry |-> e, at |-> run[d]]
  BY Zenon
<1>2. /\ k.entry = e /\ k.at = run[d] /\ knew' = knew \cup {k}
      /\ recs' = [recs EXCEPT ![d] = Kept(@ \cup {e})]
      /\ UNCHANGED <<chain, run, disk>>
  BY <1>1, Zenon DEF Write
<1>3. e \notin Written
  <2>1. Stamp \in Nat /\ \A f \in Written : f.stamp < Stamp
    BY StampIsNew, Zenon
  <2> QED BY <2>1
<1>4. \A f \in Written : Meant(f) => Meant(f)'
  BY <1>2, <1>3, Zenon DEF Meant
<1>5. e.writer = Guest => Meant(e)'
  BY Zenon DEF Meant
<1>6. Host(h)'
  BY Zenon DEF RemovalInv, Host, Setting
<1>7. k.at \in 1..Len(chain) /\ (k.entry.writer # Guest => k.at <= run[h])
  <2>1. run[d] \in 1..Len(chain)
    BY Zenon DEF Inv
  <2>2. run[h] <= run[h]
    BY HostRuns, Zenon
  <2>3. IdentityOf[d] # Guest => d = h
    BY Zenon DEF RemovalInv, Host
  <2> QED BY <1>2, <2>1, <2>2, <2>3, Zenon
<1>8. \A l \in knew' : /\ l.at \in 1..Len(chain')
                       /\ l.entry.writer # Guest => l.at <= run'[h]
  BY <1>2, <1>7, Zenon DEF RemovalInv
<1>9. ASSUME NEW x \in GuestDevices, NEW f \in recs'[x] \cup disk'[x] PROVE Meant(f)'
  <2>1. CASE f \in recs[x] \cup disk[x]
    <3>1. f \in Written
      BY <2>1, Zenon DEF Inv, GuestDevices
    <3>2. Meant(f)
      BY <2>1, Zenon DEF RemovalInv
    <3> QED BY <1>4, <3>1, <3>2, Zenon
  <2>2. CASE f \notin recs[x] \cup disk[x]
    <3>1. x \in Devices /\ IdentityOf[x] = Guest
      BY Zenon DEF GuestDevices
    <3>2. recs'[x] = IF x = d THEN Kept(recs[d] \cup {e}) ELSE recs[x]
      BY <1>2, <3>1, Zenon DEF Inv
    <3>3. Kept(recs[d] \cup {e}) \subseteq recs[d] \cup {e}
      BY KeptPart, Zenon
    <3>4. x = d /\ f = e
      BY <1>2, <1>9, <2>2, <3>2, <3>3, Zenon
    <3> QED BY <1>5, <3>1, <3>4, Zenon
  <2> QED BY <2>1, <2>2, Zenon
<1>10. ASSUME NEW p \in Pairs, sessions'[p] # None PROVE SessionMeant(p, sessions[p])'
  <2>1. sessions' = sessions /\ sessions[p] # None
    BY <1>10, Zenon
  <2>2. SessionMeant(p, sessions[p]) /\ sessions[p] \in SessionOver(Written)
    BY <2>1, Zenon DEF RemovalInv, Inv
  <2>3. sessions[p].sends \subseteq Written /\ sessions[p].answers \subseteq Written
    BY <2>2, Zenon DEF SessionOver
  <2> QED BY <1>2, <1>4, <2>1, <2>2, <2>3, Zenon DEF SessionMeant
<1> QED BY <1>6, <1>8, <1>9, <1>10, Zenon DEF RemovalInv, GuestDevices

LEMMA WritesKeepRemoval ==
    ASSUME Inv, NEW h, RemovalInv(h), NEW d \in Devices, d \in Setting.writers, Writes(d)
    PROVE  RemovalInv(h)'
<1>1. \A r, op : /\ Entry(r, d, Mseq(d), op, Stamp).stamp = Stamp
                 /\ Entry(r, d, Mseq(d), op, Stamp).writer = IdentityOf[d]
  BY Zenon DEF Entry
<1>2. \A kind : FreshRecord(d, kind).stamp = Stamp /\ FreshRecord(d, kind).writer = IdentityOf[d]
  BY <1>1, Zenon DEF FreshRecord
<1>3. ASSUME UNCHANGED <<case, stores, knew, sessions>> PROVE RemovalInv(h)'
  <2>1. run[h] \in Nat /\ run'[h] \in Nat /\ run'[h] >= run[h]
    BY <1>3, HostRuns, Zenon DEF stores
  <2>2. ChainGrows
    BY <1>3, Zenon DEF stores, ChainGrows
  <2> QED BY <1>3, <2>1, <2>2, RemovalStays, Zenon DEF stores
<1>4. ASSUME NEW kind, PutRecord(d, kind) PROVE RemovalInv(h)'
  BY <1>2, <1>4, RemovalWrite, Zenon DEF PutRecord
<1>5. ASSUME NEW r, AppendOp(d, r) PROVE RemovalInv(h)'
  BY <1>1, <1>5, RemovalWrite, Zenon DEF AppendOp
<1>6. CASE StreamBegins(d) \/ StreamImports(d)
  BY <1>3, <1>6, Zenon DEF StreamBegins, StreamImports
<1>7. CASE StreamEnds(d)
  <2>1. case' = case /\ sessions' = sessions
    BY <1>7, Zenon DEF StreamEnds
  <2>2. CASE Write(d, FreshRecord(d, "claim"))
    BY <1>2, <2>1, <2>2, RemovalWrite, Zenon
  <2>3. CASE UNCHANGED <<stores, knew>>
    BY <1>3, <2>1, <2>3, Zenon
  <2> QED BY <1>7, <2>2, <2>3, Zenon DEF StreamEnds
<1> QED BY <1>4, <1>5, <1>6, <1>7, Zenon DEF Writes

LEMMA GoesKeepRemoval ==
    ASSUME Inv, NEW h, RemovalInv(h), NEW d \in Devices, Goes(d)
    PROVE  RemovalInv(h)'
<1>0. h \in Devices /\ IdentityOf[h] # Guest
  BY HostRuns, Zenon
<1>1. run[h] \in Nat /\ run[h] >= run[h]
  BY HostRuns, Zenon
<1>2. chain' = chain => ChainGrows
  BY Zenon DEF ChainGrows
<1>3. ASSUME UNCHANGED <<case, chain, run, knew, recs, disk, sessions>> PROVE RemovalInv(h)'
  BY <1>1, <1>2, <1>3, RemovalStays, Zenon
<1>4. Forget(d) => \A x \in GuestDevices : recs'[x] \cup disk'[x] \subseteq recs[x] \cup disk[x]
  BY Zenon DEF Forget, Inv, GuestDevices
<1>5. ASSUME run' = [run EXCEPT ![d] = @ + 1] PROVE run'[h] \in Nat /\ run'[h] >= run[h]
  <2>1. run'[h] = run[h] + 1 \/ run'[h] = run[h]
    BY <1>0, <1>5, HostRuns, Zenon
  <2> QED BY <2>1, HostRuns, Zenon
<1>6. CASE LeaveBegins(d)
  <2>1. UNCHANGED <<case, chain, run, knew, recs, disk>>
    BY <1>6, Zenon DEF LeaveBegins, stores
  <2>2. ASSUME NEW p \in Pairs, sessions'[p] # None PROVE SessionMeant(p, sessions'[p])
    <3>1. sessions'[p] = IF sessions[p] = None THEN None
                         ELSE [sessions[p] EXCEPT !.since = @ \ {d}]
      BY <1>6, Zenon DEF LeaveBegins
    <3>2. sessions[p] # None /\ sessions'[p] = [sessions[p] EXCEPT !.since = @ \ {d}]
      BY <2>2, <3>1, Zenon
    <3>3. sessions[p] \in SessionOver(Written)
      BY <3>2, Zenon DEF Inv
    <3>4. /\ sessions'[p].sends = sessions[p].sends /\ sessions'[p].answers = sessions[p].answers
          /\ sessions'[p].at = sessions[p].at /\ sessions'[p].read = sessions[p].read
      BY <3>2, <3>3, Zenon DEF SessionOver
    <3>5. SessionMeant(p, sessions[p])
      BY <3>2, Zenon DEF RemovalInv
    <3> QED BY <3>4, <3>5, Zenon DEF SessionMeant
  <2>3. \A x \in GuestDevices : \A e \in recs'[x] \cup disk'[x] : Meant(e)
    BY <2>1, Zenon DEF RemovalInv
  <2> QED BY <1>1, <1>2, <2>1, <2>2, <2>3, RemovalFollows, Zenon
<1>7. CASE FlushEnds(d)
  BY <1>3, <1>7, Zenon DEF FlushEnds, stores
<1>8. CASE LeaveWrites(d)
  <2>1. UNCHANGED <<case, knew, sessions>>
    BY <1>8, Zenon DEF LeaveWrites
  <2>2. CASE chain' = Append(chain, FALSE) /\ run' = [run EXCEPT ![d] = @ + 1] /\ Forget(d)
    BY <1>4, <1>5, <2>1, <2>2, RemovalStays, Zenon DEF ChainGrows
  <2>3. CASE UNCHANGED <<chain, run, holds, recs, disk>>
    BY <1>3, <2>1, <2>3, Zenon
  <2> QED BY <1>8, <2>2, <2>3, Zenon DEF LeaveWrites
<1>9. CASE Settles(d)
  BY <1>1, <1>2, <1>4, <1>9, RemovalStays, Zenon DEF Settles
<1>10. CASE Removes(d)
  <2>1. UNCHANGED <<case, knew, sessions, recs, disk>> /\ ChainGrows
    BY <1>10, Zenon DEF Removes, ChainGrows
  <2> QED BY <1>5, <1>10, <2>1, RemovalStays, Zenon DEF Removes
<1>11. CASE BatchSettles(d)
  <2>1. /\ UNCHANGED <<case, chain, run, knew, recs, sessions>>
        /\ disk' = [disk EXCEPT ![d] = recs[d]]
    BY <1>11, Zenon DEF BatchSettles
  <2>2. \A x \in GuestDevices : recs'[x] \cup disk'[x] \subseteq recs[x] \cup disk[x]
    BY <2>1, Zenon DEF Inv, GuestDevices
  <2> QED BY <1>1, <1>2, <2>1, <2>2, RemovalStays, Zenon
<1>12. CASE Killed(d)
  <2>1. /\ UNCHANGED <<case, chain, run, knew, disk>>
        /\ recs' = [recs EXCEPT ![d] = disk[d]]
    BY <1>12, Zenon DEF Killed
  <2>2. \A x \in GuestDevices : recs'[x] \cup disk'[x] \subseteq recs[x] \cup disk[x]
    BY <2>1, Zenon DEF Inv, GuestDevices
  <2>3. \A x \in GuestDevices : \A e \in recs'[x] \cup disk'[x] : Meant(e)
    BY <2>2, Zenon DEF RemovalInv
  <2>4. \A p \in Pairs : sessions'[p] # None => sessions'[p] = sessions[p]
    BY <1>12, Zenon DEF Killed
  <2>5. \A p \in Pairs : sessions'[p] # None => SessionMeant(p, sessions'[p])
    BY <2>4, Zenon DEF RemovalInv
  <2> QED BY <1>1, <1>2, <2>1, <2>3, <2>5, RemovalFollows, Zenon
<1> QED BY <1>6, <1>7, <1>8, <1>9, <1>10, <1>11, <1>12, Zenon DEF Goes

LEMMA MeetsKeepRemoval ==
    ASSUME Inv, NEW h, RemovalInv(h), NEW d \in Devices, NEW a \in Devices, d # a,
           {d, a} \subseteq Setting.awake, Meets(d, a)
    PROVE  RemovalInv(h)'
<1>0. h \in Devices /\ IdentityOf[h] # Guest
  BY HostRuns, Zenon
<1>1. run[h] \in Nat /\ run[h] >= run[h]
  BY HostRuns, Zenon
<1>2. PICK p : p = <<d, a>>
  BY Zenon
<1>3. p \in Pairs /\ p[1] = d /\ p[2] = a
  BY <1>2, Zenon DEF Pairs
<1>4. sessions[p] # None => sessions[p] \in SessionOver(Written) /\ SessionMeant(p, sessions[p])
  BY <1>3, Zenon DEF Inv, RemovalInv
<1>5. \A x \in {d, a} : IdentityOf[x] # Guest => x = h
  BY Zenon DEF RemovalInv, Host
<1>6. ASSUME NEW x \in {d, a}, NEW y \in {d, a}, IdentityOf[y] = Guest, ServesRecords(x, y)
      PROVE  \A e \in recs[x] : Meant(e)
  <2>1. CASE IdentityOf[x] = Guest
    BY <2>1, Zenon DEF RemovalInv, GuestDevices
  <2>2. CASE IdentityOf[x] # Guest
    <3>1. x = h /\ chain[run[h]]
      BY <1>5, <1>6, <2>2, Zenon DEF ServesRecords, IsMember, StateAt
    <3> QED BY <3>1, HostMeans, Zenon
  <2> QED BY <2>1, <2>2, Zenon
<1>7. ASSUME UNCHANGED <<case, stores, knew>>, sessions' = [sessions EXCEPT ![p] = None]
      PROVE  RemovalInv(h)'
  BY <1>3, <1>7, RemovalMoves, Zenon DEF stores
<1>8. CASE MembershipMet(d, a)
  <2>1. UNCHANGED <<case, chain, knew, recs, disk, sessions>>
    BY <1>8, Zenon DEF MembershipMet
  <2>2. run'[h] = IF h \in {d, a} THEN Max({run[d], run[a]}) ELSE run[h]
    BY <1>0, <1>8, Zenon DEF MembershipMet
  <2>3. run[d] \in Nat /\ run[a] \in Nat
    BY HostRuns, Zenon
  <2>4. /\ Max({run[d], run[a]}) \in Nat
        /\ Max({run[d], run[a]}) >= run[d] /\ Max({run[d], run[a]}) >= run[a]
    BY <2>3, MaxOfTwo, Zenon
  <2>5. run'[h] \in Nat /\ run'[h] >= run[h]
    BY <1>1, <2>2, <2>4, Zenon
  <2> QED BY <2>1, <2>5, RemovalStays, Zenon DEF ChainGrows
<1>9. CASE PayloadArrives(d, a)
  BY <1>1, <1>9, RemovalStays, Zenon DEF PayloadArrives, ChainGrows
<1>10. CASE Rejoins(d, a)
  <2>1. UNCHANGED <<case, knew, recs, disk, sessions>> /\ ChainGrows
    BY <1>10, Zenon DEF Rejoins, ChainGrows
  <2>2. run' = [run EXCEPT ![d] = @ + 1]
    BY <1>10, Zenon DEF Rejoins
  <2>3. run'[h] = run[h] + 1 \/ run'[h] = run[h]
    BY <1>0, <2>2, HostRuns, Zenon
  <2>4. run'[h] \in Nat /\ run'[h] >= run[h]
    BY <2>3, HostRuns, Zenon
  <2> QED BY <2>1, <2>4, RemovalStays, Zenon
<1>11. CASE DialOpens(d, a)
  <2>1. PICK s : s = [at |-> "dialed",
                   sends |-> IF ServesRecords(d, a) THEN recs[d] ELSE {},
                   takes |-> IF ServesRecords(d, a) THEN Devices
                             ELSE TakenUnserved(d),
                   answers |-> {}, read |-> 0,
                   since |-> {x \in {d, a} : leaving[x].at = "flushes"}]
    BY Zenon
  <2>2. /\ s.sends = IF ServesRecords(d, a) THEN recs[d] ELSE {}
        /\ s.answers = {} /\ s.at = "dialed"
    BY <2>1, Zenon
  <2>3. SessionMeant(p, s)
    BY <1>3, <1>6, <2>2, Zenon DEF SessionMeant
  <2>4. sessions' = [sessions EXCEPT ![p] = s]
    BY <1>2, <1>11, <2>1, Zenon DEF DialOpens
  <2>5. UNCHANGED <<case, chain, run, knew, recs, disk>>
    BY <1>11, Zenon DEF DialOpens, stores
  <2> QED BY <1>3, <2>3, <2>4, <2>5, RemovalMoves, Zenon
<1>12. CASE AcceptDecides(d, a)
  <2>1. UNCHANGED <<case, stores, knew>> /\ sessions[p] # None
    BY <1>2, <1>12, Zenon DEF AcceptDecides
  <2>2. CASE /\ ServesRecords(a, d)
             /\ sessions' = [sessions EXCEPT ![<<d, a>>].at = "judged", ![<<d, a>>].read = run[a]]
    <3>1. PICK s : s = [sessions[p] EXCEPT !.at = "judged", !.read = run[a]]
      BY Zenon
    <3>2. sessions' = [sessions EXCEPT ![p] = s]
      BY <1>2, <1>3, <2>2, <3>1, Zenon DEF Inv
    <3>3. /\ s.sends = sessions[p].sends /\ s.answers = sessions[p].answers
          /\ s.read = run[a]
      BY <1>4, <2>1, <3>1, Zenon DEF SessionOver
    <3>4. run[a] \in DOMAIN chain
      BY DEF Inv
    <3>5. IdentityOf[d] = Guest /\ IdentityOf[a] # Guest => chain[run[a]]
      BY <2>2, Zenon DEF ServesRecords, IsMember, StateAt
    <3>6. SessionMeant(p, s)
      BY <1>3, <1>4, <2>1, <3>3, <3>4, <3>5, Zenon DEF SessionMeant
    <3> QED BY <1>3, <2>1, <3>2, <3>6, RemovalMoves, Zenon DEF stores
  <2>3. CASE sessions' = [sessions EXCEPT ![<<d, a>>] = None]
    BY <1>2, <1>7, <2>1, <2>3, Zenon
  <2> QED BY <1>12, <2>2, <2>3, Zenon DEF AcceptDecides
<1>13. CASE AcceptOpens(d, a)
  <2>1. UNCHANGED <<case, stores, knew>> /\ sessions[p] # None /\ sessions[p].at = "judged"
    BY <1>2, <1>13, Zenon DEF AcceptOpens
  <2>2. CASE /\ DecisionHolds(sessions[<<d, a>>], a, d)
             /\ sessions' = [sessions EXCEPT ![<<d, a>>].at = "runs", ![<<d, a>>].answers = recs[a]]
    <3>1. PICK s : s = [sessions[p] EXCEPT !.at = "runs", !.answers = recs[a]]
      BY Zenon
    <3>2. sessions' = [sessions EXCEPT ![p] = s]
      BY <1>2, <1>3, <2>2, <3>1, Zenon DEF Inv
    <3>3. s.sends = sessions[p].sends /\ s.answers = recs[a] /\ s.at = "runs"
      BY <1>4, <2>1, <3>1, Zenon DEF SessionOver
    <3>4. IdentityOf[d] = Guest => \A e \in recs[a] : Meant(e)
      <4>1. CASE ServesRecords(a, d)
        BY <1>6, <4>1, Zenon
      <4>2. CASE IdentityOf[a] = Guest
        BY <4>2, Zenon DEF RemovalInv, GuestDevices
      <4>3. ASSUME sessions[p].read = run[a], IdentityOf[d] = Guest, IdentityOf[a] # Guest
            PROVE  \A e \in recs[a] : Meant(e)
        <5>1. chain[run[a]]
          BY <1>3, <1>4, <2>1, <4>3, Zenon DEF SessionMeant
        <5> QED BY <1>5, <4>3, <5>1, HostMeans, Zenon
      <4> QED BY <1>2, <2>2, <4>1, <4>2, <4>3, Zenon DEF DecisionHolds
    <3>5. SessionMeant(p, s)
      BY <1>3, <1>4, <2>1, <3>3, <3>4, Zenon DEF SessionMeant
    <3> QED BY <1>3, <2>1, <3>2, <3>5, RemovalMoves, Zenon DEF stores
  <2>3. CASE sessions' = [sessions EXCEPT ![<<d, a>>] = None]
    BY <1>2, <1>7, <2>1, <2>3, Zenon
  <2> QED BY <1>13, <2>2, <2>3, Zenon DEF AcceptOpens
<1>14. CASE SessionEnds(d, a)
  <2> DEFINE came == {e \in sessions[p].answers : e.author \in sessions[p].takes}
  <2>1. /\ UNCHANGED <<case, chain, run, knew, disk>> /\ sessions[p] # None
        /\ sessions' = [sessions EXCEPT ![p] = None]
        /\ recs' = [recs EXCEPT ![a] = Kept(@ \cup sessions[p].sends), ![d] = Kept(@ \cup came)]
    BY <1>2, <1>14, Zenon DEF SessionEnds
  <2>2. came \subseteq sessions[p].answers
    BY Zenon
  <2> HIDE DEF came
  <2>3. recs'[a] \subseteq recs[a] \cup sessions[p].sends
    BY <2>1, KeptPart, Zenon DEF Inv
  <2>4. recs'[d] \subseteq recs[d] \cup sessions[p].answers
    BY <2>1, <2>2, KeptPart, Zenon DEF Inv
  <2>5. \A x \in Devices \ {d, a} : recs'[x] = recs[x]
    BY <2>1, Zenon DEF Inv
  <2>6. SessionMeant(p, sessions[p])
    BY <1>4, <2>1, Zenon
  <2>7. ASSUME NEW x \in GuestDevices, NEW e \in recs'[x] \cup disk'[x] PROVE Meant(e)
    <3>1. x \in Devices /\ IdentityOf[x] = Guest
      BY ZenonT(40) DEF GuestDevices
    <3>2. CASE e \in recs[x] \cup disk[x]
      BY <3>2, Zenon DEF RemovalInv
    <3>3. CASE x = a /\ e \in sessions[p].sends
      BY <1>3, <2>6, <3>1, <3>3, Zenon DEF SessionMeant
    <3>4. CASE x = d /\ e \in sessions[p].answers
      BY <1>3, <2>6, <3>1, <3>4, Zenon DEF SessionMeant
    <3> QED BY <2>1, <2>3, <2>4, <2>5, <2>7, <3>1, <3>2, <3>3, <3>4, Zenon
  <2>8. \A q \in Pairs : sessions'[q] # None => sessions'[q] = sessions[q]
    BY <2>1, Zenon DEF Inv
  <2>9. \A q \in Pairs : sessions'[q] # None => SessionMeant(q, sessions'[q])
    BY <2>8, Zenon DEF RemovalInv
  <2> QED BY <1>1, <2>1, <2>7, <2>9, RemovalFollows, Zenon DEF ChainGrows
<1>15. CASE SessionFails(d, a)
  BY <1>2, <1>7, <1>15, Zenon DEF SessionFails
<1> QED BY <1>8, <1>9, <1>10, <1>11, <1>12, <1>13, <1>14, <1>15, Zenon DEF Meets

LEMMA NextRemoval ==
    ASSUME Inv, [Next]_vars, NEW h, RemovalInv(h) PROVE RemovalInv(h)'
<1>1. CASE UNCHANGED vars
  <2>1. run[h] \in Nat /\ run'[h] \in Nat /\ run'[h] >= run[h]
    BY <1>1, HostRuns, Zenon DEF vars
  <2> QED BY <1>1, <2>1, RemovalStays, Zenon DEF vars, ChainGrows
<1>2. CASE \E d \in Devices : d \in Setting.writers /\ Writes(d)
  BY <1>2, WritesKeepRemoval, Zenon
<1>3. CASE \E d \in Devices : Goes(d)
  BY <1>3, GoesKeepRemoval, Zenon
<1>4. CASE \E p \in Pairs : {p[1], p[2]} \subseteq Setting.awake /\ Meets(p[1], p[2])
  BY <1>4, MeetsKeepRemoval, Zenon DEF Pairs
<1> QED BY <1>1, <1>2, <1>3, <1>4, Zenon DEF Next

\* serve_pod, unserved and the accept's second question: where one device acts
\* for the members that stay, a record it wrote counting Guest as departed is on
\* no device of Guest unless Guest joined again after it, through dials in both
\* directions, decisions made before a removal, kills and returns.
THEOREM NothingAfterRemoval == ASSUME OneHost PROVE Spec => []NoneAfterRemoval
<1> DEFINE Served == \E h \in Devices : RemovalInv(h)
<1>1. Spec => []Inv
  BY InitInv, NextInv, PTL DEF Spec
<1>2. Init => Served
  BY InitRemoval, Zenon
<1>3. Inv /\ Served /\ [Next]_vars => Served'
  BY NextRemoval, Zenon
<1>4. Served => NoneAfterRemoval
  BY Zenon DEF RemovalInv, NoneAfterRemoval, Meant
<1> HIDE DEF Served
<1> QED BY <1>1, <1>2, <1>3, <1>4, PTL DEF Spec
=============================================================================
