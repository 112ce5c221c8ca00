--------------------------- MODULE SyncActorProofs --------------------------
(***************************************************************************)
(* For any stores, clients, cases and number of writes, commits, failures and *)
(* crashes: what a flush promised is on disk (FlushedIsDurable), where a      *)
(* commit made for a reader does not fail, since such a failure is told to    *)
(* the reader alone; the author's file names a key the store has              *)
(* (AuthorNamed); and a session serves under the decision made on the         *)
(* membership entries it holds (JudgedAsServed).                              *)
(*                                                                         *)
(* StoreInv is what the store's batches keep among themselves.  DurableInv    *)
(* ties what was acknowledged to the batch until a failure is told, AuthorInv *)
(* the author's key to the steps of its loader, and JudgedInv the count of    *)
(* writes a client read to the entries it read after it.                      *)
(***************************************************************************)
EXTENDS SyncActor, TLAPS

\* What the batches of a store keep among themselves.
StoreOK(d) ==
    /\ DOMAIN d = {"disk", "seen", "batch", "open", "old", "unsynced", "broken"}
    /\ d.open \in BOOLEAN /\ d.old \in BOOLEAN /\ d.broken \in BOOLEAN
    /\ d.disk \subseteq d.seen
    /\ d.unsynced = "no" => d.disk = d.seen
    /\ ~d.open => d.batch = {}
    /\ d.broken => ~d.open

StoreInv == StoreOK(db) /\ case \in DOMAIN Cases

\* No commit made for a reader fails.
ReadersCommit == \A c \in DOMAIN Cases : "read" \notin Cases[c].failAt

DurableInv ==
    /\ flushed \subseteq db.disk
    /\ ~failed => acked \subseteq db.seen \cup db.batch

AuthorInv ==
    /\ DOMAIN author = {"step", "file", "made"}
    /\ AuthorNamed
    /\ author.step = "imported" /\ ~failed => AuthorWrite(author.made) \in db.seen \cup db.batch
    /\ author.step = "flushed" => AuthorWrite(author.made) \in db.disk

IsSession(x) ==
    /\ DOMAIN x = {"id", "store", "snap", "alive"}
    /\ x.store = "records" /\ x.id \in Nat /\ x.id <= used.ids

\* What a client knows: the count of membership writes, then the entries at it.
Knows(c) ==
    /\ client[c].step \in {"counted", "judged"} =>
          client[c].writes \in Nat /\ client[c].writes <= count["membership"]
    /\ client[c].step = "judged" /\ client[c].writes = count["membership"] =>
          /\ client[c].entries = Content(db.seen, "membership")
          /\ \A w \in db.batch : w.store = "membership" => w.kind = "name"
    /\ client[c].step = "open" => client[c].id \in Nat /\ client[c].id <= used.ids

JudgedInv ==
    /\ "ids" \in DOMAIN used /\ used.ids \in Nat
    /\ count \in [Store -> Nat]
    /\ replicas \in [Store -> [handles : Nat, sync : BOOLEAN]]
    /\ client = [c \in Client |-> client[c]]
    /\ \A x \in sessions : IsSession(x)
    /\ \A c \in Client : Knows(c)
    /\ JudgedAsServed

-----------------------------------------------------------------------------
(***************************************************************************)
(* What the operators of StoreBatches do.                                     *)
(***************************************************************************)

\* From d to e nothing leaves the disk or a reader's sight, and what is new is w.
Carries(d, e, w) ==
    /\ StoreOK(e)
    /\ d.disk \subseteq e.disk /\ d.seen \subseteq e.seen
    /\ e.seen \subseteq d.seen \cup d.batch
    /\ e.batch \subseteq d.batch \cup w

\* Nothing that was written is lost.
Holds(d, e) == d.seen \cup d.batch \subseteq e.seen \cup e.batch

LEMMA AnswerIs == \A d, ok : Answer(d, ok).db = d /\ Answer(d, ok).ok = ok
BY Zenon DEF Answer

LEMMA ClosedIs ==
    ASSUME NEW d, StoreOK(d)
    PROVE  /\ StoreOK(Closed(d)) /\ Closed(d).disk = d.disk /\ Closed(d).seen = d.seen
           /\ Closed(d).batch = {} /\ Closed(d).open = FALSE /\ Closed(d).old = FALSE
           /\ Closed(d).unsynced = d.unsynced /\ Closed(d).broken = d.broken
<1>1. PICK e : e = Closed(d)
  BY Zenon
<1>2. DOMAIN e = DOMAIN d
  BY <1>1 DEF Closed
<1>3. /\ e.disk = d.disk /\ e.seen = d.seen /\ e.batch = {} /\ e.open = FALSE /\ e.old = FALSE
      /\ e.unsynced = d.unsynced /\ e.broken = d.broken
  BY <1>1 DEF Closed, StoreOK
<1>4. StoreOK(e)
  BY <1>2, <1>3, Zenon DEF StoreOK
<1> QED BY <1>1, <1>3, <1>4, Zenon

LEMMA BrokenIs ==
    ASSUME NEW d, StoreOK(d), ~d.open
    PROVE  LET e == [d EXCEPT !.broken = TRUE] IN
           /\ StoreOK(e) /\ e.disk = d.disk /\ e.seen = d.seen /\ e.batch = d.batch
           /\ ~e.open /\ e.unsynced = d.unsynced
<1>1. PICK e : e = [d EXCEPT !.broken = TRUE]
  BY Zenon
<1>2. DOMAIN e = DOMAIN d
  BY <1>1
<1>3. /\ e.disk = d.disk /\ e.seen = d.seen /\ e.batch = d.batch /\ e.open = d.open
      /\ e.old = d.old /\ e.unsynced = d.unsynced /\ e.broken = TRUE
  BY <1>1 DEF StoreOK
<1>4. StoreOK(e)
  BY <1>2, <1>3, Zenon DEF StoreOK
<1> QED BY <1>1, <1>3, <1>4, Zenon

LEMMA CommittedIs ==
    ASSUME NEW d, StoreOK(d), NEW synced \in BOOLEAN, ~d.broken
    PROVE  LET e == Committed(d, synced) IN
           /\ StoreOK(e) /\ e.seen = d.seen \cup d.batch /\ e.batch = {}
           /\ e.disk = IF synced THEN d.seen \cup d.batch ELSE d.disk
           /\ ~e.open /\ ~e.broken
<1>1. PICK c : c = Closed(d)
  BY Zenon
<1>2. PICK e : e = Committed(d, synced)
  BY Zenon
<1>3. e = [c EXCEPT !.seen = d.seen \cup d.batch,
                    !.disk = IF synced THEN d.seen \cup d.batch ELSE @,
                    !.unsynced = IF synced THEN "no" ELSE IF @ = "no" THEN "young" ELSE @]
  BY <1>1, <1>2, Zenon DEF Committed
<1>4. /\ StoreOK(c) /\ c.disk = d.disk /\ c.seen = d.seen /\ c.batch = {} /\ c.open = FALSE
      /\ c.old = FALSE /\ c.unsynced = d.unsynced /\ c.broken = d.broken
  BY <1>1, ClosedIs, Zenon
<1>5. DOMAIN e = DOMAIN c
  BY <1>3
<1>6. /\ e.seen = d.seen \cup d.batch /\ e.batch = {}
      /\ e.disk = IF synced THEN d.seen \cup d.batch ELSE d.disk
      /\ e.unsynced = IF synced THEN "no" ELSE IF d.unsynced = "no" THEN "young" ELSE d.unsynced
      /\ e.open = FALSE /\ e.old = FALSE /\ e.broken = d.broken
  BY <1>3, <1>4 DEF StoreOK
<1>7. e.disk \subseteq e.seen /\ (e.unsynced = "no" => e.disk = e.seen)
  BY <1>6 DEF StoreOK
<1>8. StoreOK(e)
  BY <1>4, <1>5, <1>6, <1>7, Zenon DEF StoreOK
<1> QED BY <1>2, <1>6, <1>8, Zenon

LEMMA SyncedIs ==
    ASSUME NEW d, StoreOK(d), ~d.broken
    PROVE  LET e == Committed(d, TRUE) IN
           /\ StoreOK(e) /\ e.seen = d.seen \cup d.batch /\ e.batch = {}
           /\ e.disk = d.seen \cup d.batch /\ ~e.open
<1>1. PICK t \in BOOLEAN : t = TRUE
  BY Zenon
<1>2. PICK e : e = Committed(d, t)
  BY Zenon
<1>3. /\ StoreOK(e) /\ e.seen = d.seen \cup d.batch /\ e.batch = {}
      /\ e.disk = IF t THEN d.seen \cup d.batch ELSE d.disk
      /\ ~e.open
  BY <1>2, CommittedIs
<1>4. e.disk = d.seen \cup d.batch
  BY <1>1, <1>3, Zenon
<1>5. e = Committed(d, TRUE)
  BY <1>1, <1>2, Zenon
<1> QED BY <1>3, <1>4, <1>5, Zenon

LEMMA FinishIs ==
    ASSUME NEW d, StoreOK(d), NEW synced \in BOOLEAN, NEW fails \in BOOLEAN
    PROVE  LET r == FinishWrite(d, synced, fails) IN
           /\ Carries(d, r.db, {}) /\ r.ok \in BOOLEAN
           /\ r.ok \/ ~fails => Holds(d, r.db)
           /\ r.db.batch = {} /\ ~r.db.open
           /\ r.ok => /\ r.db.seen = d.seen \cup d.batch /\ r.db.broken = d.broken
                      /\ synced /\ r.db.unsynced = "no" => r.db.disk = r.db.seen
<1>0. PICK r : r = FinishWrite(d, synced, fails)
  BY Zenon
<1>d. d.disk \subseteq d.seen
  BY Zenon DEF StoreOK
<1>1. CASE d.batch = {}
  <2>1. r.db = Closed(d) /\ r.ok = TRUE
    BY <1>0, <1>1, AnswerIs, Zenon DEF FinishWrite
  <2>3. /\ StoreOK(r.db) /\ r.db.disk = d.disk /\ r.db.seen = d.seen /\ r.db.batch = {}
        /\ r.db.open = FALSE /\ r.db.broken = d.broken
    BY <2>1, ClosedIs, ZenonT(40)
  <2>2. r.db.unsynced = "no" => r.db.disk = r.db.seen
    BY <2>3, Zenon DEF StoreOK
  <2> QED BY <1>0, <1>1, <2>1, <2>2, <2>3, Zenon DEF Carries, Holds
<1>2. CASE d.batch # {} /\ (fails \/ d.broken)
  <2>1. r.db = [Closed(d) EXCEPT !.broken = TRUE] /\ r.ok = FALSE
    BY <1>0, <1>2, AnswerIs, Zenon DEF FinishWrite
  <2>2. ~d.broken
    BY <1>2, Zenon DEF StoreOK
  <2>3. PICK c : c = Closed(d)
    BY Zenon
  <2>4. /\ StoreOK(c) /\ c.disk = d.disk /\ c.seen = d.seen /\ c.batch = {} /\ c.open = FALSE
    BY <2>3, ClosedIs, Zenon
  <2>5. /\ StoreOK(r.db) /\ r.db.disk = d.disk /\ r.db.seen = d.seen /\ r.db.batch = {} /\ ~r.db.open
    BY <2>1, <2>3, <2>4, BrokenIs, ZenonT(40)
  <2> QED BY <1>0, <1>2, <2>1, <2>2, <2>5, Zenon DEF Carries, Holds
<1>3. CASE d.batch # {} /\ ~fails /\ ~d.broken
  <2>1. PICK sync \in BOOLEAN : sync = (synced \/ d.old \/ d.unsynced = "due")
    BY Zenon
  <2>2. r.db = Committed(d, sync) /\ r.ok = TRUE
    BY <1>0, <1>3, <2>1, AnswerIs, Zenon DEF FinishWrite
  <2>3. synced => sync
    BY <2>1, Zenon
  <2>4. /\ StoreOK(r.db) /\ r.db.seen = d.seen \cup d.batch /\ r.db.batch = {}
        /\ r.db.disk = IF sync THEN d.seen \cup d.batch ELSE d.disk
        /\ ~r.db.open /\ ~r.db.broken
    BY <1>3, <2>2, CommittedIs
  <2>5. r.db.broken = d.broken
    BY <1>3, <2>4, Zenon DEF StoreOK
  <2> QED BY <1>0, <1>d, <1>3, <2>2, <2>3, <2>4, <2>5, Zenon DEF Carries, Holds
<1> QED BY <1>1, <1>2, <1>3, Zenon

\* Flush: all that was written is on disk, or it says that it failed.
LEMMA FlushIs ==
    ASSUME NEW d, StoreOK(d), NEW fails \in BOOLEAN
    PROVE  LET r == Flush(d, fails) IN
           /\ Carries(d, r.db, {}) /\ r.ok \in BOOLEAN
           /\ r.ok => r.db.disk = d.seen \cup d.batch /\ Holds(d, r.db)
<1>1. PICK wr : wr = FinishWrite(d, TRUE, fails)
  BY Zenon
<1>2. PICK m : m = CommitAndSync(d, fails)
  BY Zenon
<1>3. PICK r : r = Flush(d, fails)
  BY Zenon
<1>4. /\ Carries(d, wr.db, {}) /\ wr.ok \in BOOLEAN
      /\ wr.ok => Holds(d, wr.db)
      /\ wr.db.batch = {} /\ ~wr.db.open
      /\ wr.ok => /\ wr.db.seen = d.seen \cup d.batch /\ wr.db.broken = d.broken
                  /\ wr.db.unsynced = "no" => wr.db.disk = wr.db.seen
  BY <1>1, FinishIs, Zenon
<1>5. /\ Carries(d, m.db, {}) /\ m.ok \in BOOLEAN /\ ~m.db.open /\ m.db.batch = {}
      /\ m.ok => m.db.disk = d.seen \cup d.batch /\ Holds(d, m.db)
  <2>1. CASE ~wr.ok \/ wr.db.unsynced = "no"
    <3>1. m = wr
      BY <1>1, <1>2, <2>1, Zenon DEF CommitAndSync
    <3> QED BY <1>4, <2>1, <3>1, Zenon
  <2>2. CASE wr.ok /\ wr.db.unsynced # "no" /\ (fails \/ d.broken)
    <3>1. m.db = [wr.db EXCEPT !.broken = TRUE] /\ m.ok = FALSE
      BY <1>1, <1>2, <2>2, AnswerIs, Zenon DEF CommitAndSync
    <3>2. /\ StoreOK(m.db) /\ m.db.disk = wr.db.disk /\ m.db.seen = wr.db.seen
          /\ m.db.batch = {} /\ ~m.db.open
      BY <1>4, <3>1, BrokenIs, ZenonT(40) DEF Carries
    <3> QED BY <1>4, <3>1, <3>2, Zenon DEF Carries
  <2>3. CASE wr.ok /\ wr.db.unsynced # "no" /\ ~fails /\ ~d.broken
    <3>1. m.db = Committed(wr.db, TRUE) /\ m.ok = TRUE
      BY <1>1, <1>2, <2>3, AnswerIs, Zenon DEF CommitAndSync
    <3>2. StoreOK(wr.db) /\ ~wr.db.broken
      BY <1>4, <2>3, Zenon DEF Carries
    <3>3. /\ StoreOK(m.db) /\ m.db.seen = wr.db.seen \cup wr.db.batch /\ m.db.batch = {}
          /\ m.db.disk = wr.db.seen \cup wr.db.batch /\ ~m.db.open
      BY <3>1, <3>2, SyncedIs, Zenon
    <3>4. m.db.seen = d.seen \cup d.batch /\ m.db.disk = d.seen \cup d.batch
      BY <1>4, <2>3, <3>3, Zenon
    <3>5. d.disk \subseteq d.seen
      BY Zenon DEF StoreOK
    <3> QED BY <3>1, <3>3, <3>4, <3>5, Zenon DEF Carries, Holds
  <2> QED BY <1>4, <2>1, <2>2, <2>3, Zenon
<1>6. CASE m.ok \/ m.db.unsynced = "no"
  <2>1. r = m
    BY <1>2, <1>3, <1>6, Zenon DEF Flush
  <2> QED BY <1>3, <1>5, <2>1, Zenon
<1>7. CASE ~m.ok /\ m.db.unsynced # "no"
  <2>1. PICK e : e = [m.db EXCEPT !.unsynced = "young"]
    BY Zenon
  <2>2. r.db = e /\ r.ok = FALSE
    BY <1>2, <1>3, <1>7, <2>1, AnswerIs, Zenon DEF Flush
  <2>3. StoreOK(m.db)
    BY <1>5, Zenon DEF Carries
  <2>4. DOMAIN e = DOMAIN m.db
    BY <2>1
  <2>5. /\ e.disk = m.db.disk /\ e.seen = m.db.seen /\ e.batch = m.db.batch
        /\ e.open = m.db.open /\ e.old = m.db.old /\ e.unsynced = "young"
        /\ e.broken = m.db.broken
    BY <2>1, <2>3 DEF StoreOK
  <2>6. "young" # "no"
    OBVIOUS
  <2>7. StoreOK(e)
    BY <2>3, <2>4, <2>5, <2>6, Zenon DEF StoreOK
  <2> QED BY <1>3, <1>5, <2>2, <2>5, <2>7, Zenon DEF Carries
<1> QED BY <1>5, <1>6, <1>7, Zenon

\* The transaction to read or write in: only a failing commit loses its batch.
LEMMA CurrentIs ==
    ASSUME NEW d, StoreOK(d), NEW fails \in BOOLEAN
    PROVE  LET r == CurrentWrite(d, fails) IN
           /\ Carries(d, r.db, {}) /\ r.ok \in BOOLEAN
           /\ r.ok \/ ~fails => Holds(d, r.db)
           /\ r.ok => r.db.open /\ ~r.db.broken
<1>0. PICK fr : fr = IF d.open THEN FinishWrite(d, TRUE, fails) ELSE Answer(d, TRUE)
  BY Zenon
<1>r. PICK r : r = CurrentWrite(d, fails)
  BY Zenon
<1>1. /\ Carries(d, fr.db, {}) /\ fr.ok \in BOOLEAN
      /\ fr.ok \/ ~fails => Holds(d, fr.db)
  <2>1. CASE d.open
    BY <1>0, <2>1, FinishIs, Zenon
  <2>2. CASE ~d.open
    <3>1. fr.db = d /\ fr.ok = TRUE
      BY <1>0, <2>2, AnswerIs, Zenon
    <3> QED BY <3>1, Zenon DEF Carries, Holds
  <2> QED BY <2>1, <2>2, Zenon
<1>2. CASE d.open /\ ~d.old
  <2>1. r.db = d /\ r.ok = TRUE
    BY <1>r, <1>2, AnswerIs, Zenon DEF CurrentWrite
  <2>2. ~d.broken /\ d.disk \subseteq d.seen
    BY <1>2, Zenon DEF StoreOK
  <2> QED BY <1>r, <1>2, <2>1, <2>2, Zenon DEF Carries, Holds
<1>3. CASE ~(d.open /\ ~d.old) /\ (~fr.ok \/ fr.db.broken)
  <2>1. r.db = fr.db /\ r.ok = FALSE
    BY <1>0, <1>r, <1>3, AnswerIs, Zenon DEF CurrentWrite
  <2> QED BY <1>r, <1>1, <2>1, Zenon
<1>4. CASE ~(d.open /\ ~d.old) /\ fr.ok /\ ~fr.db.broken
  <2>1. PICK e : e = [fr.db EXCEPT !.open = TRUE]
    BY Zenon
  <2>2. r.db = e /\ r.ok = TRUE
    BY <1>0, <1>r, <1>4, <2>1, AnswerIs, Zenon DEF CurrentWrite
  <2>3. StoreOK(fr.db)
    BY <1>1, Zenon DEF Carries
  <2>4. DOMAIN e = DOMAIN fr.db
    BY <2>1
  <2>5. /\ e.disk = fr.db.disk /\ e.seen = fr.db.seen /\ e.batch = fr.db.batch
        /\ e.open = TRUE /\ e.old = fr.db.old /\ e.unsynced = fr.db.unsynced
        /\ e.broken = fr.db.broken
    BY <2>1, <2>3 DEF StoreOK
  <2>6. StoreOK(e)
    BY <1>4, <2>3, <2>4, <2>5, Zenon DEF StoreOK
  <2> QED BY <1>r, <1>1, <1>4, <2>2, <2>5, <2>6, Zenon DEF Carries, Holds
<1> QED BY <1>1, <1>2, <1>3, <1>4, Zenon

\* What is written is in the batch, or the batch before it is lost and it says so.
LEMMA ModifyIs ==
    ASSUME NEW d, StoreOK(d), NEW w, NEW fails \in BOOLEAN
    PROVE  LET r == Modify(d, w, fails) IN
           /\ Carries(d, r.db, w) /\ r.ok \in BOOLEAN
           /\ r.ok \/ ~fails => Holds(d, r.db)
           /\ r.ok => w \subseteq r.db.batch
           /\ ~r.ok => r.db.batch \subseteq d.batch
<1>c. PICK c : c = CurrentWrite(d, fails)
  BY Zenon
<1>r. PICK r : r = Modify(d, w, fails)
  BY Zenon
<1>1. /\ Carries(d, c.db, {}) /\ c.ok \in BOOLEAN
      /\ c.ok \/ ~fails => Holds(d, c.db)
      /\ c.ok => c.db.open /\ ~c.db.broken
  BY <1>c, CurrentIs, Zenon
<1>2. CASE ~c.ok
  <2>1. r = c
    BY <1>c, <1>r, <1>2, Zenon DEF Modify
  <2> QED BY <1>r, <1>1, <1>2, <2>1, Zenon DEF Carries
<1>3. CASE c.ok
  <2>1. PICK e : e = [c.db EXCEPT !.batch = @ \cup w]
    BY Zenon
  <2>2. r.db = e /\ r.ok = TRUE
    BY <1>c, <1>r, <1>3, <2>1, AnswerIs, Zenon DEF Modify
  <2>3. StoreOK(c.db)
    BY <1>1, Zenon DEF Carries
  <2>4. DOMAIN e = DOMAIN c.db
    BY <2>1
  <2>5. /\ e.disk = c.db.disk /\ e.seen = c.db.seen /\ e.batch = c.db.batch \cup w
        /\ e.open = c.db.open /\ e.old = c.db.old /\ e.unsynced = c.db.unsynced
        /\ e.broken = c.db.broken
    BY <2>1, <2>3 DEF StoreOK
  <2>6. StoreOK(e)
    BY <1>1, <1>3, <2>3, <2>4, <2>5, Zenon DEF StoreOK
  <2> QED BY <1>r, <1>1, <1>3, <2>2, <2>5, <2>6, Zenon DEF Carries, Holds
<1> QED BY <1>1, <1>2, <1>3, Zenon

-----------------------------------------------------------------------------
(***************************************************************************)
(* What follows from a request that moves the store on.                      *)
(***************************************************************************)

Inv == StoreInv /\ AuthorInv /\ JudgedInv /\ (ReadersCommit => DurableInv)

Replicas0 == [Store -> [handles : Nat, sync : BOOLEAN]]

\* Used as it was, but for what Inv does not speak of.
IdsKept == "ids" \in DOMAIN used' /\ used'.ids = used.ids

LEMMA FailingIs ==
    ASSUME StoreInv
    PROVE  /\ \A where, b : Failing(where, b) \subseteq BOOLEAN
           /\ ReadersCommit => \A b : Failing("read", b) = {FALSE}
BY Zenon DEF Failing, ReadersCommit, Setting, StoreInv

LEMMA SpentKeeps ==
    ASSUME "ids" \in DOMAIN used, NEW fails
    PROVE  "ids" \in DOMAIN Spent(fails) /\ Spent(fails).ids = used.ids
BY DEF Spent

LEMMA ReclaimedPart == Reclaimed \subseteq sessions
BY Zenon DEF Reclaimed

\* Names of replicas are no entries.
LEMMA ContentSame ==
    ASSUME NEW S, NEW T, NEW B, S \subseteq T, T \subseteq S \cup B,
           \A w \in B : w.store = "membership" => w.kind = "name"
    PROVE  Content(T, "membership") = Content(S, "membership")
<1>1. "name" # "put" /\ "name" # "drop"
  OBVIOUS
<1>2. \A w \in T : w.store = "membership" /\ w.kind \in {"put", "drop"} => w \in S
  BY <1>1, Zenon
<1> QED BY <1>2, Zenon DEF Content

LEMMA AuthorKept ==
    ASSUME AuthorInv, author' = author, db.disk \subseteq db'.disk,
           author.step = "imported" /\ ~failed' => ~failed /\ Holds(db, db')
    PROVE  AuthorInv'
BY Zenon DEF AuthorInv, AuthorNamed, Holds

\* The counts of writes only grow, and past what a client read where the entries
\* it read change.
CountsKeep(w) ==
    /\ count' \in [Store -> Nat] /\ count'["membership"] >= count["membership"]
    /\ \A x \in w : x.store = "membership" =>
           x.kind = "name" \/ count'["membership"] > count["membership"]

LEMMA KnowsKept ==
    ASSUME JudgedInv, NEW w, Carries(db, db', w), CountsKeep(w), NEW c \in Client,
           client'[c] = client[c], used'.ids \in Nat, used'.ids >= used.ids
    PROVE  Knows(c)'
<1>0. "membership" \in Store /\ count["membership"] \in Nat /\ count'["membership"] \in Nat
      /\ count'["membership"] >= count["membership"]
  BY ActorAssumption, Zenon DEF JudgedInv, CountsKeep
<1>1. Knows(c) /\ client'[c] = client[c]
  BY Zenon DEF JudgedInv
<1>2. ASSUME client[c].step \in {"counted", "judged"}
      PROVE  client[c].writes \in Nat /\ client[c].writes <= count'["membership"]
  <2>1. client[c].writes \in Nat /\ client[c].writes <= count["membership"]
    BY <1>1, <1>2, Zenon DEF Knows
  <2> QED BY <1>0, <2>1
<1>3. ASSUME client[c].step = "judged", client[c].writes = count'["membership"]
      PROVE  /\ client[c].entries = Content(db'.seen, "membership")
             /\ \A x \in db'.batch : x.store = "membership" => x.kind = "name"
  <2>1. client[c].writes \in Nat /\ client[c].writes <= count["membership"]
    BY <1>1, <1>3, Zenon DEF Knows
  <2>2. client[c].writes = count["membership"] /\ ~(count'["membership"] > count["membership"])
    BY <1>0, <1>3, <2>1
  <2>3. /\ client[c].entries = Content(db.seen, "membership")
        /\ \A x \in db.batch : x.store = "membership" => x.kind = "name"
    BY <1>1, <1>3, <2>2, Zenon DEF Knows
  <2>4. PICK S : S = db.seen
    OBVIOUS
  <2>5. PICK T : T = db'.seen
    OBVIOUS
  <2>6. PICK B : B = db.batch
    OBVIOUS
  <2>7. S \subseteq T /\ T \subseteq S \cup B /\ \A x \in B : x.store = "membership" => x.kind = "name"
    BY <2>3, <2>4, <2>5, <2>6, Zenon DEF Carries
  <2>8. Content(T, "membership") = Content(S, "membership")
    BY <2>7, ContentSame, Zenon
  <2>9. Content(db'.seen, "membership") = Content(db.seen, "membership")
    BY <2>4, <2>5, <2>8, Zenon
  <2> QED BY <2>2, <2>3, <2>9, Zenon DEF Carries, CountsKeep
<1>4. client[c].step = "open" => client[c].id \in Nat /\ client[c].id <= used'.ids
  BY <1>1 DEF Knows, JudgedInv
<1> QED BY <1>1, <1>2, <1>3, <1>4, Zenon DEF Knows

LEMMA OpenKept ==
    ASSUME JudgedInv, NEW w, Carries(db, db', w), sessions' \subseteq sessions,
           \A y \in sessions' : replicas'[y.store].handles > 0,
           \A x \in w, y \in sessions' : x.kind = "drop" => x.store # y.store
    PROVE  SessionsOfOpen'
<1> SUFFICES ASSUME NEW y \in sessions'
             PROVE  /\ replicas'[y.store].handles > 0
                    /\ \A x \in db'.seen \cup db'.batch :
                          x.store = y.store /\ x.kind = "drop" => x \in y.snap
  BY Zenon DEF SessionsOfOpen, IsOpen
<1>1. \A x \in db.seen \cup db.batch : x.store = y.store /\ x.kind = "drop" => x \in y.snap
  BY Zenon DEF JudgedInv, JudgedAsServed, SessionsOfOpen
<1>2. \A x \in db'.seen \cup db'.batch : x \in db.seen \cup db.batch \cup w
  BY Zenon DEF Carries
<1> QED BY <1>1, <1>2, Zenon

LEMMA JudgedKept ==
    ASSUME JudgedInv, NEW w, Carries(db, db', w), client' = client, IdsKept,
           count' \in [Store -> Nat], count'["membership"] >= count["membership"],
           \A x \in w : x.store = "membership" =>
               x.kind = "name" \/ count'["membership"] > count["membership"],
           replicas' \in Replicas0, sessions' \subseteq sessions,
           \A y \in sessions' : replicas'[y.store].handles > 0,
           \A x \in w, y \in sessions' : x.kind = "drop" => x.store # y.store
    PROVE  JudgedInv'
<1>1. used'.ids \in Nat /\ used'.ids >= used.ids
  BY DEF JudgedInv, IdsKept
<1>2. ASSUME NEW c \in Client PROVE Knows(c)'
  BY <1>1, KnowsKept, Zenon DEF CountsKeep
<1>3. \A x \in sessions' : IsSession(x)'
  BY Zenon DEF JudgedInv, IsSession, IdsKept
<1>4. SessionsOfOpen'
  BY OpenKept, Zenon
<1>5. JudgedAsServed'
  BY <1>4, Zenon DEF JudgedInv, JudgedAsServed
<1> QED BY <1>2, <1>3, <1>5, Zenon DEF JudgedInv, IdsKept, Replicas0

\* A request of a caller that only moves the store on.
LEMMA Served ==
    ASSUME Inv, NEW w, Carries(db, db', w), UNCHANGED <<case, author, client, flushed>>,
           author.step = "loaded", IdsKept,
           ReadersCommit /\ DurableInv /\ ~failed' => acked' \subseteq db'.seen \cup db'.batch,
           count' \in [Store -> Nat], count'["membership"] >= count["membership"],
           \A x \in w : x.store = "membership" =>
               x.kind = "name" \/ count'["membership"] > count["membership"],
           replicas' \in Replicas0, sessions' \subseteq sessions,
           \A y \in sessions' : replicas'[y.store].handles > 0,
           \A x \in w, y \in sessions' : x.kind = "drop" => x.store # y.store
    PROVE  Inv'
<1>1. StoreInv'
  BY Zenon DEF Inv, StoreInv, Carries
<1>2. "loaded" # "imported"
  OBVIOUS
<1>3. AuthorInv'
  BY <1>2, AuthorKept, Zenon DEF Inv, Carries
<1>4. JudgedInv'
  BY JudgedKept, Zenon DEF Inv
<1>5. ReadersCommit => DurableInv'
  BY Zenon DEF Inv, DurableInv, Carries
<1> QED BY <1>1, <1>3, <1>4, <1>5, Zenon DEF Inv

\* The same where replicas and counts stay as they are.
LEMMA ServedStill ==
    ASSUME Inv, NEW w, Carries(db, db', w), author.step = "loaded", IdsKept,
           UNCHANGED <<case, author, client, flushed, count, replicas>>,
           ReadersCommit /\ DurableInv /\ ~failed' => acked' \subseteq db'.seen \cup db'.batch,
           \A x \in w : x.store # "membership" \/ x.kind = "name", 
           \A x \in w : x.kind # "drop",
           sessions' \subseteq sessions
    PROVE  Inv'
<1>1. count \in [Store -> Nat] /\ replicas \in Replicas0 /\ "membership" \in Store
  BY ActorAssumption, Zenon DEF Inv, JudgedInv, Replicas0
<1>2. \A n \in Nat : n >= n
  OBVIOUS
<1>3. count'["membership"] >= count["membership"]
  BY <1>1, <1>2, Zenon
<1>4. \A y \in sessions' : replicas'[y.store].handles > 0
  BY Zenon DEF Inv, JudgedInv, JudgedAsServed, SessionsOfOpen, IsOpen
<1> QED BY <1>1, <1>3, <1>4, Served, Zenon

\* The store is left as it is.
LEMMA CarriesSelf == ASSUME StoreOK(db) PROVE Carries(db, db, {}) /\ Holds(db, db)
BY Zenon DEF Carries, Holds, StoreOK

LEMMA StillMoves ==
    ASSUME Inv, Carries(db, db', {}), Holds(db, db'), UNCHANGED <<case, author, failed, acked, flushed, client, count, replicas>>,
           IdsKept, sessions' \subseteq sessions
    PROVE  Inv'
<1>1. Carries(db, db', {}) /\ Holds(db, db')
  OBVIOUS
<1>2. AuthorInv'
  BY <1>1, AuthorKept, Zenon DEF Inv, Carries
<1>3. count \in [Store -> Nat] /\ replicas \in Replicas0 /\ "membership" \in Store
  BY ActorAssumption, Zenon DEF Inv, JudgedInv, Replicas0
<1>4. \A n \in Nat : n >= n
  OBVIOUS
<1>5. count'["membership"] >= count["membership"]
  BY <1>3, <1>4, Zenon
<1>6. \A y \in sessions' : replicas'[y.store].handles > 0
  BY Zenon DEF Inv, JudgedInv, JudgedAsServed, SessionsOfOpen, IsOpen
<1>7. JudgedInv'
  <2>1. PICK w : w = {}
    OBVIOUS
  <2>2. Carries(db, db', w) /\ \A x \in w : FALSE
    BY <1>1, <2>1, Zenon
  <2>3. JudgedInv /\ client' = client /\ count' = count /\ replicas' = replicas
    BY Zenon DEF Inv
  <2> QED BY <1>3, <1>5, <1>6, <2>2, <2>3, JudgedKept, Zenon
<1>8. StoreInv' /\ (ReadersCommit => DurableInv')
  BY <1>1, Zenon DEF Inv, StoreInv, DurableInv, Carries, Holds
<1> QED BY <1>2, <1>7, <1>8, Zenon DEF Inv

LEMMA StillKept ==
    ASSUME Inv, UNCHANGED <<case, db, author, failed, acked, flushed, client, count, replicas>>,
           IdsKept, sessions' \subseteq sessions
    PROVE  Inv'
<1>1. Carries(db, db', {}) /\ Holds(db, db')
  BY CarriesSelf, Zenon DEF Inv, StoreInv
<1> QED BY <1>1, StillMoves, Zenon

-----------------------------------------------------------------------------
(***************************************************************************)
(* The actions.                                                              *)
(***************************************************************************)

LEMMA CarriesLess ==
    ASSUME NEW d, NEW e, NEW w, Carries(d, e, w), e.batch \subseteq d.batch
    PROVE  Carries(d, e, {})
BY Zenon DEF Carries

\* A request that writes w: what it does to the store, and to those who count on it.
LEMMA Modifies ==
    ASSUME Inv, NEW w, NEW fails \in BOOLEAN, db' = Modify(db, w, fails).db,
           failed' = failed,
           acked' = acked \/ acked' = acked \cup w \/ acked' = acked \cap (db'.seen \cup db'.batch),
           Modify(db, w, fails).ok \/ acked' = acked \cap (db'.seen \cup db'.batch)
    PROVE  /\ Carries(db, db', w)
           /\ Modify(db, w, fails).ok \/ Carries(db, db', {})
           /\ ReadersCommit /\ DurableInv /\ ~failed' => acked' \subseteq db'.seen \cup db'.batch
<1>1. PICK d : d = db
  OBVIOUS
<1>2. PICK r : r = Modify(d, w, fails)
  OBVIOUS
<1>3. StoreOK(d) /\ db' = r.db
  BY <1>1, <1>2, Zenon DEF Inv, StoreInv
<1>4. /\ Carries(d, r.db, w) /\ (r.ok => Holds(d, r.db))
      /\ (r.ok => w \subseteq r.db.batch) /\ (~r.ok => r.db.batch \subseteq d.batch)
  BY <1>2, <1>3, ModifyIs, Zenon
<1>5. r.ok \/ Carries(d, r.db, {})
  BY <1>4, CarriesLess, Zenon
<1>6. ASSUME DurableInv, ~failed'
      PROVE  acked' \subseteq db'.seen \cup db'.batch
  <2>1. acked \subseteq d.seen \cup d.batch
    BY <1>1, <1>6, Zenon DEF DurableInv
  <2>2. CASE r.ok
    <3>1. acked \subseteq r.db.seen \cup r.db.batch /\ w \subseteq r.db.seen \cup r.db.batch
      BY <1>4, <2>1, <2>2, Zenon DEF Holds
    <3> QED BY <1>3, <3>1, Zenon
  <2>3. CASE ~r.ok
    BY <1>1, <1>2, <2>3, Zenon
  <2> QED BY <2>2, <2>3, Zenon
<1> QED BY <1>1, <1>2, <1>3, <1>4, <1>5, <1>6, Zenon

LEMMA PutsKeep ==
    ASSUME Inv, Serves, NEW s \in Store, NEW k \in Nat, NEW remote, NEW where,
           Puts(s, k, where, remote), sessions' = Reclaimed,
           UNCHANGED <<failed, replicas, client, author, flushed>>
    PROVE  Inv'
<1>1. PICK fails \in Failing(where, db.old /\ Commits(db)) :
        LET writes == {WriteOf(s, used.writes + i, "put") : i \in 1 .. k}
            done == Modify(db, writes, fails)
        IN  /\ db' = done.db
            /\ IF done.ok
               THEN /\ acked' = acked \cup writes
                    /\ count' = Wrote(s, k, remote)
                    /\ used' = [Spent(fails) EXCEPT !.writes = @ + k, !.events[s] = @ + k]
               ELSE /\ Told(done.db) /\ used' = Spent(fails)
                    /\ count' = IF remote THEN Wrote(s, 1, remote) ELSE count
  BY Zenon DEF Puts
<1>2. fails \in BOOLEAN
  BY FailingIs, Zenon DEF Inv
<1>3. PICK w : w = {WriteOf(s, used.writes + i, "put") : i \in 1 .. k}
  BY Zenon
<1>4. /\ Carries(db, db', w)
      /\ Modify(db, w, fails).ok \/ Carries(db, db', {})
      /\ ReadersCommit /\ DurableInv /\ ~failed' => acked' \subseteq db'.seen \cup db'.batch
  BY <1>1, <1>2, <1>3, Modifies, Zenon DEF Told
<1>5. \A x \in w : x.kind # "drop" /\ x.store = s /\ k >= 1
  BY <1>3 DEF WriteOf
<1>6. IdsKept
  <2>1. "ids" \in DOMAIN Spent(fails) /\ Spent(fails).ids = used.ids
    BY SpentKeeps, Zenon DEF Inv, JudgedInv
  <2>2. \/ used' = [Spent(fails) EXCEPT !.writes = @ + k, !.events[s] = @ + k]
        \/ used' = Spent(fails)
    BY <1>1, Zenon
  <2> QED BY <2>1, <2>2, Zenon DEF IdsKept
<1>7. count \in [Store -> Nat] /\ replicas \in Replicas0 /\ "membership" \in Store
  BY ActorAssumption, Zenon DEF Inv, JudgedInv, Replicas0
<1>8. ASSUME NEW j \in Nat, count' = [count EXCEPT ![s] = @ + j]
      PROVE  /\ count' \in [Store -> Nat] /\ count'["membership"] >= count["membership"]
             /\ s = "membership" /\ j >= 1 => count'["membership"] > count["membership"]
  BY <1>7, <1>8
<1>9. /\ case' = case /\ author.step = "loaded"
      /\ sessions' \subseteq sessions /\ replicas' \in Replicas0
      /\ \A y \in sessions' : replicas'[y.store].handles > 0
  BY <1>7, ReclaimedPart, Zenon
     DEF Serves, Takes, Inv, JudgedInv, JudgedAsServed, SessionsOfOpen, IsOpen
<1>10. CASE Modify(db, w, fails).ok
  <2>1. count' = [count EXCEPT ![s] = @ + k]
    BY <1>1, <1>3, <1>10, Zenon DEF Wrote
  <2> QED BY <1>4, <1>5, <1>6, <1>8, <1>9, <2>1, Served, Zenon
<1>11. CASE ~Modify(db, w, fails).ok
  <2>1. count' = [count EXCEPT ![s] = @ + 1] \/ count' = count
    BY <1>1, <1>3, <1>11, Zenon DEF Wrote
  <2>2. count' \in [Store -> Nat] /\ count'["membership"] >= count["membership"]
    BY <1>7, <2>1
  <2>3. PICK e : e = {}
    BY Zenon
  <2>4. Carries(db, db', e) /\ \A x \in e : FALSE
    BY <1>4, <1>11, <2>3, Zenon
  <2> QED BY <1>4, <1>6, <1>9, <2>2, <2>4, Served, Zenon
<1> QED BY <1>10, <1>11, Zenon

LEMMA InsertKeeps == ASSUME Inv, NEW s \in Store, InsertLocal(s) PROVE Inv'
<1>1. /\ Serves /\ sessions' = Reclaimed
      /\ UNCHANGED <<replicas, client, author, flushed>>
  BY Zenon DEF InsertLocal
<1>2. CASE Puts(s, 1, "write", FALSE) /\ failed' = failed
  <2>1. PICK k \in Nat : k = 1
    OBVIOUS
  <2> QED BY <1>1, <1>2, <2>1, PutsKeep, Zenon
<1>3. CASE Told(db) /\ UNCHANGED <<db, count, used>>
  <2>1. Carries(db, db', {}) /\ acked' \subseteq db'.seen \cup db'.batch
    BY <1>3, CarriesSelf, Zenon DEF Told, Inv, StoreInv
  <2>2. PICK e : e = {}
    BY Zenon
  <2>3. Carries(db, db', e) /\ \A x \in e : FALSE
    BY <2>1, <2>2, Zenon
  <2>4. /\ case' = case /\ author.step = "loaded" /\ sessions' \subseteq sessions /\ IdsKept
    BY <1>1, <1>3, ReclaimedPart, Zenon DEF Serves, Takes, IdsKept, Inv, JudgedInv
  <2> QED BY <1>1, <1>3, <2>1, <2>3, <2>4, ServedStill, Zenon
<1> QED BY <1>2, <1>3, Zenon DEF InsertLocal

LEMMA MessageKeeps == ASSUME Inv, NEW c \in Client, SyncProcessMessage(c) PROVE Inv'
<1>1. "records" \in Store /\ Setting.entries \subseteq Nat
  BY ActorAssumption, Zenon DEF Inv, StoreInv, Setting
<1>2. PICK k \in Nat : Puts("records", k, "write", TRUE)
  BY <1>1, Zenon DEF SyncProcessMessage
<1> QED BY <1>1, <1>2, PutsKeep, Zenon DEF SyncProcessMessage

LEMMA RemoteKeeps == ASSUME Inv, RemoteMembership PROVE Inv'
<1>1. "membership" \in Store /\ Setting.entries \subseteq Nat
  BY ActorAssumption, Zenon DEF Inv, StoreInv, Setting
<1>2. PICK k \in Nat : Puts("membership", k, "write", TRUE)
  BY <1>1, Zenon DEF RemoteMembership
<1> QED BY <1>1, <1>2, PutsKeep, Zenon DEF RemoteMembership

\* What a request does that leaves counts and replicas alone.
LEMMA ServesStill ==
    ASSUME Inv, Serves, sessions' = Reclaimed
    PROVE  /\ case' = case /\ author.step = "loaded" /\ sessions' \subseteq sessions
           /\ StoreOK(db) /\ "ids" \in DOMAIN used
BY ReclaimedPart, Zenon DEF Serves, Takes, Inv, JudgedInv, StoreInv

LEMMA ImportKeeps == ASSUME Inv, NEW s \in Store, ImportNamespace(s) PROVE Inv'
<1>1. PICK fails \in Failing("write", db.old /\ Commits(db)) :
        LET done == Modify(db, {WriteOf(s, used.writes + 1, "name")}, fails) IN
           /\ db' = done.db
           /\ used' = [Spent(fails) EXCEPT !.opens = @ + 1, !.writes = IF done.ok THEN @ + 1 ELSE @]
           /\ IF done.ok THEN UNCHANGED acked ELSE Told(done.db)
  BY Zenon DEF ImportNamespace
<1>f. fails \in BOOLEAN
  BY FailingIs, Zenon DEF Inv
<1>2. PICK w : w = {WriteOf(s, used.writes + 1, "name")}
  BY Zenon
<1>3. \A x \in w : x.kind = "name" /\ x.kind # "drop"
  BY <1>2 DEF WriteOf
<1>4. /\ Serves /\ sessions' = Reclaimed /\ failed' = failed
      /\ UNCHANGED <<author, client, flushed, count, replicas>>
  BY Zenon DEF ImportNamespace
<1>5. /\ Carries(db, db', w)
      /\ ReadersCommit /\ DurableInv /\ ~failed' => acked' \subseteq db'.seen \cup db'.batch
  BY <1>1, <1>f, <1>2, <1>4, Modifies, Zenon DEF Told
<1>6. /\ case' = case /\ author.step = "loaded" /\ sessions' \subseteq sessions
      /\ "ids" \in DOMAIN used
  BY <1>4, ServesStill, Zenon
<1>7. IdsKept
  <2>1. "ids" \in DOMAIN Spent(fails) /\ Spent(fails).ids = used.ids
    BY <1>6, SpentKeeps, Zenon
  <2> QED BY <1>1, <2>1 DEF IdsKept
<1> QED BY <1>3, <1>4, <1>5, <1>6, <1>7, ServedStill, Zenon

LEMMA RegisterKeeps == ASSUME Inv, NEW p \in Peer, RegisterUsefulPeer(p) PROVE Inv'
<1>1. PICK fails \in Failing("write", db.old /\ Commits(db)) :
        LET done == Modify(db, {WriteOf("peers", used.writes + 1, "put")}, fails) IN
           /\ db' = done.db
           /\ IF done.ok THEN UNCHANGED acked ELSE Told(done.db)
           /\ used' = [Spent(fails) EXCEPT !.writes = IF done.ok THEN @ + 1 ELSE @]
  BY Zenon DEF RegisterUsefulPeer
<1>f. fails \in BOOLEAN
  BY FailingIs, Zenon DEF Inv
<1>2. PICK w : w = {WriteOf("peers", used.writes + 1, "put")}
  BY Zenon
<1>3. \A x \in w : x.store # "membership" /\ x.kind # "drop"
  BY <1>2 DEF WriteOf
<1>4. /\ Serves /\ sessions' = Reclaimed /\ failed' = failed
      /\ UNCHANGED <<author, client, flushed, count, replicas>>
  BY Zenon DEF RegisterUsefulPeer
<1>5. /\ Carries(db, db', w)
      /\ ReadersCommit /\ DurableInv /\ ~failed' => acked' \subseteq db'.seen \cup db'.batch
  BY <1>1, <1>f, <1>2, <1>4, Modifies, Zenon DEF Told
<1>6. /\ case' = case /\ author.step = "loaded" /\ sessions' \subseteq sessions
      /\ "ids" \in DOMAIN used
  BY <1>4, ServesStill, Zenon
<1>7. IdsKept
  <2>1. "ids" \in DOMAIN Spent(fails) /\ Spent(fails).ids = used.ids
    BY <1>6, SpentKeeps, Zenon
  <2> QED BY <1>1, <2>1 DEF IdsKept
<1> QED BY <1>3, <1>4, <1>5, <1>6, <1>7, ServedStill, Zenon

\* A commit made for a reader: where it cannot fail, nothing is lost.
LEMMA ReaderHolds ==
    ASSUME Inv, NEW b, NEW fails \in Failing("read", b), ~fails => Holds(db, db'),
           UNCHANGED <<acked, failed>>
    PROVE  ReadersCommit /\ DurableInv /\ ~failed' => acked' \subseteq db'.seen \cup db'.batch
<1>1. ReadersCommit => fails = FALSE
  BY FailingIs, Zenon DEF Inv
<1> QED BY <1>1, Zenon DEF DurableInv, Holds

LEMMA SnapshotIs ==
    ASSUME NEW d, StoreOK(d), NEW fails \in BOOLEAN
    PROVE  LET r == Snapshot(d, fails) IN
           /\ Carries(d, r.db, {}) /\ r.db.batch = {}
           /\ ~fails => Holds(d, r.db)
           /\ r.ok => r.db.seen = d.seen \cup d.batch
<1>1. PICK f \in BOOLEAN : f = FALSE
  BY Zenon
<1>2. PICK r : r = FinishWrite(d, f, fails)
  OBVIOUS
<1>3. /\ Carries(d, r.db, {}) /\ r.db.batch = {} /\ (~fails => Holds(d, r.db))
      /\ r.ok => r.db.seen = d.seen \cup d.batch
  BY <1>2, FinishIs, Zenon
<1>4. r = Snapshot(d, fails)
  BY <1>1, <1>2, Zenon DEF Snapshot
<1> QED BY <1>3, <1>4, Zenon

LEMMA CurrentReads ==
    ASSUME NEW d, StoreOK(d), NEW fails \in BOOLEAN
    PROVE  LET r == CurrentWrite(d, fails) IN
           Carries(d, r.db, {}) /\ (~fails => Holds(d, r.db))
<1>1. PICK r : r = CurrentWrite(d, fails)
  OBVIOUS
<1>2. Carries(d, r.db, {}) /\ (~fails => Holds(d, r.db))
  BY <1>1, CurrentIs, Zenon
<1> QED BY <1>1, <1>2, Zenon

\* A read that leaves counts, replicas and clients alone.
LEMMA ReadsKeep ==
    ASSUME Inv, Serves, sessions' = Reclaimed, NEW b, NEW fails \in Failing("read", b),
           Carries(db, db', {}), ~fails => Holds(db, db'), used' = Spent(fails),
           UNCHANGED <<failed, author, client, flushed, acked, count, replicas>>
    PROVE  Inv'
<1>1. ReadersCommit /\ DurableInv /\ ~failed' => acked' \subseteq db'.seen \cup db'.batch
  BY ReaderHolds, Zenon
<1>2. PICK e : e = {}
  OBVIOUS
<1>3. Carries(db, db', e) /\ \A x \in e : FALSE
  BY <1>2, Zenon
<1>4. /\ case' = case /\ author.step = "loaded" /\ sessions' \subseteq sessions /\ IdsKept
  BY ServesStill, SpentKeeps, Zenon DEF IdsKept
<1> QED BY <1>1, <1>3, <1>4, ServedStill, Zenon

LEMMA GetManyKeeps == ASSUME Inv, GetMany PROVE Inv'
<1>1. PICK fails \in Failing("read", Commits(db)) : db' = Snapshot(db, fails).db /\ used' = Spent(fails)
  BY Zenon DEF GetMany
<1>2. fails \in BOOLEAN /\ StoreOK(db)
  BY FailingIs, Zenon DEF Inv, StoreInv
<1>3. PICK d : d = db
  OBVIOUS
<1>4. Carries(d, Snapshot(d, fails).db, {}) /\ (~fails => Holds(d, Snapshot(d, fails).db))
  BY <1>2, <1>3, SnapshotIs, Zenon
<1>5. PICK b : b = Commits(db)
  OBVIOUS
<1> QED BY <1>1, <1>3, <1>4, <1>5, ReadsKeep, Zenon DEF GetMany

LEMMA AnswerKeeps == ASSUME Inv, AnswerLive PROVE Inv'
<1>1. PICK fails \in Failing("read", db.old /\ Commits(db)) :
         db' = CurrentWrite(db, fails).db /\ used' = Spent(fails)
  BY Zenon DEF AnswerLive
<1>2. fails \in BOOLEAN /\ StoreOK(db)
  BY FailingIs, Zenon DEF Inv, StoreInv
<1>3. PICK d : d = db
  OBVIOUS
<1>4. Carries(d, CurrentWrite(d, fails).db, {}) /\ (~fails => Holds(d, CurrentWrite(d, fails).db))
  BY <1>2, <1>3, CurrentReads, Zenon
<1>5. PICK b : b = (db.old /\ Commits(db))
  OBVIOUS
<1> QED BY <1>1, <1>3, <1>4, <1>5, ReadsKeep, Zenon DEF AnswerLive

\* The replicas and the count of writes, where a request changes them.
LEMMA OpenKeeps == ASSUME Inv, NEW s \in Store, NEW sync \in BOOLEAN, Open(s, sync) PROVE Inv'
<1>1. PICK fails \in Failing("read", ~IsOpen(s) /\ db.old /\ Commits(db)) :
        LET done == IF IsOpen(s) THEN Answer(db, TRUE) ELSE CurrentWrite(db, fails) IN
           /\ db' = done.db
           /\ replicas' = IF done.ok
                          THEN [replicas EXCEPT ![s] = [handles |-> @.handles + 1, sync |-> @.sync \/ sync]]
                          ELSE replicas
           /\ used' = [Spent(fails) EXCEPT !.opens = @ + 1]
  BY Zenon DEF Open
<1>2. fails \in BOOLEAN
  BY FailingIs, Zenon DEF Inv
<1>3. /\ Serves /\ sessions' = Reclaimed
      /\ UNCHANGED <<author, client, failed, acked, flushed, count>>
  BY Zenon DEF Open
<1>4. /\ case' = case /\ author.step = "loaded" /\ sessions' \subseteq sessions
      /\ StoreOK(db) /\ "ids" \in DOMAIN used
  BY <1>3, ServesStill, Zenon
<1>5. Carries(db, db', {}) /\ (~fails => Holds(db, db'))
  <2>1. CASE IsOpen(s)
    BY <1>1, <1>4, <2>1, CarriesSelf, AnswerIs, Zenon
  <2>2. CASE ~IsOpen(s)
    <3>1. PICK d : d = db
      OBVIOUS
    <3>2. Carries(d, CurrentWrite(d, fails).db, {}) /\ (~fails => Holds(d, CurrentWrite(d, fails).db))
      BY <1>2, <1>4, <3>1, CurrentReads, Zenon
    <3> QED BY <1>1, <2>2, <3>1, <3>2, Zenon
  <2> QED BY <2>1, <2>2, Zenon
<1>6. IdsKept
  <2>1. "ids" \in DOMAIN Spent(fails) /\ Spent(fails).ids = used.ids
    BY <1>4, SpentKeeps, Zenon
  <2> QED BY <1>1, <2>1 DEF IdsKept
<1>7. PICK b : b = (~IsOpen(s) /\ db.old /\ Commits(db))
  OBVIOUS
<1>8. ReadersCommit /\ DurableInv /\ ~failed' => acked' \subseteq db'.seen \cup db'.batch
  BY <1>1, <1>3, <1>5, <1>7, ReaderHolds, Zenon
<1>9. count \in [Store -> Nat] /\ replicas \in Replicas0 /\ "membership" \in Store
  BY ActorAssumption, Zenon DEF Inv, JudgedInv, Replicas0
<1>10. count' \in [Store -> Nat] /\ count'["membership"] >= count["membership"]
  BY <1>3, <1>9
<1>11. \A y \in sessions' : y.store \in Store /\ replicas[y.store].handles > 0
  BY <1>4, ActorAssumption, Zenon
     DEF Inv, JudgedInv, IsSession, JudgedAsServed, SessionsOfOpen, IsOpen
<1>12. \/ replicas' = replicas
       \/ replicas' = [replicas EXCEPT ![s] = [handles |-> @.handles + 1, sync |-> @.sync \/ sync]]
  BY <1>1, Zenon
<1>13. replicas' \in Replicas0 /\ \A y \in sessions' : replicas'[y.store].handles > 0
  BY <1>9, <1>11, <1>12 DEF Replicas0
<1>14. PICK e : e = {}
  BY Zenon
<1>15. Carries(db, db', e) /\ \A x \in e : FALSE
  BY <1>5, <1>14, Zenon
<1> QED BY <1>3, <1>4, <1>6, <1>8, <1>10, <1>13, <1>15, Served, Zenon

LEMMA CloseKeeps == ASSUME Inv, NEW s \in Store, Close(s) PROVE Inv'
<1>1. /\ Serves
      /\ replicas' = [replicas EXCEPT ![s] = IF @.handles > 1 
                                           THEN [handles |-> @.handles - 1, sync |-> @.sync] ELSE Closed0]
      /\ sessions' = IF replicas[s].handles > 1 THEN Reclaimed ELSE Reclaimed \ SessionsOf(s)
      /\ used' = [used EXCEPT !.closes = @ + 1]
      /\ UNCHANGED <<db, author, client, failed, acked, flushed, count>>
  BY Zenon DEF Close
<1>2. case' = case /\ author.step = "loaded" /\ sessions' \subseteq sessions
  BY <1>1, ReclaimedPart, Zenon DEF Serves, Takes
<1>3. StoreOK(db) /\ "ids" \in DOMAIN used
  BY Zenon DEF Inv, StoreInv, JudgedInv
<1>4. PICK e : e = {}
  BY Zenon
<1>5. Carries(db, db', e) /\ \A x \in e : FALSE
  BY <1>1, <1>3, <1>4, CarriesSelf, Zenon
<1>6. IdsKept
  BY <1>1, <1>3 DEF IdsKept
<1>7. ReadersCommit /\ DurableInv /\ ~failed' => acked' \subseteq db'.seen \cup db'.batch
  BY <1>1, Zenon DEF DurableInv
<1>8. count \in [Store -> Nat] /\ replicas \in Replicas0 /\ "membership" \in Store
  BY ActorAssumption, Zenon DEF Inv, JudgedInv, Replicas0
<1>9. count' \in [Store -> Nat] /\ count'["membership"] >= count["membership"]
  BY <1>1, <1>8
<1>10. \A y \in sessions' : y.store \in Store /\ replicas[y.store].handles > 0
  BY <1>2, ActorAssumption, Zenon
     DEF Inv, JudgedInv, IsSession, JudgedAsServed, SessionsOfOpen, IsOpen
<1>11. \A y \in sessions' : y.store = s => replicas[s].handles > 1
  BY <1>1, <1>2, Zenon DEF SessionsOf
<1>12. replicas' \in Replicas0
  BY <1>1, <1>8 DEF Replicas0, Closed0
<1>13. \A y \in sessions' : replicas'[y.store].handles > 0
  BY <1>1, <1>8, <1>10, <1>11 DEF Replicas0
<1> QED BY <1>1, <1>2, <1>5, <1>6, <1>7, <1>9, <1>12, <1>13, Served, Zenon

LEMMA DropKeeps == ASSUME Inv, NEW s \in Store, DropReplica(s) PROVE Inv'
<1>1. PICK fails \in Failing("write", db.old /\ Commits(db)) :
        LET done == Modify(db, {WriteOf(s, used.writes + 1, "drop")}, fails) IN
           /\ db' = done.db
           /\ IF done.ok THEN count' = CountRemoval(s) /\ UNCHANGED acked
              ELSE Told(done.db) /\ UNCHANGED count
           /\ used' = [Spent(fails) EXCEPT !.drops = @ + 1, !.writes = IF done.ok THEN @ + 1 ELSE @]
  BY Zenon DEF DropReplica
<1>2. fails \in BOOLEAN
  BY FailingIs, Zenon DEF Inv
<1>3. /\ Serves /\ replicas' = [replicas EXCEPT ![s] = Closed0] /\ sessions' = CloseEveryHandle(s)
      /\ UNCHANGED <<author, client, failed, flushed>>
  BY Zenon DEF DropReplica
<1>4. PICK w : w = {WriteOf(s, used.writes + 1, "drop")}
  BY Zenon
<1>5. \A x \in w : x.store = s
  BY <1>4 DEF WriteOf
<1>6. /\ Carries(db, db', w)
      /\ Modify(db, w, fails).ok \/ Carries(db, db', {})
      /\ ReadersCommit /\ DurableInv /\ ~failed' => acked' \subseteq db'.seen \cup db'.batch
  BY <1>1, <1>2, <1>3, <1>4, Modifies, Zenon DEF Told
<1>7. case' = case /\ author.step = "loaded" /\ sessions' \subseteq sessions
  BY <1>3, ReclaimedPart, Zenon DEF Serves, Takes, CloseEveryHandle
<1>8. IdsKept
  <2>1. "ids" \in DOMAIN Spent(fails) /\ Spent(fails).ids = used.ids
    BY SpentKeeps, Zenon DEF Inv, JudgedInv
  <2> QED BY <1>1, <2>1 DEF IdsKept
<1>9. count \in [Store -> Nat] /\ replicas \in Replicas0 /\ "membership" \in Store
  BY ActorAssumption, Zenon DEF Inv, JudgedInv, Replicas0
<1>10. \A y \in sessions' : y.store \in Store /\ replicas[y.store].handles > 0
  BY <1>7, ActorAssumption, Zenon
     DEF Inv, JudgedInv, IsSession, JudgedAsServed, SessionsOfOpen, IsOpen
<1>11. \A y \in sessions' : y.store # s
  BY <1>3, <1>7, <1>10, Zenon DEF CloseEveryHandle, SessionsOf, IsOpen
<1>12. replicas' \in Replicas0
  BY <1>3, <1>9 DEF Replicas0, Closed0
<1>13. \A y \in sessions' : replicas'[y.store].handles > 0
  BY <1>3, <1>9, <1>10, <1>11, Zenon DEF Replicas0
<1>14. CASE Modify(db, w, fails).ok
  <2>1. count' = [count EXCEPT ![s] = @ + 1]
    BY <1>1, <1>4, <1>14, Zenon DEF CountRemoval
  <2>2. /\ count' \in [Store -> Nat] /\ count'["membership"] >= count["membership"]
        /\ s = "membership" => count'["membership"] > count["membership"]
    BY <1>9, <2>1
  <2> QED BY <1>3, <1>5, <1>6, <1>7, <1>8, <1>11, <1>12, <1>13, <2>2, Served, Zenon
<1>15. CASE ~Modify(db, w, fails).ok
  <2>1. count' = count
    BY <1>1, <1>4, <1>15, Zenon
  <2>2. count' \in [Store -> Nat] /\ count'["membership"] >= count["membership"]
    BY <1>9, <2>1
  <2>3. PICK e : e = {}
    BY Zenon
  <2>4. Carries(db, db', e) /\ \A x \in e : FALSE
    BY <1>6, <1>15, <2>3, Zenon
  <2> QED BY <1>3, <1>6, <1>7, <1>8, <1>12, <1>13, <2>2, <2>4, Served, Zenon
<1> QED BY <1>14, <1>15, Zenon

\* The loop's own commit: a failure of it is kept, to be told.
LEMMA TimerKeeps == ASSUME Inv, CommitOnTimer PROVE Inv'
<1>1. PICK fails \in Failing("timer", CommitsOrSyncs(db)) :
        LET done == Flush(db, fails) IN
           db' = done.db /\ failed' = KeepFailure(done) /\ used' = Spent(fails)
  BY Zenon DEF CommitOnTimer
<1>2. /\ sessions' \subseteq sessions /\ UNCHANGED <<case, count, replicas, client, author, acked, flushed>>
  BY ReclaimedPart, Zenon DEF CommitOnTimer
<1>3. fails \in BOOLEAN /\ StoreOK(db) /\ "ids" \in DOMAIN used
  BY FailingIs, Zenon DEF Inv, StoreInv, JudgedInv
<1>4. PICK d : d = db
  OBVIOUS
<1>5. PICK r : r = Flush(d, fails)
  OBVIOUS
<1>6. Carries(d, r.db, {}) /\ (r.ok => Holds(d, r.db)) /\ r.ok \in BOOLEAN
  BY <1>3, <1>4, <1>5, FlushIs, Zenon
<1>7. Carries(db, db', {}) /\ (~failed' => ~failed /\ Holds(db, db'))
  BY <1>1, <1>4, <1>5, <1>6, Zenon DEF KeepFailure
<1>8. StoreInv' /\ AuthorInv'
  BY <1>2, <1>7, AuthorKept, Zenon DEF Inv, StoreInv, Carries
<1>9. DurableInv => DurableInv'
  BY <1>2, <1>7, Zenon DEF DurableInv, Carries, Holds
<1>10. JudgedInv'
  <2>1. count \in [Store -> Nat] /\ replicas \in Replicas0 /\ "membership" \in Store /\ JudgedInv
    BY ActorAssumption, Zenon DEF Inv, JudgedInv, Replicas0
  <2>2. count' \in [Store -> Nat] /\ count'["membership"] >= count["membership"]
    BY <1>2, <2>1
  <2>3. replicas' \in Replicas0 /\ \A y \in sessions' : replicas'[y.store].handles > 0
    BY <1>2, <2>1, Zenon DEF JudgedInv, JudgedAsServed, SessionsOfOpen, IsOpen
  <2>4. IdsKept
    BY <1>1, <1>3, SpentKeeps, Zenon DEF IdsKept
  <2>5. PICK e : e = {}
    BY Zenon
  <2>6. Carries(db, db', e) /\ \A x \in e : FALSE
    BY <1>7, <2>5, Zenon
  <2> QED BY <1>2, <2>1, <2>2, <2>3, <2>4, <2>6, JudgedKept, Zenon
<1> QED BY <1>8, <1>9, <1>10, Zenon DEF Inv

\* The author as a flush leaves it: as it was, or a step on with the same names.
Rests(a) == a = author /\ author.step = "loaded"
Steps(a, step) ==
    /\ author.step = "imported" /\ a.step = step /\ DOMAIN a = DOMAIN author
    /\ a.file = author.file /\ a.made = author.made

\* A flush, of a caller or of the author's loader.
LEMMA FlushesKeep ==
    ASSUME Inv, NEW done, NEW refused, case' = case, Flushes(done, refused),
           Rests(refused) \/ Steps(refused, "failed"), Rests(done) \/ Steps(done, "flushed")
    PROVE  Inv'
<1>1. /\ sessions' \subseteq sessions /\ UNCHANGED <<count, replicas, client>>
  BY ReclaimedPart, Zenon DEF Flushes
<1>2. StoreOK(db) /\ "ids" \in DOMAIN used /\ AuthorInv
  BY Zenon DEF Inv, StoreInv, JudgedInv
<1>3. "failed" \notin {"imported", "flushed"} /\ "loaded" \notin {"imported", "flushed"}
      /\ "flushed" # "imported"
  OBVIOUS
<1>4. ASSUME author' = refused, db.disk \subseteq db'.disk PROVE AuthorInv'
  BY <1>2, <1>3, <1>4, Zenon DEF AuthorInv, AuthorNamed, Rests, Steps
<1>5. ASSUME NEW w, Carries(db, db', w), w = {}, IdsKept PROVE JudgedInv'
  <2>1. count \in [Store -> Nat] /\ replicas \in Replicas0 /\ "membership" \in Store /\ JudgedInv
    BY ActorAssumption, Zenon DEF Inv, JudgedInv, Replicas0
  <2>2. count' \in [Store -> Nat] /\ count'["membership"] >= count["membership"]
    BY <1>1, <2>1
  <2>3. replicas' \in Replicas0 /\ \A y \in sessions' : replicas'[y.store].handles > 0
    BY <1>1, <2>1, Zenon DEF JudgedInv, JudgedAsServed, SessionsOfOpen, IsOpen
  <2>4. \A x \in w : FALSE
    BY <1>5, Zenon
  <2> QED BY <1>1, <1>5, <2>1, <2>2, <2>3, <2>4, JudgedKept, Zenon
<1>6. CASE /\ failed' = FALSE /\ author' = refused
           /\ Told(db) /\ UNCHANGED <<db, flushed>>
           /\ used' = [used EXCEPT !.flushes = @ + 1]
  <2>1. IdsKept
    BY <1>2, <1>6 DEF IdsKept
  <2>2. Carries(db, db', {})
    BY <1>2, <1>6, CarriesSelf, Zenon
  <2>3. JudgedInv'
    BY <1>5, <2>1, <2>2, Zenon
  <2>4. AuthorInv'
    BY <1>4, <1>6, Zenon
  <2>5. StoreInv' /\ (DurableInv => DurableInv')
    BY <1>6, Zenon DEF Inv, StoreInv, DurableInv, Told
  <2> QED BY <2>3, <2>4, <2>5, Zenon DEF Inv
<1>7. ASSUME ~failed, failed' = failed, NEW fails \in Failing("flush", CommitsOrSyncs(db)),
             LET after == Flush(db, fails) IN
                 /\ db' = after.db /\ author' = IF after.ok THEN done ELSE refused
                 /\ IF after.ok THEN flushed' = flushed \cup acked /\ UNCHANGED acked
                    ELSE Told(after.db) /\ UNCHANGED flushed
                 /\ used' = [Spent(fails) EXCEPT !.flushes = @ + 1]
      PROVE  Inv'
  <2>1. fails \in BOOLEAN
    BY FailingIs, Zenon DEF Inv
  <2>2. PICK d : d = db
    OBVIOUS
  <2>3. PICK r : r = Flush(d, fails)
    OBVIOUS
  <2>4. Carries(d, r.db, {}) /\ (r.ok => r.db.disk = d.seen \cup d.batch /\ Holds(d, r.db))
    BY <1>2, <2>1, <2>2, <2>3, FlushIs, Zenon
  <2>5. Carries(db, db', {}) /\ (r.ok => db'.disk = db.seen \cup db.batch /\ Holds(db, db'))
    BY <1>7, <2>2, <2>3, <2>4, Zenon
  <2>6. IdsKept
    <3>1. "ids" \in DOMAIN Spent(fails) /\ Spent(fails).ids = used.ids
      BY <1>2, SpentKeeps, Zenon
    <3> QED BY <1>7, <3>1 DEF IdsKept
  <2>7. JudgedInv'
    BY <1>5, <2>5, <2>6, Zenon
  <2>8. StoreInv'
    BY <2>5, Zenon DEF Inv, StoreInv, Carries
  <2>9. CASE r.ok
    <3>1. author' = done /\ flushed' = flushed \cup acked /\ acked' = acked
      BY <1>7, <2>2, <2>3, <2>9, Zenon
    <3>2. db.disk \subseteq db'.disk /\ db'.disk = db.seen \cup db.batch
      BY <2>5, <2>9, Zenon DEF Carries
    <3>3. AuthorInv'
      BY <1>2, <1>3, <1>7, <3>1, <3>2, Zenon DEF AuthorInv, AuthorNamed, Rests, Steps
    <3>4. DurableInv => DurableInv'
      BY <1>7, <2>5, <2>9, <3>1, <3>2, Zenon DEF DurableInv, Holds
    <3> QED BY <2>7, <2>8, <3>3, <3>4, Zenon DEF Inv
  <2>10. CASE ~r.ok
    <3>1. /\ author' = refused /\ flushed' = flushed
          /\ acked' = acked \cap (db'.seen \cup db'.batch)
      BY <1>7, <2>2, <2>3, <2>10, Zenon DEF Told
    <3>2. db.disk \subseteq db'.disk
      BY <2>5, Zenon DEF Carries
    <3>3. AuthorInv' /\ (DurableInv => DurableInv')
      BY <1>4, <3>1, <3>2, Zenon DEF DurableInv
    <3> QED BY <2>7, <2>8, <3>3, Zenon DEF Inv
  <2> QED BY <2>9, <2>10, Zenon
<1> QED BY <1>6, <1>7, Zenon DEF Flushes

LEMMA FlushStoreKeeps == ASSUME Inv, FlushStore PROVE Inv'
<1>1. PICK a : a = author
  OBVIOUS
<1>2. Flushes(a, a) /\ Rests(a) /\ case' = case
  BY <1>1, Zenon DEF FlushStore, Rests, Serves, Takes
<1> QED BY <1>2, FlushesKeep, Zenon

LEMMA FlushAuthorKeeps == ASSUME Inv, FlushAuthor PROVE Inv'
<1>1. PICK f : f = [author EXCEPT !.step = "flushed"]
  BY Zenon
<1>2. PICK r : r = [author EXCEPT !.step = "failed"]
  BY Zenon
<1>3. DOMAIN author = {"step", "file", "made"} /\ author.step = "imported"
  BY Zenon DEF Inv, AuthorInv, FlushAuthor
<1>4. Steps(f, "flushed") /\ Steps(r, "failed")
  BY <1>1, <1>2, <1>3 DEF Steps
<1>5. Flushes(f, r) /\ case' = case
  BY <1>1, <1>2, Zenon DEF FlushAuthor, Takes
<1> QED BY <1>4, <1>5, FlushesKeep, Zenon

\* A registration is new: its number is the next, and its snapshot is all there is.
NewSession(n) ==
    /\ DOMAIN n = {"id", "store", "snap", "alive"}
    /\ n.store = "records" /\ n.id = used.ids + 1 /\ used'.ids = used.ids + 1
    /\ n.snap = db'.seen /\ db'.batch = {} /\ IsOpen("records")

\* A client that opened its session holds the newest one, and read what it shows.
NewlyOpen(v) ==
    /\ used'.ids = used.ids + 1 /\ v.id = used.ids + 1
    /\ v.unwritten => v.entries = Content(db'.seen, "membership")

\* A client goes a step further, maybe to a session registered for it.
LEMMA ClientMoves ==
    ASSUME Inv, Serves, Carries(db, db', {}),
           UNCHANGED <<author, flushed, count, replicas>>,
           ReadersCommit /\ DurableInv /\ ~failed' => acked' \subseteq db'.seen \cup db'.batch,
           "ids" \in DOMAIN used', used'.ids \in Nat, used'.ids >= used.ids,
           NEW c \in Client, NEW v, client' = [client EXCEPT ![c] = v],
           v.step = "open" => NewlyOpen(v), v.step # "open" => Knows(c)',
           NEW N, sessions' \subseteq sessions \cup N, \A n \in N : NewSession(n)
    PROVE  Inv'
<1>1. case' = case /\ author.step = "loaded" /\ JudgedInv /\ StoreInv /\ used.ids \in Nat
  BY Zenon DEF Serves, Takes, Inv, JudgedInv
<1>2. StoreInv'
  BY <1>1, Zenon DEF StoreInv, Carries
<1>3. "loaded" # "imported" /\ "open" \notin {"counted", "judged"}
  OBVIOUS
<1>4. AuthorInv'
  BY <1>1, <1>3, AuthorKept, Zenon DEF Inv, Carries
<1>5. ReadersCommit => DurableInv'
  BY Zenon DEF Inv, DurableInv, Carries
<1>6. PICK e : e = {}
  OBVIOUS
<1>7. Carries(db, db', e) /\ \A x \in e : FALSE
  BY <1>6, Zenon
<1>8. count["membership"] \in Nat /\ count' \in [Store -> Nat]
  BY <1>1, ActorAssumption, Zenon DEF JudgedInv
<1>9. count'["membership"] >= count["membership"]
  BY <1>8
<1>10. CountsKeep(e)
  BY <1>7, <1>8, <1>9, Zenon DEF CountsKeep
<1>11. DOMAIN client = Client
  BY <1>1, Zenon DEF JudgedInv
<1>12. client'[c] = v /\ \A a \in Client : a # c => client'[a] = client[a]
  BY <1>11, Zenon
<1>13. client' = [a \in Client |-> client'[a]]
  BY <1>11, Zenon
<1>14. ASSUME NEW a \in Client PROVE Knows(a)'
  <2>1. CASE a # c
    BY <1>1, <1>7, <1>10, <1>12, <2>1, KnowsKept, Zenon
  <2>2. CASE a = c /\ v.step = "open"
    <3>1. v.id \in Nat /\ v.id <= used'.ids
      BY <1>1, <2>2 DEF NewlyOpen
    <3> QED BY <1>3, <1>12, <2>2, <3>1, Zenon DEF Knows
  <2> QED BY <2>1, <2>2, Zenon
<1>15. ASSUME NEW x \in sessions' PROVE IsSession(x)'
  <2>1. CASE x \in N
    BY <1>1, <2>1 DEF NewSession, IsSession
  <2>2. CASE x \in sessions
    BY <1>1, <2>2 DEF IsSession, JudgedInv
  <2> QED BY <2>1, <2>2, Zenon
<1>16. SessionsOfOpen'
  <2> SUFFICES ASSUME NEW y \in sessions'
               PROVE  /\ replicas'[y.store].handles > 0
                      /\ \A x \in db'.seen \cup db'.batch :
                            x.store = y.store /\ x.kind = "drop" => x \in y.snap
    BY Zenon DEF SessionsOfOpen, IsOpen
  <2>1. CASE y \in N
    BY <2>1, Zenon DEF NewSession, IsOpen
  <2>2. CASE y \in sessions
    <3>1. /\ replicas[y.store].handles > 0
          /\ \A x \in db.seen \cup db.batch : x.store = y.store /\ x.kind = "drop" => x \in y.snap
      BY <1>1, <2>2, Zenon DEF JudgedInv, JudgedAsServed, SessionsOfOpen, IsOpen
    <3> QED BY <3>1, Zenon DEF Carries
  <2> QED BY <2>1, <2>2, Zenon
<1>17. ASSUME NEW a \in Client, NEW x \in sessions', client'[a].step = "open",
              client'[a].unwritten, client'[a].id = x.id
       PROVE  Content(x.snap, "membership") = client'[a].entries
  <2>1. x \in N => x.id = used.ids + 1 /\ x.snap = db'.seen
    BY Zenon DEF NewSession
  <2>2. x \in sessions => x.id \in Nat /\ x.id <= used.ids
    BY <1>1, Zenon DEF JudgedInv, IsSession
  <2>3. ~(x \in sessions /\ x.id = used.ids + 1)
    BY <1>1, <2>2
  <2>4. CASE a = c
    BY <1>12, <1>17, <2>1, <2>3, <2>4, ZenonT(40) DEF NewlyOpen
  <2>5. CASE a # c
    <3>1. client[a].step = "open" /\ client[a].unwritten /\ client[a].id = x.id
          /\ client'[a].entries = client[a].entries
      BY <1>12, <1>17, <2>5, Zenon
    <3>2. client[a].id \in Nat /\ client[a].id <= used.ids
      BY <1>1, <3>1, Zenon DEF JudgedInv, Knows
    <3>3. x \notin N
      BY <1>1, <2>1, <3>1, <3>2
    <3> QED BY <1>1, <3>1, <3>3, Zenon DEF JudgedInv, JudgedAsServed
  <2> QED BY <2>4, <2>5, Zenon
<1>18. JudgedInv'
  BY <1>1, <1>8, <1>13, <1>14, <1>15, <1>16, <1>17, Zenon DEF JudgedInv, JudgedAsServed
<1> QED BY <1>2, <1>4, <1>5, <1>18, Zenon DEF Inv

LEMMA ReadCountKeeps == ASSUME Inv, NEW c \in Client, ReadCount(c) PROVE Inv'
<1>1. PICK v : v = [step |-> "counted", writes |-> count["membership"]]
  BY Zenon
<1>2. /\ Serves /\ sessions' = Reclaimed /\ client' = [client EXCEPT ![c] = v]
      /\ used' = [used EXCEPT !.starts = @ + 1]
      /\ UNCHANGED <<db, count, failed, replicas, author, acked, flushed>>
  BY <1>1, Zenon DEF ReadCount
<1>3. StoreOK(db) /\ "ids" \in DOMAIN used /\ used.ids \in Nat /\ DOMAIN client = Client
  BY Zenon DEF Inv, StoreInv, JudgedInv
<1>4. Carries(db, db', {})
  BY <1>2, <1>3, CarriesSelf, Zenon
<1>5. "ids" \in DOMAIN used' /\ used'.ids \in Nat /\ used'.ids >= used.ids
  BY <1>2, <1>3
<1>6. ReadersCommit /\ DurableInv /\ ~failed' => acked' \subseteq db'.seen \cup db'.batch
  BY <1>2, Zenon DEF DurableInv
<1>7. v.step = "counted" /\ v.writes = count["membership"]
  BY <1>1
<1>8. "counted" # "judged" /\ "counted" # "open"
  OBVIOUS
<1>9. count["membership"] \in Nat /\ count'["membership"] = count["membership"]
  BY <1>2, ActorAssumption, Zenon DEF Inv, JudgedInv
<1>10. client'[c] = v /\ v.writes <= count'["membership"] /\ v.writes \in Nat
  BY <1>2, <1>3, <1>7, <1>9
<1>11. Knows(c)'
  BY <1>7, <1>8, <1>10, Zenon DEF Knows
<1>12. PICK N : N = {}
  BY Zenon
<1>13. sessions' \subseteq sessions \cup N /\ \A n \in N : NewSession(n)
  BY <1>2, <1>12, ReclaimedPart, Zenon
<1> QED BY <1>2, <1>4, <1>5, <1>6, <1>7, <1>8, <1>11, <1>13, ClientMoves, Zenon

LEMMA ReadEntriesKeeps == ASSUME Inv, NEW c \in Client, ReadEntries(c) PROVE Inv'
<1>1. PICK fails \in Failing("read", Commits(db)) :
        LET done == Snapshot(db, fails) IN
           /\ db' = IF IsOpen("membership") THEN done.db ELSE db
           /\ client' = [client EXCEPT ![c] =
                            IF done.ok /\ IsOpen("membership")
                            THEN [step |-> "judged", writes |-> client[c].writes,
                                  entries |-> Content(done.db.seen, "membership")]
                            ELSE Idle]
           /\ used' = Spent(fails)
  BY Zenon DEF ReadEntries
<1>2. /\ Serves /\ client[c].step = "counted" /\ sessions' = Reclaimed
      /\ UNCHANGED <<count, failed, replicas, author, acked, flushed>>
  BY Zenon DEF ReadEntries
<1>3. StoreOK(db) /\ "ids" \in DOMAIN used /\ used.ids \in Nat /\ DOMAIN client = Client /\ Knows(c)
  BY Zenon DEF Inv, StoreInv, JudgedInv
<1>4. fails \in BOOLEAN
  BY FailingIs, Zenon DEF Inv
<1>5. PICK d : d = db
  OBVIOUS
<1>6. PICK r : r = Snapshot(d, fails)
  OBVIOUS
<1>7. Carries(d, r.db, {}) /\ r.db.batch = {} /\ (~fails => Holds(d, r.db))
  BY <1>3, <1>4, <1>5, <1>6, SnapshotIs, Zenon
<1>8. Carries(db, db', {}) /\ (~fails => Holds(db, db'))
  <2>1. CASE IsOpen("membership")
    BY <1>1, <1>5, <1>6, <1>7, <2>1, Zenon
  <2>2. CASE ~IsOpen("membership")
    BY <1>1, <1>3, <2>2, CarriesSelf, Zenon
  <2> QED BY <2>1, <2>2, Zenon
<1>9. PICK b : b = Commits(db)
  OBVIOUS
<1>10. ReadersCommit /\ DurableInv /\ ~failed' => acked' \subseteq db'.seen \cup db'.batch
  BY <1>1, <1>2, <1>8, <1>9, ReaderHolds, Zenon
<1>11. "ids" \in DOMAIN used' /\ used'.ids \in Nat /\ used'.ids >= used.ids
  <2>1. "ids" \in DOMAIN used' /\ used'.ids = used.ids
    BY <1>1, <1>3, SpentKeeps, Zenon
  <2> QED BY <1>3, <2>1
<1>12. PICK N : N = {}
  BY Zenon
<1>13. sessions' \subseteq sessions \cup N /\ \A n \in N : NewSession(n)
  BY <1>2, <1>12, ReclaimedPart, Zenon
<1>14. "judged" # "open" /\ "idle" \notin {"counted", "judged", "open"}
  OBVIOUS
<1>15. CASE r.ok /\ IsOpen("membership")
  <2>1. PICK v : v = [step |-> "judged", writes |-> client[c].writes,
                      entries |-> Content(db'.seen, "membership")]
    BY Zenon
  <2>2. db' = r.db /\ client' = [client EXCEPT ![c] = v]
    BY <1>1, <1>5, <1>6, <1>15, <2>1, Zenon
  <2>3. /\ v.step = "judged" /\ v.writes = client[c].writes
        /\ v.entries = Content(db'.seen, "membership") /\ client'[c] = v
    BY <1>3, <2>1, <2>2
  <2>4. client[c].writes \in Nat /\ client[c].writes <= count["membership"]
    BY <1>2, <1>3, Zenon DEF Knows
  <2>5. Knows(c)'
    BY <1>2, <1>7, <1>14, <2>2, <2>3, <2>4, Zenon DEF Knows
  <2> QED BY <1>2, <1>8, <1>10, <1>11, <1>13, <1>14, <2>2, <2>3, <2>5, ClientMoves, Zenon
<1>16. CASE ~(r.ok /\ IsOpen("membership"))
  <2>1. PICK v : v = Idle
    OBVIOUS
  <2>2. client' = [client EXCEPT ![c] = v] /\ v.step = "idle"
    BY <1>1, <1>5, <1>6, <1>16, <2>1, Zenon DEF Idle
  <2>3. client'[c] = v
    BY <1>3, <2>2, Zenon
  <2>4. Knows(c)'
    BY <1>14, <2>2, <2>3, Zenon DEF Knows
  <2> QED BY <1>2, <1>8, <1>10, <1>11, <1>13, <1>14, <2>2, <2>4, ClientMoves, Zenon
<1> QED BY <1>15, <1>16, Zenon

LEMMA StartKeeps == ASSUME Inv, NEW c \in Client, SyncSessionStart(c) PROVE Inv'
<1>1. PICK fails \in Failing("read", Commits(db)), delivered \in BOOLEAN :
        LET done == IF Syncs("records") THEN Snapshot(db, fails) ELSE Answer(db, FALSE) IN
           /\ db' = done.db
           /\ sessions' = IF done.ok
                  THEN Reclaimed \cup {[id |-> used.ids + 1, store |-> "records",
                                        snap |-> done.db.seen, alive |-> delivered]}
                  ELSE Reclaimed
           /\ client' = [client EXCEPT ![c] =
                  IF done.ok /\ delivered
                  THEN [step |-> "open", id |-> used.ids + 1, entries |-> client[c].entries,
                        unwritten |-> count["membership"] = client[c].writes]
                  ELSE Idle]
           /\ used' = [Spent(fails) EXCEPT !.ids = @ + 1]
  BY Zenon DEF SyncSessionStart
<1>2. /\ Serves /\ client[c].step = "judged"
      /\ UNCHANGED <<count, failed, replicas, author, acked, flushed>>
  BY Zenon DEF SyncSessionStart
<1>3. StoreOK(db) /\ "ids" \in DOMAIN used /\ used.ids \in Nat /\ DOMAIN client = Client /\ Knows(c)
  BY Zenon DEF Inv, StoreInv, JudgedInv
<1>4. fails \in BOOLEAN
  BY FailingIs, Zenon DEF Inv
<1>5. PICK d : d = db
  OBVIOUS
<1>6. PICK r : r = IF Syncs("records") THEN Snapshot(d, fails) ELSE Answer(d, FALSE)
  BY Zenon
<1>7. PICK s : s = Snapshot(d, fails)
  OBVIOUS
<1>8. /\ Carries(d, s.db, {}) /\ s.db.batch = {} /\ (~fails => Holds(d, s.db))
      /\ s.ok => s.db.seen = d.seen \cup d.batch
  BY <1>3, <1>4, <1>5, <1>7, SnapshotIs, Zenon
<1>9. db' = r.db
  BY <1>1, <1>5, <1>6, Zenon
<1>10. /\ Carries(db, db', {}) /\ (~fails => Holds(db, db'))
       /\ r.ok => /\ IsOpen("records") /\ db'.batch = {} /\ db'.seen = db.seen \cup db.batch
  <2>1. CASE Syncs("records")
    BY <1>5, <1>6, <1>7, <1>8, <1>9, <2>1, Zenon DEF Syncs
  <2>2. CASE ~Syncs("records")
    BY <1>3, <1>5, <1>6, <1>9, <2>2, CarriesSelf, AnswerIs, Zenon
  <2> QED BY <2>1, <2>2, Zenon
<1>11. PICK b : b = Commits(db)
  OBVIOUS
<1>12. ReadersCommit /\ DurableInv /\ ~failed' => acked' \subseteq db'.seen \cup db'.batch
  BY <1>1, <1>2, <1>10, <1>11, ReaderHolds, Zenon
<1>13. "ids" \in DOMAIN used' /\ used'.ids = used.ids + 1
  <2>1. "ids" \in DOMAIN Spent(fails) /\ Spent(fails).ids = used.ids
    BY <1>3, SpentKeeps, Zenon
  <2> QED BY <1>1, <2>1
<1>14. used'.ids \in Nat /\ used'.ids >= used.ids
  BY <1>3, <1>13
<1>15. PICK n : n = [id |-> used.ids + 1, store |-> "records", snap |-> db'.seen, alive |-> delivered]
  BY Zenon
<1>16. PICK N : N = IF r.ok THEN {n} ELSE {}
  BY Zenon
<1>17. sessions' \subseteq sessions \cup N
  BY <1>1, <1>5, <1>6, <1>9, <1>15, <1>16, ReclaimedPart, Zenon
<1>18. ASSUME NEW x \in N PROVE NewSession(x)
  <2>1. x = n /\ r.ok
    BY <1>16, Zenon
  <2>2. /\ DOMAIN n = {"id", "store", "snap", "alive"} /\ n.id = used.ids + 1
        /\ n.store = "records" /\ n.snap = db'.seen
    BY <1>15
  <2> QED BY <1>10, <1>13, <2>1, <2>2, Zenon DEF NewSession
<1>19. "idle" \notin {"counted", "judged", "open"}
  OBVIOUS
<1>20. CASE r.ok /\ delivered
  <2>1. PICK v : v = [step |-> "open", id |-> used.ids + 1, entries |-> client[c].entries,
                      unwritten |-> count["membership"] = client[c].writes]
    BY Zenon
  <2>2. client' = [client EXCEPT ![c] = v]
    BY <1>1, <1>5, <1>6, <1>20, <2>1, Zenon
  <2>3. /\ v.step = "open" /\ v.id = used.ids + 1 /\ v.entries = client[c].entries
        /\ v.unwritten = (count["membership"] = client[c].writes)
    BY <2>1
  <2>4. ASSUME v.unwritten PROVE v.entries = Content(db'.seen, "membership")
    <3>1. client[c].writes = count["membership"]
      BY <2>3, <2>4, Zenon
    <3>2. /\ v.entries = Content(db.seen, "membership")
          /\ \A x \in db.batch : x.store = "membership" => x.kind = "name"
      BY <1>2, <1>3, <2>3, <3>1, Zenon DEF Knows
    <3>3. PICK S : S = db.seen
      OBVIOUS
    <3>4. PICK T : T = db'.seen
      OBVIOUS
    <3>5. PICK B : B = db.batch
      OBVIOUS
    <3>6. S \subseteq T /\ T \subseteq S \cup B /\ \A x \in B : x.store = "membership" => x.kind = "name"
      BY <1>10, <3>2, <3>3, <3>4, <3>5, Zenon DEF Carries
    <3>7. Content(T, "membership") = Content(S, "membership")
      BY <3>6, ContentSame, Zenon
    <3> QED BY <3>2, <3>3, <3>4, <3>7, Zenon
  <2>5. NewlyOpen(v)
    BY <1>13, <2>3, <2>4, Zenon DEF NewlyOpen
  <2> QED BY <1>2, <1>10, <1>12, <1>13, <1>14, <1>17, <1>18, <2>2, <2>3, <2>5, ClientMoves, Zenon
<1>21. CASE ~(r.ok /\ delivered)
  <2>1. PICK v : v = Idle
    OBVIOUS
  <2>2. client' = [client EXCEPT ![c] = v] /\ v.step = "idle"
    BY <1>1, <1>5, <1>6, <1>21, <2>1, Zenon DEF Idle
  <2>3. client'[c] = v
    BY <1>3, <2>2, Zenon
  <2>4. Knows(c)'
    BY <1>19, <2>2, <2>3, Zenon DEF Knows
  <2> QED BY <1>2, <1>10, <1>12, <1>13, <1>14, <1>17, <1>18, <1>19, <2>2, <2>4, ClientMoves, Zenon
<1> QED BY <1>20, <1>21, Zenon

\* A client lets its session go; the registration is told, or not.
LEMMA DropSessionKeeps == ASSUME Inv, NEW c \in Client, DropSession(c) PROVE Inv'
<1>1. /\ client' = [client EXCEPT ![c] = Idle]
      /\ UNCHANGED <<case, db, count, failed, replicas, author, acked, flushed, used>>
  BY Zenon DEF DropSession
<1>2. PICK queued \in BOOLEAN :
        sessions' = {IF x.id = client[c].id THEN [x EXCEPT !.alive = queued] ELSE x : x \in sessions}
  BY Zenon DEF DropSession
<1>3. ASSUME NEW y \in sessions'
      PROVE  \E x \in sessions : /\ DOMAIN y = DOMAIN x /\ y.id = x.id
                                 /\ y.store = x.store /\ y.snap = x.snap
  <2>1. PICK x \in sessions : y = IF x.id = client[c].id THEN [x EXCEPT !.alive = queued] ELSE x
    BY <1>2, Zenon
  <2>2. DOMAIN x = {"id", "store", "snap", "alive"}
    BY Zenon DEF Inv, JudgedInv, IsSession
  <2>3. DOMAIN y = DOMAIN x /\ y.id = x.id /\ y.store = x.store /\ y.snap = x.snap
    BY <2>1, <2>2
  <2> QED BY <2>3, Zenon
<1>4. StoreInv' /\ AuthorInv' /\ (DurableInv => DurableInv')
  BY <1>1, Zenon DEF Inv, StoreInv, AuthorInv, AuthorNamed, DurableInv
<1>5. JudgedInv /\ DOMAIN client = Client
  BY Zenon DEF Inv, JudgedInv
<1>6. client'[c].step = "idle" /\ "idle" \notin {"counted", "judged", "open"}
  BY <1>1, <1>5 DEF Idle
<1>7. \A a \in Client : a # c => client'[a] = client[a]
  BY <1>1, <1>5, Zenon
<1>8. ASSUME NEW a \in Client PROVE Knows(a)'
  <2>1. CASE a = c
    BY <1>6, <2>1, Zenon DEF Knows
  <2>2. CASE a # c
    BY <1>1, <1>5, <1>7, <2>2, Zenon DEF JudgedInv, Knows
  <2> QED BY <2>1, <2>2, Zenon
<1>9. \A y \in sessions' : IsSession(y)'
  BY <1>1, <1>3, <1>5, Zenon DEF JudgedInv, IsSession
<1>10. SessionsOfOpen'
  BY <1>1, <1>3, <1>5, ZenonT(40) DEF JudgedInv, JudgedAsServed, SessionsOfOpen, IsOpen
<1>11. ASSUME NEW a \in Client, NEW y \in sessions', client'[a].step = "open",
              client'[a].unwritten, client'[a].id = y.id
       PROVE  Content(y.snap, "membership") = client'[a].entries
  <2>1. a # c
    BY <1>6, <1>11, Zenon
  <2>2. PICK x \in sessions : y.id = x.id /\ y.snap = x.snap
    BY <1>3, Zenon
  <2>3. client[a].step = "open" /\ client[a].unwritten /\ client[a].id = x.id
        /\ client'[a].entries = client[a].entries
    BY <1>7, <1>11, <2>1, <2>2, Zenon
  <2>4. Content(x.snap, "membership") = client[a].entries
    BY <1>5, <2>3, Zenon DEF JudgedInv, JudgedAsServed
  <2> QED BY <2>2, <2>3, <2>4, Zenon
<1>12. client' = [a \in Client |-> client'[a]]
  BY <1>1, <1>5, Zenon
<1>13. JudgedInv'
  BY <1>1, <1>5, <1>8, <1>9, <1>10, <1>11, <1>12, Zenon DEF JudgedInv, JudgedAsServed
<1> QED BY <1>4, <1>13, Zenon DEF Inv

LEMMA SameIds == ASSUME Inv, used' = used PROVE IdsKept
BY Zenon DEF Inv, JudgedInv, IdsKept

LEMMA EndKeeps == ASSUME Inv, NEW i, SyncSessionEnd(i) PROVE Inv'
<1>1. /\ case' = case /\ sessions' \subseteq sessions
      /\ UNCHANGED <<db, count, failed, replicas, client, author, acked, flushed, used>>
  BY ReclaimedPart, Zenon DEF SyncSessionEnd, Serves, Takes
<1> QED BY <1>1, SameIds, StillKept, Zenon

\* Steps of the loop and of the callers that touch nothing Inv speaks of.
LEMMA TopKeeps == ASSUME Inv, Top \/ SweepFallsDue \/ Start \/ Deliver PROVE Inv'
<1>1. UNCHANGED <<case, db, author, failed, acked, flushed, client, count, replicas, sessions, used>>
  BY Zenon DEF Top, SweepFallsDue, Start, Deliver, mem
<1> QED BY <1>1, SameIds, StillKept, Zenon

LEMMA AskKeeps == ASSUME Inv, Ask \/ (\E s \in Store : LeaveStore(s)) PROVE Inv'
<1>1. UNCHANGED <<case, db, author, failed, acked, flushed, client, count, replicas, sessions>>
  BY Zenon DEF Ask, LeaveStore, mem
<1>2. "ids" \in DOMAIN used
  BY Zenon DEF Inv, JudgedInv
<1>3. used' = [used EXCEPT !.asks = @ + 1] \/ used' = [used EXCEPT !.leaves = @ + 1]
  BY Zenon DEF Ask, LeaveStore
<1>4. IdsKept
  BY <1>2, <1>3 DEF IdsKept
<1> QED BY <1>1, <1>4, StillKept, Zenon

LEMMA AgesKeep == ASSUME Inv, BatchAges \/ SyncFallsDue PROVE Inv'
<1>1. UNCHANGED <<case, author, failed, acked, flushed, client, count, replicas, sessions, used>>
  BY Zenon DEF BatchAges, SyncFallsDue, mem
<1>2. StoreOK(db)
  BY Zenon DEF Inv, StoreInv
<1>3. db' = [db EXCEPT !.old = TRUE] \/ db' = [db EXCEPT !.unsynced = "due"]
  BY Zenon DEF BatchAges, SyncFallsDue
<1>4. /\ DOMAIN db' = DOMAIN db /\ db'.disk = db.disk /\ db'.seen = db.seen /\ db'.batch = db.batch
      /\ db'.open = db.open /\ db'.broken = db.broken /\ db'.old \in BOOLEAN
      /\ db'.unsynced \in {db.unsynced, "due"} /\ "due" # "no"
  BY <1>2, <1>3, Zenon DEF StoreOK
<1>5. Carries(db, db', {}) /\ Holds(db, db')
  BY <1>2, <1>4, Zenon DEF Carries, Holds, StoreOK
<1> QED BY <1>1, <1>5, SameIds, StillMoves, Zenon

\* The part about sessions, where the loader or the loop moves the store on.
LEMMA JudgedStill ==
    ASSUME JudgedInv, NEW w, Carries(db, db', w), IdsKept, sessions' \subseteq sessions,
           UNCHANGED <<client, count, replicas>>,
           \A x \in w : x.store # "membership" /\ x.kind # "drop"
    PROVE  JudgedInv'
<1>1. count \in [Store -> Nat] /\ replicas \in Replicas0 /\ "membership" \in Store
  BY ActorAssumption, Zenon DEF JudgedInv, Replicas0
<1>2. count' \in [Store -> Nat] /\ count'["membership"] >= count["membership"]
  BY <1>1
<1>3. replicas' \in Replicas0 /\ \A y \in sessions' : replicas'[y.store].handles > 0
  BY <1>1, Zenon DEF JudgedInv, JudgedAsServed, SessionsOfOpen, IsOpen
<1> QED BY <1>2, <1>3, JudgedKept, Zenon

LEMMA LoadNamedKeeps == ASSUME Inv, LoadNamed PROVE Inv'
<1>1. PICK fails \in Failing("read", db.old /\ Commits(db)) :
        LET done == CurrentWrite(db, fails) IN
           /\ db' = done.db /\ used' = Spent(fails)
           /\ author' = [author EXCEPT !.step =
                  IF done.ok /\ AuthorWrite(author.file) \in done.db.seen \cup done.db.batch
                  THEN "loaded" ELSE "failed"]
  BY Zenon DEF LoadNamed
<1>2. /\ case' = case /\ sessions' \subseteq sessions
      /\ UNCHANGED <<count, failed, replicas, client, acked, flushed>>
  BY ReclaimedPart, Zenon DEF LoadNamed, Loads, Takes
<1>3. /\ StoreOK(db) /\ "ids" \in DOMAIN used /\ DOMAIN author = {"step", "file", "made"}
      /\ AuthorNamed /\ JudgedInv
  BY Zenon DEF Inv, StoreInv, JudgedInv, AuthorInv
<1>4. fails \in BOOLEAN
  BY FailingIs, Zenon DEF Inv
<1>5. PICK d : d = db
  OBVIOUS
<1>6. Carries(d, CurrentWrite(d, fails).db, {}) /\ (~fails => Holds(d, CurrentWrite(d, fails).db))
  BY <1>3, <1>4, <1>5, CurrentReads, Zenon
<1>7. Carries(db, db', {}) /\ (~fails => Holds(db, db'))
  BY <1>1, <1>5, <1>6, Zenon
<1>8. PICK b : b = (db.old /\ Commits(db))
  OBVIOUS
<1>9. ReadersCommit /\ DurableInv /\ ~failed' => acked' \subseteq db'.seen \cup db'.batch
  BY <1>1, <1>2, <1>7, <1>8, ReaderHolds, Zenon
<1>10. PICK step \in {"loaded", "failed"} : author' = [author EXCEPT !.step = step]
  BY <1>1, Zenon
<1>11. /\ DOMAIN author' = DOMAIN author /\ author'.file = author.file
       /\ author'.step \notin {"imported", "flushed"}
  BY <1>3, <1>10
<1>12. AuthorInv'
  BY <1>3, <1>7, <1>11, Zenon DEF AuthorInv, AuthorNamed, Carries
<1>13. StoreInv' /\ (ReadersCommit => DurableInv')
  BY <1>2, <1>7, <1>9, Zenon DEF Inv, StoreInv, DurableInv, Carries
<1>14. IdsKept
  BY <1>1, <1>3, SpentKeeps, Zenon DEF IdsKept
<1>15. PICK e : e = {}
  BY Zenon
<1>16. Carries(db, db', e) /\ \A x \in e : FALSE
  BY <1>7, <1>15, Zenon
<1>17. JudgedInv'
  BY <1>2, <1>3, <1>14, <1>16, JudgedStill, Zenon
<1> QED BY <1>12, <1>13, <1>17, Zenon DEF Inv

LEMMA ImportAuthorKeeps == ASSUME Inv, ImportAuthor PROVE Inv'
<1>1. PICK n : n = used.writes + 1
  OBVIOUS
<1>2. PICK w : w = {AuthorWrite(n)}
  BY Zenon
<1>3. PICK fails \in BOOLEAN : fails = FALSE
  BY Zenon
<1>4. PICK d : d = db
  OBVIOUS
<1>5. PICK r : r = Modify(d, w, fails)
  OBVIOUS
<1>6. /\ db' = r.db /\ author.file = -1
      /\ author' = [author EXCEPT !.step = IF r.ok THEN AfterImport ELSE "failed", !.made = n]
      /\ acked' = IF r.ok THEN acked \cup w ELSE acked
      /\ used' = [used EXCEPT !.writes = @ + 1]
      /\ UNCHANGED <<count, failed, replicas, client, flushed>>
  BY <1>1, <1>2, <1>3, <1>4, <1>5, Zenon DEF ImportAuthor
<1>7. case' = case /\ sessions' \subseteq sessions
  BY ReclaimedPart, Zenon DEF ImportAuthor, Loads, Takes
<1>8. StoreOK(d) /\ "ids" \in DOMAIN used /\ DOMAIN author = {"step", "file", "made"} /\ JudgedInv
  BY <1>4, Zenon DEF Inv, StoreInv, JudgedInv, AuthorInv
<1>9. /\ Carries(d, r.db, w) /\ Holds(d, r.db) /\ (r.ok => w \subseteq r.db.batch)
  BY <1>3, <1>5, <1>8, ModifyIs, Zenon
<1>10. PICK step : step = IF r.ok THEN AfterImport ELSE "failed"
  OBVIOUS
<1>11. step \notin {"imported", "flushed"} \/ (step = "imported" /\ r.ok)
  BY <1>10 DEF AfterImport
<1>12. author' = [author EXCEPT !.step = step, !.made = n]
  BY <1>6, <1>10, Zenon
<1>13. /\ DOMAIN author' = DOMAIN author /\ author'.file = author.file
       /\ author'.step = step /\ author'.made = n
  BY <1>8, <1>12
<1>14. AuthorInv'
  <2>1. "imported" # "flushed"
    OBVIOUS
  <2>2. step = "imported" => AuthorWrite(n) \in db'.seen \cup db'.batch
    BY <1>2, <1>6, <1>9, <1>11, Zenon
  <2> QED BY <1>6, <1>8, <1>11, <1>13, <2>1, <2>2, Zenon DEF AuthorInv, AuthorNamed
<1>15. StoreInv' /\ (DurableInv => DurableInv')
  <2>1. StoreInv'
    BY <1>6, <1>7, <1>9, Zenon DEF Inv, StoreInv, Carries
  <2>2. ASSUME DurableInv, ~failed' PROVE acked' \subseteq db'.seen \cup db'.batch
    <3>1. acked \subseteq r.db.seen \cup r.db.batch
      BY <1>4, <1>6, <1>9, <2>2, Zenon DEF DurableInv, Holds
    <3> QED BY <1>6, <1>9, <3>1, Zenon
  <2> QED BY <1>4, <1>6, <1>9, <2>1, <2>2, Zenon DEF DurableInv, Carries
<1>16. IdsKept
  BY <1>6, <1>8 DEF IdsKept
<1>17. \A x \in w : x.store # "membership" /\ x.kind # "drop"
  BY <1>2 DEF AuthorWrite, WriteOf
<1>18. JudgedInv'
  BY <1>4, <1>6, <1>7, <1>8, <1>9, <1>16, <1>17, JudgedStill, Zenon
<1> QED BY <1>14, <1>15, <1>18, Zenon DEF Inv

LEMMA PersistKeeps == ASSUME Inv, PersistAuthor PROVE Inv'
<1>1. /\ author' = [author EXCEPT !.step = "loaded", !.file = author.made]
      /\ author.step = "flushed"
      /\ UNCHANGED <<case, db, failed, acked, flushed, client, count, replicas, sessions, used>>
  BY Zenon DEF PersistAuthor, mem
<1>2. /\ DOMAIN author = {"step", "file", "made"} /\ AuthorWrite(author.made) \in db.disk
  BY <1>1, Zenon DEF Inv, AuthorInv
<1>3. /\ DOMAIN author' = DOMAIN author /\ author'.step = "loaded" /\ author'.file = author.made
      /\ "loaded" \notin {"imported", "flushed"}
  BY <1>1, <1>2
<1>4. AuthorInv'
  BY <1>1, <1>2, <1>3, Zenon DEF AuthorInv, AuthorNamed
<1>5. StoreInv' /\ (DurableInv => DurableInv')
  BY <1>1, Zenon DEF Inv, StoreInv, DurableInv
<1>6. PICK e : e = {}
  BY Zenon
<1>7. Carries(db, db', e) /\ \A x \in e : FALSE
  BY <1>1, <1>6, CarriesSelf, Zenon DEF Inv, StoreInv
<1>8. JudgedInv'
  BY <1>1, <1>7, SameIds, JudgedStill, Zenon DEF Inv
<1> QED BY <1>4, <1>5, <1>8, Zenon DEF Inv

LEMMA OpenedIs == \A kept : StoreOK(Opened(kept)) /\ Opened(kept).disk = kept /\ Opened(kept).seen = kept
                            /\ Opened(kept).batch = {}
<1> SUFFICES ASSUME NEW kept
             PROVE  StoreOK(Opened(kept)) /\ Opened(kept).disk = kept /\ Opened(kept).seen = kept
                    /\ Opened(kept).batch = {}
  BY Zenon
<1>1. PICK d : d = Opened(kept)
  OBVIOUS
<1>2. /\ DOMAIN d = {"disk", "seen", "batch", "open", "old", "unsynced", "broken"}
      /\ d.disk = kept /\ d.seen = kept /\ d.batch = {} /\ d.open = FALSE /\ d.old = FALSE
      /\ d.unsynced = "no" /\ d.broken = FALSE
  BY <1>1 DEF Opened
<1>3. StoreOK(d)
  BY <1>2, Zenon DEF StoreOK
<1> QED BY <1>1, <1>2, <1>3, Zenon

\* Nothing is asked of the actor yet.
Fresh ==
    /\ sessions = {} /\ client = [c \in Client |-> Idle] /\ count = [s \in Store |-> 0]
    /\ replicas \in Replicas0 /\ "ids" \in DOMAIN used /\ used.ids \in Nat

LEMMA FreshJudged == Fresh => JudgedInv
<1> SUFFICES ASSUME Fresh PROVE JudgedInv
  OBVIOUS
<1>1. count \in [Store -> Nat] /\ client = [c \in Client |-> client[c]]
  BY DEF Fresh
<1>2. \A c \in Client : client[c].step = "idle" /\ "idle" \notin {"counted", "judged", "open"}
  BY DEF Fresh, Idle
<1>3. \A c \in Client : Knows(c)
  BY <1>2, Zenon DEF Knows
<1> QED BY <1>1, <1>3, Zenon DEF Fresh, JudgedInv, JudgedAsServed, SessionsOfOpen, Replicas0

\* A start finds the disk as a crash or a shutdown left it.
LEMMA ForgetsKeep ==
    ASSUME Inv, Forgets, NEW kept, db' = Opened(kept), db.disk \subseteq kept, acked' \subseteq kept
    PROVE  Inv'
<1>1. /\ db'.disk = kept /\ db'.seen = kept /\ db'.batch = {} /\ StoreOK(db')
  BY OpenedIs, Zenon
<1>2. /\ UNCHANGED <<case, flushed>> /\ author' = [author EXCEPT !.step = "check"]
  BY Zenon DEF Forgets
<1>3. DOMAIN author = {"step", "file", "made"} /\ AuthorNamed /\ "ids" \in DOMAIN used /\ used.ids \in Nat
  BY Zenon DEF Inv, AuthorInv, JudgedInv
<1>4. /\ DOMAIN author' = DOMAIN author /\ author'.file = author.file
      /\ author'.step \notin {"imported", "flushed"}
  BY <1>2, <1>3
<1>5. AuthorInv'
  BY <1>1, <1>3, <1>4, Zenon DEF AuthorInv, AuthorNamed
<1>6. StoreInv' /\ (DurableInv => DurableInv')
  BY <1>1, <1>2, Zenon DEF Inv, StoreInv, DurableInv
<1>7. used' = [used EXCEPT !.crashes = @ + 1, !.fails = 0] /\ replicas' = [s \in Store |-> Closed0]
  BY Zenon DEF Forgets
<1>8. "ids" \in DOMAIN used' /\ used'.ids \in Nat
  BY <1>3, <1>7
<1>9. replicas' \in Replicas0
  BY <1>7 DEF Replicas0, Closed0
<1>10. Fresh'
  BY <1>8, <1>9, Zenon DEF Fresh, Forgets, Replicas0, Idle
<1>11. JudgedInv'
  BY <1>10, FreshJudged, PTL
<1> QED BY <1>5, <1>6, <1>11, Zenon DEF Inv

LEMMA CrashKeeps == ASSUME Inv, Crash PROVE Inv'
<1>1. PICK kept : kept = db.disk
  OBVIOUS
<1>2. db' = Opened(kept) /\ acked' \subseteq kept /\ db.disk \subseteq kept /\ Forgets
  BY <1>1, Zenon DEF Crash, Crashed
<1> QED BY <1>2, ForgetsKeep, Zenon

LEMMA ShutdownKeeps == ASSUME Inv, Shutdown PROVE Inv'
<1>1. PICK fails \in Failing("timer", CommitsOrSyncs(db)) :
        db' = Crashed(Flush(db, fails).db) /\ acked' = acked \cap Crashed(Flush(db, fails).db).disk
  BY Zenon DEF Shutdown
<1>2. fails \in BOOLEAN
  BY FailingIs, Zenon DEF Inv
<1>3. PICK d : d = db
  OBVIOUS
<1>4. PICK r : r = Flush(d, fails)
  OBVIOUS
<1>5. StoreOK(d)
  BY <1>3, Zenon DEF Inv, StoreInv
<1>6. Carries(d, r.db, {})
  BY <1>2, <1>4, <1>5, FlushIs, Zenon
<1>7. PICK kept : kept = r.db.disk
  OBVIOUS
<1>8. db.disk \subseteq kept /\ db' = Opened(kept)
  BY <1>1, <1>3, <1>4, <1>6, <1>7, Zenon DEF Carries, Crashed
<1>9. acked' \subseteq kept
  BY <1>1, <1>3, <1>4, <1>7, OpenedIs, Zenon DEF Crashed
<1> QED BY <1>8, <1>9, ForgetsKeep, Zenon DEF Shutdown

LEMMA InitInv == Init => Inv
<1> SUFFICES ASSUME Init PROVE Inv
  OBVIOUS
<1>1. PICK kept : kept = IF Setting.fresh THEN {} ELSE Names
  BY Zenon
<1>2. db = Opened(kept) /\ case \in DOMAIN Cases
  BY <1>1, Zenon DEF Init
<1>3. /\ db.disk = kept /\ db.seen = kept /\ db.batch = {} /\ StoreOK(db)
  BY <1>2, OpenedIs, Zenon
<1>4. author = IF Setting.fresh THEN [step |-> "check", file |-> -1, made |-> -1]
               ELSE [step |-> "loaded", file |-> 0, made |-> 0]
  BY Zenon DEF Init
<1>5. /\ DOMAIN author = {"step", "file", "made"} /\ author.step \notin {"imported", "flushed"}
      /\ author.file = IF Setting.fresh THEN -1 ELSE 0
  BY <1>4
<1>6. AuthorInv
  BY <1>1, <1>3, <1>5, Zenon DEF AuthorInv, AuthorNamed, Names
<1>7. StoreInv /\ DurableInv
  BY <1>2, <1>3, Zenon DEF StoreInv, DurableInv, Init
<1>8. replicas = [s \in Store |-> IF Setting.fresh THEN Closed0 ELSE [handles |-> 1, sync |-> TRUE]]
  BY Zenon DEF Init
<1>9. replicas \in Replicas0
  BY <1>8 DEF Replicas0, Closed0
<1>10. used.ids = 0 /\ "ids" \in DOMAIN used
  BY Zenon DEF Init
<1>11. Fresh
  BY <1>9, <1>10, Zenon DEF Fresh, Init
<1> QED BY <1>6, <1>7, <1>11, FreshJudged, Zenon DEF Inv

LEMMA StepInv == Inv /\ [Next]_vars => Inv'
<1> SUFFICES ASSUME Inv, [Next]_vars PROVE Inv'
  BY Zenon
<1>1. CASE Top \/ SweepFallsDue \/ Start \/ Deliver
  BY <1>1, TopKeeps
<1>2. CASE CommitOnTimer
  BY <1>2, TimerKeeps
<1>3. CASE BatchAges \/ SyncFallsDue
  BY <1>3, AgesKeep
<1>4. ASSUME NEW s \in Store, InsertLocal(s) \/ ImportNamespace(s) \/ Open(s, TRUE) \/ Close(s) \/ DropReplica(s)
      PROVE  Inv'
  <2>1. PICK t \in BOOLEAN : t = TRUE
    BY Zenon
  <2> QED BY <1>4, <2>1, InsertKeeps, ImportKeeps, OpenKeeps, CloseKeeps, DropKeeps, Zenon
<1>5. CASE Ask \/ \E s \in Store : LeaveStore(s)
  BY <1>5, AskKeeps
<1>6. CASE FlushStore \/ GetMany \/ RemoteMembership \/ AnswerLive
  BY <1>6, FlushStoreKeeps, GetManyKeeps, RemoteKeeps, AnswerKeeps
<1>7. ASSUME NEW p \in Peer, RegisterUsefulPeer(p) PROVE Inv'
  BY <1>7, RegisterKeeps
<1>8. ASSUME NEW c \in Client,
             \/ ReadCount(c) \/ ReadEntries(c) \/ SyncSessionStart(c)
             \/ SyncProcessMessage(c) \/ DropSession(c)
      PROVE  Inv'
  BY <1>8, ReadCountKeeps, ReadEntriesKeeps, StartKeeps, MessageKeeps, DropSessionKeeps
<1>9. ASSUME NEW i \in released, SyncSessionEnd(i) PROVE Inv'
  BY <1>9, EndKeeps
<1>10. CASE LoadNamed \/ ImportAuthor \/ FlushAuthor \/ PersistAuthor
  BY <1>10, LoadNamedKeeps, ImportAuthorKeeps, FlushAuthorKeeps, PersistKeeps
<1>11. CASE Shutdown \/ Crash
  BY <1>11, ShutdownKeeps, CrashKeeps
<1>12. CASE UNCHANGED vars
  <2>1. UNCHANGED <<case, db, author, failed, acked, flushed, client, count, replicas, sessions, used>>
    BY <1>12, Zenon DEF vars, mem
  <2> QED BY <2>1, SameIds, StillKept, Zenon
<1> QED
  BY <1>1, <1>2, <1>3, <1>4, <1>5, <1>6, <1>7, <1>8, <1>9, <1>10, <1>11, <1>12, Zenon DEF Next

LEMMA AlwaysInv == Spec => []Inv
BY InitInv, StepInv, PTL DEF Spec

-----------------------------------------------------------------------------
\* Where a commit made for a reader does not fail, what a flush promised is on
\* disk, through crashes, failed commits and restarts (DocsApi::flush,
\* failed_commit).
THEOREM FlushedAlwaysDurable == ASSUME ReadersCommit PROVE Spec => []FlushedIsDurable
<1>1. Inv => FlushedIsDurable
  BY Zenon DEF Inv, DurableInv, FlushedIsDurable
<1> QED BY <1>1, AlwaysInv, PTL

\* The default author's file never names an author the store lost
\* (DefaultAuthorStorage::load).
THEOREM AuthorAlwaysNamed == Spec => []AuthorNamed
<1>1. Inv => AuthorNamed
  BY Zenon DEF Inv, AuthorInv
<1> QED BY <1>1, AlwaysInv, PTL

\* A session opened as "unwritten" serves an open replica under the decision made
\* on the membership entries of its own snapshot
\* (sync_session_start_unless_written).
THEOREM JudgedAlwaysServed == Spec => []JudgedAsServed
<1>1. Inv => JudgedAsServed
  BY Zenon DEF Inv, JudgedInv
<1> QED BY <1>1, AlwaysInv, PTL
=============================================================================
