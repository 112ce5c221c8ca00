------------------------------ MODULE Records -------------------------------
(***************************************************************************)
(* The records of a pod: what a device writes (put_record,                 *)
(* put_record_streamed and append_op of pdn-node/src/pods.rs), what it      *)
(* reads (data-layer/src/pod/record_view.rs), whom it serves its record    *)
(* store to, what a leave flushes before it departs (flush_pod and         *)
(* PodFlush of data-layer/src/node.rs), and what a killed device forgets.  *)
(*                                                                         *)
(* One identity, Guest, leaves, is removed and comes back; the others stay *)
(* members.  Its chain is one line of events, of which a device holds a    *)
(* prefix: which of two concurrent events counts is the subject of         *)
(* PodMembership.  A write's stamp stands for its timestamp, its payload's *)
(* hash and, of a fresh record, its random id.                             *)
(***************************************************************************)
EXTENDS Naturals, Sequences, FiniteSets, FiniteSetsExt

CONSTANTS Devices, IdentityOf, Guest, Cases, None

ASSUME RecordsAssumption ==
    /\ IsFiniteSet(Devices)
    /\ \E d \in Devices : IdentityOf[d] = Guest
    /\ \E d \in Devices : IdentityOf[d] # Guest

VARIABLES
    case,      \* which of Cases this behaviour is
    chain,     \* Guest's events in order: whether each leaves it a member
    run,       \* how many of them each device's membership store holds
    holds,     \* whether the device holds the pod's record store
    recs,      \* the record store's entries
    disk,      \* those of them a kill leaves
    blobs,     \* the payloads of each device's blob store
    streaming, \* a put_record_streamed past its first check
    leaving,   \* the leave of a device: where it is and what its flush saw
    sessions,  \* sessions over the record store, dialer and accepter
    knew,      \* history: what the writer of an entry knew of Guest's chain
    left       \* what the case still allows

vars == <<case, chain, run, holds, recs, disk, blobs, streaming, leaving,
          sessions, knew, left>>
stores == <<chain, run, holds, recs, disk, blobs>>

Setting == Cases[case]
Spend(what) == left[what] > 0 /\ left' = [left EXCEPT ![what] = @ - 1]
GuestDevices == {d \in Devices : IdentityOf[d] = Guest}
Pairs == {p \in Devices \X Devices : p[1] # p[2]}
NoLeave == [at |-> "no", own |-> {}, members |-> FALSE, by |-> None]

-----------------------------------------------------------------------------
\* RecordRef, RecordKey and OpId.  `op` is 0 for what is placed once.
Ref(member, kind, id) == [member |-> member, kind |-> kind, id |-> id]

\* Mutant of KeyOf: an operation's key leaves out the chain's length.
KeyWithoutRun(e) == <<e.record, e.writer, e.author, e.op>>

KeyOf(e) == <<e.record, e.writer, e.author, e.mseq, e.op>>

Entry(record, d, mseq, op, stamp) ==
    [record |-> record, writer |-> IdentityOf[d], author |-> d,
     mseq |-> mseq, op |-> op, stamp |-> stamp]

\* Of two entries under one key and author a replica keeps the newer one.
Kept(entries) ==
    {e \in entries : \A f \in entries :
        KeyOf(f) = KeyOf(e) => f.stamp <= e.stamp}

\* MemberView::state_at, on the prefix of the chain a device holds.
StateAt(identity, mseq) == identity # Guest \/ chain[mseq]
Reaches(d, identity, mseq) == identity # Guest \/ mseq <= run[d]
IsMember(d, identity) == StateAt(identity, run[d])

\* judge.  The devices of every identity are listed, and authors sign their
\* own operations, so the two verdicts about authors do not arise.
Judge(d, e) ==
    IF ~Reaches(d, e.writer, e.mseq) THEN "awaits chain"
    ELSE IF ~StateAt(e.writer, e.mseq) THEN "for nothing"
    ELSE IF e.stamp \notin blobs[d] THEN "awaits payload" ELSE "counted"

\* RecordView::new over record_entries: the entries that read.
RecordView(d) == {e \in recs[d] : Judge(d, e) = "counted"}

\* RecordView::read_entries.
ReadEntries(d, r) == {e \in RecordView(d) : e.record = r}

\* RecordView::records.
ReadRecords(d) == {e.record : e \in RecordView(d)}

\* RecordView::placed, the newest.
Placed(d, r) ==
    {e \in ReadEntries(d, r) :
        r.kind # "mergeable" /\ \A f \in ReadEntries(d, r) : f.stamp <= e.stamp}

\* RecordView::operations.
Operations(d, r) == {e \in ReadEntries(d, r) : e.op > 0}

\* RecordView::next_op_seq.
NextOpSeq(d, r) ==
    Max({0} \cup {e.op : e \in {f \in recs[d] : f.author = d /\ f.record = r}})
    + 1

\* require_member on the view of a pod that is held whole.
RequireMember(d) == holds[d] /\ IsMember(d, IdentityOf[d])

\* What the reading calls answer: `said` is "ok" or the error.
Answer(d, wrong, entries) ==
    IF ~RequireMember(d) THEN [said |-> "not a member", entries |-> {}]
    ELSE IF wrong THEN [said |-> "wrong kind", entries |-> {}]
    ELSE [said |-> "ok", entries |-> entries]

\* list_records.
ListRecords(d) == IF RequireMember(d) THEN ReadRecords(d) ELSE {}

\* read and read_streamed, through read_pod_record.
Read(d, r) == Answer(d, r.kind = "mergeable", Placed(d, r))

\* read_ops, through read_pod_operations: a record none of whose operations
\* read is unknown.
ReadOps(d, r) ==
    LET answer == Answer(d, r.kind # "mergeable", Operations(d, r))
    IN IF answer.said = "ok" /\ answer.entries = {}
       THEN [answer EXCEPT !.said = "unknown record"] ELSE answer

-----------------------------------------------------------------------------
Stamp == Cardinality(knew) + 1

\* writer: the point of its chain a member writes at.
Mseq(d) == IF IdentityOf[d] = Guest THEN run[d] ELSE 1

\* write_pod_entry on the record store: the payload is the blob store's, the
\* entry lands in the write batch.
Write(d, e) ==
    /\ recs' = [recs EXCEPT ![d] = Kept(@ \cup {e})]
    /\ blobs' = [blobs EXCEPT ![d] = @ \cup {e.stamp}]
    /\ knew' = knew \cup {[entry |-> e, at |-> run[d]]}
    /\ UNCHANGED <<chain, run, holds, disk>>

\* fresh_record_key.
FreshRecord(d, kind) ==
    Entry(Ref(IdentityOf[d], kind, Stamp), d, Mseq(d),
          IF kind = "mergeable" THEN 1 ELSE 0, Stamp)

\* put_record, whole under the runtime's lock.
PutRecord(d, kind) ==
    /\ Spend("puts")
    /\ RequireMember(d)
    /\ Write(d, FreshRecord(d, kind))
    /\ UNCHANGED <<case, streaming, leaving, sessions>>

\* append_op, whole under the runtime's lock.
AppendOp(d, r) ==
    /\ Spend("appends")
    /\ RequireMember(d)
    /\ r.kind = "mergeable"
    /\ r \in ReadRecords(d)
    /\ Write(d, Entry(r, d, Mseq(d), NextOpSeq(d, r), Stamp))
    /\ UNCHANGED <<case, streaming, leaving, sessions>>

\* put_record_streamed up to the import: refused before a byte is read.
StreamBegins(d) ==
    /\ Spend("streams")
    /\ streaming[d] = "no"
    /\ RequireMember(d)
    /\ streaming' = [streaming EXCEPT ![d] = "checked"]
    /\ UNCHANGED <<case, stores, leaving, sessions, knew>>

\* import_payload, outside the lock: whole, or an error ends the call.
StreamImports(d) ==
    /\ streaming[d] = "checked"
    /\ \E end \in {"imported", "no"} :
          streaming' = [streaming EXCEPT ![d] = end]
    /\ UNCHANGED <<case, stores, leaving, sessions, knew, left>>

\* Mutant of WriterStill: the check of before the import is taken for good.
WriterBefore(d) == holds[d]

WriterStill(d) == RequireMember(d)

\* put_record_streamed once the payload is imported: checked again, written.
StreamEnds(d) ==
    /\ streaming[d] = "imported"
    /\ streaming' = [streaming EXCEPT ![d] = "no"]
    /\ \/ WriterStill(d) /\ Write(d, FreshRecord(d, "claim"))
       \/ ~WriterStill(d) /\ UNCHANGED <<stores, knew>>
    /\ UNCHANGED <<case, leaving, sessions, left>>

-----------------------------------------------------------------------------
\* A membership exchange of two devices: the shorter chain takes the longer.
\* One that began after a leave's flush did is what the flush waits for.
MembershipMet(d, a) ==
    /\ run' = [x \in Devices |-> IF x \in {d, a} THEN Max({run[d], run[a]})
                                 ELSE run[x]]
    /\ leaving' = [x \in Devices |->
           IF x \in {d, a} /\ leaving[x].at = "flushes"
              /\ \E y \in {d, a} : IdentityOf[y] # IdentityOf[x]
           THEN [leaving[x] EXCEPT !.members = TRUE] ELSE leaving[x]]
    /\ run' # run \/ leaving' # leaving
    /\ UNCHANGED <<case, chain, holds, recs, disk, blobs, streaming, sessions,
                   knew, left>>

\* classify_pod and serve_pod on a record store: a sibling's device, and a
\* current member's unless the own identity departed.
ServesRecords(x, y) ==
    \/ IdentityOf[x] = IdentityOf[y]
    \/ IsMember(x, IdentityOf[y]) /\ IsMember(x, IdentityOf[x])

\* unserved: a dialer that serves the callee nothing takes what devices of
\* current members signed, and nothing once its own identity departed.
TakenUnserved(d) ==
    IF IsMember(d, IdentityOf[d])
    THEN {x \in Devices : IsMember(d, IdentityOf[x])} ELSE {}

\* A dial freezes its snapshot and then decides.  One of two crossed dials is
\* refused (SyncSessions).
DialOpens(d, a) ==
    /\ Spend("dials")
    /\ holds[d] /\ holds[a]
    /\ sessions[<<d, a>>] = None /\ sessions[<<a, d>>] = None
    /\ sessions' = [sessions EXCEPT ![<<d, a>>] =
           [at |-> "dialed",
            sends |-> IF ServesRecords(d, a) THEN recs[d] ELSE {},
            takes |-> IF ServesRecords(d, a) THEN Devices ELSE TakenUnserved(d),
            answers |-> {}, read |-> 0,
            since |-> {x \in {d, a} : leaving[x].at = "flushes"}]]
    /\ UNCHANGED <<case, stores, streaming, leaving, knew>>

\* The accept's decision, and what of the membership store it rests on.
AcceptDecides(d, a) ==
    /\ sessions[<<d, a>>] # None /\ sessions[<<d, a>>].at = "dialed"
    /\ \/ /\ holds[a] /\ ServesRecords(a, d)
          /\ sessions' = [sessions EXCEPT ![<<d, a>>].at = "judged",
                                          ![<<d, a>>].read = run[a]]
       \/ /\ ~(holds[a] /\ ServesRecords(a, d))
          /\ sessions' = [sessions EXCEPT ![<<d, a>>] = None]
    /\ UNCHANGED <<case, stores, streaming, leaving, knew, left>>

\* Mutant of DecisionHolds: the decision is not asked for again.
DecisionHoldsAnyway(s, a, d) == TRUE

\* The second question of an accept: nothing was written to the membership
\* store since the decision was read, or it is the same once more.
DecisionHolds(s, a, d) == s.read = run[a] \/ ServesRecords(a, d)

\* The accept freezes its snapshot, asking again where the decision moved.
AcceptOpens(d, a) ==
    /\ sessions[<<d, a>>] # None /\ sessions[<<d, a>>].at = "judged"
    /\ \/ /\ holds[a] /\ DecisionHolds(sessions[<<d, a>>], a, d)
          /\ sessions' = [sessions EXCEPT ![<<d, a>>].at = "runs",
                                          ![<<d, a>>].answers = recs[a]]
       \/ /\ ~(holds[a] /\ DecisionHolds(sessions[<<d, a>>], a, d))
          /\ sessions' = [sessions EXCEPT ![<<d, a>>] = None]
    /\ UNCHANGED <<case, stores, streaming, leaving, knew, left>>

\* SyncFinished with `started` no earlier than the flush.
Since(s, x) == x \in s.since

\* Both ends finish.  A store dropped meanwhile takes nothing.  The flush of a
\* leaving device takes the first such session with another identity's device.
SessionEnds(d, a) ==
    LET s == sessions[<<d, a>>]
    IN /\ s # None /\ s.at = "runs"
       /\ holds[d] /\ holds[a]
       /\ sessions' = [sessions EXCEPT ![<<d, a>>] = None]
       /\ recs' = [recs EXCEPT
              ![a] = Kept(@ \cup s.sends),
              ![d] = Kept(@ \cup {e \in s.answers : e.author \in s.takes})]
       /\ leaving' = [x \in Devices |->
              LET other == IF x = d THEN a ELSE d
              IN IF x \in {d, a} /\ leaving[x].at = "flushes"
                    /\ leaving[x].by = None /\ Since(s, x)
                    /\ IdentityOf[other] # IdentityOf[x]
                 THEN [leaving[x] EXCEPT !.by = other] ELSE leaving[x]]
       /\ UNCHANGED <<case, chain, run, holds, disk, blobs, streaming, knew,
                      left>>

\* A session over a store one end dropped fails, and so may any other.
SessionFails(d, a) ==
    /\ sessions[<<d, a>>] # None
    /\ \/ ~(holds[d] /\ holds[a]) /\ UNCHANGED left
       \/ Spend("cuts")
    /\ sessions' = [sessions EXCEPT ![<<d, a>>] = None]
    /\ UNCHANGED <<case, stores, streaming, leaving, knew>>

\* A payload an entry names is fetched from a device that has it (Fetches).
PayloadArrives(d, a) ==
    /\ \E e \in recs[d] :
          /\ e.stamp \in blobs[a] \ blobs[d]
          /\ blobs' = [blobs EXCEPT ![d] = @ \cup {e.stamp}]
    /\ UNCHANGED <<case, chain, run, holds, recs, disk, streaming, leaving,
                   sessions, knew, left>>

-----------------------------------------------------------------------------
\* own_payloads: the identity's own entries this device holds.
Own(d) == {e \in recs[d] : e.writer = IdentityOf[d]}

\* flush_pod: devices of the other members are dialed; the wait is for
\* sessions that begin from here on, and for the payloads held here.
Flush(d) == [NoLeave EXCEPT !.at = "flushes", !.own = Own(d)]

\* act, of a leave: checked under the lock, then the flush begins, outside it.
LeaveBegins(d) ==
    /\ Spend("leaves")
    /\ leaving[d].at = "no"
    /\ IdentityOf[d] = Guest /\ RequireMember(d)
    /\ leaving' = [leaving EXCEPT ![d] = Flush(d)]
    /\ sessions' = [p \in Pairs |->
           IF sessions[p] = None THEN None
           ELSE [sessions[p] EXCEPT !.since = @ \ {d}]]
    /\ UNCHANGED <<case, stores, streaming, knew>>

\* Mutant of HeldBy: the sessions alone are waited for.
HeldByUnasked(own, peer) == TRUE

\* FlushedPayloads::held_by: the device answers that it has every payload.
HeldBy(own, peer) == {e.stamp : e \in own} \subseteq blobs[peer]

\* PodFlush::wait answers: true once both stores' sessions went through and
\* the payloads are held, false when its time runs out before.
FlushEnds(d) ==
    /\ leaving[d].at = "flushes"
    /\ \/ /\ leaving[d].members /\ leaving[d].by # None
          /\ HeldBy(leaving[d].own, leaving[d].by)
          /\ leaving' = [leaving EXCEPT ![d].at = "flushed"]
       \/ leaving' = [leaving EXCEPT ![d] = [NoLeave EXCEPT !.at = "unflushed"]]
    /\ UNCHANGED <<case, stores, streaming, sessions, knew, left>>

\* forget_pod: the record store is dropped, with the sessions over it; the
\* membership store stays as the tombstone.
Forget(d) ==
    /\ holds' = [holds EXCEPT ![d] = FALSE]
    /\ recs' = [recs EXCEPT ![d] = {}]
    /\ disk' = [disk EXCEPT ![d] = {}]

\* act under the lock: checked again, then the event, depart and the second
\* flush, whose dials carry the event alone.
LeaveWrites(d) ==
    /\ leaving[d].at \in {"flushed", "unflushed"}
    /\ leaving' = [leaving EXCEPT ![d] = NoLeave]
    /\ \/ /\ IdentityOf[d] = Guest /\ RequireMember(d)
          /\ run[d] = Len(chain)
          /\ chain' = Append(chain, FALSE)
          /\ run' = [run EXCEPT ![d] = @ + 1]
          /\ Forget(d)
       \/ ~RequireMember(d) /\ UNCHANGED <<chain, run, holds, recs, disk>>
    /\ UNCHANGED <<case, blobs, streaming, sessions, knew, left>>

\* The notice consumer's settling of a device whose own view says it departed.
Settles(d) ==
    /\ holds[d] /\ ~IsMember(d, IdentityOf[d])
    /\ Forget(d)
    /\ UNCHANGED <<case, chain, run, blobs, streaming, leaving, sessions, knew,
                   left>>

\* Another member removes Guest.
Removes(d) ==
    /\ Spend("removes")
    /\ IdentityOf[d] # Guest /\ run[d] = Len(chain) /\ chain[run[d]]
    /\ chain' = Append(chain, FALSE)
    /\ run' = [run EXCEPT ![d] = @ + 1]
    /\ UNCHANGED <<case, holds, recs, disk, blobs, streaming, leaving, sessions,
                   knew>>

\* Guest's device joins anew through d: the inviter writes the event, the
\* joiner imports an empty record store.
Rejoins(d, g) ==
    /\ Spend("rejoins")
    /\ IdentityOf[d] # Guest /\ IdentityOf[g] = Guest
    /\ run[d] = Len(chain) /\ ~chain[run[d]]
    /\ ~holds[g]
    /\ chain' = Append(chain, TRUE)
    /\ run' = [run EXCEPT ![d] = @ + 1]
    /\ holds' = [holds EXCEPT ![g] = TRUE]
    /\ UNCHANGED <<case, recs, disk, blobs, streaming, leaving, sessions, knew>>

\* The write batch reaches the disk.
BatchSettles(d) ==
    /\ left["kills"] > 0 /\ disk[d] # recs[d]
    /\ disk' = [disk EXCEPT ![d] = recs[d]]
    /\ UNCHANGED <<case, chain, run, holds, recs, blobs, streaming, leaving,
                   sessions, knew, left>>

\* The process is killed and starts again: what the batch held is gone, what
\* a session's snapshot committed of it unsynced included.
Killed(d) ==
    /\ Spend("kills")
    /\ recs' = [recs EXCEPT ![d] = disk[d]]
    /\ streaming' = [streaming EXCEPT ![d] = "no"]
    /\ leaving' = [leaving EXCEPT ![d] = NoLeave]
    /\ sessions' = [p \in Pairs |-> IF d \in {p[1], p[2]} THEN None
                                    ELSE sessions[p]]
    /\ UNCHANGED <<case, chain, run, holds, disk, blobs, knew>>

-----------------------------------------------------------------------------
\* A mergeable document of another member, which every device reads.
First == LET host == CHOOSE d \in Devices : IdentityOf[d] # Guest
         IN Entry(Ref(IdentityOf[host], "mergeable", 0), host, 1, 1, 0)

Init ==
    /\ case \in DOMAIN Cases
    /\ left = Setting.allows
    /\ chain = <<TRUE>>
    /\ run = [d \in Devices |-> 1]
    /\ holds = [d \in Devices |-> TRUE]
    /\ recs = [d \in Devices |-> {First}]
    /\ disk = [d \in Devices |-> {First}]
    /\ blobs = [d \in Devices |-> {0}]
    /\ streaming = [d \in Devices |-> "no"]
    /\ leaving = [d \in Devices |-> NoLeave]
    /\ sessions = [p \in Pairs |-> None]
    /\ knew = {}

Writes(d) ==
    \/ \E kind \in Setting.kinds : PutRecord(d, kind)
    \/ \E r \in ReadRecords(d) : AppendOp(d, r)
    \/ StreamBegins(d) \/ StreamImports(d) \/ StreamEnds(d)

Goes(d) ==
    \/ LeaveBegins(d) \/ FlushEnds(d) \/ LeaveWrites(d)
    \/ Settles(d) \/ Removes(d)
    \/ BatchSettles(d) \/ Killed(d)

Meets(d, a) ==
    \/ MembershipMet(d, a) \/ PayloadArrives(d, a) \/ Rejoins(d, a)
    \/ DialOpens(d, a) \/ AcceptDecides(d, a) \/ AcceptOpens(d, a)
    \/ SessionEnds(d, a) \/ SessionFails(d, a)

Next ==
    \/ \E d \in Devices : d \in Setting.writers /\ Writes(d)
    \/ \E d \in Devices : d \in Setting.awake /\ Goes(d)
    \/ \E p \in Pairs :
          {p[1], p[2]} \subseteq Setting.awake /\ Meets(p[1], p[2])

Spec == Init /\ [][Next]_vars

-----------------------------------------------------------------------------
\* append_op and next_op_seq: two operations that devices hold never share a
\* key, so none is replaced by a later one when the devices meet, through
\* leaves, returns to an empty store and sessions in any order.
OneWritePerKey ==
    \A d, x \in Devices : \A e \in recs[d], f \in recs[x] :
        KeyOf(e) = KeyOf(f) => e = f

\* writer, judge and the reading calls: what a device wrote under its check is
\* listed and read on every member's device that holds it, its payload and the
\* chain up to the point it names, whatever became of its writer since.
WrittenCounts ==
    \A k \in knew, d \in Devices :
        LET e == k.entry
            answer == IF e.record.kind = "mergeable"
                      THEN ReadOps(d, e.record) ELSE Read(d, e.record)
        IN (/\ RequireMember(d)
            /\ e \in recs[d] /\ e.stamp \in blobs[d]
            /\ Reaches(d, e.writer, e.mseq))
           => /\ e.record \in ListRecords(d)
              /\ answer.said = "ok" /\ e \in answer.entries

\* flush_pod and PodFlush::wait: a flush that answered true left every entry
\* of the leaving identity held as it began, with its payload, on one device
\* of another member, so the departure that drops the store loses none.
FlushedIsHeld ==
    \A d \in Devices : leaving[d].at = "flushed" =>
        LET p == leaving[d].by
        IN \A e \in leaving[d].own : e \in recs[p] /\ e.stamp \in blobs[p]

\* serve_pod, unserved and the accept's second question: a record written by a
\* device that already counted Guest as departed is on no device of Guest
\* unless Guest joined again after it.
NoneAfterRemoval ==
    \A d \in GuestDevices, k \in knew :
        (k.entry \in recs[d] /\ k.entry.writer # Guest /\ ~chain[k.at])
        => \E j \in DOMAIN chain : j > k.at /\ chain[j]
=============================================================================
