---------------------------- MODULE PodHoldings -----------------------------
(***************************************************************************)
(* What a device holds of a pod for an identity, through kills: the pod    *)
(* created here or joined (create_to_record, join_with and                 *)
(* join_via_dialogue of pdn-node/src/pods.rs), its record and tickets in   *)
(* the PMS, the departure, and the armer's sweep that opens again what the *)
(* PMS records (arm_pods, settle_pod).                                     *)
(*                                                                         *)
(* The PMS and the pod's stores are replicas of one database, whose write  *)
(* batch reaches the disk in order; payloads are another store's.  The     *)
(* identity's chain is one line of events, of which the membership replica *)
(* here holds a prefix: concurrent events are the subject of PodMembership. *)
(***************************************************************************)
EXTENDS Naturals, Sequences, FiniteSets, FiniteSetsExt

CONSTANT Cases

\* What a case allows so many times.
Budgets == {"creates", "joins", "leaves", "failed_leaves", "sibling_leaves",
            "removes", "fails", "cancels", "kills"}

\* A pod created on this device is not one another member invites it to: its
\* name is made by the create.
ASSUME CasesAssumption ==
    \A c \in DOMAIN Cases :
        Cases[c] \in [Budgets -> Nat] /\ (Cases[c].creates = 0 \/ Cases[c].joins = 0)

VARIABLES
    case,      \* which of Cases this behaviour is
    chain,     \* the identity's events at the members: whether each admits it
    docs,      \* the identity's database
    disk,      \* what of it a kill leaves
    payloads,  \* the payloads of the PMS's tickets
    paid,      \* those of them a kill leaves
    bound,     \* the registry's binding: "none", "tombstone" or "whole"
    call,      \* the create or the join under way
    inflight,  \* joining_in_flight holds the pod
    left       \* what the case still allows

vars == <<case, chain, docs, disk, payloads, paid, bound, call, inflight, left>>
durable == <<disk, paid>>

Setting == Cases[case]
Spend(what) == left[what] > 0 /\ left' = [left EXCEPT ![what] = @ - 1]
NoCall == [of |-> "none", at |-> "no", put |-> 0, seq |-> 0]

\* A call that holds the runtime's lock.
Locked == call.of = "create" \/ call.at \in {"tickets", "flush", "record"}

-----------------------------------------------------------------------------
\* The kinds record_pod puts tickets under, in order: the own tickets to both
\* stores, and after a join the inviter's.
TicketKinds(of) ==
    IF of = "create" THEN <<"membership", "records">>
    ELSE <<"membership", "records", "inviter_membership", "inviter_records">>

\* pod_record: the highest sequence recorded, a tombstone outweighing.
PodRecord(recorded) ==
    CHOOSE r \in recorded :
        \A s \in recorded : s.seq < r.seq \/ (s.seq = r.seq /\ (r.held => s.held))
Recorded == docs.recorded # {}
Record == PodRecord(docs.recorded)

\* get_ticket answers none while a payload is not readable.
Readable(kinds) == kinds \subseteq docs.tickets \cap payloads

\* The identity as the membership view of a replica held here shows it.
Own == bound # "none" /\ docs.run > 0
OwnMember == Own /\ chain[docs.run]

\* holds: the record decides while the chain here is short of it.
Holds ==
    IF Own /\ (Recorded => docs.run >= Record.seq) THEN OwnMember
    ELSE Recorded /\ Record.held

-----------------------------------------------------------------------------
\* flush_stores: entries and payloads.
FlushStores == disk' = docs /\ paid' = payloads

\* import_pod: both stores for a pod not held, the record store for a
\* tombstone, nothing new for a pod held.
ImportPod ==
    /\ docs' = [docs EXCEPT !.stores = {"membership", "records"}]
    /\ bound' = "whole"

\* open_pod_tombstone.
ImportTombstone ==
    /\ docs' = [docs EXCEPT !.stores = @ \cup {"membership"}]
    /\ bound' = "tombstone"

\* forget_pod.
ForgetPod(d) == [d EXCEPT !.stores = @ \ {"records"}]

\* tombstone_pod.
Tombstoned(d, seq) ==
    [d EXCEPT !.recorded = {r \in @ : r.seq # seq} \cup {[seq |-> seq, held |-> FALSE]}]

\* depart: the tombstone in the PMS, then the record store forgotten.  Both
\* only land in the batch, and either may fail.
Depart(d, seq) == docs' = ForgetPod(Tombstoned(d, seq)) /\ bound' = "tombstone"
DepartFails(d, seq) == docs' \in {d, Tombstoned(d, seq)} /\ UNCHANGED bound

-----------------------------------------------------------------------------
\* create_pod, the first step of create_to_record: both stores or neither.
CreateBegins ==
    /\ call.of = "none" /\ Spend("creates")
    /\ chain = <<>>
    /\ docs' = [docs EXCEPT !.stores = {"membership", "records"}]
    /\ bound' = "whole"
    /\ call' = [NoCall EXCEPT !.of = "create", !.at = "event"]
    /\ UNCHANGED <<case, chain, durable, payloads, inflight>>

\* The created event and the device statement, each on disk as it is written.
CreatedWritten ==
    /\ call.at = "event"
    /\ chain' = <<TRUE>>
    /\ docs' = [docs EXCEPT !.run = 1]
    /\ disk' = docs' /\ paid' = payloads
    /\ call' = [call EXCEPT !.at = "tickets", !.seq = 1]
    /\ UNCHANGED <<case, payloads, bound, inflight, left>>

\* put_ticket, of the next kind.
PutTicket ==
    /\ call.at = "tickets"
    /\ LET kind == TicketKinds(call.of)[call.put + 1]
       IN /\ docs' = [docs EXCEPT !.tickets = @ \cup {kind}]
          /\ payloads' = payloads \cup {kind}
    /\ call' = [call EXCEPT !.put = @ + 1,
           !.at = IF call.put + 1 = Len(TicketKinds(call.of)) THEN "flush" ELSE @]
    /\ UNCHANGED <<case, chain, durable, bound, inflight, left>>

\* Mutant of TicketsFlush: the tickets only land in the batch.
TicketsUnflushed ==
    /\ call.at = "flush"
    /\ call' = [call EXCEPT !.at = "record"]
    /\ UNCHANGED <<case, chain, docs, durable, payloads, bound, inflight, left>>

\* record_pod between the tickets and the entry that lists the pod.
TicketsFlush ==
    /\ call.at = "flush"
    /\ FlushStores
    /\ call' = [call EXCEPT !.at = "record"]
    /\ UNCHANGED <<case, chain, docs, payloads, bound, inflight, left>>

\* record_pod of the PMS: the commit point of a create and of a join.
RecordWritten ==
    /\ call.at = "record"
    /\ docs' = [docs EXCEPT !.recorded = @ \cup {[seq |-> call.seq, held |-> TRUE]}]
    /\ call' = IF call.of = "create" THEN NoCall ELSE [call EXCEPT !.at = "import"]
    /\ UNCHANGED <<case, chain, durable, payloads, bound, inflight, left>>

\* The end of create_to_record after a failure: a pod whose record landed all
\* the same is kept, another is discarded.
CreateUndone ==
    IF Recorded THEN docs ELSE [docs EXCEPT !.stores = {}, !.run = 0]

\* A step of a create fails.  The record's write may land and answer an error;
\* where the record is not read either, nothing is discarded.
CreateFails ==
    /\ call.of = "create" /\ Spend("fails")
    /\ \/ /\ docs' = CreateUndone
          /\ bound' = IF docs'.stores = {} THEN "none" ELSE bound
          /\ call' = NoCall
       \/ /\ call.at = "record"
          /\ docs' = [docs EXCEPT !.recorded = @ \cup {[seq |-> 1, held |-> TRUE]}]
          /\ call' = [call EXCEPT !.at = "answer"]
          /\ UNCHANGED bound
       \/ /\ call' = NoCall
          /\ UNCHANGED <<docs, bound>>
    /\ UNCHANGED <<case, chain, durable, payloads, inflight>>

\* The record landed though its write answered with an error.
CreateAnswers ==
    /\ call.at = "answer"
    /\ docs' = CreateUndone
    /\ bound' = IF docs'.stores = {} THEN "none" ELSE bound
    /\ call' = NoCall
    /\ UNCHANGED <<case, chain, durable, payloads, inflight, left>>

-----------------------------------------------------------------------------
\* join_with: the pair is reserved, then the dialogue runs.
JoinBegins ==
    /\ call.of = "none" /\ ~inflight /\ Spend("joins")
    /\ inflight' = TRUE
    /\ call' = [NoCall EXCEPT !.of = "join", !.at = "dialogue"]
    /\ UNCHANGED <<case, chain, docs, durable, payloads, bound>>

\* The joiner's own history: what its replica and its PMS know of the chain.
Known == Max({0} \cup {r.seq : r \in docs.recorded}
             \cup {IF bound = "none" THEN 0 ELSE docs.run})

\* offered_seq: where the inviter counts the joiner a member, the point it
\* became one, or the next.
OfferedSeq ==
    IF chain # <<>> /\ chain[Len(chain)] THEN Len(chain) ELSE Len(chain) + 1

\* serve_join at the inviter: an offer no further than the joiner's history is
\* accepted, the joined event written unless it is there, and the tickets
\* answered.
JoinServed ==
    /\ call.at = "dialogue" /\ OfferedSeq <= Known + 1
    /\ chain' = IF OfferedSeq = Len(chain) THEN chain ELSE Append(chain, TRUE)
    /\ call' = [call EXCEPT !.at = "tickets", !.seq = OfferedSeq]
    /\ UNCHANGED <<case, docs, durable, payloads, bound, inflight, left>>

\* import of the stores, outside the lock.
JoinImports ==
    /\ call.at = "import"
    /\ ImportPod
    /\ call' = [call EXCEPT !.at = "wait"]
    /\ UNCHANGED <<case, chain, durable, payloads, inflight, left>>

\* Mutant of Releases: a dropped call leaves its reservation.
ReleasesNot(dropped) == IF dropped THEN inflight ELSE FALSE

\* JoinReservation: released on every outcome, by its Drop where the call is
\* dropped.
Releases(dropped) == FALSE

\* The wait for the catch-up ends, as it may without the join having arrived,
\* or the joiner refuses the offer.
JoinEnds ==
    /\ call.at = "wait" \/ (call.at = "dialogue" /\ OfferedSeq > Known + 1)
    /\ call' = NoCall
    /\ inflight' = Releases(FALSE)
    /\ UNCHANGED <<case, chain, docs, durable, payloads, bound, left>>

\* A step of a join fails, or its caller drops it.  The release of a dropped
\* one runs detached, and may as well be now.
JoinCut ==
    /\ call.of = "join"
    /\ \E why \in {"fails", "cancels"} :
          Spend(why) /\ inflight' = Releases(why = "cancels")
    /\ call' = NoCall
    /\ UNCHANGED <<case, chain, docs, durable, payloads, bound>>

-----------------------------------------------------------------------------
\* A session brings the events the members hold.
EventsArrive ==
    /\ bound # "none" /\ docs.run < Len(chain)
    /\ docs' = [docs EXCEPT !.run = Len(chain)]
    /\ UNCHANGED <<case, chain, durable, payloads, bound, call, inflight, left>>

\* act, of a leave: the event is on disk as it is written, the rest follows.
Leave ==
    /\ ~Locked
    /\ bound = "whole" /\ OwnMember /\ docs.run = Len(chain)
    /\ chain' = Append(chain, FALSE)
    /\ LET written == [docs EXCEPT !.run = @ + 1]
       IN /\ disk' = written /\ paid' = payloads
          /\ \/ Spend("leaves") /\ Depart(written, written.run)
             \/ Spend("failed_leaves") /\ DepartFails(written, written.run)
    /\ UNCHANGED <<case, payloads, call, inflight>>

\* Another device of the identity leaves, and the PMS tells of it first.
SiblingLeaves ==
    /\ Spend("sibling_leaves")
    /\ Recorded /\ chain # <<>> /\ chain[Len(chain)]
    /\ chain' = Append(chain, FALSE)
    /\ docs' = Tombstoned(docs, Len(chain'))
    /\ UNCHANGED <<case, durable, payloads, bound, call, inflight>>

\* A member removes the identity.
Removed ==
    /\ Spend("removes")
    /\ chain # <<>> /\ chain[Len(chain)]
    /\ chain' = Append(chain, FALSE)
    /\ UNCHANGED <<case, docs, durable, payloads, bound, call, inflight>>

\* arm_pods: what the PMS records and what is held here differ.
SweepSees == Recorded /\ (bound = "none" \/ (bound = "whole") # Record.held)

\* The notices of a derivation: a departure while the record store is held, the
\* identity a member again while only the tombstone is.
NoticeSees == Own /\ ((bound = "whole") # OwnMember)

\* open_pod and open_tombstone: nothing while a ticket is not readable.
OpenPod == bound # "whole" /\ Readable({"membership", "records"}) /\ ImportPod
OpenTombstone == bound = "none" /\ Readable({"membership"}) /\ ImportTombstone

\* settle_pod, under the lock and not beside a join of the pod.
SettlePod ==
    /\ ~Locked /\ ~inflight
    /\ SweepSees \/ NoticeSees
    /\ \/ Holds /\ OpenPod /\ UNCHANGED left
       \/ ~Holds /\ OpenTombstone /\ UNCHANGED left
       \/ /\ ~Holds /\ bound = "whole" /\ Own /\ ~OwnMember
          /\ \/ Depart(docs, docs.run) /\ UNCHANGED left
             \/ Spend("fails") /\ DepartFails(docs, docs.run)
       \/ /\ ~Holds /\ bound = "whole" /\ (Own => OwnMember)
          /\ docs' = ForgetPod(docs) /\ bound' = "tombstone"
          /\ UNCHANGED left
    /\ UNCHANGED <<case, chain, durable, payloads, call, inflight>>

\* The batch, or the payloads' store, reaches the disk by itself.
DocsSettle ==
    /\ left.kills > 0 /\ disk # docs
    /\ disk' = docs
    /\ UNCHANGED <<case, chain, docs, payloads, paid, bound, call, inflight, left>>
PayloadsSettle ==
    /\ left.kills > 0 /\ paid # payloads
    /\ paid' = payloads
    /\ UNCHANGED <<case, chain, docs, disk, payloads, bound, call, inflight, left>>

\* The process is killed and starts again with nothing opened.
Killed ==
    /\ Spend("kills")
    /\ docs' = disk /\ payloads' = paid
    /\ bound' = "none" /\ call' = NoCall /\ inflight' = FALSE
    /\ UNCHANGED <<case, chain, durable>>

-----------------------------------------------------------------------------
\* A device of a pod it has never held, with nothing in the PMS.
Init ==
    /\ case \in DOMAIN Cases
    /\ left = Setting
    /\ chain = <<>>
    /\ docs = [stores |-> {}, run |-> 0, tickets |-> {}, recorded |-> {}]
    /\ disk = docs
    /\ payloads = {} /\ paid = {}
    /\ bound = "none" /\ call = NoCall /\ inflight = FALSE

\* Steps of calls under way, of sessions and of the armer.
Progress ==
    \/ CreatedWritten \/ PutTicket \/ TicketsFlush \/ RecordWritten
    \/ CreateAnswers \/ JoinServed \/ JoinImports \/ JoinEnds
    \/ EventsArrive \/ SettlePod

\* What the host and the members do, what fails and what nothing waits for.
Chance ==
    \/ CreateBegins \/ JoinBegins \/ Leave \/ SiblingLeaves \/ Removed
    \/ CreateFails \/ JoinCut \/ DocsSettle \/ PayloadsSettle \/ Killed

Next == Progress \/ Chance

\* A call runs to its end or is cut; sessions go on; the armer sweeps at every
\* change of the PMS and every interval, the notice consumer at every notice.
Spec == Init /\ [][Next]_vars /\ WF_vars(Progress)

-----------------------------------------------------------------------------
\* record_pod writes the entry once the tickets are on disk, their payloads
\* included: a pod an entry on disk lists as held has them there.
HeldHasTickets ==
    (\E r \in disk.recorded : r.held) =>
        {"membership", "records"} \subseteq disk.tickets \cap paid

\* create_to_record reads the record before it discards: a pod created here and
\* listed on disk has its membership store with the created event there,
\* whatever step of the create failed or was killed.
CreatedIsThere ==
    Setting.creates > 0 /\ disk.recorded # {} =>
        disk.run > 0 /\ "membership" \in disk.stores

\* What the PMS lists on disk the next start can open, wherever a kill cuts a
\* create, a join or a departure (record_pod, create_to_record, start_pod).
ListedOpens == HeldHasTickets /\ CreatedIsThere

\* arm_pods, settle_pod and JoinReservation: whatever was killed, cut or failed
\* on the way, the calls and their reservations end, a pod the PMS lists and
\* the chain admits is held whole, and one the chain departed is not.
HoldingSettles ==
    <>[](/\ call = NoCall /\ ~inflight
         /\ chain # <<>> =>
               IF chain[Len(chain)] THEN Recorded /\ Record.held => bound = "whole"
               ELSE bound # "whole")
=============================================================================
