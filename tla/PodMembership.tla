--------------------------- MODULE PodMembership ----------------------------
(***************************************************************************)
(* The membership of one pod, kept by the devices of several identities that  *)
(* act on what they hold and meet in sessions: the membership acts, the join   *)
(* dialogue and what a device holds of the pod (pdn-node pods.rs), over the    *)
(* membership view and the session decisions of data-layer.                   *)
(***************************************************************************)
EXTENDS PodAccess

CONSTANTS
    Device,
    Cases         \* the situations explored, by name: see Case

Member == {Who[d] : d \in Device}

EntryType ==
    [kind : EventKind \cup {"Devices"}, subject : Member, seq : Nat, actor : Member,
     actor_seq : Nat, author : Device, names : SUBSET Device, write : Nat]

Case ==
    [founding : SUBSET EntryType,           \* the entries of the pod at the start
     openers : SUBSET Device,               \* the devices that hold the pod at the start
     acts : SUBSET ({"Promote", "Demote", "Remove", "Leave"} \X Nat),  \* taken, of whom
     joiners : SUBSET Device,               \* the devices that join
     inviters : SUBSET Device,              \* the devices that invite
     max : Nat,                             \* bound on acts and joins
     cuts : BOOLEAN,                        \* whether a session may be cut after one entry
     late : BOOLEAN,                        \* whether a payload may arrive after its entry
     faults : BOOLEAN]                      \* whether a step after a handler's first may fail

ASSUME WhoAssumption == IsFiniteSet(Device) /\ Who \in [Device -> Nat]
ASSUME CaseAssumption == \A c \in DOMAIN Cases : Cases[c] \in Case

VARIABLES
    held,      \* device -> the entries of its replica of the membership store
    paid,      \* device -> those whose payload it has
    view,      \* device -> the membership view of the two, kept as AccessBook keeps it
    holding,   \* device -> "none", "tombstone" (the membership store alone) or "both"
    pms,       \* device -> the pod's records in its replica of its identity's PMS
    join,      \* device -> its join in flight
    met,       \* device -> the departure its tombstone has met a member with, or 0
    acts,      \* acts and joins so far
    case       \* the case explored

vars == <<held, paid, view, holding, pms, join, met, acts, case>>

Setting == Cases[case]
Cuts == Setting.cuts
Late == Setting.late
Faults == Setting.faults
Joiners == Setting.joiners
NoJoin == [stage |-> "none"]

Siblings(d) == {s \in Device \ {d} : Who[s] = Who[d]}
Own(d) == MemberIn(view[d], Who[d])

Merge(S, T) ==
    {e \in S \cup T : ~\E f \in S \cup T : SameKey(e, f) /\ e.write < f.write}

Store(d, T, payloads) ==
    /\ held' = [held EXCEPT ![d] = Merge(@, T)]
    /\ paid' = [paid EXCEPT ![d] = (@ \cup payloads) \cap held'[d]]
    /\ view' = [view EXCEPT ![d] = View(held'[d], paid'[d])]

Entry(d, kind, subject, seq, actor, actor_seq, names) ==
    LET e == [kind |-> kind, subject |-> subject, seq |-> seq, actor |-> actor,
              actor_seq |-> actor_seq, author |-> d, names |-> names, write |-> 0]
        before == {f \in held[d] : SameKey(e, f)}
    IN IF before = {} THEN e
       ELSE LET f == CHOOSE f \in before : TRUE
            IN IF f.names = names THEN f ELSE [e EXCEPT !.write = f.write + 1]

Write(d, T) == Store(d, T, T)

\* The highest record of the pod in d's PMS replica, a tombstone first.
NoRecord == [seq |-> 0, held |-> FALSE, via |-> 0]
Record(d) ==
    IF pms[d] = {} THEN NoRecord
    ELSE CHOOSE r \in pms[d] : \A q \in pms[d] :
           q.seq < r.seq \/ (q.seq = r.seq /\ (q.held \/ ~r.held))

Budgeted == acts < Setting.max /\ acts' = acts + 1
-----------------------------------------------------------------------------
(***************************************************************************)
(* The acts: act_event refuses what the actor's view does not allow; act_key   *)
(* takes the sequence after the subject's run and names the actor's own.       *)
(***************************************************************************)
KindOf == [Promote |-> "Promoted", Demote |-> "Demoted", Remove |-> "Removed", Leave |-> "Left"]

ActAllowed(d, act, subject) ==
    IF act = "Leave"
    THEN /\ subject = Who[d]
         /\ OwnersIn(view[d]) = {subject} => MembersIn(view[d]) = {subject}
    ELSE /\ Own(d).owner
         /\ subject = Who[d] => act = "Promote"
         /\ MemberIn(view[d], subject).member
         /\ act = "Demote" => MemberIn(view[d], subject).owner

\* The PMS's tombstone, then the record store forgotten.
Depart(d, seq) ==
    /\ pms' = [pms EXCEPT ![d] = @ \cup {[seq |-> seq, held |-> FALSE, via |-> Who[d]]}]
    /\ holding' = [holding EXCEPT ![d] = "tombstone"]

\* The point of its own chain an actor signs from.
ActorSeq(d) == RunIn(view[d], Who[d])

Act(d, act, subject) ==
    LET seq == RunIn(view[d], subject) + 1 IN
    /\ Budgeted
    /\ holding[d] = "both" /\ Own(d).member
    /\ ActAllowed(d, act, subject)
    /\ Write(d, {Entry(d, KindOf[act], subject, seq, Who[d], ActorSeq(d), {})})
    /\ \/ act = "Leave" /\ Depart(d, seq)
       \/ (act # "Leave" \/ Faults) /\ UNCHANGED <<pms, holding>>
    /\ UNCHANGED <<join, met, case>>
-----------------------------------------------------------------------------
(***************************************************************************)
(* The join dialogue: asked, offered, written, recorded, imported.             *)
(***************************************************************************)
Stage(j, stage) == join' = [join EXCEPT ![j].stage = stage]

\* The joiner's run: of its chain in its replica, or as its PMS records it.
RunOf(j) == LET run == RunIn(view[j], Who[j])
            IN IF Record(j).seq > run THEN Record(j).seq ELSE run

Ask(j, i) ==
    /\ Budgeted
    /\ join[j] = NoJoin /\ Who[i] # Who[j]
    /\ join' = [join EXCEPT ![j] = [stage |-> "asked", inviter |-> i, run |-> RunOf(j)]]
    /\ UNCHANGED <<held, paid, view, holding, pms, met, case>>

\* Mutant of OfferedSeq: what the joiner says of its own history is not read.
OfferedSeqAsKnown(joined, known, run) ==
    [seq |-> IF joined > 0 THEN joined ELSE known + 1, write |-> joined = 0]

\* The sequence offered, and whether a joined event is to be written there.
OfferedSeq(joined, known, run) ==
    IF joined > 0 /\ run <= known
    THEN [seq |-> joined, write |-> FALSE]
    ELSE [seq |-> (IF known >= run THEN known ELSE run) + 1, write |-> TRUE]

\* The joiner takes no sequence past its own history.
Furthest(offer, run) == offer.seq <= run + 1

Offer(j) ==
    LET i == join[j].inviter
        seen == view[i]
        offer == OfferedSeq(JoinedAt(seen, Who[j]), RunIn(seen, Who[j]), join[j].run)
    IN
    /\ join[j].stage = "asked"
    /\ holding[i] = "both" /\ Own(i).member
    /\ join' = [join EXCEPT ![j] =
         IF Furthest(offer, @.run)
         THEN [stage |-> "offered", inviter |-> i, run |-> @.run, seq |-> offer.seq, write |-> offer.write,
               actor_seq |-> RunIn(seen, Who[i]), listed |-> j \in DevicesOf(paid[i], Who[j])]
         ELSE NoJoin]
    /\ UNCHANGED <<held, paid, view, holding, pms, met, acts, case>>

\* The acceptance is in: the joined event, or the statement of a device no
\* statement lists, into the inviter's replica; then the tickets.
WriteJoined(j) ==
    LET i == join[j].inviter
        joined == Entry(i, "Joined", Who[j], join[j].seq, Who[i], join[j].actor_seq, {j})
        statement == Entry(i, "Devices", Who[j], 0, Who[j], 0, {j})
    IN
    /\ join[j].stage = "offered" /\ holding[i] = "both"
    /\ Write(i, IF join[j].write THEN {joined} ELSE IF join[j].listed THEN {} ELSE {statement})
    /\ Stage(j, "written")
    /\ UNCHANGED <<holding, pms, met, acts, case>>

\* The commit point: the PMS's record, before the stores are imported.
RecordJoin(j) ==
    /\ join[j].stage = "written"
    /\ pms' = [pms EXCEPT ![j] = @ \cup 
         {[seq |-> join[j].seq, held |-> TRUE, via |-> Who[join[j].inviter]]}]
    /\ Stage(j, "recorded")
    /\ UNCHANGED <<held, paid, view, holding, met, acts, case>>

\* Both stores open, the membership store's tombstone tracked no further.
Open(d) ==
    /\ holding' = [holding EXCEPT ![d] = "both"]
    /\ met' = [met EXCEPT ![d] = 0]

Import(j) ==
    /\ join[j].stage = "recorded"
    /\ Open(j)
    /\ Stage(j, "imported")
    /\ UNCHANGED <<held, paid, view, pms, acts, case>>

\* The join returns, its wait for the catch-up over or run out; or it is cut
\* short: refused, timed out, cancelled.
EndJoin(j) ==
    /\ \/ join[j].stage = "imported"
       \/ join[j].stage # "none" /\ Faults
       \/ join[j].stage \in {"asked", "offered"} /\ holding[join[j].inviter] # "both"
       \/ join[j].stage = "asked" /\ ~Own(join[j].inviter).member
    /\ join' = [join EXCEPT ![j] = NoJoin]
    /\ UNCHANGED <<held, paid, view, holding, pms, met, acts, case>>
-----------------------------------------------------------------------------
(***************************************************************************)
(* What a device holds follows its PMS's record until the event that record    *)
(* mirrors arrives, and its membership view from there on.                     *)
(***************************************************************************)
\* Mutant of Holds: the PMS record alone is read.
HoldsByRecord(d) == Record(d).held

Holds(d) ==
    IF holding[d] # "none" /\ Who[d] \in DOMAIN view[d].p.states
    THEN IF RunIn(view[d], Who[d]) < Record(d).seq THEN Record(d).held ELSE Own(d).member
    ELSE Record(d).held

\* A notice of the derivation, or the sweep over the PMS's records.
Noticed(d) ==
    \/ holding[d] = "both" /\ Departed(view[d], Who[d])
    \/ holding[d] = "tombstone" /\ Own(d).member
    \/ pms[d] # {} /\ holding[d] # (IF Record(d).held THEN "both" ELSE "tombstone")

Settle(d) ==
    /\ join[d] = NoJoin
    /\ Noticed(d)
    /\ \/ /\ Holds(d) /\ holding[d] # "both"
          /\ Open(d) /\ UNCHANGED pms
       \/ /\ ~Holds(d) /\ holding[d] = "none"
          /\ holding' = [holding EXCEPT ![d] = "tombstone"] /\ UNCHANGED <<pms, met>>
       \/ /\ ~Holds(d) /\ holding[d] = "both"
          /\ IF Departed(view[d], Who[d]) THEN Depart(d, DepartedAt(view[d], Who[d]))
             ELSE holding' = [holding EXCEPT ![d] = "tombstone"] /\ UNCHANGED pms
          /\ UNCHANGED met
    /\ UNCHANGED <<held, paid, view, join, acts, case>>

\* A device its member's statements do not list writes the next one.
Unlisted(d) ==
    /\ join[d] = NoJoin /\ holding[d] = "both"
    /\ \/ DOMAIN view[d].p.states = {}
       \/ Own(d).member /\ d \notin DevicesOf(paid[d], Who[d])

Register(d) ==
    LET own == Who[d]
        nobody == DOMAIN view[d].p.states = {}
        version == IF nobody THEN 1 ELSE StatementVersion(paid[d], own) + 1
        names == DevicesOf(paid[d], own) \cup {d}
    IN
    /\ Unlisted(d)
    /\ Write(d, {Entry(d, "Devices", own, version, own, 0, names)})
    /\ UNCHANGED <<holding, pms, join, met, acts, case>>

\* The PMS reconciles between the devices of one identity.
SyncPms(a, b) ==
    /\ b \in Siblings(a) /\ ~(pms[a] \subseteq pms[b])
    /\ pms' = [pms EXCEPT ![b] = @ \cup pms[a]]
    /\ UNCHANGED <<held, paid, view, holding, join, met, acts, case>>
-----------------------------------------------------------------------------
(***************************************************************************)
(* Sessions on the membership store.                                          *)
(***************************************************************************)
Mode(d, peer, role) ==
    IF holding[d] = "none" THEN "Deny" ELSE Classify(view[d], paid[d], d, peer, role)

\* What to takes from what from sends it.
Passes(from, to, from_mode, to_mode) ==
    Ingest(to_mode, view[to], held[to], paid[to], to, from,
           Egress(from_mode, view[from], held[from], from, to))

Taken(a, b) == Passes(b, a, Mode(b, a, "Accept"), Mode(a, b, "Dial"))
Given(a, b) == Passes(a, b, Mode(a, b, "Dial"), Mode(b, a, "Accept"))

\* to_a of b's entries arrive at a, to_b of a's at b, with their payloads or
\* ahead of them.
Exchange(a, b, to_a, to_b) ==
    LET got == [d \in {a, b} |-> Merge(held[d], IF d = a THEN to_a ELSE to_b)]
        other == [d \in {a, b} |-> IF d = a THEN b ELSE a]
    IN
    /\ held' = [d \in Device |-> IF d \in {a, b} THEN got[d] ELSE held[d]]
    /\ \/ paid' = [d \in Device |-> IF d \in {a, b}
                                   THEN held'[d] \cap (paid[d] \cup paid[other[d]])
                                   ELSE paid[d]]
       \/ Late /\ paid' = [d \in Device |-> {e \in held'[d] : e \in paid[d] \/ e.kind \notin PayloadRead}]
    /\ view' = [d \in Device |-> IF held'[d] = held[d] /\ paid'[d] = paid[d] THEN view[d]
                                 ELSE View(held'[d], paid'[d])]

\* A tombstone that showed its departure when it met a member's device is done
\* with the members.
Meet(d, peer) ==
    IF /\ holding[d] = "tombstone" /\ Departed(view[d], Who[d])
       /\ MemberIn(view'[d], Who[peer]).member
    THEN DepartedAt(view[d], Who[d]) ELSE met[d]

Session(a, b) ==
    /\ a # b /\ holding[a] # "none" /\ Mode(b, a, "Accept") # "Deny"
    /\ Exchange(a, b, Taken(a, b), Given(a, b))
    /\ met' = [met EXCEPT ![a] = Meet(a, b), ![b] = Meet(b, a)]
    /\ UNCHANGED <<holding, pms, join, acts, case>>

\* A session cut after one entry the other end lacked.
CutSession(a, b) ==
    /\ Cuts
    /\ a # b /\ holding[a] # "none" /\ Mode(b, a, "Accept") # "Deny"
    /\ \E cut \in {<<{e}, {}>> : e \in Taken(a, b) \ held[a]}
                \cup {<<{}, {e}>> : e \in Given(a, b) \ held[b]} :
         Exchange(a, b, cut[1], cut[2])
    /\ UNCHANGED <<holding, pms, join, met, acts, case>>

\* A payload is fetched from a device that has it.
FetchPayload(d, e) ==
    /\ e \in held[d] \ paid[d] /\ \E c \in Device : e \in paid[c]
    /\ paid' = [paid EXCEPT ![d] = @ \cup {e}]
    /\ view' = [view EXCEPT ![d] = View(held[d], paid'[d])]
    /\ UNCHANGED <<held, holding, pms, join, met, acts, case>>
-----------------------------------------------------------------------------
Init ==
    /\ case \in DOMAIN Cases
    /\ held = [d \in Device |-> IF d \in Setting.openers THEN Setting.founding ELSE {}]
    /\ paid = held
    /\ view = [d \in Device |-> View(held[d], paid[d])]
    /\ holding = [d \in Device |-> IF d \in Setting.openers THEN "both" ELSE "none"]
    /\ pms = [d \in Device |-> IF d \in Setting.openers
                               THEN {[seq |-> 1, held |-> TRUE, via |-> Who[d]]} ELSE {}]
    /\ join = [d \in Device |-> NoJoin]
    /\ met = [d \in Device |-> 0]
    /\ acts = 0

JoinStep(j) == Offer(j) \/ WriteJoined(j) \/ RecordJoin(j) \/ Import(j) \/ EndJoin(j)

Next ==
    \/ \E d \in Device, a \in Setting.acts : Act(d, a[1], a[2])
    \/ \E j \in Joiners, i \in Setting.inviters : Ask(j, i)
    \/ \E j \in Joiners : JoinStep(j)
    \/ \E d \in Device : Settle(d) \/ Register(d)
    \/ \E a, b \in Device : SyncPms(a, b) \/ Session(a, b) \/ CutSession(a, b)
    \/ \E d \in Device : \E e \in held[d] : FetchPayload(d, e)

Spec == Init /\ [][Next]_vars

\* The devices d dials: its siblings, the devices of the current members its view
\* lists unless its tombstone is done with them, and those of its inviter while
\* no statement lists them.
Ticketed(d) ==
    {x \in Device \ {d} : \E r \in pms[d] : /\ r.held /\ Who[x] = r.via
                                          /\ \A q \in pms[d] : q.held => q.seq <= r.seq}

Contacts(d) ==
    LET members == MembersIn(view[d])
        listed == [m \in Member |-> DevicesOf(paid[d], m)]
        done == holding[d] = "tombstone" /\ met[d] # 0 /\ met[d] = DepartedAt(view[d], Who[d])
    IN Siblings(d) \cup
       IF done THEN {}
       ELSE UNION {listed[m] : m \in members}
              \cup {x \in Ticketed(d) : members = {} \/ (Who[x] \in members /\ x \notin listed[Who[x]])}

SessionDue(a, b) ==
    /\ b \in Contacts(a) /\ holding[a] # "none" /\ Mode(b, a, "Accept") # "Deny"
    /\ Merge(held[a], Taken(a, b)) # held[a] \/ Merge(held[b], Given(a, b)) # held[b]

\* Weak fairness, with what enables each step written out: the pass draws every
\* contact again and again, a notice is reported at every run of it, the PMS is
\* reconciled by a pass of its own, and a join's steps are timed.
Fairness ==
    /\ \A a, b \in Device :
         /\ []<>~SessionDue(a, b) \/ []<><<Session(a, b)>>_vars
         /\ WF_vars(SyncPms(a, b))
    /\ \A d \in Device :
         /\ WF_vars(Settle(d))
         /\ []<>~Unlisted(d) \/ []<><<Register(d)>>_vars
         /\ []<>(held[d] = paid[d]) \/ []<><<\E e \in held[d] : FetchPayload(d, e)>>_vars
    /\ \A j \in Device :
         []<>(join[j] = NoJoin) \/ []<><<JoinStep(j)>>_vars

FairSpec == Spec /\ Fairness
-----------------------------------------------------------------------------
Everything == UNION {held[d] : d \in Device}

\* Unmodified devices write no loop of events waiting on each other as long as
\* every session runs to its end, so no view has one to break; and their
\* concurrent demotions settle in two passes of the guard over the last owner
\* (membership_view.rs:970-975).
NoLoop == \A d \in Device : view[d].passes <= 2 /\ (~Cuts => view[d].p.rounds = 0)

\* The guard over the last owner (membership_view.rs, demotions_to_set_aside): a
\* member that a demotion took the role from, and that has not joined anew, is in
\* a pod with an owner.  Owners that leave or remove one another at once may leave
\* none: the guard reads demotions alone.
OwnerKept ==
    \A d \in Device : \A e \in view[d].counted :
        (/\ e.kind = "Demoted" /\ MemberIn(view[d], e.subject).member
         /\ ~\E f \in view[d].counted : f.kind = "Joined" /\ f.subject = e.subject /\ f.seq > e.seq)
        => OwnersIn(view[d]) # {}

\* A member whose leave a view counts is out of it until a joined event at a
\* later sequence: no promotion by an owner that had not heard of the leave, at
\* the same sequence or after, keeps it in.
DepartureStands ==
    \A d \in Device : \A e \in view[d].counted :
        (/\ e.kind = "Left"
         /\ ~\E f \in held[d] : f.kind = "Joined" /\ f.subject = e.subject /\ f.seq > e.seq)
        => ~MemberIn(view[d], e.subject).member

\* A join the inviter served admits: where all entries meet the joiner is a
\* member, whatever the inviter had not seen when it offered a sequence, unless
\* the member departed past the history the joiner reported (offered_seq: "a
\* departure the inviter has not yet seen").
JoinAdmits ==
    LET all == View(Everything, Everything) IN
    \A j \in Joiners : join[j].stage \in {"written", "recorded", "imported"} =>
        \/ MemberIn(all, Who[j]).member
        \/ \E e \in Everything : /\ e.kind \in {"Left", "Removed"} /\ e.subject = Who[j]
                                /\ e.seq > join[j].run

\* Everything settles: in the end every device that knows of the pod holds both
\* stores exactly while the pod counts its identity a member, the members'
\* devices agree on the entries, and list one another.
InStep ==
    LET all == View(Everything, Everything)
        inside == {d \in Device : pms[d] # {} /\ MemberIn(all, Who[d]).member}
    IN /\ \A d \in Device : pms[d] # {} => ((holding[d] = "both") <=> (d \in inside))
       /\ \A a, b \in inside : held[a] = held[b] /\ a \in DevicesOf(paid[b], Who[a])

Settles == <>[]InStep
=============================================================================
