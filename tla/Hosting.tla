------------------------------ MODULE Hosting -------------------------------
(***************************************************************************)
(* How a device comes to host an identity: the create and the link of      *)
(* pdn-node (identity.rs, linking.rs), their roll backs, the hosting       *)
(* record, the start that hosts the recorded identities again and the      *)
(* shutdown (runtime.rs, data-layer/src/node.rs).                          *)
(*                                                                         *)
(* node[d] is what a device holds in memory and loses with the process,    *)
(* store[d] its replica store as the process reads it, disk[d] what of it  *)
(* is on disk, record[d] the hosting records beside it.  A call of the     *)
(* host is a sequence of steps, each ending at an await where it may be    *)
(* cancelled.                                                              *)
(***************************************************************************)
EXTENDS Ceremony

CONSTANTS Devices, Identities, Secrets, Cases

VARIABLES
    case,      \* the instance this behaviour is of, never changed
    node,      \* node[d]: the volatile half of the runtime on d
    store,     \* store[d]: identity -> content of its PMS replica on d
    disk,      \* disk[d]: the same, as a restart would find it
    record,    \* record[d]: the identities whose hosting is recorded
    calls,     \* calls[c]: where the host's call c stands
    serving,   \* the serving halves of the linking dialogue
    handed,    \* handed[s]: who minted s, for which identity, and the calls
               \* that were sent a ticket for it
    promised,  \* promised[d]: the identities a call answered Ok for
    left       \* left[k]: faults and host actions of kind k still to come

hostVars ==
    <<case, node, store, disk, record, calls, serving, handed, promised, left>>

Setting == Cases[case]
Calls == DOMAIN Setting.calls
At(c) == Setting.calls[c].at
Of(c) == Setting.calls[c].identity
IsLink(c) == Setting.calls[c].inviter # Nobody
Inviter(c) == Setting.calls[c].inviter

ASSUME NobodyAssumption == Nobody \notin Devices

\* A create mints an identity of its own, hosted nowhere before, and a call is
\* cancelled only while it runs.
ASSUME CasesAssumption ==
    \A k \in DOMAIN Cases : LET setting == Cases[k]  made == setting.calls IN
        /\ setting.hosted \in [Devices -> SUBSET Identities]
        /\ "idle" \notin setting.cancelAt
        /\ \A c \in DOMAIN made :
               /\ made[c].at \in Devices /\ made[c].identity \in Identities
               /\ made[c].inviter \in Devices \cup {Nobody}
               /\ made[c].inviter = Nobody =>
                      /\ \A d \in Devices : made[c].identity \notin setting.hosted[d]
                      /\ \A b \in DOMAIN made :
                             made[b].inviter = Nobody /\ made[b].identity = made[c].identity
                             => b = c

\* The faults and the host's actions are bounded one by one.
Spend(kind) ==
    /\ left[kind] > 0
    /\ left' = [left EXCEPT ![kind] = @ - 1]
-----------------------------------------------------------------------------
(* What the private metadata store of an identity holds                    *)

\* A pending-device record is stamped: odd where it stands, even where the
\* write of that time removed it.
EmptyPms == [devices |-> {}, pending |-> [n \in Devices |-> 0], payloads |-> {}]
Stands(stamp) == stamp % 2 = 1

\* The clock as far as the record of n in the PMS of i can tell: what is
\* written now is later than what any replica holds.
Now(i, n) ==
    LET known == {0} \cup {store[e][i].pending[n] : e \in {f \in Devices : i \in DOMAIN store[f]}}
    IN  CHOOSE stamp \in known : \A other \in known : other <= stamp
Stamp(now, standing) == IF Stands(now) = standing THEN now + 2 ELSE now + 1

\* PrivateMetadataStore::add_pending_device, the time it is written at in it.
WithPending(pms, n, now) == [pms EXCEPT !.pending[n] = Stamp(now, TRUE)]

\* PrivateMetadataStore::confirm_device.
WithConfirmed(pms, n, now) ==
    [pms EXCEPT !.pending[n] = Stamp(now, FALSE), !.devices = @ \cup {n}]

\* PrivateMetadataStore::cleanup_pending_devices of the PMS of i: `gone` are
\* past their time to live.
WithoutStale(pms, i, gone) ==
    [pms EXCEPT !.pending =
        [n \in Devices |-> IF n \in gone THEN Stamp(Now(i, n), FALSE) ELSE @[n]]]

\* A session leaves both replicas with what either held, the later write of
\* each record standing.
Merged(a, b) ==
    [devices |-> a.devices \cup b.devices,
     pending |-> [n \in Devices |->
                     IF a.pending[n] > b.pending[n] THEN a.pending[n] ELSE b.pending[n]],
     payloads |-> a.payloads \cup b.payloads]

\* A replica content set in a store, and a replica dropped from it.
Holding(stored, i, pms) ==
    [j \in DOMAIN stored \cup {i} |-> IF j = i THEN pms ELSE stored[j]]
Forgetting(stored, i) == [j \in DOMAIN stored \ {i} |-> stored[j]]
-----------------------------------------------------------------------------
(* The node and its lock                                                   *)

\* A device whose process is not running.
Off ==
    [power |-> "off", half |-> [i \in Identities |-> "none"], hosted |-> {},
     inflight |-> {}, lock |-> Nobody, writers |-> {}, tasks |-> {},
     invites |-> <<>>, gate |-> "open"]

Up(d) == node[d].power = "up"
\* The process runs: "stopping" until its node has stopped.
Runs(d) == node[d].power \in {"up", "stopping", "cleaning"}
Free(d) == node[d].lock = Nobody

\* The PMS of i on d answers sessions.
Armed(d, i) == node[d].half[i] = "armed" /\ i \in DOMAIN store[d]

\* SyncNode::provision_identity: a half that is there stays as it is.
Provisioned(n, i) == [n EXCEPT !.half[i] = IF @ = "none" THEN "bare" ELSE @]
\* SyncNode::host_identity: the PMS governs the identity's sessions.
Governed(n, i) == [n EXCEPT !.half[i] = "armed"]
\* SyncNode::unhost_identity: the engine stops and the half goes.
Unhosted(n, i) == [n EXCEPT !.half[i] = "none"]
\* SyncNode::forget_doc, where the roll back knows a PMS.
Forgotten(stored, i, pms) == IF pms THEN Forgetting(stored, i) ELSE stored

\* CreateRollback and LinkRollbackGuard stand between the provisioning and
\* the hosting record.
Guarded == {"create", "keying", "import", "arm", "catch_up", "commit", "record", "undo"}

Goes(c, pc) == calls' = [calls EXCEPT ![c].pc = pc]
IdleCall == [pc |-> "idle", secret |-> Nobody, pms |-> FALSE, round |-> 0,
             wrote |-> "running"]
-----------------------------------------------------------------------------
(* Create                                                                  *)

\* RuntimeIdentityService::create up to the guard: the identity's half of
\* the node comes up.  A provisioning that fails leaves nothing, and a
\* second create mints another identity, so a call is made once.
CreateBegins(c) ==
    LET d == At(c) IN
    /\ calls[c].pc = "idle" /\ ~IsLink(c) /\ Up(d)
    /\ calls[c].round = 0
    /\ Spend("tries")
    /\ node' = [node EXCEPT ![d] = Provisioned(@, Of(c))]
    /\ calls' = [calls EXCEPT ![c] = [IdleCall EXCEPT !.pc = "create",
                                                      !.round = calls[c].round + 1]]
    /\ UNCHANGED <<case, store, disk, record, serving, handed, promised>>

\* PrivateMetadataStore::create with the creating device in it.
CreatedPms(d) == WithConfirmed(EmptyPms, d, 0)

\* The PMS is created and this device recorded in it: no other device holds
\* a ticket to it yet.
CreatePms(c) ==
    LET d == At(c) IN
    /\ calls[c].pc = "create"
    /\ store' = [store EXCEPT ![d] = Holding(@, Of(c), CreatedPms(d))]
    /\ calls' = [calls EXCEPT ![c].pc = "keying", ![c].pms = TRUE]
    /\ UNCHANGED <<case, node, disk, record, serving, handed, promised, left>>

\* The identity key is in, the changes are subscribed to and host_identity
\* arms the PMS.
CreateArms(c) ==
    LET d == At(c) IN
    /\ calls[c].pc = "keying" /\ "key" \in store[d][Of(c)].payloads
    /\ node' = [node EXCEPT ![d] = Governed(@, Of(c))]
    /\ Goes(c, "commit")
    /\ UNCHANGED <<case, store, disk, record, serving, handed, promised, left>>

\* A step of a create fails and its caller rolls back.
CreateFails(c) ==
    /\ ~IsLink(c) /\ calls[c].pc \in {"create", "keying", "commit"}
    /\ Spend("fails")
    /\ Goes(c, "undo")
    /\ UNCHANGED <<case, node, store, disk, record, serving, handed, promised>>
-----------------------------------------------------------------------------
(* The commit point of a create and of a link                              *)

\* Mutant of FlushStores: the record is written beside stores not flushed.
SkipFlush(d) == UNCHANGED disk

\* SyncNode::flush_stores.
FlushStores(d) == disk' = [disk EXCEPT ![d] = store[d]]

\* State::commit_hosting under the lock: record_hosting flushes the stores
\* and hands the record to a blocking writer.
Commits(c) ==
    LET d == At(c) IN
    /\ calls[c].pc = "commit" /\ Free(d)
    /\ FlushStores(d)
    /\ node' = [node EXCEPT ![d].lock = c,
                            ![d].writers = @ \cup {[call |-> c, round |-> calls[c].round]}]
    /\ calls' = [calls EXCEPT ![c].pc = "record", ![c].wrote = "running"]
    /\ UNCHANGED <<case, store, record, serving, handed, promised, left>>

\* write_hosting_record: written beside, synced and renamed over.
Written(recorded, i) == recorded \cup {i}

\* The writer on its blocking thread outlives its caller, and writes the
\* record or fails with nothing there.
WriterEnds(d, w) ==
    /\ w \in node[d].writers
    /\ node' = [node EXCEPT ![d].writers = @ \ {w}]
    /\ \/ /\ record' = [record EXCEPT ![d] = Written(@, Of(w.call))]
          /\ calls' = IF calls[w.call].round = w.round
                      THEN [calls EXCEPT ![w.call].wrote = "ok"] ELSE calls
          /\ UNCHANGED left
       \/ /\ Spend("fails")
          /\ calls' = IF calls[w.call].round = w.round
                      THEN [calls EXCEPT ![w.call].wrote = "failed"] ELSE calls
          /\ UNCHANGED record
    /\ UNCHANGED <<case, store, disk, serving, handed, promised>>

\* admit_hosted: the identity enters the hosted set and its armer starts.
Admitted(n, i) == [n EXCEPT !.hosted = @ \cup {i}]

\* The record is there: the guard is disarmed and the identity admitted.  A
\* create answers here; a link has answered for it too, whatever follows.
Recorded(c) ==
    LET d == At(c) IN
    /\ calls[c].pc = "record" /\ calls[c].wrote = "ok"
    /\ promised' = [promised EXCEPT ![d] = @ \cup {Of(c)}]
    /\ node' = [node EXCEPT ![d] = [Admitted(@, Of(c)) EXCEPT
                                       !.lock = IF IsLink(c) THEN c ELSE Nobody]]
    /\ Goes(c, IF IsLink(c) THEN "confirm" ELSE "idle")
    /\ UNCHANGED <<case, store, disk, record, serving, handed, left>>

\* The record could not be written: the lock is dropped before the roll back.
RecordFails(c) ==
    LET d == At(c) IN
    /\ calls[c].pc = "record" /\ calls[c].wrote = "failed"
    /\ node' = [node EXCEPT ![d].lock = Nobody]
    /\ Goes(c, "undo")
    /\ UNCHANGED <<case, store, disk, record, serving, handed, promised, left>>
-----------------------------------------------------------------------------
(* Link                                                                    *)

\* link_via_dialogue: refused where the identity is hosted or another link
\* toward it runs, reserved otherwise.
LinkBegins(c, s) ==
    LET d == At(c) IN
    /\ calls[c].pc = "idle" /\ IsLink(c) /\ Up(d) /\ Free(d)
    /\ handed[s].by = Inviter(c) /\ handed[s].of = Of(c)
    /\ Of(c) \notin node[d].hosted \cup node[d].inflight
    /\ Spend("tries")
    /\ node' = [node EXCEPT ![d].inflight = @ \cup {Of(c)}]
    /\ calls' = [calls EXCEPT ![c] = [IdleCall EXCEPT !.pc = "dial", !.secret = s,
                                                      !.round = calls[c].round + 1]]
    /\ UNCHANGED <<case, store, disk, record, serving, handed, promised>>

\* run_linking_dialogue connects and writes its request, if the inviter's
\* node answers.
Dials(c) ==
    /\ calls[c].pc = "dial" /\ Runs(Inviter(c))
    /\ serving' = serving \cup {[call |-> c, round |-> calls[c].round,
                                 secret |-> calls[c].secret, at |-> Inviter(c),
                                 step |-> "arriving"]}
    /\ Goes(c, "waiting")
    /\ UNCHANGED <<case, node, store, disk, record, handed, promised, left>>

Served(c) == {x \in serving : x.call = c /\ x.round = calls[c].round}

\* The dialogue ends with no reply: the inviter is not reached, closes, or
\* the budget runs out.
Unanswered(c) ==
    /\ calls[c].pc \in {"dial", "waiting"}
    /\ \/ /\ IF calls[c].pc = "dial" THEN ~Runs(Inviter(c)) ELSE Served(c) = {}
          /\ UNCHANGED left
       \/ Spend("fails")
    /\ Goes(c, "release")
    /\ UNCHANGED <<case, node, store, disk, record, serving, handed, promised>>

\* The reply is read, and under the lock the identity's half comes up with
\* the guard armed; a provisioning that fails has nothing to undo.
LinkProvisions(c) ==
    LET d == At(c) IN
    /\ calls[c].pc = "replied" /\ Free(d)
    /\ \/ /\ node' = [node EXCEPT ![d] = [Provisioned(@, Of(c)) EXCEPT !.lock = c]]
          /\ Goes(c, "import")
          /\ UNCHANGED left
       \/ /\ Spend("fails")
          /\ Goes(c, "release")
          /\ UNCHANGED node
    /\ UNCHANGED <<case, store, disk, record, serving, handed, promised>>

\* PrivateMetadataStore::import of a ticket, over a replica already there.
Imported(stored, i) ==
    Holding(stored, i, IF i \in DOMAIN stored THEN stored[i] ELSE EmptyPms)

\* The ticket's capability is in the store, with no session yet.
LinkImports(c) ==
    LET d == At(c) IN
    /\ calls[c].pc = "import"
    /\ store' = [store EXCEPT ![d] = Imported(@, Of(c))]
    /\ calls' = [calls EXCEPT ![c].pc = "arm", ![c].pms = TRUE]
    /\ UNCHANGED <<case, node, disk, record, serving, handed, promised, left>>

\* watch_catch_up, then host_identity arms the PMS; the lock goes.
LinkArms(c) ==
    LET d == At(c) IN
    /\ calls[c].pc = "arm"
    /\ node' = [node EXCEPT ![d] = [Governed(@, Of(c)) EXCEPT !.lock = Nobody]]
    /\ Goes(c, "catch_up")
    /\ UNCHANGED <<case, store, disk, record, serving, handed, promised, left>>

\* A step under the first lock fails: the lock is dropped, then undo_link.
LinkFails(c) ==
    LET d == At(c) IN
    /\ calls[c].pc \in {"import", "arm"}
    /\ Spend("fails")
    /\ node' = [node EXCEPT ![d].lock = Nobody]
    /\ Goes(c, "undo")
    /\ UNCHANGED <<case, store, disk, record, serving, handed, promised>>

\* Mutant of CaughtUp: the device confirms itself before its commit point.
CaughtUpConfirmed(met, gone, i, d) ==
    WithConfirmed(WithoutStale(met, i, gone), d, Now(i, d))

\* The PMS of a link that caught up, its stale pending records cleaned up.
CaughtUp(met, gone, i, d) == WithoutStale(met, i, gone)

\* catch_up.wait sees a session with the inviter's replica, the pending
\* records are cleaned up and the changes subscribed to.
LinkCatchesUp(c) ==
    LET d == At(c)  e == Inviter(c)  i == Of(c) IN
    /\ calls[c].pc = "catch_up" /\ Armed(d, i) /\ Armed(e, i)
    /\ LET met == Merged(store[d][i], store[e][i]) IN
       \E gone \in SUBSET {n \in Devices \ {d} : Stands(met.pending[n])} :
           store' = [store EXCEPT ![d][i] = CaughtUp(met, gone, i, d), ![e][i] = met]
    /\ Goes(c, "commit")
    /\ UNCHANGED <<case, node, disk, record, serving, handed, promised, left>>

\* The catch-up did not come in time: no replica answered.
LinkTimesOut(c) ==
    /\ calls[c].pc = "catch_up"
    /\ ~(Armed(At(c), Of(c)) /\ Armed(Inviter(c), Of(c)))
    /\ Goes(c, "undo")
    /\ UNCHANGED <<case, node, store, disk, record, serving, handed, promised, left>>

\* It came too late, or a step up to the commit failed, its flush among them.
LinkGivesUp(c) ==
    /\ IsLink(c) /\ calls[c].pc \in {"catch_up", "commit"}
    /\ Spend("fails")
    /\ Goes(c, "undo")
    /\ UNCHANGED <<case, node, store, disk, record, serving, handed, promised>>

\* ensure_own_device_confirmed: written where the confirmed set lacks it.
Confirming(pms, i, d) ==
    IF d \in pms.devices THEN pms ELSE WithConfirmed(pms, d, Now(i, d))

\* The confirmation after the commit point; one that fails is left to the
\* armer's sweep.  The lock goes.
LinkConfirms(c) ==
    LET d == At(c) IN
    /\ calls[c].pc = "confirm"
    /\ \/ /\ store' = [store EXCEPT ![d][Of(c)] = Confirming(@, Of(c), d)]
          /\ UNCHANGED left
       \/ Spend("fails") /\ UNCHANGED store
    /\ node' = [node EXCEPT ![d].lock = Nobody]
    /\ Goes(c, "release")
    /\ UNCHANGED <<case, disk, record, serving, handed, promised>>

\* LinkingReservation::release, on every way out but a cancellation.
Releases(c) ==
    LET d == At(c) IN
    /\ calls[c].pc = "release" /\ Free(d)
    /\ node' = [node EXCEPT ![d].inflight = @ \ {Of(c)}]
    /\ Goes(c, "idle")
    /\ UNCHANGED <<case, store, disk, record, serving, handed, promised, left>>
-----------------------------------------------------------------------------
(* Roll backs                                                              *)

\* roll_back of either guard, awaited by its call: undo_link takes the lock,
\* undo_create does not.
RollsBack(c) ==
    LET d == At(c) IN
    /\ calls[c].pc = "undo"
    /\ IsLink(c) => Free(d)
    /\ store' = [store EXCEPT ![d] = Forgotten(@, Of(c), calls[c].pms)]
    /\ node' = [node EXCEPT ![d] = Unhosted(@, Of(c))]
    /\ Goes(c, IF IsLink(c) THEN "release" ELSE "idle")
    /\ UNCHANGED <<case, disk, record, serving, handed, promised, left>>

\* What a detached roll back or release carries.
Task(c, step) ==
    [identity |-> Of(c), pms |-> calls[c].pms, link |-> IsLink(c), step |-> step]

\* Mutant of DropTasks: the guard of a link is armed once its PMS is there.
DropTasksLate(c) ==
    IF calls[c].pc \in Guarded \ {"import"} THEN {Task(c, "undo")}
    ELSE IF IsLink(c) THEN {Task(c, "release")} ELSE {}

\* Mutant of DropTasks: a reservation whose guard is gone spawns nothing.
DropTasksNone(c) ==
    IF calls[c].pc \in Guarded THEN {Task(c, "undo")} ELSE {}

\* What the dropped guards of a cancelled call spawn: an armed guard its
\* undo, and the release after it; the reservation alone its release.
DropTasks(c) ==
    IF calls[c].pc \in Guarded THEN {Task(c, "undo")}
    ELSE IF IsLink(c) THEN {Task(c, "release")} ELSE {}

\* The future of a call is dropped at an await: what it holds of the lock
\* goes, then its guards drop.
Cancels(c) ==
    LET d == At(c) IN
    /\ calls[c].pc \in Setting.cancelAt
    /\ Spend("cancels")
    /\ node' = [node EXCEPT ![d].lock = IF @ = c THEN Nobody ELSE @,
                            ![d].tasks = @ \cup DropTasks(c)]
    /\ Goes(c, "idle")
    /\ UNCHANGED <<case, store, disk, record, serving, handed, promised>>

\* A detached undo: of a link under the lock, and the reservation after it.
TaskUndoes(d, t) ==
    /\ t \in node[d].tasks /\ t.step = "undo"
    /\ t.link => Free(d)
    /\ store' = [store EXCEPT ![d] = Forgotten(@, t.identity, t.pms)]
    /\ node' = [node EXCEPT ![d] = [Unhosted(@, t.identity) EXCEPT !.tasks =
                    (node[d].tasks \ {t})
                        \cup IF t.link THEN {[t EXCEPT !.step = "release"]} ELSE {}]]
    /\ UNCHANGED <<case, disk, record, calls, serving, handed, promised, left>>

\* A detached release of a reservation.
TaskReleases(d, t) ==
    /\ t \in node[d].tasks /\ t.step = "release" /\ Free(d)
    /\ node' = [node EXCEPT ![d].inflight = @ \ {t.identity}, ![d].tasks = @ \ {t}]
    /\ UNCHANGED <<case, store, disk, record, calls, serving, handed, promised, left>>
-----------------------------------------------------------------------------
(* The serving half of the linking dialogue                                *)

\* linking_invite; the payload reaches the other device's host.
MintInvite(d, i) ==
    LET fresh == {s \in Secrets : handed[s].by = Nobody}
        s == CHOOSE s \in fresh : TRUE
    IN
    /\ Up(d) /\ Free(d) /\ i \in node[d].hosted
    /\ fresh # {} /\ Spend("mints")
    /\ node' = [node EXCEPT ![d].invites = Mint(@, s, i)]
    /\ handed' = [handed EXCEPT ![s].by = d, ![s].of = i]
    /\ UNCHANGED <<case, store, disk, record, calls, serving, promised>>

\* A secret's lifetime ends.
Lapses(d, s) ==
    /\ s \in DOMAIN node[d].invites /\ ~node[d].invites[s].expired
    /\ Spend("lapses")
    /\ node' = [node EXCEPT ![d].invites = Lapsed(@, s)]
    /\ UNCHANGED <<case, store, disk, record, calls, serving, handed, promised>>

Step(x, step) == serving' = (serving \ {x}) \cup {[x EXCEPT !.step = step]}
Ends(x) == serving' = serving \ {x}

\* ServingHalves::enter: a permit, none while the drain waits for them all,
\* a refusal once the drain closed.
Enters(x) ==
    /\ x.step = "arriving" /\ node[x.at].gate # "closing"
    /\ IF node[x.at].gate = "open" THEN Step(x, "entered") ELSE Ends(x)
    /\ UNCHANGED <<case, node, store, disk, record, calls, handed, promised, left>>

\* LinkingHandler::serve under the lock: burn, register the newcomer, mint
\* the ticket.  What fails after the burn is a refusal with the secret spent.
Burns(x) ==
    LET e == x.at  i == node[e].invites[x.secret].minted_for  n == At(x.call) IN
    /\ x.step = "entered" /\ Free(e)
    /\ IF ~Presentable(node[e].invites, x.secret)
       THEN Ends(x) /\ UNCHANGED <<node, store, left>>
       ELSE /\ node' = [node EXCEPT ![e].invites = Burned(@, x.secret)]
            /\ \/ /\ i \in node[e].hosted
                  /\ store' = [store EXCEPT ![e][i] = WithPending(@, n, Now(i, n))]
                  /\ Step(x, "replying")
                  /\ UNCHANGED left
               \/ /\ Spend("fails")
                  /\ Ends(x)
                  /\ UNCHANGED store
    /\ UNCHANGED <<case, disk, record, calls, handed, promised>>

\* The reply is written, read where the caller still waits, or lost.
Replies(x) ==
    LET waits == calls[x.call].pc = "waiting" /\ calls[x.call].round = x.round IN
    /\ x.step = "replying"
    /\ \/ /\ handed' = [handed EXCEPT ![x.secret].to = @ \cup {<<x.call, x.round>>}]
          /\ calls' = IF waits THEN [calls EXCEPT ![x.call].pc = "replied"] ELSE calls
          /\ Step(x, "sent")
          /\ UNCHANGED left
       \/ /\ IF waits THEN Spend("fails") ELSE UNCHANGED left
          /\ Ends(x)
          /\ UNCHANGED <<calls, handed>>
    /\ UNCHANGED <<case, node, store, disk, record, promised>>

\* mark_used once the last write returned.
MarksUsed(x) ==
    /\ x.step = "sent" /\ Free(x.at)
    /\ node' = [node EXCEPT ![x.at].invites = MarkedUsed(@, x.secret, At(x.call))]
    /\ Step(x, "lingering")
    /\ UNCHANGED <<case, store, disk, record, calls, handed, promised, left>>

\* The dialer closed; the permit goes.
Leaves(x) ==
    /\ x.step = "lingering"
    /\ Ends(x)
    /\ UNCHANGED <<case, node, store, disk, record, calls, handed, promised, left>>
-----------------------------------------------------------------------------
(* The armer, sessions and the settle window                               *)

\* A sweep of an identity's armer confirms this device.
Sweeps(d, i) ==
    /\ Up(d) /\ Free(d) /\ i \in node[d].hosted /\ d \notin store[d][i].devices
    /\ \/ /\ store' = [store EXCEPT ![d][i] = Confirming(@, i, d)]
          /\ UNCHANGED left
       \/ Spend("fails") /\ UNCHANGED store
    /\ UNCHANGED <<case, node, disk, record, calls, serving, handed, promised>>

\* A session of the PMS between two devices that hold it armed.
Exchanges(d, e, i) ==
    /\ Armed(d, i) /\ Armed(e, i)
    /\ store[d][i] # store[e][i]
    /\ LET met == Merged(store[d][i], store[e][i]) IN
       store' = [store EXCEPT ![d][i] = met, ![e][i] = met]
    /\ UNCHANGED <<case, node, disk, record, calls, serving, handed, promised, left>>

\* The settle window of the replica store ends; taken only in the cases that
\* look at the disk.
StoreSettles(d) ==
    /\ d \in Setting.settling /\ disk[d] # store[d]
    /\ disk' = [disk EXCEPT ![d] = store[d]]
    /\ UNCHANGED <<case, node, store, record, calls, serving, handed, promised, left>>
-----------------------------------------------------------------------------
(* Start, shutdown and the loss of the process                             *)

\* SyncNode::assemble: every part but the identities' halves.
Assembled(n) == [Off EXCEPT !.power = "starting", !.writers = n.writers]
\* stop_node: engines, router, streams and stores, in this order.  A writer
\* on its blocking thread goes on.
Stopped(n) == [Off EXCEPT !.writers = n.writers]

\* Runtime::spawn assembles the node; nothing is hosted yet and the slots of
\* the protocol handlers are empty, so a dialogue is refused.
Starts(d) ==
    /\ node[d].power = "off"
    /\ Spend("starts")
    /\ node' = [node EXCEPT ![d] = Assembled(@)]
    /\ UNCHANGED <<case, store, disk, record, calls, serving, handed, promised>>

\* The records recover_hosted_identities can host: one that names a replica
\* the store does not hold is skipped, and stays.
Recoverable(d) == record[d] \cap DOMAIN store[d]

\* recover_hosted_identities brings the half of one recorded identity up.
Recovers(d, i) ==
    /\ node[d].power = "starting" /\ i \in Recoverable(d) /\ node[d].half[i] = "none"
    /\ node' = [node EXCEPT ![d] = Governed(@, i)]
    /\ UNCHANGED <<case, store, disk, record, calls, serving, handed, promised, left>>

\* The rest of Runtime::spawn: every identity is admitted, the collection
\* may run, the slots are filled.
Ready(d) ==
    /\ node[d].power = "starting"
    /\ \A i \in Recoverable(d) : node[d].half[i] = "armed"
    /\ node' = [node EXCEPT ![d].power = "up", ![d].hosted = Recoverable(d)]
    /\ UNCHANGED <<case, store, disk, record, calls, serving, handed, promised, left>>

\* A recovery that fails stops the node before the error leaves.
StartFails(d) ==
    /\ node[d].power = "starting"
    /\ Spend("fails")
    /\ node' = [node EXCEPT ![d] = Stopped(@)]
    /\ UNCHANGED <<case, store, disk, record, calls, serving, handed, promised>>

\* Runtime::shutdown, called once the host's own calls are done; the drain
\* asks for every permit, and halves that come now wait behind it.
ShutsDown(d) ==
    /\ Up(d) /\ d \in Setting.mortal
    /\ \A c \in Calls : At(c) = d => calls[c].pc = "idle"
    /\ Spend("stops")
    /\ node' = [node EXCEPT ![d].power = "stopping", ![d].gate = "closing"]
    /\ UNCHANGED <<case, store, disk, record, calls, serving, handed, promised>>

InHand(d) == {x \in serving : x.at = d /\ x.step # "arriving"}

\* The halves that waited behind the drain are refused by its close.
Waiting(d) == {x \in serving : ~(x.at = d /\ x.step = "arriving")}

\* ServingHalves::drain has every permit, or its budget runs out; it closes
\* the semaphore and releases them into it.
Drains(d) ==
    /\ node[d].power = "stopping"
    /\ IF InHand(d) = {} THEN UNCHANGED left ELSE Spend("overruns")
    /\ serving' = Waiting(d)
    /\ node' = [node EXCEPT ![d].power = "cleaning", ![d].gate = "closed"]
    /\ UNCHANGED <<case, store, disk, record, calls, handed, promised>>

\* The cleanup tasks are done or their budget runs out, and the node stops:
\* every engine commits what it holds, the router drops its handlers.
Stops(d) ==
    /\ node[d].power = "cleaning"
    /\ IF node[d].tasks = {} THEN UNCHANGED left ELSE Spend("overruns")
    /\ node' = [node EXCEPT ![d] = Stopped(@)]
    /\ disk' = [disk EXCEPT ![d] = store[d]]
    /\ serving' = {x \in serving : x.at # d}
    /\ UNCHANGED <<case, store, record, calls, handed, promised>>

\* The process is killed: what it held in memory goes, and what its stores
\* had not put on disk.
Crashes(d) ==
    /\ node[d].power # "off" /\ d \in Setting.mortal
    /\ Spend("crashes")
    /\ node' = [node EXCEPT ![d] = Off]
    /\ store' = [store EXCEPT ![d] = disk[d]]
    /\ calls' = [c \in Calls |->
                    IF At(c) = d THEN [calls[c] EXCEPT !.pc = "idle"] ELSE calls[c]]
    /\ serving' = {x \in serving : x.at # d}
    /\ UNCHANGED <<case, disk, record, handed, promised>>
-----------------------------------------------------------------------------
HostInit ==
    /\ case \in DOMAIN Cases
    /\ node = [d \in Devices |->
                  [Off EXCEPT !.power = "up", !.hosted = Setting.hosted[d],
                              !.half = [i \in Identities |->
                                  IF i \in Setting.hosted[d] THEN "armed" ELSE "none"]]]
    /\ store = [d \in Devices |-> [i \in Setting.hosted[d] |->
                   [EmptyPms EXCEPT !.devices = {e \in Devices : i \in Setting.hosted[e]},
                                    !.payloads = {"key"}]]]
    /\ disk = store
    /\ record = [d \in Devices |-> Setting.hosted[d]]
    /\ calls = [c \in Calls |-> IdleCall]
    /\ serving = {}
    /\ handed = [s \in Secrets |-> [by |-> Nobody, of |-> Nobody, to |-> {}]]
    /\ promised = record
    /\ left = Setting.left
=============================================================================
