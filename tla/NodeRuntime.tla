----------------------------- MODULE NodeRuntime ----------------------------
(***************************************************************************)
(* The runtime of a node whole: the steps of Hosting with what each does   *)
(* to the payloads of BlobCollection, and the collection beside them.      *)
(***************************************************************************)
EXTENDS BlobCollection

vars == <<hostVars, blobVars>>

\* The identity key is written once the PMS is there: the payload first.
KeyWrites(c) ==
    LET w == Payload(Of(c), "key") IN
    /\ calls[c].pc = "keying" /\ w \notin tags[At(c)] \cup queue[At(c)] \cup owed[At(c)]
    /\ Places(At(c), w)
    /\ UNCHANGED hostVars

\* The stores of a call's device are flushed, the payloads' store first.
CommitsAll(c) == Commits(c) /\ FlushBlobs(At(c))

\* A roll back shuts the identity's engine down.
RollsBackAll(c) == RollsBack(c) /\ EngineGoes(At(c), Of(c))
TaskUndoesAll(d, t) == TaskUndoes(d, t) /\ EngineGoes(d, t.identity)

\* Sessions bring entries, whose payloads the live actor tags.
CatchesUpAll(c) == LinkCatchesUp(c) /\ Arrives(Of(c))
ExchangesAll(d, e, i) == Exchanges(d, e, i) /\ Arrives(i)

\* The process goes: by a shutdown with everything on disk, or killed with
\* what its stores had not settled.
StopsAll(d) == Stops(d) /\ Reopened(d, blobs[d], owed[d])
StartFailsAll(d) == StartFails(d) /\ Reopened(d, blobs[d], owed[d])
CrashesAll(d) == Crashes(d) /\ Reopened(d, blobDisk[d], sealed[d])

\* Steps of a call that leave the payloads alone.
CallStep(c) ==
    \/ CreatePms(c) \/ CreateArms(c) \/ Recorded(c) \/ RecordFails(c)
    \/ Dials(c) \/ Unanswered(c) \/ LinkProvisions(c) \/ LinkImports(c)
    \/ LinkArms(c) \/ LinkTimesOut(c) \/ LinkConfirms(c) \/ Releases(c)

ServingStep(x) == Enters(x) \/ Burns(x) \/ Replies(x) \/ MarksUsed(x) \/ Leaves(x)

Progress ==
    \/ \E c \in Calls : CallStep(c) /\ UNCHANGED blobVars
    \/ \E c \in Calls : KeyWrites(c) \/ CommitsAll(c) \/ RollsBackAll(c) \/ CatchesUpAll(c)
    \/ \E x \in serving : ServingStep(x) /\ UNCHANGED blobVars
    \/ \E d \in Devices : \E w \in node[d].writers : WriterEnds(d, w) /\ UNCHANGED blobVars
    \/ \E d \in Devices : \E t \in node[d].tasks :
           TaskUndoesAll(d, t) \/ (TaskReleases(d, t) /\ UNCHANGED blobVars)
    \/ \E d \in Devices, i \in Identities :
           (Sweeps(d, i) \/ Recovers(d, i)) /\ UNCHANGED blobVars
    \/ \E d \in Devices : (Ready(d) \/ Drains(d)) /\ UNCHANGED blobVars
    \/ \E d \in Devices : StopsAll(d)
    \/ \E d, e \in Devices, i \in Identities : ExchangesAll(d, e, i)
    \/ \E d \in Devices : Reads(d) \/ ReadFails(d) \/ Sweep(d)
    \/ \E d \in Devices, i \in Identities : Takes(d, i)
    \/ \E d, e \in Devices : \E w \in blobs[e] : Fetches(d, e, w)
    \/ \E d \in Devices : \E w \in queue[d] : Inserts(d, w)
    \/ \E d \in Devices : \E w \in tags[d] : Sends(d, w) \/ Untags(d, w)

\* What the host asks for, what fails and what nothing waits for.
Chance ==
    \/ \E c \in Calls : CreateBegins(c) /\ UNCHANGED blobVars
    \/ \E c \in Calls, s \in Secrets : LinkBegins(c, s) /\ UNCHANGED blobVars
    \/ \E c \in Calls :
           (CreateFails(c) \/ LinkFails(c) \/ LinkGivesUp(c) \/ Cancels(c))
               /\ UNCHANGED blobVars
    \/ \E d \in Devices, i \in Identities : MintInvite(d, i) /\ UNCHANGED blobVars
    \/ \E d \in Devices, s \in Secrets : Lapses(d, s) /\ UNCHANGED blobVars
    \/ \E d \in Devices : (StoreSettles(d) \/ Starts(d) \/ ShutsDown(d)) /\ UNCHANGED blobVars
    \/ \E d \in Devices : StartFailsAll(d) \/ CrashesAll(d)
    \/ \E d \in Devices : RunBegins(d) \/ BlobsSettle(d)
    \/ \E d \in Devices, i \in Identities : Writes(d, Payload(i, "note"))

Init == HostInit /\ BlobInit
Next == Progress \/ Chance

\* Every step under way is taken by a task that runs to its end.
Fairness == WF_vars(Progress)
Spec == Init /\ [][Next]_vars
FairSpec == Spec /\ Fairness
-----------------------------------------------------------------------------
(* Properties                                                              *)

\* A half of a node that was brought up is hosted, or in the hands of a
\* start, of a call that will host or undo it, or of a detached undo: a create or a link
\* cancelled or failed at any step (CreateRollback, LinkRollbackGuard) leaves
\* no engine behind that nothing will stop.
HalfIsOwned ==
    \A d \in Devices, i \in Identities : node[d].half[i] # "none" =>
        \/ i \in node[d].hosted \/ node[d].power = "starting"
        \/ \E c \in Calls : At(c) = d /\ Of(c) = i /\ calls[c].pc \in Guarded
        \/ \E t \in node[d].tasks : t.identity = i /\ t.step = "undo"

\* A hosted identity keeps its engine and its replica: no roll back of an
\* earlier attempt, running detached while the identity is linked again,
\* takes them from the attempt that succeeded (LinkingReservation is released
\* only after undo_link).
HostedStands ==
    \A d \in Devices : \A i \in node[d].hosted :
        node[d].half[i] = "armed" /\ i \in DOMAIN store[d]

\* Roll backs leave nothing behind and take nothing that stands, whatever they
\* run beside (CreateRollback, undo_link).
HalfHasOwner == HalfIsOwned /\ HostedStands

\* What a create or a link answered Ok for is hosted by every later start,
\* whatever was killed in between: record_hosting flushes before it records,
\* recover_hosted_identities hosts what is recorded.
PromisedComesBack ==
    \A d \in Devices : Up(d) => promised[d] \subseteq node[d].hosted

\* A secret buys one ticket: however dialogues overlap, are lost or tried
\* again, one of them is sent the reply (verify_and_burn before it is served),
\* and a secret the inviter's host is told is used was sent to someone.
SecretServesOne ==
    \A s \in Secrets :
        /\ \A one, other \in handed[s].to : one = other
        /\ \A d \in Devices, i \in Identities :
               InviteState(node[d].invites, s, i) = "used" => handed[s].to # {}

\* A device listed as confirmed on any other device's replica recorded its
\* hosting: the others never count on a device that will not come back with
\* the identity (the confirmation is written after the commit point).
ConfirmedIsRecorded ==
    \A d, e \in Devices, i \in Identities :
        i \in DOMAIN store[e] /\ d # e /\ d \in store[e][i].devices => i \in record[d]

\* The payload of an entry written here stays while the entry is there: no
\* collection run removes it, whatever the run overlaps, and a kill takes
\* none that was flushed (protect_hosted, HeldPayloads, HeldOnDrop).
PayloadKept == \A d \in Devices : owed[d] \subseteq blobs[d]

\* No hosting record names a replica the disk does not hold: the doc of
\* record_hosting, which a create or a link dropped at that await does not keep.
RecordNamesReplica == \A d \in Devices : record[d] \subseteq DOMAIN disk[d]

\* A link's reservation ends: returned, failed or cancelled at any step, it
\* leaves the identity free to be linked again.
ReservationEnds ==
    \A d \in Devices, i \in Identities :
        i \in node[d].inflight ~> i \notin node[d].inflight

\* A device that hosts an identity is known as confirmed on every running
\* device that hosts it, though its confirmation failed or was lost with a
\* kill: the armer's sweep writes it again and sessions carry it.
Known ==
    \A d, e \in Devices : Up(d) /\ Up(e) =>
        \A i \in node[d].hosted \cap node[e].hosted : d \in store[e][i].devices

\* Every link comes to its end, on the device that linked and in what the
\* others know of it (LinkingReservation, ensure_own_device_confirmed).
LinksSettle == ReservationEnds /\ <>[]Known
=============================================================================
