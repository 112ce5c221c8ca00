--------------------------- MODULE BlobCollection ---------------------------
(***************************************************************************)
(* The payloads of a device's one blob store and the collection that       *)
(* sweeps it: temp tags of writes under way, the tags each engine holds    *)
(* since its replicas were last read (pdn-store/src/engine/held.rs), the   *)
(* protect callback (protect_hosted in data-layer/src/node.rs) and the     *)
(* sweep of iroh-blobs.  A payload is <<identity, name>>.                  *)
(***************************************************************************)
EXTENDS Hosting

VARIABLES
    blobs,      \* blobs[d]: the payloads the blob store holds
    blobDisk,   \* blobDisk[d]: those of them on disk
    tags,       \* tags[d]: payloads of writes whose caller holds a temp tag
    queue,      \* queue[d]: inserts sent to the sync actor
    held,       \* held[d]: payloads tagged by HeldPayloads
    collected,  \* collected[d]: identities whose engine a run has read
    run,        \* run[d]: the collection run under way
    owed,       \* owed[d]: payloads written here that some replica names
    sealed      \* sealed[d]: those of them named before the last flush

blobVars == <<blobs, blobDisk, tags, queue, held, collected, run, owed, sealed>>

Payload(i, name) == <<i, name>>
PayloadsOf(i, ws) == {w \in ws : w[1] = i}
NoRun == [pc |-> "idle", left |-> {}, live |-> {}, reading |-> Nobody, taken |-> {}]
-----------------------------------------------------------------------------
(* Doc::set_bytes                                                          *)

\* The payload is added to the blob store under a temp tag.
Places(d, w) ==
    /\ blobs' = [blobs EXCEPT ![d] = @ \cup {w}]
    /\ tags' = [tags EXCEPT ![d] = @ \cup {w}]
    /\ UNCHANGED <<blobDisk, queue, held, collected, run, owed, sealed>>

\* A key payload whose create is no longer waiting for it.
Abandoned(d, w) ==
    w[2] = "key" /\ ~\E c \in Calls : At(c) = d /\ Of(c) = w[1] /\ calls[c].pc = "keying"

\* The insert is sent to the sync actor, which carries it out whether or not
\* its caller still waits.
Sends(d, w) ==
    /\ w \in tags[d] \ (queue[d] \cup owed[d]) /\ ~Abandoned(d, w)
    /\ queue' = [queue EXCEPT ![d] = @ \cup {w}]
    /\ UNCHANGED <<blobs, blobDisk, tags, held, collected, run, owed, sealed>>
    /\ UNCHANGED hostVars

Inserts(d, w) ==
    /\ w \in queue[d] /\ w[1] \in DOMAIN store[d]
    /\ store' = [store EXCEPT ![d][w[1]].payloads = @ \cup {w[2]}]
    /\ queue' = [queue EXCEPT ![d] = @ \ {w}]
    /\ owed' = [owed EXCEPT ![d] = @ \cup {w}]
    /\ UNCHANGED <<blobs, blobDisk, tags, held, collected, run, sealed>>
    /\ UNCHANGED <<case, node, disk, record, calls, serving, handed, promised, left>>

\* HeldPayloads::hold: nothing until a run first read this engine.
Holds(d, ws) == held' = [held EXCEPT ![d] = @ \cup {w \in ws : w[1] \in collected[d]}]

\* Mutant of Untag: the tag goes with the call.
UntagFreely(d, w) == UNCHANGED held

\* HeldOnDrop::drop hands the tag to the engine however the write ended.
Untag(d, w) == Holds(d, {w})

\* The call returned, or was dropped at any of its steps.
Untags(d, w) ==
    /\ w \in tags[d]
    /\ w \in owed[d] \/ w[2] = "note" \/ Abandoned(d, w)
    /\ tags' = [tags EXCEPT ![d] = @ \ {w}]
    /\ Untag(d, w)
    /\ UNCHANGED <<blobs, blobDisk, queue, collected, run, owed, sealed>>
    /\ UNCHANGED hostVars

\* A member's record is written while the identity is hosted.
Writes(d, w) ==
    /\ Up(d) /\ w[1] \in node[d].hosted
    /\ w \notin blobs[d] \cup tags[d] \cup queue[d] \cup owed[d]
    /\ Spend("writes")
    /\ Places(d, w)
    /\ UNCHANGED <<case, node, store, disk, record, calls, serving, handed, promised>>
-----------------------------------------------------------------------------
(* A collection run                                                        *)

\* start_blob_collection was called, at the end of the start.
Collecting(d) == Runs(d)

\* The protect callback of a due run takes the stacks the node hosts now.
RunBegins(d) ==
    /\ run[d].pc = "idle" /\ Collecting(d)
    /\ Spend("runs")
    /\ run' = [run EXCEPT ![d] = [NoRun EXCEPT !.pc = "asking",
                  !.left = {i \in Identities : node[d].half[i] # "none"}]]
    /\ UNCHANGED <<blobs, blobDisk, tags, queue, held, collected, owed, sealed>>
    /\ UNCHANGED <<case, node, store, disk, record, calls, serving, handed, promised>>

\* collection_hashes takes the tags of an engine before it reads.
Takes(d, i) ==
    /\ run[d].pc = "asking" /\ i \in run[d].left
    /\ run' = [run EXCEPT ![d].pc = "reading", ![d].reading = i,
                          ![d].taken = PayloadsOf(i, held[d]), ![d].left = @ \ {i}]
    /\ held' = [held EXCEPT ![d] = @ \ PayloadsOf(i, @)]
    /\ collected' = [collected EXCEPT ![d] = @ \cup {i}]
    /\ UNCHANGED <<blobs, blobDisk, tags, queue, owed, sealed>>
    /\ UNCHANGED hostVars

\* The read comes back through the sync actor, behind the inserts sent
\* before it; the tags taken are dropped.
Reads(d) ==
    LET i == run[d].reading IN
    /\ run[d].pc = "reading" /\ node[d].half[i] # "none"
    /\ PayloadsOf(i, queue[d]) = {}
    /\ run' = [run EXCEPT ![d].pc = "asking", ![d].taken = {}, ![d].reading = Nobody,
                  ![d].live = @ \cup IF i \in DOMAIN store[d]
                                     THEN {Payload(i, p) : p \in store[d][i].payloads}
                                     ELSE {}]
    /\ UNCHANGED <<blobs, blobDisk, tags, queue, held, collected, owed, sealed>>
    /\ UNCHANGED hostVars

\* A read that fails puts the tags back and aborts the run.
ReadFails(d) ==
    LET i == run[d].reading IN
    /\ run[d].pc = "reading"
    /\ IF node[d].half[i] = "none" THEN UNCHANGED left ELSE Spend("fails")
    /\ held' = [held EXCEPT ![d] = @ \cup IF node[d].half[i] = "none"
                                          THEN {} ELSE run[d].taken]
    /\ run' = [run EXCEPT ![d] = NoRun]
    /\ UNCHANGED <<blobs, blobDisk, tags, queue, collected, owed, sealed>>
    /\ UNCHANGED <<case, node, store, disk, record, calls, serving, handed, promised>>

\* Every stack was read: what no replica names and no tag holds is removed.
Sweep(d) ==
    /\ run[d].pc = "asking" /\ run[d].left = {}
    /\ blobs' = [blobs EXCEPT ![d] = @ \cap (run[d].live \cup tags[d] \cup held[d])]
    /\ run' = [run EXCEPT ![d] = NoRun]
    /\ UNCHANGED <<blobDisk, tags, queue, held, collected, owed, sealed>>
    /\ UNCHANGED hostVars
-----------------------------------------------------------------------------
(* What the other steps of the node do to its payloads                     *)

\* An engine goes, and what it held and had queued with it.
EngineGoes(d, i) ==
    /\ held' = [held EXCEPT ![d] = @ \ PayloadsOf(i, @)]
    /\ queue' = [queue EXCEPT ![d] = @ \ PayloadsOf(i, @)]
    /\ collected' = [collected EXCEPT ![d] = @ \ {i}]
    /\ owed' = [owed EXCEPT ![d] = @ \ PayloadsOf(i, @)]
    /\ sealed' = [sealed EXCEPT ![d] = @ \ PayloadsOf(i, @)]
    /\ UNCHANGED <<blobs, blobDisk, tags, run>>

\* DocsApi::flush syncs the blob store first.
FlushBlobs(d) ==
    /\ blobDisk' = [blobDisk EXCEPT ![d] = blobs[d]]
    /\ sealed' = [sealed EXCEPT ![d] = owed[d]]
    /\ UNCHANGED <<blobs, tags, queue, held, collected, run, owed>>

\* The settle window of the blob store ends.
BlobsSettle(d) ==
    /\ d \in Setting.settling /\ blobDisk[d] # blobs[d]
    /\ blobDisk' = [blobDisk EXCEPT ![d] = blobs[d]]
    /\ UNCHANGED <<blobs, tags, queue, held, collected, run, owed, sealed>>
    /\ UNCHANGED hostVars

\* The blob store opens again holding `kept`, of which `due` was written here.
Reopened(d, kept, due) ==
    /\ blobs' = [blobs EXCEPT ![d] = kept]
    /\ blobDisk' = [blobDisk EXCEPT ![d] = kept]
    /\ owed' = [owed EXCEPT ![d] = due]
    /\ sealed' = [sealed EXCEPT ![d] = due]
    /\ tags' = [tags EXCEPT ![d] = {}]
    /\ queue' = [queue EXCEPT ![d] = {}]
    /\ held' = [held EXCEPT ![d] = {}]
    /\ collected' = [collected EXCEPT ![d] = {}]
    /\ run' = [run EXCEPT ![d] = NoRun]

\* on_replica_event holds a tag on what a session brought.
Arrives(i) ==
    /\ held' = [d \in Devices |-> held[d] \cup
          {w \in {Payload(i, p) : p \in (IF i \in DOMAIN store'[d]
                                         THEN store'[d][i].payloads ELSE {})
                                     \ (IF i \in DOMAIN store[d]
                                        THEN store[d][i].payloads ELSE {})} :
              i \in collected[d]}]
    /\ UNCHANGED <<blobs, blobDisk, tags, queue, collected, run, owed, sealed>>

\* A payload an armed replica names is fetched from a device that has it.
Fetches(d, e, w) ==
    /\ w[1] \in DOMAIN store[d] /\ node[d].half[w[1]] = "armed"
    /\ w[2] \in store[d][w[1]].payloads
    /\ w \in blobs[e] \ blobs[d] /\ Runs(e)
    /\ blobs' = [blobs EXCEPT ![d] = @ \cup {w}]
    /\ UNCHANGED <<blobDisk, tags, queue, held, collected, run, owed, sealed>>
    /\ UNCHANGED hostVars

BlobInit ==
    /\ blobs = [d \in Devices |-> {Payload(i, "key") : i \in Setting.hosted[d]}]
    /\ blobDisk = blobs
    /\ tags = [d \in Devices |-> {}]
    /\ queue = tags /\ held = tags
    /\ collected = [d \in Devices |-> {}]
    /\ run = [d \in Devices |-> NoRun]
    /\ owed = blobs /\ sealed = blobs
=============================================================================
