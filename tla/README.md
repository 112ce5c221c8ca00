# Mee PDN: a TLA+ verification of the sync engine and the pod runtime

Mee PDN is a local-first data platform. An *identity* lives on several devices. A
*pod* is a pair of replicated stores, one of membership events and one of records,
shared by the devices of its members. Devices meet over the network, or inside one
process where two identities share a node, and reconcile store by store. What an
identity's own devices share about its pods is in its *private metadata store* (PMS).

This directory models the parts of that system in which several actors, faults or
kills meet: nine specifications, each with the components it is composed of, a TLC
instance, and for seven of them theorems that TLAPS checks. `PROJECT.json` lists for
every definition the source lines it translates.

## The system's parts and the modules

| part of the code | modules | state | actions |
|---|---|---|---|
| the live actors of two parties: `pdn-store/src/engine/state.rs`, `engine/live.rs`, `net.rs`, `net/codec.rs` | `PeerState` (one slot, pure operators), `SyncSessions` | a slot per store and counterpart, refused dials, redial streaks and timers, held record-store dials, connections with a phase for each end | ask, dial, judge, refuse, exchange, finish, lose an end, leave and start a store, redial |
| payload fetches: `engine/live/fetches.rs`, `engine/live.rs` | `FetchQueue` (the structure `Fetches`), `Fetches` (the actor around it) | wanted payloads and their providers, queues and capacity, pause series and timers, parked pairs, content scans | remote insert, session end, news, neighbor up and down, fetch outcomes, timers, leave |
| range reconciliation: `ranger.rs`, `sync.rs`, `filter.rs`, `heads.rs`, `store/fs.rs` | `RangeSync` (messages and answers as functions), `Replicas` (the promise), `Reconcile` (sessions of several replicas) | live contents, frozen views, messages, author heads, what each session delivered | write, dial, accept, one round, cut |
| the sync actor and its store: `actor.rs`, `store/fs.rs`, `store/fs/tables.rs`, `engine.rs`, `subscribers.rs`, `engine/live/draining.rs`, `pdn-node/src/observation.rs` | `StoreBatches` (transactions), `Observation` (events from actor to reader), `SyncActor` | batch, committed and durable writes, open replicas, sessions and snapshots, the author file, cached peers, event queues | every message of the actor, its timers, commits that fail, crash, start, shutdown |
| membership: `data-layer/src/pod/membership_view.rs`, `pod/past.rs`, `access.rs`, `pdn-node/src/pods.rs`, `private_metadata.rs` | `MembershipView` (verdicts of a set of events), `PodAccess` (what a session sends and takes), `PodMembership` | per device the events and payloads held, the view, what is held of the pod, its PMS, a join under way | acts, join step by step, sessions whole or cut, payloads, PMS exchange, settling |
| what a device holds of a pod through kills: `pods.rs` (create, join, record, sweep) | `PodHoldings` | the database in memory and on disk, payloads, binding, the call under way | each step of create, join and leave, sweep and notice, write-back, failure, kill |
| records of a pod: `pod/record_view.rs`, `pod/keys.rs`, `pods.rs`, `node.rs`, `access.rs`, `codec.rs` | `Records` | records, payloads and membership prefixes per device, sessions by phase, a leave's flush, streamed puts | put, append, streamed put, session steps, leave, remove, rejoin, kill |
| hosting and linking of identities: `pdn-node/src/linking.rs`, `ceremony.rs`, `identity.rs`, `runtime.rs`, `armer.rs`, `node.rs` | `Ceremony` (secrets), `Hosting` (create, link, start, stop, kill), `BlobCollection` (payloads and the collection), `NodeRuntime` (their composition) | node phases, stores in memory and on disk, hosting records, calls by program counter, serving halves, blobs and tags | each await of create and link, dialogue messages, roll back, confirmation, shutdown, kill, write, collection run |
| delivery: `engine/gossip.rs`, `engine/live.rs`, `data-layer/src/node.rs` | `Swarm` (subscriptions, neighbors, dials, retries), `Contacts` (derivation and tombstones), `CoLocated` (two identities of one node), `Delivery` (their composition) | subscriptions by generation, neighbors, retry series, stated contacts, derivations by program counter, pair memos | pass, watcher, write, announcement, session end, neighbor events |

`MC*` modules hold the instances and `*Proofs` modules the theorems and their lemmas. Several models
take their faults from a constant `Cases`: a record of *cases*, each a small story with
its own budget of what the environment may do (`left`), so that state spaces add up
instead of multiplying. Every bound of a counter is such a budget and appears in a guard.

How the parts meet in the code: the runtime's calls (`pods.rs`, `linking.rs`) write to
stores through the sync actor; writes are announced to gossip neighbors and to stated
contacts; the live actor dials, and each session is judged by `access.rs` on the
membership view; entries that arrive make payload fetches; a changed view derives new
contacts and notices, which the armer and the notice consumer turn into opened or
forgotten stores. Each model takes its neighbors as nondeterminism: for instance
`SyncSessions` does not say what an exchange carries, `Reconcile` says only that, and
`PodMembership` uses the result as one atomic or cut exchange.

## Runs

All runs end by themselves: a case is over when its budget is used up, which is why
deadlock is not checked (`CHECK_DEADLOCK FALSE`).

| run | instance and why it is enough | what it shows |
|---|---|---|
| `sessions` | two parties, both stores of a pod, three connections; two asks with one lost end, or a leave and return with an unwritten refusal. Three connections let a dial, its crossing dial and a redial be open at once | `HeldIsAwaited`: a record-store dial is held only on an exchange that runs or is to be redialed. `SlotHasExchange`: a running slot has a task, a result or a dial behind it. `RecordsFollowMembership`: a record store is not dialed beside the membership exchange it waits for |
| `settle` | one ask and news on both sides, no faults, fairness | `OneServed`: at most one exchange of a pair is served. `Settles`: every slot becomes idle and held dials go, redials in a row included |
| `in_process` | one exchange inside a process, which times out | expected violation of `SlotHasExchange`: see *Where the code and its documents part* |
| `membership` | four devices of three identities, up to three acts; or departures and rejoin with cut sessions, late payloads and faults | `OwnerKept`, `NoLoop`, `DepartureStands`, `JoinAdmits` on every device's view, whatever prefix of the events it holds |
| `pod_settle` | a pod of one, joined by two devices of one identity, with removals and leaves, fairness | `Settles`: all views agree, and a device holds the record store just when its identity is a member |
| `fetches` | two stores sharing payloads, two providers with one fetch at a time; five budgets of inserts, sessions, news, neighbors and leaves | `BoundedPerProvider`, `SeriesGoesOn` (a paused provider has a timer), `NoneForgotten` (a lacked payload is wanted, parked or about to be scanned), `Settles` |
| `reconcile` | four keys of two authors, all pairs of small contents, filters on three keys, and three replicas with crossing sessions, a write and a cut | `Delivered`, `Refines` (every step is one of `Replicas`), `Ends` |
| `store` | seven cases with channels of one and two places, a cache of two peers | `FlushedIsDurable`, `JudgedAsServed`, `AuthorNamed`, `RecentPeers`, `LossTold`, `ActorGoesOn` |
| `node` | two devices, one identity, two secrets; creating, linking, killing, draining and collecting cases | `HalfHasOwner`, `PromisedComesBack`, `SecretServesOne`, `ConfirmedIsRecorded`, `PayloadKept`, `LinksSettle` |
| `delivery` | seventeen cases over two peers and two co-located identities | `NeighborsAreCurrent`, `UnreachedIsTried`, `QuietIsEqual`, `ContactsNeverGoBack`, `Settles` |
| `records` | two devices of the identity that comes and goes and one that stays; eight cases | `OneWritePerKey`, `WrittenCounts`, `FlushedIsHeld`, `NoneAfterRemoval` |
| `holdings` | one device and one pod, up to two kills, failures and cancels in each case | `ListedOpens`, `HoldingSettles` |

The comment above each property says which behaviour of the code it is about. Every
property has a mutant, an operator beside the real one that changes it as a plausible
mistake would, under which TLC violates the property.

### Fairness

* `SyncSessions`: a task of a session is polled and is bounded by
  `SYNC_SESSION_TIMEOUT`; results and timers reach the actor's queue. What an outside
  party does is owed nothing.
* `PodMembership`: the reconcile pass draws every contact again and again, the PMS has a
  pass of its own, a join's steps are timed. The conditions are written out as
  `[]<>~Due \/ []<>Step`, which is weak fairness with what enables the step stated.
* `Fetches`: a fetch ends by `NO_PROGRESS` at the latest; timers fire; the actor reads
  its queue. `Reconcile`: each side answers what it is sent, or the session is cut.
* `SyncActor`: the loop turns unless it waits for room in a channel; delays pass; a
  request is taken in its turn (`SF` on `AnswerLive`, as the queue is first in, first
  out and other requests are finitely many ahead of it).
* `NodeRuntime`, `PodHoldings`: a task under way goes on until it ends or is cut; the
  armer sweeps at each change of the PMS and each interval.
* `Delivery`: only in the case whose passes recur, as `pod_reconcile_pass` does.

## Proofs

Nineteen theorems in seven modules; an eighth, `HostingProofs`, holds lemmas. Each is
true for every value of the constants the `ASSUME`s of its module allow: any number of
devices, stores, keys, calls, secrets, cases and any budgets of faults. TLC evaluates
the `ASSUME`s on the instances of the runs, which check the same properties.

| theorem | says | needs beyond the `ASSUME`s |
|---|---|---|
| `SyncSessionsProofs`: `NoPairStuck`, `HeldAlwaysAwaited`, `RecordsNeverOvertake` | `TypeOK` and `SlotHasExchange`; `HeldIsAwaited`; `RecordsFollowMembership` | the first `~InProcess` (see the run `in_process`); two parties, as pairs are independent |
| `ReconcileProofs`: `SessionsKeepPromise`, `ExchangesAlwaysDeliver` | `Refines`, `Delivered` | |
| `RecordsProofs`: `WrittenAlwaysCounts`, `KeysAlwaysDiffer`, `FlushedAlwaysHeld`, `NothingAfterRemoval` | `WrittenCounts`, `OneWritePerKey`, `FlushedIsHeld`, `NoneAfterRemoval` | the second and third `NoKills`, as a kill breaks the second (`AppendedCases`) and takes what the flush's witness had not saved; the last `OneHost`, as a second serving member not yet told may relay |
| `PodHoldingsProofs`: `ListedAlwaysOpens` | `ListedOpens` | |
| `SyncActorProofs`: `FlushedAlwaysDurable`, `AuthorAlwaysNamed`, `JudgedAlwaysServed` | `FlushedIsDurable`, `AuthorNamed`, `JudgedAsServed` | the first `ReadersCommit`: no commit made for a reader fails (`FlushedCases` shows what happens when one does) |
| `NodeRuntimeProofs`: `SecretBuysOneTicket`, `HalvesNeverOrphaned`, `PromisedAlwaysComesBack`, `ConfirmedAlwaysRecorded` | `SecretServesOne`, `HalfHasOwner`, `PromisedComesBack`, `ConfirmedIsRecorded` | a call may be cancelled at any step but "idle" and a created identity is hosted nowhere before (`CasesAssumption`) |
| `DeliveryProofs`: `NeighborsAlwaysCurrent`, `ViewsNeverGoBack` | `NeighborsAreCurrent`, `ContactsNeverGoBack` | |

Hardly any of the properties is inductive. What the proofs add:

* `SyncSessions`. `Inv` adds that a pair outside the sync set is idle, since the
  operators on slots leave such a pair alone. `HInv` adds that dials are held only while
  the membership store is in the set: a redial out of it would release nothing. Handlers
  are compositions of freeing a pair, releasing and dialing, with a lemma for each.
* `Reconcile`. For the promise, `Inv` says that all that travels was written. For the
  delivery, `Owed` says that each key of a session is settled both ways or spoken for by
  a part of the message under way, and that the parts are honest about the sender's
  view; no key falls between two halves of a split range (`SplitCovers`). `HeadsInv` ties
  the heads to the contents.
* `Records`. `Inv` carries the writer's check to the moment an entry is judged: the point
  of the chain it names exists and counts its writer as a member. `Keys` adds that a
  member's store holds all it wrote at the point it writes at, `FlushInv` that a member
  that stays never loses an entry and has a payload only with its entry, `RemovalInv`
  that what sessions and disks carry to the departed was meant for it.
* `PodHoldings`. `IInv`: an entry has its tickets on disk wherever it is itself, the disk
  never runs ahead of the memory, and a call about to record has put and flushed both
  tickets. `CInv` does the same for the created event.
* `SyncActor`. `StoreInv` is what batches keep among themselves. `DurableInv`: what was
  acknowledged is committed or in the batch until a failure is told. `AuthorInv` follows
  the key through the loader's steps. `JudgedInv` ties the write count a client read to
  the entries it read after it.
* `Hosting`. `Base` is the shape of the tables, `SecretsInv` says which half of a
  dialogue has a secret in hand, `OwnersInv` who will undo what was brought up and is not
  hosted: a reservation keeps other links away, and nothing of an identity is shared
  before its create is over, so an undo touches its own attempt only. `RecordInv` adds
  that replicas, on disk or not, list only devices that recorded their hosting once an
  identity was handed out. `StepsOfTheHost` shows that each step of `NodeRuntime` is a
  step of `Hosting` or leaves its state alone.
* `Delivery`. `SwarmInv`: an "up" in the inbox stands in the topic or is taken back
  further down, and nothing is of a generation to come. `DerivationInv`: the derivation
  lock is a queue without repetition, and a view read under it is not older than what is
  tracked.

Only model-checked, and why:

* everything under fairness (`Settles`, `Ends`, `LinksSettle`, `HoldingSettles`,
  `ActorGoesOn`): the provers do not reason about `ENABLED` and liveness;
* `OwnerKept`, `NoLoop`, `DepartureStands`, `JoinAdmits`: verdicts are computed by
  recursion over a set of events, and induction over data is out of the provers' reach;
* `BoundedPerProvider`, `SeriesGoesOn`, `NoneForgotten`: the queue's operations are folds
  over sets of payloads and providers, for the same reason; so are `RecentPeers` and
  `LossTold`, over sequences;
* `OneServed`: true only without the departures and the unwritten refusals named above,
  and resting on the order in which both sides of several exchanges finish;
* `QuietIsEqual` and `PayloadKept`: true of the runs' cases and not of all, as
  `DeniedCases` and `SweptCase` show;
* `UnreachedIsTried`: a dial that outlives its store's leave can arm a series there, whose
  timer dials nothing and leaves the series unarmed when the store returns; the runs'
  cases have a store leave or a dial missed, not both. Dials and accepts of one pair
  that outlive their slot are taken to finish in the order they were opened.

## Where the code and its documents part

One disagreement is a run. `in_process`: the time-out of an in-process accept
(`pdn-store/src/net.rs:465`) answers without the namespace, so the slot it took stays
running, against the comment quoted in `PROJECT.json`.

Others were met while modelling. Each is shown by giving the constant named here in the
module's configuration in place of the run's own, with the invariant alone.

| where | what the code does, and what is said of it | case set and invariant |
|---|---|---|
| `pdn-store/src/engine.rs:541` | `sync_in_process` answers `Ok` once the first message is handed over, so a session that fails later still makes `reconcile_co_located` keep its reading; `node.rs:5119` says it is kept "only if the session went through" | `Delivery`, `DeniedCases`, `QuietIsEqual` |
| `data-layer/src/node.rs:1140` | a create dropped while its record is written is undone and the record is written all the same; the doc above says "the record never names a replica, or an identity key, the disk does not hold" | `NodeRuntime`, `DroppedCase`, `RecordNamesReplica` |
| `data-layer/src/node.rs:3351` | an identity provisioned during a collection run is in no read of it, and its first payload may be swept; `tests/blob_collection.rs:1-4` says a payload stays while a replica names it | `NodeRuntime`, `SweptCase`, `PayloadKept` |
| `pdn-node/src/pods.rs:1285` | `offered_seq` compares chain lengths: a leave unseen by the inviter and a promotion unseen by the joiner at one sequence make a join admit nobody; `pods.rs:1279` says the event goes past a departure not yet seen | `PodMembership` with `Device <- Couple`, `Who <- WhoCouple`, `CrossedCases`, `JoinAdmits` |
| `data-layer/src/pod/record_view.rs:101` | an operation forgotten in a kill, held by another device, shares its key with the next; the doc says "the count continues across a restart" | `Records`, `AppendedCases`, `OneWritePerKey` |
| `pdn-store/src/store/fs.rs:287` | a commit failing for a reader loses the batch and the next flush answers `Ok`; `api.rs:181-183` says flush answers the error of a failed commit | `SyncActor`, `FlushedCases`, `FlushedIsDurable` |
| `pdn-node/src/observation.rs:336` | a consumer making room between two reads lets a store's end pass before the mark of what it lost; the comment below says it goes behind | `SyncActor`, `EndCases`, `EndIsLast` |

Further, without a case of their own: a redial armed for `Resync` that fires into a
running pair is dropped with its news (`engine/state.rs:289`, against
`live.rs:1532-1536`); two sessions of a pair are served at once after a store leaves and
returns during an exchange, or after a refusal that could not be written
(`codec.rs:438`), which is why `OneServed` is asked where neither happens;
`release_peer_identity` is called for every finished accept, not the refused ones alone
(`live.rs:380-386`). Two owners who leave, or remove one another, leave a pod without an
owner: that is the design, and `OwnerKept` is about demotions.

## Limits of each model

* `SyncSessions`: contents of exchanges are not there; the actor's messages are taken in
  any order, which the biased select of `live.rs` narrows.
* `PodMembership`: signatures and key bytes are left out, every event is one an
  unmodified device signs. Loops of acts need sessions cut between entries and are then
  broken as the code does; `NoLoop` asks for none where sessions are whole. `Settles`
  is asked without faults: a join served between an inviter's leave event and its
  `forget_pod` is written where no tombstone serves it. Two devices of one identity that
  join through one inviter write the same `Joined` key, and the later event replaces the
  earlier.
* `Fetches`: a payload fetched for a store that left leaves its pair parked; unwanting and
  wanting again may run a second fetch; two outstanding scans lose one `met` flag.
* `Reconcile`: fingerprints do not collide, and the checks of signatures and of
  timestamps in the future are in the rule `takes`.
* `SyncActor`: a dropped replica keeps its rows of latest heads; the idle timer may put a
  batch off until its age is due; the peers table is checked where no batch is lost.
* `NodeRuntime`: a kill is of the process; a power loss can take the hosting record back
  (`node.rs:1137-1139`). Shutdown is called once the host has waited for its own calls
  (`runtime.rs:738-742`).
* `Delivery`: a notice a pass reports is dropped here, and `PodMembership` models what
  it leads to. Start and forget of a pod exclude one another by the runtime's lock.
* `Records`: the guest's chain is one line; `NoneAfterRemoval` is about direct service,
  as a third member not yet told may relay; a put acknowledged between a leave's flush
  and its departure goes with the store.
* `PodHoldings`: one device and one pod, created here or joined and not both
  (`CasesAssumption`); a create that failed with its record unreadable stays held and
  unlisted; discarded replicas may come back on disk after a kill, unregistered.

## Not modelled

Hosts (`pdn-node-http`, `pdn-mobile`) delegate to the runtime and do I/O. Encodings,
keys, tickets and payload formats are values here. Table layout, queries and bounds of
the store are sequential scans of one snapshot. Address books, path selection and the
registry have no protocol between steps. `pdn-layer` has no user, and `test-utils` and
`pod/testing.rs` serve the repository's own tests. The transport, the gossip swarm, the
blob store and the operating system's kill are external and modelled from how the code
uses them.
