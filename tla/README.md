# TLA+ models of orbitdb-storage-bridge

This directory holds TLA+ specifications of the library in `src/lib/` and of its demonstrations, the TLC configurations that
check them on small instances, and proofs, checked by TLAPS, that hold for every value of the
constants. `PROJECT.json` lists the components, the runs, a mutant for every property, the source
lines of every definition, the findings, the hazards and the theorems.

## 1. The system and its parts

The library copies OrbitDB databases to places that outlive the device, brings them back, and
replicates them over carriers that are not IP. Everything is single-threaded JavaScript: between two
`await`s nothing else runs, and at an `await` anything may. What can go wrong goes wrong there, in
what the storage services answer, and in what is left after a crash.

| Part | State it keeps | Operations | Hard behaviour |
| --- | --- | --- | --- |
| **Live backup** `live-backup.js` `createLiveBackup` | `state` (sequence, base, previous, heads per database), `watched` with the set of shipped hashes, `pending`, `inflight`, `again`, two timers; in the state store: a JSON copy of `state` | `watch`, `unwatch`, `start`, `stop`, `close`, `flush`, `rebase`; on an `update` event, on either timer | three calls in progress at once, updates at every await, uploads, pins and saves that fail, crashes between upload and save |
| **Increment merge and restore** `live-backup.js` `mergeIncrements`, `assertContiguous`, `joinIncrements`, `restoreFromIncrements` | none | merge increments over a base, refuse holes and duplicates, join the heads | what an accepted chain can restore |
| **Courier sync** `courier-sync.js` | outbox, parked blocks, the receive queue, pending and seen operations, peers heard, the database handed out or not | `start`, `stop`, `announce`, `hello`; messages announce, want, blocks, op, hello, here | lost, duplicated and late messages, an outbox that supersedes and sheds, first contact, echoes |
| **Memory courier** `memory-courier.js` | subscribers | `send`, `onPayload` with drops | the network of the courier |
| **Aleph messages** `backends/aleph-pin.js` | none here; messages on Aleph: pending, processed, rejected, forgotten; the owner's authorizations | pin, wait, list by page, forget in batches, authorize, revoke | answers that settle later, listings that change between pages, read-modify-write of a shared list |
| **Aleph backend** `backends/aleph.js`, `aleph-upload.js` | none | `putBlob` by ingest with a fallback to the API node, `getBlob` | a timeout or a 404 on one way, the upload done or not |
| **Mirror** `backends/mirror.js` | none | `putBlob`, `pinCid` to every member in parallel, `getBlob` from one after another | some members fail; ids differ between members |
| **Choice, resolution, contract** `backends/choose.js`, `resolve.js`, `types.js` | none | order drivers, accept a driver in several forms | pure functions |
| **Encryption** `backends/encryption.js` | none | seal before `putBlob`, open after `getBlob`, refuse plaintext | pure functions over another driver |
| **Other drivers** `pinata.js`, `lighthouse.js`, `memory.js` | none (memory: a map) | one HTTP call each | none of their own |
| **Pointers and dehydration** `pointer-ipns.js`, `dehydrate.js` | an IPNS record with a sequence number | publish, resolve; back up and drop, restore on demand | an older record answered first; a drop after a failed backup |
| **Fetching** `gateway-fetch.js`, `peer-fetch.js` | requests in progress | try gateways, ask peers | deduplication, timeouts, one failing source of several |
| **Restore from blocks** `restore-cid.js` | none | put blocks, reopen each database, join heads | heads that cannot be joined, entries nobody has |
| **Full backups** `extract-blocks.js`, `app-backup.js` | none | walk a database's blocks, bundle, seal, open, check | databases written to while they are bundled |
| **CAR backups in a space** `backup-car.js` | CARs and metadata in a Storacha space | back up, list, find the latest, restore | a listing that lags, has no names, and is read file by file |
| **Bridges** `orbitdb-storacha-bridge.js`, `ucan-bridge.js`, `backends/storacha.js` | single blocks in a space | back up and restore block by block, clear the space in two layers | a space cleared meanwhile, blocks missing, the type of a database inferred |
| **CAR storage** `car-storage.js` | a map of entries, a dirty flag, one file | put, del, clear, persist, close, flush | a flush over several awaits, a crash between unlink and rename |
| **Alice-and-Bob pages** five `.svelte` pages | two personas' nodes, databases and flags | initialize, add, back up, restore, reset | a reset at any moment; handles that go stale |
| **Recovery demonstration** `examples/svelte/recovery` | a stack and a list per phone; one pointer | key, list, add, back up, restore, forget | a pointer that several phones replace |
| **IPNS helpers, utilities, logins, command-line examples** | none | | |

How they interact: a live backup reads OrbitDB logs and calls `putBlob` and `pinCid` of one backend,
which may be a mirror of several or sealed by `withEncryption`; on Aleph, keeping what was uploaded is
a message that settles later. A restore lists messages, fetches blobs, merges increments over a full
backup, and hands blocks and heads to `restoreFromBlocks` or to a database that is open. The courier
exchanges blocks of the same logs between peers.

What makes each correct:

* **Live backup.** An entry counts as shipped, in memory or in what a restart resumes from, only when
  it can be had back. Increments form a chain a restore can follow. Nothing written is forgotten
  while the watcher runs. `rebase()` starts a clean chain.
* **Restore.** What is accepted can be joined; what was shipped comes back.
* **Courier.** Peers that keep talking converge; a database is handed out only once its bootstrap is
  joined; an operation is performed exactly once by each peer; the outbox stays bounded and never
  blocks the receive path.
* **Aleph, mirror.** What is reported forgotten is forgotten, what is to be kept is not; a grant is not
  lost; a blob that was reported stored can be read through the handle that was returned.
* **Full backup.** A refused restore changes nothing; a finished one brings back what was read.
* **Space.** What is found restores, and it is the latest; nothing listed is silently left out.
* **Handover.** A record points at what is stored whole; the last one is found; what is sealed comes
  back whole or not at all.
* **CAR storage.** An unchanged storage is what its file loads as.
* **Pages.** A reset finds every node; a handle that a button uses is open. **Recovery.** Nothing a
  pointer has named is lost while phones take turns.

## 2. Plan

In order of importance, each with its section below:

1. **LiveBackup**, with **BackupPromise** as the abstract specification it implements, and
   **IncrementRestore** over what it uploads (3). *Done; all but liveness proved.*
2. **CourierSync**, the delta plane, with **Replicas** as the abstract specification it implements, and
   **CourierOps**, the operation plane over it (4). *Done but for presence; all but liveness
   proved.*
3. **FullBackup**: bundle, CAR, and the restore from blocks (5). *Done and proved.*
4. **SpaceBackup**: both bridges over one shared space (6). *Done and proved.*
5. **Mirror** and **GatewayFetch**, composed in **Handover** (7). *Done and proved.*
6. **AlephAccount**, **AlephGrants**, **CarStorage** (8). *Done and proved.*
7. **PageFunctions** and **TodoPages**, **Recovery** (9). *Done and proved.*

What a continuation would take up: the chain of increments across a `rebase()`; presence in the courier;
the drivers that retry (Pinata, Lighthouse).

Modules to be proved about declare no RECURSIVE operator: reachability in a log is the least set
closed under `next`, written with quantifiers. Nor do they take helpers whose library definition is
recursive: the outbox of CourierSync is filtered by its indices, an Aleph listing is a set of stores with the
pages they were on.

## 3. LogGraph and LiveBackup

`LogGraph` is the log as a graph: entries, what each points back to (`next`), heads, and the two
walks, `Reach` (`reachable`) and `Walk` (`newEntries`). An entry is written once and signed, so `next`
is a constant: it fixes which entries may ever exist and what they will point at. `GraphAssumption`, that
every set of entries has a head in it, says that `next` has no circle, as entries are named by their hashes.

### What stands for what

A step is the code between two awaits. `pc` holds where each of the three calls that can be in
progress is: `ship` (the flush in flight, `inflight` in the code), `start` and `rebase`. All three
begin with `load()`.

| In the module | In `live-backup.js` |
| --- | --- |
| `log`, `Update`, `unheard`, `HearUpdate` | OrbitDB appends and then emits `update`; `onUpdate` (636) runs when the event fires |
| `LoadAnswer`, `LoadWalk`, `LoadFails` | `load()` (673): the store's answer, then `reachable()` (149) per database |
| `Flush`, `TimerFires`, `SettleFires`, `RequestFlush`, `EndFlush` | `flush()` (776) with `inflight` and `again`, `schedule` (616), `scheduleFlush` (627) |
| `ShipCount`, `ShipOwn`, `Capture` | `ship()` to the call of `collectIncrement` (703-716) |
| `Collect`, `CollectFails`, `Walk`, `ShipNothing`, `ShipUpload`, `Increment` | `collectIncrement` (203), `newEntries` (168); `ownBlocks()` (709) or `log.heads()` (169) that rejects |
| `PutBlob`, `PutFails`, `Pin`, `PinFails`, `PinSettles` | upload, `pinCid` and `confirm` (721-740) |
| `Move`, `Save`, `SaveFails`, `EndSave` | the move of the state (742-757), `save()` (698) |
| `Rebase`, `RebaseReset`, `RebaseHeads`, `RebaseWalk`, `RebaseFails`, `RebaseSave` | `rebase()` (810): per database, the await of `log.heads()` (817), which may reject, then that of `reachable()` (818) with the write-back (819-820) |
| `Start`, `StartTimers`, `Stop`, `Close`, `Watch`, `Unwatch` | the functions of these names |
| `Crash` | the process ends; `createLiveBackup` is called again with the same databases and store |

Decisions a reader should know:

* `Collect` takes one step per database, at the moment `log.heads()` is answered. What the walk reads
  behind those heads is immutable, so later appends cannot change what it finds, and nothing is written back
  until `Move`. `rebase()` does write back after its walk, so there `RebaseHeads` and `RebaseWalk` are two
  steps; a database that is unwatched between them keeps the heads in the state and loses the set.
* Several answers of the event loop can be ready at once. A continuation that needs no further
  await runs before the next task: `At` and `Drained` say so. When a flush and a `rebase()` come back
  from the same `load()`, the one that called first goes first; `rebase.behind` remembers that the
  flush `rebase()` waited for started the next one in its `finally`, before `rebase()` went on.
* `store.load()` answers all calls that asked, and two walks of one database within `load()` end
  together. The code lets each walk end on its own; both compute the same set from the same heads.
* `Move` takes the JSON copy that `save()` writes (700), so a later change of `state` does not reach
  a save under way.
* A blob's id is its index in `blobs`; content addressing, CAR encoding, names, sizes and block
  formats are left out. A block is its entry; manifests, access controllers and identity blocks
  travel with every increment and are left out. `own` says whether the application handed blocks over.
* `unread` and `lost` in `Collect` stand for `storage.get()` and `log.get()` that reject, only with
  the fault `read`.
* `declared` is a history variable: what a `rebase()` declares to be backed up by other means. So is
  `overtaken`: a remembered flush has started before a `rebase()` that waited for the one before it.
* `onShipped` that throws is `SaveFails` after a completed save, which adds no state. `lastShipped`,
  `lastError`, `failures` and `status()` only report. One `start()` is in progress at a time; a state
  store is always configured.
* When `MaxBlobs` uploads have been made the backend accepts no more; the flush then stays at the
  upload, which no property depends on. The faults come from one budget, `MaxFaults`.

### BackupPromise

Four sets: written, archived, counted (what the running watcher passes over), resumed (what it passes
over after a restart). Counted and resumed only ever become subsets of what is archived at that
moment, and the archive forgets nothing. `KeepsPromise` says that LiveBackup implements it, with
`archived` mapped to what kept increments and declared backups hold, `counted` and `resumed` to
everything behind the shipped entries and behind the saved heads.

### Runs

The runs instantiate `MCLiveBackup`, that of `rebase()` `MCRebase`. `Fork` is a log of three entries in which 2 and 3 both point at 1,
as two devices write it: the smallest with a walk that meets a shipped entry on one branch and not on
the other, two heads, and a merge. `Lines` is two logs of one device, of two entries each; what is written first decides which of them a run
goes on with.

| Run | Question | States |
| --- | --- | --- |
| `live_backup_crash` | With two faults out of load, walk, put, pin, save and crash at every point: is what is passed over kept, is every kept increment joinable over its chain, does the chain link, does the chain a state names restore, is BackupPromise implemented? | 950 000 |
| `live_backup_timers` | With `start`, `stop`, `flush`, both timers and one fault, under fairness: is an unshipped entry always pending, is the store level with the memory between calls, does every entry ship? | 140 000 |
| `live_backup_rebase` | With rebase() at every await, and no confirm(), beside a watcher that starts and stops, or beside databases that come and go: does nothing count that was neither uploaded nor declared, do uploads link, and, unless a flush overtook the rebase(), stay on one base that starts at 1? | 1 900 000 |
| `live_backup_overtaken` | Does a base always start at 1, as the comment of `rebase()` says? No: section 11. | violated |

Instances of these modules under other constants show what section 11 reports besides: a backlog whose first
flush fails, logs with a read that fails. They are not among the runs.

Two faults are enough for the pairs that matter: an upload whose answer is lost, then a crash; a
refused pin, then a failed save; a crash, then a load that fails. Three blobs allow an increment, a
second of the same number beside the chain, and one after it. In the rebase run one `rebase()`, with
or without a base, meets at most two uploads, one of which may be under way. `Beside` in `MCRebase` parts the run
by its two logs. Over the first the watcher is started and stopped, so that a flush that ends under `rebase()`
starts the next one and the properties meet the overtaking they except; one `log.heads()` may fail, and before
the `rebase()` a pin may be undecided. Over the second there are `watch`, `unwatch` and `close`, without a failure, a
running watcher or an undecided pin. All of it together is out of reach, and left to the theorems of section 10.
More entries or rebases make the state space grow past what a run should take.

These runs check for deadlock: a stopped watcher can always be started again.

### Fairness

`FairSpec` asks weak fairness of every continuation and timer: `LoadStep`, `CollectStep`, `StoreStep`,
`RebaseStep`, `StartTimers`, `TimerFires`, `SettleFires`, `HearUpdate`. The event loop runs every
callback that is ready, `setTimeout` fires, and a call to the store or the backend is answered unless a
fault is drawn. Nothing is assumed of the application's calls, of `Update`, or of faults. `EverythingShips`
also needs an interval (`every`): with `after` alone a failed flush waits for the next write, which the
code does not promise otherwise.

## 4. CourierSync

### What stands for what

A peer is one `createCourierSync()` together with its OrbitDB database. `log`, `store` and `phase` outlive
the program; the rest is the closure's variables.

| In the module | In `courier-sync.js` |
| --- | --- |
| `Message`, `Announce`, `Want`, `Blocks` | the wire messages (20-28); `have` of a want is in `heads` |
| `inbox`, `Task`, `Handling`, `TaskDone` | the promise chain `queue` and `handlePayload` (1166): one task after the other |
| `HandleAnnounce`, `HandleWant`, `HandleBlocks` | the handlers (943, 984, 1005) |
| `Held`, `Delta`, `Standing` | `reachableFrom` (284), `createDelta` (337), `announce` (847) |
| `parked`, `Missing`, `ApplyPart`, `ApplyWhole`, `AckDone` | `pendingBlocks`, the closure check and the joins of `applyDeltaToStores` (485), the rest of `handleBlocks` (1032-1058) |
| `phase`, `OpenDatabase`, `OpenFails` | `opening` and `database`, `openIfPossible` (897) |
| `outbox`, `sending`, `Put`, `Enqueue`, `NextOut`, `SendResolves`, `SendFails` | the outbox, `pump`, `send`, `transmit` (686-802) |
| `Write`, `HearUpdate`, `HandleSoon` | a local write, `onUpdate` (927), the announce it queues |
| `Start`, `StartDone`, `RejoinFires`, `Stop`, `Poke` | `start`, its rejoin timer, `stop`, `announce` of the handle |
| `air`, `Deliver`, `Lose`, `Double`, `Overtake` | the courier: broadcast, lossy, duplicating, reordering |

Decisions a reader should know:

* A handler is one step, but for the delivery of blocks: a local write may come between the closure
  check and the join, while the "update" event is ignored (`busy` is `apply`), and the handler waits for
  its closing announce (`ack`).
* What is heard is heard by all listeners at one moment, except by the one it is lost to. A receiver's
  own pace shows in its `inbox`.
* `Slow` says whether a message may take longer to send than to be answered. If not (`Sent`, `Heard`),
  what is in an outbox has been sent before a message is handled, and handled by all before the next
  arrives. The storm run is slow; the others are not, which is a restriction of them.
* `RejoinFires` and `Poke` find nothing under way: their intervals are longer than a round of messages.
* The manifest and the access controller are one block; identity blocks travel with their entries and
  are left out; `refs` point at ancestors, which `next` reaches as well. A head that is no log entry is
  `malformed` in the code; heads are entries here. A `joinEntry` that refuses is not modelled.
* Framing, tags, sender ids, events and statistics are left out. Every peer has a sender id.
* `Airtime` bounds how many messages are delivered in the overheard run, where three peers answer each
  other at great length. `harmed` is a history variable.

### Replicas

A log per peer. It changes by a local write, which points at its heads, or by taking over heads of
another peer's log with all behind them. Nothing is taken back and nothing appears that nobody wrote.

### Runs

| Run | Question | States |
| --- | --- | --- |
| `courier_sync_storm` | Founder and joiner on a slow carrier, outboxes of one message, a write at any moment, one fault of any of seven kinds: do peers that have gone quiet hold the same log unless something was taken away; is the database handed out with all that the completing delivery named? | 2 900 000 |
| `courier_sync_overheard` | Three peers with nothing, the root and everything: does a log ever have a hole; does it change as Replicas says? | 1 800 000 |
| `courier_sync_heals` | Two faults out of losses, failed sends and opens, stops and crashes: do the peers end level if the application starts them and pokes? | 450 000 |

Two entries in a line are enough for a peer that is behind, one that is ahead, and a write that races
a delivery; an outbox of one makes every second answer shed or supersede; three peers are the fewest
that overhear. `CHECK_DEADLOCK FALSE` is said in storm and overheard, where the exchange
comes to rest or the airtime is used up.

### Fairness

Handlers run to their end, timers fire, a send resolves or fails (`sendTimeoutMs` sees to it), and
what is in the air arrives unless a fault takes it: weak fairness of `Handle`, `StartDone`,
`RejoinFires`, `SendResolves` and `Deliver` for every peer. `Start` is fair, as an application that does
not start a sync has none. `Poke` is fair only in the heals run: `announce()` is the documented repair,
and without it a lost message need not be made good before the next write.

### The operation plane: CourierOps

`CourierOps` models `liveUpdates: "operations"`: a change travels as the operation (`buildOp`), which the
other device performs as a write of its own. The logs of two devices then differ by design; a
change is told apart by an id, and only an announce that says so (`r`) reconciles the logs.

| In the module | In `courier-sync.js` |
| --- | --- |
| `pending`, `going`, `Press`, `Flush`, `ShipTask` | `pendingOps`, `announce()` of the handle, `flushOperations` |
| `seen`, `Known`, `Remember` | `seenOps` and its limit SEEN_OPS |
| `HandleOp`, `Performed`, `PerformFails` | `handleOp`: remember first, write after |
| `HandleAnnounce`, `HandleWant`, `HandleBlocks`, `Missing`, `Applied`, `Reconciles` | the delta handlers, as far as this plane leans on them: a want is answered from the block storage (`store`, 996), parents of every parked block are asked for (499-507), a head that did not come is counted and not asked for (526-528) |
| `Post`, `Stale`, `Fresh`, `OpsPut`, `NextOut`, `SendResolves`, `SendFails` | the outbox of section 4; a waiting answer gives way to a newer one of its kind to the same peer (777-782) |
| `Write`, `overlooked` | a local write; one whose "update" comes while `applying` is set goes unnoticed |

The run `handover` (module `MCHandover`, section 7, with which this part shares no state) checks, over a carrier that loses, doubles, echoes and reorders, with a memory of two ids and
outboxes of two: `OnceEach` (no change is performed twice, none of its own), `ChangesArrive` (when all
is quiet and nothing was taken, every change noticed is everywhere) and `RepairConverges` (an announce
with nothing waiting levels the logs whatever went before). Two devices, two writes, one press, one
fault: the second write meets the first at every point of its way, and the outbox limit of two is met
by an operation, an announce and an answer. `spoiled`, `level` and `overlooked` are history variables
that name the known ways to lose something. `SeenOps = MaxWrites` makes the eviction of ids reach no
change that still matters; what happens beyond is in section 11.

## 5. FullBackup

One device reads databases that are in use, block by block, into a file; another, which may hold some
of them already, puts the file back.

| In the module | In the code |
| --- | --- |
| `Begin`, `Extract`, `Extracted` | `extractDatabaseBlocks()`, `log.values()` and the blocks behind it (`extract-blocks.js`) |
| `Describe`, `Seal`, `SealFails` | `bundleDatabases()`: the heads, two awaits later; `createAppBackup()`, `backupDatabaseCAR()` and their uploads |
| `Restore`, `Put`, `Seek`, `Join`, `OpenFails` | `openAppBackup()`, `restoreFromBlocks()`, `restoreFromCID()`: blocks into the blockstore, `requireHeads` and the second source, reopen, join |
| `Admits`, `HeadsOf`, `Stated`, `Joinable` | the refusals before anything is closed; which heads a file states or is found to have; what OrbitDB will join |
| `Write` | the application writes to the database that is being read |

`log.values()` and `log.heads()` are two awaits with a `get()` per block in between, so a write may
come after the one and before the other: `seen` (what was listed) and `heads` (what was stated) are
separate. `OpenFails` closes a database and fails to open it again. `full_backup` has the log `Fork` in one
database and one entry in another, two signers of whom one's identity block the database carries
itself, both shapes, all callers, one fault of four kinds and one backup; the restoring device starts
with any part of the logs. That is every place a single block can be missing at, and every write
between two awaits. Deadlock is not checked in this run and those below: the work comes to its end.

## 6. SpaceBackup

A space that two layers know: blobs, and uploads that the listing shows after a while (`lag`). Devices
back up as a CAR with metadata (`backup-car.js`), block by block (the bridge), or block by block with a
delegation (`ucan-bridge.js`); another device restores in one of eight ways (`Plans`).

| In the module | In the code |
| --- | --- |
| `BackupDatabase`, `Extracts`, `PutCAR`, `PutMetadata`, `PutFails` | `extractDatabaseBlocks()`; `backupDatabaseCAR()`: CAR first, then metadata |
| `UploadBatch`, `UploadBlocks`, `UploadBlocksWithUCAN`, `Killed` | `uploadBlocksToStoracha()`: batches, some refused, success told all the same |
| `Look`, `Backups`, `Newest`, `LooksAgain`, `LookFails` | `listAvailableBackups()`, `findLatestBackup()` and the retries of the bridge |
| `FetchMetadata`, `FetchCAR`, `PutBlocks`, `OpenFound`, `OpenCAR` | `restoreFromSpaceCAR()` |
| `Scan`, `Download…`, `Candidates`, `PotentialHeads`, `OpensAndJoins`, `OpenMapped`, `OpenWithUCAN` | the restores from single blocks |
| `InferredType`, `Writable`, `Import`, `JoinAnew` | the fallback when no manifest is chosen: payloads written to a new database of an inferred type, or entries joined to one |
| `ClearUploads`, `ClearBlobs` | `clearStorachaSpace()` |

A block of a database is an entry, the manifest, the access controller, or the identity of a writer
(`identity`, `Signers`): `extractDatabaseBlocks()` lists them all, the per-block backups upload them one by one, and
`joinEntry()` needs the identities of all it takes, but for those the device has (`Known`). So each of them can
be the block that is lost; the backup succeeds, the restore warns and succeeds, and `BlocksComeBack` says whom it costs: the heads
that stand on it, and no other.

`space_backup` has one database of three entries beside an empty one under another space name: a document
and its deletion by one writer, and an entry of another, the device's own; two backups, one clearing, one restore, one fault of seven
kinds (2 600 000 states). Its ACTION_CONSTRAINT `Bounded` leaves out what no property can see (writes with no backup to
come, uploads after the restore took its listing, a clearing once it has begun) and some cases, which
`MCSpaceBackup` names: uploads go on, and a clearing meets two backups, under two of the plans only, no clearing beside another fault, no second
backup by UCAN, and the second writer's entry comes first. `LatestComesBack`, `BlocksComeBack` and `PayloadsComeBack` speak of
restores that no fault and no clearing met (`clean`); what the code does in the others is in section 11.
The history variable `shown` is what a restore's listing named and the space had at that moment: with a
listing that lags, what the space holds later is more than a restore can know of.

## 7. Mirror, GatewayFetch, Handover

`Mirror` is `putBlob`, `getBlob` and `pinCid` over several services and the handle they share: `Merged`
lists the copies under the names their own handles carry, `IdFor` looks one up under the name of the
member. `GatewayFetch` is one read by address: each gateway up to three times (`Ask`, `Again`), then
the peers. `Handover` composes them: `dehydrate()` stores a CAR through the mirror, then metadata, then
publishes a record to every endpoint; `hydrate()` takes the first record it gets and fetches what that
names.

| In `Handover` | In the code |
| --- | --- |
| `Dehydrate`, `PutCAR`, `PutMetadata`, `Ends` | `dehydrate()` (`dehydrate.js`) |
| `PublishPointer`, `Sequence`, `Arrive`, `Miss`, `Settle` | `publishPointer()` (`pointer-ipns.js`): one PUT per endpoint; an endpoint keeps the higher sequence |
| `Killed`, `Keep`, `DropOne`, `Tick` | the process ends, a pin, a service that drops, the local clock |
| `Hydrate`, `Resolve`, `AskGateway`, `AskThePeers`, `Read`, `Opens` | `hydrate()`: `resolvePointer()`, then metadata and CAR over `fetchFromGateways()` and peers, opened or refused |

A pin may be refused by some of the services: those that took it keep it all the same (`PinCid`).

`handover`: two devices with one clock, three services (one of them wrapped, whose handles carry the
inner name), two gateways with different reach, two endpoints, one fault of twelve kinds, two backups,
one restore (670 000 states; the other 1 240 000 are the part of section 4, during which this one stands still). Symmetric devices share a symmetry set: they have the same clock and no property names
one. `Bounded` leaves out what the reader cannot see any more once it has its pointer, and faults
for the reader while a writer is at work; with two backups under way it leaves out refusals, drops, pins and a key that does not fit. `CopiesAreRead`, `PointsAtWhole`, `LastOneWins` and
`HydrateFinds` each relate several of these services: a record that was published before both blobs
were stored, a sequence that counts instead of following the clock, one retry too few. `due` is what had been
published when `hydrate()` was called. `HydrateFinds` speaks of fewer faults than there are endpoints, and
than a gateway is asked: as many passing faults at one gateway as it is asked leave the CAR unread, which a
run with two endpoints and one fault cannot show, and the proof did.

## 8. AlephAccount, AlephGrants, CarStorage

**AlephAccount**: `putBlob` and `pinCid` of `aleph.js` make STOREs, which the service processes or leaves
pending; `forgetAlephStores` lists them page by page (`ListPage`, filtered after the page was cut; `ListUnread`, an answer
that is no JSON, which reads as an empty page and ends the listing without an error), sends
FORGETs in batches (`SendForget`) and waits (`WaitForMessage`, `Bucket`); a FORGET may settle late
(`SettleForget`). `ForgetAccounts` says that the answer's five lists are true and cover what was listed, and that a listing
whose pages could all be read, with nothing between them, covers the account. STOREs are numbered as they are made, and a page is those whose rank, newest
first, falls in an interval (`Rank`, `PageOf`). **AlephGrants**: `ReadGrants` and `WriteGrants` are the two halves of
`authorize()` and `revoke()`, from several processes, with writes the service takes and processes later.
`GrantsStand` holds where calls come in turn (`inTurn`), as the code's read-modify-write of one list can
only promise. **CarStorage**: the flush await by await (`BeginFlush`, `Walk`, `WriteBlocks`, `Unlink`,
`Rename`), automatic or by `Persist`, calls that come meanwhile, and `Reopen` at any point.

`parts` (module `MCParts`) checks these three and the two of section 9, which share no state, one at a
time: `part` says which one moves, and the others keep one initial state. Four STOREs are there, six can be,
pages and batches hold two; two owners and three delegates make four writes; two keys, two values, two
overlapping calls, four operations and a flush threshold of two. `car_storage_close` runs CarStorage alone
and looks for the violation of section 11.

## 9. The demonstration pages

**PageFunctions** says, for each of the five Alice-and-Bob pages, what a button asks for (its `disabled`
and the function's early returns) and which awaits the function makes in which order, one definition
per function: `TodoBackupAlice`, `WebAuthn…`, `Simple…`, `Replication…`, `Undeclared…`. **TodoPages** gives
each await its meaning: `StartNode`, `CreateOrbit`, `OpenDatabase`, `Put`, `Backup`, `RestoreEntries`,
`RestoreByCID`, `RestoreKept`, and the cleanup step by step (`CloseDatabase`, `StopOrbit`, `StopNode`,
`ClearAndReset`). Alice, Bob and a cleanup may be under way together; a rejected await (`Refuse`, where the
page's state makes it certain, and `Fail`) skips the rest. `Replicate` is OrbitDB's own sync between two open databases of one
address. `astray` and `overlap` are history variables: nodes that a rejected await left behind, and runs in
which a cleanup met a function under way. `NoNodeLeaks` and `HandlesOpen` speak of the rest. Three nodes
suffice for two personas and one more after a reset, with one cleanup and one paid fault.

**Recovery** is the page for one security key and any number of phones. `Press` is `step()`, which lets one
step of a page run at a time; the two halves of a step are `UseTheKey`/`CreateStack`, `MakeList`/`CreateList`,
`Add`/`AddEntry`, `Dehydrate`/`Capture`/`PublishPointer`, `Hydrate`/`BringBack`, `Forget`/`ForgetEverything`;
`Fails` and `Breaks` are the step's `catch`, `Reload` comes 600 ms after a forget. Dehydrating and
hydrating are section 7's, here a capture, a put and a record. `based` and `crossed` are history
variables: the record a phone has joined, and whether one published without having joined the last, or
from another stack than its list's. `TurnsKeepAll`: unless that happened, the record holds every entry
any record has named. Two phones, two entries, two records, two stacks and one fault: a phone that
publishes, a second that joins and publishes, and each way that can be interrupted. The phones are
a symmetry set: nothing tells them apart.

## 10. What is proved

Eight modules hold theorems; all are checked by TLAPS to the last step, with no assumption beyond those
on the constants and the hypotheses named here. A hypothesis leaves out a case in which the
property is false of the model, and the sentence beside it says how.

### The live backup: `LogGraph_proofs`, `LiveBackup_proofs`

`LogGraph_proofs` holds the lemmas about walks. `Walk` and `Reach` are least closed sets, so they are about
closure: what a walk from the heads finds, together with everything behind what was shipped, is
everything behind the heads (`WalkCovers`), because the walk stops only at shipped entries; and the heads of a
log without holes reach all of it (`HeadsReachAll`), which needs `GraphAssumption`.

`LiveBackup_proofs` extends `IncrementRestore`, and proves for all databases, logs, options and bounds:

| Theorem | Holds | Hypothesis, and what happens without it |
| --- | --- | --- |
| `TypeCorrect` | `TypeOK` | |
| `ShippedEntriesAreStored`, `PersistedStateIsStored`, `ImplementsPromise` | `ShippedIsStored`, `PersistedIsStored`, `KeepsPromise` | `Trustworthy`: log reads do not fail (an entry whose read fails is passed over, 227), and the backend keeps what it is handed or is asked to and `confirm` waits (a pin may be refused later) |
| `ShippedEntriesWereUploaded` | `ShippedIsUploaded` | no failing reads; pins and `rebase()` may do what they like |
| `UploadsAreLinked`, `KeptAreLinked`, `BasesStartAtOne` | `UploadsLink`, `ChainLinks`, `BaseStartsAtOne` | for `ChainLinks` only, `Retentive`, the second half of `Trustworthy`. The exception is in the properties: a remembered flush that overtakes a waiting `rebase()` carries the old number into the new base (section 11); what it leaves is a link of the right number to another base |
| `IncrementsJoin`, `NamedChainsRestore` | `EveryIncrementJoins`, `NamedChainRestores` | no failing reads; until the first `rebase()`: a flush between its reset and its walk of a database names heads that neither the new chain nor the new base carries yet |
| `StoreHoldsTheState` | `PersistedWhenQuiet` | no failing saves; until the first `rebase()`, whose save may overlap with that of a flush: the store keeps the one that came last, which need not be the state |
| `UnshippedIsCounted` | `UnshippedIsPending` | no `watch()` on the way, no crash and no failing reads: what was written before a watch or a restart is left to the next flush and not counted, so it waits for the next write if that flush fails; until the first `rebase()`, whose `pending = 0` (822) forgets an update |

The arguments. `Covered` says that the past of the shipped entries and of the state's heads is safe
(`MemoryIn`), the past of saved heads and of a save under way is safe (`StoreIn`), and that what the
flush in progress has collected is behind shipped entries or in the increment it is uploading (`ShipIn`,
`UploadInFlight`). The last two are the strengthening: `ShippedIsStored` alone says nothing of a flight
that is about to move the state. What is kept only grows, and so does `declared`; so safety, once reached,
stays. The parts take the set of what is safe as a parameter: with `Archive`, everything uploaded or declared, the
same lemmas give `ShippedIsUploaded`. The refinement adds `Grounded`: everything that is safe has been written.

The chain rests on `Control` (where each call can be, and that one flush at a time is past its load) and
`Linked`: every upload, every state in memory, in the store or on its way there, and the increment being
made names, by number and address, an upload numbered one less, or none at number 0; and of the same base, until a flush has
overtaken a `rebase()`.
`Joined` adds that what a state's heads reach is in the entries of its chain, and each upload's heads in its own.
`Chain` is the least set of uploads that a link leads to; `ChainFrom` of an upload is itself and the chain of the one
it names, an upload added later leaves it alone, and `ChainsNumbered` says that its numbers are 1 to n, each
once, so that `assertContiguous()` accepts it.

### The courier: `CourierSync_proofs`, `CourierOps_proofs`

* `LogsStayClosed`: `Spec => []LogsAreClosed`, for every number of peers, every log, carrier and fault. The
  invariant is closure itself; `Missing` is empty where blocks are joined, so what the heads reach stays among
  the parked blocks and the log, is stored by then, and is taken over (`JoinKeepsClosed`).
* `ImplementsReplicas`: `Spec => Replicates`. The invariant `Said` is about messages, wherever they wait,
  travel or are handled: a message names heads its sender has, and a sender's log only grows.
* `HandedOutBetweenTwo`: `Spec => HandedOutWhole` between two peers (`Two`), as many as the run has. With five
  it is false without any fault, which the proof attempt showed (section 11): what is overheard can complete
  a first contact whose message names heads the joiner does not have. `Said` adds that between two,
  all blocks open a database, heads and all, until it has been handed out.
* `QuietPeersConverge`: `Spec => []ConvergedWhenQuiet`, for any number of peers and joiners, any logs and graph, any
  `MaxOutbox`, with second copies, late messages and superseded or shed replies. The hypothesis is `Founded`: if
  there is a joiner, some peer that is none begins with an entry. Without it the property is
  false: a joiner that hears of an empty log is not told to ask, and is quiet until its rejoin timer fires
  (section 11). `LocalPeersAreLevel` says the same of the peers that have the database and needs no
  hypothesis. The invariant `Level` adds to `Said` and closure:
  - `Levelling`: of two started peers, one that has the database and lacks something of the other's log has a `Route`: it
    has said something the other has not heard, or the other has said something that makes it answer, ask or join
    (`Tells`), or one of them is joining or has an announce of its own to make. Every handler trades one for
    another. What makes it hold when a reply is superseded or shed is that a peer's *last* message is always still to
    come (`EnqueueAdds`), and that any message of the one that lacks makes the other answer with what it lacks.
  - `Joining`: where no two differ in that way, a started peer without the database that another has entries for
    has a `Way`: it has said something, an announce with heads or blocks with the manifest are on their way
    to it, or some exchange of others is, which ends in such an announce. A delta holds the
    manifest only on first contact, so a joiner that overhears blocks of others may not be able to open; the
    announce that follows the join of those blocks is what makes it ask.
  - `Speakers`: who was not started has said nothing; `Steady`: who was started and has the database listens to its
    updates. Any fault that could break one of the two is one that takes something away.
* `PerformedOnce`, `ChangesComeThrough`, `RepairEnds`: the three properties of CourierOps, for any number of
  writes, presses, stops and faults, any memory and any outbox. All rest on `Sound`: types, the graph of
  entries, honest messages (what an announce or blocks name as heads their sender has, an operation is of a change
  somebody made), and that whatever waits to be shipped is the device's own change. `Held` adds that what is parked or
  stored has been written, and that blocks being handled are parked.
  - `Unique`, for `OnceEach`: while there are no more changes than `SeenOps`, nothing is forgotten, so who wrote
    a change, or performed it, or is about to, remembers it, and its entries are one per device.
  - `Arriving`, for `ChangesArrive`: if nothing was spoiled, a change that its writer noticed is on the other device,
    or waits at the writer, or is an operation on its way, or has a route; and what a device remembers it has, or
    is performing.
  - `Levelling`, for `RepairConverges`: while `level` holds, an entry that one device lacks has a route.
    `Route` is what makes this inductive: on its way to the device that lacks the entry is a message that says
    it has it (`Says`: blocks, or an announce that asks, with the entry behind its heads), or on its way to the one that
    has it is a message that makes it send (`Asks`: a want, or an announce that asks). Every handler trades
    one for another, and superseding an answer loses nothing, since the newer one of the same kind to
    the same peer says as much.

  A missing entry that a request names is a largest one, in the order of writing; it is found by the least
  element of a well-founded order (`WFMin`, `NatLessThanWellFounded`), which needs no induction.

### Full backups and the space: `FullBackup_proofs`, `SpaceBackup_proofs`

`FullBackup_proofs` proves, for every graph of entries, every number of databases, backups and faults:
`FullTypeOK`, `FullSnapshotRestores`, `FullRefusedTouchesNothing`, `FullAppJoinsWhatItHas` and `FullNoSilentHead`. The
invariant `FullInv` has five parts: `Logs` (no log has a hole), `Making` (what a backup in progress has read belongs to
the databases it has listed), `Shelf` (the same of finished ones), `Bringing` (while blocks are put and heads sought nothing
has changed) and `Restored` (a database the restore has opened holds the past of what was joined).
`HomeAssumption` keeps `next` within a database, `BlockAssumption` the CIDs apart. That a CAR holds
one database only (`OneOnly`) is what makes heads found among its blocks those of that database.

`SpaceBackup_proofs` proves `LatestRestores`, `FoundBackupsRestore`, `SingleBlocksRestore` and `PayloadsRestore` for any
number of devices, databases, backups, clearings and faults. `SpaceInv` adds what each finished backup left in the
space, that a CAR precedes the metadata that names it, and, for each step of a restore, what it has read
and what of `shown` it still holds. `LatestRestores` assumes `MaxBackups < Enough`: a look stops after
20 backups in listing order (`backup-car.js:569`), and with more it may miss the latest, as section 11 says.

### Handover: `Handover_proofs`

For any number of devices, services, endpoints, gateways, backups and faults:

* `RecordsPointAtWhole`, from `Written`: a backup's handles are made of copies that were stored, by every
  service if all are required, and a record, a PUT in the air or one accepted names a whole backup.
* `CopiesComeBack`: `CopyIsRead` finds a service's copy under the name its handle carries (`Proper` names the
  services for which this is so), whichever others refuse.
* `LastPublishedWins`, from `Timely` and `Pointed`: where the clocks agree and no two were published in one second,
  sequences rise with the order of publishing, so the highest an endpoint has seen is the last it was sent.
* `WhatIsPublishedIsFound`, from `Counted`, `Reached` and `Finding`: every missed PUT and every failed answer was paid for
  with a fault, so with fewer faults than endpoints one of them has the record and answers, and with fewer
  than a gateway is asked (`MaxAttempts`) one that has both blobs answers in the end.

### Aleph, CAR storage, Recovery, the pages: `Parts_proofs`

* `AccountsForgotten`: the answer's buckets are apart and true of the account; what was listed is in them, and
  the pages cover the account if all were read and nothing came between. Listing rests on counting: ranks of the processed stores are 1 to their number, each once, so
  pages of ranks partition them, and a page that is short, or the total, is the last.
* `CarFlushedIsSaved`: the property says nothing of a flush under way; `CarInv` adds that there is one flush at most,
  that the storage counts as changed during it, and that what is on its way in the temporary file is the
  cache (`OnItsWay`).
* `GrantsStandInTurn`: `GrantsInv` adds what a call in flight has read (`ReadsTheLatest`) and what the one write the
  service has yet to process will leave (`LeavesWhatWasAsked`).
* `RecoveryTurnsKeepAll`: `RecoveryInv` adds that what a step found when it was pressed is so until it ends
  (`Pressed`), that a phone which has joined the last record on the stack of its list holds all of it (`Joined`), and that a
  put carries what that stack holds (`Carries`).
* `NodesAreFound` and `HandlesStayOpen`, for every number of nodes, cleanups and rejections. Between the await that makes a
  node and the one that hands it over only the function knows it, so the invariant `PagesInv` has to know where
  each function is. `InOrder` says that what an actor has still to do is a course: each await may be followed by
  the next (`Then`), the last may be a last (`Ends`). `PagesFit` proves it once of every function of the five
  pages, with what its button and early returns ask for: a function that starts a node asks that the persona
  has none, one of Bob's that is given his OrbitDB asks that he is up. From there a step is one case per kind of await:
  - `Owned`, `Working`: a node is worked on by the persona that started it, while making it the persona holds none,
    and an await of the library is made on the node the persona holds;
  - `OneAtATime`, `Stopped`: unless a cleanup met a function under way they take turns, and a persona whose stops
    are past holds nothing that runs, so that the reset drops no running node;
  - `Handle`, `StaysOpen`: a handle is of the node that is held, and what a restore closes is handed over anew.

### What only TLC checks

* `EverythingShips` and `Heals`: liveness under fairness is out of the prover's reach. Every other property
  of the passing runs is stated by a theorem.
* The chain of increments across a `rebase()`, beyond its links and numbers; and, between more than two peers,
  `HandedOutWhole`, which is false of five.

## 11. Findings, and what the code does where a property does not speak

Two findings have runs. **A flush that overtakes `rebase()`** (`live_backup_overtaken`): `rebase()` awaits the flush in
flight, so that `ship()` does not "write the pre-rebase state back" (`live-backup.js:811`), but that flush's `finally` (793) starts the
remembered next one first. That one captures the old sequence number, moves the state after the rebase, and the
new base has increments of which none is numbered 1, where the comment (803) and `docs/LIVE-BACKUP.md:142` say that they start again at 1.

**A deletion that was closed over comes back** (`car_storage_close`): `flushToCAR()` returns
at once when the cache is empty (`car-storage.js:96`), so `persist()` and `close()` after the last entry was
deleted write nothing, though `close()` "ensures all data is persisted" (324). The old file stays and
the next process loads the entry again.

The rest was seen while modelling. The models do what the code does; the properties say where they
stop.

*Live backup.* A flush that begins while `rebase()` walks saves as well, and the store keeps whichever save
comes last (698). The interval (620) flushes only when updates are pending, so a backlog whose first
flush fails waits for the next write. An entry whose read fails counts as shipped (227, 246). A chain
without its first increments is accepted, since gaps are sought between those that are there (381).

*Courier.* On a slow carrier a peer that is behind may answer each announce with blocks, which
supersede what waits, ahead of its own request, which is then never sent (967). `start()` of a
joiner whose first announce fails never arms the rejoin timer (1213). A joiner is not told of an empty
database: an announce without heads names nothing it lacks (948), so one that started before the founder opens
it at the next tick of its rejoin timer (1219), or when the first entry is written. Among five peers a joiner may be handed
a database that lacks a head the completing delivery named (1011-1052): it had parked blocks with a
hole that it overheard, and blocks meant for another peer, about a head it never got, fill it. `handleBlocks` waits for its
closing announce on the receive queue (1058), which the outbox's comment (727-736) says handlers do not. `stop()`
while a first-contact delivery is handled leaves the "update" listener attached (1050). Parked blocks that
cannot be completed make every later delivery incomplete (1011). An operation shed from a full outbox resolves
as sent (785); one that arrives after SEEN_OPS others is performed again (1072); one whose write fails stays
remembered and is not retried (1148).

*Space.* A restore with UCAN opens the database and joins no heads (`ucan-bridge.js:654`). With 20 backups
or more the look for the latest stops in listing order (`backup-car.js:569`). `restoreFromSpaceCAR` with a
`timestamp` alone always fails (646-708). A clearing whose listing fails reports that it is complete
(bridge 520-523, 677); one during a CAR upload leaves metadata that names a CAR that went. A
per-block backup tells success with blocks missing (1315, though 1227-1230 says otherwise); one missing
parent, or one missing identity of a writer, then makes a restore succeed without the heads that stand on it, with a
warning (1673). `restoreLogEntriesOnly` joins entries into a new database of another
id, and reports success where none is taken. `findCorrectManifest` counts 0 or 1 per manifest, where its comments
(2045, 2055) say "most referenced". One CAR in a space keeps "auto" from older single-block backups. A
CAR restore passes over refused puts and joins (1018, 1179). A documents database with as many deletions
as documents is inferred to be "keyvalue" (2688).

*Handover.* `hydrate()` passes no expected size, so a short dag-pb body fails it (`gateway-fetch.js:310`), and
a plain CAR cut between two blocks restores fewer entries. The first endpoint that answers wins
(`pointer-ipns.js:204`); the sequence is a second of the local clock (139). A wrapped member's copy is
filed under the inner name (`mirror.js:105`). 

*Aleph.* An answer 200 that is no JSON reads as an empty list of grants (848), and the next write drops them
all; concurrent calls, or a write not seen yet, lose a grant (892). A page of others' messages only ends the
listing (657); FORGETs that settle while it goes on shift its pages. An answer 200 that is no JSON reads as an empty page (407) and ends it
too: the call ends as if it had listed all. A FORGET whose answer was lost is in `failed`
and may still take effect.

*CAR storage.* A put during a flush is taken for written (191). Two flushes at once share a temporary file,
and the second rename fails after the unlink (184-189); a crash in between leaves no file. An entry that
cannot be encoded is skipped and counted (158).

*Pages.* `cleanup()` looks at no flag: pressed while a node is being started it resets the page, and the
node runs on in nobody's hands. `StorachaTestWithReplication` uses `database` before its declaration
(512, 517, 537), so every initialization throws and leaves a node running. The replication listeners look
their first argument up among addresses and never match. A failed backup keeps its result and blocks the
next until a reset. On the WebAuthn page `client` is undeclared in the cleanup (693), which rejects and leaves
closed handles. `StorachaIntegration` uses an undeclared `selectedSpace` (258). A restore that fails after it closed
Bob's database leaves him the closed handle. The todo pages spell `accessController`, which OrbitDB does not read.

*Recovery.* Step 1 pressed again makes a second stack and does not stop the first; the list stays on the old
one, and a backup opens its address on the new one, which lacks the blocks. A phone that makes a list instead
of restoring replaces the pointer, and what it named is lost to the others. Steps can be pressed in the 600 ms before
the reload.

## 12. Not modelled

* Presence in the courier (hello, here, bye): it changes no log. Parked blocks among four peers and more: out
  of reach of the run's three.
* `choose.js`, `resolve.js`, `types.js`: pure selection over a catalogue, checks of shapes. `pinata.js`, `lighthouse.js`,
  `memory.js`: one HTTP call each; the mirror stands for what they may answer.
* Layouts and conversions that no property tells apart: the envelope of `encryption.js`, CAR and DAG
  encoding, CID versions, metadata fields, names of collections, the derivation of keys.
* Single-call clients: `ipns-helpers.js`, `storacha-client.js`, the login components. `utils.js` and `logger.js`.
* In the pages: markup, progress lines, log output, relay discovery and what the browser's storage keeps.
  In Recovery: which services are ticked, and a page closed without step 4, where what comes back depends on OrbitDB's
  handling of heads without blocks, which is not in this repository.
* OrbitDB, Helia, libp2p and the services themselves, but for what the code expects of them: the
  definitions PROJECT.json marks external.
