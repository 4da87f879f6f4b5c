# A TLA+ verification of SwStack

SwStack is a C++ stack: a cooperative runtime, an object model with signals and
slots, same-machine IPC over shared memory, an embedded key-value database,
network protocols and a GUI. This directory models the parts whose correctness
depends on interleavings, failures and order, model-checks them with TLC on small
instances, and proves the main results with TLAPS. It covers `SwEmbeddedDb`, the
component that makes the strongest promises (durability, a consistent view, bounded
files); the thread pool its background jobs run on; the lock-free ring buffer in
shared memory; and the data plane of the QUIC transport.

Paths below are relative to the root of the repository.

## 1. Inventory

| Component | State it keeps | Operations | What makes it correct |
|---|---|---|---|
| `SwEmbeddedDb`, write path and journal (`src/core/storage/embeddeddb`: WriteCoordinator, FlushScheduler, MemtableFlusher, Wal, Manifest, Lifecycle) | `mutable_`, `immutables_`, `manifest_`, `pendingWrites_`, sequence cursors, WAL files, `CURRENT` and manifest files | `write`, `get`, `sync`, `close`, `open`, service thread, flush job | an acknowledged write survives; a reader sees the newest write; every call returns |
| `SwEmbeddedDb`, tables (CompactionWorker, BlobGcWorker, BlobStore, Materializer) | L0 and L1 tables, blob files, `compactionScheduled_`, `blobGcScheduled_` | flush, compaction, blob collection, file deletion | background work never changes an answer and never deletes a file in use |
| `SwEmbeddedDb`, snapshots and iterators (SnapshotState, SnapshotFacade, ReadModel*) | shared read state, writer overlay, generation counters | `createSnapshot`, `get`, scans | a snapshot stays what it was when it was taken |
| `SwEmbeddedDb`, read-only readers (Notifications, `refresh`) | the reader's copy of the manifest, a shared-memory counter | `refresh`, notification callback | a reader moves from one consistent state to a later one |
| `SwTableDb`, `SwRealtimeDb` | schemas, subscriptions | typed rows, evaluated queries | encoding keeps order; a change reaches its subscribers |
| File locks (`src/core/fs`) | lock files | lock, try-lock with time-out, unlock | exclusion among processes, recovery after a dead owner |
| Runtime (`src/core/runtime`: application, event loop, timers, fibers) | event queues, fibers, timers | post, exec, quit, yield, wake | posted events run once and in order; no lost wake-up |
| Thread pool (`SwThreadPool`), fiber pool | per-worker queues, running counter, retired workers, wait mutex and condition | start, take back, clear, resize, wait, stop, destroy | a queued task runs once, in order; waiting sees everything and is woken |
| Futures and promises | result, state, continuations | set, cancel, then, wait | one result; every continuation runs exactly once |
| Object model (`src/core/object`) | trees, connections, pending deletions | connect, emit, deleteLater | no slot runs on a deleted object |
| Shared-memory ring (`src/core/remote/SwIpcNoCopyRingBuffer.h`) | sequence counters, slots with reference counts, consumer table | publish, register, acquire, release, keep up | nothing is overwritten while it is read or still needed |
| Shared-memory signals, RPC (`src/core/remote`) | registry, per-signal queues, pending calls | publish, subscribe, reclaim, call | no torn read, dead owners reclaimed, one answer per call |
| QUIC (`src/core/io/quic`) | packet number spaces, sent packets, streams, windows | send, receive, ack, detect loss, probe, reset | what was written arrives, in order and once; credit and windows are exact |
| Sockets, TLS, HTTP, WebSocket, mail, ACME | connections, parsers | I/O callbacks | parsers and state machines per connection |
| Media, GUI, auth, installer, tools, `third_party` | | | drawing, codecs, request handlers, vendored code |

How they interact where it matters here: application threads call
`SwEmbeddedDb::write()`; a dedicated write-service thread appends to the journal;
flush, compaction and blob collection are jobs of a `SwThreadPool`
(`maxBackgroundJobs`, 2 by default). All of them share the object behind one mutex,
`SwEmbeddedDb::mutex_`, and release it around every I/O call. Most hazards of this
component sit at those releases. Other processes see the files, through `CURRENT`
and the manifest it names.

The other modelled parts meet less shared state. A `SwThreadPool` has one mutex for
its queues and a second one for those who wait, and worker threads whose event loops
run posted closures one at a time. The ring has no lock: processes meet in single
atomic accesses to a mapping, and any of them may die. A QUIC connection belongs to
the one thread of its driver; its difficulty is the network between two of them.

The hard behaviours, each at its line, are in `PROJECT.json` under `hazards`. They
are of seven families: sequences applied in another order than they were taken;
state copied in one critical section and used in a later one (flush, compaction,
collection, `close()`); crashes between two file operations; a failed I/O call in
the middle of a job; threads that wait for one another; atomic accesses of several
processes in an order nobody chose; and datagrams lost, duplicated, late or
reordered while timers fire.

## 2. Plan

| Module | Models | State |
|---|---|---|
| `EmbeddedDbWrite`, `EmbeddedDbWrite_proofs`, `EmbeddedDbDurability_proofs`, `OrderTheorems` | write path, journal, flush, `sync`, `close`, recovery; types and lookups, durability | done |
| `EmbeddedDbTables`, `KvStore`, `EmbeddedDbTables_proofs`, `KvRefinement_proofs` | tables, compaction, blob collection; the key-value map they implement; types and files, the refinement | done |
| `ThreadPool`, `ThreadPool_proofs` | the pool under the jobs above | done, except settings without effect on scheduling |
| `IpcRing`, `IpcRing_proofs` | publication, registration, keep-up and leases in shared memory | done for one publisher |
| `QuicTransfer`, `ByteStream` | streams over a faulty network; the byte stream they implement | done for 1-RTT unidirectional streams |
| `EmbeddedDbSnapshot`, `EmbeddedDbSnapshot_proofs` | `createSnapshot`, writer overlay, tombstones and blob files seen from a snapshot, on top of `EmbeddedDbTables`; the cache stays current, snapshots stay what they were | done for primary records of a writer |
| `EmbeddedDbReader` | a read-only process that refreshes while the writer deletes files | left |
| `Future`, `FileLock`, `IpcSignal`, `IpcRpc`, `EventLoop` | continuations; locks across processes; reclaim; late answers; nested loops | left |

Proofs left: the tables and snapshots across a `close()`, and the steps of `QuicTransfer` that do
not go through a fold.

## 3. `EmbeddedDbWrite`: the write path

Every critical section of `mutex_` is one action, and every I/O call made outside it
is one action; a thread that waits on a condition variable is a guard.

| Model | Code |
|---|---|
| `BeginWrite`, `ApplyEnqueue`, `RejectWrite` | the two critical sections of `submitRequest`: take a sequence; then, after encoding off-lock, apply to `mutable_`, enqueue, rotate a full memtable |
| `ServiceDrain`, `CommitOpenWal`, `CommitAppend`, `CommitSync`, `CommitPublish`, `Finalize*`, `ServiceStop` | `writeServiceLoop_`: drain a group, switch journal if a rotation asked for it, append, fsync, move the durable cursor, wake the writers |
| `FlushPick`, `FlushWriteTable`, `FlushInstall`, `FlushFails`, `FlushRemove` | `flushBackground_` and `flushMemTable_` |
| `SyncCall`, `SyncReturn` | `syncInternal_` |
| `CloseBegin` ... `CloseReset` | `close()`: refuse writers, sync, stop the service, drain, `flushAllSync_`, wait for the pool, `resetState` |
| `Crash(kind)`, `Open` | process death (the page cache survives) or power failure (only synced frames survive); `loadFromDisk` and replay |

Data is reduced to what the properties tell apart. A value is the sequence of the
write that stored it. The tables a manifest lists are kept as the newest record of
each key, tombstones included, so this module says nothing about which table wins
or about compaction; `EmbeddedDbTables` does. `acked`, `want`, `promised` and
`applied` are history variables: what callers were told.

Modelling decisions a reader should know:

- `Init` is an empty database that was created and closed before. `open()` is one
  action: no other thread can use the object until it returns.
- The manifest loaded by `open()` keeps its id, so the first persist overwrites the
  file that `CURRENT` names; `inPlace` says that this is the case, and a persist that
  fails half-way has then already taken effect on disk.
- An fsync of a journal is taken to make its directory entry durable too; a frame in
  a journal is whole or absent. Torn frames and resynchronisation on the magic are
  not modelled.
- The commit window and `flushRequested` only change when a drain happens, which
  the interleaving already leaves open. Setting `done` and the return of the waiting
  writer are one step.
- No application call is inside the object when `close()` completes, and the 15 s
  time-out of `stopIdleWorkers` never fires.
- Secondary indexes, blob references given by the caller, the in-memory mode
  (`persistent = false`), the `maxKnownPrimaryKey_` shortcut and the metrics are
  left out. `memTableBytes` counts operations.

## 4. `EmbeddedDbTables` and `KvStore`: the tables

This module keeps what the first one abstracts: tables with a level and a file id,
the files that exist, the blob files and the number of values in each. In exchange
the journal is abstract: what is applied is in `log` and no crash loses it, and a
batch is one operation.

| Model | Code |
|---|---|
| `Lookup`, `TableLookup`, `NewerTable` | `lookupPrimaryLocked_` over tables sorted by `compareTableMetaNewestFirst_`: the position decides, not the sequence |
| `BeginWrite`, `ApplyWrite`, `RejectWrite` | `submitRequest` |
| `FlushPick`, `FlushWrite`, `FlushInstall`, `FlushFails`, `FlushRemove` | the flush job; it takes a table id and writes off-lock, installs under the lock, then considers a compaction and a collection |
| `MergeSet`, `CompStart`, `CompMerge`, `CompInstall`, `CompFails` | `compactL0Locked` and `runL0Compaction`: both regimes, when tombstones may go, the new look at the end |
| `GcStart`, `GcList`, `GcWrite`, `GcCommit`, `GcFails` | `runBlobGc`: materialise under the lock, list and rewrite off-lock, commit if nothing moved |
| `DeleteFiles` | what a job does after its last critical section: the deletion of files |
| `CloseBegin` ... `CloseReset`, `Crash`, `Open` | as above, with orphan removal and the normalisation of ids |

Of the pool only its contract is used (`RunningJobs`, `FreeThread`): it starts any
queued job when one of its `MaxBackgroundJobs` threads is free; `ThreadPool` (section
7) is about the pool itself. The table id and the blob id of
one write are taken in one step. Blob values have one size, so the 30 % rule of the
collector counts values. Index tables go through the same code with their own
groups and are omitted.

`KvStore` is the promise to a reader: a map from keys to the write whose value they
have, which only a write changes, with growing sequences. `RefinesKvStore` maps it
to what `get()` answers in an open database, and to what the next `open()` would
recover when there is none. Every flush, compaction, collection, deletion, crash and
reopening must be a stuttering step of it.

`Next` has no `close()`: the race of `close()` with a flush breaks the promise of
`KvStore` (section 9). The close actions are part of `SnapNext`, below, where
`ManifestFilesExist` is checked with them.

### `EmbeddedDbSnapshot`: snapshots over the tables

The module extends `EmbeddedDbTables` and adds the apply generation, the read cache of
the writer and the snapshots taken. Every action of the tables either leaves these alone
(`OtherStep`) or is extended with what the code does to them:

| Definition | Code |
|---|---|
| `SnapshotOfBase`, `SnapshotOfOverlay`, `SnapshotBuilt` | the three branches of `createSnapshot()` of a persistent database opened for writing |
| `Capture`, `ReadModel` | copies of the memtables, table handles, `buildReadModelLocked` |
| `SnapApplyWrite`, `Mirrored` | `applyBatchLockedMutable` with `overlayStorePrimary` and `overlayMaybeCollapse`, whose size limit is a free choice |
| `SnapCompaction`, `SnapGc`, `NoCache` | `removeTablesLocked_` drops the cache |
| `SnapReset`, `SnapCrash`, `SnapOpen` | `resetState()` (snapshots stay usable), the end of the process, replay through `applyBatchLocked` |
| `Get`, `Row` | `lookupPrimary` and the primary iterators of a snapshot |

A snapshot is a value in the model because its memtables are copies and its tables are
open handles; its blob files are looked up in the directory at the moment of the read.
`ReadCacheCurrent` is what makes the cache legitimate: base and overlay agree with the
database as long as nothing invalidated them. Failures of reading a table while the read
model is built are left out.

## 5. `IpcRing`: the ring in shared memory

`NoCopyRingBuffer` lets a publisher write into a slot of a mapping and readers read it
there. No lock protects it, so an action is one atomic access, or several that no other
process can tell from one (the heartbeat after the cursor, the header fields of an
entry that is still being claimed).

| Model | Code |
|---|---|
| `BeginWrite`, `HideSlot`, `MinStart`, `ScanEntry`, `ScanCursor`, `DropNeeded`, `CheckRef`, `Restore` | `beginWrite`: take a sequence, hide the slot, look for the smallest cursor entry by entry, give up if the content is needed or pinned and put the old sequence back |
| `Fill`, `CancelWrite`, `CommitSeq`, `CommitLast` | the caller writing through the lease; `commitWrite_` |
| `NewConsumer`, `LookAtEntry`, `Claim`, `ClaimLost`, `ClaimFails`, `LoadLast`, `InitEntry`, `PublishId`, `Unregister`, `Leave` | `registerInMapping_`: look at an entry, compare-and-swap its id, read the last sequence, store the cursor, store the id; and the end of a registration |
| `Acquire`, `Beat`, `Load`, `Pin`, `Verify`, `Undo` | `acquire` of a `Consumer` or of the ring: heartbeat, look, count in, look again |
| `Release`, `Keep`, `KeepUp`, `Advance` | `ReadLease::release_`, `keepUp`, `keepUpInMapping_` |
| `Expire`, `CrashReader`, `CrashPublisher` | a heartbeat older than `consumerTtlMs`; processes that die anywhere |

A payload is the sequence of its publication. Time is reduced to whether a heartbeat is
fresh. There is one publisher, which may die and start again on the same mapping, and a
process holds one lease at a time. An observer reads without registering. `pinned`, `since`
and `passed` are history variables: who counted himself into a slot, the last sequence when
an entry began to count, the furthest cursor it has had since. The first loop of `registerInMapping_` looks for the
caller's own id and never finds it, since ids are new. The model is sequentially
consistent; the code's atomics are acquire-release, which gives the same outcomes for
this pattern on the machines the repository targets (x86 read-modify-writes, ARM
acquire-release instructions) but not by the C++ memory model. The `dropped` counter and
the notification are left out.

`NeededKept` is the sentence of SwIpcNoCopyRingBuffer.h:383 with the precision the code
needs: it is about what was published since the entry last began to count (`since`) and is
not behind a cursor the entry has already had (`passed`). The second half is needed: a
consumer whose entry expired and was claimed again checks the id, and stores its older
cursor after the new owner has moved on, so that the cursor of an entry can go back to
content the publisher was free to overwrite.

## 6. `QuicTransfer` and `ByteStream`: streams over a faulty network

Two ends run the same `SwQuicConnection` code, driven as `SwQuicEndpoint` drives it: an
event (a datagram, a timer, a call) is handled to its end, the flush that sends what has
become possible included, and this is one action. The helpers are functions from the
state of an end to its next state, in the order in which the code calls them.

| Model | Code |
|---|---|
| `Receive` (`Deliver`, `ProcessFrame`, `ReadStream`) | `processDatagram`: record the packet, process its frames in order, drain the touched streams, credit the peer |
| `RecordReceivedPacket`, `TrimWindow`, `AckFrame`, `AckedNumbers` | `SwQuicAckTracker`; the encoding of ranges as gaps and its decoding in `processAckFrame_` |
| `ProcessAckFrame`, `Acknowledge`, `Requeue`, `OnPacketAcked`, `OnPacketLost` | loss recovery by packet threshold (and by time, nondeterministically), New Reno |
| `Stage`, `StageOne`, `MayStageChunk`, `MayStageFin`, `Taken`, `Packet`, `BuildDatagrams` | `flush_`: cut stream data into frames round robin within the credit, build packets within the congestion window |
| `ShouldRetransmit`, `RequeueOldest`, `ProbeTimeout`, `AckTimer` | what is worth sending again; the PTO and the delayed ACK |
| `Account`, `Credit`, `ProcessStreamFrame`, `ProcessResetFrame` | flow control of the receiver, reassembly, final size |
| `SendStreamData`, `ResetStream`, `StopReceivingStream` | the calls of the applications |
| `Lose`, copies in `Receive` | the network (external) |

A chunk stands for `kStreamChunkBytes` bytes and one of them fits in a packet; an
ack-eliciting packet counts as one full datagram. Packet numbers stand for send times.
The time threshold and persistent congestion may strike whenever `MaxSlow` allows, which
covers every clock. A probe fires when nothing is under way, or early at the cost of one
`MaxSlow`. Handshake and keys are done, the connection stays open and on one path.
Left out: bidirectional streams and stream-count limits, DATAGRAM, RESET_STREAM_AT, path
migration, closing and idle time-outs, the send-buffer limit, pacing and RTT arithmetic;
at most 32 frames are staged per flush in the code, a bound the instances never reach.
`Apply` is the identity with its argument evaluated once.

`ByteStream` is what a stream promises its two applications: the reader reads what was
written, in order and without gaps, and is told of the end only when it has everything.

## 7. `ThreadPool`

A critical section of `m_mutex` is one action; a notification (`notifyStateChanged_`)
is one more, as it takes `m_waitMutex` only for a moment.

| Model | Code |
|---|---|
| `Cleanup`, `Join` | `cleanupRetiredWorkersLocked_`, with which most calls begin: stopped threads are joined outside the lock |
| `Start`, `StartOnReservedThread`, `Assign`, `ChooseWorker`, `Enqueue`, `Refuse` | `start`, `tryStart`, `startOnReservedThread`, `assignTaskLocked_` |
| `TryTake`, `Clear` | tasks that are given back or deleted |
| `SetMaxThreadCount`, `SetMaxQueuedTaskCount`, `SetExpiryTimeout`, `ReserveThread`, `ReleaseThread`, `Rebalance`, `StopIdleWorkers` | the calls that change capacity; `rebalanceLocked_` moves queued tasks to free workers |
| `WaitForDone`, `Lock`, `AwaitCleanup`, `AwaitDone`, `AwaitSleep`, `TimeOut`, `EndWait` | `waitForDone` and `awaitQuiescent_` |
| `Destroy`, `ShutdownWait`, `StopAllWorkers` | the destructor |
| `Drain`, `Finish`, `Rearm`, `Expire`, `ThreadNotify`, `Exit` | the closures that run on a worker's event loop, and its thread |

`lastActiveMs` is not kept: any of the least loaded workers may be chosen. A timer with
an old token does nothing and is not kept. Tasks end, and no other thread is inside a call
when the destructor runs. Stack size, thread priority and the load figures are left out.

## 8. Runs

The `MC` modules give the constants; each cfg is named after its run. For the
database the bounds are `MaxSequence` (writes started), `MaxCrashes`,
`MaxFaults` (failed I/O calls) and `MaxCloses`. Deadlock is not checked: an
application may simply stop calling, and the liveness runs look for threads that
wait for ever.

Passing runs:

| Run | Properties | Instance | Why it is large enough |
|---|---|---|---|
| `WriteCrash` | `AckedSurvives` | 1 writer, batches over 2 keys, 4 writes, 2 crashes of both kinds, 1 failed I/O call | recovery, a flush after it and a second crash all happen, with several journals; the failure can hit the append, the fsync, the table or either half of the manifest |
| `WriteRace` | `TypeOK`, `LookupIsNewest`, `AckedLogged`, `CloseKeepsWrites`, `DiskMonotone` | 2 writers, 2 keys, 3 writes, memtables of 1 operation, 2 closes | applies out of order across rotations, three memtables at once; `close()` with the flush at every point, reopening, `close()` again |
| `LazySync` | `SyncedSurvives` | `lazyWrite`, 1 writer, 1 syncer, power failure | the sync overtakes and is overtaken by the service thread |
| `WriteLive` | `WriterReturns`, `MemTablesFlushed`, `CloseEnds` | `FairSpec`, 2 writers, 3 writes, 1 close, 1 failed I/O call | group commit with a request arriving during the fsync, writers caught by `close()`, the service thread gone when `close()` drains |
| `TablesGc` | `TypeOK`, `ManifestFilesExist`, `RefinesKvStore`, `CompactionCatchesUp` | `FairSpec`, big values and tombstones, 4 writes, triggers 2 and 2, 1 crash, 1 failed I/O call | both regimes, tombstones kept and dropped, flushes during a pass that leave work for the next; collections that commit, give up and fail; a failure in each job, the in-place manifest included |
| `Snapshot` | `ManifestFilesExist`, `ReadCacheCurrent`, `ScanFrozen`, `GetFrozen` | big values and tombstones, 2 writes, 2 snapshots, 1 close, 1 crash, 1 failed I/O call | a base, its overlay and a second base, each followed by every order of the jobs, which drop the cache or move the records below it; `close()` against a running flush and compaction, and a `close()` whose own flush fails |
| `Ring` | `TypeOK`, `LeaseStable`, `RefCountExact`, `NeededKept` | 1 slot, 2 writes, 3 registrations for 1 entry, 1 observer, 1 expiry, 1 death | the publisher wraps onto a slot in use, an entry is claimed by a second and a third consumer while the first comes back, each process dies at each access; `IpcRing_proofs` is about every size |
| `QuicLoss` | `TypeOK`, `AcksTruthful`, `AckedIsDelivered`, `NothingForgotten`, `InFlightExact`, `NoProtocolError`, `CompleteMeansAll` | 1 stream of 3 chunks (or none), windows of 2, 3 tracked packets; 2 faults, at most one each of a loss, a duplicate, a slow answer, a reset or stop | credit and congestion window run out, ranges are split, merged and trimmed, spurious and real retransmissions, aborts that cross data |
| `QuicLive` | `RefinesByteStream`, `EverythingArrives` | `FairSpec`, 2 streams of 1 chunk sharing 1 unit of connection credit; a loss and a duplicate | one stream blocks the other until MAX_DATA arrives, and that frame may be the one lost |
| `Pool` | `TypeOK`, `NoStrandedTask`, `EachTaskOnce`, `RunningExact`, `QueueOrder`, `DoneMeansDone`, `DestructorDrains`, `SleeperIsWoken` | 2 calling threads, 2 tasks, 2 priorities, 2 workers, 2 changes of setting, queue limits of 32 per thread, 1 and none, 1 `waitForDone` with a deadline | a second worker appears and retires, tasks are moved, taken back and cleared at every point; a wait with a deadline has every behaviour of one without |

One key is enough for the table runs: keys never interact in that code except through
the blob file they share, and its 30 % rule is exercised at its two ends.

The triggers are 4 and 4 in the code; 2 and 2 reach the same branches with fewer
writes. Every property of a passing run has a mutant in `PROJECT.json`, a plausible
bug of the code that makes TLC find the property violated; the faulty variants sit
next to the definitions they replace.

`WriterReturns`, `MemTablesFlushed` and `CompactionCatchesUp` ask nothing of a run in
which an I/O call failed; the code does not retry a failed job by itself (FlushScheduler.h:99), and
a `write()` that returns an error leaves its batch visible.

Fairness: weak fairness of each thread's steps. A thread that can run does, because
it is an operating-system thread and `mutex_` is held only for finite work; a job
given to the pool starts, as the pool takes its queue in turn. Nothing is assumed
about callers, crashes or `close()`. In `QuicLive`, weak fairness of `Receive`,
`AckTimer` and `ProbeTimeout`: the network delivers what it does not lose, and the
driver serves the timers `nextTimeoutMs()` announces.

Symmetry is used in `Ring` (consumers) and `Pool` (threads, tasks), which check
invariants only.

## 9. What the code does not do as written

Two runs expect a violation; the statements they contradict are quoted in
`PROJECT.json` under `findings`.

- `ConcurrentWritersLoss`: replay drops frames at or below `manifest.maxSequence`,
  which is the highest sequence of the last flushed memtable. With two writers a
  lower sequence may be applied after the rotation; once acknowledged it is lost by a
  crash. With one writer `WriteCrash` shows that this cannot happen.
- `SnapshotErased`: the search of a snapshot takes a tombstone in a table for a table
  without the key (SnapshotState.h:115) and goes on to older ones, so that an erased key
  has its old value again once both records are flushed. A scan of the same snapshot is
  right (`ScanFrozen`). The `get()` of a read-only database uses the same search.

The passing runs exclude these situations by their constants (one writer, no close,
no failure) or by a weaker property such as `AckedLogged`, never by changing an
action. Further limits, which no run of their own records; where a cfg is named, TLC
shows them with the change given:

- After a failed commit, a writer that enqueued during it is never woken
  (WriteCoordinator.h:786): `WriteLive.cfg` with `faults > 0` taken out of
  `WriterReturns`.
- A writer delayed between its two critical sections brings an erased key back once
  the tombstone that would stop it has been compacted away (WriteCoordinator.h:430).
- `flushAllSync_` flushes the newer memtables while `flushBackground_` works on a copy
  of the oldest, and ids are taken off-lock: the newer data may get the lower table id,
  and the old value wins after reopening (MemtableFlusher.h:12).

- `LazySync.cfg` with two writers: the durable cursor is a maximum, and `sync()`
  returns although a lower, visible sequence is still pending (WriteCoordinator.h:677).
- `LazySync.cfg` with a process crash: `open()` counts replayed frames as durable
  (Manifest.h:54) although the crash may have left them in the page cache only.
- `ConcurrentWritersLoss.cfg` with one writer, four writes and one `close()`: between
  the two installs of the race above, the persisted watermark promises more than the
  tables hold, and a crash loses an acknowledged write.
- `Snapshot.cfg` with three writes, two `close()` calls, no failed I/O call and no
  snapshot: after reopening, the ids of orphan
  blob files are handed out again (Manifest.h:71 looks at tables only), and the
  collector can delete a blob file that a flush has just written.
- A snapshot does not keep its blob files: after a collection its reads fail, or fall
  back on an older table (SnapshotState.h:127). `ScanFrozen` and `GetFrozen` are stated
  for rows whose blob files exist.
- `Snapshot.cfg` with `closes = 0` taken out of `ReadCacheCurrent` and three writes:
  after the race of `close()` above, a scan and a `get()` of the same database differ.
- `WriteRace.cfg` with one failed I/O call: a `close()` whose persist fails after it
  replaced the manifest in place leaves a newer manifest on disk than in memory, and
  the flush that was under way then persists the older one (`DiskMonotone` fails). With
  two failed calls `close()` also leaves writes behind (`CloseKeepsWrites` fails).
- The bound on the number of tables of CompactionWorker.h:11-12 is exceeded while
  flushes go on during a pass, and batches are applied before they are journaled,
  where SwEmbeddedDb.md:262 and 336-341 say the opposite.
- Thread pool: a dispatch that finds its task withdrawn or moved returns without a
  notification (SwThreadPool.h:1827), so that `waitForDone()` without a deadline, or the
  destructor, can sleep for ever; `SleeperIsWoken` is stated for the other case.
  `awaitQuiescent_` joins a retired thread while it holds the mutex which that thread's
  last notification needs (SwThreadPool.h:1959): a deadlock TLC reaches in 11 steps.
  An expiry that fires during `waitForDone()` is not armed again (SwThreadPool.h:1908),
  and a refusal of `postTaskOnLane` is ignored (SwThreadPool.h:1638).
- Ring: a reader that dies with a lease keeps its slot for ever, and one that dies while
  it claims an entry keeps the entry; what is published between the cursor and the id of
  a registration is not protected (SwIpcNoCopyRingBuffer.h:1207). `keepUp` and
  `unregister` check the id of their entry and then store into it, also when another
  consumer took the entry over in between (SwIpcNoCopyRingBuffer.h:1338); the cursor of the
  entry then goes back (section 5).
- QUIC: `resetStream()` of a stream whose FIN is queued but not sent empties the buffer
  and leaves the FIN queued (SwQuicConnection.h:745); the next flush sends it at the
  truncated offset. If it overtakes the RESET_STREAM the peer's application sees a
  complete stream: `QuicLoss.cfg` with the `reset` premise taken out of
  `CompleteMeansAll`.
- QUIC: `SwQuicEndpoint::resetStream` queues a final size of 0, which the peer refuses
  when data was received before (SwQuicConnection.h:2569); a path migration resets loss
  recovery and congestion control while sent packets stay (SwQuicConnection.h:2229).
  A reset credits what it discards, and a reader that drains buffered bytes of that
  stream later credits them again (SwQuicConnection.h:2584).

## 10. Proofs

All theorems hold for every value of the constants that satisfies the named assumptions
of the modules (`KeysAssumption`, `BatchesAssumption`, `OptionsAssumption`,
`BoundsAssumption` of `EmbeddedDbWrite`; `TablesKeysAssumption`, `TablesOptionsAssumption` and
`TablesBoundsAssumption` of `EmbeddedDbTables`; `SnapshotBoundsAssumption` of `EmbeddedDbSnapshot`;
`RingAssumption` and `BoundsAssumption` of `IpcRing`;
`PoolAssumption` of `ThreadPool`): any number of writers, keys, batches, tables, triggers, slots,
consumers, observers, tasks, workers and callers, any bound on crashes and failures. A
condition a theorem adds is part of its statement, and section 9 has the behaviour of
the code that makes it necessary. `OrderTheorems` has the facts about minima, maxima and
sequences that the other modules cite.

### The write path: what a lookup returns (`EmbeddedDbWrite_proofs`)

- `TypeCorrect`: `Spec => []TypeOK`.
- `LookupCorrect`: `Spec => []LookupIsNewest`. In an open database a lookup returns
  the newest applied write of a key, for any number of writers and any interleaving
  with rotations, flushes, failures and `close()`, across crashes and replays.

`LookupIsNewest` is not inductive: that the first layer holding a key has its newest
record needs to know how layers come about. The inductive invariant is `LayerInv`
together with `TypeOK`:

- `RecordsBounded`: the watermark of a memtable or manifest bounds its records;
  replay needs it, since it applies only frames above the watermark;
- `LayersOrdered`: a layer that holds a key is not older than the layers below. An
  apply keeps this because of the newest-sequence-wins guard over all layers;
- `FlushHoldsOldest`: the flush works on the oldest immutable memtable and removes it
  only after its records are in the tables, so the removal hides nothing;
- `AppliedHeld`: what was applied is in some layer.

There is one lemma per kind of step (`LayerApply`, `LayerInstall`, `LayerRemove`,
`LayerOpen`, `LayerForget`), and `LayerStep` combines them over the disjuncts of
`Next`. The theorem is about the layers of `EmbeddedDbWrite`, where tombstones are
never dropped; section 9 says why compaction must be studied separately.

### The write path: durability (`EmbeddedDbDurability_proofs`)

| Theorem | States | Condition |
|---|---|---|
| `DiskNeverMovesBack` | `DiskMonotone`: the manifest on disk never goes back to an older journal or a lower watermark | no failed I/O call, or no `close()` |
| `CloseLosesNothing` | `CloseKeepsWrites`: when `close()` has returned everything applied is in the tables on disk | no I/O call has failed |
| `AckedStaysLogged` | `AckedLogged`: in an open database every acknowledged write is in the tables or in a synced frame of a journal the manifest asks to replay, whatever order the writers came in | no crash yet, and no failed call or no `close()` yet |
| `AckedWritesSurvive` | `AckedSurvives`: what `open()` would recover has every acknowledged write | one writer, no `close()`; any number of failures and of crashes of both kinds |
| `SyncedWritesSurvive` | `SyncedSurvives`: what was visible when a successful `sync()` was called survives every power failure | one writer, no `close()`, no crash of the process alone |

The argument goes bottom up. `BaseInv` has four parts, inductive together with `TypeOK` and
`LayerInv`: `JournalInv` (frames are in files that exist, and the persisted manifest asks to replay from
a journal no younger than the oldest one a memtable covers), `CountInv` (the counters of
calls and failures), `TakenInv` (what `close()` does to the memtables while the background flush still runs) and
`AheadInv` (a manifest replaced in place by a persist that failed is ahead of the one
in memory, but only by the memtable that the next flush takes again). `ClosingInv` follows
the phases of `close()`. `ServiceInv` says that the service thread appends to a journal which
the memtables holding its group protect (`HeldFrom`), so that a flush that ends
meanwhile does not remove it; `AckedInv` then says that each acknowledged write is in the tables or in a
synced frame that is kept as long as it is needed (`TablesCover`, `Kept`).

For survival that is not enough: replay skips frames at or below the watermark, which two
writers can cross. With one writer, `FreshInv` shows that a sequence a writer has taken is
above everything applied before (`Below`), hence that an unflushed write is above
every watermark that may be persisted before it (`Ordered`). `Durable(f)` joins `Ordered` and `Kept`, and
becomes `Replayable(f)` when the process is gone; `DurableStays` shows that no step, a crash or a failed
persist included, takes it away. `SyncInv` relates this to the durable cursor that
`sync()` waits for: it covers every applied write below it.

Each action has one effect lemma (`OpenEffect`, `ApplyEffect`, `FlushEffect`,
`RemoveEffect`, `TakeEffect`, `CloseInstallEffect`) that every invariant cites, so that an action is unfolded once.

### The tables: files (`EmbeddedDbTables_proofs`)

| Theorem | States | Condition |
|---|---|---|
| `TypeCorrect` | `TypeOK` | none |
| `FilesExist` | `ManifestFilesExist`: every table the manifest on disk lists is there, with the blob files of its records, so that `open()` can succeed | `DeletesOldBlobs` in every state |
| `FilesExistUntilCrash` | the same | in every state before the first crash |
| `FilesExistInline` | the same | no value is big enough for a blob file; any number of crashes |

`TablesKeysAssumption` says that the keys are a finite set, not empty, and that an operation is a
put, a put of a big value or an erasure; what is open is which of them occur.

`DeletesOldBlobs` is a condition on states: no job holds, for deletion, a blob file whose id the manifest will
hand out again. Section 4 says why the code makes a condition necessary: after a crash
`normalizeIdsLocked` (`SwEmbeddedDbManifest.h:71`) looks at tables only, so the id of an
orphan blob file is handed out again, and a collector that listed the orphan may delete
it after a flush wrote into it. `FilesExistUntilCrash` and `FilesExistInline` have no such condition: before a
crash every blob id in use is below the next one (`OldInv`), and without big values
there is no blob file to delete (`SmallInv`).

The inductive invariant `IInv` has these parts:

- `PhaseInv`: what program counters say. A flush that works has the oldest immutable
  memtable, the tables of a compaction stay in the manifest until its install, and a job that deletes
  files has seen a manifest persisted (`Saved`), so that the next persist does not replace the file `CURRENT` names;
- `RecsInv`: records are bounded, and a record in a table has its blob file iff its value is big;
- `IdsInv`: no two tables, listed or waiting to be installed (`Live`), share an id, and ids in use
  are below the next one to hand out;
- `Apart`: a table that waits to be installed belongs to one job and is in no manifest;
- `GcInv`: while the manifest id is the one the collector remembered, its tables are
  those of the manifest, and the blob file it wrote is nobody else's.

`FilesInv` adds that the tables of the disk and of `Live` exist and that no job deletes one of them. It is inductive
relative to `IInv` and `DeletesOldBlobs`. Each kind of step has one lemma for it: writing a table
(`WrittenFiles`), abandoning one (`AbandonedFiles`), installing a manifest or failing to
(`InstalledFiles`, `NotInstalledFiles`), deleting (`DeletedFiles`), `CrashFiles` and `OpenFiles`.

### The tables: the map they implement (`KvRefinement_proofs`)

| Theorem | States | Condition |
|---|---|---|
| `KvRefinement` | `RefinesKvStore`: `EmbeddedDbTables` implements `KvStore` | `WritesInOrder` and `DeletesOldBlobs` in every state |
| `KvInline` | the same | one writer, no big values; any number of crashes and failures |
| `KvOneLife` | the same | one writer, no crash; any number of failures |

What a reader finds changes only by a write, and only for the key written: a flush, a
compaction that drops tombstones, a blob collection, each of them failing at any I/O call, a crash and
a replay change no answer, neither now nor after the next `open()`.

`WritesInOrder` says that a write is applied before any write with a later sequence. Two
writers can cross between the critical sections of `submitRequest`, and a memtable
watermark above an unapplied sequence then loses it (finding `ConcurrentWritersLoss`, section 9); `SeqInv` shows
that one writer cannot. The hypotheses are about the behaviours of the code, not about the
values of constants: TLC checks `RefinesKvStore` without them on the instance of `TablesGc`,
which has one writer.

The inductive invariant `CInv` relates all layers to the journal (`log`):

- `MemInv`: each memtable covers a range of sequences: of every key it has the newest
  operation in its range (`Covers`), and the ranges follow one another from the watermark
  of the manifest up to `lastVisible`. The memtable that a flush has installed and not
  yet removed is below them, already in the tables (`Layer`);
- `ServesInv`: the tables of the manifest, and those of the disk with what replay adds, answer for
  every sequence up to their watermark (`Serves`): every record is that of an operation of the journal,
  tables found first have newer records (`Sorted`), and a key whose newest operation
  is missing was erased;
- `FlushInv`, `CompInv` and `CollectInv`: what a job has written is what it read (`SameRecs`,
  `Rewrites`), and the tables it did not read may stay beside it: they are newer, or older when
  it read level 0 only, and tombstones go only when none of them is older (`Rewritable`);
- `LogInv`: sequences are unique and the journal ends at `lastVisible`.

Three facts about layers carry the argument: adding the table of the next range serves more
(`ServesFlushed`), replacing tables by their merge serves the same (`ServesMerged`), and a lookup
through layers that cover consecutive ranges answers the newest write (`LookupAnswers`, `RecoveredAnswers`).
`ContentKept` applies them to each action, and `KvStep` turns the invariant into a step of `KvStore`.

### Snapshots (`EmbeddedDbSnapshot_proofs`)

| Theorem | States | Condition |
|---|---|---|
| `CacheCurrent` | `ReadCacheCurrent`: base and overlay of the read cache together have the row that `get()` of the database finds, for every key | none beyond that of the property, before the first `close()` |
| `SnapshotGets` | `GetFrozen` as long as `close()` was not called, and of the snapshots taken before it (`EarlyGetFrozen`) for ever: a key that had a value keeps it in the snapshot | none |
| `SnapshotScans` | `ScanFrozen`: the rows that a scan of a snapshot can deliver are those that were visible | `DeletesOldBlobs` in every state before the first `close()` (`EarlyDeletes`) |
| `SnapshotScansUntilCrash` | the same | in every state before the first crash |
| `SnapshotScansInline` | the same | no value is big enough for a blob file; any number of crashes |

These hold for several writers whose writes are applied in any order, where the refinement of `KvStore`
does not: a write with a sequence below what `get()` finds is skipped by the memtable and
by the overlay alike. A scan needs the condition on blob files, `get()` does not: `GetFrozen` speaks of the
keys that had a value, while `ScanFrozen` also says that a row without a value had
none, which is false of a key whose blob file was missing when the snapshot was taken
and was written again, under the same id, by a later flush.

The inductive invariant is `EarlyInv`: until the first `close()`, `IInv` of the files, `JobsInv`
(`FlushInv`, `CompInv` and `CollectInv` of the refinement), `OrderInv` and `CacheInv`.

- `OrderInv` is about the order of records, without the journal ranges of `CInv`. `NumberInv`: a sequence is used
  once. `SoundInv`: in the tables of the manifest and of the disk, tables found first have
  newer records. `LayersInv`: a memtable has only newer records than the memtables and tables below
  it; the memtable that a flush has installed and not yet removed is the exception, and
  its records are in the tables (`Moved`), or are tombstones that a compaction has dropped
  since. It follows that `get()`, which takes the first record it meets, and a scan, which takes the
  highest sequence, find the same (`NewestFound`, `CaptureServes`);
- `CacheInv`: a valid cache belongs to an open database and to a generation not in the future; in the
  generation of the base there is no overlay, and in that of the shared overlay it is the overlay
  itself; and of each key `KeyCurrent` holds: the row of the cache has the value that `get()` finds, an overlay
  record has the sequence it finds, and a key without one is served by the
  memtables and tables of the base. `Stays` covers the moment between the install of a flush and the
  removal of its memtable: an overlay record whose memtable is about to go is in the tables.

Between restarts a step is one of five kinds by what it does to the layers (`NothingMoves`, `HeadCopied`,
`HeadDropped`, `SomeRewrite`, an apply), and each kind has one lemma for the order (`LayersQuiet`, `LayersCopied`, ...)
and one for what a lookup returns (`LookupQuiet`, `LookupCopied`, `LookupDropped`, `LookupWritten`). A rewrite needs none: it
drops the cache. `TakenShot` then says that each branch of `createSnapshot()` serves what `get()` answers at
that moment, and `FrozenInv` and `ScanInv` that nothing afterwards changes a snapshot.

### The ring (`IpcRing_proofs`)

- `TypeCorrect`: `Spec => []TypeOK`.
- `RefCountsExact`: `Spec => []RefCountExact`. The counter of a slot is the number of
  readers, living or dead, that counted themselves in and not out.
- `LeasesStable`: `Spec => []LeaseStable`. The content of a slot does not change under a
  lease.
- `NeededSlotsKept`: `Spec => []NeededKept`. The publisher takes no slot whose content was
  published while an entry counted and which the cursor of that entry never passed.

They hold for any capacity, table size and number of readers, with every process
dying anywhere. The inductive invariant `RingInv` adds to the properties:
`IndexInv` and `CursorInv` (the program counters of a registration), `PinInv` (a reader is
counted into the slot it wants from its pin to its unpin, a dead one perhaps for ever), `CountInv`
(`RefCountExact` with the finiteness that `Cardinality` needs), `SeqInv` (no cursor and no wanted
publication is beyond `lastSeq`), `SlotInv` (a slot that shows a sequence holds that
publication; the publisher's slot is hidden until it commits), `LeaseInv` (a leased slot is not
the one being filled: the reader counts itself in and looks again at the sequence, the publisher
hides the sequence and looks at the count, and one of them sees the other) and `ScanInv` (half-way through the scan an
entry already looked at holds the minimum down, or began to count after the
content was published).

### The pool (`ThreadPool_proofs`)

| Theorem | States |
|---|---|
| `TypeCorrect` | `TypeOK` |
| `TasksNotStranded` | `NoStrandedTask`: queued work is on a worker that will look at it |
| `TasksOnce` | `EachTaskOnce`: a task is in one queue once, or on one worker, or nowhere |
| `RunningCountExact` | `RunningExact`: `m_runningTasks` counts the tasks that run |
| `QueuesOrdered` | `QueueOrder`: priority, then order of acceptance |
| `WaitSeesEverything` | `DoneMeansDone`: `waitForDone()` returns true only when nothing is queued or runs |
| `DestructorWaits` | `DestructorDrains`: after the destructor no task is left and every thread is gone |
| `SleepersWoken` | `SleeperIsWoken`: a sleeper that has nothing left to wait for has a notification on its way |

`PoolAssumption` says that tasks and callers are finite sets, that a limit on threads is
positive (`setMaxThreadCount` clamps it; a queue limit may be any integer) and that the
values standing for no task and nobody are neither. `Rebalance` is a recursive function:
the loop of `rebalanceLocked_` moves a task only to a worker it creates for it, so
`MaxWorkers` rounds reach its end.

The inductive invariant `PoolInv` adds to the types:

- `WorkersInv`: an entry and its thread agree. `running` is set from dispatch to end,
  queued work has a dispatch posted or a task running, and only a worker in
  `m_workers`, with a thread that was not told to quit, has either. `NoStrandedTask` follows;
- `QueuesInv` and `RunningInv`: the places of a task and its `status` determine each other,
  so that a move between queues is neither a copy nor a loss; `EachTaskOnce` and, over the
  finite set of tasks, `RunningExact` follow;
- `OrderInv`: `QueueOrder` with the bound on the sequence numbers that makes a new item the last of its
  priority;
- `CallsInv`: one call waits at a time and `m_waitingForDone` is set while it does, which refuses
  new tasks; hence what it saw quiescent stays so (`NoWork`) until it returns. A worker that was
  taken out is gone or in the list of a caller that joins it;
- `ShutdownInv`: the phases of the destructor: it stops the workers only when there is no work, and ends
  only when each of them is taken out and joined;
- `DispatchInv`: a dispatch posted for an empty queue comes from a withdrawal or a change of
  capacity. `SleeperIsWoken` needs it: without one, the step that makes the
  pool quiescent is the end of a task, which notifies.

Each operation has an effect lemma (`AssignEffect`, `TakenEffect`, `DrainEffect`, `FinishEffect`,
...); `StepKinds` says that every step is one of seven kinds by its effect on queues and
tasks (calm, an acceptance, a `tryTake`, a `clear`, a change of capacity, a dispatch, an
end); and each conjunct has one lemma over these kinds (`WorkersStep`, `QueuesStep`, ...,
`SleeperStep`). The loop of `rebalanceLocked_` is handled by `RoundKeeps` (one round keeps
workers, queues and order) and `RebalanceKeeps`, which takes the least round that does not.

### What is only model-checked

Liveness and everything under fairness is out of this prover's reach (`WriterReturns`,
`MemTablesFlushed`, `CloseEnds`, `CompactionCatchesUp`, `EverythingArrives`). `QuicTransfer` computes with folds over
frames and packets, and what a fold returns for every input needs an induction over data
that the installed provers cannot instantiate. The theorems about the tables are about `Spec` of
`EmbeddedDbTables`, which has no `close()`, and those about snapshots say nothing of what is taken
after one: what `close()` does to the tables, against a flush and a compaction still
running, is checked by `Snapshot` only. The refinement
of `KvStore` with several writers, or with blob files after a crash, is proved under the
conditions named above only.

## 11. Not modelled

Components without a module are listed in `PROJECT.json` with the reason. Inside
`SwEmbeddedDb`: secondary indexes and their scans, read-only processes and
notifications, the in-memory mode, the bytes of the file formats, the bloom filter
and the block cache.

The share of the repository that is mapped stays small. Most of its lines are GUI,
media, protocol parsers, embedded binaries, examples and vendored code, which have no
interleavings a model checker would explore; what is left and worth a module is in
section 2.
