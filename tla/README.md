# A TLA+ model of usagedb

usagedb is a single-process usage-metering database: HTTP requests append events
to a write-ahead log (WAL) and a memtable, a background flusher turns drained
memtables into segment files, rollup and compaction workers rewrite them, and a
manifest says which files count.  This directory models its parts, checks them
with TLC and proves the central claims with TLAPS.

## The parts of the system

| Part | Source (`src/src/`) | Model |
|---|---|---|
| HTTP ingest | `api/http_server.rs` | `IngestPipeline`; the closed-period check in `Periods` |
| Hot dedupe cache, sidecar index | `ingest/dedupe.rs`, `storage/dedupe_index.rs` | `HotDedupe`, used by `Lifecycle`; the sidecar in `Reads` |
| Write-ahead log | `ingest/wal.rs` | `IngestPipeline` |
| Memtable | `ingest/memtable.rs` | `IngestPipeline`, `Rollup`, `Reads` |
| Flush channel, flusher | `runtime/state.rs`, `ingest/flusher.rs` | `IngestPipeline`; what it writes in `Reads` |
| Startup recovery | `runtime/recovery.rs` | `IngestPipeline`, `ManifestStore`, `Lifecycle` |
| Manifest | `storage/manifest.rs` | `ManifestStore`; one atomic commit elsewhere |
| Server lifecycle, process lock | `main.rs`, `runtime/lock.rs` | `Lifecycle` |
| Rollup worker | `rollup/` | `Rollup`; keys, sums and files in `Query`, `Reads` |
| Compaction worker | `compact/` | `Compaction` |
| Billing periods | `period.rs`, `api/http_server.rs` | `Periods` |
| Query executor, SQL | `query/` | `Query`, `Reads`; concurrent readers in `Rollup` |
| Segment files | `storage/segment_*.rs`, `storage/encoding.rs` | `Segment`, used by `Reads` |
| Admin commands, export | `admin.rs`, `export/parquet.rs` | `Reads`, `Rollup`, `Lifecycle` |

A request takes the dedupe, WAL and memtable locks in that order, classifies its
events, appends and syncs the new ones, enters them in cache and memtable, and,
when the memtable is too large, drains it and rotates the WAL.  Only then are the
locks released, and the drained batch is sent on a channel of capacity four.  The
flusher writes one segment per bucket, commits them with the *seal pointer*
(`last_sealed_wal_id`) in one manifest save, and deletes the WAL files up to it.
A restart loads the manifest, deletes files at or below the seal pointer, and
replays the others.  The rollup worker aggregates finished hours below a
*watermark*, compaction merges the segments of a bucket and deletes the old files
after a *grace window*, and both change the manifest under its lock, as closing a
period does.  Locks are always taken in the same order (dedupe, WAL, memtable;
the manifest lock alone), so there is no deadlock among them.

## Modules

An action is a stretch of code between two points at which another task or a
crash can intervene.  Where the code releases a lock and takes it again, there are
two actions, and the state it carries across is a field of a record (`worker`,
`close`, `get`, ...) with the program counter in `pc`.

* `DurableLog` is the promise to a client: a set of durable events that only
  grows, with one payload per id, that contains every acknowledged event.
* `IngestPipeline` is the write path and implements `DurableLog`.
  `IngestAppend`/`IngestCommit`/`IngestOverflow` are `ingest_critical_section`
  (append; then sync to unlock), `SendFlush` the send after it,
  `ForceDrainMemtable` the rollup worker's drain, `FlusherRecv` to
  `DeleteSealedWal` the flusher, `Crash` and `RunStartupRecovery` the restart.  The
  error paths are actions or disjuncts of their own, enabled by `Faults`.
* `ManifestStore` opens up the manifest save that the other modules treat as one
  step: generation file, `CURRENT`, directory sync, pruning, each with a crash or
  an error in between, and `load` with roll-back and legacy migration.  Generation
  files, `CURRENT` and the legacy `manifest.json` can stop parsing.
* `Rollup` has the five lock acquisitions of `tick` as steps (`TickStart`,
  `TickWal`, `TickAge`, `TickDrain`, `TickScan`, then `TickCommit`), a query that reads
  rollups, raw segments and memtable one after the other, rebuilds and crashes.
  The manifest's lists of segments are sets, since nothing depends on their order; a
  rollup segment has an id, because two equal ones are two.
* `Compaction` has the sweep (`SweepScan`, `SweepDelete`, `SweepSave`), the plan, the
  merge outside of the lock and the swap under it, with their failures, flushes
  in between, a reader that holds a list of segments, and crashes.
* `Periods` has `handle_close_period` (`CloseStart`, the query of
  `snapshot_period_totals`, `CloseCommit`), `handle_reopen_period`, `handle_get_period`
  (`GetEntry`, the live or the adjustments query) and ingest requests that check
  against a copy of the closed periods.  A query is three steps: rollups with the
  watermark, raw segments from there on, memtable.  Meanwhile accepted events move from
  the memtable over the flusher to segments and rollups (`DrainMemtable`, `FlushCommit`,
  `TickCommit`); a tick may pass over any event, which makes it `late`.
* `HotDedupe` is the cache as operators; `Lifecycle` has the processes on one
  directory: lock, recovery, serving, the shutdown sequence of `run_server`, admin
  commands, crashes.  A drained batch is sent in a step of its own (`Send`), by the
  handler, the rollup worker or the main task that drained it.  The WAL is the sequence of all rows ever logged, and the seal
  pointer the number of them that are in sealed files: replay reads the rest, and
  deleting a file that nothing reads any more is not a step.
* `Segment` is the column encodings as operators, over widths `TimeBits` and
  `QtyBits` in place of 64 and 128, wrapping as the code does.  `Query` is pruning,
  matching, rollup rows, aggregation, and the translation of requests and SQL
  conditions to plans.  `Reads` has the files that flusher and rollup worker leave,
  files damaged or lost, and every report over them.
* `MC...` modules instantiate these for TLC; the `...Proofs` modules hold the proofs.

Data is abstracted to what the properties tell apart.  In `IngestPipeline` a
*record* is one WAL line written for an event, so that a retry's second line is a
different record, and whether the memtable exceeds its limit is a free choice.  In
`Rollup`, `Compaction` and `Periods` a total is the set (or sequence) of the events it
sums, so that a missing or doubly counted one can be told.  In `ManifestStore` a
manifest is a version number.  In `Reads` rows have all the columns that queries
treat differently, and files are encoded and decoded for real.  Definitions marked
"Mutant" are never used by the specifications: each is a plausible bug in the
definition after it, and shows that a property would notice.

## What the runs check

| Run | Setting | Shows |
|---|---|---|
| `IngestOrdered` | 2 clients, ordered sends, one failed unlink, fair tasks | `AckedDurable`, `BilledOnce`, `NoneStranded`, `SealedIsCommitted`, `IngestInv`, `AckedVisible` (liveness); `ImplementsDurableLog` (refinement) |
| `IngestFaults` | 2 faults of every kind, any order of sends | `OneOwner`, `OpenFileUnsealed` |
| `Manifest` | crashes, save and prune errors, 2 corrupt generations, a corrupt `CURRENT`, with and without a legacy manifest, which may be corrupt | `SaveIsDurable`, `DirectoryBounded`, `FailsClosedLate` |
| `Rollup` | ticks against ingest, flushes, a query, rebuilds, a crash, a failed save | `RollupInv`, `RolledUpOnce`, `RollupsComplete`, `QueryExact`, `WatermarkAdvances` (liveness) |
| `Compaction` | 3 flushes in 2 buckets, a reader, a crash, one failed step | `GraceInv`, `ContentPreserved`, `ReaderComplete`, `CatchesUp` (liveness) |
| `Periods` | 2 of 2 closes, an ingest request and a get at a time, drains, flushes, a tick, 2 reopens, a failed save, a crash, a legacy entry | `PeriodsInv`, `OneEntry`, `UsageFrozen`, `GetComplete`, `AckedCloseKept`, `FrozenStays` |
| `Lifecycle` | a server and an admin command, 3 starts, a cache of 2 entries, ordered sends, a channel of one place | `LifecycleInv`, `CacheUnique`, `RetryDetected`, `NothingDropped`, `SegmentsKept`, `DrainedAtShutdown` (liveness) |
| `Reads` | every database of up to 3 of 6 rows, one file damaged or lost | `RoundTrip`, `PruneExact`, `DriftZero`, `CheckCatches`, `RebuildComplete`, `ExplainNamesSources`, `SqlExact` |

Every property is explained where it is defined.  `IngestInv`, `GraceInv`,
`PeriodsInv`, `RollupInv` and `LifecycleInv` are the inductive invariants of the proofs
below, and contain the type invariants.  Four runs end in a
counterexample; each refutes a sentence of the repository, which `PROJECT.json`
quotes.

| Run | What happens |
|---|---|
| `IngestReordered` | two batches enter the channel in the wrong order; the later seal pointer deletes the earlier batch's WAL file before the batch is committed |
| `RollupRace` | the memtable is drained between a tick's WAL check and its memtable check; neither sees the batch, and the watermark passes it |
| `PeriodNet` | a correction accepted before the close is in the frozen total and is added again as a pending adjustment |
| `ShutdownHangs` | the flusher holds a sender of the channel it waits on, so `run_server` never returns from the join |

`InOrderSends`, in `IngestPipeline` and `Lifecycle`, restricts the channel to receive
batches in the order in which their WAL files were sealed.  This is what a single-threaded scheduler gives (no
suspension point lies between the release of the locks and the first attempt to
send, and waiting senders are served in order); on tokio's multi-threaded runtime,
which `main.rs` uses, nothing in the code enforces it.

### Bounds

* `IngestOrdered`: two clients and the rollup worker are enough for two drained
  batches to race, three WAL ids for one file to be sealed, one draining and one
  active.  Two event ids, one of them with two payloads, give duplicates,
  conflicts and two buckets.  `MaxCopies = 2` allows one retry.  A channel of capacity
  1 fills as one of capacity 4 does.  `MaxFaults = 2` in `IngestFaults` lets a failure
  meet the leftovers of another.
* `Manifest` retains three generations and makes five versions, so pruning happens
  repeatedly, and corrupts at most two files, so that refusing to start with three
  good saves would be premature.  `CURRENT` and `manifest.json` may be corrupted besides.
* `Rollup`: hours of two units, two events of different hours, one of them late or
  not, depending on when it is sent; the clock passes one hour limit and the
  safety lag.
* `Compaction`: `MaxSmall = 1`, so that two segments are merged and the output is
  merged again; a grace window of 2 and times 1 to 3, so that replacement
  records expire while a reader reads.
* `Periods`: two closers that race for one period, two reopens, so that the legacy entry
  goes and the period is closed twice with different totals.  At most two requests are
  in progress at a time (`MaxRequests`): every property is about a pair of them.  The
  usage event is in the hour that the one tick passes, the correction in the next, so
  that a total has rows from both sides of the watermark.  Adjustments beyond an i64
  are left to the proof.
* `Lifecycle`: a window of one time unit and a capacity of two for three events, one
  of them recorded long before it is sent, so that age and capacity both evict.  Four
  rows and a memtable of one give two batches besides those of the rollup worker, and a
  channel of one place makes the second wait.
* `Reads`: 4-bit times and 5-bit quantities, with quantities at both ends of their
  width and rows at and around hour limits; all ranges, filters and conditions of the `MC` module.

`Lifecycle` and `Reads` may stop when their bounds are used up, and do not check
deadlock; the other passing runs do.

### Fairness

Weak fairness is assumed of what the runtime does by itself.  `IngestPipeline`: a
handler that holds the locks goes on, a pending send is made, the flusher loop
runs, a crashed server is restarted.  `Rollup`: the clock runs, the interval timer
starts ticks and they go on, the flusher runs, a crashed server is restarted.
`Compaction`: the timer keeps calling `tick`.  `Lifecycle`: a pending send is made,
the flusher runs and `run_server` goes on with the shutdown.  Requests, drains, failures, crashes and the
restart of a process by its operator are never forced to happen.

## What is proved

For all values of the constants:

| Theorem | Module | Statement |
|---|---|---|
| `TypeCorrect` | `IngestWriterProofs` | `Spec => []TypeOK`, under every fault and any order of sends |
| `Ownership`, `SingleOwner`, `OpenFile` | `IngestPipelineProofs` | `OwnershipInv`, `OneOwner` and `OpenFileUnsealed` always, under every fault and any order of sends |
| `IngestInvariant`, `AckedDurability`, `NothingStranded` | `IngestPipelineProofs` | with sends in sealing order and only syncs and unlinks failing: `IngestInv`, `AckedDurable` and `NoneStranded` always |
| `NoDoubleBilling` | `IngestPipelineProofs` | with no append and no sync failing, under every other fault and any order of sends: `Spec => []BilledOnce` |
| `SealedCommitted`, `Refinement` | `IngestPipelineProofs` | with sends in sealing order and only unlinks failing: `SealedIsCommitted` always, and `Spec => ImplementsDurableLog` |
| `ManifestInvariant`, `SaveDurability`, `LateFailure`, `BoundedDirectory` | `ManifestProofs` | `ManifestInv`, `SaveIsDurable`, `FailsClosedLate` and `DirectoryBounded` always |
| `ContentIsPreserved` | `CompactionProofs` | `Spec => []ContentPreserved` |
| `GraceInvariant`, `ReaderIsComplete` | `CompactionProofs` | `GraceInv` and `ReaderComplete` always |
| `Invariance` | `PeriodsProofs` | `Spec => []PeriodsInv` |
| `OneEntryPerPeriod`, `UsageIsFrozen`, `GetIsComplete`, `AckedCloseIsKept`, `FrozenTotalsStay` | `PeriodsProofs` | `OneEntry`, `UsageFrozen`, `GetComplete` and `AckedCloseKept` always, and `Spec => FrozenStays` |
| `WatermarkInvariant`, `EventsRolledUpOnce`, `RollupsAreComplete` | `RollupProofs` | with rebuilds that start on the hour: `WatermarkInv`, `RolledUpOnce` and `RollupsComplete` always |
| `RollupInvariant`, `QueriesExact` | `RollupProofs` | with rebuilds that start and queries that start and end on the hour: `RollupInv` and `QueryExact` always |
| `LifecycleInvariant`, `NothingIsDropped`, `SegmentsAreKept` | `LifecycleProofs` | `LifecycleInv` and `Spec => SegmentsKept` with any order of sends; `NothingDropped` with sends in the order of the drains |

`IngestWriterProofs` has the types and the handlers' steps of the durability proof,
`IngestRecordProofs` where a record can be and the handlers' steps of the ownership
proof, `IngestPipelineProofs` the steps of flusher, crash and recovery in both, and the
theorems.

The only other assumptions are the named `ASSUME`s on the types of the constants.

**Write path: durability.**  `AckedDurable` is not inductive: whether an event
survives the next WAL deletion depends on which messages are in flight.  `IngestInv`
adds `TasksInv` (one task in the critical section, its lines in the tail), `WalInv`
(the active file is the highest, above the seal pointer; disk and memory agree on the
manifest), `QueueInv` (messages reach the flusher in strictly increasing seal order,
all above the committed one) and `SafeInv`: every cached or acknowledged event has a
record that is committed, or that is in an unsealed file such that any message that
would seal the file is preceded by, or is, a message carrying the record (`SafeIn`).
`Keeps` says that a step leaves every safe record safe in its file, or commits it;
`KeepsDrain` shows it of a drain and `KeepsCommit` of committing the message with the
lowest seal, and the other steps disturb neither messages nor seals.  A safe record
that is not committed is also in the memtable or in a message while the server is up,
which gives `NoneStranded`.  `IngestReordered`, and `IngestSaveFails.cfg` and
`IngestTorn.cfg` below, show that the theorems fail without their two assumptions,
`IngestPartialFlush.cfg` that `NoneStranded` does.  The run checks `IngestInv` with
failing unlinks; failing syncs are covered by the proof alone.

**Write path: owners.**  `OwnershipInv` needs neither assumption.  A drained batch
moves from the memtable to a task, the channel and the flusher, and from there into
the manifest or back.  That its records are nowhere else rests on `CopiesInv` (a line
is written once, so a new one is nowhere yet) and, at recovery, on `LoggedInv`: a line
of a committed record is in a file at or below the seal pointer on disk, so replay
does not bring it back.  This in turn needs every line of a batch to be in files that
the batch's seal covers, and the open file to be above every seal in flight
(`SealInv`), which is `OpenFileUnsealed`.  `DistinctInv` tells messages apart by their
seals.

**Write path: no event twice.**  `OneOwner` is about lines, `BilledOnce` about ids.
`BillInv` says that no id has two lines among all that is visible, on its way or found
by a restart, and that the dedupe cache of a running server knows every such id but
those of the request inside the critical section, whose ids it does not know yet.
`NothingNew` covers the steps that bring in no line.  A failed append or sync breaks
it, as `IngestRetry.cfg` below shows: lines stay whose ids the cache never learns.

**Write path: the durable log.**  `Refinement` maps the abstract log to the events a
restart would reconstruct.  Such a set could shrink in two ways: a file is deleted, or
a seal pointer passes over it.  `LogInv` says of every line in the log, acknowledged
or not, that it is committed or safe in its file; with `Keeps`, `RecoverableGrows`
gives that no step takes one away; that the log has one payload per id is
`BilledOnce`, and that it covers the acknowledgements `AckedDurable`.  With failing
syncs a line that was never acknowledged may be in the log twice, so only failing
unlinks are allowed here.  The theorem states safety; `DurableLog` has no fairness.

**Manifest.**  A save takes several steps, and a crash may keep or lose each rename that
was not synced.  `ManifestInv` says which files can differ from their synced state
(`SyncedInv`: the next generation's, and those the prune gives up), that nothing at or
above the loaded generation is older than the last successful save (`NewestInv`), how
many generations of the retained window still parse, counting one for each
corruption (`WindowInv`), what a complete prune left (`PruneInv`), and what can be on
disk before the first successful save, the migration of a legacy manifest included
(`FirstInv`).  The alternative is `CurrentLost`: a `CURRENT` that does not parse, after
which nothing starts again.  `MaxVersion` and `MaxCorruptions` bound the instance TLC explores; the
theorems hold for every value of them and of `KeepGenerations`.

**Compaction.**  `CompactionInv` says that ids were handed out before they are used and
name one segment, that no id in use is in a replacement record or in the worker's
list of files to delete, and that the output of a merge is new and holds the events
of its inputs if these are still in the manifest; the swap and the sweep then keep
the contents.  It is claimed while no swap has failed to be saved (`damaged`): the
code removes the output file of such a swap although the manifest in memory names
it.  `GraceInv` adds the reader: while its window is open, the files on its list
exist, every record that names one is at least as young as the reader, and so is
the tick that may add one.  The reader's window is counted from the start of the
tick that was running when it began, since the swap stamps its record with that
time.

**Periods.**  `PeriodsInv` follows the requests in flight (`InFlight`): usage that can
still be accepted either overlaps a close of its period, or was checked against an
entry and will be rejected, or no close has taken its totals and there is no entry.
`Rollups` says that an accepted event below the watermark is in a rollup or `late`.
`Reading` follows the query of a close from there: an event below the watermark that
it copied was read from a rollup or is late; one above it has been read, is still in the
memtable or in a segment the query has yet to list, or was seen on its way between the
two (`moved`).  `Gets` is the same for a get.  With them, totals have all the usage that
did not overlap, move or come late (`Totals`), whether they are committed or about to
be.  `Genuine` says that totals have nothing else, `Unique` that a period has one entry,
`Durable` that what was saved stays.  Nothing is claimed of totals after a restart that
undid an unsaved close or reopen (`reverted`).

**Rollup.**  That no event is in two rollup segments would be simple if a tick worked
on the manifest it changes.  It works on a copy, taken several lock acquisitions
earlier.  `WorkerInv` says what stays true of the copy: it has the rollups and the
watermark of the manifest, perhaps fewer raw segments, and all of them if the seal
pointers agree.  That is what the WAL check of `TickWal` tests, so from there on every
event owed to the rollups is in the copy or in the memtable, where `TickScan` looks for
it before it fixes the target.  Owed (`due`) is what arrived within the safety lag, or
lies in a rebuilt range; the events of `RollupRace` (`raced`) are excepted.
`ManifestOK` says that watermark and windows are whole hours and that an hour and
bucket have one segment, `Lagging` that all of them lie a safety lag in the past, so
that an event that arrives in time arrives before its hour is rolled up.
`CompleteInv` then says that a rollup segment has every event owed to its hour and
bucket, and that below the watermark there is one.  It is claimed while no save has
failed, as the properties are: the code removes the files of such a tick.  `QueryInv`
follows a query: its rows are below the start of its raw tail, its segments share no
event, and what it owes is below that start and in a row, or above it and in the raw
segments it copied.  A flush between two snapshots only adds raw segments, and a tick
moves no event across the start, which the query keeps.  The theorems need rebuilds
and queries on the hour; the deviations below show why.

**Lifecycle.**  `NothingDropped` rests on `LogInv`: the batches on their way, first those
in the channel, then those still to be sent, seal the WAL in the order of the log, each
holds every row between the seal before it and its own, and the memtable holds the rows
after the last (`PipelineOK`).  A send in the order of the drains leaves that sequence as
it is; a send out of order does not, and `LifecycleInv` claims `LogInv` only under
`InOrderSends` (`IngestReordered` shows the loss).  A commit of the
first message then passes only over rows that it adds as a segment, and a crash at any
point leaves the rest above the seal pointer, where recovery finds it.  That nobody
else moves the pointer is `LockInv` (one process at a time has the lock, and a memory)
and `ManifestInv` (its manifest is the one in the directory).  `SegmentsKept` follows
from the same two, for the admin commands that save a manifest too.

What is only model-checked, and why:

* the liveness properties `AckedVisible`, `WatermarkAdvances`, `CatchesUp` and
  `DrainedAtShutdown`: liveness is out of the prover's reach;
* `CacheUnique` and `RetryDetected`: recovery folds `insert_known` over all rows it
  reads, and what such a fold computes needs induction over the rows.  `RetryDetected`
  moreover holds of the instance and not in general (`LifecycleReaccept.cfg` below);
* `Segment`, `Query` and `Reads`, whose properties are about what recursive
  definitions compute from sequences.

## Known deviations

Besides the four runs above, these instances end in a counterexample.  Each has a
`.cfg` for `MCIngestPipeline`, `MCManifestStore`, `MCRollup`, `MCPeriods` or
`MCLifecycle`.

| Config | Property | What happens |
|---|---|---|
| `IngestPartialFlush.cfg` | `NoneStranded` | the events of buckets written before a failing bucket are not handed back |
| `IngestSaveFails.cfg` | `AckedDurable` | the seal pointer of a failed save survives the failure, the segments do not |
| `IngestTorn.cfg` | `AckedDurable` | the line after a torn line is glued to it and cannot be replayed |
| `IngestRetry.cfg` | `BilledOnce` | a retry after a failed sync leaves two lines for one event |
| `ManifestRollback.cfg` | `NothingOrphaned` | rolling back one generation forgets segments whose WAL files are gone |
| `ManifestCurrent.cfg` | `FailsOnlyWithoutGenerations` | a `CURRENT` that does not parse keeps the server down although generations parse; the comment of `load` (`storage/manifest.rs:206`) says "only when a manifest file exists but no generation parses cleanly" |
| `RollupRebuildTwice.cfg` | `RolledUpOnce` | `rebuild-rollups` moves the watermark to its `from` as it is; if that is not on the hour, ticks go on in windows that overlap the old ones |
| `RollupRebuildGap.cfg` | `RollupsComplete` | such a rebuild also removes the rollup of the whole hour that its `from` lies in, and the events of that hour before `from` are below the watermark and in no rollup |
| `RollupQueryOffHour.cfg` | `QueryExact` | a query that starts within an hour misses the rows of that hour, which rollups can only give as a whole |
| `PeriodSnapshot.cfg` | `SnapshotExact` | the memtable is drained while `snapshot_period_totals` is between its reads, and the frozen total lacks an event accepted long before the close, or a tick has passed over one; the comment in `handle_close_period` (`api/http_server.rs:732`) says "the snapshot reflects the state at close-time exactly" |
| `LifecycleReaccept.cfg` | `RetryDetected` | an event dated ahead of the clock is accepted again after its window; recovery registers the older acceptance, evicts it early, and a retry of the newer one is not detected |

Three more faults break `AckedDurable` as `IngestSaveFails.cfg` does, by letting a seal
pointer pass over a batch that no longer exists: a failed rotation after the drain
(`Faults = {"rotate"}`), a batch re-inserted while a later one is queued (`{"bucket"}`
with one bucket), and a handler dropped while it waits for the channel (`{"cancel"}`,
five WAL ids).

Behaviour that the models show and the properties exempt by name:

* Recovery rebuilds the dedupe cache from segments whose *event* times are within
  the window, although the window counts from arrival: a retry of an event that was
  old when it was sent is accepted again after a restart (`Excused` in `Lifecycle`).
  The rebuilt queue also starts with the WAL's entries, so that eviction from its
  front can stop early.
* After a restart the active WAL id may be more than one above the seal pointer with
  no batch on its way, and rollup ticks stall (`IdGap`).
* A failed save of a rollup or of a swap removes files that the manifest in memory
  still names (`faults = 0` in `Rollup`, `damaged` in `Compaction`).
* A close whose save failed stays in memory; a retry is answered with success
  although nothing is on disk (`dirty` in `Periods`).  A frozen total lacks usage that
  was in the flush channel when it was computed (`moved`), usage that arrived below the
  rollup watermark (`late`; `tests/explain_verify.rs` has such an event), and usage of
  requests that overlapped the close (`raced`), and no later answer brings them in; the
  live total of an open period lacks the first two until they are in segments and
  rollups.  Adjustments beyond an i64 are
  left out of the net total (`WideEvents`).
* On ranges that are not on the hour, rollups and raw segments give different sums
  (`HourRanges`).  Sums saturate, so they depend on the order of their terms
  (`NoSaturation`).
* Two SQL equalities on `account_id` are resolved to the second, and an equality on
  the timestamp matches nothing; they are not among the conditions of `SqlExact`.
* A segment that cannot be read is skipped by queries with a warning; `CheckCatches`
  says that `check --deep` reports it.  Sidecar indexes of swept segments stay behind.

## Not modelled

* Fast durability (no sync): its only promise is that of the operating system.
* The field checks of `validate_event`: they choose which batch reaches the critical
  section, which is a free choice here.
* Compression, bincode and the checksum function: lossless or collision-free
  libraries; a checksum is modelled by the bytes it covers.
* The directory of WAL and segment files, which the code never syncs: a file that was
  created is taken to be there after a crash of the machine.  `ManifestStore`, where the
  code does sync the directory, models what is lost when it has not.
* A failing rotation, flush or save and a dropped handler are in `IngestPipeline`, not in
  `Lifecycle`; failing flushes and ticks and unreadable files are in `IngestPipeline`,
  `Rollup` and `Compaction`, not in `Periods`.  `SegmentsKept` is about several
  processes; the swap of a server's own compaction is in `Compaction`.
* `frozen.event_count`: it counts the rows a query returned, and a rollup row is one row
  however many events it sums; no property is about it.
* SQL clauses that `parse_sql` neither uses nor refuses (`FETCH`, `TOP`, `FILTER`, `OVER`): a
  statement has none.
* The Parquet columns and the output of `inspect-segment` and `check`: formatting.
* `runtime/config.rs`: its values are the constants of the modules.
* The HTTP layer, JSON and the SQL parser: libraries; requests start at the handler.
