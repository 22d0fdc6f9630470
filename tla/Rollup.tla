------------------------------- MODULE Rollup -------------------------------
(***************************************************************************)
(* The rollup worker against ingest, the flusher, queries, restarts and    *)
(* the rebuild command.                                                    *)
(*                                                                         *)
(* A tick takes the manifest lock, the WAL lock, the memtable lock twice   *)
(* and the manifest lock again, releasing each before the next: every      *)
(* acquisition is a step, and anything may happen in between.  A query     *)
(* takes the manifest lock once or twice and then the memtable lock.       *)
(*                                                                         *)
(* Data abstraction.  A raw segment is the set of its events.  A rollup    *)
(* segment is an id, a window start, a bucket, the events aggregated into  *)
(* its rows, and whether its file exists; the manifest's list of them is a *)
(* set, since nothing depends on its order and the id tells two equal ones *)
(* apart.  A rollup row in a query result stands for the events it sums.   *)
(* Time is counted in units of which Hour make an hour.  Batches reach the *)
(* flusher in sealing order and flushes succeed (IngestPipeline has the    *)
(* other cases), so the WAL files that a restart replays hold exactly the  *)
(* accepted events that no segment holds.                                  *)
(***************************************************************************)
EXTENDS Integers, Sequences, FiniteSets

CONSTANTS
  Events,        \* the events clients send
  Ts,            \* [Events -> Nat]: timestamp_ms
  Bucket,        \* [Events -> Nat]: bucket_for_account of the event's account
  Hour,          \* HOUR_MS
  SafetyLag,     \* rollup_safety_lag_ms
  MaxAge,        \* memtable_max_age_ms
  RebuildRanges, \* the <<from, to>> that rebuild-rollups may be called with
  QueryRange,    \* the <<from, to>> of queries
  Start,         \* the clock when the database is created
  MaxTime,       \* bound: the clock
  MaxWalId,      \* bound: WAL file ids
  MaxRestarts,   \* bound: crashes
  MaxFaults      \* bound: failed manifest saves

ASSUME RollupAssumption ==
  /\ Ts \in [Events -> Nat]
  /\ Bucket \in [Events -> Nat]
  /\ Hour \in Nat \ {0}
  /\ {SafetyLag, MaxAge, Start, MaxTime, MaxWalId, MaxRestarts, MaxFaults} \subseteq Nat
  /\ RebuildRanges \subseteq Nat \X Nat
  /\ QueryRange \in Nat \X Nat
  /\ Start <= MaxTime
  /\ MaxWalId >= 1

VARIABLES
  now,       \* the clock
  up,        \* the server runs
  memtable,  \* buffered events
  oldest,    \* Memtable.oldest_insert_at_ms
  activeId,  \* Wal.active_id
  inflight,  \* drained batches that are not committed yet, in sealing order
  manifest,  \* the in-memory manifest
  disk,      \* the manifest a restart would load
  worker,    \* progress of the rollup tick
  query,     \* progress of a query
  ingested,  \* history: accepted events
  due,       \* history: events that rollups below the watermark must include
  raced,     \* history: those drained while a tick was reading the memtable
  restarts, faults  \* counters

vars == <<now, up, memtable, oldest, activeId, inflight, manifest, disk, worker,
          query, ingested, due, raced, restarts, faults>>

pipelineVars == <<up, memtable, oldest, activeId, inflight, ingested>>

FloorHour(t) == (t \div Hour) * Hour
MinOf(S) == CHOOSE x \in S : \A y \in S : x <= y
Lower(a, b) == IF a < b THEN a ELSE b
Higher(a, b) == IF a > b THEN a ELSE b
TsOf(evs) == {Ts[e] : e \in evs}
Within(evs, from, to) == {e \in evs : from <= Ts[e] /\ Ts[e] < to}
AllOf(segs) == UNION segs

NoManifest == [raw |-> {}, rollups |-> {}, wm |-> 0, sealed |-> 0]
IdleWorker == [pc |-> "idle", now |-> 0, snap |-> NoManifest, target |-> 0, new |-> {}]
IdleQuery == [pc |-> "idle", from |-> 0, raw |-> {}, rows |-> {}, owed |-> {}, wrong |-> {}]

Init ==
  /\ now = Start
  /\ up = TRUE
  /\ memtable = {}
  /\ oldest = 0
  /\ activeId = 1
  /\ inflight = <<>>
  /\ manifest = NoManifest
  /\ disk = NoManifest
  /\ worker = IdleWorker
  /\ query = IdleQuery
  /\ ingested = {}
  /\ due = {}
  /\ raced = {}
  /\ restarts = 0
  /\ faults = 0

\* The clock; while the server is down it leaves time for a restart.
TimePasses ==
  /\ now < MaxTime
  /\ up \/ now + MaxAge < MaxTime
  /\ now' = now + 1
  /\ UNCHANGED <<pipelineVars, manifest, disk, worker, query, due, raced, restarts, faults>>

-----------------------------------------------------------------------------
(* Ingest and flush *)

\* There is time left for what is buffered now to become stale.
Room == now + MaxAge <= MaxTime

\* A tick has seen the WAL id and has not read the memtable for the last time.
TickReading == worker.pc \in {"age", "min"}

\* An event is accepted (Memtable::insert).  It is owed to the rollups if its
\* timestamp is within the safety lag of its arrival.
Ingest(e) ==
  /\ up /\ Room
  /\ e \notin ingested
  /\ ingested' = ingested \cup {e}
  /\ memtable' = memtable \cup {e}
  /\ oldest' = IF memtable = {} THEN now ELSE oldest
  /\ due' = IF Ts[e] >= now - SafetyLag THEN due \cup {e} ELSE due
  /\ UNCHANGED <<now, up, activeId, inflight, manifest, disk, worker, query,
                 raced, restarts, faults>>

\* Mutant: the WAL is not rotated.
DrainKeepsId ==
  /\ activeId < MaxWalId
  /\ inflight' = Append(inflight, [events |-> memtable, sealed |-> activeId])
  /\ UNCHANGED activeId
  /\ memtable' = {}
  /\ oldest' = 0

\* Memtable::drain_all with Wal::rotate: the batch waits for the flusher.
Drain ==
  /\ activeId < MaxWalId
  /\ inflight' = Append(inflight, [events |-> memtable, sealed |-> activeId])
  /\ activeId' = activeId + 1
  /\ memtable' = {}
  /\ oldest' = 0

\* A request fills the memtable and its handler drains it.
IngestDrain ==
  /\ up
  /\ memtable # {}
  /\ Drain
  /\ raced' = IF TickReading THEN raced \cup memtable ELSE raced
  /\ UNCHANGED <<now, up, manifest, disk, worker, query, ingested, due, restarts, faults>>

\* The flusher commits the oldest batch: one raw segment per bucket, and the
\* seal pointer.
FlushCommit ==
  /\ up
  /\ inflight # <<>>
  /\ LET evs == Head(inflight).events
         segs == {{e \in evs : Bucket[e] = b} : b \in {Bucket[e] : e \in evs}}
     IN manifest' = [manifest EXCEPT !.raw = @ \cup segs,
                                     !.sealed = Higher(@, Head(inflight).sealed)]
  /\ disk' = manifest'
  /\ inflight' = Tail(inflight)
  /\ UNCHANGED <<now, up, memtable, oldest, activeId, worker, query, ingested,
                 due, raced, restarts, faults>>

-----------------------------------------------------------------------------
(* RollupWorker::tick *)

\* The manifest read lock: everything the tick knows of the manifest.
TickStart ==
  /\ up
  /\ worker.pc = "idle"
  /\ worker' = [IdleWorker EXCEPT !.pc = "wal", !.now = now, !.snap = manifest]
  /\ UNCHANGED <<now, pipelineVars, manifest, disk, query, due, raced, restarts, faults>>

\* Mutant: a flush in flight does not stop the tick.
TickWalAlways ==
  /\ worker.pc = "wal"
  /\ worker' = [worker EXCEPT !.pc = "age"]
  /\ UNCHANGED <<now, pipelineVars, manifest, disk, query, due, raced, restarts, faults>>

\* The WAL lock, safety bound (b): skip while a sealed file is uncommitted.
TickWal ==
  /\ worker.pc = "wal"
  /\ worker' = IF activeId > worker.snap.sealed + 1
                 THEN IdleWorker
                 ELSE [worker EXCEPT !.pc = "age"]
  /\ UNCHANGED <<now, pipelineVars, manifest, disk, query, due, raced, restarts, faults>>

\* Mutant: a stale memtable is left alone.
TickAgeNever ==
  /\ worker.pc = "age"
  /\ worker' = [worker EXCEPT !.pc = "min"]
  /\ UNCHANGED <<now, pipelineVars, manifest, disk, query, due, raced, restarts, faults>>

\* The memtable lock: a memtable that waited too long is drained instead.
TickAge ==
  /\ worker.pc = "age"
  /\ worker' = IF memtable # {} /\ worker.now - oldest >= MaxAge
                 THEN [worker EXCEPT !.pc = "drain"]
                 ELSE [worker EXCEPT !.pc = "min"]
  /\ UNCHANGED <<now, pipelineVars, manifest, disk, query, due, raced, restarts, faults>>

\* force_drain_memtable; the memtable may have been drained meanwhile.
TickDrain ==
  /\ worker.pc = "drain"
  /\ \/ memtable = {} /\ UNCHANGED <<memtable, oldest, activeId, inflight>>
     \/ memtable # {} /\ Drain
  /\ worker' = IdleWorker
  /\ UNCHANGED <<now, up, ingested, manifest, disk, query, due, raced, restarts, faults>>

\* Safety bounds (a) and (c): the hour that the lag has passed, and no further
\* than the hour of the oldest buffered event.  The division truncates, which
\* is the floor for the times of this model.
TargetHour(tickNow, mem) ==
  LET timeTarget == FloorHour(Higher(tickNow - SafetyLag, 0))
  IN IF mem = {} THEN timeTarget
     ELSE Lower(timeTarget, FloorHour(MinOf(TsOf(mem))))

\* A fresh watermark starts where the data does.
FirstHour(snap) ==
  IF snap.wm = 0 /\ snap.raw # {}
    THEN FloorHour(MinOf(TsOf(AllOf(snap.raw)))) ELSE snap.wm

\* The windows of the tick: whole hours counted from the watermark.
Windows(first, target) ==
  {w \in first..(target - 1) : \E k \in 0..(target - first) : w = first + k * Hour}

\* Mutant: hours that have a rollup segment already are rolled up again.
NeverRolled(snap) == {}

\* (hour, bucket) pairs with a rollup segment.
AlreadyRolled(snap) == {<<r.min, r.bucket>> : r \in snap.rollups}

\* Segment ids are random: no segment of the manifest has it.
FreshId(snap) == CHOOSE n \in 0..Cardinality(snap.rollups) : \A r \in snap.rollups : r.id # n

\* The events of one rollup segment: of the raw segments that overlap the
\* window, what falls into the window and the bucket.
RowsOf(snap, w, b) ==
  LET overlapping == {s \in snap.raw : /\ \E e \in s : Ts[e] >= w
                                       /\ \E e \in s : Ts[e] < w + Hour}
  IN {e \in Within(AllOf(overlapping), w, w + Hour) : Bucket[e] = b}

\* write_rollup_segment (RollupBuilder adds the events up by key; the sums are the
\* subject of Reads).
NewSegment(snap, w, b) ==
  [id |-> FreshId(snap), min |-> w, bucket |-> b, evs |-> RowsOf(snap, w, b), file |-> "written"]

\* The rollup segments of a tick, one per window and bucket that has events and
\* no segment yet.
RollupSegments(snap, target) ==
  {r \in {NewSegment(snap, w, b) :
            w \in Windows(FirstHour(snap), target), b \in {Bucket[e] : e \in Events}} :
     r.evs # {} /\ <<r.min, r.bucket>> \notin AlreadyRolled(snap)}

\* The memtable lock again, the target, and the scan of the segments the
\* snapshot names, all of it outside of any lock.
TickScan ==
  /\ worker.pc = "min"
  /\ LET target == TargetHour(worker.now, memtable)
     IN worker' = IF target <= FirstHour(worker.snap)
                    THEN IdleWorker
                    ELSE [worker EXCEPT !.pc = "commit", !.target = target,
                                        !.new = RollupSegments(worker.snap, target)]
  /\ UNCHANGED <<now, pipelineVars, manifest, disk, query, due, raced, restarts, faults>>

\* The manifest write lock: segments and watermark are saved together.
TickCommit ==
  /\ worker.pc = "commit"
  /\ manifest' = [manifest EXCEPT !.rollups = @ \cup worker.new, !.wm = worker.target]
  /\ disk' = manifest'
  /\ worker' = IdleWorker
  /\ UNCHANGED <<now, pipelineVars, query, due, raced, restarts, faults>>

\* The save fails: the files are removed, the in-memory manifest is not rolled
\* back, and the new generation may be the one a restart loads.
TickSaveFails ==
  /\ worker.pc = "commit"
  /\ faults < MaxFaults
  /\ faults' = faults + 1
  /\ LET gone == {[r EXCEPT !.file = "removed"] : r \in worker.new}
     IN manifest' = [manifest EXCEPT !.rollups = @ \cup gone, !.wm = worker.target]
  /\ disk' \in {disk, manifest'}
  /\ worker' = IdleWorker
  /\ UNCHANGED <<now, pipelineVars, query, due, raced, restarts>>

-----------------------------------------------------------------------------
(* Restart and the rebuild command *)

Crash ==
  /\ up /\ Room
  /\ restarts < MaxRestarts
  /\ restarts' = restarts + 1
  /\ up' = FALSE
  /\ memtable' = {}
  /\ oldest' = 0
  /\ inflight' = <<>>
  /\ manifest' = disk
  /\ worker' = IdleWorker
  /\ query' = IdleQuery
  /\ UNCHANGED <<now, activeId, disk, ingested, due, raced, faults>>

\* Recovery replays the unsealed WAL files into the memtable; Wal::open goes on
\* with the highest of them.
Recover ==
  /\ ~up /\ Room
  /\ up' = TRUE
  /\ memtable' = ingested \ AllOf(disk.raw)
  /\ oldest' = IF memtable' = {} THEN 0 ELSE now
  /\ UNCHANGED <<now, activeId, inflight, manifest, disk, worker, query, ingested,
                 due, raced, restarts, faults>>

\* cmd_rebuild_rollups and RollupWorker::rebuild_rollups: an admin command, so
\* the server is down (the process lock).  Whatever was accepted for the range
\* is owed to the rollups from here on, late events included.
RebuildRollups(range) ==
  /\ ~up
  /\ LET overlapping == {r \in manifest.rollups : r.min < range[2] /\ r.min + Hour - 1 >= range[1]}
     IN manifest' = [manifest EXCEPT !.rollups = @ \ overlapping,
                                     !.wm = Lower(@, range[1])]
  /\ disk' = manifest'
  /\ due' = due \cup Within(ingested, range[1], range[2])
  /\ raced' = raced \ Within(ingested, range[1], range[2])
  /\ UNCHANGED <<now, pipelineVars, worker, query, restarts, faults>>

-----------------------------------------------------------------------------
(* Queries *)

\* What a rollup query reads of the rollup segments: whole rows, by the hour of
\* the row; a missing file is skipped.
RollupRows(m, from, upper) ==
  {[id |-> r.id, min |-> r.min, bucket |-> r.bucket,
    evs |-> {e \in r.evs : from <= FloorHour(Ts[e]) /\ FloorHour(Ts[e]) < upper}] :
     r \in {r \in m.rollups : r.file = "written" /\ r.min < upper /\ r.min + Hour - 1 >= from}}

\* The events a query that starts now has to count: those committed in its range.
Committed == Within(AllOf(manifest.raw), QueryRange[1], QueryRange[2])

\* A query ends with the rows of rollup segments, raw events and buffered events
\* that it has collected.  Of its answer the model keeps the events that are
\* wrong in it: counted more than once, counted and not in the range, or owed
\* and not counted.
Answered(rows, raw, buffered) ==
  LET rolled == UNION {r.evs : r \in rows}
      counted == rolled \cup raw \cup buffered
      twice == {e \in rolled : \E r, s \in rows : r # s /\ e \in r.evs /\ e \in s.evs}
               \cup (rolled \cap raw) \cup (rolled \cap buffered) \cup (raw \cap buffered)
  IN [IdleQuery EXCEPT !.wrong = twice \cup (query.owed \ counted)
                                  \cup (counted \ Within(Events, QueryRange[1], QueryRange[2]))]

\* collect_rollup_then_raw_tail, first snapshot: rows up to the watermark.
QueryRollups ==
  /\ up
  /\ query.pc = "idle"
  /\ query' = [IdleQuery EXCEPT
       !.pc = "tail",
       !.from = Higher(QueryRange[1], manifest.wm),
       !.rows = RollupRows(manifest, QueryRange[1], Lower(QueryRange[2], manifest.wm)),
       !.owed = {e \in Committed : Ts[e] < manifest.wm => e \in due \ raced}]
  /\ UNCHANGED <<now, pipelineVars, manifest, disk, worker, due, raced, restarts, faults>>

\* collect_raw_events for a raw query: the manifest snapshot.
QueryRaw ==
  /\ up
  /\ query.pc = "idle"
  /\ query' = [IdleQuery EXCEPT !.pc = "memtable", !.from = QueryRange[1],
                                !.raw = AllOf(manifest.raw), !.owed = Committed]
  /\ UNCHANGED <<now, pipelineVars, manifest, disk, worker, due, raced, restarts, faults>>

\* Mutant: the raw tail starts at the range, not at the watermark.
QueryTailWhole ==
  /\ query.pc = "tail"
  /\ query' = [query EXCEPT !.pc = "memtable", !.raw = AllOf(manifest.raw), !.from = QueryRange[1]]
  /\ UNCHANGED <<now, pipelineVars, manifest, disk, worker, due, raced, restarts, faults>>

\* The raw fallback above the watermark takes a manifest snapshot of its own.
QueryTail ==
  /\ query.pc = "tail"
  /\ query' = IF query.from < QueryRange[2]
                THEN [query EXCEPT !.pc = "memtable", !.raw = AllOf(manifest.raw)]
                ELSE Answered(query.rows, {}, {})
  /\ UNCHANGED <<now, pipelineVars, manifest, disk, worker, due, raced, restarts, faults>>

\* The end of collect_raw_events: the segments of the snapshot, then the
\* memtable as it is now.
QueryMemtable ==
  /\ query.pc = "memtable"
  /\ query' = Answered(query.rows, Within(query.raw, query.from, QueryRange[2]),
                                  Within(memtable, query.from, QueryRange[2]))
  /\ UNCHANGED <<now, pipelineVars, manifest, disk, worker, due, raced, restarts, faults>>

-----------------------------------------------------------------------------

Tick ==
  \/ TickStart
  \/ TickWal
  \/ TickAge
  \/ TickDrain
  \/ TickScan
  \/ TickCommit

Query ==
  \/ QueryRollups
  \/ QueryRaw
  \/ QueryTail
  \/ QueryMemtable

Next ==
  \/ TimePasses
  \/ \E e \in Events : Ingest(e)
  \/ IngestDrain
  \/ FlushCommit
  \/ Tick
  \/ TickSaveFails
  \/ Crash
  \/ Recover
  \/ \E range \in RebuildRanges : RebuildRollups(range)
  \/ Query

Spec == Init /\ [][Next]_vars

\* The clock runs, the interval timer fires, the flusher loop runs, a crashed
\* server is restarted.  Requests, crashes and rebuilds are not forced.
\* Each subscript is a variable that every step of the action changes.
Fairness ==
  /\ WF_now(TimePasses)
  /\ WF_worker(Tick)
  /\ WF_inflight(FlushCommit)
  /\ WF_up(Recover)

FairSpec == Spec /\ Fairness

-----------------------------------------------------------------------------
(* Properties *)

\* The type invariant.
TypeOK ==
  /\ now \in Start..MaxTime
  /\ up \in BOOLEAN
  /\ memtable \subseteq Events
  /\ oldest \in 0..MaxTime
  /\ activeId \in 1..MaxWalId
  /\ \A i \in DOMAIN inflight : inflight[i].events \subseteq Events
  /\ \A m \in {manifest, disk} :
       /\ \A s \in m.raw : s # {} /\ s \subseteq Events
       /\ \A r \in m.rollups : r.evs \subseteq Events
       /\ m.sealed < activeId
  /\ worker.pc \in {"idle", "wal", "age", "drain", "min", "commit"}
  /\ query.pc \in {"idle", "tail", "memtable"}
  /\ due \subseteq ingested
  /\ restarts \in 0..MaxRestarts
  /\ faults \in 0..MaxFaults

\* No event is aggregated into two rollup segments, whatever rebuilds, crashes
\* and failed saves come between the ticks (tick, already_rolled).
RolledUpOnce ==
  \A r1, r2 \in manifest.rollups : r1.evs \cap r2.evs # {} => r1 = r2

\* Below the watermark the rollups are complete: an event that arrived within
\* the safety lag, or whose range was rebuilt, is in a rollup segment that can
\* be read.  Excepted are events drained while a tick was between its WAL check
\* and its memtable check, and what a failed save removed.
RollupsComplete ==
  faults = 0 =>
    \A e \in due \ raced : Ts[e] < manifest.wm =>
      \E r \in manifest.rollups : e \in r.evs /\ r.file = "written"

\* What a query has to count, it counts, and it counts nothing twice and nothing
\* outside of its range, although it reads the rollups, the raw segments and the
\* memtable one after the other (collect_rollup_then_raw_tail,
\* collect_raw_events).
QueryExact ==
  faults = 0 => query.wrong = {}

\* The promise of the README, that the watermark never crosses unflushed data:
\* no tick moves it past an event that arrived within the safety lag and that
\* is in the memtable or in a batch on its way to a segment.
UnflushedBelowWatermark ==
  [][manifest'.wm > manifest.wm =>
       \A e \in memtable \cup UNION {inflight[i].events : i \in DOMAIN inflight} :
         e \in due => Ts[e] >= manifest'.wm]_vars

\* Ticks that can never get past safety bound (b): no batch is on its way, and
\* yet the active WAL file is not the one after the seal pointer.
IdGap == up /\ inflight = <<>> /\ activeId > manifest.sealed + 1

\* The watermark catches up with the clock again and again, a safety lag behind
\* it, as stale memtables are drained, unless a restart left a gap in the WAL ids.
WatermarkAdvances ==
  []<>(manifest.wm >= FloorHour(Higher(now - SafetyLag, 0)) \/ IdGap)

=============================================================================
