----------------------------- MODULE Compaction -----------------------------
(***************************************************************************)
(* The compaction worker against the flusher, readers, failed saves and    *)
(* restarts.                                                               *)
(*                                                                         *)
(* A tick sweeps the replacement records that are older than the grace     *)
(* window, plans, and runs one plan after the other.  It holds the         *)
(* manifest lock to collect the records, to drop them, to plan, and to     *)
(* swap; files are deleted, read and written between those steps.          *)
(*                                                                         *)
(* Data abstraction.  Segment files are immutable: a segment carries its   *)
(* events, and "files" says which segments have their file.  An event is   *)
(* its event_id, so that merging segments into a set is sort_and_dedupe.   *)
(* A reader stands for a query, a rollup tick or an export: it copies the  *)
(* segment list and opens the files one by one, skipping missing ones.     *)
(***************************************************************************)
EXTENDS Integers, FiniteSets

CONSTANTS
  Events,       \* event ids
  Bucket,       \* [Events -> Nat]: bucket_for_account of the event's account
  MaxSmall,     \* max_small_segments
  Grace,        \* grace_ms
  Start,        \* the clock at the first start; 0 marks legacy records
  MaxTime,      \* bound: the clock
  MaxFlushes,   \* bound: segments the flusher commits
  MaxRestarts,  \* bound: crashes
  MaxFaults     \* bound: failed writes, unlinks and saves

ASSUME CompactionAssumption ==
  /\ Bucket \in [Events -> Nat]
  /\ MaxSmall \in Nat \ {0}
  /\ Grace \in Nat
  /\ Start \in Nat \ {0}
  /\ {MaxTime, MaxFlushes, MaxRestarts, MaxFaults} \subseteq Nat

VARIABLES
  now,       \* the clock
  manifest,  \* raw_segments and compacted_replacements in memory
  disk,      \* the manifest a restart loads
  files,     \* ids of the segments that have their file
  nextId,    \* fresh segment ids (uuids in the code)
  worker,    \* progress of the tick
  reader,    \* progress of a reader
  flushed,   \* history: the events the flusher committed
  damaged,   \* history: a swap failed to be saved
  flushes, restarts, faults  \* counters

vars == <<now, manifest, disk, files, nextId, worker, reader, flushed, damaged,
          flushes, restarts, faults>>

IdleWorker == [pc |-> "idle", now |-> 0, doomed |-> {}, plans |-> {}, plan |-> {}, out |-> {}]
IdleReader == [pc |-> "idle", since |-> 0, todo |-> {}, seen |-> {}, owed |-> {}, missed |-> {}]

IdsOf(segs) == {s.id : s \in segs}
EventsOf(segs) == UNION {s.evs : s \in segs}
Present(segs) == {s \in segs : s.id \in files}
OldIds(records) == UNION {r.old : r \in records}

Init ==
  /\ now = Start
  /\ manifest = [segs |-> {}, repl |-> {}]
  /\ disk = manifest
  /\ files = {}
  /\ nextId = 1
  /\ worker = IdleWorker
  /\ reader = IdleReader
  /\ flushed = {}
  /\ damaged = FALSE
  /\ flushes = 0
  /\ restarts = 0
  /\ faults = 0

TimePasses ==
  /\ now < MaxTime
  /\ now' = now + 1
  /\ UNCHANGED <<manifest, disk, files, nextId, worker, reader, flushed, damaged,
                 flushes, restarts, faults>>

\* Mutant: the segment id is used again.
FlushReusesId(e) ==
  /\ flushes < MaxFlushes
  /\ flushes' = flushes + 1
  /\ manifest' = [manifest EXCEPT !.segs = @ \cup {[id |-> nextId, bucket |-> Bucket[e], evs |-> {e}]}]
  /\ disk' = manifest'
  /\ files' = files \cup {nextId}
  /\ flushed' = flushed \cup {e}
  /\ UNCHANGED <<now, nextId, worker, reader, damaged, restarts, faults>>

\* The flusher commits a segment; its save also writes what a failed save of
\* the compaction left in memory.
Flush(e) ==
  /\ flushes < MaxFlushes
  /\ flushes' = flushes + 1
  /\ manifest' = [manifest EXCEPT !.segs = @ \cup {[id |-> nextId, bucket |-> Bucket[e], evs |-> {e}]}]
  /\ disk' = manifest'
  /\ files' = files \cup {nextId}
  /\ nextId' = nextId + 1
  /\ flushed' = flushed \cup {e}
  /\ UNCHANGED <<now, worker, reader, damaged, restarts, faults>>

-----------------------------------------------------------------------------
(* CompactionWorker::tick *)

\* Mutant: the grace window is ignored.
ExpiredAtOnce(t) == {r \in manifest.repl : r.at # 0 /\ r.at <= t}

\* Replacement records older than the grace window; 0 marks a legacy record.
Expired(t) == {r \in manifest.repl : r.at # 0 /\ r.at <= t - Grace}

\* sweep_pending_deletions, the read lock.
SweepScan ==
  /\ worker.pc = "idle"
  /\ worker' = [IdleWorker EXCEPT !.now = now, !.doomed = Expired(now),
                                  !.pc = IF Expired(now) = {} THEN "plan" ELSE "delete"]
  /\ UNCHANGED <<now, manifest, disk, files, nextId, reader, flushed, damaged,
                 flushes, restarts, faults>>

\* The old files are deleted outside of any lock; one that cannot be deleted is
\* left behind.
SweepDelete ==
  /\ worker.pc = "delete"
  /\ \E kept \in SUBSET (files \cap OldIds(worker.doomed)) :
       /\ kept # {} => faults < MaxFaults
       /\ faults' = IF kept = {} THEN faults ELSE faults + 1
       /\ files' = (files \ OldIds(worker.doomed)) \cup kept
  /\ worker' = [worker EXCEPT !.pc = "save"]
  /\ UNCHANGED <<now, manifest, disk, nextId, reader, flushed, damaged, flushes, restarts>>

\* The write lock: the finalized records are dropped and the manifest is saved.
SweepSave ==
  /\ worker.pc = "save"
  /\ manifest' = [manifest EXCEPT !.repl = @ \ worker.doomed]
  /\ disk' = manifest'
  /\ worker' = [worker EXCEPT !.pc = "plan", !.doomed = {}]
  /\ UNCHANGED <<now, files, nextId, reader, flushed, damaged, flushes, restarts, faults>>

\* The save fails and ends the tick; the new generation may be on disk or not.
SweepSaveFails ==
  /\ worker.pc = "save"
  /\ faults < MaxFaults
  /\ faults' = faults + 1
  /\ manifest' = [manifest EXCEPT !.repl = @ \ worker.doomed]
  /\ disk' \in {disk, manifest'}
  /\ worker' = IdleWorker
  /\ UNCHANGED <<now, files, nextId, reader, flushed, damaged, flushes, restarts>>

\* Mutant: one segment more than the threshold is tolerated.
PlansOffByOne ==
  LET inBucket(b) == {s \in manifest.segs : s.bucket = b}
  IN {inBucket(b) : b \in {b \in {s.bucket : s \in manifest.segs} :
                             Cardinality(inBucket(b)) > MaxSmall + 1}}

\* CompactionPlanner::plan_compaction: the buckets with too many segments.
Plans ==
  LET inBucket(b) == {s \in manifest.segs : s.bucket = b}
  IN {inBucket(b) : b \in {b \in {s.bucket : s \in manifest.segs} :
                             Cardinality(inBucket(b)) > MaxSmall}}

\* The worker goes on with the plans that are left.
Remaining(plans) ==
  IF plans = {} THEN IdleWorker
  ELSE [worker EXCEPT !.pc = "run", !.plans = plans, !.plan = {}, !.out = {}]

\* The read lock.
PlanCompaction ==
  /\ worker.pc = "plan"
  /\ worker' = Remaining(Plans)
  /\ UNCHANGED <<now, manifest, disk, files, nextId, reader, flushed, damaged,
                 flushes, restarts, faults>>

\* run_one_plan up to the lock: the inputs are read, merged and written to a
\* new file.  A missing input is skipped, an empty result ends the plan.
MergeInputs ==
  /\ worker.pc = "run"
  /\ \E p \in worker.plans :
       LET evs == EventsOf(Present(p))
           out == [id |-> nextId, bucket |-> (CHOOSE s \in p : TRUE).bucket, evs |-> evs]
       IN IF evs = {}
            THEN worker' = Remaining(worker.plans \ {p}) /\ UNCHANGED <<files, nextId>>
            ELSE /\ worker' = [worker EXCEPT !.pc = "swap", !.plans = @ \ {p}, !.plan = p, !.out = {out}]
                 /\ files' = files \cup {nextId}
                 /\ nextId' = nextId + 1
  /\ UNCHANGED <<now, manifest, disk, reader, flushed, damaged, flushes, restarts, faults>>

\* Reading an input or writing the output fails; the plan is given up.
MergeFails ==
  /\ worker.pc = "run"
  /\ faults < MaxFaults
  /\ faults' = faults + 1
  /\ \E p \in worker.plans : worker' = Remaining(worker.plans \ {p})
  /\ UNCHANGED <<now, manifest, disk, files, nextId, reader, flushed, damaged, flushes, restarts>>

\* Mutant: whatever is in the bucket by now is replaced.
SwappedBucket ==
  [manifest EXCEPT
     !.segs = {s \in @ : \A o \in worker.out : s.bucket # o.bucket} \cup worker.out,
     !.repl = @ \cup {[old |-> IdsOf(worker.plan), at |-> worker.now]}]

\* The manifest after the swap; the record is stamped with the time at which the
\* tick began.
Swapped ==
  [manifest EXCEPT
     !.segs = (@ \ worker.plan) \cup worker.out,
     !.repl = @ \cup {[old |-> IdsOf(worker.plan), at |-> worker.now]}]

\* run_one_plan under the write lock: the swap, unless an input is gone.
Swap ==
  /\ worker.pc = "swap"
  /\ IF worker.plan \subseteq manifest.segs
       THEN /\ manifest' = Swapped
            /\ disk' = manifest'
            /\ UNCHANGED files
       ELSE /\ files' = files \ IdsOf(worker.out)
            /\ UNCHANGED <<manifest, disk>>
  /\ worker' = Remaining(worker.plans)
  /\ UNCHANGED <<now, nextId, reader, flushed, damaged, flushes, restarts, faults>>

\* The save of the swap fails: the output file is removed although the manifest
\* in memory, and possibly the one on disk, names it.
SwapSaveFails ==
  /\ worker.pc = "swap"
  /\ worker.plan \subseteq manifest.segs
  /\ faults < MaxFaults
  /\ faults' = faults + 1
  /\ manifest' = Swapped
  /\ disk' \in {disk, manifest'}
  /\ files' = files \ IdsOf(worker.out)
  /\ damaged' = TRUE
  /\ worker' = Remaining(worker.plans)
  /\ UNCHANGED <<now, nextId, reader, flushed, flushes, restarts>>

-----------------------------------------------------------------------------
(* Readers and restarts *)

\* A reader copies the segment list under the read lock.  A tick that runs at
\* that moment stamps its swap with the time it began.
ReadStart ==
  /\ reader.pc = "idle"
  /\ reader' = [pc |-> "read", todo |-> manifest.segs, seen |-> {}, owed |-> flushed, missed |-> {},
                since |-> IF worker.pc = "idle" THEN now ELSE worker.now]
  /\ UNCHANGED <<now, manifest, disk, files, nextId, worker, flushed, damaged,
                 flushes, restarts, faults>>

\* One file is opened and read; a missing one is skipped.
ReadFile ==
  /\ reader.pc = "read"
  /\ \E s \in reader.todo :
       reader' = [reader EXCEPT !.todo = @ \ {s}, !.seen = @ \cup EventsOf(Present({s}))]
  /\ UNCHANGED <<now, manifest, disk, files, nextId, worker, flushed, damaged,
                 flushes, restarts, faults>>

\* The reader ends; what a reader within the grace window missed is kept.
ReadEnd ==
  /\ reader.pc = "read"
  /\ reader.todo = {}
  /\ reader' = [IdleReader EXCEPT !.missed =
                  IF now - reader.since < Grace THEN reader.owed \ reader.seen ELSE {}]
  /\ UNCHANGED <<now, manifest, disk, files, nextId, worker, flushed, damaged,
                 flushes, restarts, faults>>

\* A crash and the restart after it: the manifest is the one on disk.
Restart ==
  /\ restarts < MaxRestarts
  /\ restarts' = restarts + 1
  /\ manifest' = disk
  /\ worker' = IdleWorker
  /\ reader' = IdleReader
  /\ UNCHANGED <<now, disk, files, nextId, flushed, damaged, flushes, faults>>

-----------------------------------------------------------------------------

Tick ==
  \/ SweepScan
  \/ SweepDelete
  \/ SweepSave
  \/ PlanCompaction
  \/ MergeInputs
  \/ Swap

Next ==
  \/ TimePasses
  \/ \E e \in Events : Flush(e)
  \/ Tick
  \/ SweepSaveFails
  \/ MergeFails
  \/ SwapSaveFails
  \/ ReadStart
  \/ ReadFile
  \/ ReadEnd
  \/ Restart

Spec == Init /\ [][Next]_vars

\* The interval timer keeps calling tick.
FairSpec == Spec /\ WF_vars(Tick)

-----------------------------------------------------------------------------
(* Properties *)

\* Compaction keeps the contents of the database: whatever was flushed while
\* plans were made, merged and swapped, and whichever steps of the sweep failed
\* or were cut short by a crash, the segments in memory and those a restart
\* would load have their files and hold exactly the flushed events.  The swap
\* whose save failed is the exception (run_one_plan, sweep_pending_deletions).
ContentPreserved ==
  ~damaged => \A m \in {manifest, disk} :
    /\ IdsOf(m.segs) \subseteq files
    /\ EventsOf(m.segs) = flushed

\* A reader that is done within the grace window, counted from the start of the
\* tick that was running when it began, misses nothing (the module comment on
\* the grace window, sweep_pending_deletions).
ReaderComplete == ~damaged => reader.missed = {}

\* Compaction catches up: once flushes stop, every bucket comes down to the
\* threshold for good, in spite of failed steps and crashes.
CatchesUp ==
  <>[](damaged \/ \A b \in {Bucket[e] : e \in Events} :
         Cardinality({s \in manifest.segs : s.bucket = b}) <= MaxSmall)

=============================================================================
