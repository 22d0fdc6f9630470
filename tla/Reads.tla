------------------------------- MODULE Reads --------------------------------
(***************************************************************************)
(* What the reading side makes of the files that the writing side leaves:  *)
(* flushed segments, hourly rollups, and the queries, reports, checks and  *)
(* exports over them, with segment files damaged or lost.                  *)
(*                                                                         *)
(* Rows do not arrive below the watermark here, and the rollup worker      *)
(* waits for the rows in memory: late rows, races and restarts are the     *)
(* subject of Rollup.  Reads are over a state that does not change         *)
(* underneath them: that is the subject of Rollup and Compaction.          *)
(***************************************************************************)
EXTENDS Query, TLC

CONSTANTS
  Pool,       \* the rows that clients send
  MaxRows,    \* bound: rows accepted
  MaxFaults,  \* bound: files damaged or lost
  Filters,    \* filters of the plans that the properties are about
  Wheres,     \* WHERE clauses that the properties are about
  Times       \* ends of the ranges that the properties are about

ASSUME ReadsAssumption == {MaxRows, MaxFaults} \subseteq Nat

VARIABLES
  memtable,   \* rows not yet flushed, in the order they came
  segs,       \* raw_segments: [meta, file, lost, idx], with the files on disk
  rollups,    \* rollup_segments: [bucket, min, max, inputs, checksum, file, lost]
  watermark,  \* hourly_rollup_ms
  log,        \* history: the rows accepted
  faults      \* counter

vars == <<memtable, segs, rollups, watermark, log, faults>>

Buckets == {BucketOf[a] : a \in DOMAIN BucketOf}

Init ==
  /\ memtable = <<>>
  /\ segs = <<>>
  /\ rollups = <<>>
  /\ watermark = 0
  /\ log = {}
  /\ faults = 0

\* A row is accepted.
Insert(row) ==
  /\ row \in Pool \ log
  /\ Cardinality(log) < MaxRows
  /\ row.ts >= watermark
  /\ memtable' = Append(memtable, row)
  /\ log' = log \cup {row}
  /\ UNCHANGED <<segs, rollups, watermark, faults>>

\* sort_events_canonical: by account, product, model (None first) and time.
SortEventsCanonical(rows) ==
  LET model(r) == IF r.model = None THEN 0 ELSE r.model
      less(a, b) ==
        \/ a.account < b.account
        \/ a.account = b.account /\ a.product < b.product
        \/ a.account = b.account /\ a.product = b.product /\ model(a) < model(b)
        \/ a.account = b.account /\ a.product = b.product /\ model(a) = model(b) /\ a.ts < b.ts
  IN SortSeq(rows, less)

\* write_dedupe_index: an entry per row.  The checksum is the body itself.
WriteDedupeIndex(rows) ==
  LET entries == [i \in DOMAIN rows |-> rows[i].id]
  IN [entries |-> entries, checksum |-> entries]

\* attempt_flush and write_bucket: a segment and its dedupe sidecar for every
\* bucket of the batch.
Flush ==
  /\ memtable # <<>>
  /\ LET rowsOf(b) == SelectSeq(memtable, LAMBDA r : BucketOf[r.account] = b)
         buckets == SetToSeq({b \in Buckets : rowsOf(b) # <<>>})
         seg(i) == LET rows == SortEventsCanonical(rowsOf(buckets[i]))
                   IN [meta |-> BuildSegmentMeta(Len(segs) + i, buckets[i], rows),
                       file |-> Finish(rows), lost |-> FALSE,
                       idx |-> WriteDedupeIndex(rows)]
     IN segs' = segs \o [i \in DOMAIN buckets |-> seg(i)]
  /\ memtable' = <<>>
  /\ UNCHANGED <<rollups, watermark, log, faults>>

\* A raw segment file opens: it is there and the reader's checks pass.
Opens(seg) == ~seg.lost /\ Readable(seg.file)

\* RollupSegmentReader::open: the file has the checksum in the manifest.
RollupOpens(rseg) == ~rseg.lost /\ rseg.file = rseg.checksum

\* write_rollup_segment and build_rollup_segment_meta.
WriteRollupSegment(records, bucket, hour, inputs) ==
  [bucket |-> bucket, min |-> hour, max |-> hour + Hour - 1, inputs |-> inputs,
   checksum |-> records, file |-> records, lost |-> FALSE]

\* The watermark a tick starts from: in a new database, where the data starts.
FirstHour ==
  IF watermark = 0 /\ segs # <<>> THEN (Min({s.meta.min : s \in ToSet(segs)}) \div Hour) * Hour ELSE watermark

\* RollupWorker::tick up to the hour w: the segments of each hour are scanned
\* (a lost file is skipped, a damaged one fails the tick), and each bucket with
\* rows gets a rollup segment.
RollUp(w) ==
  LET scanned(h) == SelectSeq(segs, LAMBDA s : s.meta.max >= h /\ s.meta.min < h + Hour /\ ~s.lost)
      rowsOf(s, h, b) == SelectSeq(Rows(s.file), LAMBDA r : h <= r.ts /\ r.ts < h + Hour /\ BucketOf[r.account] = b)
      rows(h, b) == FlattenSeq([i \in DOMAIN scanned(h) |-> rowsOf(scanned(h)[i], h, b)])
      inputs(h, b) == {s.meta.id : s \in {x \in ToSet(scanned(h)) : rowsOf(x, h, b) # <<>>}}
      hours == {h \in FirstHour..(w - 1) : h % Hour = 0}
  IN /\ w > FirstHour
     /\ \A i \in DOMAIN memtable : memtable[i].ts >= w
     /\ \A h \in hours : \A i \in DOMAIN scanned(h) : Opens(scanned(h)[i])
     /\ rollups' = rollups \o SetToSeq({WriteRollupSegment(RollupRecords(rows(p[1], p[2])), p[2], p[1], inputs(p[1], p[2])) :
                                         p \in {q \in hours \X Buckets : rows(q[1], q[2]) # <<>>}})
     /\ watermark' = w
     /\ UNCHANGED <<memtable, segs, log, faults>>

\* A raw segment file loses its end, or its body changes.
DamageSegment(i) ==
  /\ faults < MaxFaults
  /\ \E file \in {[segs[i].file EXCEPT !.endMagic = FALSE],
                  [segs[i].file EXCEPT !.body.columns["qty"].payload.count = 0, !.body.rowCount = 0]} :
       segs' = [segs EXCEPT ![i].file = file]
  /\ faults' = faults + 1
  /\ UNCHANGED <<memtable, rollups, watermark, log>>

\* A raw segment file is lost.
LoseSegment(i) ==
  /\ faults < MaxFaults
  /\ segs' = [segs EXCEPT ![i].lost = TRUE]
  /\ faults' = faults + 1
  /\ UNCHANGED <<memtable, rollups, watermark, log>>

\* A sidecar could not be written or is lost, or its entries change.
HarmIndex(i) ==
  /\ faults < MaxFaults
  /\ segs[i].idx # None
  /\ \E idx \in {None, [segs[i].idx EXCEPT !.entries = <<>>]} : segs' = [segs EXCEPT ![i].idx = idx]
  /\ faults' = faults + 1
  /\ UNCHANGED <<memtable, rollups, watermark, log>>

\* A rollup segment file loses its records, or is lost.
HarmRollup(i) ==
  /\ faults < MaxFaults
  /\ rollups' \in {[rollups EXCEPT ![i].file = {}], [rollups EXCEPT ![i].lost = TRUE]}
  /\ faults' = faults + 1
  /\ UNCHANGED <<memtable, segs, watermark, log>>

Next ==
  \/ \E row \in Pool : Insert(row)
  \/ Flush
  \/ \E h \in 1..(I64Max \div Hour) : RollUp(h * Hour)
  \/ \E i \in DOMAIN segs : DamageSegment(i) \/ LoseSegment(i) \/ HarmIndex(i)
  \/ \E i \in DOMAIN rollups : HarmRollup(i)

Spec == Init /\ [][Next]_vars

-----------------------------------------------------------------------------
(* Reading *)

\* collect_raw_events: the segments that pass the pruning, then the memtable; a
\* file that does not open is skipped.
CollectRaw(plan, from, to) ==
  LET used == SelectSeq(segs, LAMBDA s : SegmentOverlapsPlan(s.meta, plan, from, to) /\ Opens(s))
      rows == FlattenSeq([i \in DOMAIN used |-> Rows(used[i].file)]) \o memtable
  IN SelectSeq(rows, LAMBDA r : from <= r.ts /\ r.ts < to)

\* collect_rollup_then_raw_tail.
CollectRollupThenRawTail(plan) ==
  LET upper == Min({plan.to, watermark})
      used == SelectSeq(rollups, LAMBDA s :
                /\ s.min < upper /\ s.max >= plan.from
                /\ plan.account # None => s.bucket = BucketOf[plan.account]
                /\ RollupOpens(s))
      records(s) == SetToSeq({r \in s.file : plan.from <= r.key.hour /\ r.key.hour < upper})
      events(s) == [k \in DOMAIN records(s) |-> RollupRecordToEvent(records(s)[k])]
  IN FlattenSeq([i \in DOMAIN used |-> events(used[i])])
     \o IF plan.to > watermark THEN CollectRaw(plan, Max({plan.from, watermark}), plan.to) ELSE <<>>

\* execute_plan.
ExecutePlan(plan) ==
  Aggregate(plan, IF plan.source = "raw" THEN CollectRaw(plan, plan.from, plan.to)
                                         ELSE CollectRollupThenRawTail(plan))

\* extract_quantity_sum: a plan without groups gives one line.
ExtractQuantitySum(lines) == (CHOOSE l \in lines : TRUE).qty

\* The drift of handle_verify and cmd_verify_period.
Drift(account, from, to) ==
  LET total(source) == ExtractQuantitySum(ExecutePlan(TotalPlan(source, account, from, to)))
  IN SatAdd(total("raw"), -total("rollup"))

\* Mutant: files that are not there are passed over.
DeepCheckPresent ==
  /\ \A i \in DOMAIN segs : segs[i].lost \/ Opens(segs[i])
  /\ \A i \in DOMAIN rollups : rollups[i].lost \/ RollupOpens(rollups[i])

\* cmd_check --deep finds nothing: every raw and rollup segment opens.
DeepCheck ==
  /\ \A i \in DOMAIN segs : Opens(segs[i])
  /\ \A i \in DOMAIN rollups : RollupOpens(rollups[i])

\* export_raw_segments: lost files are skipped, a damaged one is an error.
Export ==
  LET there == SelectSeq(segs, LAMBDA s : ~s.lost)
  IN IF \E i \in DOMAIN there : ~Opens(there[i]) THEN Corrupt
     ELSE FlattenSeq([i \in DOMAIN there |-> Rows(there[i].file)])

\* Mutant: the checksum is not compared.
ReadDedupeIndexUnchecked(idx) == IF idx = None THEN None ELSE idx.entries

\* read_dedupe_index: None for a missing file, an error for a damaged one.
ReadDedupeIndex(idx) ==
  IF idx = None THEN None ELSE IF idx.checksum # idx.entries THEN Corrupt ELSE idx.entries

\* What run_startup_recovery enters into the dedupe cache for a segment: the
\* entries of the sidecar, or the rows if it cannot be used.
Registered(seg) ==
  LET entries == ReadDedupeIndex(seg.idx)
  IN IF seg.lost THEN {}
     ELSE IF entries \notin {None, Corrupt} THEN ToSet(entries)
     ELSE IF Readable(seg.file) THEN {r.id : r \in ToSet(Rows(seg.file))}
     ELSE {}

\* Mutant: a segment that ends at the first instant of the range is left out.
ExplainSegmentsOpen(account, from, to) ==
  {segs[i].meta.id : i \in {k \in DOMAIN segs :
     segs[k].meta.bucket = BucketOf[account] /\ segs[k].meta.min < to /\ segs[k].meta.max > from}}

\* The raw segments that handle_explain names.
ExplainSegments(account, from, to) ==
  {segs[i].meta.id : i \in {k \in DOMAIN segs :
     segs[k].meta.bucket = BucketOf[account] /\ segs[k].meta.min < to /\ segs[k].meta.max >= from}}

\* The inputs of the rollup segments that handle_explain names.
ExplainInputs(account, from, to) ==
  UNION {rollups[i].inputs : i \in {k \in DOMAIN rollups :
     rollups[k].bucket = BucketOf[account] /\ rollups[k].min < to /\ rollups[k].max >= from}}

-----------------------------------------------------------------------------
(* Properties *)

Accounts == DOMAIN BucketOf
Ranges == {r \in Times \X Times : r[1] < r[2]}
HourRanges == {r \in Ranges : r[1] % Hour = 0 /\ r[2] % Hour = 0}

\* The rows of the files in raw_segments when they were written.
Flushed == {r \in log : r \notin ToSet(memtable)}

\* What the reader decodes from the segment files is what was written: every
\* flushed row, once, with every column as it was.
RoundTrip ==
  faults = 0 =>
    /\ \A i \in DOMAIN segs : Opens(segs[i])
    /\ UNION {ToSet(Rows(segs[i].file)) : i \in DOMAIN segs} = Flushed
    /\ FoldLeft(LAMBDA n, x : n + Len(Rows(x.file)), 0, segs) = Cardinality(Flushed)

\* Pruning by the metadata never changes an answer: a segment that is left out
\* has no row that the plan selects.  (A plan without an account is SQL's.)
PruneExact ==
  \A i \in DOMAIN segs :
    LET rows == ToSet(Rows(segs[i].file))
    IN \A account \in Accounts \cup {None}, r \in Ranges, f \in Filters :
         LET plan == JsonPlan("usage_events", account, r[1], r[2], f, <<>>, TRUE)
         IN SegmentOverlapsPlan(segs[i].meta, plan, r[1], r[2]) \/ \A x \in rows : ~MatchesPlan(plan, x)

\* No sum of the rows can leave the width of a quantity, in whatever order.
NoSaturation ==
  LET all == SetToSeq(log)
  IN FoldLeft(LAMBDA n, r : n + (IF r.qty < 0 THEN -r.qty ELSE r.qty), 0, all) < 2^(QtyBits - 1)

\* On hour boundaries and with all files in place, the rollup path and the raw
\* path give the same sums: the drift that handle_verify reports is zero, and so
\* do the invoice lines of handle_explain and usage by the hour.
DriftZero ==
  DeepCheck /\ NoSaturation =>
    \A account \in Accounts, r \in HourRanges :
      /\ Drift(account, r[1], r[2]) = 0
      /\ \A plan \in {ExplainLinesPlan(account, r[1], r[2]),
                      UsagePlan("rollup", account, r[1], r[2], <<>>, <<"hour_start_ms">>)} :
           Sums(ExecutePlan(plan)) = Sums(ExecutePlan([plan EXCEPT !.source = "raw"]))

\* A file that is damaged or lost does not go unnoticed: when check --deep finds
\* nothing, a raw query returns every accepted row of its range and the export
\* every flushed row.
CheckCatches ==
  DeepCheck =>
    /\ \A account \in Accounts, r \in Ranges :
         ExecutePlan(EventsPlan(account, r[1], r[2], <<>>))
           = {x \in log : x.account = account /\ r[1] <= x.ts /\ x.ts < r[2]}
    /\ ToSet(Export) = Flushed

\* Whatever happened to its sidecar, a segment whose file opens is entered into
\* the dedupe cache completely after a restart: no row of it can be accepted
\* again because of a sidecar (run_startup_recovery).
RebuildComplete ==
  \A i \in DOMAIN segs :
    Opens(segs[i]) => Registered(segs[i]) = {r.id : r \in ToSet(Rows(segs[i].file))}

\* handle_explain names every raw segment that holds a row of the total, and as
\* an input of a rollup segment every one whose row is below the watermark; it
\* lists every correction and retraction of the range and nothing else.
ExplainNamesSources ==
  faults = 0 =>
    \A account \in Accounts, r \in Ranges :
      LET counted(y) == y.account = account /\ r[1] <= y.ts /\ y.ts < r[2]
      IN /\ \A i \in DOMAIN segs : \A x \in {y \in ToSet(Rows(segs[i].file)) : counted(y)} :
              /\ i \in ExplainSegments(account, r[1], r[2])
              /\ x.ts < watermark => i \in ExplainInputs(account, r[1], r[2])
         /\ ExecutePlan(ExplainCorrectionsPlan(account, r[1], r[2])) = {x \in log : counted(x) /\ x.kind # "Usage"}

\* A row satisfies a WHERE clause, by the meaning SQL gives it.
Satisfies(x, where) ==
  \A i \in DOMAIN where :
    LET c == where[i]
        v == CHOOSE w \in c.values : TRUE
    IN CASE c.op = "Gt"   -> x.ts > v
         [] c.op = "GtEq" -> x.ts >= v
         [] c.op = "Lt"   -> x.ts < v
         [] c.op = "LtEq" -> x.ts <= v
         [] OTHER         -> FieldValue(x, c.field) \in c.values

\* SELECT SUM(quantity), COUNT( * ) FROM usage_events WHERE ... counts and sums
\* exactly the rows that satisfy the clause (memtable rows: the segments are
\* the subject of PruneExact).
SqlExact ==
  segs = <<>> =>
    \A where \in Wheres :
      LET plan == ParseSql([table |-> "usage_events", columns |-> <<>>, sum |-> TRUE, groupBy |-> <<>>,
                            where |-> where, unsupported |-> FALSE])
          hits == SelectSeq(memtable, LAMBDA x : Satisfies(x, where))
      IN ExecutePlan(plan) =
           {[key |-> <<>>, qty |-> FoldLeft(LAMBDA q, x : SatAdd(q, x.qty), 0, hits), count |-> Len(hits)]}

=============================================================================
