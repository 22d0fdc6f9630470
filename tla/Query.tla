------------------------------- MODULE Query --------------------------------
(***************************************************************************)
(* Queries as operators: the plans that the HTTP handlers and the SQL      *)
(* front end build, the pruning of segments, matching, aggregation and the *)
(* hourly rollup records.                                                  *)
(*                                                                         *)
(* A plan is [source, account, from, to, filters, groupBy, metrics]; a     *)
(* filter is [field, values].  Ranges are half-open.  account_id and       *)
(* product_id are numbers, so that they have the order of strings.         *)
(***************************************************************************)
EXTENDS Segment, FiniteSetsExt

CONSTANTS
  Hour,      \* HOUR_MS
  BucketOf   \* [accounts -> buckets]: bucket_for_account

ASSUME QueryAssumption == Hour \in Nat \ {0}

I64Min == -(2^(TimeBits - 1))
I64Max == 2^(TimeBits - 1) - 1

\* saturating_add on i128.
SatAdd(a, b) ==
  LET s == a + b
      hi == 2^(QtyBits - 1) - 1
  IN IF s > hi THEN hi ELSE IF s < -hi - 1 THEN -hi - 1 ELSE s

\* The column a filter or a group key names; ranges and keys on the hour use
\* the start of the row's hour.
FieldValue(row, field) ==
  CASE field = "account_id"    -> row.account
    [] field = "product_id"    -> row.product
    [] field = "model_id"      -> row.model
    [] field = "kind"          -> row.kind
    [] field = "hour_start_ms" -> (row.ts \div Hour) * Hour
    [] OTHER                   -> None

-----------------------------------------------------------------------------
(* Matching and pruning *)

\* matches_plan.  A filter never names the time: hour_start_ms is looked up
\* among the dimensions, where no row has it.
MatchesPlan(plan, row) ==
  /\ plan.from <= row.ts /\ row.ts < plan.to
  /\ plan.account # None => row.account = plan.account
  /\ \A i \in DOMAIN plan.filters :
       LET f == plan.filters[i]
       IN /\ f.field # "hour_start_ms"
          /\ FieldValue(row, f.field) # None
          /\ FieldValue(row, f.field) \in f.values

\* build_segment_meta.
BuildSegmentMeta(id, bucket, rows) ==
  [id |-> id, bucket |-> bucket,
   min |-> Min({r.ts : r \in ToSet(rows)}), max |-> Max({r.ts : r \in ToSet(rows)}),
   minAccount |-> Min({r.account : r \in ToSet(rows)}), maxAccount |-> Max({r.account : r \in ToSet(rows)}),
   products |-> {r.product : r \in ToSet(rows)}, models |-> {r.model : r \in ToSet(rows)} \ {None}]

\* filter_intersects: the values of all filters on the field together.
FilterIntersects(filters, field, ids) ==
  LET values == UNION {filters[i].values : i \in {k \in DOMAIN filters : filters[k].field = field}}
  IN values = {} \/ ids \cap values # {}

\* Mutant: the segment's last instant is excluded.
SegmentOverlapsPlanOpen(meta, plan, from, to) == meta.min < to /\ meta.max > from

\* segment_overlaps_plan.
SegmentOverlapsPlan(meta, plan, from, to) ==
  /\ meta.min < to /\ meta.max >= from
  /\ plan.account # None => /\ meta.bucket = BucketOf[plan.account]
                            /\ meta.minAccount <= plan.account /\ plan.account <= meta.maxAccount
  /\ FilterIntersects(plan.filters, "product_id", meta.products)
  /\ FilterIntersects(plan.filters, "model_id", meta.models)

-----------------------------------------------------------------------------
(* Hourly rollup records *)

\* Mutant: the model is not part of the key.
RollupKeyCoarse(row) ==
  [account |-> row.account, product |-> row.product, model |-> None, hour |-> (row.ts \div Hour) * Hour]

\* HourlyRollupKey of a row.
RollupKey(row) ==
  [account |-> row.account, product |-> row.product, model |-> row.model, hour |-> (row.ts \div Hour) * Hour]

\* RollupBuilder: process_event on each row, then finalize.
RollupRecords(rows) ==
  LET of(key) == SelectSeq(rows, LAMBDA r : RollupKey(r) = key)
      sum(key) == FoldLeft(LAMBDA q, r : SatAdd(q, r.qty), 0, of(key))
  IN {[key |-> k, qty |-> sum(k), count |-> Len(of(k)),
       first |-> Min({r.ts : r \in ToSet(of(k))}), last |-> Max({r.ts : r \in ToSet(of(k))})] :
        k \in {RollupKey(r) : r \in ToSet(rows)}}

\* rollup_record_to_event: the kind is lost, the time is the hour.
RollupRecordToEvent(rec) ==
  [id |-> None, kind |-> "Usage", account |-> rec.key.account, product |-> rec.key.product,
   model |-> rec.key.model, ts |-> rec.key.hour, qty |-> rec.qty]

-----------------------------------------------------------------------------
(* Aggregation *)

\* aggregate: the matching rows themselves, or a line per group; a total over
\* nothing is a line of zeros.
Aggregate(plan, rows) ==
  LET matching == SelectSeq(rows, LAMBDA r : MatchesPlan(plan, r))
      key(r) == [i \in DOMAIN plan.groupBy |-> FieldValue(r, plan.groupBy[i])]
      keys == {key(r) : r \in ToSet(matching)} \cup (IF plan.groupBy = <<>> THEN {<<>>} ELSE {})
      of(k) == SelectSeq(matching, LAMBDA r : key(r) = k)
  IN IF plan.groupBy = <<>> /\ ~plan.metrics THEN ToSet(matching)
     ELSE {[key |-> k, qty |-> FoldLeft(LAMBDA q, r : SatAdd(q, r.qty), 0, of(k)), count |-> Len(of(k))] : k \in keys}

\* The sums of an aggregation: what does not depend on the source.
Sums(lines) == {[key |-> l.key, qty |-> l.qty] : l \in lines}

-----------------------------------------------------------------------------
(* The plans of the HTTP handlers *)

\* handle_account_usage: a filter for every column that the request names.
UsagePlan(source, account, from, to, filters, groupBy) ==
  [source |-> source, account |-> account, from |-> from, to |-> to,
   filters |-> filters, groupBy |-> groupBy, metrics |-> TRUE]

\* handle_account_events.
EventsPlan(account, from, to, filters) ==
  [source |-> "raw", account |-> account, from |-> from, to |-> to,
   filters |-> filters, groupBy |-> <<>>, metrics |-> FALSE]

\* handle_query_json: filters, groups and metrics are the client's.
JsonPlan(table, account, from, to, filters, groupBy, metrics) ==
  [source |-> IF table = "usage_events" THEN "raw" ELSE "rollup", account |-> account,
   from |-> from, to |-> to, filters |-> filters, groupBy |-> groupBy, metrics |-> metrics]

\* The two plans of handle_explain.
ExplainLinesPlan(account, from, to) ==
  UsagePlan("rollup", account, from, to, <<>>, <<"product_id", "model_id">>)

ExplainCorrectionsPlan(account, from, to) ==
  EventsPlan(account, from, to, <<[field |-> "kind", values |-> {"Correction", "Retraction"}]>>)

\* The two plans of handle_verify, cmd_verify_period and snapshot_period_totals.
TotalPlan(source, account, from, to) == UsagePlan(source, account, from, to, <<>>, <<>>)

-----------------------------------------------------------------------------
(* SQL: a statement is [table, columns, sum, groupBy, where, unsupported];  *)
(* where is a sequence of conditions [op, field, values], and unsupported   *)
(* says that it has a clause that parse_sql refuses.  Clauses that it       *)
(* passes over (FETCH, TOP, FILTER and OVER of an aggregate) are not part   *)
(* of a statement here.                                                     *)

\* apply_field: a single account goes to the plan's account.
ApplyField(plan, field, values) ==
  IF field = "account_id" /\ Cardinality(values) = 1
  THEN [plan EXCEPT !.account = CHOOSE v \in values : TRUE]
  ELSE [plan EXCEPT !.filters = Append(@, [field |-> field, values |-> values])]

\* saturating_add on i64, by one.
Next64(v) == IF v = I64Max THEN v ELSE v + 1

\* Mutant: both upper bounds are exclusive.
ApplyRangeLoose(plan, op, v) ==
  CASE op \in {"Gt", "GtEq"} -> [plan EXCEPT !.from = Max({@, v})]
    [] op \in {"Lt", "LtEq"} -> [plan EXCEPT !.to = Min({@, v})]

\* apply_range: comparisons on the time narrow the half-open range.
ApplyRange(plan, op, v) ==
  CASE op = "Gt"   -> [plan EXCEPT !.from = Max({@, Next64(v)})]
    [] op = "GtEq" -> [plan EXCEPT !.from = Max({@, v})]
    [] op = "Lt"   -> [plan EXCEPT !.to = Min({@, v})]
    [] op = "LtEq" -> [plan EXCEPT !.to = Min({@, Next64(v)})]

RangeOps == {"Gt", "GtEq", "Lt", "LtEq"}

\* A condition that extract_filters accepts.
SupportedCondition(c) ==
  \/ c.op \in {"Eq", "In"}
  \/ c.op \in RangeOps /\ c.field \in {"timestamp_ms", "hour_start_ms"}

\* extract_filters, from left to right.
ExtractFilters(plan, where) ==
  LET apply(p, c) ==
        IF c.op \in RangeOps THEN ApplyRange(p, c.op, CHOOSE v \in c.values : TRUE)
        ELSE ApplyField(p, c.field, c.values)
  IN FoldLeft(apply, plan, where)

\* parse_sql: an error is Corrupt.
ParseSql(q) ==
  IF \/ q.unsupported
     \/ q.table \notin {"usage_events", "usage_rollup_hourly"}
     \/ \E i \in DOMAIN q.where : ~SupportedCondition(q.where[i])
  THEN Corrupt
  ELSE ExtractFilters(
         [source |-> IF q.table = "usage_events" THEN "raw" ELSE "rollup", account |-> None,
          from |-> I64Min, to |-> I64Max, filters |-> <<>>,
          groupBy |-> q.columns \o SelectSeq(q.groupBy, LAMBDA g : g \notin ToSet(q.columns)),
          metrics |-> q.sum],
         q.where)

=============================================================================
