---------------------------- MODULE RollupProofs ----------------------------
(***************************************************************************)
(* Proofs about the rollup worker: no event is aggregated twice, the       *)
(* rollups below the watermark are complete, and a query that reads        *)
(* rollups, raw segments and memtable one after the other counts each      *)
(* event once.                                                             *)
(***************************************************************************)
EXTENDS Rollup, WellFoundedInduction, TLAPS

-----------------------------------------------------------------------------
(* Hours *)

OnTheHour(t) == FloorHour(t) = t

\* The windows of a tick are whole hours only if the watermark is, and rebuild
\* moves it to the start of its range as it is.
RebuildsOnTheHour == \A range \in RebuildRanges : OnTheHour(range[1])

\* A rollup query counts the rows whose hour starts in its range.
QueriesOnTheHour == OnTheHour(QueryRange[1]) /\ OnTheHour(QueryRange[2])

\* A time on the hour is a multiple of the hour, and conversely.
LEMMA HourMultiple ==
  /\ \A t \in Nat : OnTheHour(t) => \E k \in Nat : t = k * Hour
  /\ \A k \in Nat : k * Hour \in Nat /\ OnTheHour(k * Hour)
  <1> USE RollupAssumption
  <1>1. ASSUME NEW t \in Nat, OnTheHour(t) PROVE \E k \in Nat : t = k * Hour
    <2>1. t \div Hour \in Nat
      OBVIOUS
    <2> QED
      BY <2>1, <1>1, Zenon DEF OnTheHour, FloorHour
  <1>2. ASSUME NEW k \in Nat PROVE k * Hour \in Nat /\ OnTheHour(k * Hour)
    <2>1. (k * Hour) \div Hour = k
      OBVIOUS
    <2> QED
      BY <2>1 DEF OnTheHour, FloorHour
  <1> QED
    BY <1>1, <1>2, Zenon

\* The hour of a time starts at or before it and ends after it (the truncating
\* division of tick and of the rollup builder).
LEMMA HourOf ==
  ASSUME NEW t \in Nat
  PROVE  /\ FloorHour(t) \in Nat
         /\ FloorHour(t) <= t
         /\ t < FloorHour(t) + Hour
         /\ OnTheHour(FloorHour(t))
  <1> USE RollupAssumption
  <1>1. t \div Hour \in Nat
    OBVIOUS
  <1>2. FloorHour(t) \in Nat /\ FloorHour(t) <= t /\ t < FloorHour(t) + Hour
    BY DEF FloorHour
  <1> QED
    BY <1>1, <1>2, HourMultiple, Zenon DEF FloorHour

\* Two different hours do not overlap.
LEMMA HoursApart ==
  ASSUME NEW a \in Nat, NEW b \in Nat, OnTheHour(a), OnTheHour(b), a < b
  PROVE  a + Hour <= b
  <1> USE RollupAssumption
  <1>1. PICK k \in Nat : a = k * Hour
    BY HourMultiple, Zenon
  <1>2. PICK l \in Nat : b = l * Hour
    BY HourMultiple, Zenon
  <1>3. k < l
    BY <1>1, <1>2
  <1>4. (k + 1) * Hour <= l * Hour
    BY <1>3
  <1>5. (k + 1) * Hour = k * Hour + Hour
    OBVIOUS
  <1> QED
    BY <1>1, <1>2, <1>4, <1>5, Zenon

\* The hour of a time is the only one it falls into.
LEMMA HourUnique ==
  ASSUME NEW h \in Nat, NEW t \in Nat, OnTheHour(h), h <= t, t < h + Hour
  PROVE  FloorHour(t) = h
  <1> DEFINE f == FloorHour(t)
  <1>1. f \in Nat /\ f <= t /\ t < f + Hour /\ OnTheHour(f)
    BY HourOf, Zenon
  <1> HIDE DEF f
  <1>2. ~(f < h) /\ ~(h < f)
    BY <1>1, HoursApart, RollupAssumption
  <1> QED
    BY <1>1, <1>2 DEF f

\* The windows of a tick that starts on the hour are hours.
LEMMA WindowsAreHours ==
  ASSUME NEW first \in Nat, NEW target \in Nat, OnTheHour(first),
         NEW w \in Windows(first, target)
  PROVE  w \in Nat /\ OnTheHour(w) /\ first <= w /\ w < target
  <1> USE RollupAssumption
  <1>1. PICK k \in 0..(target - first) : w = first + k * Hour
    BY Zenon DEF Windows
  <1>2. PICK j \in Nat : first = j * Hour
    BY HourMultiple, Zenon
  <1>3. j + k \in Nat /\ w = (j + k) * Hour
    BY <1>1, <1>2
  <1>4. w \in Nat /\ first <= w /\ w < target
    BY DEF Windows
  <1> QED
    BY <1>3, <1>4, HourMultiple, Zenon

\* Every hour from the first to the target is a window of the tick.
LEMMA WindowsCover ==
  ASSUME NEW first \in Nat, NEW target \in Nat, NEW w \in Nat,
         OnTheHour(first), OnTheHour(w), first <= w, w < target
  PROVE  w \in Windows(first, target)
  <1> USE RollupAssumption
  <1>1. PICK j \in Nat : first = j * Hour
    BY HourMultiple, Zenon
  <1>2. PICK l \in Nat : w = l * Hour
    BY HourMultiple, Zenon
  <1>3. j <= l
    BY <1>1, <1>2
  <1>4. PICK k \in Nat : k = l - j
    BY <1>3
  <1>5. w = first + k * Hour
    BY <1>1, <1>2, <1>4
  <1>6. k <= k * Hour
    BY <1>4
  <1>7. k \in 0..(target - first) /\ w \in first..(target - 1)
    BY <1>5, <1>6
  <1> QED
    BY <1>5, <1>7, Zenon DEF Windows

\* A non-empty set of naturals has a least element, which MinOf is.
LEMMA MinOfIsLeast ==
  ASSUME NEW S, S \subseteq Nat, S # {}
  PROVE  MinOf(S) \in S /\ \A y \in S : MinOf(S) <= y
  <1> DEFINE less == {ss \in Nat \X Nat : ss[1] < ss[2]}
  <1>1. OpToRel(<, Nat) = less
    BY Zenon DEF OpToRel
  <1>2. IsWellFoundedOn(less, Nat)
    BY <1>1, NatLessThanWellFounded, Zenon
  <1>3. \A x, y \in Nat : y < x => <<y, x>> \in less
    BY Zenon
  <1> HIDE DEF less
  <1>4. PICK x \in S : \A y \in S : ~(<<y, x>> \in less)
    BY <1>2, WFMin, Zenon
  <1>5. \A y \in S : ~(y < x)
    BY <1>3, <1>4, Zenon
  <1>6. \A y \in S : x <= y
    BY <1>5
  <1> QED
    BY <1>6, Zenon DEF MinOf

-----------------------------------------------------------------------------
(* The inductive invariant *)

\* Events in drained batches.
Flying == UNION {inflight[i].events : i \in DOMAIN inflight}

\* The event belongs to the window and bucket of the rollup segment.
Fits(e, r) == r.min <= Ts[e] /\ Ts[e] < r.min + Hour /\ Bucket[e] = r.bucket

\* A rollup segment is one hour of one bucket.
SegmentOK(r) ==
  /\ r = [id |-> r.id, min |-> r.min, bucket |-> r.bucket, evs |-> r.evs, file |-> r.file]
  /\ r.min \in Nat /\ OnTheHour(r.min)
  /\ r.evs \subseteq {e \in Events : Fits(e, r)}

\* The rollup segments of a manifest: one per hour and bucket at most.
RollupsOK(m) ==
  /\ \A r \in m.rollups : SegmentOK(r)
  /\ \A r1, r2 \in m.rollups : r1.min = r2.min /\ r1.bucket = r2.bucket => r1 = r2

ManifestOK(m) ==
  /\ m = [raw |-> m.raw, rollups |-> m.rollups, wm |-> m.wm, sealed |-> m.sealed]
  /\ m.raw \subseteq SUBSET Events /\ {} \notin m.raw
  /\ m.wm \in Nat /\ OnTheHour(m.wm)
  /\ m.sealed \in Nat
  /\ RollupsOK(m)

\* What the manifest rolls up, and the watermark, are a safety lag in the past.
Lagging(m) ==
  /\ m.wm = 0 \/ m.wm + SafetyLag <= now
  /\ \A r \in m.rollups : r.min + Hour + SafetyLag <= now

Batch == [events : SUBSET Events, sealed : Nat]

\* Accepted events are in exactly one of memtable, batches and segments; the
\* seals of the batches lie between the seal pointer and the active file.
PipelineInv ==
  /\ inflight \in Seq(Batch)
  /\ \A i \in DOMAIN inflight : manifest.sealed < inflight[i].sealed /\ inflight[i].sealed < activeId
  /\ \A i, j \in DOMAIN inflight : i < j => inflight[i].sealed < inflight[j].sealed
  /\ ingested \subseteq Events
  /\ AllOf(manifest.raw) \subseteq ingested
  /\ memtable \cap AllOf(manifest.raw) = {}
  /\ memtable \cap Flying = {}
  /\ up => ingested = memtable \cup Flying \cup AllOf(manifest.raw)
  /\ ~up => memtable = {} /\ inflight = <<>> /\ worker = IdleWorker /\ query = IdleQuery

ManifestInv ==
  /\ ManifestOK(manifest) /\ ManifestOK(disk)
  /\ Lagging(manifest) /\ Lagging(disk)
  /\ disk.raw = manifest.raw /\ disk.sealed = manifest.sealed
  /\ faults = 0 => disk = manifest

\* What a tick knows of the manifest stays true of it, but for newer segments;
\* and from the WAL check on it knows every segment that matters: an event that
\* is owed to the rollups is in the snapshot, or still where the memtable check
\* will see it, or not before the target.
WorkerInv ==
  /\ worker = [pc |-> worker.pc, now |-> worker.now, snap |-> worker.snap,
               target |-> worker.target, new |-> worker.new]
  /\ worker.pc # "idle" =>
       /\ worker.snap = [raw |-> worker.snap.raw, rollups |-> manifest.rollups,
                         wm |-> manifest.wm, sealed |-> worker.snap.sealed]
       /\ worker.snap.raw \subseteq manifest.raw
       /\ worker.snap.sealed \in Nat /\ worker.snap.sealed <= manifest.sealed
       /\ worker.snap.sealed = manifest.sealed => worker.snap.raw = manifest.raw
       /\ worker.now \in Nat /\ worker.now <= now
  /\ worker.pc \in {"age", "min"} => due \ raced \subseteq AllOf(worker.snap.raw) \cup memtable
  /\ worker.pc = "commit" =>
       /\ worker.target \in Nat /\ OnTheHour(worker.target)
       /\ worker.target > FirstHour(worker.snap)
       /\ worker.target + SafetyLag <= worker.now
       /\ worker.new = RollupSegments(worker.snap, worker.target)
       /\ \A e \in due \ raced : Ts[e] < worker.target => e \in AllOf(worker.snap.raw)

\* As long as no save failed: the rollup segment of an hour and bucket holds
\* every event that is owed to it, and below the watermark there is one.
CompleteInv ==
  faults = 0 =>
    /\ \A r \in manifest.rollups : r.file = "written" /\ \A e \in due \ raced : Fits(e, r) => e \in r.evs
    /\ \A e \in due \ raced : Ts[e] < manifest.wm => \E r \in manifest.rollups : e \in r.evs

QueryShape ==
  query = [pc |-> query.pc, from |-> query.from, raw |-> query.raw,
           rows |-> query.rows, owed |-> query.owed, wrong |-> query.wrong]

\* What the manifest, the pipeline and the worker guarantee together, whatever
\* the queries are.
WatermarkInv ==
  /\ TypeOK
  /\ ManifestInv
  /\ PipelineInv
  /\ WorkerInv
  /\ CompleteInv
  /\ QueryShape

\* The progress of a query: rows below the point where the raw tail starts, from
\* segments that share no event, and nothing owed is missed on either side.
QueryInv ==
  /\ faults = 0 => query.wrong = {}
  /\ query.pc # "idle" =>
       /\ query.from \in Nat /\ query.from >= QueryRange[1]
       /\ query.raw \subseteq AllOf(manifest.raw)
       /\ query.owed \subseteq Within(AllOf(manifest.raw), QueryRange[1], QueryRange[2])
       /\ \A r \in query.rows : r.evs \subseteq Within(Events, QueryRange[1], Lower(QueryRange[2], query.from))
       /\ \A r, s \in query.rows : r # s => r.evs \cap s.evs = {}
       /\ faults = 0 => \A e \in query.owed : Ts[e] < query.from => \E r \in query.rows : e \in r.evs
  /\ query.pc = "memtable" => \A e \in query.owed : Ts[e] >= query.from => e \in query.raw

\* The inductive invariant.
RollupInv == WatermarkInv /\ QueryInv

-----------------------------------------------------------------------------
(* The computations of a tick *)

\* The target is on the hour, a safety lag in the past (bound (a)), and no
\* later than any buffered event (bound (c)).
LEMMA TargetBounds ==
  ASSUME NEW t \in Nat, NEW mem \in SUBSET Events
  PROVE  /\ TargetHour(t, mem) \in Nat /\ OnTheHour(TargetHour(t, mem))
         /\ TargetHour(t, mem) = 0 \/ TargetHour(t, mem) + SafetyLag <= t
         /\ \A e \in mem : TargetHour(t, mem) <= Ts[e]
  <1> DEFINE lagged == Higher(t - SafetyLag, 0)
             late == FloorHour(lagged)
  <1>1. lagged \in Nat /\ (lagged = 0 \/ lagged + SafetyLag = t)
    BY RollupAssumption DEF Higher
  <1>2. late \in Nat /\ OnTheHour(late) /\ late <= lagged
    BY <1>1, HourOf, Zenon
  <1> HIDE DEF lagged
  <1>3. CASE mem = {}
    <2>1. TargetHour(t, mem) = late
      BY <1>3, Zenon DEF TargetHour, lagged
    <2> HIDE DEF late
    <2> QED
      BY <1>1, <1>2, <1>3, <2>1, RollupAssumption
  <1>4. CASE mem # {}
    <2> DEFINE least == MinOf(TsOf(mem))
    <2>1. TsOf(mem) \subseteq Nat /\ TsOf(mem) # {} /\ \A e \in mem : Ts[e] \in TsOf(mem)
      BY <1>4, RollupAssumption, Zenon DEF TsOf
    <2>2. least \in Nat /\ \A e \in mem : least <= Ts[e]
      BY <2>1, MinOfIsLeast, Zenon
    <2> HIDE DEF least
    <2>3. FloorHour(least) \in Nat /\ FloorHour(least) <= least /\ OnTheHour(FloorHour(least))
      BY <2>2, HourOf, Zenon
    <2>4. TargetHour(t, mem) = Lower(late, FloorHour(least))
      BY <1>4, Zenon DEF TargetHour, lagged, least
    <2> HIDE DEF late
    <2>5. /\ TargetHour(t, mem) \in {late, FloorHour(least)}
          /\ TargetHour(t, mem) <= late /\ TargetHour(t, mem) <= FloorHour(least)
      BY <1>2, <2>3, <2>4 DEF Lower
    <2>6. TargetHour(t, mem) \in Nat /\ OnTheHour(TargetHour(t, mem))
      BY <1>2, <2>3, <2>5, Zenon
    <2>7. \A e \in mem : Ts[e] \in Nat
      BY RollupAssumption, Zenon
    <2> QED
      BY <1>1, <1>2, <2>2, <2>3, <2>5, <2>6, <2>7, RollupAssumption
  <1> QED
    BY <1>3, <1>4, Zenon

\* A tick starts at the watermark, or, on a fresh database, at the hour of the
\* first event of any segment; either way on the hour.
LEMMA FirstHourBounds ==
  ASSUME NEW snap, snap.wm \in Nat, OnTheHour(snap.wm),
         snap.raw \subseteq SUBSET Events, {} \notin snap.raw
  PROVE  /\ FirstHour(snap) \in Nat /\ OnTheHour(FirstHour(snap))
         /\ FirstHour(snap) >= snap.wm
         /\ snap.wm # 0 => FirstHour(snap) = snap.wm
         /\ snap.wm = 0 => \A e \in AllOf(snap.raw) : FirstHour(snap) <= Ts[e]
  <1> DEFINE all == AllOf(snap.raw)
  <1>1. all \subseteq Events
    BY Zenon DEF AllOf
  <1>2. CASE snap.wm = 0 /\ snap.raw # {}
    <2> DEFINE least == MinOf(TsOf(all))
    <2>1. all # {}
      BY <1>2 DEF AllOf
    <2> HIDE DEF all
    <2>2. TsOf(all) \subseteq Nat /\ TsOf(all) # {} /\ \A e \in all : Ts[e] \in TsOf(all)
      BY <1>1, <2>1, RollupAssumption DEF TsOf
    <2>3. least \in Nat /\ \A e \in all : least <= Ts[e]
      BY <2>2, MinOfIsLeast, Zenon
    <2>4. FirstHour(snap) = FloorHour(least)
      BY <1>2, Zenon DEF FirstHour, all
    <2> HIDE DEF least
    <2>5. FloorHour(least) \in Nat /\ FloorHour(least) <= least /\ OnTheHour(FloorHour(least))
      BY <2>3, HourOf, Zenon
    <2>6. \A e \in all : Ts[e] \in Nat
      BY <1>1, RollupAssumption, Zenon
    <2>7. \A e \in all : FirstHour(snap) <= Ts[e]
      BY <2>3, <2>4, <2>5, <2>6
    <2> QED
      BY <1>2, <2>4, <2>5, <2>7 DEF all
  <1>3. CASE ~(snap.wm = 0 /\ snap.raw # {})
    <2>1. FirstHour(snap) = snap.wm
      BY <1>3, Zenon DEF FirstHour
    <2>2. snap.wm = 0 => all = {}
      BY <1>3, Zenon DEF AllOf
    <2> QED
      BY <2>1, <2>2
  <1> QED
    BY <1>2, <1>3, Zenon

\* The rows of a window hold every event of the snapshot that belongs there: the
\* overlap check on a segment's minimum and maximum skips none of them.
LEMMA RowsAreComplete ==
  ASSUME NEW snap, AllOf(snap.raw) \subseteq Events, NEW w \in Nat, NEW b
  PROVE  RowsOf(snap, w, b) = {e \in AllOf(snap.raw) : w <= Ts[e] /\ Ts[e] < w + Hour /\ Bucket[e] = b}
  <1>1. ASSUME NEW e \in AllOf(snap.raw), w <= Ts[e], Ts[e] < w + Hour, Bucket[e] = b
        PROVE  e \in RowsOf(snap, w, b)
    <2>1. PICK s \in snap.raw : e \in s
      BY Zenon DEF AllOf
    <2>2. Ts[e] >= w
      BY <1>1, RollupAssumption, Zenon
    <2> QED
      BY <1>1, <2>1, <2>2, Zenon DEF RowsOf, Within, AllOf
  <1>2. ASSUME NEW e \in RowsOf(snap, w, b)
        PROVE  e \in AllOf(snap.raw) /\ w <= Ts[e] /\ Ts[e] < w + Hour /\ Bucket[e] = b
    BY Zenon DEF RowsOf, Within, AllOf
  <1> QED
    BY <1>1, <1>2, Zenon

\* The new segments of a tick are whole hours below the target, one per bucket,
\* of hours and buckets without a segment so far (tick, already_rolled), and
\* each holds all events of the snapshot that belong to it.
LEMMA NewSegments ==
  ASSUME NEW snap, NEW target \in Nat, OnTheHour(target),
         FirstHour(snap) \in Nat, OnTheHour(FirstHour(snap)),
         AllOf(snap.raw) \subseteq Events,
         NEW r \in RollupSegments(snap, target)
  PROVE  /\ SegmentOK(r)
         /\ r.file = "written"
         /\ r.id = FreshId(snap)
         /\ r.min + Hour <= target
         /\ \A e : e \in r.evs <=> e \in AllOf(snap.raw) /\ Fits(e, r)
         /\ \A s \in snap.rollups : ~(s.min = r.min /\ s.bucket = r.bucket)
  <1>1. PICK w \in Windows(FirstHour(snap), target), b \in {Bucket[e] : e \in Events} :
          r = NewSegment(snap, w, b)
    BY DEF RollupSegments
  <1>2. <<r.min, r.bucket>> \notin AlreadyRolled(snap)
    BY DEF RollupSegments
  <1>3. w \in Nat /\ OnTheHour(w) /\ w < target
    BY WindowsAreHours, Zenon
  <1>4. w + Hour <= target
    BY <1>3, HoursApart, Zenon
  <1>5. r.id = FreshId(snap) /\ r.min = w /\ r.bucket = b /\ r.evs = RowsOf(snap, w, b) /\ r.file = "written"
    BY <1>1, Zenon DEF NewSegment
  <1>6. \A e : e \in r.evs <=> e \in AllOf(snap.raw) /\ Fits(e, r)
    BY <1>3, <1>5, RowsAreComplete DEF Fits
  <1>7. r = [id |-> r.id, min |-> r.min, bucket |-> r.bucket, evs |-> r.evs, file |-> r.file]
    BY <1>1, <1>5, Zenon DEF NewSegment
  <1>8. SegmentOK(r)
    BY <1>3, <1>5, <1>6, <1>7, Zenon DEF SegmentOK
  <1>9. \A s \in snap.rollups : ~(s.min = r.min /\ s.bucket = r.bucket)
    BY <1>2, Zenon DEF AlreadyRolled
  <1> QED
    BY <1>3, <1>4, <1>5, <1>6, <1>8, <1>9, Zenon

\* Two new segments of a tick differ in their hour or bucket.
LEMMA NewSegmentsDiffer ==
  ASSUME NEW snap, NEW target,
         NEW r1 \in RollupSegments(snap, target), NEW r2 \in RollupSegments(snap, target),
         r1.min = r2.min, r1.bucket = r2.bucket
  PROVE  r1 = r2
  <1>1. \E w1, b1 : r1 = NewSegment(snap, w1, b1)
    BY DEF RollupSegments
  <1>2. \E w2, b2 : r2 = NewSegment(snap, w2, b2)
    BY DEF RollupSegments
  <1>3. PICK w1, b1 : r1 = NewSegment(snap, w1, b1)
    BY <1>1, Zenon
  <1>4. PICK w2, b2 : r2 = NewSegment(snap, w2, b2)
    BY <1>2, Zenon
  <1>5. w1 = w2 /\ b1 = b2
    BY <1>3, <1>4, Zenon DEF NewSegment
  <1> QED
    BY <1>3, <1>4, <1>5, Zenon

\* Below the target, every event of the snapshot has a segment for its hour and
\* bucket once the new ones are added: one of them, or the one that made the
\* tick skip the pair.
LEMMA NewSegmentsCover ==
  ASSUME NEW snap, NEW target \in Nat, OnTheHour(target),
         FirstHour(snap) \in Nat, OnTheHour(FirstHour(snap)),
         AllOf(snap.raw) \subseteq Events, \A r \in snap.rollups : SegmentOK(r),
         NEW e \in AllOf(snap.raw), FirstHour(snap) <= Ts[e], Ts[e] < target
  PROVE  \E r \in snap.rollups \cup RollupSegments(snap, target) : Fits(e, r)
  <1> DEFINE w == FloorHour(Ts[e])
             b == Bucket[e]
             seg == NewSegment(snap, w, b)
  <1>1. Ts[e] \in Nat /\ b \in {Bucket[x] : x \in Events}
    BY RollupAssumption, Zenon
  <1>2. w \in Nat /\ w <= Ts[e] /\ Ts[e] < w + Hour /\ OnTheHour(w)
    BY <1>1, HourOf, Zenon
  <1>3. ~(w < FirstHour(snap))
    <2>1. ASSUME w < FirstHour(snap) PROVE FALSE
      <3>1. w + Hour <= FirstHour(snap)
        BY <1>2, <2>1, HoursApart, Zenon
      <3> HIDE DEF w
      <3> QED
        BY <1>1, <1>2, <3>1, RollupAssumption
    <2> QED
      BY <2>1, Zenon
  <1> HIDE DEF w
  <1>4. FirstHour(snap) <= w /\ w < target
    BY <1>1, <1>2, <1>3
  <1>5. w \in Windows(FirstHour(snap), target)
    BY <1>2, <1>4, WindowsCover, Zenon
  <1>6. e \in RowsOf(snap, w, b)
    BY <1>2, RowsAreComplete
  <1>7. seg.min = w /\ seg.bucket = b /\ seg.evs # {}
    BY <1>6, Zenon DEF NewSegment
  <1>8. Fits(e, seg)
    BY <1>2, <1>7, Zenon DEF Fits
  <1>9. CASE <<w, b>> \in AlreadyRolled(snap)
    <2>1. PICK r \in snap.rollups : r.min = w /\ r.bucket = b
      BY <1>9, Zenon DEF AlreadyRolled
    <2> QED
      BY <1>2, <2>1, Zenon DEF Fits
  <1>10. CASE <<w, b>> \notin AlreadyRolled(snap)
    <2>1. seg \in {NewSegment(snap, w1, b1) : w1 \in Windows(FirstHour(snap), target),
                                               b1 \in {Bucket[x] : x \in Events}}
      BY <1>1, <1>5
    <2> HIDE DEF seg
    <2>2. seg \in RollupSegments(snap, target)
      BY <1>7, <1>10, <2>1 DEF RollupSegments
    <2> QED
      BY <1>8, <2>2, Zenon
  <1> QED
    BY <1>9, <1>10, Zenon

-----------------------------------------------------------------------------
(* The initial state *)

LEMMA Constants ==
  /\ SafetyLag \in Nat /\ MaxAge \in Nat /\ Start \in Nat /\ MaxTime \in Nat /\ MaxWalId \in Nat
  /\ MaxRestarts \in Nat /\ MaxFaults \in Nat
  /\ Hour \in Nat /\ Hour > 0
  /\ QueryRange[1] \in Nat /\ QueryRange[2] \in Nat
  /\ \A e \in Events : Ts[e] \in Nat
  /\ \A range \in RebuildRanges : range[1] \in Nat /\ range[2] \in Nat
  BY RollupAssumption

LEMMA MidnightOnTheHour == OnTheHour(0)
  BY HourMultiple, RollupAssumption

LEMMA InitInv == Init => WatermarkInv /\ QueryInv
  <1> SUFFICES ASSUME Init PROVE WatermarkInv /\ QueryInv
    BY Zenon
  <1> USE Constants
  <1>1. TypeOK
    BY RollupAssumption DEF Init, TypeOK, NoManifest, IdleWorker, IdleQuery
  <1>2. ManifestOK(manifest) /\ Lagging(manifest)
    BY MidnightOnTheHour, Zenon DEF Init, ManifestOK, RollupsOK, Lagging, NoManifest
  <1>3. ManifestInv
    BY <1>2, Zenon DEF Init, ManifestInv, ManifestOK, RollupsOK, Lagging
  <1>4. PipelineInv
    BY DEF Init, PipelineInv, Flying, AllOf, NoManifest
  <1>5. WorkerInv
    BY Zenon DEF Init, WorkerInv, IdleWorker
  <1>6. CompleteInv
    BY Zenon DEF Init, CompleteInv, NoManifest
  <1>7. QueryShape /\ QueryInv
    BY Zenon DEF Init, QueryShape, QueryInv, IdleQuery
  <1> QED
    BY <1>1, <1>3, <1>4, <1>5, <1>6, <1>7, Zenon DEF WatermarkInv

-----------------------------------------------------------------------------
(* Types *)

\* A flush makes one raw segment per bucket: together they hold the batch, none
\* is empty.
LEMMA FlushedSegments ==
  ASSUME NEW evs \in SUBSET Events, NEW segs,
         segs = {{e \in evs : Bucket[e] = b} : b \in {Bucket[e] : e \in evs}}
  PROVE  /\ AllOf(segs) = evs
         /\ segs \subseteq SUBSET Events
         /\ {} \notin segs
  <1>1. \A s \in segs : s \subseteq evs /\ s # {}
    BY Zenon
  <1>2. ASSUME NEW e \in evs PROVE \E s \in segs : e \in s
    <2>1. {x \in evs : Bucket[x] = Bucket[e]} \in segs
      BY Zenon
    <2>2. e \in {x \in evs : Bucket[x] = Bucket[e]}
      BY Zenon
    <2> QED
      BY <2>1, <2>2, Zenon
  <1>3. \A s \in segs : s \subseteq Events
    BY <1>1, Zenon
  <1>4. AllOf(segs) = evs
    BY <1>1, <1>2, Zenon DEF AllOf
  <1> QED
    BY <1>1, <1>3, <1>4, Zenon

\* When a tick commits, its snapshot still describes the manifest, and the new
\* segments are those of the snapshot.
LEMMA CommittingTick ==
  ASSUME WatermarkInv, worker.pc = "commit"
  PROVE  /\ worker.new = RollupSegments(worker.snap, worker.target)
         /\ worker.target \in Nat /\ OnTheHour(worker.target)
         /\ worker.snap.rollups = manifest.rollups /\ worker.snap.wm = manifest.wm
         /\ FirstHour(worker.snap) \in Nat /\ OnTheHour(FirstHour(worker.snap))
         /\ FirstHour(worker.snap) < worker.target
         /\ manifest.wm # 0 => FirstHour(worker.snap) = manifest.wm
         /\ manifest.wm = 0 => \A e \in AllOf(worker.snap.raw) : FirstHour(worker.snap) <= Ts[e]
         /\ AllOf(worker.snap.raw) \subseteq Events
         /\ worker.target + SafetyLag <= now
         /\ \A r \in worker.new :
              /\ SegmentOK(r)
              /\ r.file = "written"
              /\ r.min + Hour <= worker.target
              /\ \A e : e \in r.evs <=> e \in AllOf(worker.snap.raw) /\ Fits(e, r)
              /\ \A s \in manifest.rollups : ~(s.min = r.min /\ s.bucket = r.bucket)
  <1> USE Constants
  <1>1. ManifestOK(manifest) /\ WorkerInv /\ now \in Nat
    BY DEF WatermarkInv, ManifestInv, TypeOK
  <1>2. /\ worker.new = RollupSegments(worker.snap, worker.target)
        /\ worker.target \in Nat /\ OnTheHour(worker.target)
        /\ worker.target > FirstHour(worker.snap)
        /\ worker.target + SafetyLag <= worker.now
        /\ worker.snap.raw \subseteq manifest.raw
        /\ worker.now \in Nat /\ worker.now <= now
    BY <1>1, Zenon DEF WorkerInv
  <1>3. worker.snap.rollups = manifest.rollups /\ worker.snap.wm = manifest.wm
    <2>1. worker.snap = [raw |-> worker.snap.raw, rollups |-> manifest.rollups,
                         wm |-> manifest.wm, sealed |-> worker.snap.sealed]
      BY <1>1, Zenon DEF WorkerInv
    <2> QED
      BY <2>1
  <1>4. /\ worker.snap.raw \subseteq SUBSET Events /\ {} \notin worker.snap.raw
        /\ worker.snap.wm \in Nat /\ OnTheHour(worker.snap.wm)
    BY <1>1, <1>2, <1>3, Zenon DEF ManifestOK
  <1>5. AllOf(worker.snap.raw) \subseteq Events
    BY <1>4, Zenon DEF AllOf
  <1>6. /\ FirstHour(worker.snap) \in Nat /\ OnTheHour(FirstHour(worker.snap))
        /\ manifest.wm # 0 => FirstHour(worker.snap) = manifest.wm
        /\ manifest.wm = 0 => \A e \in AllOf(worker.snap.raw) : FirstHour(worker.snap) <= Ts[e]
    BY <1>3, <1>4, FirstHourBounds, Zenon
  <1>7. ASSUME NEW r \in worker.new
        PROVE  /\ SegmentOK(r)
               /\ r.file = "written"
               /\ r.min + Hour <= worker.target
               /\ \A e : e \in r.evs <=> e \in AllOf(worker.snap.raw) /\ Fits(e, r)
               /\ \A s \in manifest.rollups : ~(s.min = r.min /\ s.bucket = r.bucket)
    <2> DEFINE snap == worker.snap
               target == worker.target
    <2>1. /\ target \in Nat /\ OnTheHour(target)
          /\ FirstHour(snap) \in Nat /\ OnTheHour(FirstHour(snap))
          /\ AllOf(snap.raw) \subseteq Events
          /\ r \in RollupSegments(snap, target)
      BY <1>2, <1>5, <1>6, <1>7, Zenon
    <2> HIDE DEF snap, target
    <2>2. /\ SegmentOK(r)
          /\ r.file = "written"
          /\ r.min + Hour <= target
          /\ \A e : e \in r.evs <=> e \in AllOf(snap.raw) /\ Fits(e, r)
          /\ \A s \in snap.rollups : ~(s.min = r.min /\ s.bucket = r.bucket)
      BY <2>1, NewSegments
    <2> QED
      BY <1>3, <2>2, Zenon DEF snap, target
  <1>8. FirstHour(worker.snap) < worker.target /\ worker.target + SafetyLag <= now
    BY <1>1, <1>2, <1>6
  <1> QED
    BY <1>2, <1>3, <1>5, <1>6, <1>7, <1>8, Zenon

\* Every step keeps the type invariant.
LEMMA TypeStep ==
  ASSUME WatermarkInv, Next
  PROVE  TypeOK'
  <1> USE Constants
  <1>1. /\ TypeOK
        /\ ManifestOK(manifest) /\ ManifestOK(disk)
        /\ \A m \in {manifest, disk} : \A s \in m.raw : s # {} /\ s \subseteq Events
        /\ inflight \in Seq(Batch) /\ ingested \subseteq Events
        /\ activeId \in Nat /\ now \in Nat
        /\ \A m \in {manifest, disk} : m.sealed \in Nat /\ m.sealed < activeId
    <2>1. TypeOK /\ ManifestOK(manifest) /\ ManifestOK(disk)
      BY Zenon DEF WatermarkInv, ManifestInv
    <2>2. inflight \in Seq(Batch) /\ ingested \subseteq Events
      BY Zenon DEF WatermarkInv, PipelineInv
    <2>3. activeId \in Nat /\ now \in Nat
      BY <2>1 DEF TypeOK
    <2> QED
      BY <2>1, <2>2, <2>3, Zenon DEF TypeOK, ManifestOK
  <1>2. CASE TimePasses
    BY <1>1, <1>2 DEF TimePasses, TypeOK, pipelineVars
  <1>3. ASSUME NEW e \in Events, Ingest(e) PROVE TypeOK'
    BY <1>1, <1>3 DEF Ingest, TypeOK
  <1>4. ASSUME Drain PROVE /\ activeId' \in 1..MaxWalId /\ activeId' = activeId + 1
                           /\ memtable' = {} /\ oldest' \in 0..MaxTime
                           /\ \A i \in DOMAIN inflight' : inflight'[i].events \subseteq Events
    <2>1. [events |-> memtable, sealed |-> activeId] \in Batch
      BY <1>1, Zenon DEF Batch, TypeOK
    <2>2. inflight' \in Seq(Batch)
      BY <1>1, <1>4, <2>1 DEF Drain
    <2>3. \A i \in DOMAIN inflight' : inflight'[i] \in Batch
      BY <2>2
    <2> QED
      BY <1>1, <1>4, <2>3 DEF Drain, Batch
  <1>5. CASE IngestDrain
    <2>1. Drain /\ UNCHANGED <<now, up, manifest, disk, worker, query, ingested, due, restarts, faults>>
      BY <1>5, Zenon DEF IngestDrain
    <2>2. \A m \in {manifest, disk} : m.sealed < activeId'
      <3>1. activeId' = activeId + 1
        BY <1>4, <2>1, Zenon
      <3> QED
        BY <1>1, <3>1
    <2> QED
      BY <1>1, <1>4, <2>1, <2>2, Zenon DEF TypeOK
  <1>6. CASE FlushCommit
    <2> DEFINE evs == Head(inflight).events
               segs == {{e \in evs : Bucket[e] = b} : b \in {Bucket[e] : e \in evs}}
    <2>1. inflight # <<>> /\ Head(inflight) \in Batch /\ Head(inflight) = inflight[1] /\ 1 \in DOMAIN inflight
      BY <1>1, <1>6 DEF FlushCommit
    <2>2. segs \subseteq SUBSET Events /\ {} \notin segs
      BY <2>1, FlushedSegments DEF Batch
    <2>3. Head(inflight).sealed \in Nat /\ Head(inflight).sealed < activeId
      BY <2>1, Zenon DEF WatermarkInv, PipelineInv, Batch
    <2>4. /\ manifest'.raw = manifest.raw \cup segs
          /\ manifest'.rollups = manifest.rollups
          /\ manifest'.sealed = Higher(manifest.sealed, Head(inflight).sealed)
          /\ disk' = manifest'
      BY <1>1, <1>6, Zenon DEF FlushCommit, ManifestOK
    <2>5. manifest'.sealed < activeId
      BY <1>1, <2>3, <2>4, Zenon DEF Higher, TypeOK, ManifestOK
    <2>6. \A i \in DOMAIN inflight' : inflight'[i].events \subseteq Events
      <3>1. inflight' \in Seq(Batch)
        BY <1>1, <1>6, <2>1 DEF FlushCommit
      <3>2. \A i \in DOMAIN inflight' : inflight'[i] \in Batch
        BY <3>1
      <3> QED
        BY <3>2, Zenon DEF Batch
    <2> HIDE DEF segs
    <2>7. \A s \in manifest'.raw : s # {} /\ s \subseteq Events
      BY <1>1, <2>2, <2>4, Zenon
    <2> QED
      BY <1>1, <1>6, <2>4, <2>5, <2>6, <2>7, Zenon DEF FlushCommit, TypeOK
  <1>7. CASE TickStart \/ TickWal \/ TickAge \/ TickScan
    <2>1. worker'.pc \in {"idle", "wal", "age", "drain", "min", "commit"}
      <3>1. worker = [pc |-> worker.pc, now |-> worker.now, snap |-> worker.snap,
                      target |-> worker.target, new |-> worker.new]
        BY Zenon DEF WatermarkInv, WorkerInv
      <3>2. CASE TickStart
        BY <3>2, Zenon DEF TickStart, IdleWorker
      <3>3. CASE TickWal
        BY <3>1, <3>3, Zenon DEF TickWal, IdleWorker
      <3>4. CASE TickAge
        BY <3>1, <3>4, Zenon DEF TickAge, IdleWorker
      <3>5. CASE TickScan
        BY <3>1, <3>5, Zenon DEF TickScan, IdleWorker
      <3> QED
        BY <1>7, <3>2, <3>3, <3>4, <3>5, Zenon
    <2> QED
      BY <1>1, <1>7, <2>1, Zenon DEF TickStart, TickWal, TickAge, TickScan, pipelineVars, TypeOK
  <1>8. CASE TickDrain
    <2>1. /\ UNCHANGED <<memtable, oldest, activeId, inflight>> \/ Drain
          /\ UNCHANGED <<now, up, ingested, manifest, disk, query, due, restarts, faults>>
      BY <1>8, Zenon DEF TickDrain
    <2>2. worker'.pc = "idle"
      BY <1>8, Zenon DEF TickDrain, IdleWorker
    <2>3. CASE UNCHANGED <<memtable, oldest, activeId, inflight>>
      BY <1>1, <2>1, <2>2, <2>3, Zenon DEF TypeOK
    <2>4. CASE Drain
      <3>1. \A m \in {manifest, disk} : m.sealed < activeId'
        <4>1. activeId' = activeId + 1
          BY <1>4, <2>4, Zenon
        <4> QED
          BY <1>1, <4>1
      <3> QED
        BY <1>1, <1>4, <2>1, <2>2, <2>4, <3>1, Zenon DEF TypeOK
    <2> QED
      BY <2>1, <2>3, <2>4, Zenon
  <1>9. ASSUME TickCommit \/ TickSaveFails PROVE \A r \in worker.new : SegmentOK(r) /\ r.evs \subseteq Events
    BY <1>9, CommittingTick, Zenon DEF TickCommit, TickSaveFails, SegmentOK
  <1>10. CASE TickCommit
    <2>1. /\ manifest'.raw = manifest.raw /\ manifest'.sealed = manifest.sealed
          /\ manifest'.rollups = manifest.rollups \cup worker.new
      BY <1>1, <1>10, Zenon DEF TickCommit, ManifestOK
    <2> QED
      BY <1>1, <1>9, <1>10, <2>1, Zenon DEF TickCommit, TypeOK, pipelineVars, IdleWorker
  <1>11. CASE TickSaveFails
    <2> DEFINE gone == {[r EXCEPT !.file = "removed"] : r \in worker.new}
    <2>1. /\ manifest'.raw = manifest.raw /\ manifest'.sealed = manifest.sealed
          /\ manifest'.rollups = manifest.rollups \cup gone
      BY <1>1, <1>11, Zenon DEF TickSaveFails, ManifestOK
    <2>2. \A r \in gone : r.evs \subseteq Events
      BY <1>9, <1>11, Zenon DEF SegmentOK
    <2>3. disk' = disk \/ disk' = manifest'
      BY <1>11, Zenon DEF TickSaveFails
    <2> HIDE DEF gone
    <2>4. \A m \in {manifest', disk'} :
            /\ \A s \in m.raw : s # {} /\ s \subseteq Events
            /\ \A r \in m.rollups : r.evs \subseteq Events
            /\ m.sealed < activeId
      BY <1>1, <2>1, <2>2, <2>3, Zenon DEF TypeOK
    <2> QED
      <3>1. faults' \in 0..MaxFaults /\ worker'.pc = "idle"
        <4>1. faults < MaxFaults /\ faults' = faults + 1 /\ worker' = IdleWorker
          BY <1>11, Zenon DEF TickSaveFails
        <4> QED
          BY <1>1, <4>1 DEF TypeOK, IdleWorker
      <3>2. UNCHANGED <<now, up, memtable, oldest, activeId, inflight, ingested, query, due, restarts>>
        BY <1>11, Zenon DEF TickSaveFails, pipelineVars
      <3> QED
        BY <1>1, <2>4, <3>1, <3>2, Zenon DEF TypeOK
  <1>12. CASE Crash
    <2>1. worker'.pc = "idle" /\ query'.pc = "idle"
      BY <1>12, Zenon DEF Crash, IdleWorker, IdleQuery
    <2>2. \A i \in DOMAIN inflight' : inflight'[i].events \subseteq Events
      BY <1>12 DEF Crash
    <2>3. oldest' \in 0..MaxTime
      BY <1>12 DEF Crash
    <2>4. \A m \in {manifest', disk'} : m \in {manifest, disk}
      BY <1>12, Zenon DEF Crash
    <2>6. restarts' \in 0..MaxRestarts /\ faults' \in 0..MaxFaults
      BY <1>1, <1>12 DEF Crash, TypeOK
    <2>5. now' = now /\ activeId' = activeId /\ up' = FALSE /\ memtable' = {} /\ due' = due /\ ingested' = ingested
      BY <1>12, Zenon DEF Crash
    <2> QED
      BY <1>1, <2>1, <2>2, <2>3, <2>4, <2>5, <2>6, Zenon DEF TypeOK
  <1>13. CASE Recover
    BY <1>1, <1>13 DEF Recover, TypeOK
  <1>14. ASSUME NEW range \in RebuildRanges, RebuildRollups(range) PROVE TypeOK'
    <2>1. /\ manifest'.raw = manifest.raw /\ manifest'.sealed = manifest.sealed
          /\ manifest'.rollups \subseteq manifest.rollups
      BY <1>1, <1>14, Zenon DEF RebuildRollups, ManifestOK
    <2>2. due' \subseteq ingested
      BY <1>1, <1>14, Zenon DEF RebuildRollups, TypeOK, Within
    <2> QED
      BY <1>1, <1>14, <2>1, <2>2, Zenon DEF RebuildRollups, TypeOK, pipelineVars
  <1>15. CASE Query
    <2>1. query'.pc \in {"idle", "tail", "memtable"}
      <3>1. query = [pc |-> query.pc, from |-> query.from, raw |-> query.raw,
                     rows |-> query.rows, owed |-> query.owed, wrong |-> query.wrong]
        BY Zenon DEF WatermarkInv, QueryShape
      <3> QED
        BY <1>15, <3>1, Zenon DEF Query, QueryRollups, QueryRaw, QueryTail, QueryMemtable, Answered, IdleQuery
    <2> QED
      BY <1>1, <1>15, <2>1, Zenon
      DEF Query, QueryRollups, QueryRaw, QueryTail, QueryMemtable, pipelineVars, TypeOK
  <1> QED
    BY <1>2, <1>3, <1>5, <1>6, <1>7, <1>8, <1>10, <1>11, <1>12, <1>13, <1>14, <1>15, Zenon DEF Next, Tick

-----------------------------------------------------------------------------
(* The manifest in memory and on disk *)

\* Adding the new segments of a tick, with or without their files, and moving the
\* watermark to the target keeps the manifest in order.
LEMMA AddSegments ==
  ASSUME WatermarkInv, worker.pc = "commit", NEW added, NEW f, NEW m,
         \A a \in added : \E r \in worker.new :
           a = [id |-> r.id, min |-> r.min, bucket |-> r.bucket, evs |-> r.evs, file |-> f],
         m = [raw |-> manifest.raw, rollups |-> manifest.rollups \cup added,
              wm |-> worker.target, sealed |-> manifest.sealed]
  PROVE  ManifestOK(m) /\ Lagging(m)
  <1> USE Constants
  <1>1. ManifestOK(manifest) /\ Lagging(manifest) /\ now \in Nat
    BY DEF WatermarkInv, ManifestInv, TypeOK
  <1>2. m.raw = manifest.raw /\ m.rollups = manifest.rollups \cup added
        /\ m.wm = worker.target /\ m.sealed = manifest.sealed
    BY Zenon
  <1>3. ASSUME NEW a \in added
        PROVE  /\ SegmentOK(a)
               /\ a.min + Hour <= worker.target
               /\ \A s \in manifest.rollups : ~(s.min = a.min /\ s.bucket = a.bucket)
    <2>1. PICK r \in worker.new :
            a = [id |-> r.id, min |-> r.min, bucket |-> r.bucket, evs |-> r.evs, file |-> f]
      BY <1>3, Zenon
    <2>2. a.id = r.id /\ a.min = r.min /\ a.bucket = r.bucket /\ a.evs = r.evs /\ a.file = f
      BY <2>1, Zenon
    <2>3. a = [id |-> a.id, min |-> a.min, bucket |-> a.bucket, evs |-> a.evs, file |-> a.file]
      BY <2>1, <2>2, Zenon
    <2>4. /\ SegmentOK(r) /\ r.min + Hour <= worker.target
          /\ \A s \in manifest.rollups : ~(s.min = r.min /\ s.bucket = r.bucket)
      BY CommittingTick, Zenon
    <2>5. SegmentOK(a)
      BY <2>2, <2>3, <2>4, Zenon DEF SegmentOK, Fits
    <2> QED
      BY <2>2, <2>4, <2>5, Zenon
  <1>4. ASSUME NEW a1 \in added, NEW a2 \in added, a1.min = a2.min, a1.bucket = a2.bucket
        PROVE  a1 = a2
    <2>1. PICK r1 \in worker.new :
            a1 = [id |-> r1.id, min |-> r1.min, bucket |-> r1.bucket, evs |-> r1.evs, file |-> f]
      BY <1>4, Zenon
    <2>2. PICK r2 \in worker.new :
            a2 = [id |-> r2.id, min |-> r2.min, bucket |-> r2.bucket, evs |-> r2.evs, file |-> f]
      BY <1>4, Zenon
    <2>3. r1.min = r2.min /\ r1.bucket = r2.bucket
      BY <1>4, <2>1, <2>2, Zenon
    <2>4. worker.new = RollupSegments(worker.snap, worker.target)
      BY CommittingTick, Zenon
    <2>5. r1 = r2
      BY <2>3, <2>4, NewSegmentsDiffer
    <2> QED
      BY <2>1, <2>2, <2>5, Zenon
  <1>5. worker.target \in Nat /\ OnTheHour(worker.target) /\ worker.target + SafetyLag <= now
    BY CommittingTick, Zenon
  <1>6. ASSUME NEW r1 \in m.rollups, NEW r2 \in m.rollups, r1.min = r2.min, r1.bucket = r2.bucket
        PROVE  r1 = r2
    BY <1>1, <1>2, <1>3, <1>4, <1>6, Zenon DEF ManifestOK, RollupsOK
  <1>7. RollupsOK(m)
    BY <1>1, <1>2, <1>3, <1>6, Zenon DEF ManifestOK, RollupsOK
  <1>8. ManifestOK(m)
    BY <1>1, <1>2, <1>5, <1>7, Zenon DEF ManifestOK
  <1>9. ASSUME NEW r \in m.rollups PROVE r.min + Hour + SafetyLag <= now
    <2>1. CASE r \in manifest.rollups
      BY <1>1, <2>1, Zenon DEF Lagging
    <2>2. CASE r \in added
      <3>1. r.min \in Nat /\ r.min + Hour <= worker.target
        BY <1>3, <2>2, Zenon DEF SegmentOK
      <3> QED
        BY <1>1, <1>5, <3>1
    <2> QED
      BY <1>2, <2>1, <2>2, Zenon
  <1> QED
    BY <1>2, <1>5, <1>8, <1>9, Zenon DEF Lagging

\* Every step keeps both manifests in order: whole hours, one segment per hour
\* and bucket, a safety lag in the past.
LEMMA ManifestStep ==
  ASSUME RebuildsOnTheHour, WatermarkInv, Next
  PROVE  ManifestInv'
  <1> USE Constants
  <1>1. ManifestInv /\ now \in Nat /\ TypeOK
    BY DEF WatermarkInv, TypeOK
  <1>2. ASSUME UNCHANGED <<manifest, disk, faults>>, now' \in Nat, now' >= now PROVE ManifestInv'
    <2>1. ASSUME NEW m \in {manifest, disk}
          PROVE  (m.wm = 0 \/ m.wm + SafetyLag <= now') /\ \A r \in m.rollups : r.min + Hour + SafetyLag <= now'
      <3>1. m.wm \in Nat /\ \A r \in m.rollups : r.min \in Nat
        BY <1>1, Zenon DEF ManifestInv, ManifestOK, RollupsOK, SegmentOK
      <3>2. (m.wm = 0 \/ m.wm + SafetyLag <= now) /\ \A r \in m.rollups : r.min + Hour + SafetyLag <= now
        BY <1>1, Zenon DEF ManifestInv, Lagging
      <3> QED
        BY <1>1, <1>2, <3>1, <3>2
    <2> QED
      BY <1>1, <1>2, <2>1, Zenon DEF ManifestInv, Lagging, ManifestOK, RollupsOK
  <1>3. CASE TimePasses
    BY <1>1, <1>2, <1>3 DEF TimePasses
  <1>4. ASSUME NEW e \in Events, Ingest(e) PROVE ManifestInv'
    BY <1>1, <1>2, <1>4 DEF Ingest
  <1>5. CASE IngestDrain
    BY <1>1, <1>2, <1>5 DEF IngestDrain
  <1>6. CASE FlushCommit
    <2> DEFINE evs == Head(inflight).events
               segs == {{e \in evs : Bucket[e] = b} : b \in {Bucket[e] : e \in evs}}
    <2>1. Head(inflight) \in Batch
      BY <1>6 DEF FlushCommit, WatermarkInv, PipelineInv
    <2>2. segs \subseteq SUBSET Events /\ {} \notin segs
      BY <2>1, FlushedSegments DEF Batch
    <2>3. Head(inflight).sealed \in Nat
      BY <2>1, Zenon DEF Batch
    <2>4. manifest' = [raw |-> manifest.raw \cup segs, rollups |-> manifest.rollups, wm |-> manifest.wm,
                       sealed |-> Higher(manifest.sealed, Head(inflight).sealed)]
      BY <1>1, <1>6, Zenon DEF FlushCommit, ManifestInv, ManifestOK
    <2>5. disk' = manifest' /\ now' = now /\ faults' = faults
      BY <1>6, Zenon DEF FlushCommit
    <2> HIDE DEF segs
    <2>6. ManifestOK(manifest')
      <3>1. manifest'.sealed \in Nat
        BY <1>1, <2>3, <2>4, Zenon DEF Higher, ManifestInv, ManifestOK
      <3> QED
        BY <1>1, <2>2, <2>4, <3>1, Zenon DEF ManifestInv, ManifestOK, RollupsOK
    <2>7. Lagging(manifest)'
      BY <1>1, <2>4, <2>5, Zenon DEF ManifestInv, Lagging
    <2> QED
      BY <2>5, <2>6, <2>7, Zenon DEF ManifestInv, Lagging, ManifestOK, RollupsOK
  <1>7. CASE TickStart \/ TickWal \/ TickAge \/ TickDrain \/ TickScan
    BY <1>1, <1>2, <1>7 DEF TickStart, TickWal, TickAge, TickDrain, TickScan
  <1>8. CASE TickCommit
    <2>1. worker.pc = "commit" /\ disk' = manifest' /\ now' = now /\ faults' = faults
      BY <1>8, Zenon DEF TickCommit
    <2>2. \A r \in worker.new :
              r = [id |-> r.id, min |-> r.min, bucket |-> r.bucket, evs |-> r.evs, file |-> "written"]
      BY <2>1, CommittingTick, Zenon DEF SegmentOK
    <2>3. manifest' = [raw |-> manifest.raw, rollups |-> manifest.rollups \cup worker.new,
                       wm |-> worker.target, sealed |-> manifest.sealed]
      BY <1>1, <1>8, Zenon DEF TickCommit, ManifestInv, ManifestOK
    <2>4. ManifestOK(manifest') /\ Lagging(manifest')
      BY <2>1, <2>2, <2>3, AddSegments, Zenon
    <2> QED
      BY <2>1, <2>4, Zenon DEF ManifestInv, Lagging, ManifestOK, RollupsOK
  <1>9. CASE TickSaveFails
    <2> DEFINE gone == {[r EXCEPT !.file = "removed"] : r \in worker.new}
    <2>1. worker.pc = "commit" /\ disk' \in {disk, manifest'} /\ now' = now /\ faults' = faults + 1
      BY <1>9, Zenon DEF TickSaveFails
    <2>2. \A a \in gone : \E r \in worker.new :
            a = [id |-> r.id, min |-> r.min, bucket |-> r.bucket, evs |-> r.evs, file |-> "removed"]
      <3>1. \A r \in worker.new :
              r = [id |-> r.id, min |-> r.min, bucket |-> r.bucket, evs |-> r.evs, file |-> r.file]
        BY <2>1, CommittingTick, Zenon DEF SegmentOK
      <3>2. ASSUME NEW r \in worker.new
            PROVE  [r EXCEPT !.file = "removed"]
                     = [id |-> r.id, min |-> r.min, bucket |-> r.bucket, evs |-> r.evs, file |-> "removed"]
        BY <3>1
      <3> QED
        BY <3>2, Zenon
    <2>3. manifest' = [raw |-> manifest.raw, rollups |-> manifest.rollups \cup gone,
                       wm |-> worker.target, sealed |-> manifest.sealed]
      BY <1>1, <1>9, Zenon DEF TickSaveFails, ManifestInv, ManifestOK
    <2> HIDE DEF gone
    <2>4. ManifestOK(manifest') /\ Lagging(manifest')
      BY <2>1, <2>2, <2>3, AddSegments, Zenon
    <2> QED
      <3>1. faults' # 0 /\ manifest'.raw = manifest.raw /\ manifest'.sealed = manifest.sealed
        BY <1>1, <2>1, <2>3 DEF TypeOK
      <3>2. ManifestOK(disk') /\ Lagging(disk') /\ disk'.raw = manifest.raw /\ disk'.sealed = manifest.sealed
        BY <1>1, <2>1, <2>4, <3>1, Zenon DEF ManifestInv
      <3> QED
        BY <2>1, <2>4, <3>1, <3>2, Zenon DEF ManifestInv, Lagging, ManifestOK, RollupsOK
  <1>10. CASE Crash
    <2>1. manifest' = disk /\ disk' = disk /\ now' = now /\ faults' = faults
      BY <1>10, Zenon DEF Crash
    <2> QED
      BY <1>1, <2>1, Zenon DEF ManifestInv, Lagging, ManifestOK, RollupsOK
  <1>11. CASE Recover
    BY <1>1, <1>2, <1>11 DEF Recover
  <1>12. ASSUME NEW range \in RebuildRanges, RebuildRollups(range) PROVE ManifestInv'
    <2> DEFINE overlapping == {r \in manifest.rollups : r.min < range[2] /\ r.min + Hour - 1 >= range[1]}
    <2>1. manifest' = [raw |-> manifest.raw, rollups |-> manifest.rollups \ overlapping,
                       wm |-> Lower(manifest.wm, range[1]), sealed |-> manifest.sealed]
      BY <1>1, <1>12, Zenon DEF RebuildRollups, ManifestInv, ManifestOK
    <2>2. disk' = manifest' /\ now' = now /\ faults' = faults
      BY <1>12, Zenon DEF RebuildRollups
    <2>3. OnTheHour(range[1])
      BY Zenon DEF RebuildsOnTheHour
    <2>4. manifest'.wm \in {manifest.wm, range[1]} /\ manifest'.wm <= manifest.wm /\ manifest'.wm \in Nat
      BY <1>1, <2>1 DEF Lower, ManifestInv, ManifestOK
    <2>5. OnTheHour(manifest'.wm)
      BY <1>1, <2>3, <2>4, Zenon DEF ManifestInv, ManifestOK
    <2> HIDE DEF overlapping
    <2>6. ManifestOK(manifest')
      BY <1>1, <2>1, <2>4, <2>5, Zenon DEF ManifestInv, ManifestOK, RollupsOK
    <2>7. Lagging(manifest)'
      BY <1>1, <2>1, <2>2, <2>4 DEF ManifestInv, Lagging, ManifestOK
    <2> QED
      BY <2>2, <2>6, <2>7, Zenon DEF ManifestInv, Lagging, ManifestOK, RollupsOK
  <1>13. CASE Query
    BY <1>1, <1>2, <1>13 DEF Query, QueryRollups, QueryRaw, QueryTail, QueryMemtable
  <1> QED
    BY <1>3, <1>4, <1>5, <1>6, <1>7, <1>8, <1>9, <1>10, <1>11, <1>12, <1>13, Zenon DEF Next, Tick

-----------------------------------------------------------------------------
(* Memtable, batches and segments *)

\* A drain moves the memtable into a batch of its own, sealed by the file that
\* was active.
LEMMA DrainStep ==
  ASSUME WatermarkInv, Drain
  PROVE  /\ inflight' \in Seq(Batch)
         /\ \A i \in DOMAIN inflight' : manifest.sealed < inflight'[i].sealed /\ inflight'[i].sealed < activeId'
         /\ \A i, j \in DOMAIN inflight' : i < j => inflight'[i].sealed < inflight'[j].sealed
         /\ Flying' = Flying \cup memtable
         /\ memtable' = {}
  <1> DEFINE b == [events |-> memtable, sealed |-> activeId]
             n == Len(inflight)
  <1>1. /\ inflight \in Seq(Batch) /\ b \in Batch /\ activeId \in Nat
        /\ manifest.sealed \in Nat /\ manifest.sealed < activeId
        /\ inflight' = Append(inflight, b) /\ activeId' = activeId + 1 /\ memtable' = {}
    BY DEF WatermarkInv, PipelineInv, ManifestInv, ManifestOK, TypeOK, Batch, Drain
  <1>2. /\ \A i \in DOMAIN inflight : manifest.sealed < inflight[i].sealed /\ inflight[i].sealed < activeId
        /\ \A i, j \in DOMAIN inflight : i < j => inflight[i].sealed < inflight[j].sealed
    BY Zenon DEF WatermarkInv, PipelineInv
  <1>3. b.events = memtable /\ b.sealed = activeId
    BY Zenon
  <1> HIDE DEF b
  <1>4. /\ inflight' \in Seq(Batch) /\ n \in Nat
        /\ DOMAIN inflight = 1..n /\ DOMAIN inflight' = 1..(n + 1)
        /\ \A i \in 1..n : inflight'[i] = inflight[i] /\ inflight[i] \in Batch
        /\ inflight'[n + 1] = b
    BY <1>1
  <1> HIDE DEF n
  <1>9. \A i \in 1..n : inflight[i].sealed \in Nat
    BY <1>4, Zenon DEF Batch
  <1>5. \A i \in DOMAIN inflight' : i \in 1..n \/ i = n + 1
    BY <1>4
  <1>6. \A i \in DOMAIN inflight' : manifest.sealed < inflight'[i].sealed /\ inflight'[i].sealed < activeId'
    BY <1>1, <1>2, <1>3, <1>4, <1>5, <1>9
  <1>7. ASSUME NEW i \in DOMAIN inflight', NEW j \in DOMAIN inflight', i < j
        PROVE  inflight'[i].sealed < inflight'[j].sealed
    <2>1. i \in 1..n
      BY <1>4, <1>7
    <2>2. CASE j \in 1..n
      BY <1>2, <1>4, <1>7, <2>1, <2>2, Zenon
    <2>3. CASE j = n + 1
      BY <1>2, <1>3, <1>4, <2>1, <2>3, Zenon
    <2> QED
      BY <1>5, <2>2, <2>3, Zenon
  <1>8. Flying' = Flying \cup memtable
    <2>1. ASSUME NEW e \in Flying' PROVE e \in Flying \cup memtable
      <3>1. PICK i \in DOMAIN inflight' : e \in inflight'[i].events
        BY <2>1, Zenon DEF Flying
      <3>2. CASE i \in 1..n
        BY <1>4, <3>1, <3>2, Zenon DEF Flying
      <3>3. CASE i = n + 1
        BY <1>3, <1>4, <3>1, <3>3, Zenon
      <3> QED
        BY <1>5, <3>2, <3>3, Zenon
    <2>2. ASSUME NEW e \in Flying PROVE e \in Flying'
      <3>1. PICK i \in DOMAIN inflight : e \in inflight[i].events
        BY <2>2, Zenon DEF Flying
      <3>2. i \in DOMAIN inflight' /\ e \in inflight'[i].events
        BY <1>4, <3>1
      <3> QED
        BY <3>2, Zenon DEF Flying
    <2>3. ASSUME NEW e \in memtable PROVE e \in Flying'
      <3>1. n + 1 \in DOMAIN inflight' /\ e \in inflight'[n + 1].events
        BY <1>3, <1>4, <2>3, SMTT(30)
      <3> QED
        BY <3>1, Zenon DEF Flying
    <2> QED
      BY <2>1, <2>2, <2>3, Zenon
  <1> QED
    BY <1>1, <1>4, <1>6, <1>7, <1>8, Zenon

\* A flush takes the oldest batch: its events become segments, and its seal, the
\* lowest of the batches', the seal pointer.
LEMMA FlushStep ==
  ASSUME WatermarkInv, FlushCommit
  PROVE  /\ inflight' \in Seq(Batch)
         /\ manifest'.sealed \in Nat /\ manifest.sealed < manifest'.sealed
         /\ \A i \in DOMAIN inflight' : manifest'.sealed < inflight'[i].sealed /\ inflight'[i].sealed < activeId
         /\ \A i, j \in DOMAIN inflight' : i < j => inflight'[i].sealed < inflight'[j].sealed
         /\ Flying = Flying' \cup Head(inflight).events
         /\ AllOf(manifest'.raw) = AllOf(manifest.raw) \cup Head(inflight).events
         /\ manifest.raw \subseteq manifest'.raw
         /\ manifest'.rollups = manifest.rollups /\ manifest'.wm = manifest.wm
  <1> DEFINE evs == Head(inflight).events
             segs == {{e \in evs : Bucket[e] = b} : b \in {Bucket[e] : e \in evs}}
             n == Len(inflight)
  <1>1. /\ inflight \in Seq(Batch) /\ inflight # <<>> /\ inflight' = Tail(inflight)
        /\ manifest.sealed \in Nat /\ activeId \in Nat
    BY DEF WatermarkInv, PipelineInv, ManifestInv, ManifestOK, TypeOK, FlushCommit
  <1>2. /\ \A i \in DOMAIN inflight : manifest.sealed < inflight[i].sealed /\ inflight[i].sealed < activeId
        /\ \A i, j \in DOMAIN inflight : i < j => inflight[i].sealed < inflight[j].sealed
    BY Zenon DEF WatermarkInv, PipelineInv
  <1>3. /\ inflight' \in Seq(Batch) /\ n \in Nat /\ n >= 1
        /\ DOMAIN inflight = 1..n /\ DOMAIN inflight' = 1..(n - 1)
        /\ \A i \in 1..(n - 1) : inflight'[i] = inflight[i + 1]
        /\ \A i \in 1..n : inflight[i] \in Batch
        /\ Head(inflight) = inflight[1]
    BY <1>1
  <1> HIDE DEF n
  <1>4. \A i \in 1..n : inflight[i].events \subseteq Events /\ inflight[i].sealed \in Nat
    BY <1>3, Zenon DEF Batch
  <1>5. manifest' = [raw |-> manifest.raw \cup segs, rollups |-> manifest.rollups, wm |-> manifest.wm,
                     sealed |-> Higher(manifest.sealed, Head(inflight).sealed)]
    BY Zenon DEF FlushCommit, WatermarkInv, ManifestInv, ManifestOK
  <1>6. evs \in SUBSET Events /\ 1 \in 1..n
    BY <1>3, <1>4
  <1>7. AllOf(segs) = evs
    BY <1>6, FlushedSegments, Zenon
  <1> HIDE DEF segs
  <1>8. /\ manifest'.raw = manifest.raw \cup segs
        /\ manifest'.rollups = manifest.rollups /\ manifest'.wm = manifest.wm
        /\ manifest'.sealed = Higher(manifest.sealed, Head(inflight).sealed)
    BY <1>5, Zenon
  <1>9. AllOf(manifest'.raw) = AllOf(manifest.raw) \cup evs
    BY <1>7, <1>8, Zenon DEF AllOf
  <1>10. manifest'.sealed = inflight[1].sealed /\ manifest.sealed < inflight[1].sealed /\ inflight[1].sealed \in Nat
    BY <1>1, <1>2, <1>3, <1>4, <1>6, <1>8 DEF Higher
  <1>11. \A i \in 1..(n - 1) : i + 1 \in 1..n /\ 1 < i + 1
    BY <1>3
  <1>12. \A i \in DOMAIN inflight' : manifest'.sealed < inflight'[i].sealed /\ inflight'[i].sealed < activeId
    BY <1>2, <1>3, <1>6, <1>10, <1>11, Zenon
  <1>13. ASSUME NEW i \in DOMAIN inflight', NEW j \in DOMAIN inflight', i < j
         PROVE  inflight'[i].sealed < inflight'[j].sealed
    <2>1. i + 1 < j + 1
      BY <1>3, <1>13
    <2> QED
      BY <1>2, <1>3, <1>11, <2>1, Zenon
  <1>14. Flying = Flying' \cup evs
    <2>1. ASSUME NEW e \in Flying PROVE e \in Flying' \cup evs
      <3>1. PICK i \in 1..n : e \in inflight[i].events
        BY <1>3, <2>1, Zenon DEF Flying
      <3>2. CASE i = 1
        BY <1>3, <3>1, <3>2, Zenon
      <3>3. CASE i # 1
        <4>1. PICK j \in 1..(n - 1) : i = j + 1
          BY <1>3, <3>3
        <4> QED
          BY <1>3, <3>1, <4>1, Zenon DEF Flying
      <3> QED
        BY <3>2, <3>3, Zenon
    <2>2. ASSUME NEW e \in Flying' PROVE e \in Flying
      BY <1>3, <1>11, <2>2, Zenon DEF Flying
    <2>3. ASSUME NEW e \in evs PROVE e \in Flying
      BY <1>3, <1>6, <2>3, Zenon DEF Flying
    <2> QED
      BY <2>1, <2>2, <2>3, Zenon
  <1> QED
    BY <1>3, <1>8, <1>9, <1>10, <1>12, <1>13, <1>14, Zenon

\* Every step keeps each accepted event in one place, and the seals in order.
LEMMA PipelineStep ==
  ASSUME WatermarkInv, Next
  PROVE  PipelineInv'
  <1>1. PipelineInv /\ ManifestInv /\ ManifestOK(manifest)
    BY Zenon DEF WatermarkInv, ManifestInv
  <1>2. ASSUME UNCHANGED pipelineVars,
               manifest'.raw = manifest.raw, manifest'.sealed = manifest.sealed,
               UNCHANGED <<worker, query>> \/ up
        PROVE  PipelineInv'
    <2>1. UNCHANGED <<up, memtable, activeId, inflight, ingested>>
      BY <1>2, Zenon DEF pipelineVars
    <2>2. Flying' = Flying /\ AllOf(manifest.raw)' = AllOf(manifest.raw)
      BY <1>2, <2>1, Zenon DEF Flying, AllOf
    <2>3. ~up' => UNCHANGED <<worker, query>>
      BY <1>2, <2>1, Zenon
    <2> QED
      BY <1>1, <1>2, <2>1, <2>2, <2>3, Zenon DEF PipelineInv
  <1>3. ~up => worker.pc = "idle" /\ query.pc = "idle"
    BY <1>1 DEF PipelineInv, IdleWorker, IdleQuery
  <1>4. CASE TimePasses
    BY <1>2, <1>4, Zenon DEF TimePasses
  <1>5. ASSUME NEW e \in Events, Ingest(e) PROVE PipelineInv'
    <2>1. /\ up /\ up' /\ e \notin ingested /\ ingested' = ingested \cup {e} /\ memtable' = memtable \cup {e}
          /\ UNCHANGED <<activeId, inflight, manifest>>
      BY <1>5, Zenon DEF Ingest
    <2>2. e \notin Flying /\ e \notin AllOf(manifest.raw)
      BY <1>1, <2>1, Zenon DEF PipelineInv
    <2>3. Flying' = Flying /\ AllOf(manifest.raw)' = AllOf(manifest.raw)
      BY <2>1, Zenon DEF Flying, AllOf
    <2>4. /\ ingested' \subseteq Events /\ AllOf(manifest.raw)' \subseteq ingested'
          /\ memtable' \cap AllOf(manifest.raw)' = {} /\ memtable' \cap Flying' = {}
          /\ ingested' = memtable' \cup Flying' \cup AllOf(manifest.raw)'
      <3> HIDE DEF Flying, AllOf
      <3> QED
        BY <1>1, <2>1, <2>2, <2>3, Zenon DEF PipelineInv
    <2> QED
      BY <1>1, <2>1, <2>4, Zenon DEF PipelineInv
  <1>6. ASSUME Drain, up, UNCHANGED <<up, ingested, manifest>> PROVE PipelineInv'
    <2>1. /\ inflight' \in Seq(Batch) /\ Flying' = Flying \cup memtable /\ memtable' = {}
          /\ \A i \in DOMAIN inflight' : manifest.sealed < inflight'[i].sealed /\ inflight'[i].sealed < activeId'
          /\ \A i, j \in DOMAIN inflight' : i < j => inflight'[i].sealed < inflight'[j].sealed
      BY <1>6, DrainStep, Zenon
    <2>2. AllOf(manifest.raw)' = AllOf(manifest.raw)
      BY <1>6, Zenon DEF AllOf
    <2>3. ingested = memtable \cup Flying \cup AllOf(manifest.raw)
      BY <1>1, <1>6, Zenon DEF PipelineInv
    <2>4. ingested' = memtable' \cup Flying' \cup AllOf(manifest.raw)'
      BY <1>6, <2>1, <2>2, <2>3, Zenon
    <2> QED
      BY <1>1, <1>6, <2>1, <2>2, <2>4, Zenon DEF PipelineInv
  <1>7. CASE IngestDrain
    BY <1>6, <1>7, Zenon DEF IngestDrain
  <1>8. CASE FlushCommit
    <2> DEFINE evs == Head(inflight).events
    <2>1. up /\ UNCHANGED <<up, memtable, activeId, ingested>>
      BY <1>8, Zenon DEF FlushCommit
    <2>2. /\ inflight' \in Seq(Batch)
          /\ \A i \in DOMAIN inflight' : manifest'.sealed < inflight'[i].sealed /\ inflight'[i].sealed < activeId
          /\ \A i, j \in DOMAIN inflight' : i < j => inflight'[i].sealed < inflight'[j].sealed
          /\ Flying = Flying' \cup evs
          /\ AllOf(manifest'.raw) = AllOf(manifest.raw) \cup evs
      BY <1>8, FlushStep, Zenon
    <2> HIDE DEF evs
    <2>3. /\ ingested = memtable \cup Flying \cup AllOf(manifest.raw)
          /\ memtable \cap AllOf(manifest.raw) = {} /\ memtable \cap Flying = {} /\ ingested \subseteq Events
      BY <1>1, <2>1, Zenon DEF PipelineInv
    <2>4. AllOf(manifest.raw)' = AllOf(manifest.raw) \cup evs
      BY <2>2, Zenon DEF AllOf
    <2>5. /\ AllOf(manifest.raw)' \subseteq ingested
          /\ memtable \cap AllOf(manifest.raw)' = {} /\ memtable \cap Flying' = {}
          /\ ingested = memtable \cup Flying' \cup AllOf(manifest.raw)'
      BY <2>2, <2>3, <2>4, Zenon
    <2> QED
      BY <2>1, <2>2, <2>3, <2>5, Zenon DEF PipelineInv
  <1>9. CASE TickStart \/ TickWal \/ TickAge \/ TickScan
    BY <1>2, <1>3, <1>9, Zenon DEF TickStart, TickWal, TickAge, TickScan
  <1>10. CASE TickDrain
    <2>1. up /\ UNCHANGED <<up, ingested, manifest, query>>
      BY <1>3, <1>10, Zenon DEF TickDrain
    <2>2. CASE Drain
      BY <1>6, <2>1, <2>2, Zenon
    <2>3. CASE UNCHANGED <<memtable, oldest, activeId, inflight>>
      BY <1>2, <2>1, <2>3, Zenon DEF pipelineVars
    <2> QED
      BY <1>10, <2>2, <2>3, Zenon DEF TickDrain
  <1>11. CASE TickCommit \/ TickSaveFails
    <2>1. manifest'.raw = manifest.raw /\ manifest'.sealed = manifest.sealed
      BY <1>1, <1>11, Zenon DEF TickCommit, TickSaveFails, ManifestOK
    <2>2. up /\ UNCHANGED pipelineVars
      BY <1>3, <1>11, Zenon DEF TickCommit, TickSaveFails
    <2> QED
      BY <1>2, <2>1, <2>2, Zenon
  <1>12. CASE Crash
    <2>1. /\ up' = FALSE /\ memtable' = {} /\ inflight' = <<>> /\ manifest' = disk
          /\ worker' = IdleWorker /\ query' = IdleQuery /\ ingested' = ingested
      BY <1>12, Zenon DEF Crash
    <2>2. inflight' \in Seq(Batch) /\ DOMAIN inflight' = {}
      BY <2>1
    <2>3. manifest'.raw = manifest.raw
      BY <1>1, <2>1, Zenon DEF ManifestInv
    <2>4. AllOf(manifest.raw)' = AllOf(manifest.raw)
      BY <2>3, Zenon DEF AllOf
    <2> QED
      BY <1>1, <2>1, <2>2, <2>4, Zenon DEF PipelineInv
  <1>13. CASE Recover
    <2>1. /\ ~up /\ up' = TRUE /\ memtable' = ingested \ AllOf(disk.raw)
          /\ UNCHANGED <<activeId, inflight, manifest, ingested, worker, query>>
      BY <1>13, Zenon DEF Recover
    <2>2. disk.raw = manifest.raw /\ inflight = <<>>
      BY <1>1, <2>1, Zenon DEF ManifestInv, PipelineInv
    <2>3. Flying' = {}
      BY <2>1, <2>2 DEF Flying
    <2>4. AllOf(manifest.raw)' = AllOf(manifest.raw) /\ AllOf(manifest.raw) = AllOf(disk.raw)
      BY <2>1, <2>2, Zenon DEF AllOf
    <2>5. /\ memtable' \cap AllOf(manifest.raw)' = {} /\ memtable' \cap Flying' = {}
          /\ ingested = memtable' \cup Flying' \cup AllOf(manifest.raw)'
      BY <1>1, <2>1, <2>3, <2>4, Zenon DEF PipelineInv
    <2> QED
      BY <1>1, <2>1, <2>4, <2>5, Zenon DEF PipelineInv
  <1>14. ASSUME NEW range \in RebuildRanges, RebuildRollups(range) PROVE PipelineInv'
    <2>1. manifest'.raw = manifest.raw /\ manifest'.sealed = manifest.sealed
      BY <1>1, <1>14, Zenon DEF RebuildRollups, ManifestOK
    <2> QED
      BY <1>2, <1>14, <2>1, Zenon DEF RebuildRollups
  <1>15. CASE Query
    BY <1>2, <1>3, <1>15, Zenon DEF Query, QueryRollups, QueryRaw, QueryTail, QueryMemtable
  <1> QED
    BY <1>4, <1>5, <1>7, <1>8, <1>9, <1>10, <1>11, <1>12, <1>13, <1>14, <1>15, Zenon DEF Next, Tick

-----------------------------------------------------------------------------
(* The tick *)

\* Once the WAL check has passed, no batch is in flight and the snapshot has all
\* segments: the seal pointer it read is still the highest seal (bound (b)).
LEMMA NothingInFlight ==
  ASSUME WatermarkInv, worker.pc = "wal", ~(activeId > worker.snap.sealed + 1)
  PROVE  inflight = <<>> /\ worker.snap.raw = manifest.raw /\ up
  <1>1. /\ worker.snap.sealed \in Nat /\ worker.snap.sealed <= manifest.sealed
        /\ worker.snap.sealed = manifest.sealed => worker.snap.raw = manifest.raw
    BY Zenon DEF WatermarkInv, WorkerInv
  <1>2. activeId \in Nat /\ manifest.sealed \in Nat /\ manifest.sealed < activeId
    BY DEF WatermarkInv, TypeOK, ManifestInv, ManifestOK
  <1>3. worker.snap.raw = manifest.raw /\ activeId = manifest.sealed + 1
    BY <1>1, <1>2
  <1>4. /\ inflight \in Seq(Batch)
        /\ \A i \in DOMAIN inflight : manifest.sealed < inflight[i].sealed /\ inflight[i].sealed < activeId
    BY Zenon DEF WatermarkInv, PipelineInv
  <1>5. ASSUME inflight # <<>> PROVE FALSE
    <2>1. 1 \in DOMAIN inflight /\ inflight[1] \in Batch
      BY <1>4, <1>5
    <2>2. inflight[1].sealed \in Nat
      BY <2>1, Zenon DEF Batch
    <2> QED
      BY <1>2, <1>3, <1>4, <2>1, <2>2
  <1>6. up
    BY DEF WatermarkInv, PipelineInv, IdleWorker
  <1> QED
    BY <1>3, <1>5, <1>6, Zenon

\* Every step keeps what the tick relies on.
LEMMA WorkerStep ==
  ASSUME WatermarkInv, Next
  PROVE  WorkerInv'
  <1> USE Constants
  <1>1. WorkerInv /\ now \in Nat
    BY DEF WatermarkInv, TypeOK
  <1>2. worker = [pc |-> worker.pc, now |-> worker.now, snap |-> worker.snap,
                  target |-> worker.target, new |-> worker.new]
    BY <1>1, Zenon DEF WorkerInv
  <1>3. ASSUME worker' = IdleWorker PROVE WorkerInv'
    <2>1. /\ worker'.pc = "idle"
          /\ worker' = [pc |-> worker'.pc, now |-> worker'.now, snap |-> worker'.snap,
                        target |-> worker'.target, new |-> worker'.new]
      BY <1>3, Zenon DEF IdleWorker
    <2> QED
      BY <2>1, Zenon DEF WorkerInv
  <1>4. ~up => worker = IdleWorker
    BY Zenon DEF WatermarkInv, PipelineInv
  <1>5. ASSUME UNCHANGED <<memtable, manifest, worker, due, raced>>, now' \in Nat, now' >= now
        PROVE  WorkerInv'
    BY <1>1, <1>5 DEF WorkerInv
  <1>6. CASE TimePasses
    BY <1>1, <1>5, <1>6 DEF TimePasses, pipelineVars
  <1>7. ASSUME NEW e \in Events, Ingest(e) PROVE WorkerInv'
    <2>1. /\ memtable' = memtable \cup {e} /\ UNCHANGED <<now, manifest, worker, raced>>
          /\ due' = due \/ (due' = due \cup {e} /\ Ts[e] >= now - SafetyLag)
      BY <1>7, Zenon DEF Ingest
    <2>2. worker.pc \in {"age", "min"} => due' \ raced' \subseteq AllOf(worker.snap.raw) \cup memtable'
      <3>1. worker.pc \in {"age", "min"} => due \ raced \subseteq AllOf(worker.snap.raw) \cup memtable
        BY <1>1, Zenon DEF WorkerInv
      <3> QED
        BY <2>1, <3>1, Zenon
    <2>3. ASSUME worker.pc = "commit", NEW x \in due' \ raced', Ts[x] < worker.target
          PROVE  x \in AllOf(worker.snap.raw)
      <3>1. CASE x \in due
        BY <1>1, <2>1, <2>3, <3>1, Zenon DEF WorkerInv
      <3>2. CASE x \notin due
        <4>1. x = e /\ Ts[e] >= now - SafetyLag
          BY <2>1, <2>3, <3>2, Zenon
        <4>2. worker.target \in Nat /\ worker.target + SafetyLag <= worker.now /\ worker.now \in Nat /\ worker.now <= now
          BY <1>1, <2>3, Zenon DEF WorkerInv
        <4> QED
          BY <1>1, <2>3, <4>1, <4>2
      <3> QED
        BY <3>1, <3>2, Zenon
    <2> QED
      BY <1>1, <2>1, <2>2, <2>3, Zenon DEF WorkerInv
  <1>8. CASE IngestDrain
    <2>1. /\ UNCHANGED <<now, manifest, worker, due>>
          /\ raced' = IF TickReading THEN raced \cup memtable ELSE raced
      BY <1>8, Zenon DEF IngestDrain
    <2>2. worker.pc \in {"age", "min"} => due' \ raced' \subseteq AllOf(worker.snap.raw) \cup memtable'
      <3>1. worker.pc \in {"age", "min"} => due \ raced \subseteq AllOf(worker.snap.raw) \cup memtable
        BY <1>1, Zenon DEF WorkerInv
      <3> QED
        BY <2>1, <3>1, Zenon DEF TickReading
    <2>3. due' \ raced' \subseteq due \ raced
      BY <2>1, Zenon
    <2> QED
      BY <1>1, <2>1, <2>2, <2>3, Zenon DEF WorkerInv
  <1>9. CASE FlushCommit
    <2>1. UNCHANGED <<now, memtable, worker, due, raced>>
      BY <1>9, Zenon DEF FlushCommit
    <2>2. /\ manifest'.sealed \in Nat /\ manifest.sealed < manifest'.sealed
          /\ manifest.raw \subseteq manifest'.raw
          /\ manifest'.rollups = manifest.rollups /\ manifest'.wm = manifest.wm
      BY <1>9, FlushStep, Zenon
    <2>3. manifest.sealed \in Nat
      BY Zenon DEF WatermarkInv, ManifestInv, ManifestOK
    <2>4. worker.pc # "idle" =>
            worker.snap.sealed <= manifest'.sealed /\ worker.snap.sealed # manifest'.sealed
      BY <1>1, <2>2, <2>3 DEF WorkerInv
    <2>5. worker.pc # "idle" => worker.snap.raw \subseteq manifest'.raw
      BY <1>1, <2>2, Zenon DEF WorkerInv
    <2> QED
      BY <1>1, <2>1, <2>2, <2>4, <2>5, Zenon DEF WorkerInv
  <1>10. CASE TickStart
    <2>1. /\ worker' = [pc |-> "wal", now |-> now, snap |-> manifest, target |-> 0, new |-> {}]
          /\ UNCHANGED <<now, manifest>>
      BY <1>10, Zenon DEF TickStart, IdleWorker
    <2>2. /\ manifest = [raw |-> manifest.raw, rollups |-> manifest.rollups,
                         wm |-> manifest.wm, sealed |-> manifest.sealed]
          /\ manifest.sealed \in Nat
      BY Zenon DEF WatermarkInv, ManifestInv, ManifestOK
    <2>3. worker'.pc = "wal" /\ worker'.now = now /\ worker'.snap = manifest
          /\ worker'.target = 0 /\ worker'.new = {}
      BY <2>1, Zenon
    <2> QED
      BY <1>1, <2>1, <2>2, <2>3 DEF WorkerInv
  <1>11. CASE TickWal
    <2>1. CASE activeId > worker.snap.sealed + 1
      BY <1>3, <1>11, <2>1, Zenon DEF TickWal
    <2>2. CASE ~(activeId > worker.snap.sealed + 1)
      <3>1. /\ worker' = [pc |-> "age", now |-> worker.now, snap |-> worker.snap,
                          target |-> worker.target, new |-> worker.new]
            /\ UNCHANGED <<now, memtable, manifest, due, raced>>
        BY <1>2, <1>11, <2>2, Zenon DEF TickWal, pipelineVars
      <3>2. inflight = <<>> /\ worker.snap.raw = manifest.raw /\ up
        BY <1>11, <2>2, NothingInFlight, Zenon DEF TickWal
      <3>3. Flying = {}
        BY <3>2 DEF Flying
      <3>4. due \ raced \subseteq AllOf(worker.snap.raw) \cup memtable
        <4>1. due \subseteq ingested
          BY Zenon DEF WatermarkInv, TypeOK
        <4> QED
          BY <3>2, <3>3, <4>1, Zenon DEF WatermarkInv, PipelineInv
      <3>5. worker'.pc = "age" /\ worker'.now = worker.now /\ worker'.snap = worker.snap
            /\ worker'.target = worker.target /\ worker'.new = worker.new
        BY <3>1, Zenon
      <3>6. worker.pc # "idle"
        BY <1>11, Zenon DEF TickWal
      <3> QED
        BY <1>1, <3>1, <3>4, <3>5, <3>6, Zenon DEF WorkerInv
    <2> QED
      BY <2>1, <2>2, Zenon
  <1>12. CASE TickAge
    <2>1. PICK pc \in {"drain", "min"} :
            worker' = [pc |-> pc, now |-> worker.now, snap |-> worker.snap,
                       target |-> worker.target, new |-> worker.new]
      BY <1>2, <1>12, Zenon DEF TickAge
    <2>2. worker.pc = "age" /\ UNCHANGED <<now, memtable, manifest, due, raced>>
      BY <1>12, Zenon DEF TickAge, pipelineVars
    <2>3. worker'.pc = pc /\ worker'.now = worker.now /\ worker'.snap = worker.snap
          /\ worker'.target = worker.target /\ worker'.new = worker.new
      BY <2>1, Zenon
    <2> QED
      BY <1>1, <2>1, <2>2, <2>3, Zenon DEF WorkerInv
  <1>13. CASE TickDrain \/ TickCommit \/ TickSaveFails \/ Crash
    BY <1>3, <1>13, Zenon DEF TickDrain, TickCommit, TickSaveFails, Crash
  <1>14. CASE TickScan
    <2> DEFINE target == TargetHour(worker.now, memtable)
    <2>1. CASE target <= FirstHour(worker.snap)
      BY <1>3, <1>14, <2>1, Zenon DEF TickScan
    <2>2. CASE ~(target <= FirstHour(worker.snap))
      <3>1. /\ worker' = [pc |-> "commit", now |-> worker.now, snap |-> worker.snap,
                          target |-> target, new |-> RollupSegments(worker.snap, target)]
            /\ UNCHANGED <<now, memtable, manifest, due, raced>>
        BY <1>2, <1>14, <2>2, Zenon DEF TickScan, pipelineVars
      <3>2. worker.pc = "min"
        BY <1>14, Zenon DEF TickScan
      <3>3. /\ worker.snap = [raw |-> worker.snap.raw, rollups |-> manifest.rollups,
                              wm |-> manifest.wm, sealed |-> worker.snap.sealed]
            /\ worker.snap.raw \subseteq manifest.raw
            /\ worker.snap.sealed \in Nat /\ worker.snap.sealed <= manifest.sealed
            /\ worker.snap.sealed = manifest.sealed => worker.snap.raw = manifest.raw
            /\ worker.now \in Nat /\ worker.now <= now
            /\ due \ raced \subseteq AllOf(worker.snap.raw) \cup memtable
        BY <1>1, <3>2, Zenon DEF WorkerInv
      <3>4. worker.snap.wm = manifest.wm
        BY <3>3
      <3>5. /\ worker.snap.wm \in Nat /\ OnTheHour(worker.snap.wm)
            /\ worker.snap.raw \subseteq SUBSET Events /\ {} \notin worker.snap.raw
        BY <3>3, <3>4, Zenon DEF WatermarkInv, ManifestInv, ManifestOK
      <3>6. FirstHour(worker.snap) \in Nat
        BY <3>5, FirstHourBounds, Zenon
      <3>7. memtable \in SUBSET Events
        BY Zenon DEF WatermarkInv, TypeOK
      <3>8. /\ target \in Nat /\ OnTheHour(target)
            /\ target = 0 \/ target + SafetyLag <= worker.now
            /\ \A e \in memtable : target <= Ts[e]
        BY <3>3, <3>7, TargetBounds, Zenon
      <3> HIDE DEF target
      <3>9. target > FirstHour(worker.snap) /\ target + SafetyLag <= worker.now
        BY <2>2, <3>6, <3>8, SMTT(30)
      <3>10. \A e \in due \ raced : Ts[e] < target => e \in AllOf(worker.snap.raw)
        BY <3>3, <3>7, <3>8
      <3>11. worker'.pc = "commit" /\ worker'.now = worker.now /\ worker'.snap = worker.snap
             /\ worker'.target = target /\ worker'.new = RollupSegments(worker.snap, target)
        BY <3>1, Zenon
      <3>12. worker' = [pc |-> worker'.pc, now |-> worker'.now, snap |-> worker'.snap,
                        target |-> worker'.target, new |-> worker'.new]
        BY <3>1, <3>11, Zenon
      <3> QED
        BY <3>1, <3>3, <3>8, <3>9, <3>10, <3>11, <3>12, Zenon DEF WorkerInv
    <2> QED
      BY <2>1, <2>2, Zenon
  <1>15. CASE Recover
    BY <1>3, <1>4, <1>15, Zenon DEF Recover
  <1>16. ASSUME NEW range \in RebuildRanges, RebuildRollups(range) PROVE WorkerInv'
    BY <1>3, <1>4, <1>16, Zenon DEF RebuildRollups
  <1>17. CASE Query
    BY <1>1, <1>5, <1>17 DEF Query, QueryRollups, QueryRaw, QueryTail, QueryMemtable, pipelineVars
  <1> QED
    BY <1>6, <1>7, <1>8, <1>9, <1>10, <1>11, <1>12, <1>13, <1>14, <1>15, <1>16, <1>17, Zenon DEF Next, Tick

-----------------------------------------------------------------------------
(* Completeness of the rollups *)

\* Every step keeps the rollups complete, as long as no save fails: the target
\* of a tick never passes an event that is owed and not in its snapshot, and a
\* rebuild of whole hours drops the segments of its range and no others.
LEMMA CompleteStep ==
  ASSUME RebuildsOnTheHour, WatermarkInv, Next
  PROVE  CompleteInv'
  <1> USE Constants
  <1> DEFINE Owed == due \ raced
  <1>1. /\ now \in Nat /\ faults \in Nat
        /\ ManifestOK(manifest) /\ Lagging(manifest)
        /\ due \subseteq Events
        /\ \A e \in Events : Ts[e] \in Nat
    BY DEF WatermarkInv, TypeOK, ManifestInv, PipelineInv
  <1>2. /\ manifest.wm \in Nat /\ OnTheHour(manifest.wm)
        /\ \A r \in manifest.rollups : SegmentOK(r) /\ r.min \in Nat /\ OnTheHour(r.min)
    BY <1>1, Zenon DEF ManifestOK, RollupsOK, SegmentOK
  <1>3. faults = 0 =>
          /\ \A r \in manifest.rollups : r.file = "written" /\ \A e \in Owed : Fits(e, r) => e \in r.evs
          /\ \A e \in Owed : Ts[e] < manifest.wm => \E r \in manifest.rollups : e \in r.evs
    BY Zenon DEF WatermarkInv, CompleteInv
  <1>4. ASSUME faults' = faults, manifest'.rollups = manifest.rollups, manifest'.wm = manifest.wm,
               due' \ raced' \subseteq Owed
        PROVE  CompleteInv'
    BY <1>3, <1>4, Zenon DEF CompleteInv
  <1>5. CASE TimePasses
    BY <1>4, <1>5, Zenon DEF TimePasses
  <1>6. ASSUME NEW e \in Events, Ingest(e) PROVE CompleteInv'
    <2>1. /\ UNCHANGED <<manifest, raced, faults>>
          /\ due' = due \/ (due' = due \cup {e} /\ Ts[e] >= now - SafetyLag)
      BY <1>6, Zenon DEF Ingest
    <2>2. CASE due' = due
      BY <1>4, <2>1, <2>2, Zenon
    <2>3. CASE due' = due \cup {e} /\ Ts[e] >= now - SafetyLag
      <3>1. \A r \in manifest.rollups : ~Fits(e, r)
        BY <1>1, <1>2, <2>3 DEF Lagging, Fits
      <3>2. ~(Ts[e] < manifest.wm)
        BY <1>1, <1>2, <2>3 DEF Lagging
      <3> QED
        BY <1>3, <2>1, <2>3, <3>1, <3>2, Zenon DEF CompleteInv
    <2> QED
      BY <2>1, <2>2, <2>3, Zenon
  <1>7. CASE IngestDrain
    <2>1. UNCHANGED <<manifest, due, faults>> /\ raced \subseteq raced'
      BY <1>7, Zenon DEF IngestDrain
    <2> QED
      BY <1>4, <2>1, Zenon
  <1>8. CASE FlushCommit
    <2>1. manifest'.rollups = manifest.rollups /\ manifest'.wm = manifest.wm
      BY <1>8, FlushStep, Zenon
    <2>2. UNCHANGED <<due, raced, faults>>
      BY <1>8, Zenon DEF FlushCommit
    <2> QED
      BY <1>4, <2>1, <2>2, Zenon
  <1>9. CASE TickStart \/ TickWal \/ TickAge \/ TickDrain \/ TickScan
    BY <1>4, <1>9, Zenon DEF TickStart, TickWal, TickAge, TickDrain, TickScan
  <1>10. CASE TickCommit
    <2>1. worker.pc = "commit" /\ UNCHANGED <<due, raced, faults>>
      BY <1>10, Zenon DEF TickCommit
    <2>2. manifest'.rollups = manifest.rollups \cup worker.new /\ manifest'.wm = worker.target
      BY <1>1, <1>10, Zenon DEF TickCommit, ManifestOK
    <2>3. \A e \in Owed : Ts[e] < worker.target => e \in AllOf(worker.snap.raw)
      BY <2>1, Zenon DEF WatermarkInv, WorkerInv
    <2>4. ASSUME faults = 0, NEW r \in manifest'.rollups, NEW e \in Owed, Fits(e, r)
          PROVE  e \in r.evs
      <3>1. CASE r \in manifest.rollups
        BY <1>3, <2>4, <3>1, Zenon
      <3>2. CASE r \in worker.new
        <4>1. /\ r.min + Hour <= worker.target /\ SegmentOK(r) /\ worker.target \in Nat
              /\ \A x : x \in r.evs <=> x \in AllOf(worker.snap.raw) /\ Fits(x, r)
          BY <2>1, <3>2, CommittingTick, Zenon
        <4>2. r.min \in Nat /\ Ts[e] < r.min + Hour /\ Ts[e] \in Nat
          BY <1>1, <2>4, <4>1, Zenon DEF SegmentOK, Fits
        <4>3. Ts[e] < worker.target
          BY <4>1, <4>2
        <4> QED
          BY <2>3, <2>4, <4>1, <4>3, Zenon
      <3> QED
        BY <2>2, <3>1, <3>2, Zenon
    <2>5. ASSUME faults = 0, NEW r \in manifest'.rollups PROVE r.file = "written"
      BY <1>3, <2>1, <2>2, <2>5, CommittingTick, Zenon
    <2>6. ASSUME faults = 0, NEW e \in Owed, Ts[e] < worker.target
          PROVE  \E r \in manifest'.rollups : e \in r.evs
      <3> DEFINE first == FirstHour(worker.snap)
      <3>1. e \in AllOf(worker.snap.raw) /\ Ts[e] \in Nat
        BY <1>1, <2>3, <2>6, Zenon
      <3>2. /\ worker.new = RollupSegments(worker.snap, worker.target)
            /\ worker.target \in Nat /\ OnTheHour(worker.target)
            /\ worker.snap.rollups = manifest.rollups /\ worker.snap.wm = manifest.wm
            /\ first \in Nat /\ OnTheHour(first)
            /\ manifest.wm # 0 => first = manifest.wm
            /\ manifest.wm = 0 => \A x \in AllOf(worker.snap.raw) : first <= Ts[x]
            /\ AllOf(worker.snap.raw) \subseteq Events
        BY <2>1, CommittingTick, Zenon
      <3>3. CASE first <= Ts[e]
        <4>1. \A r \in worker.snap.rollups : SegmentOK(r)
          BY <1>2, <3>2, Zenon
        <4>2. \E r \in worker.snap.rollups \cup RollupSegments(worker.snap, worker.target) : Fits(e, r)
          BY <2>6, <3>1, <3>2, <3>3, <4>1, NewSegmentsCover, Zenon
        <4> QED
          BY <2>2, <2>4, <2>6, <3>2, <4>2, Zenon
      <3>4. CASE ~(first <= Ts[e])
        <4>1. manifest.wm # 0 /\ first = manifest.wm
          BY <3>1, <3>2, <3>4, Zenon
        <4>2. Ts[e] < manifest.wm
          BY <1>2, <3>1, <3>4, <4>1
        <4> QED
          BY <1>3, <2>2, <2>6, <4>2, Zenon
      <3> QED
        BY <3>3, <3>4, Zenon
    <2> QED
      BY <2>1, <2>2, <2>4, <2>5, <2>6, Zenon DEF CompleteInv
  <1>11. CASE TickSaveFails
    <2>1. faults' = faults + 1
      BY <1>11, Zenon DEF TickSaveFails
    <2>2. faults' # 0
      BY <1>1, <2>1
    <2> QED
      BY <2>2, Zenon DEF CompleteInv
  <1>12. CASE Crash
    <2>1. manifest' = disk /\ UNCHANGED <<due, raced, faults>>
      BY <1>12, Zenon DEF Crash
    <2>2. faults = 0 => manifest' = manifest
      BY <2>1, Zenon DEF WatermarkInv, ManifestInv
    <2> QED
      BY <1>3, <2>1, <2>2, Zenon DEF CompleteInv
  <1>13. CASE Recover
    BY <1>4, <1>13, Zenon DEF Recover
  <1>14. ASSUME NEW range \in RebuildRanges, RebuildRollups(range) PROVE CompleteInv'
    <2> DEFINE overlapping == {r \in manifest.rollups : r.min < range[2] /\ r.min + Hour - 1 >= range[1]}
               W == Within(ingested, range[1], range[2])
    <2>1. /\ manifest'.rollups = manifest.rollups \ overlapping
          /\ manifest'.wm = Lower(manifest.wm, range[1])
      BY <1>1, <1>14, Zenon DEF RebuildRollups, ManifestOK
    <2>2. due' = due \cup W /\ raced' = raced \ W /\ faults' = faults
      BY <1>14, Zenon DEF RebuildRollups
    <2>3. OnTheHour(range[1]) /\ range[1] \in Nat /\ range[2] \in Nat
      BY Zenon DEF RebuildsOnTheHour
    <2>4. manifest'.wm \in Nat /\ manifest'.wm <= manifest.wm /\ manifest'.wm <= range[1]
      BY <1>2, <2>1, <2>3 DEF Lower
    <2>5. \A e \in W : e \in Events /\ range[1] <= Ts[e] /\ Ts[e] < range[2]
      BY Zenon DEF Within, WatermarkInv, PipelineInv
    <2>6. \A e \in due' \ raced' : e \in Owed \/ e \in W
      BY <2>2, Zenon
    <2>7. ASSUME NEW r \in manifest.rollups, r \notin overlapping, NEW e \in W PROVE ~Fits(e, r)
      <3>1. r.min \in Nat /\ Ts[e] \in Nat /\ ~(r.min < range[2] /\ r.min + Hour - 1 >= range[1])
        BY <1>1, <1>2, <2>5, <2>7, Zenon
      <3>2. range[1] <= Ts[e] /\ Ts[e] < range[2]
        BY <2>5, Zenon
      <3> QED
        BY <2>3, <3>1, <3>2 DEF Fits
    <2>8. ASSUME NEW e \in W PROVE ~(Ts[e] < manifest'.wm)
      <3>1. Ts[e] \in Nat /\ range[1] <= Ts[e]
        BY <1>1, <2>5, Zenon
      <3> QED
        BY <2>3, <2>4, <3>1
    <2>9. ASSUME NEW e \in Owed, Ts[e] < manifest'.wm, NEW r \in manifest.rollups, e \in r.evs
          PROVE  r \notin overlapping
      <3>1. Ts[e] \in Nat /\ r.min \in Nat /\ OnTheHour(r.min) /\ r.min <= Ts[e]
        BY <1>1, <1>2, <2>9, Zenon DEF SegmentOK, Fits
      <3>2. r.min < range[1]
        BY <2>3, <2>4, <2>9, <3>1, SMTT(30)
      <3>3. r.min + Hour <= range[1]
        BY <2>3, <3>1, <3>2, HoursApart, Zenon
      <3>4. ~(r.min + Hour - 1 >= range[1])
        BY <2>3, <3>1, <3>3, SMTT(30)
      <3> QED
        BY <3>4, Zenon
    <2>10. ASSUME NEW e \in Owed, Ts[e] < manifest'.wm PROVE Ts[e] < manifest.wm
      <3>1. Ts[e] \in Nat
        BY <1>1, Zenon
      <3> QED
        BY <1>2, <2>4, <2>10, <3>1
    <2> HIDE DEF overlapping, W
    <2>11. ASSUME faults = 0, NEW r \in manifest'.rollups
           PROVE  r.file = "written" /\ \A e \in due' \ raced' : Fits(e, r) => e \in r.evs
      BY <1>3, <2>1, <2>6, <2>7, <2>11, Zenon
    <2>12. ASSUME faults = 0, NEW e \in due' \ raced', Ts[e] < manifest'.wm
           PROVE  \E r \in manifest'.rollups : e \in r.evs
      <3>1. e \in Owed
        BY <2>6, <2>8, <2>12, Zenon
      <3>2. PICK r \in manifest.rollups : e \in r.evs
        BY <1>3, <2>10, <2>12, <3>1, Zenon
      <3> QED
        BY <2>1, <2>9, <2>12, <3>1, <3>2, Zenon
    <2> QED
      BY <2>2, <2>11, <2>12, Zenon DEF CompleteInv
  <1>15. CASE Query
    BY <1>4, <1>15, Zenon DEF Query, QueryRollups, QueryRaw, QueryTail, QueryMemtable
  <1> QED
    BY <1>5, <1>6, <1>7, <1>8, <1>9, <1>10, <1>11, <1>12, <1>13, <1>14, <1>15, Zenon DEF Next, Tick

-----------------------------------------------------------------------------
(* Queries *)

\* A rollup segment with an event is the one of its hour and bucket; so no event
\* is in two of them.
LEMMA SegmentOfEvent ==
  ASSUME NEW m, RollupsOK(m), NEW r1 \in m.rollups, NEW r2 \in m.rollups,
         NEW e, e \in r1.evs, e \in r2.evs
  PROVE  r1 = r2 /\ r1.min = FloorHour(Ts[e])
  <1>1. /\ e \in Events /\ Fits(e, r1) /\ Fits(e, r2)
        /\ r1.min \in Nat /\ OnTheHour(r1.min) /\ r2.min \in Nat /\ OnTheHour(r2.min)
    BY Zenon DEF RollupsOK, SegmentOK
  <1>2. Ts[e] \in Nat
    BY <1>1, RollupAssumption, Zenon
  <1>3. FloorHour(Ts[e]) = r1.min /\ FloorHour(Ts[e]) = r2.min
    BY <1>1, <1>2, HourUnique, Zenon DEF Fits
  <1> QED
    BY <1>1, <1>3, Zenon DEF RollupsOK, Fits

\* The rows a query reads below the watermark: in its range, below the start of
\* the raw tail, no event twice, and every event of the range whose segment can
\* be read.
LEMMA RowsBelowWatermark ==
  ASSUME QueriesOnTheHour, NEW m, RollupsOK(m), m.wm \in Nat, OnTheHour(m.wm),
         NEW rows, rows = RollupRows(m, QueryRange[1], Lower(QueryRange[2], m.wm))
  PROVE  /\ \A r \in rows : \A e \in r.evs :
              e \in Events /\ QueryRange[1] <= Ts[e] /\ Ts[e] < QueryRange[2] /\ Ts[e] < m.wm
         /\ \A r, s \in rows : r # s => r.evs \cap s.evs = {}
         /\ \A e \in Events : \A s \in m.rollups :
              /\ QueryRange[1] <= Ts[e] /\ Ts[e] < QueryRange[2] /\ Ts[e] < m.wm
              /\ s.file = "written" /\ e \in s.evs
              => \E r \in rows : e \in r.evs
  <1> USE Constants
  <1> DEFINE from == QueryRange[1]
             upper == Lower(QueryRange[2], m.wm)
             row(s) == [id |-> s.id, min |-> s.min, bucket |-> s.bucket,
                        evs |-> {e \in s.evs : from <= FloorHour(Ts[e]) /\ FloorHour(Ts[e]) < upper}]
             read == {s \in m.rollups : s.file = "written" /\ s.min < upper /\ s.min + Hour - 1 >= from}
  <1>1. rows = {row(s) : s \in read}
    BY Zenon DEF RollupRows
  <1>2. /\ upper \in Nat /\ OnTheHour(upper) /\ upper <= QueryRange[2] /\ upper <= m.wm
        /\ upper = QueryRange[2] \/ upper = m.wm
        /\ from \in Nat /\ OnTheHour(from)
    BY SMTT(30) DEF Lower, QueriesOnTheHour
  <1> HIDE DEF upper, from
  <1>3. \A s : row(s).evs = {e \in s.evs : from <= FloorHour(Ts[e]) /\ FloorHour(Ts[e]) < upper}
    BY Zenon
  <1> HIDE DEF row
  <1>4. ASSUME NEW r \in rows
        PROVE  \E s \in m.rollups : r = row(s) /\ \A e \in r.evs :
                 e \in s.evs /\ from <= FloorHour(Ts[e]) /\ FloorHour(Ts[e]) < upper
    BY <1>1, <1>3, Zenon
  <1>5. ASSUME NEW r \in rows, NEW e \in r.evs
        PROVE  e \in Events /\ from <= Ts[e] /\ Ts[e] < QueryRange[2] /\ Ts[e] < m.wm
    <2>1. PICK s \in m.rollups : e \in s.evs /\ from <= FloorHour(Ts[e]) /\ FloorHour(Ts[e]) < upper
      BY <1>4, <1>5, Zenon
    <2>2. e \in Events /\ Ts[e] \in Nat
      BY <2>1, Zenon DEF RollupsOK, SegmentOK
    <2>3. /\ FloorHour(Ts[e]) \in Nat /\ FloorHour(Ts[e]) <= Ts[e]
          /\ Ts[e] < FloorHour(Ts[e]) + Hour /\ OnTheHour(FloorHour(Ts[e]))
      BY <2>2, HourOf, Zenon
    <2>4. FloorHour(Ts[e]) + Hour <= upper
      BY <1>2, <2>1, <2>3, HoursApart, Zenon
    <2> QED
      BY <1>2, <2>1, <2>2, <2>3, <2>4
  <1>6. ASSUME NEW r1 \in rows, NEW r2 \in rows, NEW e \in r1.evs, e \in r2.evs
        PROVE  r1 = r2
    <2>1. PICK s1 \in m.rollups : r1 = row(s1) /\ e \in s1.evs
      BY <1>4, <1>6, Zenon
    <2>2. PICK s2 \in m.rollups : r2 = row(s2) /\ e \in s2.evs
      BY <1>4, <1>6, Zenon
    <2>3. s1 \in m.rollups /\ s2 \in m.rollups /\ e \in s1.evs /\ e \in s2.evs
      BY <2>1, <2>2, Zenon
    <2>4. s1 = s2
      BY <2>3, SegmentOfEvent, Zenon
    <2> QED
      BY <2>1, <2>2, <2>4, Zenon
  <1>7. ASSUME NEW e \in Events, NEW s \in m.rollups,
               from <= Ts[e], Ts[e] < QueryRange[2], Ts[e] < m.wm, s.file = "written", e \in s.evs
        PROVE  \E r \in rows : e \in r.evs
    <2>0. s.min = FloorHour(Ts[e])
      BY <1>7, SegmentOfEvent, Zenon
    <2>1. s.min = FloorHour(Ts[e]) /\ Ts[e] \in Nat
      BY <2>0, Zenon
    <2>2. /\ FloorHour(Ts[e]) \in Nat /\ FloorHour(Ts[e]) <= Ts[e]
          /\ Ts[e] < FloorHour(Ts[e]) + Hour /\ OnTheHour(FloorHour(Ts[e]))
      BY <2>1, HourOf, Zenon
    <2>3. Ts[e] < upper
      BY <1>2, <1>7, Zenon
    <2>4. ~(FloorHour(Ts[e]) < from)
      <3>1. ASSUME FloorHour(Ts[e]) < from PROVE FALSE
        <4>1. FloorHour(Ts[e]) + Hour <= from
          BY <1>2, <2>2, <3>1, HoursApart, Zenon
        <4> QED
          BY <1>2, <1>7, <2>1, <2>2, <4>1, SMTT(30)
      <3> QED
        BY <3>1, Zenon
    <2>5. from <= FloorHour(Ts[e]) /\ FloorHour(Ts[e]) < upper
      BY <1>2, <2>1, <2>2, <2>3, <2>4, SMTT(30)
    <2>6. s.min < upper /\ s.min + Hour - 1 >= from
      BY <1>2, <2>1, <2>2, <2>5
    <2>7. s \in read
      BY <1>7, <2>6, Zenon
    <2>8. row(s) \in rows /\ e \in row(s).evs
      BY <1>1, <1>3, <1>7, <2>5, <2>7, Zenon
    <2> QED
      BY <2>8, Zenon
  <1>8. \A r, s \in rows : r # s => r.evs \cap s.evs = {}
    BY <1>6, Zenon
  <1> QED
    BY <1>5, <1>7, <1>8, Zenon DEF from

\* An answer is right if the three sources share no event, lie in the range, and
\* hold what is owed.
LEMMA AnswerRight ==
  ASSUME NEW rows, NEW raw, NEW buffered,
         \A r \in rows : r.evs \subseteq Within(Events, QueryRange[1], QueryRange[2]),
         raw \cup buffered \subseteq Within(Events, QueryRange[1], QueryRange[2]),
         \A r, s \in rows : r # s => r.evs \cap s.evs = {},
         \A r \in rows : r.evs \cap (raw \cup buffered) = {},
         raw \cap buffered = {},
         \A e \in query.owed : e \in raw \cup buffered \/ \E r \in rows : e \in r.evs
  PROVE  /\ Answered(rows, raw, buffered).wrong = {}
         /\ Answered(rows, raw, buffered).pc = "idle"
         /\ Answered(rows, raw, buffered) =
              [pc |-> "idle", from |-> 0, raw |-> {}, rows |-> {}, owed |-> {}, wrong |-> {}]
  <1> DEFINE rolled == UNION {r.evs : r \in rows}
             counted == rolled \cup raw \cup buffered
             twice == {e \in rolled : \E r, s \in rows : r # s /\ e \in r.evs /\ e \in s.evs}
                      \cup (rolled \cap raw) \cup (rolled \cap buffered) \cup (raw \cap buffered)
             wrong == twice \cup (query.owed \ counted)
                            \cup (counted \ Within(Events, QueryRange[1], QueryRange[2]))
  <1>0. \A e : e \in rolled <=> \E r \in rows : e \in r.evs
    BY Zenon
  <1>1. twice = {}
    <2> HIDE DEF rolled
    <2>1. ASSUME NEW e \in rolled, NEW r \in rows, NEW s \in rows, r # s, e \in r.evs, e \in s.evs
          PROVE  FALSE
      BY <2>1, Zenon
    <2>2. rolled \cap raw = {} /\ rolled \cap buffered = {}
      BY <1>0, Zenon
    <2> QED
      BY <2>1, <2>2, Zenon
  <1>2. query.owed \ counted = {}
    <2> HIDE DEF rolled
    <2> QED
      BY <1>0, Zenon
  <1>3. counted \ Within(Events, QueryRange[1], QueryRange[2]) = {}
    <2> HIDE DEF rolled
    <2> QED
      BY <1>0, Zenon
  <1>4. wrong = {}
    BY <1>1, <1>2, <1>3, Zenon
  <1>5. Answered(rows, raw, buffered) = [IdleQuery EXCEPT !.wrong = wrong]
    BY Zenon DEF Answered
  <1> HIDE DEF wrong
  <1> QED
    BY <1>4, <1>5, Zenon DEF IdleQuery

\* The same of the manifest as it stands.
LEMMA RowsOfQuery ==
  ASSUME QueriesOnTheHour, RollupsOK(manifest), manifest.wm \in Nat, OnTheHour(manifest.wm),
         NEW rows, rows = RollupRows(manifest, QueryRange[1], Lower(QueryRange[2], manifest.wm))
  PROVE  /\ \A r \in rows : \A e \in r.evs :
              e \in Events /\ QueryRange[1] <= Ts[e] /\ Ts[e] < QueryRange[2] /\ Ts[e] < manifest.wm
         /\ \A r, s \in rows : r # s => r.evs \cap s.evs = {}
         /\ \A e \in Events : \A s \in manifest.rollups :
              /\ QueryRange[1] <= Ts[e] /\ Ts[e] < QueryRange[2] /\ Ts[e] < manifest.wm
              /\ s.file = "written" /\ e \in s.evs
              => \E r \in rows : e \in r.evs
  BY RowsBelowWatermark, SMTT(30)

\* Every step keeps what the query relies on; its answers are right.
LEMMA QueryStep ==
  ASSUME QueriesOnTheHour, WatermarkInv, QueryInv, Next
  PROVE  QueryInv'
  <1> USE Constants
  <1> DEFINE Raw == AllOf(manifest.raw)
             from == QueryRange[1]
             to == QueryRange[2]
  <1>1. /\ QueryInv /\ ManifestOK(manifest) /\ RollupsOK(manifest)
        /\ manifest.wm \in Nat /\ OnTheHour(manifest.wm)
        /\ faults \in Nat /\ Raw \subseteq Events /\ memtable \subseteq Events
        /\ memtable \cap Raw = {}
    <2>1. QueryInv /\ ManifestOK(manifest) /\ memtable \cap Raw = {} /\ memtable \subseteq Events
      BY Zenon DEF WatermarkInv, ManifestInv, PipelineInv, TypeOK
    <2>2. Raw \subseteq Events
      BY Zenon DEF WatermarkInv, PipelineInv
    <2>3. faults \in Nat
      BY DEF WatermarkInv, TypeOK
    <2> QED
      BY <2>1, <2>2, <2>3, Zenon DEF ManifestOK
  <1>2. ASSUME query' = query, faults' = faults \/ faults' # 0, AllOf(manifest.raw) \subseteq AllOf(manifest'.raw)
        PROVE  QueryInv'
    <2>1. Within(Raw, from, to) \subseteq Within(AllOf(manifest'.raw), from, to)
      BY <1>2, Zenon DEF Within
    <2>2. AllOf(manifest.raw)' = AllOf(manifest'.raw)
      BY Zenon DEF AllOf
    <2>3. Within(AllOf(manifest.raw), from, to)' = Within(AllOf(manifest'.raw), from, to)
      BY <2>2, Zenon DEF Within
    <2>4. faults' = 0 => faults = 0
      BY <1>2, Zenon
    <2> QED
      BY <1>1, <1>2, <2>1, <2>2, <2>3, <2>4, Zenon DEF QueryInv
  <1>3. ASSUME query' = [pc |-> "idle", from |-> 0, raw |-> {}, rows |-> {}, owed |-> {}, wrong |-> {}]
        PROVE  QueryInv'
    <2>1. query'.pc = "idle" /\ query'.from = 0 /\ query'.raw = {} /\ query'.rows = {}
          /\ query'.owed = {} /\ query'.wrong = {}
      BY <1>3, Zenon
    <2> QED
      BY <1>3, <2>1, Zenon DEF QueryInv
  <1>4. CASE \/ TimePasses \/ IngestDrain \/ TickStart \/ TickWal \/ TickAge \/ TickDrain \/ TickScan
             \/ Recover \/ \E e \in Events : Ingest(e)
    <2>1. query' = query /\ faults' = faults /\ manifest' = manifest
      BY <1>4, Zenon
      DEF TimePasses, IngestDrain, TickStart, TickWal, TickAge, TickDrain, TickScan, Recover, Ingest
    <2> QED
      BY <1>2, <2>1, Zenon
  <1>5. CASE FlushCommit
    <2>1. query' = query /\ faults' = faults
      BY <1>5, Zenon DEF FlushCommit
    <2>2. AllOf(manifest'.raw) = AllOf(manifest.raw) \cup Head(inflight).events
      BY <1>5, FlushStep, Zenon
    <2> QED
      BY <1>2, <2>1, <2>2, Zenon
  <1>6. CASE TickCommit \/ TickSaveFails \/ \E range \in RebuildRanges : RebuildRollups(range)
    <2>1. manifest'.raw = manifest.raw
      <3>1. CASE TickCommit
        BY <1>1, <3>1, Zenon DEF TickCommit, ManifestOK
      <3>2. CASE TickSaveFails
        BY <1>1, <3>2, Zenon DEF TickSaveFails, ManifestOK
      <3>3. ASSUME NEW range \in RebuildRanges, RebuildRollups(range) PROVE manifest'.raw = manifest.raw
        BY <1>1, <3>3, Zenon DEF RebuildRollups, ManifestOK
      <3> QED
        BY <1>6, <3>1, <3>2, <3>3, Zenon
    <2>2. query' = query /\ (faults' = faults \/ faults' = faults + 1)
      BY <1>6, Zenon DEF TickCommit, TickSaveFails, RebuildRollups
    <2>3. faults + 1 # 0
      BY <1>1, SMTT(30)
    <2> QED
      BY <1>2, <2>1, <2>2, <2>3, Zenon
  <1>7. CASE Crash
    BY <1>3, <1>7, Zenon DEF Crash, IdleQuery
  <1>8. CASE QueryRollups
    <2> DEFINE wm == manifest.wm
               rows == RollupRows(manifest, from, Lower(to, wm))
               owed == {e \in Committed : Ts[e] < wm => e \in due \ raced}
               start == Higher(from, wm)
    <2>1. /\ query' = [pc |-> "tail", from |-> start, raw |-> {}, rows |-> rows, owed |-> owed, wrong |-> {}]
          /\ UNCHANGED <<manifest, faults>>
      BY <1>8, Zenon DEF QueryRollups, IdleQuery
    <2>2. start \in Nat /\ start >= from /\ start >= wm /\ (start = from \/ start = wm)
      BY <1>1 DEF Higher
    <2>3. owed \subseteq Within(Raw, from, to)
      BY Zenon DEF Committed
    <2>4. /\ \A r \in rows : \A e \in r.evs : e \in Events /\ from <= Ts[e] /\ Ts[e] < to /\ Ts[e] < wm
          /\ \A r, s \in rows : r # s => r.evs \cap s.evs = {}
          /\ \A e \in Events : \A s \in manifest.rollups :
              /\ from <= Ts[e] /\ Ts[e] < to /\ Ts[e] < wm
              /\ s.file = "written" /\ e \in s.evs
              => \E r \in rows : e \in r.evs
      <3>1. rows = RollupRows(manifest, QueryRange[1], Lower(QueryRange[2], manifest.wm))
        BY Zenon
      <3>2. RollupsOK(manifest) /\ manifest.wm \in Nat /\ OnTheHour(manifest.wm)
        BY <1>1, Zenon
      <3> HIDE DEF rows
      <3> QED
        BY <3>1, <3>2, RowsOfQuery, SMTT(60)
    <2> HIDE DEF rows, start
    <2>5. \A r \in rows : r.evs \subseteq Within(Events, from, Lower(to, start))
      <3>1. ASSUME NEW r \in rows, NEW e \in r.evs PROVE from <= Ts[e] /\ Ts[e] < Lower(to, start) /\ e \in Events
        <4>1. e \in Events /\ from <= Ts[e] /\ Ts[e] < to /\ Ts[e] < wm /\ Ts[e] \in Nat
          BY <2>4, Zenon
        <4> QED
          BY <1>1, <2>2, <4>1 DEF Lower
      <3> QED
        BY <3>1, Zenon DEF Within
    <2>6. ASSUME faults = 0, NEW e \in owed, Ts[e] < start PROVE \E r \in rows : e \in r.evs
      <3>1. e \in Raw /\ e \in Events /\ from <= Ts[e] /\ Ts[e] < to /\ Ts[e] \in Nat
        BY <1>1, <2>3, Zenon DEF Within
      <3>2. Ts[e] < wm
        BY <1>1, <2>2, <2>6, <3>1
      <3>3. e \in due \ raced
        BY <3>2, Zenon
      <3>4. PICK s \in manifest.rollups : s.file = "written" /\ e \in s.evs
        BY <2>6, <3>2, <3>3, Zenon DEF WatermarkInv, CompleteInv
      <3> QED
        BY <2>4, <3>1, <3>2, <3>4, Zenon
    <2> HIDE DEF owed
    <2>7. query'.pc = "tail" /\ query'.from = start /\ query'.raw = {} /\ query'.rows = rows
          /\ query'.owed = owed /\ query'.wrong = {}
      BY <2>1, Zenon
    <2>9. Within(AllOf(manifest.raw), from, to)' = Within(Raw, from, to)
      BY <2>1, Zenon DEF Within, AllOf
    <2>10. query'.pc # "memtable" /\ {} \subseteq AllOf(manifest.raw)'
      BY <2>7, Zenon
    <2> QED
      BY <2>1, <2>2, <2>3, <2>4, <2>5, <2>6, <2>7, <2>9, <2>10, Zenon DEF QueryInv
  <1>9. CASE QueryRaw
    <2>1. /\ query' = [pc |-> "memtable", from |-> from, raw |-> Raw, rows |-> {}, owed |-> Committed, wrong |-> {}]
          /\ UNCHANGED <<manifest, faults>>
      BY <1>9, Zenon DEF QueryRaw, IdleQuery
    <2>2. Committed = Within(Raw, from, to)
      BY Zenon DEF Committed
    <2>3. /\ query'.pc = "memtable" /\ query'.from = from /\ query'.raw = Raw /\ query'.rows = {}
          /\ query'.owed = Within(Raw, from, to) /\ query'.wrong = {}
      BY <2>1, <2>2, Zenon
    <2>5. Within(AllOf(manifest.raw), from, to)' = Within(Raw, from, to) /\ AllOf(manifest.raw)' = Raw
      BY <2>1, Zenon DEF Within, AllOf
    <2>6. \A e \in Within(Raw, from, to) : e \in Raw /\ ~(Ts[e] < from)
      <3>1. \A e \in Within(Raw, from, to) : e \in Raw /\ from <= Ts[e] /\ Ts[e] \in Nat
        BY <1>1, Zenon DEF Within
      <3> QED
        BY <3>1
    <2>7. from >= from
      OBVIOUS
    <2> QED
      BY <2>3, <2>5, <2>6, <2>7, Zenon DEF QueryInv
  <1>10. ASSUME query.pc # "idle"
         PROVE  /\ query.from \in Nat /\ query.from >= from
                /\ query.raw \subseteq Raw /\ query.owed \subseteq Within(Raw, from, to)
                /\ \A r \in query.rows : r.evs \subseteq Within(Events, from, Lower(to, query.from))
                /\ \A r, s \in query.rows : r # s => r.evs \cap s.evs = {}
                /\ faults = 0 => \A e \in query.owed : Ts[e] < query.from => \E r \in query.rows : e \in r.evs
                /\ \A r \in query.rows : r.evs \subseteq Within(Events, from, to)
                /\ \A r \in query.rows : \A e \in r.evs : Ts[e] \in Nat /\ Ts[e] < query.from
                /\ \A e \in query.owed : e \in Raw /\ from <= Ts[e] /\ Ts[e] < to /\ Ts[e] \in Nat
    <2>1. /\ query.from \in Nat /\ query.from >= from
          /\ query.raw \subseteq Raw /\ query.owed \subseteq Within(Raw, from, to)
          /\ \A r \in query.rows : r.evs \subseteq Within(Events, from, Lower(to, query.from))
          /\ \A r, s \in query.rows : r # s => r.evs \cap s.evs = {}
          /\ faults = 0 => \A e \in query.owed : Ts[e] < query.from => \E r \in query.rows : e \in r.evs
      BY <1>1, <1>10, Zenon DEF QueryInv
    <2>2. ASSUME NEW r \in query.rows, NEW e \in r.evs
          PROVE  e \in Events /\ from <= Ts[e] /\ Ts[e] \in Nat /\ Ts[e] < query.from /\ Ts[e] < to
      <3>1. e \in Events /\ from <= Ts[e] /\ Ts[e] < Lower(to, query.from) /\ Ts[e] \in Nat
        BY <2>1, <2>2, Zenon DEF Within
      <3> QED
        BY <2>1, <3>1 DEF Lower
    <2>3. \A r \in query.rows : r.evs \subseteq Within(Events, from, to)
      BY <2>2, Zenon DEF Within
    <2>4. \A e \in query.owed : e \in Raw /\ from <= Ts[e] /\ Ts[e] < to /\ Ts[e] \in Nat
      BY <1>1, <2>1, Zenon DEF Within
    <2> QED
      BY <2>1, <2>2, <2>3, <2>4, Zenon
  <1>11. CASE QueryTail
    <2>1. query.pc = "tail" /\ UNCHANGED <<manifest, faults>>
      BY <1>11, Zenon DEF QueryTail
    <2>2. CASE query.from < to
      <3>1. query = [pc |-> query.pc, from |-> query.from, raw |-> query.raw,
                     rows |-> query.rows, owed |-> query.owed, wrong |-> query.wrong]
        BY Zenon DEF WatermarkInv, QueryShape
      <3>2. query' = [pc |-> "memtable", from |-> query.from, raw |-> Raw,
                      rows |-> query.rows, owed |-> query.owed, wrong |-> query.wrong]
        BY <1>11, <2>2, <3>1, Zenon DEF QueryTail
      <3>3. /\ query'.pc = "memtable" /\ query'.from = query.from /\ query'.raw = Raw
            /\ query'.rows = query.rows /\ query'.owed = query.owed /\ query'.wrong = query.wrong
        BY <3>2, Zenon
      <3>5. Within(AllOf(manifest.raw), from, to)' = Within(Raw, from, to) /\ AllOf(manifest.raw)' = Raw
        BY <2>1, Zenon DEF Within, AllOf
      <3>6. query.pc # "idle"
        BY <2>1, Zenon
      <3> QED
        BY <1>1, <1>10, <2>1, <3>3, <3>5, <3>6, Zenon DEF QueryInv
    <2>3. CASE ~(query.from < to)
      <3>1. query' = Answered(query.rows, {}, {})
        BY <1>11, <2>3, Zenon DEF QueryTail
      <3>2. query.pc # "idle"
        BY <2>1, Zenon
      <3>3. \A e \in query.owed : Ts[e] < query.from
        BY <1>10, <2>3, <3>2, SMTT(30)
      <3>4. CASE faults = 0
        <4>1. ASSUME NEW raw, NEW buffered, raw = {}, buffered = {}
              PROVE  Answered(query.rows, raw, buffered) =
                       [pc |-> "idle", from |-> 0, raw |-> {}, rows |-> {}, owed |-> {}, wrong |-> {}]
          <5>1. \A e \in query.owed : e \in raw \cup buffered \/ \E r \in query.rows : e \in r.evs
            BY <1>10, <3>2, <3>3, <3>4, Zenon
          <5>2. /\ raw \cup buffered \subseteq Within(Events, from, to)
                /\ \A r \in query.rows : r.evs \cap (raw \cup buffered) = {}
                /\ raw \cap buffered = {}
            BY <4>1, Zenon
          <5> QED
            BY <1>10, <3>2, <5>1, <5>2, AnswerRight, Zenon
        <4>2. query' = [pc |-> "idle", from |-> 0, raw |-> {}, rows |-> {}, owed |-> {}, wrong |-> {}]
          BY <3>1, <4>1, Zenon
        <4> QED
          BY <1>3, <4>2, Zenon
      <3>5. CASE faults # 0
        BY <2>1, <3>1, <3>5, Zenon DEF Answered, IdleQuery, QueryInv
      <3> QED
        BY <3>4, <3>5, Zenon
    <2> QED
      BY <2>2, <2>3, Zenon
  <1>12. CASE QueryMemtable
    <2> DEFINE raw == Within(query.raw, query.from, to)
               buffered == Within(memtable, query.from, to)
    <2>1. query.pc = "memtable" /\ UNCHANGED <<manifest, faults>> /\ query' = Answered(query.rows, raw, buffered)
      BY <1>12, Zenon DEF QueryMemtable
    <2>2. query.pc # "idle"
      BY <2>1, Zenon
    <2>3. ASSUME NEW e \in raw \cup buffered
          PROVE  e \in Events /\ from <= Ts[e] /\ Ts[e] < to /\ query.from <= Ts[e] /\ Ts[e] \in Nat
      <3>1. e \in Events /\ query.from <= Ts[e] /\ Ts[e] < to /\ Ts[e] \in Nat
        BY <1>1, <1>10, <2>2, <2>3, Zenon DEF Within
      <3> QED
        BY <1>10, <2>2, <3>1
    <2>4. raw \cup buffered \subseteq Within(Events, from, to)
      BY <2>3, Zenon DEF Within
    <2>5. raw \cap buffered = {}
      BY <1>1, <1>10, <2>2, Zenon DEF Within
    <2>6. ASSUME NEW r \in query.rows, NEW e \in r.evs, e \in raw \cup buffered PROVE FALSE
      <3>1. Ts[e] < query.from /\ query.from <= Ts[e] /\ Ts[e] \in Nat /\ query.from \in Nat
        BY <1>10, <2>2, <2>3, <2>6, Zenon
      <3> QED
        BY <3>1
    <2>7. ASSUME faults = 0, NEW e \in query.owed
          PROVE  e \in raw \cup buffered \/ \E r \in query.rows : e \in r.evs
      <3>1. e \in Raw /\ from <= Ts[e] /\ Ts[e] < to /\ Ts[e] \in Nat /\ query.from \in Nat
        BY <1>10, <2>2, Zenon
      <3>2. CASE Ts[e] < query.from
        BY <1>10, <2>2, <2>7, <3>2, Zenon
      <3>3. CASE ~(Ts[e] < query.from)
        <4>1. Ts[e] >= query.from /\ query.from <= Ts[e]
          BY <3>1, <3>3
        <4>2. e \in query.raw
          BY <1>1, <2>1, <4>1, Zenon DEF QueryInv
        <4> QED
          BY <3>1, <4>1, <4>2, Zenon DEF Within
      <3> QED
        BY <3>2, <3>3, Zenon
    <2> HIDE DEF raw, buffered
    <2>8. CASE faults = 0
      <3>1. \A r \in query.rows : r.evs \cap (raw \cup buffered) = {}
        BY <2>6, Zenon
      <3>2. query' = [pc |-> "idle", from |-> 0, raw |-> {}, rows |-> {}, owed |-> {}, wrong |-> {}]
        BY <1>10, <2>1, <2>2, <2>4, <2>5, <2>7, <2>8, <3>1, AnswerRight, Zenon
      <3> QED
        BY <1>3, <3>2, Zenon
    <2>9. CASE faults # 0
      BY <2>1, <2>9, Zenon DEF Answered, IdleQuery, QueryInv
    <2> QED
      BY <2>8, <2>9, Zenon
  <1> QED
    BY <1>4, <1>5, <1>6, <1>7, <1>8, <1>9, <1>11, <1>12, Zenon DEF Next, Tick, Query

LEMMA ShapeStep ==
  ASSUME QueryShape, Next
  PROVE  QueryShape'
  <1>1. CASE query' = query
    BY <1>1, Zenon DEF QueryShape
  <1>2. CASE query' # query
    <2>1. Crash \/ QueryRollups \/ QueryRaw \/ QueryTail \/ QueryMemtable
      BY <1>2, Zenon
      DEF Next, Tick, Query, TimePasses, IngestDrain, FlushCommit, TickStart, TickWal, TickAge, TickDrain,
          TickScan, TickCommit, TickSaveFails, Recover, Ingest, RebuildRollups
    <2> QED
      BY <2>1, Zenon DEF QueryShape, Crash, QueryRollups, QueryRaw, QueryTail, QueryMemtable, Answered, IdleQuery
  <1> QED
    BY <1>1, <1>2, Zenon

-----------------------------------------------------------------------------
(* The theorems *)

\* Whatever ticks, drains, flushes, crashes, failed saves and rebuilds on the hour
\* come after one another, the manifest and the worker keep the invariant that
\* already_rolled and the safety bounds of tick are there to keep.
THEOREM WatermarkInvariant ==
  ASSUME RebuildsOnTheHour
  PROVE  Spec => []WatermarkInv
  <1>1. Init => WatermarkInv
    BY InitInv, Zenon
  <1>2. WatermarkInv /\ [Next]_vars => WatermarkInv'
    <2> SUFFICES ASSUME WatermarkInv, [Next]_vars PROVE WatermarkInv'
      BY Zenon
    <2>1. CASE Next
      <3>1. QueryShape'
        BY <2>1, ShapeStep, Zenon DEF WatermarkInv
      <3> QED
        BY <2>1, <3>1, TypeStep, ManifestStep, PipelineStep, WorkerStep, CompleteStep, Zenon DEF WatermarkInv
    <2>2. CASE UNCHANGED vars
      <3>1. UNCHANGED <<now, up, memtable, oldest, activeId, inflight, manifest, disk, worker, query,
                        ingested, due, raced, restarts, faults>>
        BY <2>2, Zenon DEF vars, pipelineVars
      <3>2. TypeOK' /\ ManifestInv' /\ QueryShape'
        BY <3>1, Zenon DEF WatermarkInv, TypeOK, ManifestInv, QueryShape, Lagging
      <3>3. PipelineInv'
        <4>1. Flying' = Flying /\ AllOf(manifest.raw)' = AllOf(manifest.raw)
          BY <3>1, Zenon DEF Flying, AllOf
        <4> QED
          BY <3>1, <4>1, Zenon DEF WatermarkInv, PipelineInv, IdleWorker, IdleQuery
      <3>4. WorkerInv'
        BY <3>1, Zenon DEF WatermarkInv, WorkerInv, AllOf
      <3>5. CompleteInv'
        BY <3>1, Zenon DEF WatermarkInv, CompleteInv
      <3> QED
        BY <3>2, <3>3, <3>4, <3>5, Zenon DEF WatermarkInv
    <2> QED
      BY <2>1, <2>2, Zenon
  <1> QED
    BY <1>1, <1>2, PTL DEF Spec

\* The types of the worker, the pipeline and the manifest (RollupWorker, Manifest,
\* Memtable).
THEOREM TypeCorrect ==
  ASSUME RebuildsOnTheHour
  PROVE  Spec => []TypeOK
  <1>1. WatermarkInv => TypeOK
    BY Zenon DEF WatermarkInv
  <1> QED
    BY <1>1, WatermarkInvariant, PTL

\* No event is in two rollup segments: already_rolled in tick and the removal of
\* overlapping segments in rebuild_rollups see to it, also after crashes and
\* failed saves.
THEOREM EventsRolledUpOnce ==
  ASSUME RebuildsOnTheHour
  PROVE  Spec => []RolledUpOnce
  <1>1. WatermarkInv => RolledUpOnce
    <2> SUFFICES ASSUME WatermarkInv, NEW r1 \in manifest.rollups, NEW r2 \in manifest.rollups,
                        NEW e, e \in r1.evs, e \in r2.evs
                 PROVE  r1 = r2
      BY Zenon DEF RolledUpOnce
    <2>1. RollupsOK(manifest)
      BY Zenon DEF WatermarkInv, ManifestInv, ManifestOK
    <2> QED
      BY <2>1, SegmentOfEvent, Zenon
  <1> QED
    BY <1>1, WatermarkInvariant, PTL

\* The safety bounds of tick are enough: what arrived within the safety lag, or was
\* there for a rebuild, is in a readable rollup segment once the watermark is past it,
\* unless it was drained between the two checks of a tick or a save failed.
THEOREM RollupsAreComplete ==
  ASSUME RebuildsOnTheHour
  PROVE  Spec => []RollupsComplete
  <1>1. WatermarkInv => RollupsComplete
    BY Zenon DEF WatermarkInv, CompleteInv, RollupsComplete
  <1> QED
    BY <1>1, WatermarkInvariant, PTL

\* The inductive invariant of workers and queries together.
THEOREM RollupInvariant ==
  ASSUME RebuildsOnTheHour, QueriesOnTheHour
  PROVE  Spec => []RollupInv
  <1>1. Init => QueryInv
    BY InitInv, Zenon
  <1>2. WatermarkInv /\ QueryInv /\ [Next]_vars => QueryInv'
    <2> SUFFICES ASSUME WatermarkInv, QueryInv, [Next]_vars PROVE QueryInv'
      BY Zenon
    <2>1. CASE Next
      BY <2>1, QueryStep, Zenon
    <2>2. CASE UNCHANGED vars
      BY <2>2, Zenon DEF vars, pipelineVars, QueryInv, AllOf, Within
    <2> QED
      BY <2>1, <2>2, Zenon
  <1>3. WatermarkInv /\ QueryInv => RollupInv
    BY Zenon DEF RollupInv
  <1> QED
    BY <1>1, <1>2, <1>3, WatermarkInvariant, PTL DEF Spec

\* A query that reads rollups, raw segments and the memtable one after the other
\* (collect_rollup_then_raw_tail, collect_raw_events), while ticks, drains and
\* flushes go on, counts what it owes, nothing twice and nothing outside of its
\* range, when its range is on the hour.
THEOREM QueriesExact ==
  ASSUME RebuildsOnTheHour, QueriesOnTheHour
  PROVE  Spec => []QueryExact
  <1>1. RollupInv => QueryExact
    BY Zenon DEF RollupInv, QueryInv, QueryExact
  <1> QED
    BY <1>1, RollupInvariant, PTL

=============================================================================
