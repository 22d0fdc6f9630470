------------------------------ MODULE Periods -------------------------------
(***************************************************************************)
(* Billing periods: closing, reopening and reading a period while events   *)
(* for it are being ingested, flushed and rolled up.                       *)
(*                                                                         *)
(* An ingest request copies closed_periods under the manifest read lock    *)
(* and enters its events later, under other locks.  A close looks for an   *)
(* entry, computes the totals, and takes the write lock only then.  A get  *)
(* reads the entry and runs its query afterwards.  A query itself takes    *)
(* the manifest lock for the rollups, again for the raw segments, and then *)
(* the memtable lock, and events move on in between.                       *)
(*                                                                         *)
(* Data abstraction.  A period is an (account, year, month) key.  A total  *)
(* is the set of the events it sums, so that an event missing from it or   *)
(* counted twice can be told; a rollup row stands for the events it sums.  *)
(* An accepted event is in the memtable, on its way to a segment, or in a  *)
(* segment, and it is durable (module IngestPipeline).  The flusher and    *)
(* the rollup worker are reduced to what a query can tell of them: any     *)
(* part of what is on its way may be committed, and a tick may pass over   *)
(* any event (module Rollup says which it does pass over).  Files that a   *)
(* query has listed can be read (Rollup and Compaction say when they       *)
(* cannot).                                                                *)
(***************************************************************************)
EXTENDS Naturals, FiniteSets

CONSTANTS
  Events,         \* the events clients send
  AllPeriods,     \* (account, year, month) keys
  PeriodOf,       \* [Events -> AllPeriods]
  Ts,             \* [Events -> Nat]: timestamp_ms, in hours
  UsageEvents,    \* events of kind Usage; the others correct or retract
  WideEvents,     \* events whose quantity does not fit an i64
  LegacyClosed,   \* periods that an older build closed, without a snapshot
  Clients,        \* concurrent ingest requests
  Closers,        \* concurrent close requests
  MaxRequests,    \* bound: requests in progress at the same time
  MaxWatermark,   \* bound: the rollup watermark
  MaxReopens,     \* bound: reopen requests
  MaxRestarts,    \* bound: crashes
  MaxFaults       \* bound: failed manifest saves

ASSUME PeriodsAssumption ==
  /\ PeriodOf \in [Events -> AllPeriods]
  /\ Ts \in [Events -> Nat]
  /\ UsageEvents \subseteq Events
  /\ WideEvents \subseteq Events
  /\ LegacyClosed \subseteq AllPeriods
  /\ {MaxRequests, MaxWatermark, MaxReopens, MaxRestarts, MaxFaults} \subseteq Nat

VARIABLES
  store,     \* accepted events
  memtable,  \* those in the memtable
  flight,    \* those drained from it and not yet in a segment of the manifest
  rolled,    \* those in a row of a rollup segment of the manifest
  wm,        \* watermarks.hourly_rollup_ms
  closed,    \* closed_periods in memory
  disk,      \* closed_periods of the manifest a restart loads
  ingest,    \* [Clients -> progress of an ingest request]
  close,     \* [Closers -> progress of a close request]
  get,       \* progress of a get request
  acked,     \* history: periods whose close was answered with success
  dirty,     \* history: a save failed and none has succeeded since
  raced,     \* history: Usage events of requests that overlapped a close
  late,      \* history: events below the watermark that no rollup had
  moved,     \* history: Usage events that were between two reads of a close
  reverted,  \* history: a restart undid a change whose save had failed
  reopens, restarts, faults  \* counters

dataVars == <<store, memtable, flight, rolled, wm>>
entryVars == <<closed, disk, dirty>>
lossVars == <<raced, late, moved>>
counterVars == <<reopens, restarts, faults>>

vars == <<dataVars, entryVars, lossVars, counterVars, ingest, close, get, acked, reverted>>

\* The accepted events in raw segments of the manifest.
Segments == store \ (memtable \cup flight)

\* A ClosedPeriod: the frozen total is absent in legacy entries.
Entry(p, frozen) == [period |-> p, snapshot |-> TRUE, frozen |-> frozen]
LegacyEntry(p) == [period |-> p, snapshot |-> FALSE, frozen |-> {}]

EntriesOf(p, entries) == {c \in entries : c.period = p}

\* The events of a period (matches_plan over period_bounds).
InPeriod(evs, p) == {e \in evs : PeriodOf[e] = p}

IdleIngest == [pc |-> "idle", event |-> {}, closed |-> {}, overlap |-> FALSE]
IdleClose == [pc |-> "idle", period |-> {}, from |-> 0, total |-> {}]
IdleGet == [pc |-> "idle", period |-> {}, entry |-> {}, from |-> 0, seen |-> {},
            owed |-> {}, moved |-> {}]

Init ==
  /\ store = {}
  /\ memtable = {}
  /\ flight = {}
  /\ rolled = {}
  /\ wm = 0
  /\ closed = {LegacyEntry(p) : p \in LegacyClosed}
  /\ disk = closed
  /\ ingest = [c \in Clients |-> IdleIngest]
  /\ close = [k \in Closers |-> IdleClose]
  /\ get = IdleGet
  /\ acked = LegacyClosed
  /\ dirty = FALSE
  /\ raced = {}
  /\ late = {}
  /\ moved = {}
  /\ reverted = FALSE
  /\ reopens = 0
  /\ restarts = 0
  /\ faults = 0

-----------------------------------------------------------------------------
(* handle_ingest *)

\* Another request may be in progress.
Room ==
  Cardinality({c \in Clients : ingest[c].pc # "idle"}) + Cardinality({k \in Closers : close[k].pc # "idle"})
    + (IF get.pc = "idle" THEN 0 ELSE 1) < MaxRequests

\* A close of the period is between its totals and its end.
Closing(p) == \E k \in Closers : close[k].pc = "commit" /\ p \in close[k].period

\* The requests in flight after a step of a close of p: those for p overlap it.
Overlapping(p) ==
  [c \in Clients |->
     IF ingest[c].pc = "check" /\ \E e \in ingest[c].event : PeriodOf[e] = p
       THEN [ingest[c] EXCEPT !.overlap = TRUE] ELSE ingest[c]]

\* The manifest read lock: the closed periods are copied.
IngestSnapshot(c, e) ==
  /\ ingest[c].pc = "idle" /\ Room
  /\ e \notin store
  /\ ingest' = [ingest EXCEPT ![c] = [pc |-> "check", event |-> {e}, closed |-> {d.period : d \in closed},
                                      overlap |-> Closing(PeriodOf[e])]]
  /\ UNCHANGED <<dataVars, entryVars, lossVars, counterVars, close, get, acked, reverted>>

\* Mutant: closed periods are not checked.
NeverRejected(e, periods) == FALSE

\* A Usage event in a closed period is rejected.
Rejected(e, periods) == e \in UsageEvents /\ PeriodOf[e] \in periods

\* The check against the copy, and the critical section that accepts the event
\* into the memtable unless it is a duplicate.
IngestAccept(c) ==
  /\ ingest[c].pc = "check"
  /\ \E e \in ingest[c].event :
       IF Rejected(e, ingest[c].closed) \/ e \in store
         THEN UNCHANGED <<store, memtable, raced, late>>
         ELSE /\ store' = store \cup {e}
              /\ memtable' = memtable \cup {e}
              /\ raced' = IF ingest[c].overlap THEN raced \cup ({e} \cap UsageEvents) ELSE raced
              /\ late' = IF Ts[e] < wm THEN late \cup {e} ELSE late
  /\ ingest' = [ingest EXCEPT ![c] = IdleIngest]
  /\ UNCHANGED <<flight, rolled, wm, entryVars, moved, counterVars, close, get, acked, reverted>>

-----------------------------------------------------------------------------
(* The way of an accepted event: memtable, flusher, segments, rollups *)

\* Memtable::drain_all.  A query that has listed the segments and not yet read
\* the memtable will not see these events.
DrainMemtable ==
  /\ memtable # {}
  /\ memtable' = {}
  /\ flight' = flight \cup memtable
  /\ moved' = moved \cup {e \in memtable \cap UsageEvents : \E k \in Closers : close[k].pc = "memtable" /\ PeriodOf[e] \in close[k].period}
  /\ get' = IF get.pc = "memtable" THEN [get EXCEPT !.moved = get.moved \cup memtable] ELSE get
  /\ UNCHANGED <<store, rolled, wm, entryVars, raced, late, counterVars, ingest, close, acked, reverted>>

\* The flusher adds the segments of a batch to the manifest.
FlushCommit(batch) ==
  /\ batch # {} /\ batch \subseteq flight
  /\ flight' = flight \ batch
  /\ UNCHANGED <<store, memtable, rolled, wm, entryVars, lossVars, counterVars, ingest, close, get, acked, reverted>>

\* The end of a rollup tick: the rows of the events it found are added, and the
\* watermark goes to the target hour.  What it did not find below that hour is
\* in no rollup.
TickCommit(to, found) ==
  /\ wm < to
  /\ found \subseteq Segments
  /\ \A e \in found : wm <= Ts[e] /\ Ts[e] < to
  /\ wm' = to
  /\ rolled' = rolled \cup found
  /\ late' = late \cup ({e \in store : Ts[e] < to} \ rolled')
  /\ UNCHANGED <<store, memtable, flight, entryVars, raced, moved, counterVars, ingest, close, get, acked, reverted>>

-----------------------------------------------------------------------------
(* A query for the quantities of a period (execute_plan) *)

\* The rollup rows below the watermark, read together with it.
RollupRows(p) == InPeriod(rolled, p)

\* Mutant: the tail starts an hour late.
TailRowsLater(evs, p, from) == {e \in InPeriod(evs, p) : Ts[e] > from}

\* The raw events from a timestamp on.
TailRows(evs, p, from) == {e \in InPeriod(evs, p) : Ts[e] >= from}

-----------------------------------------------------------------------------
(* handle_close_period, handle_reopen_period *)

\* The read lock: a period that is closed is reported as such.
CloseStart(k, p) ==
  /\ close[k].pc = "idle" /\ Room
  /\ IF EntriesOf(p, closed) # {}
       THEN acked' = acked \cup {p} /\ UNCHANGED close
       ELSE close' = [close EXCEPT ![k] = [IdleClose EXCEPT !.pc = "rollups", !.period = {p}]] /\ UNCHANGED acked
  /\ UNCHANGED <<dataVars, entryVars, lossVars, counterVars, ingest, get, reverted>>

\* snapshot_period_totals, before the write lock: the watermark and the rollups.
CloseRollups(k) ==
  /\ close[k].pc = "rollups"
  /\ \E p \in close[k].period :
       close' = [close EXCEPT ![k] = [pc |-> "tail", period |-> {p}, from |-> wm, total |-> RollupRows(p)]]
  /\ UNCHANGED <<dataVars, entryVars, lossVars, counterVars, ingest, get, acked, reverted>>

\* The raw segments from the watermark on; events that are on their way to one
\* are missed.
CloseTail(k) ==
  /\ close[k].pc = "tail"
  /\ \E p \in close[k].period :
       /\ close' = [close EXCEPT ![k] = [pc |-> "memtable", period |-> {p}, from |-> close[k].from,
                                         total |-> close[k].total \cup TailRows(Segments, p, close[k].from)]]
       /\ moved' = moved \cup InPeriod(flight \cap UsageEvents, p)
  /\ UNCHANGED <<dataVars, entryVars, raced, late, counterVars, ingest, get, acked, reverted>>

\* The memtable, and the totals are complete.
CloseMemtable(k) ==
  /\ close[k].pc = "memtable"
  /\ \E p \in close[k].period :
       /\ close' = [close EXCEPT ![k] = [pc |-> "commit", period |-> {p}, from |-> 0,
                                         total |-> close[k].total \cup TailRows(memtable, p, close[k].from)]]
       /\ ingest' = Overlapping(p)
  /\ UNCHANGED <<dataVars, entryVars, lossVars, counterVars, get, acked, reverted>>

\* Mutant: the entry is pushed without looking again.
ClosedAfterBlindly(p, total) == closed \cup {Entry(p, total)}

\* Mutant: the later close replaces the entry.
ClosedAfterRefresh(p, total) == (closed \ EntriesOf(p, closed)) \cup {Entry(p, total)}

\* closed_periods after the write lock: another close may have come first.
ClosedAfter(p, total) ==
  IF EntriesOf(p, closed) # {} THEN closed ELSE closed \cup {Entry(p, total)}

\* Mutant: the manifest is not saved.
NotSaved(periods) == disk

\* The entries on disk after the request: it saves if it changed them.
Saved(periods) == IF periods = closed THEN disk ELSE periods

\* The write lock: the entry is added and saved.
CloseCommit(k) ==
  /\ close[k].pc = "commit"
  /\ \E p \in close[k].period :
       /\ closed' = ClosedAfter(p, close[k].total)
       /\ disk' = Saved(closed')
       /\ dirty' = (dirty /\ closed' = closed)
       /\ acked' = acked \cup {p}
       /\ ingest' = Overlapping(p)
  /\ close' = [close EXCEPT ![k] = IdleClose]
  /\ UNCHANGED <<dataVars, lossVars, counterVars, get, reverted>>

\* The save fails: the request is answered with an error, and the entry stays
\* in memory.
CloseSaveFails(k) ==
  /\ close[k].pc = "commit"
  /\ faults < MaxFaults
  /\ faults' = faults + 1
  /\ \E p \in close[k].period :
       /\ closed' = ClosedAfter(p, close[k].total)
       /\ closed' # closed
       /\ ingest' = Overlapping(p)
  /\ disk' \in {disk, closed'}
  /\ dirty' = TRUE
  /\ close' = [close EXCEPT ![k] = IdleClose]
  /\ UNCHANGED <<dataVars, lossVars, get, acked, reverted, reopens, restarts>>

\* The entry is removed, and the manifest saved if there was one.
ReopenPeriod(p) ==
  /\ reopens < MaxReopens
  /\ reopens' = reopens + 1
  /\ closed' = closed \ EntriesOf(p, closed)
  /\ \/ /\ disk' = Saved(closed')
        /\ dirty' = (dirty /\ closed' = closed)
        /\ UNCHANGED faults
     \/ /\ closed' # closed
        /\ faults < MaxFaults
        /\ faults' = faults + 1
        /\ disk' \in {disk, closed'}
        /\ dirty' = TRUE
  /\ acked' = acked \ {p}
  /\ UNCHANGED <<dataVars, lossVars, ingest, close, get, reverted, restarts>>

\* Another writer of the manifest saves: a flush, a rollup, a compaction.
OtherSave ==
  /\ dirty
  /\ disk' = closed
  /\ dirty' = FALSE
  /\ UNCHANGED <<dataVars, closed, lossVars, counterVars, ingest, close, get, acked, reverted>>

\* A crash and the restart, which replays what is in no segment.  The watermark
\* falls back if its save had failed, or if the rollups above it are dropped by
\* rebuild-rollups before the server starts again.
Crash(from) ==
  /\ restarts < MaxRestarts
  /\ restarts' = restarts + 1
  /\ memtable' = memtable \cup flight
  /\ flight' = {}
  /\ from <= wm
  /\ wm' = from
  /\ rolled' = {e \in rolled : Ts[e] < from}
  /\ closed' = disk
  /\ dirty' = FALSE
  /\ reverted' = (reverted \/ closed # disk)
  /\ ingest' = [c \in Clients |-> IdleIngest]
  /\ close' = [k \in Closers |-> IdleClose]
  /\ get' = IdleGet
  /\ UNCHANGED <<store, disk, lossVars, acked, reopens, faults>>

-----------------------------------------------------------------------------
(* handle_get_period *)

\* The answer is a live total: the period is open, or its entry is a legacy one.
Live(periods) == \A c \in periods : ~c.snapshot

\* The read lock: the entry is copied, if there is one.  A live total is a query
\* of the rollups and the tail, the adjustments are a query of all raw events.
GetEntry(p) ==
  /\ get.pc = "idle" /\ Room
  /\ get' = [IdleGet EXCEPT !.pc = IF Live(EntriesOf(p, closed)) THEN "rollups" ELSE "tail",
                            !.period = {p}, !.entry = EntriesOf(p, closed), !.owed = InPeriod(store, p)]
  /\ UNCHANGED <<dataVars, entryVars, lossVars, counterVars, ingest, close, acked, reverted>>

GetRollups ==
  /\ get.pc = "rollups"
  /\ \E p \in get.period : get' = [get EXCEPT !.pc = "tail", !.from = wm, !.seen = RollupRows(p)]
  /\ UNCHANGED <<dataVars, entryVars, lossVars, counterVars, ingest, close, acked, reverted>>

GetTail ==
  /\ get.pc = "tail"
  /\ \E p \in get.period :
       get' = [get EXCEPT !.pc = "memtable", !.seen = get.seen \cup TailRows(Segments, p, get.from),
                          !.moved = InPeriod(flight, p)]
  /\ UNCHANGED <<dataVars, entryVars, lossVars, counterVars, ingest, close, acked, reverted>>

\* Mutant: there are no adjustments.
AdjustmentsNone(evs) == {}

\* The adjustments among the events of the period: every event that is not
\* Usage, whenever it was accepted.  Its quantity is read as an i64, and dropped
\* if it is none.
Adjustments(evs) == (evs \ UsageEvents) \ WideEvents

\* The events the query has seen once it has read the memtable.
Read(p) == get.seen \cup TailRows(memtable, p, get.from)

FrozenOf(periods) == UNION {c.frozen : c \in periods}

\* The live or the frozen total of the answer, and the adjustments, which
\* net_total adds to a frozen total.
Total(p) == IF Live(get.entry) THEN Read(p) ELSE FrozenOf(get.entry)
Pending(p) == IF Live(get.entry) THEN {} ELSE Adjustments(Read(p))

\* The memtable is read, and the request answered.
GetAnswer ==
  /\ get.pc = "memtable"
  /\ get' = IdleGet
  /\ UNCHANGED <<dataVars, entryVars, lossVars, counterVars, ingest, close, acked, reverted>>

-----------------------------------------------------------------------------

Next ==
  \/ \E c \in Clients, e \in Events : IngestSnapshot(c, e)
  \/ \E c \in Clients : IngestAccept(c)
  \/ DrainMemtable
  \/ \E batch \in SUBSET flight : FlushCommit(batch)
  \/ \E to \in 1..MaxWatermark, found \in SUBSET Segments : TickCommit(to, found)
  \/ \E k \in Closers, p \in AllPeriods : CloseStart(k, p)
  \/ \E k \in Closers : CloseRollups(k) \/ CloseTail(k) \/ CloseMemtable(k) \/ CloseCommit(k) \/ CloseSaveFails(k)
  \/ \E p \in AllPeriods : ReopenPeriod(p)
  \/ OtherSave
  \/ \E from \in 0..MaxWatermark : Crash(from)
  \/ \E p \in AllPeriods : GetEntry(p)
  \/ GetRollups \/ GetTail \/ GetAnswer

Spec == Init /\ [][Next]_vars

-----------------------------------------------------------------------------
(* Properties *)

\* Two closes of the same period race, and one entry results: the snapshot of a
\* closed period is the one of the close that came first.
OneEntry == \A p \in AllPeriods : Cardinality(EntriesOf(p, closed)) <= 1

\* A frozen total is not touched by later closes: while a period stays closed
\* its entry stays the same (re-closing shouldn't refresh it), unless a restart
\* goes back behind a change whose save failed.
FrozenStays ==
  [][\A c \in closed : EntriesOf(c.period, closed') = {} \/ c \in closed' \/ reverted']_vars

\* The Usage events of a closed period are in its frozen total, with three
\* exceptions: events of requests that were in flight while the period was
\* being closed (the comments in handle_ingest and handle_close_period), events
\* that were on their way from the memtable to a segment while the totals were
\* computed, and events that the rollup watermark has passed without them.  No
\* claim is made once a restart has undone an unsaved close or reopen.
UsageFrozen ==
  \A c \in closed :
    c.snapshot /\ ~reverted => InPeriod(store \cap UsageEvents, c.period) \ (raced \cup moved \cup late) \subseteq c.frozen

\* The answer to a get misses no event that was accepted before the request,
\* with these exceptions.  A live total misses what rollups lack below the
\* watermark and what was on its way to a segment.  The net total of a closed
\* period misses the usage its frozen total misses (same proviso), and
\* adjustments that are too wide for an i64 or were on their way to a segment.
GetComplete ==
  get.pc = "memtable" => \A p \in get.period :
    LET missed == get.owed \ (Total(p) \cup Pending(p))
    IN IF Live(get.entry)
         THEN missed \subseteq late \cup get.moved
         ELSE \/ reverted
              \/ missed \subseteq (UsageEvents \cap (raced \cup moved \cup late))
                                    \cup ((WideEvents \cup get.moved) \ UsageEvents)

\* A close that was answered with success is in the manifest in memory, and in
\* the one a restart loads unless a save has failed and none succeeded since.
AckedCloseKept ==
  \A p \in acked :
    \/ EntriesOf(p, closed) # {} /\ (dirty \/ EntriesOf(p, disk) # {})
    \/ reverted

\* handle_get_period: the pending adjustments are the events that landed in the
\* period after the close, so that the net total counts every event once.
NetCountsOnce == get.pc = "memtable" => \A p \in get.period : Total(p) \cap Pending(p) = {}

\* handle_close_period: the snapshot reflects the state at close-time exactly.
\* It holds the Usage events of the period but those of requests that overlapped
\* the close.
SnapshotExact ==
  \A c \in closed : c.snapshot /\ ~reverted => InPeriod(store \cap UsageEvents, c.period) \ raced \subseteq c.frozen

=============================================================================
