----------------------------- MODULE PeriodsProofs ----------------------------
(***************************************************************************)
(* Closed billing periods, in memory and on disk: a period has one entry,  *)
(* a close that was answered with success is kept, its frozen total does   *)
(* not change, and what a frozen or a live total can miss is bounded.      *)
(***************************************************************************)
EXTENDS Periods, FiniteSetTheorems, TLAPS

Entries == [period : AllPeriods, snapshot : BOOLEAN, frozen : SUBSET Events]
Ingests == [pc : {"idle", "check"}, event : SUBSET Events, closed : SUBSET AllPeriods, overlap : BOOLEAN]
Closes == [pc : {"idle", "rollups", "tail", "memtable", "commit"}, period : SUBSET AllPeriods,
           from : Nat, total : SUBSET Events]
GetRequests == [pc : {"idle", "rollups", "tail", "memtable"}, period : SUBSET AllPeriods, entry : SUBSET Entries,
                from : Nat, seen : SUBSET Events, owed : SUBSET Events, moved : SUBSET Events]

TypeInv ==
  /\ store \subseteq Events
  /\ memtable \subseteq store /\ flight \subseteq store /\ rolled \subseteq store
  /\ wm \in Nat
  /\ closed \subseteq Entries
  /\ disk \subseteq Entries
  /\ ingest \in [Clients -> Ingests]
  /\ close \in [Closers -> Closes]
  /\ \A k \in Closers : \A p, q \in close[k].period : p = q
  /\ get \in GetRequests
  /\ \A p, q \in get.period : p = q

\* A period has one entry, in memory and on disk.
Single(entries) == \A c, d \in entries : c.period = d.period => c = d
Unique == Single(closed) /\ Single(disk)

\* What a successful save writes stays there, and a close that was answered
\* with success stays known.
Durable ==
  /\ ~dirty => disk = closed
  /\ ~reverted => \A p \in acked : EntriesOf(p, closed) # {}

-----------------------------------------------------------------------------
(* Helpers *)

\* The fields of an entry.
LEMMA EntryFields ==
  ASSUME NEW p, NEW t
  PROVE  /\ Entry(p, t).period = p /\ Entry(p, t).frozen = t /\ Entry(p, t).snapshot = TRUE
         /\ LegacyEntry(p).period = p /\ LegacyEntry(p).frozen = {} /\ LegacyEntry(p).snapshot = FALSE
BY DEF Entry, LegacyEntry

\* A close adds one entry at most, and only if there is none.
LEMMA CloseAdds ==
  ASSUME NEW p, NEW t
  PROVE  /\ closed \subseteq ClosedAfter(p, t)
         /\ \A c \in ClosedAfter(p, t) : c \in closed \/ (c = Entry(p, t) /\ EntriesOf(p, closed) = {})
         /\ EntriesOf(p, ClosedAfter(p, t)) # {}
<1>1. CASE EntriesOf(p, closed) = {}
  <2>1. Entry(p, t) \in EntriesOf(p, ClosedAfter(p, t))
    BY <1>1, EntryFields, Zenon DEF ClosedAfter, EntriesOf
  <2> QED
    BY <1>1, <2>1 DEF ClosedAfter
<1>2. CASE EntriesOf(p, closed) # {}
  BY <1>2 DEF ClosedAfter
<1> QED
  BY <1>1, <1>2

\* More entries, more entries of a period.
LEMMA EntriesGrow ==
  ASSUME NEW S, NEW T, S \subseteq T, NEW p
  PROVE  EntriesOf(p, S) \subseteq EntriesOf(p, T)
BY DEF EntriesOf

\* The requests after a step of a close: only the overlap flag may be raised.
LEMMA OverlappingFacts ==
  ASSUME TypeInv, NEW p
  PROVE  /\ Overlapping(p) \in [Clients -> Ingests]
         /\ \A c \in Clients :
              /\ Overlapping(p)[c].pc = ingest[c].pc
              /\ Overlapping(p)[c].event = ingest[c].event
              /\ Overlapping(p)[c].closed = ingest[c].closed
              /\ ingest[c].overlap => Overlapping(p)[c].overlap
              /\ ingest[c].pc = "check" /\ (\E e \in ingest[c].event : PeriodOf[e] = p)
                   => Overlapping(p)[c].overlap
<1>1. \A r \in Ingests :
        /\ [r EXCEPT !.overlap = TRUE] \in Ingests
        /\ [r EXCEPT !.overlap = TRUE].pc = r.pc
        /\ [r EXCEPT !.overlap = TRUE].event = r.event
        /\ [r EXCEPT !.overlap = TRUE].closed = r.closed
        /\ [r EXCEPT !.overlap = TRUE].overlap = TRUE
  BY Zenon DEF Ingests
<1>2. \A c \in Clients : ingest[c] \in Ingests
  BY DEF TypeInv
<1>3. \A c \in Clients :
        \/ Overlapping(p)[c] = [ingest[c] EXCEPT !.overlap = TRUE]
        \/ Overlapping(p)[c] = ingest[c] /\ ~(ingest[c].pc = "check" /\ \E e \in ingest[c].event : PeriodOf[e] = p)
  BY DEF Overlapping
<1>4. Overlapping(p) = [c \in Clients |-> Overlapping(p)[c]]
  BY DEF Overlapping
<1>5. \A c \in Clients : Overlapping(p)[c] \in Ingests
  BY <1>1, <1>2, <1>3, Zenon
<1>6. Overlapping(p) \in [Clients -> Ingests]
  BY <1>4, <1>5, Zenon
<1>7. ASSUME NEW c \in Clients
      PROVE  /\ Overlapping(p)[c].pc = ingest[c].pc
             /\ Overlapping(p)[c].event = ingest[c].event
             /\ Overlapping(p)[c].closed = ingest[c].closed
             /\ ingest[c].overlap => Overlapping(p)[c].overlap
             /\ ingest[c].pc = "check" /\ (\E e \in ingest[c].event : PeriodOf[e] = p)
                  => Overlapping(p)[c].overlap
  <2>1. CASE Overlapping(p)[c] = [ingest[c] EXCEPT !.overlap = TRUE]
    <3>1. Overlapping(p)[c].overlap = TRUE
      BY <1>1, <1>2, <2>1, Zenon
    <3>2. /\ Overlapping(p)[c].pc = ingest[c].pc
          /\ Overlapping(p)[c].event = ingest[c].event
          /\ Overlapping(p)[c].closed = ingest[c].closed
      BY <1>1, <1>2, <2>1, Zenon
    <3> QED
      BY <3>1, <3>2, Zenon
  <2>2. CASE Overlapping(p)[c] = ingest[c] /\ ~(ingest[c].pc = "check" /\ \E e \in ingest[c].event : PeriodOf[e] = p)
    BY <2>2, Zenon
  <2> QED
    BY <1>3, <2>1, <2>2, Zenon
<1> QED
  BY <1>6, <1>7, Zenon

-----------------------------------------------------------------------------
(* Which steps change what *)

\* A step of the rollup worker, and a crash with the restart.
Tick == \E to \in 1..MaxWatermark, found \in SUBSET Segments : TickCommit(to, found)
Restart == \E from \in 0..MaxWatermark : Crash(from)
Flush == \E batch \in SUBSET flight : FlushCommit(batch)

\* Events move when they are accepted, drained, flushed or rolled up, and in a restart.
LEMMA EventsChange ==
  ASSUME [Next]_vars
  PROVE  \/ UNCHANGED <<store, memtable, flight, rolled, wm>>
         \/ \E c \in Clients : IngestAccept(c)
         \/ DrainMemtable \/ Flush \/ Tick \/ Restart
BY Zenon DEF Next, vars, dataVars, Flush, Tick, Restart, IngestSnapshot, CloseStart, CloseRollups, CloseTail,
   CloseMemtable, CloseCommit, CloseSaveFails, ReopenPeriod, OtherSave, GetEntry, GetRollups, GetTail, GetAnswer

\* Every step leaves the entries alone, or is one of these.
LEMMA EntriesChange ==
  ASSUME [Next]_vars
  PROVE  \/ UNCHANGED <<closed, disk>>
         \/ \E k \in Closers : CloseCommit(k) \/ CloseSaveFails(k)
         \/ \E p \in AllPeriods : ReopenPeriod(p)
         \/ OtherSave
         \/ Restart
BY Zenon DEF Next, vars, entryVars, Restart, IngestSnapshot, IngestAccept, DrainMemtable, FlushCommit, TickCommit,
   CloseStart, CloseRollups, CloseTail, CloseMemtable, GetEntry, GetRollups, GetTail, GetAnswer

\* The ingest requests change in their own steps and in those of a close.
LEMMA IngestChange ==
  ASSUME [Next]_vars
  PROVE  \/ UNCHANGED ingest
         \/ \E c \in Clients, e \in Events : IngestSnapshot(c, e)
         \/ \E c \in Clients : IngestAccept(c)
         \/ \E k \in Closers : CloseMemtable(k) \/ CloseCommit(k) \/ CloseSaveFails(k)
         \/ Restart
BY Zenon DEF Next, vars, Restart, DrainMemtable, FlushCommit, TickCommit, CloseStart, CloseRollups, CloseTail,
   ReopenPeriod, OtherSave, GetEntry, GetRollups, GetTail, GetAnswer

\* The close requests change in their own steps.
LEMMA CloseChange ==
  ASSUME [Next]_vars
  PROVE  \/ UNCHANGED close
         \/ \E k \in Closers, p \in AllPeriods : CloseStart(k, p)
         \/ \E k \in Closers : CloseRollups(k) \/ CloseTail(k) \/ CloseMemtable(k)
         \/ \E k \in Closers : CloseCommit(k) \/ CloseSaveFails(k)
         \/ Restart
BY Zenon DEF Next, vars, Restart, IngestSnapshot, IngestAccept, DrainMemtable, FlushCommit, TickCommit,
   ReopenPeriod, OtherSave, GetEntry, GetRollups, GetTail, GetAnswer

\* The get request changes in its own steps and in a drain.
LEMMA GetChange ==
  ASSUME [Next]_vars
  PROVE  \/ UNCHANGED get
         \/ \E p \in AllPeriods : GetEntry(p)
         \/ GetRollups \/ GetTail \/ GetAnswer \/ DrainMemtable
         \/ Restart
BY Zenon DEF Next, vars, Restart, IngestSnapshot, IngestAccept, FlushCommit, TickCommit, CloseStart, CloseRollups,
   CloseTail, CloseMemtable, CloseCommit, CloseSaveFails, ReopenPeriod, OtherSave

-----------------------------------------------------------------------------
(* Types *)

\* The requests that are not in progress are well typed.
LEMMA IdleTypes ==
  /\ IdleIngest \in Ingests /\ IdleIngest.pc = "idle"
  /\ IdleClose \in Closes /\ IdleClose.pc = "idle" /\ IdleClose.period = {} /\ IdleClose.total = {}
  /\ IdleGet \in GetRequests /\ IdleGet.pc = "idle" /\ IdleGet.period = {}
<1>1. IdleIngest \in Ingests /\ IdleIngest.pc = "idle"
  BY DEF IdleIngest, Ingests
<1>2. IdleClose \in Closes /\ IdleClose.pc = "idle" /\ IdleClose.period = {} /\ IdleClose.total = {}
  BY DEF IdleClose, Closes
<1>3. IdleGet \in GetRequests /\ IdleGet.pc = "idle" /\ IdleGet.period = {}
  BY DEF IdleGet, GetRequests
<1> QED
  BY <1>1, <1>2, <1>3, Zenon

\* A fresh database is well typed.
LEMMA InitType == Init => TypeInv
<1> SUFFICES ASSUME Init PROVE TypeInv
  OBVIOUS
<1>1. closed \subseteq Entries
  <2>1. \A p \in AllPeriods : LegacyEntry(p) \in Entries
    BY DEF Entries, LegacyEntry
  <2> QED
    BY <2>1, PeriodsAssumption DEF Init
<1> QED
  BY <1>1, IdleTypes DEF Init, TypeInv

\* What a step of a close does to the close requests.
LEMMA CloseMoves ==
  ASSUME TypeInv, NEW k \in Closers, NEW r \in Closes, \A p, q \in r.period : p = q,
         close' = [close EXCEPT ![k] = r]
  PROVE  /\ close' \in [Closers -> Closes]
         /\ \A j \in Closers : \A p, q \in close'[j].period : p = q
         /\ close'[k] = r
         /\ \A j \in Closers \ {k} : close'[j] = close[j]
<1>1. close' = [j \in Closers |-> IF j = k THEN r ELSE close[j]]
  BY Zenon DEF TypeInv
<1>2. close' \in [Closers -> Closes] /\ close'[k] = r /\ \A j \in Closers \ {k} : close'[j] = close[j]
  BY <1>1 DEF TypeInv
<1>3. ASSUME NEW j \in Closers PROVE \A p, q \in close'[j].period : p = q
  BY <1>2, Zenon DEF TypeInv
<1> QED
  BY <1>2, <1>3, Zenon

\* The totals of a close after each of the reads of its query.
LEMMA CloseReads ==
  ASSUME TypeInv, NEW k \in Closers, CloseRollups(k) \/ CloseTail(k) \/ CloseMemtable(k)
  PROVE  \E p \in close[k].period, r \in Closes :
           /\ close' = [close EXCEPT ![k] = r]
           /\ r.period = {p}
           /\ \/ /\ CloseRollups(k) /\ close[k].pc = "rollups" /\ ingest' = ingest /\ moved' = moved
                 /\ r.pc = "tail" /\ r.from = wm /\ r.total = RollupRows(p)
              \/ /\ CloseTail(k) /\ close[k].pc = "tail" /\ ingest' = ingest
                 /\ moved' = moved \cup InPeriod(flight \cap UsageEvents, p)
                 /\ r.pc = "memtable" /\ r.from = close[k].from
                 /\ r.total = close[k].total \cup TailRows(Segments, p, close[k].from)
              \/ /\ CloseMemtable(k) /\ close[k].pc = "memtable" /\ ingest' = Overlapping(p) /\ moved' = moved
                 /\ r.pc = "commit"
                 /\ r.total = close[k].total \cup TailRows(memtable, p, close[k].from)
<1>0. /\ close[k] \in Closes /\ close[k].total \subseteq Events /\ close[k].from \in Nat /\ close[k].period \subseteq AllPeriods
      /\ wm \in Nat
  BY DEF TypeInv, Closes
<1>1. CASE CloseRollups(k)
  <2>1. PICK p \in close[k].period :
          close' = [close EXCEPT ![k] = [pc |-> "tail", period |-> {p}, from |-> wm, total |-> RollupRows(p)]]
    BY <1>1, Zenon DEF CloseRollups
  <2> DEFINE r == [pc |-> "tail", period |-> {p}, from |-> wm, total |-> RollupRows(p)]
  <2>2. RollupRows(p) \subseteq Events /\ p \in AllPeriods
    BY <1>0 DEF RollupRows, InPeriod, TypeInv
  <2>3. r \in Closes /\ r.pc = "tail" /\ r.period = {p} /\ r.from = wm /\ r.total = RollupRows(p)
    BY <1>0, <2>2 DEF Closes
  <2>4. close[k].pc = "rollups" /\ ingest' = ingest /\ moved' = moved
    BY <1>1 DEF CloseRollups, lossVars
  <2> HIDE DEF r
  <2> QED
    BY <1>1, <2>1, <2>3, <2>4, Zenon DEF r
<1>2. CASE CloseTail(k)
  <2>1. PICK p \in close[k].period :
          /\ close' = [close EXCEPT ![k] = [pc |-> "memtable", period |-> {p}, from |-> close[k].from,
                                            total |-> close[k].total \cup TailRows(Segments, p, close[k].from)]]
          /\ moved' = moved \cup InPeriod(flight \cap UsageEvents, p)
    BY <1>2, Zenon DEF CloseTail
  <2> DEFINE t == close[k].total \cup TailRows(Segments, p, close[k].from)
             r == [pc |-> "memtable", period |-> {p}, from |-> close[k].from, total |-> t]
  <2>2. t \subseteq Events /\ p \in AllPeriods
    BY <1>0 DEF TailRows, InPeriod, Segments, TypeInv
  <2>3. close[k].pc = "tail" /\ ingest' = ingest
    BY <1>2 DEF CloseTail
  <2>4. close' = [close EXCEPT ![k] = r]
    BY <2>1, Zenon
  <2>5. t = close[k].total \cup TailRows(Segments, p, close[k].from)
    OBVIOUS
  <2> HIDE DEF t
  <2>6. r \in Closes /\ r.pc = "memtable" /\ r.period = {p} /\ r.from = close[k].from /\ r.total = t
    BY <1>0, <2>2 DEF Closes
  <2> HIDE DEF r
  <2> QED
    BY <1>2, <2>1, <2>3, <2>4, <2>5, <2>6, Zenon
<1>3. CASE CloseMemtable(k)
  <2>1. PICK p \in close[k].period :
          /\ close' = [close EXCEPT ![k] = [pc |-> "commit", period |-> {p}, from |-> 0,
                                            total |-> close[k].total \cup TailRows(memtable, p, close[k].from)]]
          /\ ingest' = Overlapping(p)
    BY <1>3, Zenon DEF CloseMemtable
  <2> DEFINE t == close[k].total \cup TailRows(memtable, p, close[k].from)
             r == [pc |-> "commit", period |-> {p}, from |-> 0, total |-> t]
  <2>2. t \subseteq Events /\ p \in AllPeriods
    BY <1>0 DEF TailRows, InPeriod, TypeInv
  <2>3. close[k].pc = "memtable" /\ moved' = moved
    BY <1>3 DEF CloseMemtable, lossVars
  <2>4. close' = [close EXCEPT ![k] = r]
    BY <2>1, Zenon
  <2>5. t = close[k].total \cup TailRows(memtable, p, close[k].from)
    OBVIOUS
  <2> HIDE DEF t
  <2>6. r \in Closes /\ r.pc = "commit" /\ r.period = {p} /\ r.total = t
    BY <1>0, <2>2 DEF Closes
  <2> HIDE DEF r
  <2> QED
    BY <1>3, <2>1, <2>3, <2>4, <2>5, <2>6, Zenon
<1> QED
  BY <1>1, <1>2, <1>3

\* The get request after each of its steps.
LEMMA GetMoves ==
  ASSUME TypeInv
  PROVE  /\ \A p \in AllPeriods : GetEntry(p) =>
              /\ get' \in GetRequests
              /\ get'.period = {p} /\ get'.entry = EntriesOf(p, closed) /\ get'.owed = InPeriod(store, p)
              /\ get'.pc = (IF Live(EntriesOf(p, closed)) THEN "rollups" ELSE "tail") /\ get'.from = 0
         /\ GetRollups => \E p \in get.period :
              /\ get' \in GetRequests
              /\ get'.period = get.period /\ get'.entry = get.entry /\ get'.owed = get.owed
              /\ get.pc = "rollups" /\ get'.pc = "tail" /\ get'.from = wm /\ get'.seen = RollupRows(p)
         /\ GetTail => \E p \in get.period :
              /\ get' \in GetRequests
              /\ get'.period = get.period /\ get'.entry = get.entry /\ get'.owed = get.owed
              /\ get.pc = "tail" /\ get'.pc = "memtable" /\ get'.from = get.from
              /\ get'.seen = get.seen \cup TailRows(Segments, p, get.from)
              /\ get'.moved = InPeriod(flight, p)
         /\ DrainMemtable =>
              \/ get.pc # "memtable" /\ get' = get
              \/ /\ get' \in GetRequests
                 /\ get'.period = get.period /\ get'.entry = get.entry /\ get'.owed = get.owed
                 /\ get.pc = "memtable" /\ get'.pc = "memtable" /\ get'.from = get.from /\ get'.seen = get.seen
                 /\ get'.moved = get.moved \cup memtable
<1>0. /\ get = [pc |-> get.pc, period |-> get.period, entry |-> get.entry, from |-> get.from,
                seen |-> get.seen, owed |-> get.owed, moved |-> get.moved]
      /\ get.pc \in {"idle", "rollups", "tail", "memtable"} /\ get.period \subseteq AllPeriods
      /\ get.entry \subseteq Entries /\ get.from \in Nat /\ get.seen \subseteq Events
      /\ get.owed \subseteq Events /\ get.moved \subseteq Events
  BY DEF TypeInv, GetRequests
<1>1. ASSUME NEW p \in AllPeriods, GetEntry(p)
      PROVE  /\ get' \in GetRequests
             /\ get'.period = {p} /\ get'.entry = EntriesOf(p, closed) /\ get'.owed = InPeriod(store, p)
             /\ get'.pc = (IF Live(EntriesOf(p, closed)) THEN "rollups" ELSE "tail") /\ get'.from = 0
  <2> DEFINE f == IF Live(EntriesOf(p, closed)) THEN "rollups" ELSE "tail"
             cs == EntriesOf(p, closed)
             es == InPeriod(store, p)
  <2>1. f \in {"rollups", "tail"} /\ cs \subseteq Entries /\ es \subseteq Events
    BY DEF TypeInv, EntriesOf, InPeriod
  <2>2. get' = [IdleGet EXCEPT !.pc = f, !.period = {p}, !.entry = cs, !.owed = es]
    BY <1>1, Zenon DEF GetEntry
  <2> HIDE DEF f, cs, es
  <2>3. get' = [pc |-> f, period |-> {p}, entry |-> cs, from |-> 0, seen |-> {}, owed |-> es, moved |-> {}]
    BY <2>2, Zenon DEF IdleGet
  <2>4. get' \in GetRequests /\ get'.period = {p} /\ get'.entry = cs /\ get'.owed = es /\ get'.pc = f /\ get'.from = 0
    BY <2>1, <2>3 DEF GetRequests
  <2> QED
    BY <2>4, Zenon DEF f, cs, es
<1>2. ASSUME GetRollups
      PROVE  \E p \in get.period :
               /\ get' \in GetRequests
               /\ get'.period = get.period /\ get'.entry = get.entry /\ get'.owed = get.owed
               /\ get.pc = "rollups" /\ get'.pc = "tail" /\ get'.from = wm /\ get'.seen = RollupRows(p)
  <2>1. PICK p \in get.period : get' = [get EXCEPT !.pc = "tail", !.from = wm, !.seen = RollupRows(p)]
    BY <1>2, Zenon DEF GetRollups
  <2> DEFINE es == RollupRows(p)
  <2>2. es \subseteq Events /\ wm \in Nat
    BY DEF RollupRows, InPeriod, TypeInv
  <2>3. get' = [get EXCEPT !.pc = "tail", !.from = wm, !.seen = es]
    BY <2>1, Zenon
  <2> HIDE DEF es
  <2>4. get' = [pc |-> "tail", period |-> get.period, entry |-> get.entry, from |-> wm, seen |-> es,
                owed |-> get.owed, moved |-> get.moved]
    BY <1>0, <2>3
  <2>5. /\ get' \in GetRequests
        /\ get'.period = get.period /\ get'.entry = get.entry /\ get'.owed = get.owed
        /\ get'.pc = "tail" /\ get'.from = wm /\ get'.seen = es
    BY <1>0, <2>2, <2>4 DEF GetRequests
  <2>6. get.pc = "rollups"
    BY <1>2, Zenon DEF GetRollups
  <2> QED
    BY <2>5, <2>6, Zenon DEF es
<1>3. ASSUME GetTail
      PROVE  \E p \in get.period :
               /\ get' \in GetRequests
               /\ get'.period = get.period /\ get'.entry = get.entry /\ get'.owed = get.owed
               /\ get.pc = "tail" /\ get'.pc = "memtable" /\ get'.from = get.from
               /\ get'.seen = get.seen \cup TailRows(Segments, p, get.from)
               /\ get'.moved = InPeriod(flight, p)
  <2>1. PICK p \in get.period :
          get' = [get EXCEPT !.pc = "memtable", !.seen = get.seen \cup TailRows(Segments, p, get.from),
                             !.moved = InPeriod(flight, p)]
    BY <1>3, Zenon DEF GetTail
  <2> DEFINE es == get.seen \cup TailRows(Segments, p, get.from)
             ms == InPeriod(flight, p)
  <2>2. es \subseteq Events /\ ms \subseteq Events
    BY <1>0 DEF TailRows, InPeriod, Segments, TypeInv
  <2>3. get' = [get EXCEPT !.pc = "memtable", !.seen = es, !.moved = ms]
    BY <2>1, Zenon
  <2> HIDE DEF es, ms
  <2>4. get' = [pc |-> "memtable", period |-> get.period, entry |-> get.entry, from |-> get.from, seen |-> es,
                owed |-> get.owed, moved |-> ms]
    BY <1>0, <2>3
  <2>5. /\ get' \in GetRequests
        /\ get'.period = get.period /\ get'.entry = get.entry /\ get'.owed = get.owed
        /\ get'.pc = "memtable" /\ get'.from = get.from /\ get'.seen = es /\ get'.moved = ms
    BY <1>0, <2>2, <2>4 DEF GetRequests
  <2>6. get.pc = "tail"
    BY <1>3, Zenon DEF GetTail
  <2> QED
    BY <2>5, <2>6, Zenon DEF es, ms
<1>4. ASSUME DrainMemtable, get.pc = "memtable"
      PROVE  /\ get' \in GetRequests
             /\ get'.period = get.period /\ get'.entry = get.entry /\ get'.owed = get.owed
             /\ get.pc = "memtable" /\ get'.pc = "memtable" /\ get'.from = get.from /\ get'.seen = get.seen
             /\ get'.moved = get.moved \cup memtable
  <2> DEFINE ms == get.moved \cup memtable
  <2>1. get' = [get EXCEPT !.moved = ms]
    BY <1>4, Zenon DEF DrainMemtable
  <2>2. ms \subseteq Events
    BY <1>0 DEF TypeInv
  <2> HIDE DEF ms
  <2>3. get' = [pc |-> get.pc, period |-> get.period, entry |-> get.entry, from |-> get.from, seen |-> get.seen,
                owed |-> get.owed, moved |-> ms]
    BY <1>0, <2>1
  <2>4. /\ get' \in GetRequests
        /\ get'.period = get.period /\ get'.entry = get.entry /\ get'.owed = get.owed
        /\ get'.pc = get.pc /\ get'.from = get.from /\ get'.seen = get.seen /\ get'.moved = ms
    BY <1>0, <2>2, <2>3 DEF GetRequests
  <2> QED
    BY <1>4, <2>4, Zenon DEF ms
<1>5. ASSUME DrainMemtable, get.pc # "memtable" PROVE get' = get
  BY <1>5, Zenon DEF DrainMemtable
<1> QED
  <2>1. DrainMemtable =>
              \/ get.pc # "memtable" /\ get' = get
              \/ /\ get' \in GetRequests
                 /\ get'.period = get.period /\ get'.entry = get.entry /\ get'.owed = get.owed
                 /\ get.pc = "memtable" /\ get'.pc = "memtable" /\ get'.from = get.from /\ get'.seen = get.seen
                 /\ get'.moved = get.moved \cup memtable
    BY <1>4, <1>5, Zenon
  <2> QED
    BY <1>1, <1>2, <1>3, <2>1, Zenon

\* Every step preserves the types.
LEMMA StepType == TypeInv /\ [Next]_vars => TypeInv'
<1> SUFFICES ASSUME TypeInv, [Next]_vars PROVE TypeInv'
  OBVIOUS
<1>1. /\ store' \subseteq Events
      /\ memtable' \subseteq store' /\ flight' \subseteq store' /\ rolled' \subseteq store'
      /\ wm' \in Nat
  <2> DEFINE Good == /\ store' \subseteq Events
                     /\ memtable' \subseteq store' /\ flight' \subseteq store' /\ rolled' \subseteq store'
                     /\ wm' \in Nat
  <2>1. CASE UNCHANGED <<store, memtable, flight, rolled, wm>>
    BY <2>1 DEF TypeInv
  <2>2. ASSUME NEW c \in Clients, IngestAccept(c) PROVE Good
    <3>1. UNCHANGED <<flight, rolled, wm>>
      BY <2>2, Zenon DEF IngestAccept
    <3>2. PICK e \in ingest[c].event :
            \/ store' = store /\ memtable' = memtable
            \/ store' = store \cup {e} /\ memtable' = memtable \cup {e}
      BY <2>2, Zenon DEF IngestAccept
    <3>3. e \in Events
      BY DEF TypeInv, Ingests
    <3> QED
      BY <3>1, <3>2, <3>3 DEF TypeInv
  <2>3. CASE DrainMemtable
    BY <2>3 DEF DrainMemtable, TypeInv
  <2>4. CASE Flush
    BY <2>4 DEF Flush, FlushCommit, TypeInv
  <2>5. CASE Tick
    BY <2>5, PeriodsAssumption DEF Tick, TickCommit, Segments, TypeInv
  <2>6. CASE Restart
    BY <2>6, PeriodsAssumption DEF Restart, Crash, TypeInv
  <2> QED
    BY <2>1, <2>2, <2>3, <2>4, <2>5, <2>6, EventsChange
<1>2. closed' \subseteq Entries /\ disk' \subseteq Entries
  <2>1. CASE UNCHANGED <<closed, disk>>
    BY <2>1 DEF TypeInv
  <2>2. ASSUME NEW k \in Closers, CloseCommit(k) \/ CloseSaveFails(k)
        PROVE  closed' \subseteq Entries /\ disk' \subseteq Entries
    <3>1. PICK p \in close[k].period : closed' = ClosedAfter(p, close[k].total)
      BY <2>2, Zenon DEF CloseCommit, CloseSaveFails
    <3>2. Entry(p, close[k].total) \in Entries
      BY DEF TypeInv, Closes, Entry, Entries
    <3>3. closed' \subseteq Entries
      BY <3>1, <3>2 DEF ClosedAfter, TypeInv
    <3>4. disk' = disk \/ disk' = closed'
      BY <2>2 DEF CloseCommit, CloseSaveFails, Saved
    <3> QED
      BY <3>3, <3>4 DEF TypeInv
  <2>3. ASSUME NEW p \in AllPeriods, ReopenPeriod(p) PROVE closed' \subseteq Entries /\ disk' \subseteq Entries
    BY <2>3 DEF ReopenPeriod, Saved, TypeInv
  <2>4. CASE OtherSave
    BY <2>4 DEF OtherSave, TypeInv
  <2>5. CASE Restart
    BY <2>5 DEF Restart, Crash, TypeInv
  <2> QED
    BY <2>1, <2>2, <2>3, <2>4, <2>5, EntriesChange
<1>3. ingest' \in [Clients -> Ingests]
  <2>1. CASE UNCHANGED ingest
    BY <2>1 DEF TypeInv
  <2>2. ASSUME NEW c \in Clients, NEW e \in Events, IngestSnapshot(c, e) PROVE ingest' \in [Clients -> Ingests]
    <3>1. Closing(PeriodOf[e]) \in BOOLEAN
      BY DEF Closing
    <3>2. {d.period : d \in closed} \subseteq AllPeriods
      BY DEF TypeInv, Entries
    <3>3. [pc |-> "check", event |-> {e}, closed |-> {d.period : d \in closed}, overlap |-> Closing(PeriodOf[e])] \in Ingests
      BY <3>1, <3>2, Zenon DEF Ingests
    <3> QED
      BY <2>2, <3>3, Zenon DEF IngestSnapshot, TypeInv
  <2>3. ASSUME NEW c \in Clients, IngestAccept(c) PROVE ingest' \in [Clients -> Ingests]
    BY <2>3, IdleTypes DEF IngestAccept, TypeInv
  <2>4. ASSUME NEW k \in Closers, CloseMemtable(k) \/ CloseCommit(k) \/ CloseSaveFails(k)
        PROVE  ingest' \in [Clients -> Ingests]
    <3>1. PICK p : ingest' = Overlapping(p)
      BY <2>4, Zenon DEF CloseMemtable, CloseCommit, CloseSaveFails
    <3> QED
      BY <3>1, OverlappingFacts, Zenon
  <2>5. CASE Restart
    BY <2>5, IdleTypes DEF Restart, Crash
  <2> QED
    BY <2>1, <2>2, <2>3, <2>4, <2>5, IngestChange
<1>4. close' \in [Closers -> Closes] /\ \A j \in Closers : \A p, q \in close'[j].period : p = q
  <2> DEFINE Good == close' \in [Closers -> Closes] /\ \A j \in Closers : \A p, q \in close'[j].period : p = q
  <2>1. CASE UNCHANGED close
    BY <2>1 DEF TypeInv
  <2>2. ASSUME NEW k \in Closers, NEW p \in AllPeriods, CloseStart(k, p) PROVE Good
    <3>1. CASE close' = close
      BY <3>1 DEF TypeInv
    <3>2. CASE close' = [close EXCEPT ![k] = [IdleClose EXCEPT !.pc = "rollups", !.period = {p}]]
      <4>1. /\ [IdleClose EXCEPT !.pc = "rollups", !.period = {p}] \in Closes
            /\ [IdleClose EXCEPT !.pc = "rollups", !.period = {p}].period = {p}
        BY Zenon DEF IdleClose, Closes
      <4>2. \A q, r \in [IdleClose EXCEPT !.pc = "rollups", !.period = {p}].period : q = r
        BY <4>1
      <4> QED
        BY <3>2, <4>1, <4>2, CloseMoves, Zenon
    <3> QED
      BY <2>2, <3>1, <3>2 DEF CloseStart
  <2>3. ASSUME NEW k \in Closers, CloseRollups(k) \/ CloseTail(k) \/ CloseMemtable(k) PROVE Good
    <3>1. PICK p \in close[k].period, r \in Closes : close' = [close EXCEPT ![k] = r] /\ r.period = {p}
      BY <2>3, CloseReads, Zenon
    <3>2. \A q, t \in r.period : q = t
      BY <3>1
    <3> QED
      BY <3>1, <3>2, CloseMoves, Zenon
  <2>4. ASSUME NEW k \in Closers, CloseCommit(k) \/ CloseSaveFails(k) PROVE Good
    <3>1. close' = [close EXCEPT ![k] = IdleClose]
      BY <2>4, Zenon DEF CloseCommit, CloseSaveFails
    <3>2. \A q, t \in IdleClose.period : q = t
      BY IdleTypes
    <3> QED
      BY <3>1, <3>2, IdleTypes, CloseMoves, Zenon
  <2>5. CASE Restart
    BY <2>5, IdleTypes DEF Restart, Crash
  <2>6. (\E k \in Closers, p \in AllPeriods : CloseStart(k, p)) => Good
    BY <2>2, Zenon
  <2> QED
    BY <2>1, <2>6, <2>3, <2>4, <2>5, CloseChange, Zenon
<1>5. get' \in GetRequests /\ \A p, q \in get'.period : p = q
  <2>1. CASE UNCHANGED get
    BY <2>1 DEF TypeInv
  <2>2. ASSUME NEW p \in AllPeriods, GetEntry(p) PROVE get' \in GetRequests /\ \A q, r \in get'.period : q = r
    <3>1. get' \in GetRequests /\ get'.period = {p}
      BY <2>2, GetMoves, Zenon
    <3> QED
      BY <3>1
  <2>3. CASE GetRollups \/ GetTail \/ DrainMemtable
    <3>1. get' \in GetRequests /\ get'.period = get.period
      BY <2>3, GetMoves, Zenon DEF TypeInv
    <3> QED
      BY <3>1 DEF TypeInv
  <2>4. CASE GetAnswer \/ Restart
    <3>1. get' = IdleGet
      BY <2>4, Zenon DEF GetAnswer, Restart, Crash
    <3> QED
      BY <3>1, IdleTypes
  <2> QED
    BY <2>1, <2>2, <2>3, <2>4, GetChange, Zenon
<1> QED
  BY <1>1, <1>2, <1>3, <1>4, <1>5, Zenon DEF TypeInv

-----------------------------------------------------------------------------
(* Entries in memory and on disk *)

\* A fresh database has no entry twice, in memory or on disk.
LEMMA InitUnique == Init => Unique /\ Durable
<1> SUFFICES ASSUME Init PROVE Unique /\ Durable
  OBVIOUS
<1>1. Single(closed)
  <2>1. \A c \in closed : c = LegacyEntry(c.period)
    BY DEF Init, LegacyEntry
  <2> QED
    BY <2>1, Zenon DEF Single
<1>2. \A p \in LegacyClosed : LegacyEntry(p) \in EntriesOf(p, closed)
  BY EntryFields, Zenon DEF Init, EntriesOf
<1>3. disk = closed /\ acked = LegacyClosed
  BY DEF Init
<1>4. \A p \in acked : EntriesOf(p, closed) # {}
  BY <1>2, <1>3
<1> QED
  BY <1>1, <1>3, <1>4, Zenon DEF Unique, Durable

\* No step adds a second entry for a period.
LEMMA StepUnique ==
  ASSUME Unique, [Next]_vars
  PROVE  Unique'
<1> USE DEF Unique, Single
<1>1. CASE UNCHANGED <<closed, disk>>
  BY <1>1
<1>2. ASSUME NEW k \in Closers, CloseCommit(k) \/ CloseSaveFails(k) PROVE Unique'
  <2>1. PICK p \in close[k].period : closed' = ClosedAfter(p, close[k].total)
    BY <1>2 DEF CloseCommit, CloseSaveFails
  <2>2. disk' = disk \/ disk' = closed'
    BY <1>2 DEF CloseCommit, CloseSaveFails, Saved
  <2>3. Single(closed)'
    BY <2>1, CloseAdds, EntryFields DEF EntriesOf
  <2> QED
    BY <2>2, <2>3
<1>3. ASSUME NEW p \in AllPeriods, ReopenPeriod(p) PROVE Unique'
  <2>1. closed' \subseteq closed /\ (disk' = disk \/ disk' = closed')
    BY <1>3 DEF ReopenPeriod, Saved
  <2> QED
    BY <2>1
<1>4. CASE OtherSave \/ Restart
  BY <1>4 DEF OtherSave, Restart, Crash
<1> QED
  BY <1>1, <1>2, <1>3, <1>4, EntriesChange

\* Every step keeps the answered closes, and memory and disk equal unless a save failed.
LEMMA StepDurable ==
  ASSUME Durable, [Next]_vars
  PROVE  Durable'
<1> USE DEF Durable
<1>1. ASSUME NEW k \in Closers, CloseCommit(k) PROVE Durable'
  <2>1. PICK p \in close[k].period :
          /\ closed' = ClosedAfter(p, close[k].total)
          /\ disk' = Saved(closed')
          /\ dirty' = (dirty /\ closed' = closed)
          /\ acked' = acked \cup {p}
    BY <1>1, Zenon DEF CloseCommit
  <2>2. ~dirty' => disk' = closed'
    BY <2>1, Zenon DEF Saved
  <2>3. \A q : EntriesOf(q, closed) \subseteq EntriesOf(q, closed')
    BY <2>1, CloseAdds, EntriesGrow
  <2>4. EntriesOf(p, closed') # {}
    BY <2>1, CloseAdds
  <2>5. reverted' = reverted
    BY <1>1, Zenon DEF CloseCommit
  <2>6. ASSUME ~reverted', NEW q \in acked' PROVE EntriesOf(q, closed') # {}
    BY <2>1, <2>3, <2>4, <2>5, <2>6
  <2> QED
    BY <2>2, <2>6, Zenon
<1>2. ASSUME NEW k \in Closers, CloseSaveFails(k) PROVE Durable'
  <2>1. PICK p \in close[k].period : closed' = ClosedAfter(p, close[k].total)
    BY <1>2, Zenon DEF CloseSaveFails
  <2>2. dirty' = TRUE /\ acked' = acked /\ reverted' = reverted
    BY <1>2, Zenon DEF CloseSaveFails
  <2>3. \A q : EntriesOf(q, closed) \subseteq EntriesOf(q, closed')
    BY <2>1, CloseAdds, EntriesGrow
  <2>4. ASSUME ~reverted', NEW q \in acked' PROVE EntriesOf(q, closed') # {}
    BY <2>2, <2>3, <2>4
  <2> QED
    BY <2>2, <2>4, Zenon
<1>3. ASSUME NEW p \in AllPeriods, ReopenPeriod(p) PROVE Durable'
  <2>1. closed' = closed \ EntriesOf(p, closed) /\ acked' = acked \ {p} /\ reverted' = reverted
    BY <1>3, Zenon DEF ReopenPeriod
  <2>2. ~dirty' => disk' = closed'
    BY <1>3, Zenon DEF ReopenPeriod, Saved
  <2>3. \A q : q # p => EntriesOf(q, closed') = EntriesOf(q, closed)
    BY <2>1 DEF EntriesOf
  <2>4. ASSUME ~reverted', NEW q \in acked' PROVE EntriesOf(q, closed') # {}
    BY <2>1, <2>3, <2>4
  <2> QED
    BY <2>2, <2>4, Zenon
<1>4. ASSUME NEW k \in Closers, NEW p \in AllPeriods, CloseStart(k, p) PROVE Durable'
  <2>1. UNCHANGED <<closed, disk, dirty, reverted>>
    BY <1>4, Zenon DEF CloseStart, entryVars
  <2>2. acked' = acked \/ (acked' = acked \cup {p} /\ EntriesOf(p, closed) # {})
    BY <1>4, Zenon DEF CloseStart
  <2>3. ASSUME ~reverted', NEW q \in acked' PROVE EntriesOf(q, closed') # {}
    BY <2>1, <2>2, <2>3
  <2> QED
    BY <2>1, <2>3, Zenon
<1>5. CASE OtherSave
  BY <1>5, Zenon DEF OtherSave
<1>6. CASE Restart
  <2>1. closed' = disk /\ disk' = disk /\ acked' = acked
    BY <1>6, Zenon DEF Restart, Crash
  <2>2. ~reverted' => ~reverted /\ closed' = closed
    BY <1>6, Zenon DEF Restart, Crash
  <2> QED
    BY <2>1, <2>2, Zenon
<1>7. CASE UNCHANGED <<closed, disk, dirty, reverted, acked>>
  BY <1>7, Zenon
<1> QED
  <2>1. ASSUME NEW k \in Closers, NEW p \in AllPeriods PROVE CloseStart(k, p) => Durable'
    BY <1>4
  <2> QED
    BY <1>1, <1>2, <1>3, <2>1, <1>5, <1>6, <1>7, Zenon
       DEF Next, vars, entryVars, Restart, IngestSnapshot, IngestAccept, DrainMemtable, FlushCommit, TickCommit,
           CloseRollups, CloseTail, CloseMemtable, GetEntry, GetRollups, GetTail, GetAnswer

-----------------------------------------------------------------------------
(***************************************************************************)
(* Closed billing periods, for any number of periods, events, concurrent   *)
(* ingest and close requests, reopens, failed saves and crashes.           *)
(*                                                                         *)
(* That the frozen total has the usage is not inductive: a request that    *)
(* passed its check before the close can still add usage after it, and a   *)
(* query reads rollups, segments and memtable one after the other.  The    *)
(* invariant follows the requests in flight: one whose event can still be  *)
(* accepted either overlaps a close of the period, or no close of it has   *)
(* taken its totals yet.  And it follows the queries: what lies below the  *)
(* watermark they started from has been read or is late, and what lies     *)
(* above it has been read, is in the memtable, or has been seen moving.    *)
(***************************************************************************)

\* Below the watermark an event is in a rollup, or late.
Rollups == \A e \in store : Ts[e] < wm => e \in rolled \cup late

\* A total sums accepted events of its period, and no others.
Genuine ==
  /\ \A c \in closed \cup disk : \A e \in c.frozen : e \in store /\ PeriodOf[e] = c.period
  /\ \A k \in Closers : \A p \in close[k].period : \A e \in close[k].total : e \in store /\ PeriodOf[e] = p

\* A close in the middle of its query.
ReadingOf(k) ==
  \A p \in close[k].period :
    /\ close[k].pc \in {"tail", "memtable"} =>
         /\ close[k].from <= wm
         /\ \A e \in InPeriod(store, p) : Ts[e] < close[k].from => e \in close[k].total \cup late
    /\ close[k].pc = "memtable" =>
         \A e \in InPeriod(store \cap UsageEvents, p) :
           Ts[e] >= close[k].from => e \in close[k].total \cup memtable \cup moved
Reading == \A k \in Closers : ReadingOf(k)

\* The usage of a period that its totals must have.
Usage(p) == InPeriod(store \cap UsageEvents, p) \ (raced \cup moved \cup late)

\* Totals have all the usage, whether they are committed or about to be.
CompleteOf(k) == close[k].pc = "commit" => \A p \in close[k].period : Usage(p) \subseteq close[k].total
Totals ==
  /\ ~reverted => \A c \in closed : c.snapshot => Usage(c.period) \subseteq c.frozen
  /\ \A k \in Closers : CompleteOf(k)

\* Usage that may still be accepted overlaps the close, or there is none.
InFlight ==
  \A c \in Clients : ingest[c].pc = "check" =>
    \A e \in ingest[c].event \cap UsageEvents :
      \/ ingest[c].overlap
      \/ PeriodOf[e] \in ingest[c].closed
      \/ EntriesOf(PeriodOf[e], closed) = {} /\ ~Closing(PeriodOf[e])

\* A get in progress owes what is in the entry it copied, what its query has
\* read or what it has yet to read.
Gets ==
  \A p \in get.period :
    /\ get.owed \subseteq InPeriod(store, p)
    /\ get.pc = "rollups" => Live(get.entry)
    /\ ~Live(get.entry) =>
         /\ get.from = 0
         /\ ~reverted => (get.owed \cap UsageEvents) \ (raced \cup moved \cup late) \subseteq FrozenOf(get.entry)
    /\ get.pc \in {"tail", "memtable"} =>
         \A e \in get.owed : Ts[e] < get.from => e \in get.seen \cup late
    /\ get.pc = "memtable" =>
         \A e \in get.owed : Ts[e] >= get.from => e \in get.seen \cup memtable \cup get.moved

\* The inductive invariant of closing, reopening and reading periods while
\* events come in and move on (handle_ingest, handle_close_period,
\* handle_get_period, collect_rollup_then_raw_tail).
PeriodsInv == TypeInv /\ Unique /\ Durable /\ Rollups /\ Genuine /\ Reading /\ Totals /\ InFlight /\ Gets

-----------------------------------------------------------------------------
(* Events on their way *)

\* Where the events go while the server runs: none is lost, a new one is in the
\* memtable, and one that leaves the memtable is marked as moved for the queries
\* that have yet to read it.
LEMMA EventsKept ==
  ASSUME TypeInv, [Next]_vars, ~Restart
  PROVE  /\ wm <= wm' /\ store \subseteq store'
         /\ \A e \in store' : e \in store \/ (e \in memtable' /\ (Ts[e] < wm => e \in late'))
         /\ \A e \in memtable : \/ e \in memtable'
                                \/ /\ \A k \in Closers : close[k].pc = "memtable" /\ PeriodOf[e] \in close[k].period
                                                           /\ e \in UsageEvents => e \in moved'
                                   /\ get.pc = "memtable" => e \in get'.moved
<1> DEFINE Kept == /\ wm <= wm' /\ store \subseteq store'
                   /\ \A e \in store' : e \in store \/ (e \in memtable' /\ (Ts[e] < wm => e \in late'))
                   /\ \A e \in memtable : \/ e \in memtable'
                                          \/ /\ \A k \in Closers : close[k].pc = "memtable" /\ PeriodOf[e] \in close[k].period
                                                                     /\ e \in UsageEvents => e \in moved'
                                             /\ get.pc = "memtable" => e \in get'.moved
<1>0. wm \in Nat
  BY DEF TypeInv
<1>1. CASE UNCHANGED <<store, memtable, flight, rolled, wm>>
  BY <1>0, <1>1
<1>2. ASSUME NEW c \in Clients, IngestAccept(c) PROVE Kept
  <2>1. wm' = wm
    BY <1>2, Zenon DEF IngestAccept
  <2>2. PICK e \in ingest[c].event :
          \/ UNCHANGED <<store, memtable>>
          \/ /\ store' = store \cup {e}
             /\ memtable' = memtable \cup {e}
             /\ late' = IF Ts[e] < wm THEN late \cup {e} ELSE late
    BY <1>2, Zenon DEF IngestAccept
  <2>3. memtable \subseteq memtable' /\ store \subseteq store'
    BY <2>2
  <2>4. \A f \in store' : f \in store \/ (f \in memtable' /\ (Ts[f] < wm => f \in late'))
    BY <2>2
  <2> QED
    BY <1>0, <2>1, <2>3, <2>4
<1>3. CASE DrainMemtable
  <2>1. wm' = wm /\ store' = store
    BY <1>3, Zenon DEF DrainMemtable
  <2>2. moved' = moved \cup {e \in memtable \cap UsageEvents :
                               \E k \in Closers : close[k].pc = "memtable" /\ PeriodOf[e] \in close[k].period}
    BY <1>3, Zenon DEF DrainMemtable
  <2>3. get.pc = "memtable" => get'.moved = get.moved \cup memtable
    BY <1>3, GetMoves, Zenon
  <2>4. \A e \in memtable, k \in Closers :
          close[k].pc = "memtable" /\ PeriodOf[e] \in close[k].period /\ e \in UsageEvents => e \in moved'
    BY <2>2
  <2>5. get.pc = "memtable" => memtable \subseteq get'.moved
    BY <2>3
  <2> QED
    BY <1>0, <2>1, <2>4, <2>5
<1>4. CASE Flush
  BY <1>0, <1>4 DEF Flush, FlushCommit
<1>5. CASE Tick
  BY <1>0, <1>5 DEF Tick, TickCommit
<1> QED
  BY <1>1, <1>2, <1>3, <1>4, <1>5, EventsChange

\* What a query may have missed is not forgotten, and neither is a revert.
LEMMA HistoryKept ==
  ASSUME [Next]_vars
  PROVE  /\ store \subseteq store' /\ raced \subseteq raced' /\ late \subseteq late' /\ moved \subseteq moved'
         /\ ~reverted' => ~reverted
<1> DEFINE Kept == /\ store \subseteq store' /\ raced \subseteq raced' /\ late \subseteq late' /\ moved \subseteq moved'
                   /\ ~reverted' => ~reverted
<1>1. CASE UNCHANGED <<store, raced, late, moved, reverted>>
  BY <1>1, Zenon
<1>2. ASSUME NEW c \in Clients, IngestAccept(c) PROVE Kept
  <2>1. UNCHANGED <<moved, reverted>>
    BY <1>2, Zenon DEF IngestAccept
  <2>2. PICK e \in ingest[c].event :
          \/ UNCHANGED <<store, memtable, raced, late>>
          \/ /\ store' = store \cup {e}
             /\ raced' = IF ingest[c].overlap THEN raced \cup ({e} \cap UsageEvents) ELSE raced
             /\ late' = IF Ts[e] < wm THEN late \cup {e} ELSE late
    BY <1>2, Zenon DEF IngestAccept
  <2>3. store \subseteq store' /\ raced \subseteq raced' /\ late \subseteq late'
    BY <2>2, Zenon
  <2> QED
    BY <2>1, <2>3, Zenon
<1>3. CASE DrainMemtable
  <2>1. UNCHANGED <<store, raced, late, reverted>> /\ moved \subseteq moved'
    BY <1>3, Zenon DEF DrainMemtable
  <2> QED
    BY <2>1, Zenon
<1>4. CASE Tick
  <2>1. UNCHANGED <<store, raced, moved, reverted>> /\ late \subseteq late'
    BY <1>4, Zenon DEF Tick, TickCommit
  <2> QED
    BY <2>1, Zenon
<1>5. ASSUME NEW k \in Closers, CloseTail(k) PROVE Kept
  <2>1. UNCHANGED <<store, raced, late, reverted>> /\ moved \subseteq moved'
    BY <1>5, Zenon DEF CloseTail, dataVars
  <2> QED
    BY <2>1, Zenon
<1>6. CASE Restart
  <2>1. UNCHANGED <<store, raced, late, moved>>
    BY <1>6, Zenon DEF Restart, Crash, lossVars
  <2>2. ~reverted' => ~reverted
    BY <1>6, Zenon DEF Restart, Crash
  <2> QED
    BY <2>1, <2>2, Zenon
<1> QED
  BY <1>1, <1>2, <1>3, <1>4, <1>5, <1>6, Zenon
     DEF Next, vars, dataVars, lossVars, Tick, Restart, IngestSnapshot, FlushCommit, CloseStart, CloseRollups,
         CloseMemtable, CloseCommit, CloseSaveFails, ReopenPeriod, OtherSave, GetEntry, GetRollups, GetTail, GetAnswer

\* No event slips below the watermark without a rollup unless it is late.
LEMMA StepRollups ==
  ASSUME TypeInv, Rollups, [Next]_vars
  PROVE  Rollups'
<1>0. late \subseteq late'
  BY HistoryKept
<1>1. CASE UNCHANGED <<store, memtable, flight, rolled, wm>>
  BY <1>0, <1>1 DEF Rollups
<1>2. ASSUME NEW c \in Clients, IngestAccept(c) PROVE Rollups'
  <2>1. UNCHANGED <<wm, rolled>>
    BY <1>2, Zenon DEF IngestAccept
  <2>2. \A e \in store' : e \in store \/ (Ts[e] < wm => e \in late')
    <3>1. PICK e \in ingest[c].event :
            \/ UNCHANGED <<store, memtable>>
            \/ /\ store' = store \cup {e}
               /\ late' = IF Ts[e] < wm THEN late \cup {e} ELSE late
      BY <1>2, Zenon DEF IngestAccept
    <3> QED
      BY <3>1
  <2> QED
    BY <1>0, <2>1, <2>2 DEF Rollups
<1>3. CASE DrainMemtable \/ Flush
  <2>1. UNCHANGED <<store, rolled, wm>>
    BY <1>3, Zenon DEF DrainMemtable, Flush, FlushCommit
  <2> QED
    BY <1>0, <2>1 DEF Rollups
<1>4. CASE Tick
  <2>1. PICK to : /\ store' = store /\ wm' = to
                  /\ late' = late \cup ({e \in store : Ts[e] < to} \ rolled')
    BY <1>4, Zenon DEF Tick, TickCommit
  <2> QED
    BY <2>1 DEF Rollups
<1>5. CASE Restart
  <2>1. PICK from \in 0..MaxWatermark :
          store' = store /\ wm' = from /\ from <= wm /\ rolled' = {e \in rolled : Ts[e] < from}
    BY <1>5, Zenon DEF Restart, Crash
  <2>2. \A e \in store : Ts[e] \in Nat
    BY PeriodsAssumption DEF TypeInv
  <2>3. wm \in Nat /\ from \in Nat
    BY PeriodsAssumption DEF TypeInv
  <2> QED
    BY <1>0, <2>1, <2>2, <2>3 DEF Rollups
<1> QED
  BY <1>1, <1>2, <1>3, <1>4, <1>5, EventsChange

-----------------------------------------------------------------------------
(* Frozen totals and requests in flight *)

\* What any step does to the close requests: it moves one of them at most, from
\* its start through the reads of its query to the commit and back.
LEMMA CloseSteps ==
  ASSUME TypeInv, [Next]_vars, ~Restart
  PROVE  \/ UNCHANGED close
         \/ \E k \in Closers, r \in Closes :
              /\ close'[k] = r /\ \A j \in Closers \ {k} : close'[j] = close[j]
              /\ UNCHANGED <<store, memtable, flight, rolled, wm>>
              /\ \/ r.pc = "rollups" /\ r.total = {} /\ closed' = closed /\ ingest' = ingest
                 \/ r = IdleClose
                 \/ /\ CloseRollups(k) \/ CloseTail(k) \/ CloseMemtable(k)
                    /\ closed' = closed /\ disk' = disk
<1> DEFINE Moves(k, r) ==
             /\ close'[k] = r /\ \A j \in Closers \ {k} : close'[j] = close[j]
             /\ UNCHANGED <<store, memtable, flight, rolled, wm>>
             /\ \/ r.pc = "rollups" /\ r.total = {} /\ closed' = closed /\ ingest' = ingest
                \/ r = IdleClose
                \/ /\ CloseRollups(k) \/ CloseTail(k) \/ CloseMemtable(k)
                   /\ closed' = closed /\ disk' = disk
           Goal == UNCHANGED close \/ \E k \in Closers, r \in Closes : Moves(k, r)
<1>1. ASSUME NEW k \in Closers, NEW p \in AllPeriods, CloseStart(k, p) PROVE Goal
  <2> DEFINE r == [IdleClose EXCEPT !.pc = "rollups", !.period = {p}]
  <2>1. UNCHANGED <<store, memtable, flight, rolled, wm, closed, ingest>>
    BY <1>1, Zenon DEF CloseStart, dataVars, entryVars
  <2>2. r \in Closes /\ r.pc = "rollups" /\ r.total = {} /\ r.period = {p}
    BY Zenon DEF IdleClose, Closes
  <2>3. close' = close \/ close' = [close EXCEPT ![k] = r]
    BY <1>1, Zenon DEF CloseStart
  <2>4. \A q, t \in r.period : q = t
    BY <2>2
  <2> HIDE DEF r
  <2>5. close' = [close EXCEPT ![k] = r] => close'[k] = r /\ \A j \in Closers \ {k} : close'[j] = close[j]
    BY <2>2, <2>4, CloseMoves
  <2>6. close' = [close EXCEPT ![k] = r] => Moves(k, r)
    BY <2>1, <2>2, <2>5, Zenon
  <2> HIDE DEF Moves
  <2> QED
    BY <2>2, <2>3, <2>6, Zenon
<1>2. ASSUME NEW k \in Closers, CloseRollups(k) \/ CloseTail(k) \/ CloseMemtable(k) PROVE Goal
  <2>1. UNCHANGED <<store, memtable, flight, rolled, wm, closed, disk>>
    BY <1>2, Zenon DEF CloseRollups, CloseTail, CloseMemtable, dataVars, entryVars
  <2>2. PICK p \in close[k].period, r \in Closes : close' = [close EXCEPT ![k] = r] /\ r.period = {p}
    BY <1>2, CloseReads, Zenon
  <2>3. \A q, t \in r.period : q = t
    BY <2>2
  <2>4. close'[k] = r /\ \A j \in Closers \ {k} : close'[j] = close[j]
    BY <2>2, <2>3, CloseMoves, Zenon
  <2>5. Moves(k, r)
    BY <1>2, <2>1, <2>4, Zenon
  <2> HIDE DEF Moves
  <2> QED
    BY <2>5, Zenon
<1>3. ASSUME NEW k \in Closers, CloseCommit(k) \/ CloseSaveFails(k) PROVE Goal
  <2>1. UNCHANGED <<store, memtable, flight, rolled, wm>>
    BY <1>3, Zenon DEF CloseCommit, CloseSaveFails, dataVars
  <2>2. close' = [close EXCEPT ![k] = IdleClose]
    BY <1>3, Zenon DEF CloseCommit, CloseSaveFails
  <2>3. \A q, t \in IdleClose.period : q = t
    BY IdleTypes
  <2>4. close'[k] = IdleClose /\ \A j \in Closers \ {k} : close'[j] = close[j]
    BY <2>2, <2>3, IdleTypes, CloseMoves, Zenon
  <2>5. Moves(k, IdleClose) /\ IdleClose \in Closes
    BY <2>1, <2>4, IdleTypes, Zenon
  <2> HIDE DEF Moves
  <2> QED
    BY <2>5, Zenon
<1> HIDE DEF Moves
<1>4. (\E k \in Closers, p \in AllPeriods : CloseStart(k, p)) => Goal
  BY <1>1, Zenon
<1>5. (\E k \in Closers : CloseRollups(k) \/ CloseTail(k) \/ CloseMemtable(k)) => Goal
  BY <1>2, Zenon
<1>6. (\E k \in Closers : CloseCommit(k) \/ CloseSaveFails(k)) => Goal
  BY <1>3, Zenon
<1>7. Goal
  BY <1>4, <1>5, <1>6, CloseChange, Zenon
<1> QED
  BY <1>7, Zenon DEF Moves

\* Every step keeps totals made of accepted events of their period.
LEMMA StepGenuine ==
  ASSUME TypeInv, Genuine, [Next]_vars
  PROVE  Genuine'
<1>0. store \subseteq store'
  BY HistoryKept
<1>1. \A c \in closed' \cup disk' : \A e \in c.frozen : e \in store' /\ PeriodOf[e] = c.period
  <2> DEFINE Good == \A c \in closed' \cup disk' : \A e \in c.frozen : e \in store' /\ PeriodOf[e] = c.period
  <2>1. CASE closed' \cup disk' \subseteq closed \cup disk
    <3> SUFFICES ASSUME NEW c \in closed' \cup disk', NEW e \in c.frozen PROVE e \in store' /\ PeriodOf[e] = c.period
      OBVIOUS
    <3>1. c \in closed \cup disk
      BY <2>1
    <3>2. e \in store /\ PeriodOf[e] = c.period
      BY <3>1, Zenon DEF Genuine
    <3> QED
      BY <1>0, <3>2
  <2>2. ASSUME NEW k \in Closers, CloseCommit(k) \/ CloseSaveFails(k) PROVE Good
    <3>1. PICK p \in close[k].period : closed' = ClosedAfter(p, close[k].total)
      BY <2>2, Zenon DEF CloseCommit, CloseSaveFails
    <3>2. disk' = disk \/ disk' = closed'
      BY <2>2 DEF CloseCommit, CloseSaveFails, Saved
    <3>3. \A d \in closed' \cup disk' : d \in closed \cup disk \/ d = Entry(p, close[k].total)
      BY <3>1, <3>2, CloseAdds
    <3>4. Entry(p, close[k].total).period = p /\ Entry(p, close[k].total).frozen = close[k].total
      BY DEF Entry
    <3>5. \A e \in close[k].total : e \in store /\ PeriodOf[e] = p
      BY Zenon DEF Genuine
    <3>6. \A d \in closed' \cup disk' : \A e \in d.frozen : e \in store /\ PeriodOf[e] = d.period
      BY <3>3, <3>4, <3>5, Zenon DEF Genuine
    <3> QED
      BY <1>0, <3>6
  <2>3. ASSUME NEW p \in AllPeriods, ReopenPeriod(p) PROVE closed' \cup disk' \subseteq closed \cup disk
    BY <2>3 DEF ReopenPeriod, Saved
  <2>4. CASE OtherSave \/ Restart \/ UNCHANGED <<closed, disk>>
    <3>1. closed' \cup disk' \subseteq closed \cup disk
      BY <2>4 DEF OtherSave, Restart, Crash
    <3> QED
      BY <2>1, <3>1
  <2> QED
    BY <2>1, <2>2, <2>3, <2>4, EntriesChange
<1>2. ASSUME NEW j \in Closers, NEW q \in close'[j].period, NEW e \in close'[j].total
      PROVE  e \in store' /\ PeriodOf[e] = q
  <2>1. CASE Restart
    <3>1. close'[j] = IdleClose
      BY <2>1 DEF Restart, Crash
    <3> QED
      BY <1>2, <3>1, IdleTypes
  <2>2. CASE close'[j] = close[j]
    <3>1. e \in store /\ PeriodOf[e] = q
      BY <1>2, <2>2, Zenon DEF Genuine
    <3> QED
      BY <1>0, <3>1
  <2>3. ASSUME NEW r \in Closes, close'[j] = r, r.total = {} PROVE FALSE
    BY <1>2, <2>3
  <2>4. ASSUME CloseRollups(j) \/ CloseTail(j) \/ CloseMemtable(j), store' = store
        PROVE  e \in store' /\ PeriodOf[e] = q
    <3>1. PICK p \in close[j].period, r \in Closes :
            /\ close' = [close EXCEPT ![j] = r] /\ r.period = {p}
            /\ \/ r.total = RollupRows(p)
               \/ r.total = close[j].total \cup TailRows(Segments, p, close[j].from)
               \/ r.total = close[j].total \cup TailRows(memtable, p, close[j].from)
      BY <2>4, CloseReads, Zenon
    <3>2. close'[j] = r
      BY <3>1 DEF TypeInv
    <3>3. q = p
      BY <1>2, <3>1, <3>2
    <3>4. \A f \in close[j].total : f \in store /\ PeriodOf[f] = p
      BY Zenon DEF Genuine
    <3>5. \A f \in r.total : f \in store /\ PeriodOf[f] = p
      BY <3>1, <3>4 DEF RollupRows, TailRows, InPeriod, Segments, TypeInv
    <3> QED
      BY <1>2, <2>4, <3>2, <3>3, <3>5, Zenon
  <2>5. CASE ~Restart
    <3>1. CASE UNCHANGED close
      BY <2>2, <3>1, Zenon
    <3>2. ASSUME NEW k \in Closers, NEW r \in Closes,
                 close'[k] = r, \A i \in Closers \ {k} : close'[i] = close[i],
                 store' = store,
                 r.total = {} \/ CloseRollups(k) \/ CloseTail(k) \/ CloseMemtable(k)
          PROVE  e \in store' /\ PeriodOf[e] = q
      <4>1. CASE j = k
        BY <3>2, <2>3, <2>4, <4>1, Zenon
      <4>2. CASE j # k
        <5>1. close'[j] = close[j]
          BY <3>2, <4>2
        <5> QED
          BY <2>2, <5>1
      <4> QED
        BY <4>1, <4>2
    <3> QED
      BY <2>5, <3>1, <3>2, CloseSteps, IdleTypes, Zenon
  <2> QED
    BY <2>1, <2>5
<1> QED
  BY <1>1, <1>2, Zenon DEF Genuine

\* A close that does not move keeps what it knows of its query.
LEMMA ReadingKept ==
  ASSUME TypeInv, [Next]_vars, ~Restart, NEW k \in Closers, close'[k] = close[k], ReadingOf(k)
  PROVE  ReadingOf(k)'
<1> SUFFICES ASSUME NEW p \in close[k].period
             PROVE  /\ close[k].pc \in {"tail", "memtable"} =>
                         /\ close[k].from <= wm'
                         /\ \A e \in InPeriod(store', p) : Ts[e] < close[k].from => e \in close[k].total \cup late'
                    /\ close[k].pc = "memtable" =>
                         \A e \in InPeriod(store' \cap UsageEvents, p) :
                           Ts[e] >= close[k].from => e \in close[k].total \cup memtable' \cup moved'
  BY Zenon DEF ReadingOf
<1>0. close[k].from \in Nat /\ wm \in Nat /\ wm' \in Nat
  <2>1. TypeInv'
    BY StepType
  <2> QED
    BY <2>1 DEF TypeInv, Closes
<1>1. late \subseteq late' /\ moved \subseteq moved'
  BY HistoryKept
<1>2. /\ wm <= wm'
      /\ \A e \in store' : e \in store \/ (e \in memtable' /\ (Ts[e] < wm => e \in late'))
      /\ \A e \in memtable : \/ e \in memtable'
                             \/ close[k].pc = "memtable" /\ PeriodOf[e] \in close[k].period /\ e \in UsageEvents => e \in moved'
  BY EventsKept, Zenon
<1>3. \A e \in store' : Ts[e] \in Nat
  <2>1. TypeInv'
    BY StepType
  <2> QED
    BY <2>1, PeriodsAssumption DEF TypeInv
<1>4. ASSUME close[k].pc \in {"tail", "memtable"}
      PROVE  /\ close[k].from <= wm'
             /\ \A e \in InPeriod(store', p) : Ts[e] < close[k].from => e \in close[k].total \cup late'
  <2>1. /\ close[k].from <= wm
        /\ \A e \in InPeriod(store, p) : Ts[e] < close[k].from => e \in close[k].total \cup late
    BY <1>4, Zenon DEF ReadingOf
  <2>2. close[k].from <= wm'
    BY <1>0, <1>2, <2>1
  <2>3. ASSUME NEW e \in InPeriod(store', p), Ts[e] < close[k].from PROVE e \in close[k].total \cup late'
    <3>1. e \in store' /\ PeriodOf[e] = p
      BY DEF InPeriod
    <3>2. CASE e \in store
      <4>1. e \in InPeriod(store, p)
        BY <3>1, <3>2 DEF InPeriod
      <4> QED
        BY <1>1, <2>1, <2>3, <4>1
    <3>3. CASE e \notin store
      <4>1. Ts[e] < wm
        BY <1>0, <1>3, <2>1, <2>3, <3>1
      <4> QED
        BY <1>2, <3>1, <3>3, <4>1
    <3> QED
      BY <3>2, <3>3
  <2> QED
    BY <2>2, <2>3
<1>5. ASSUME close[k].pc = "memtable", NEW e \in InPeriod(store' \cap UsageEvents, p), Ts[e] >= close[k].from
      PROVE  e \in close[k].total \cup memtable' \cup moved'
  <2>1. e \in store' /\ PeriodOf[e] = p /\ e \in UsageEvents
    BY DEF InPeriod
  <2>2. CASE e \in store
    <3>1. e \in InPeriod(store \cap UsageEvents, p)
      BY <2>1, <2>2 DEF InPeriod
    <3>2. e \in close[k].total \cup memtable \cup moved
      BY <1>5, <3>1, Zenon DEF ReadingOf
    <3>3. e \in memtable => e \in memtable' \cup moved'
      BY <1>2, <1>5, <2>1
    <3> QED
      BY <1>1, <3>2, <3>3
  <2>3. CASE e \notin store
    BY <1>2, <2>1, <2>3
  <2> QED
    BY <2>2, <2>3
<1> QED
  BY <1>4, <1>5, Zenon

\* Every step keeps what the closes know of their queries.
LEMMA StepReading ==
  ASSUME TypeInv, Rollups, Reading, [Next]_vars
  PROVE  Reading'
<1>1. CASE Restart
  <2>1. \A k \in Closers : close'[k].period = {}
    BY <1>1, IdleTypes DEF Restart, Crash
  <2> QED
    BY <2>1, Zenon DEF Reading, ReadingOf
<1>2. CASE ~Restart
  <2>1. ASSUME NEW k \in Closers, close'[k].pc \in {"rollups", "idle", "commit"} PROVE ReadingOf(k)'
    BY <2>1 DEF ReadingOf
  <2>2. ASSUME NEW k \in Closers, CloseRollups(k) \/ CloseTail(k) \/ CloseMemtable(k),
               UNCHANGED <<store, memtable, flight, rolled, wm>>
        PROVE  ReadingOf(k)'
    <3>0. /\ \A e \in store : Ts[e] \in Nat
          /\ wm \in Nat /\ close[k].from \in Nat
      BY PeriodsAssumption DEF TypeInv, Closes
    <3>1. PICK p \in close[k].period, r \in Closes :
            /\ close' = [close EXCEPT ![k] = r] /\ r.period = {p}
            /\ \/ /\ r.pc = "tail" /\ r.from = wm /\ r.total = RollupRows(p)
               \/ /\ close[k].pc = "tail" /\ moved' = moved \cup InPeriod(flight \cap UsageEvents, p)
                  /\ r.pc = "memtable" /\ r.from = close[k].from
                  /\ r.total = close[k].total \cup TailRows(Segments, p, close[k].from)
               \/ r.pc = "commit"
      BY <2>2, CloseReads, Zenon
    <3>2. close'[k] = r
      BY <3>1 DEF TypeInv
    <3>3. late \subseteq late'
      BY HistoryKept
    <3>4. CASE r.pc = "commit"
      BY <2>1, <3>2, <3>4
    <3>5. CASE r.pc = "tail" /\ r.from = wm /\ r.total = RollupRows(p)
      <4>1. ASSUME NEW e \in InPeriod(store, p), Ts[e] < wm PROVE e \in RollupRows(p) \cup late
        BY <4>1 DEF Rollups, RollupRows, InPeriod
      <4>2. /\ r.from <= wm'
            /\ \A e \in InPeriod(store', p) : Ts[e] < r.from => e \in r.total \cup late'
        BY <2>2, <3>0, <3>3, <3>5, <4>1
      <4>3. \A q \in r.period : q = p
        BY <3>1
      <4> QED
        BY <3>2, <3>5, <4>2, <4>3 DEF ReadingOf
    <3>6. CASE /\ close[k].pc = "tail" /\ moved' = moved \cup InPeriod(flight \cap UsageEvents, p)
               /\ r.pc = "memtable" /\ r.from = close[k].from
               /\ r.total = close[k].total \cup TailRows(Segments, p, close[k].from)
      <4>1. /\ close[k].from <= wm
            /\ \A e \in InPeriod(store, p) : Ts[e] < close[k].from => e \in close[k].total \cup late
        BY <3>6, Zenon DEF Reading, ReadingOf
      <4>2. /\ r.from <= wm'
            /\ \A e \in InPeriod(store', p) : Ts[e] < r.from => e \in r.total \cup late'
        BY <2>2, <3>3, <3>6, <4>1
      <4>3. ASSUME NEW e \in InPeriod(store \cap UsageEvents, p), Ts[e] >= close[k].from
            PROVE  e \in r.total \cup memtable \cup moved'
        BY <3>6, <4>3 DEF InPeriod, TailRows, Segments
      <4>4. \A e \in InPeriod(store' \cap UsageEvents, p) : Ts[e] >= r.from => e \in r.total \cup memtable' \cup moved'
        BY <2>2, <3>6, <4>3
      <4>5. \A q \in r.period : q = p
        BY <3>1
      <4> QED
        BY <3>2, <4>2, <4>4, <4>5, Zenon DEF ReadingOf
    <3> QED
      BY <3>1, <3>4, <3>5, <3>6
  <2>3. ASSUME NEW k \in Closers, close'[k] = close[k] PROVE ReadingOf(k)'
    BY <1>2, <2>3, ReadingKept, Zenon DEF Reading
  <2>4. CASE UNCHANGED close
    BY <2>3, <2>4, Zenon DEF Reading
  <2>5. ASSUME NEW k \in Closers, NEW r \in Closes,
               close'[k] = r, \A j \in Closers \ {k} : close'[j] = close[j],
               UNCHANGED <<store, memtable, flight, rolled, wm>>,
               r.pc \in {"rollups", "idle", "commit"} \/ CloseRollups(k) \/ CloseTail(k) \/ CloseMemtable(k)
        PROVE  Reading'
    <3>1. ReadingOf(k)'
      BY <2>1, <2>2, <2>5, Zenon
    <3>2. \A j \in Closers \ {k} : ReadingOf(j)'
      BY <2>3, <2>5
    <3> QED
      BY <3>1, <3>2 DEF Reading
  <2>6. IdleClose.pc \in {"rollups", "idle", "commit"}
    BY IdleTypes
  <2>7. \A f : f = "rollups" => f \in {"rollups", "idle", "commit"}
    OBVIOUS
  <2> QED
    BY <1>2, <2>4, <2>5, <2>6, <2>7, CloseSteps, Zenon
<1> QED
  BY <1>1, <1>2

\* Usage that is accepted without an overlap meets no close.
LEMMA AcceptedUsage ==
  ASSUME TypeInv, InFlight, [Next]_vars, NEW c \in Clients, IngestAccept(c), NEW q
  PROVE  Usage(q)' \subseteq Usage(q) \/ (EntriesOf(q, closed) = {} /\ ~Closing(q))
<1>1. ingest[c].pc = "check"
  BY DEF IngestAccept
<1>2. PICK e \in ingest[c].event :
        IF Rejected(e, ingest[c].closed) \/ e \in store
          THEN UNCHANGED <<store, memtable, raced, late>>
          ELSE /\ store' = store \cup {e}
               /\ raced' = IF ingest[c].overlap THEN raced \cup ({e} \cap UsageEvents) ELSE raced
  BY Zenon DEF IngestAccept
<1>0. raced \subseteq raced' /\ late \subseteq late' /\ moved \subseteq moved'
  BY HistoryKept
<1>3. CASE store' = store
  BY <1>0, <1>3 DEF Usage, InPeriod
<1>4. CASE store' # store
  <2>1. /\ ~Rejected(e, ingest[c].closed)
        /\ store' = store \cup {e}
        /\ raced' = IF ingest[c].overlap THEN raced \cup ({e} \cap UsageEvents) ELSE raced
    BY <1>2, <1>4, Zenon
  <2>2. e \in UsageEvents /\ e \notin raced' =>
          EntriesOf(PeriodOf[e], closed) = {} /\ ~Closing(PeriodOf[e])
    <3>1. e \in UsageEvents => PeriodOf[e] \notin ingest[c].closed
      BY <2>1 DEF Rejected
    <3>2. e \in UsageEvents /\ e \notin raced' => ~ingest[c].overlap
      BY <2>1, Zenon
    <3> QED
      BY <1>1, <3>1, <3>2, Zenon DEF InFlight
  <2>3. \A f \in Usage(q)' : f \in Usage(q) \/ (f = e /\ e \in UsageEvents /\ e \notin raced' /\ PeriodOf[e] = q)
    BY <1>0, <2>1 DEF Usage, InPeriod
  <2> QED
    BY <2>2, <2>3
<1> QED
  BY <1>3, <1>4

\* No step but the acceptance of an event adds usage to a period.
LEMMA UsageKept ==
  ASSUME TypeInv, InFlight, [Next]_vars, NEW q
  PROVE  Usage(q)' \subseteq Usage(q) \/ (EntriesOf(q, closed) = {} /\ ~Closing(q) /\ UNCHANGED <<closed, close>>)
<1>1. CASE \E c \in Clients : IngestAccept(c)
  <2>1. UNCHANGED <<closed, close>>
    BY <1>1, Zenon DEF IngestAccept, entryVars
  <2> QED
    BY <1>1, <2>1, AcceptedUsage
<1>2. CASE store' = store
  BY <1>2, HistoryKept DEF Usage, InPeriod
<1> QED
  <2>1. DrainMemtable \/ Flush \/ Tick \/ Restart => store' = store
    BY Zenon DEF DrainMemtable, Flush, FlushCommit, Tick, TickCommit, Restart, Crash
  <2> QED
    BY <1>1, <1>2, <2>1, EventsChange

\* Every step keeps the frozen totals complete.
LEMMA StepTotals ==
  ASSUME TypeInv, Reading, Totals, InFlight, [Next]_vars
  PROVE  Totals'
<1>0. /\ \A q : Usage(q)' \subseteq Usage(q) \/ (EntriesOf(q, closed) = {} /\ ~Closing(q) /\ UNCHANGED <<closed, close>>)
      /\ ~reverted' => ~reverted
  BY UsageKept, HistoryKept
<1>1. ASSUME NEW k \in Closers, close'[k] = close[k] PROVE CompleteOf(k)'
  <2> SUFFICES ASSUME close[k].pc = "commit", NEW p \in close[k].period PROVE Usage(p)' \subseteq close[k].total
    BY <1>1, Zenon DEF CompleteOf
  <2>1. Closing(p)
    BY Zenon DEF Closing
  <2>2. Usage(p) \subseteq close[k].total
    BY Zenon DEF Totals, CompleteOf
  <2> QED
    BY <1>0, <2>1, <2>2
<1>2. ASSUME NEW k \in Closers, CloseRollups(k) \/ CloseTail(k) \/ CloseMemtable(k),
             UNCHANGED <<store, memtable, flight, rolled, wm>>
      PROVE  CompleteOf(k)'
  <2>1. PICK p \in close[k].period, r \in Closes :
          /\ close' = [close EXCEPT ![k] = r] /\ r.period = {p}
          /\ \/ r.pc = "tail"
             \/ r.pc = "memtable"
             \/ /\ CloseMemtable(k) /\ close[k].pc = "memtable" /\ r.pc = "commit"
                /\ r.total = close[k].total \cup TailRows(memtable, p, close[k].from)
    BY <1>2, CloseReads, Zenon
  <2>2. close'[k] = r
    BY <2>1 DEF TypeInv
  <2>3. CASE r.pc = "tail" \/ r.pc = "memtable"
    BY <2>2, <2>3 DEF CompleteOf
  <2>4. CASE /\ CloseMemtable(k) /\ close[k].pc = "memtable" /\ r.pc = "commit"
             /\ r.total = close[k].total \cup TailRows(memtable, p, close[k].from)
    <3>1. /\ \A e \in InPeriod(store, p) : Ts[e] < close[k].from => e \in close[k].total \cup late
          /\ \A e \in InPeriod(store \cap UsageEvents, p) :
               Ts[e] >= close[k].from => e \in close[k].total \cup memtable \cup moved
      BY <2>4 DEF Reading, ReadingOf
    <3>2. /\ \A e \in store : Ts[e] \in Nat
          /\ close[k].from \in Nat
      BY PeriodsAssumption DEF TypeInv, Closes
    <3>3. ASSUME NEW e \in Usage(p) PROVE e \in r.total
      <4>1. e \in store /\ e \in UsageEvents /\ PeriodOf[e] = p /\ e \notin late /\ e \notin moved
        BY DEF Usage, InPeriod
      <4>2. e \in InPeriod(store, p) /\ e \in InPeriod(store \cap UsageEvents, p)
        BY <4>1 DEF InPeriod
      <4>3. CASE Ts[e] < close[k].from
        BY <2>4, <3>1, <4>1, <4>2, <4>3
      <4>4. CASE Ts[e] >= close[k].from
        <5>1. e \in close[k].total \/ e \in memtable
          BY <3>1, <4>1, <4>2, <4>4
        <5>2. e \in memtable => e \in TailRows(memtable, p, close[k].from)
          BY <4>1, <4>4 DEF TailRows, InPeriod
        <5> QED
          BY <2>4, <5>1, <5>2
      <4> QED
        BY <3>2, <4>1, <4>3, <4>4
    <3>4. UNCHANGED <<store, raced, late, moved>>
      BY <2>4, Zenon DEF CloseMemtable, dataVars, lossVars
    <3>5. Usage(p)' = Usage(p)
      BY <3>4 DEF Usage, InPeriod
    <3>6. Usage(p)' \subseteq r.total
      BY <3>3, <3>5
    <3>7. \A q \in r.period : q = p
      BY <2>1
    <3> QED
      BY <2>2, <3>6, <3>7, Zenon DEF CompleteOf
  <2> QED
    BY <2>1, <2>3, <2>4
<1>3. \A k \in Closers : CompleteOf(k)'
  <2>1. CASE Restart
    <3>1. \A k \in Closers : close'[k].period = {}
      BY <2>1, IdleTypes DEF Restart, Crash
    <3> QED
      BY <3>1, Zenon DEF CompleteOf
  <2>2. CASE ~Restart
    <3>1. CASE UNCHANGED close
      BY <1>1, <3>1, Zenon
    <3>2. ASSUME NEW k \in Closers, NEW r \in Closes,
                 close'[k] = r, \A j \in Closers \ {k} : close'[j] = close[j],
                 UNCHANGED <<store, memtable, flight, rolled, wm>>,
                 r.pc = "rollups" \/ r = IdleClose \/ CloseRollups(k) \/ CloseTail(k) \/ CloseMemtable(k)
          PROVE  \A j \in Closers : CompleteOf(j)'
      <4>1. CASE r.pc = "rollups" \/ r = IdleClose
        <5>1. r.pc # "commit"
          BY <4>1, IdleTypes
        <5>2. CompleteOf(k)'
          BY <3>2, <5>1, Zenon DEF CompleteOf
        <5> QED
          BY <1>1, <3>2, <5>2
      <4>2. CASE CloseRollups(k) \/ CloseTail(k) \/ CloseMemtable(k)
        BY <1>1, <1>2, <3>2, <4>2
      <4> QED
        BY <3>2, <4>1, <4>2
    <3> QED
      BY <2>2, <3>1, <3>2, CloseSteps, Zenon
  <2> QED
    BY <2>1, <2>2
<1>4. ASSUME ~reverted', NEW d \in closed', d.snapshot PROVE Usage(d.period)' \subseteq d.frozen
  <2>1. CASE d \in closed
    <3>1. EntriesOf(d.period, closed) # {}
      BY <2>1 DEF EntriesOf
    <3>2. Usage(d.period) \subseteq d.frozen
      BY <1>0, <1>4, <2>1, Zenon DEF Totals
    <3> QED
      BY <1>0, <3>1, <3>2
  <2>2. ASSUME NEW k \in Closers, CloseCommit(k) \/ CloseSaveFails(k), d \notin closed
        PROVE  Usage(d.period)' \subseteq d.frozen
    <3>1. PICK p \in close[k].period : closed' = ClosedAfter(p, close[k].total) /\ close[k].pc = "commit"
      BY <2>2, Zenon DEF CloseCommit, CloseSaveFails
    <3>2. d = Entry(p, close[k].total)
      BY <2>2, <3>1, CloseAdds
    <3>3. d.period = p /\ d.frozen = close[k].total
      BY <3>2 DEF Entry
    <3>4. Usage(p) \subseteq close[k].total /\ Closing(p)
      BY <3>1, Zenon DEF Totals, CompleteOf, Closing
    <3> QED
      BY <1>0, <3>3, <3>4
  <2>3. ASSUME NEW p \in AllPeriods, ReopenPeriod(p) PROVE closed' \subseteq closed
    BY <2>3, Zenon DEF ReopenPeriod
  <2>4. OtherSave => closed' = closed
    BY Zenon DEF OtherSave
  <2>5. Restart => closed' = closed
    BY <1>4, Zenon DEF Restart, Crash
  <2> QED
    BY <2>1, <2>2, <2>3, <2>4, <2>5, EntriesChange
<1> QED
  BY <1>3, <1>4, Zenon DEF Totals

\* Only the last read of a close makes its period one that is closing.
LEMMA ClosingSteps ==
  ASSUME TypeInv, [Next]_vars, ~Restart
  PROVE  \/ \A q : Closing(q)' => Closing(q)
         \/ \E k \in Closers : CloseMemtable(k)
<1>1. CASE UNCHANGED close
  BY <1>1, Zenon DEF Closing
<1>2. ASSUME NEW k \in Closers, NEW r \in Closes, close'[k] = r, r.pc # "commit",
             \A j \in Closers \ {k} : close'[j] = close[j], NEW q, Closing(q)'
      PROVE  Closing(q)
  <2>1. PICK j \in Closers : close'[j].pc = "commit" /\ q \in close'[j].period
    BY <1>2, Zenon DEF Closing
  <2>2. close'[j] = close[j]
    BY <1>2, <2>1
  <2> QED
    BY <2>1, <2>2, Zenon DEF Closing
<1>3. ASSUME NEW k \in Closers, CloseRollups(k) \/ CloseTail(k), NEW q, Closing(q)' PROVE Closing(q)
  <2>1. PICK p \in close[k].period, r \in Closes :
          /\ close' = [close EXCEPT ![k] = r] /\ r.period = {p}
          /\ r.pc \in {"tail", "memtable"} \/ CloseMemtable(k)
    BY <1>3, CloseReads
  <2>2. ~CloseMemtable(k)
    BY <1>3 DEF CloseRollups, CloseTail, CloseMemtable
  <2>3. \A t, u \in r.period : t = u
    BY <2>1
  <2>4. close'[k] = r /\ \A j \in Closers \ {k} : close'[j] = close[j]
    BY <2>1, <2>3, CloseMoves
  <2>5. r.pc # "commit"
    BY <2>1, <2>2
  <2> QED
    BY <1>2, <1>3, <2>4, <2>5
<1>4. \A r : r = IdleClose \/ r.pc = "rollups" => r.pc # "commit"
  BY IdleTypes
<1>5. ASSUME NEW k \in Closers, NEW r \in Closes, close'[k] = r,
             \A j \in Closers \ {k} : close'[j] = close[j],
             \/ r.pc = "rollups" \/ r = IdleClose
             \/ CloseRollups(k) \/ CloseTail(k) \/ CloseMemtable(k)
      PROVE  (\A q : Closing(q)' => Closing(q)) \/ CloseMemtable(k)
  BY <1>2, <1>3, <1>4, <1>5, Zenon
<1> QED
  BY <1>1, <1>5, CloseSteps, Zenon

\* Every step keeps the ingests that overlap a close marked as such.
LEMMA StepInFlight ==
  ASSUME TypeInv, InFlight, [Next]_vars
  PROVE  InFlight'
<1>1. CASE /\ \A d \in Clients : ingest'[d].pc = "check" => ingest'[d] = ingest[d]
           /\ closed' \subseteq closed
           /\ \A q : Closing(q)' => Closing(q)
  <2>1. \A q : EntriesOf(q, closed') \subseteq EntriesOf(q, closed)
    BY <1>1, EntriesGrow
  <2>2. \A q : EntriesOf(q, closed) = {} => EntriesOf(q, closed') = {}
    BY <2>1
  <2> QED
    BY <1>1, <2>2, Zenon DEF InFlight
<1>2. ASSUME NEW c \in Clients, NEW e \in Events, IngestSnapshot(c, e) PROVE InFlight'
  <2>1. UNCHANGED <<closed, close>>
    BY <1>2, Zenon DEF IngestSnapshot, entryVars
  <2>2. /\ ingest'[c].event = {e} /\ ingest'[c].closed = {d.period : d \in closed}
        /\ ingest'[c].overlap = Closing(PeriodOf[e])
        /\ \A d \in Clients \ {c} : ingest'[d] = ingest[d]
    BY <1>2 DEF IngestSnapshot, TypeInv
  <2>3. \A q : Closing(q)' = Closing(q)
    BY <2>1, Zenon DEF Closing
  <2>4. PeriodOf[e] \in {d.period : d \in closed} \/ EntriesOf(PeriodOf[e], closed) = {}
    BY DEF EntriesOf
  <2>5. \/ ingest'[c].overlap
        \/ PeriodOf[e] \in ingest'[c].closed
        \/ EntriesOf(PeriodOf[e], closed') = {} /\ ~Closing(PeriodOf[e])'
    BY <2>1, <2>2, <2>3, <2>4, Zenon
  <2>6. ASSUME NEW d \in Clients, ingest'[d].pc = "check", NEW f \in ingest'[d].event \cap UsageEvents
        PROVE  \/ ingest'[d].overlap
               \/ PeriodOf[f] \in ingest'[d].closed
               \/ EntriesOf(PeriodOf[f], closed') = {} /\ ~Closing(PeriodOf[f])'
    <3>1. CASE d = c
      <4>1. f = e
        BY <2>2, <2>6, <3>1
      <4> QED
        BY <2>5, <3>1, <4>1, Zenon
    <3>2. CASE d # c
      <4>1. ingest'[d] = ingest[d]
        BY <2>2, <3>2
      <4> QED
        BY <2>1, <2>3, <2>6, <4>1, Zenon DEF InFlight
    <3> QED
      BY <3>1, <3>2
  <2> QED
    BY <2>6, Zenon DEF InFlight
<1>3. ASSUME NEW p, ingest' = Overlapping(p),
             \A q : Closing(q)' => Closing(q) \/ q = p,
             \A q : q # p /\ EntriesOf(q, closed) = {} => EntriesOf(q, closed') = {}
      PROVE  InFlight'
  <2> SUFFICES ASSUME NEW d \in Clients, ingest'[d].pc = "check", NEW f \in ingest'[d].event \cap UsageEvents
               PROVE  \/ ingest'[d].overlap
                      \/ PeriodOf[f] \in ingest'[d].closed
                      \/ EntriesOf(PeriodOf[f], closed') = {} /\ ~Closing(PeriodOf[f])'
    BY Zenon DEF InFlight
  <2>1. /\ ingest'[d].pc = ingest[d].pc
        /\ ingest'[d].event = ingest[d].event
        /\ ingest'[d].closed = ingest[d].closed
        /\ ingest[d].overlap => ingest'[d].overlap
        /\ (\E e \in ingest[d].event : PeriodOf[e] = p) => ingest'[d].overlap
    BY <1>3, OverlappingFacts, Zenon
  <2>2. CASE PeriodOf[f] = p
    BY <2>1, <2>2, Zenon
  <2>3. CASE PeriodOf[f] # p
    <3>1. \/ ingest[d].overlap
          \/ PeriodOf[f] \in ingest[d].closed
          \/ EntriesOf(PeriodOf[f], closed) = {} /\ ~Closing(PeriodOf[f])
      BY <2>1, Zenon DEF InFlight
    <3> QED
      BY <1>3, <2>1, <2>3, <3>1, Zenon
  <2> QED
    BY <2>2, <2>3
<1>4. ASSUME NEW k \in Closers, CloseMemtable(k) PROVE InFlight'
  <2>1. closed' = closed
    BY <1>4, Zenon DEF CloseMemtable, entryVars
  <2>2. PICK p \in close[k].period, r \in Closes :
          close' = [close EXCEPT ![k] = r] /\ r.period = {p} /\ (ingest' = Overlapping(p) \/ close[k].pc # "memtable")
    BY <1>4, CloseReads
  <2>3. ingest' = Overlapping(p)
    BY <1>4, <2>2, Zenon DEF CloseMemtable
  <2>4. \A t, u \in r.period : t = u
    BY <2>2
  <2>5. close'[k] = r /\ \A j \in Closers \ {k} : close'[j] = close[j]
    BY <2>2, <2>4, CloseMoves
  <2>6. ASSUME NEW q, Closing(q)' PROVE Closing(q) \/ q = p
    <3>1. PICK j \in Closers : close'[j].pc = "commit" /\ q \in close'[j].period
      BY <2>6, Zenon DEF Closing
    <3>2. CASE j = k
      BY <2>2, <2>5, <3>1, <3>2
    <3>3. CASE j # k
      <4>1. close'[j] = close[j]
        BY <2>5, <3>3
      <4> QED
        BY <3>1, <4>1, Zenon DEF Closing
    <3> QED
      BY <3>2, <3>3
  <2> QED
    BY <1>3, <2>1, <2>3, <2>6
<1>5. ASSUME NEW k \in Closers, CloseCommit(k) \/ CloseSaveFails(k) PROVE InFlight'
  <2>2. PICK p \in close[k].period : closed' = ClosedAfter(p, close[k].total) /\ ingest' = Overlapping(p)
    BY <1>5, Zenon DEF CloseCommit, CloseSaveFails
  <2>3. \A j \in Closers : close'[j].pc = "commit" => close'[j] = close[j]
    BY <1>5, IdleTypes DEF TypeInv, CloseCommit, CloseSaveFails
  <2>4. \A q : Closing(q)' => Closing(q)
    BY <2>3, Zenon DEF Closing
  <2>5. \A d \in closed' : d \in closed \/ d.period = p
    <3>1. \A d \in closed' : d \in closed \/ d = Entry(p, close[k].total)
      BY <2>2, CloseAdds
    <3>2. Entry(p, close[k].total).period = p
      BY DEF Entry
    <3> QED
      BY <3>1, <3>2, Zenon
  <2>6. \A q : q # p /\ EntriesOf(q, closed) = {} => EntriesOf(q, closed') = {}
    BY <2>5 DEF EntriesOf
  <2> QED
    BY <1>3, <2>2, <2>4, <2>6
<1>6. CASE Restart
  <2>1. \A d \in Clients : ingest'[d].pc # "check"
    BY <1>6, IdleTypes DEF Restart, Crash
  <2> QED
    BY <2>1, Zenon DEF InFlight
<1>7. ASSUME NEW c \in Clients, IngestAccept(c) PROVE InFlight'
  <2>1. UNCHANGED <<closed, close>>
    BY <1>7, Zenon DEF IngestAccept, entryVars
  <2>2. \A d \in Clients : ingest'[d].pc = "check" => ingest'[d] = ingest[d]
    BY <1>7, IdleTypes DEF IngestAccept, TypeInv
  <2>3. \A q : Closing(q)' => Closing(q)
    BY <2>1, Zenon DEF Closing
  <2> QED
    BY <1>1, <2>1, <2>2, <2>3
<1>8. CASE /\ ~Restart /\ UNCHANGED ingest
           /\ ~\E k \in Closers : CloseMemtable(k) \/ CloseCommit(k) \/ CloseSaveFails(k)
  <2>1. closed' \subseteq closed
    BY <1>8, EntriesChange, Zenon DEF ReopenPeriod, OtherSave
  <2>2. \A q : Closing(q)' => Closing(q)
    BY <1>8, ClosingSteps, Zenon
  <2> QED
    BY <1>1, <1>8, <2>1, <2>2
<1> QED
  BY <1>2, <1>4, <1>5, <1>6, <1>7, <1>8, IngestChange, Zenon

\* Every step keeps the answers of handle_get_period complete.
LEMMA StepGets ==
  ASSUME TypeInv, Rollups, Totals, Gets, [Next]_vars
  PROVE  Gets'
<1>0. /\ store \subseteq store' /\ raced \subseteq raced' /\ late \subseteq late' /\ moved \subseteq moved'
      /\ ~reverted' => ~reverted
  BY HistoryKept
<1>01. /\ \A e \in store : Ts[e] \in Nat
       /\ wm \in Nat /\ get.from \in Nat
  BY PeriodsAssumption DEF TypeInv, GetRequests
<1>1. ASSUME NEW p \in get.period,
             get'.entry = get.entry, get'.owed = get.owed,
             Live(get.entry) \/ get'.from = get.from
      PROVE  /\ get'.owed \subseteq InPeriod(store', p)
             /\ ~Live(get'.entry) =>
                  /\ get'.from = 0
                  /\ ~reverted' => (get'.owed \cap UsageEvents) \ (raced' \cup moved' \cup late') \subseteq FrozenOf(get'.entry)
  <2>1. /\ get.owed \subseteq InPeriod(store, p)
        /\ ~Live(get.entry) =>
             /\ get.from = 0
             /\ ~reverted => (get.owed \cap UsageEvents) \ (raced \cup moved \cup late) \subseteq FrozenOf(get.entry)
    BY Zenon DEF Gets
  <2>2. get.owed \subseteq InPeriod(store', p)
    BY <1>0, <2>1 DEF InPeriod
  <2>3. ASSUME ~Live(get.entry), ~reverted'
        PROVE  (get.owed \cap UsageEvents) \ (raced' \cup moved' \cup late') \subseteq FrozenOf(get.entry)
    BY <1>0, <2>1, <2>3
  <2> QED
    BY <1>1, <2>1, <2>2, <2>3, Zenon
<1>2. ASSUME ~Restart, get'.pc = get.pc, get'.period = get.period, get'.entry = get.entry,
             get'.owed = get.owed, get'.from = get.from, get'.seen = get.seen, get.moved \subseteq get'.moved
      PROVE  Gets'
  <2> SUFFICES ASSUME NEW p \in get.period
               PROVE  /\ get'.owed \subseteq InPeriod(store', p)
                      /\ get'.pc = "rollups" => Live(get'.entry)
                      /\ ~Live(get'.entry) =>
                           /\ get'.from = 0
                           /\ ~reverted' => (get'.owed \cap UsageEvents) \ (raced' \cup moved' \cup late') \subseteq FrozenOf(get'.entry)
                      /\ get'.pc \in {"tail", "memtable"} =>
                           \A e \in get'.owed : Ts[e] < get'.from => e \in get'.seen \cup late'
                      /\ get'.pc = "memtable" =>
                           \A e \in get'.owed : Ts[e] >= get'.from => e \in get'.seen \cup memtable' \cup get'.moved
    BY <1>2, Zenon DEF Gets
  <2>1. get.pc = "rollups" => Live(get.entry)
    BY Zenon DEF Gets
  <2>2. ASSUME get.pc \in {"tail", "memtable"}, NEW e \in get.owed, Ts[e] < get.from PROVE e \in get.seen \cup late'
    <3>1. e \in get.seen \cup late
      BY <2>2, Zenon DEF Gets
    <3> QED
      BY <1>0, <3>1
  <2>3. ASSUME get.pc = "memtable", NEW e \in get.owed, Ts[e] >= get.from
        PROVE  e \in get.seen \cup memtable' \cup get'.moved
    <3>1. e \in get.seen \cup memtable \cup get.moved
      BY <2>3, Zenon DEF Gets
    <3>2. e \in memtable => e \in memtable' \/ e \in get'.moved
      BY <1>2, <2>3, EventsKept
    <3> QED
      BY <1>2, <3>1, <3>2
  <2> QED
    BY <1>1, <1>2, <2>1, <2>2, <2>3, Zenon
<1>3. CASE UNCHANGED get /\ ~Restart
  BY <1>2, <1>3
<1>4. CASE DrainMemtable /\ ~Restart
  <2>1. \/ get' = get
        \/ /\ get'.period = get.period /\ get'.entry = get.entry /\ get'.owed = get.owed
           /\ get'.pc = get.pc /\ get'.from = get.from /\ get'.seen = get.seen
           /\ get'.moved = get.moved \cup memtable
    BY <1>4, GetMoves, Zenon
  <2> QED
    BY <1>2, <1>4, <2>1
<1>5. ASSUME NEW p \in AllPeriods, GetEntry(p) PROVE Gets'
  <2>1. UNCHANGED <<store, raced, late, moved, reverted>>
    BY <1>5, Zenon DEF GetEntry, dataVars, lossVars
  <2>2. /\ get'.period = {p} /\ get'.entry = EntriesOf(p, closed) /\ get'.owed = InPeriod(store, p)
        /\ get'.pc = (IF Live(EntriesOf(p, closed)) THEN "rollups" ELSE "tail") /\ get'.from = 0
    BY <1>5, GetMoves, Zenon
  <2>3. ASSUME ~Live(get'.entry), ~reverted
        PROVE  (get'.owed \cap UsageEvents) \ (raced \cup moved \cup late) \subseteq FrozenOf(get'.entry)
    <3>1. PICK c \in closed : c.period = p /\ c.snapshot /\ c \in get'.entry
      BY <2>2, <2>3 DEF Live, EntriesOf
    <3>2. Usage(p) \subseteq c.frozen
      BY <2>3, <3>1, Zenon DEF Totals
    <3>3. c.frozen \subseteq FrozenOf(get'.entry)
      BY <3>1 DEF FrozenOf
    <3> QED
      BY <2>2, <3>2, <3>3 DEF Usage, InPeriod
  <2>4. \A e \in get'.owed : ~(Ts[e] < get'.from)
    <3>1. \A e \in get'.owed : e \in store
      BY <2>2 DEF InPeriod
    <3> QED
      BY <1>01, <2>2, <3>1
  <2>5. get'.pc # "memtable" /\ (get'.pc = "rollups" => Live(get'.entry))
    BY <2>2
  <2>6. \A q \in get'.period : q = p
    BY <2>2
  <2>7. get'.owed \subseteq InPeriod(store', p)
    BY <2>1, <2>2, Zenon
  <2> QED
    BY <2>1, <2>2, <2>3, <2>4, <2>5, <2>6, <2>7, Zenon DEF Gets
<1>6. CASE GetRollups
  <2>1. UNCHANGED <<store, rolled, wm>>
    BY <1>6, Zenon DEF GetRollups, dataVars
  <2>2. PICK p \in get.period :
          /\ get'.period = get.period /\ get'.entry = get.entry /\ get'.owed = get.owed
          /\ get.pc = "rollups" /\ get'.pc = "tail" /\ get'.from = wm /\ get'.seen = RollupRows(p)
    BY <1>6, GetMoves, Zenon
  <2>3. \A q \in get.period : q = p
    BY Zenon DEF TypeInv
  <2>4. Live(get.entry) /\ get.owed \subseteq InPeriod(store, p)
    BY <2>2, Zenon DEF Gets
  <2>5. ASSUME NEW e \in get.owed, Ts[e] < wm PROVE e \in RollupRows(p) \cup late
    BY <2>4, <2>5 DEF Rollups, RollupRows, InPeriod
  <2>6. \A e \in get'.owed : Ts[e] < get'.from => e \in get'.seen \cup late'
    BY <1>0, <2>2, <2>5
  <2>7. get'.pc # "rollups" /\ get'.pc # "memtable"
    BY <2>2
  <2> QED
    BY <1>1, <2>2, <2>4, <2>6, <2>7, Zenon DEF Gets
<1>7. CASE GetTail
  <2>1. UNCHANGED <<store, memtable, late>>
    BY <1>7, Zenon DEF GetTail, dataVars, lossVars
  <2>2. PICK p \in get.period :
          /\ get'.period = get.period /\ get'.entry = get.entry /\ get'.owed = get.owed
          /\ get.pc = "tail" /\ get'.pc = "memtable" /\ get'.from = get.from
          /\ get'.seen = get.seen \cup TailRows(Segments, p, get.from)
          /\ get'.moved = InPeriod(flight, p)
    BY <1>7, GetMoves, Zenon
  <2>3. /\ get.owed \subseteq InPeriod(store, p)
        /\ \A e \in get.owed : Ts[e] < get.from => e \in get.seen \cup late
    BY <2>2 DEF Gets
  <2>4. \A e \in get'.owed : Ts[e] < get'.from => e \in get'.seen \cup late'
    BY <2>1, <2>2, <2>3
  <2>5. ASSUME NEW e \in get.owed, Ts[e] >= get.from
        PROVE  e \in TailRows(Segments, p, get.from) \cup memtable \cup InPeriod(flight, p)
    BY <2>3, <2>5 DEF InPeriod, TailRows, Segments
  <2>6. \A e \in get'.owed : Ts[e] >= get'.from => e \in get'.seen \cup memtable' \cup get'.moved
    BY <2>1, <2>2, <2>5
  <2>7. get'.pc # "rollups"
    BY <2>2
  <2> QED
    BY <1>1, <2>2, <2>4, <2>6, <2>7, Zenon DEF Gets
<1>8. CASE GetAnswer \/ Restart
  <2>1. get'.period = {}
    BY <1>8, IdleTypes, Zenon DEF GetAnswer, Restart, Crash
  <2> QED
    BY <2>1, Zenon DEF Gets
<1> QED
  BY <1>3, <1>4, <1>5, <1>6, <1>7, <1>8, GetChange, Zenon

-----------------------------------------------------------------------------
(* Theorems *)

\* The inductive invariant of closing, reopening, ingesting and reading periods
\* holds in every reachable state (handle_close_period, handle_reopen_period,
\* handle_get_period, collect_rollup_then_raw_tail).
THEOREM Invariance == Spec => []PeriodsInv
<1>1. Init => PeriodsInv
  <2> SUFFICES ASSUME Init PROVE PeriodsInv
    OBVIOUS
  <2>1. TypeInv /\ Unique /\ Durable
    BY InitType, InitUnique
  <2>2. Rollups
    BY DEF Init, Rollups
  <2>3. Genuine
    BY DEF Init, Genuine, LegacyEntry, IdleClose
  <2>4. Reading
    BY DEF Init, Reading, ReadingOf, IdleClose
  <2>5. Totals
    <3>1. \A q : Usage(q) = {}
      BY DEF Init, Usage, InPeriod
    <3> QED
      BY <3>1 DEF Totals, CompleteOf
  <2>6. InFlight
    BY DEF Init, InFlight, IdleIngest
  <2>7. Gets
    BY DEF Init, Gets, IdleGet
  <2> QED
    BY <2>1, <2>2, <2>3, <2>4, <2>5, <2>6, <2>7 DEF PeriodsInv
<1>2. PeriodsInv /\ [Next]_vars => PeriodsInv'
  BY StepType, StepUnique, StepDurable, StepRollups, StepGenuine, StepReading, StepTotals, StepInFlight, StepGets
     DEF PeriodsInv
<1> QED
  BY <1>1, <1>2, PTL DEF Spec

\* Concurrent closes of a period leave one entry: handle_close_period looks for
\* one again under the write lock.
THEOREM OneEntryPerPeriod == Spec => []OneEntry
<1>1. PeriodsInv => OneEntry
  <2> SUFFICES ASSUME PeriodsInv, NEW p \in AllPeriods
               PROVE  Cardinality(EntriesOf(p, closed)) <= 1
    BY DEF OneEntry
  <2>1. CASE EntriesOf(p, closed) = {}
    BY <2>1, FS_EmptySet
  <2>2. CASE EntriesOf(p, closed) # {}
    <3>1. PICK c : c \in EntriesOf(p, closed)
      BY <2>2
    <3>2. EntriesOf(p, closed) = {c}
      BY <3>1 DEF PeriodsInv, Unique, Single, EntriesOf
    <3>3. Cardinality({c}) = 1
      BY FS_Singleton, Zenon
    <3> QED
      BY <3>2, <3>3
  <2> QED
    BY <2>1, <2>2
<1> QED
  BY <1>1, Invariance, PTL

\* The frozen total that snapshot_period_totals computes has every Usage event
\* of the period, but for events of requests that overlapped the close, events
\* between the memtable and a segment while its query ran, and late events.
THEOREM UsageIsFrozen == Spec => []UsageFrozen
<1>1. PeriodsInv => UsageFrozen
  BY Zenon DEF PeriodsInv, Totals, Usage, UsageFrozen
<1> QED
  BY <1>1, Invariance, PTL

\* The answer of handle_get_period, live or net, has every event accepted before
\* it, but for late events, events between the memtable and a segment, usage
\* that the close missed and adjustments as_i64 drops.
THEOREM GetIsComplete == Spec => []GetComplete
<1>1. PeriodsInv => GetComplete
  <2> DEFINE missed(p) == get.owed \ (Total(p) \cup Pending(p))
  <2> SUFFICES ASSUME PeriodsInv, get.pc = "memtable", NEW p \in get.period
               PROVE  /\ Live(get.entry) => missed(p) \subseteq late \cup get.moved
                      /\ ~Live(get.entry) /\ ~reverted =>
                           missed(p) \subseteq (UsageEvents \cap (raced \cup moved \cup late))
                                                 \cup ((WideEvents \cup get.moved) \ UsageEvents)
    BY DEF GetComplete
  <2>1. /\ get.owed \subseteq InPeriod(store, p)
        /\ \A e \in get.owed : Ts[e] < get.from => e \in get.seen \cup late
        /\ \A e \in get.owed : Ts[e] >= get.from => e \in get.seen \cup memtable \cup get.moved
        /\ ~Live(get.entry) =>
             /\ get.from = 0
             /\ ~reverted => (get.owed \cap UsageEvents) \ (raced \cup moved \cup late) \subseteq FrozenOf(get.entry)
    BY DEF PeriodsInv, Gets
  <2>2. \A e \in get.owed : Ts[e] \in Nat /\ PeriodOf[e] = p
    BY <2>1, PeriodsAssumption DEF PeriodsInv, TypeInv, InPeriod
  <2>3. get.from \in Nat
    BY DEF PeriodsInv, TypeInv, GetRequests
  <2>4. ASSUME NEW e \in get.owed, Ts[e] >= get.from PROVE e \in Read(p) \cup get.moved
    BY <2>1, <2>2, <2>4 DEF Read, TailRows, InPeriod
  <2>5. ASSUME Live(get.entry), NEW e \in missed(p) PROVE e \in late \cup get.moved
    <3>1. e \in get.owed /\ e \notin Read(p)
      BY <2>5 DEF Total
    <3>2. Ts[e] < get.from => e \in late
      BY <2>1, <3>1 DEF Read
    <3> QED
      BY <2>2, <2>3, <2>4, <3>1, <3>2
  <2>6. ASSUME ~Live(get.entry), ~reverted, NEW e \in missed(p)
        PROVE  e \in (UsageEvents \cap (raced \cup moved \cup late)) \cup ((WideEvents \cup get.moved) \ UsageEvents)
    <3>1. e \in get.owed /\ e \notin FrozenOf(get.entry) /\ e \notin Adjustments(Read(p))
      BY <2>6 DEF Total, Pending
    <3>2. CASE e \in UsageEvents
      BY <2>1, <2>6, <3>1, <3>2
    <3>3. CASE e \notin UsageEvents
      <4>1. Ts[e] >= get.from
        <5>1. get.from = 0
          BY <2>1, <2>6
        <5>2. Ts[e] \in Nat
          BY <2>2, <3>1
        <5> HIDE DEF missed
        <5> QED
          BY <5>1, <5>2
      <4>2. e \in Read(p) \cup get.moved
        BY <2>4, <3>1, <4>1
      <4> QED
        BY <3>1, <3>3, <4>2 DEF Adjustments
    <3> QED
      BY <3>2, <3>3
  <2> QED
    BY <2>5, <2>6
<1> QED
  BY <1>1, Invariance, PTL

\* A close that was answered with success survives crashes, failed saves of
\* others and restarts (handle_close_period, ManifestStore::save).
THEOREM AckedCloseIsKept == Spec => []AckedCloseKept
<1>1. PeriodsInv => AckedCloseKept
  BY Zenon DEF PeriodsInv, Durable, AckedCloseKept
<1> QED
  BY <1>1, Invariance, PTL

\* While a period stays closed its entry stays the same: no later close
\* refreshes it, and no reopen of another period touches it.
THEOREM FrozenTotalsStay == Spec => FrozenStays
<1> DEFINE Stays == \A c \in closed : EntriesOf(c.period, closed') = {} \/ c \in closed' \/ reverted'
<1>1. ASSUME [Next]_vars PROVE Stays
  <2>1. CASE UNCHANGED <<closed, disk>>
    BY <2>1
  <2>2. ASSUME NEW k \in Closers, CloseCommit(k) \/ CloseSaveFails(k) PROVE Stays
    <3>1. PICK p \in close[k].period : closed' = ClosedAfter(p, close[k].total)
      BY <2>2, Zenon DEF CloseCommit, CloseSaveFails
    <3>2. closed \subseteq closed'
      BY <3>1, CloseAdds
    <3> QED
      BY <3>2
  <2>3. ASSUME NEW p \in AllPeriods, ReopenPeriod(p) PROVE Stays
    <3>1. closed' = closed \ EntriesOf(p, closed)
      BY <2>3, Zenon DEF ReopenPeriod
    <3>2. \A c \in closed : c \notin closed' => c.period = p
      BY <3>1 DEF EntriesOf
    <3>3. EntriesOf(p, closed') = {}
      BY <3>1 DEF EntriesOf
    <3> QED
      BY <3>2, <3>3, Zenon
  <2>4. CASE OtherSave
    BY <2>4 DEF OtherSave
  <2>5. CASE Restart
    <3>1. closed' = disk /\ (reverted' \/ closed = disk)
      BY <2>5, Zenon DEF Restart, Crash
    <3> QED
      BY <3>1, Zenon
  <2> QED
    BY <1>1, <2>1, <2>2, <2>3, <2>4, <2>5, EntriesChange
<1>2. [Next]_vars => [Stays]_vars
  BY <1>1
<1> QED
  BY <1>2, PTL DEF Spec, FrozenStays

=============================================================================
