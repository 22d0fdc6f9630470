----------------------------- MODULE Lifecycle ------------------------------
(***************************************************************************)
(* The life of usagedb processes on one database directory: the process    *)
(* lock, startup recovery with the rebuild of the dedupe cache, serving,   *)
(* the shutdown sequence of run_server, crashes, and the admin commands.   *)
(*                                                                         *)
(* Every process has a memory of its own: its manifest, dedupe cache,      *)
(* memtable, drained batches, flush queue and background tasks.  They      *)
(* share the directory: the manifest's raw segments and the WAL.           *)
(*                                                                         *)
(* The memtable is drained under the locks and the batch sent to the       *)
(* flusher after they are released: by the handler, the rollup worker or   *)
(* the main task that drained it.  Nothing orders two such sends;          *)
(* InOrderSends is the assumption that batches enter the channel in the    *)
(* order they were drained in.                                             *)
(*                                                                         *)
(* Data abstraction.  A segment is the sequence of its rows [id, at], at   *)
(* being ingested_at_ms.  The WAL is the sequence of all rows ever logged, *)
(* and last_sealed_wal_id the number of rows in its sealed files: those    *)
(* files are gone, recovery replays the rows after them.  WAL appends and  *)
(* rotations, flushes and saves succeed, and no handler is dropped between *)
(* its drain and its send (IngestPipeline and ManifestStore have these).   *)
(***************************************************************************)
EXTENDS HotDedupe, FiniteSets, Functions

CONSTANTS
  Events,     \* the events clients send and send again
  Ts,         \* [Events -> Nat]: timestamp_ms
  Servers,    \* processes started with "serve"
  Admins,     \* processes started with an admin command
  Start,      \* the clock at the beginning
  MaxTime,    \* bound: the clock
  MaxStarts,  \* bound: process starts
  MaxRows,    \* bound: rows logged
  MemtableLimit, \* max_memtable_size_bytes, in rows
  ChannelCapacity, \* of the flush channel (4)
  InOrderSends   \* batches are sent in the order they were drained in

Procs == Servers \cup Admins
Workers == {"rollup", "compaction"}
Tasks == Workers \cup {"main"}

Rows == [id : Events, at : Nat]
\* A drained batch, and the task that sends it.
Senders == {"handler", "rollup", "main"}
Messages == [rows : Seq(Rows), sealed : Nat, by : Senders]
Memories == [segs : Seq(Seq(Rows)), sealed : Nat, memtable : Seq(Rows),
             unsent : Seq(Messages), queue : Seq(Messages), tasks : SUBSET Tasks]

ASSUME LifecycleAssumption ==
  /\ Ts \in [Events -> Nat]
  /\ Servers \cap Admins = {}
  /\ {Start, MaxTime, MaxStarts, MaxRows, MemtableLimit, ChannelCapacity} \subseteq Nat
  /\ InOrderSends \in BOOLEAN
  /\ Start <= MaxTime

VARIABLES
  now,        \* the clock
  lock,       \* processes that hold the lock on LOCK
  pc,         \* [Procs -> stage of the process]
  mem,        \* [Procs -> memory of the process]: its manifest, memtable,
              \*   batches drained but not sent, flush queue, and the tasks that
              \*   hold the shared state
  cache,      \* [Procs -> dedupe cache of the process]
  init,       \* the directory has a manifest
  disk,       \* the directory: the manifest's segments and seal, the WAL
  accepted,   \* history: [id, at] of the last acceptance of each event
  recovered,  \* history: the time of the last recovery
  rebilled,   \* history: events accepted twice within the dedupe window
  starts      \* counter: process starts

vars == <<now, lock, pc, mem, cache, init, disk, accepted, recovered, rebilled, starts>>
historyVars == <<accepted, recovered, rebilled>>

NoMemory ==
  [segs |-> <<>>, sealed |-> 0, memtable |-> <<>>, unsent |-> <<>>, queue |-> <<>>, tasks |-> {}]

Init ==
  /\ now = Start
  /\ lock = {}
  /\ pc = [p \in Procs |-> "off"]
  /\ mem = [p \in Procs |-> NoMemory]
  /\ cache = [p \in Procs |-> <<>>]
  /\ init = FALSE
  /\ disk = [segs |-> <<>>, sealed |-> 0, wal |-> <<>>]
  /\ accepted = {}
  /\ recovered = 0
  /\ rebilled = {}
  /\ starts = 0

TimePasses ==
  /\ now < MaxTime
  /\ now' = now + 1
  /\ UNCHANGED <<lock, pc, mem, cache, init, disk, historyVars, starts>>

-----------------------------------------------------------------------------
(* Starting *)

\* Mutant: the lock is taken whoever holds it.
AcquireAnyway(p) ==
  /\ pc[p] = "off"
  /\ starts < MaxStarts
  /\ starts' = starts + 1
  /\ lock' = lock \cup {p}
  /\ pc' = [pc EXCEPT ![p] = "locked"]
  /\ UNCHANGED <<now, mem, cache, init, disk, historyVars>>

\* DbLock::acquire; a process that finds the lock held ends with an error.
Acquire(p) ==
  /\ pc[p] = "off"
  /\ starts < MaxStarts
  /\ starts' = starts + 1
  /\ IF lock = {}
       THEN lock' = {p} /\ pc' = [pc EXCEPT ![p] = "locked"]
       ELSE UNCHANGED <<lock, pc>>
  /\ UNCHANGED <<now, mem, cache, init, disk, historyVars>>

\* The segments that recovery scans: those whose newest event is within the
\* window, in terms of event time.
RecentSegments(segs) ==
  SelectSeq(segs, LAMBDA seg : \E i \in DOMAIN seg : Ts[seg[i].id] >= now - TTL)

\* The cache once these rows are registered one after the other.
Registered(known, rows) ==
  LET after[n \in 0..Len(rows)] ==
        IF n = 0 THEN known ELSE InsertKnown(after[n - 1], rows[n].id, rows[n].at)
  IN after[Len(rows)]

\* The dedupe cache after recovery: the replayed WAL first, then the segments.
RebuiltCache(segs, wal) ==
  LET recent == RecentSegments(segs)
      after[n \in 0..Len(recent)] ==
        IF n = 0 THEN Registered(<<>>, wal) ELSE Registered(after[n - 1], recent[n])
  IN after[Len(recent)]

\* run_server up to start_server: recovery, the first save of a new database,
\* the background tasks.
Recover(p) ==
  /\ p \in Servers
  /\ pc[p] = "locked"
  /\ LET unsealed == SubSeq(disk.wal, disk.sealed + 1, Len(disk.wal))
     IN /\ mem' = [mem EXCEPT ![p] = [segs |-> disk.segs, sealed |-> disk.sealed, memtable |-> unsealed,
                                      unsent |-> <<>>, queue |-> <<>>, tasks |-> Tasks]]
        /\ cache' = [cache EXCEPT ![p] = RebuiltCache(disk.segs, unsealed)]
  /\ init' = TRUE
  /\ recovered' = now
  /\ pc' = [pc EXCEPT ![p] = "serving"]
  /\ UNCHANGED <<now, lock, disk, accepted, rebilled, starts>>

\* open_state_for_admin: an error on a database that was never initialized.
OpenStateForAdmin(p) ==
  /\ p \in Admins
  /\ pc[p] = "locked"
  /\ IF init
       THEN /\ mem' = [mem EXCEPT ![p] = [@ EXCEPT !.segs = disk.segs, !.sealed = disk.sealed]]
            /\ pc' = [pc EXCEPT ![p] = "command"]
            /\ UNCHANGED lock
       ELSE /\ pc' = [pc EXCEPT ![p] = "off"]
            /\ lock' = lock \ {p}
            /\ UNCHANGED mem
  /\ UNCHANGED <<now, cache, init, disk, historyVars, starts>>

\* An admin command and the end of its process: rebuild-rollups saves the
\* manifest it loaded, the other commands only read.
AdminCommand(p) ==
  /\ pc[p] = "command"
  /\ disk' \in {disk, [disk EXCEPT !.segs = mem[p].segs, !.sealed = mem[p].sealed]}
  /\ pc' = [pc EXCEPT ![p] = "off"]
  /\ mem' = [mem EXCEPT ![p] = NoMemory]
  /\ lock' = lock \ {p}
  /\ UNCHANGED <<now, cache, init, historyVars, starts>>

-----------------------------------------------------------------------------
(* Serving *)

\* The dedupe window of an acceptance is over, or recovery could not know of
\* it: the event's own time was past the window at the last recovery, or the
\* database holds more events than the cache.
Excused(a) ==
  \/ now - a.at > TTL
  \/ recovered >= a.at /\ Ts[a.id] < recovered - TTL
  \/ Cardinality({b.id : b \in accepted}) > Capacity

\* The memory with the memtable drained into a batch that this task will send,
\* and the WAL rotated after its first "logged" rows.
Drained(m, by, logged) ==
  IF m.memtable = <<>> THEN m
  ELSE [m EXCEPT !.memtable = <<>>,
                 !.unsent = Append(@, [rows |-> m.memtable, sealed |-> logged, by |-> by])]

\* This task has a batch to send.
HasToSend(p, by) == \E i \in DOMAIN mem[p].unsent : mem[p].unsent[i].by = by

\* handle_ingest: classify, WAL, commit, memtable, and the drain of a
\* memtable that is past its limit.
Ingest(p, e) ==
  /\ pc[p] = "serving"
  /\ Len(disk.wal) < MaxRows
  /\ ~Known(cache[p], e)
  /\ LET row == [id |-> e, at |-> now]
         m == [mem[p] EXCEPT !.memtable = Append(@, row)]
     IN /\ mem' = [mem EXCEPT ![p] = IF Len(m.memtable) > MemtableLimit
                                       THEN Drained(m, "handler", Len(disk.wal) + 1) ELSE m]
        /\ disk' = [disk EXCEPT !.wal = Append(@, row)]
        /\ rebilled' = rebilled \cup {a.id : a \in {b \in accepted : b.id = e /\ ~Excused(b)}}
        /\ accepted' = {a \in accepted : a.id # e} \cup {row}
  /\ cache' = [cache EXCEPT ![p] = Commit(@, e, now)]
  /\ UNCHANGED <<now, lock, pc, init, recovered, starts>>

\* flush_sender.send, with no lock held: a batch enters the channel, which has
\* ChannelCapacity places besides the batch the flusher is at.
Send(p) ==
  /\ Len(mem[p].queue) <= ChannelCapacity
  /\ \E i \in DOMAIN mem[p].unsent :
       /\ InOrderSends => i = 1
       /\ LET u == mem[p].unsent
              m == [mem[p] EXCEPT !.queue = Append(@, u[i]),
                                  !.unsent = SubSeq(u, 1, i - 1) \o SubSeq(u, i + 1, Len(u))]
          IN mem' = [mem EXCEPT ![p] = m]
  /\ UNCHANGED <<now, lock, pc, cache, init, disk, historyVars, starts>>

\* Mutant: the whole WAL is sealed with the batch.
FlusherCommitSealsAll(p) ==
  /\ mem[p].queue # <<>>
  /\ LET m == [mem[p] EXCEPT !.queue = Tail(@), !.segs = Append(@, Head(mem[p].queue).rows),
                             !.sealed = Len(disk.wal)]
     IN /\ mem' = [mem EXCEPT ![p] = m]
        /\ disk' = [disk EXCEPT !.segs = m.segs, !.sealed = m.sealed]
  /\ UNCHANGED <<now, lock, pc, cache, init, historyVars, starts>>

\* The flusher commits a batch: segment and seal pointer in one save of the
\* manifest, which retires the WAL files up to it.
FlusherCommit(p) ==
  /\ mem[p].queue # <<>>
  /\ LET batch == Head(mem[p].queue)
         m == [mem[p] EXCEPT !.queue = Tail(@), !.segs = Append(@, batch.rows),
                             !.sealed = IF batch.sealed > @ THEN batch.sealed ELSE @]
     IN /\ mem' = [mem EXCEPT ![p] = m]
        /\ disk' = [disk EXCEPT !.segs = m.segs, !.sealed = m.sealed]
  /\ UNCHANGED <<now, lock, pc, cache, init, historyVars, starts>>

\* A tick of the rollup worker that force-drains the memtable; it sends the batch
\* before it goes on.
ForceDrain(p) ==
  /\ "rollup" \in mem[p].tasks
  /\ ~HasToSend(p, "rollup")
  /\ mem[p].memtable # <<>>
  /\ mem' = [mem EXCEPT ![p] = Drained(@, "rollup", Len(disk.wal))]
  /\ UNCHANGED <<now, lock, pc, cache, init, disk, historyVars, starts>>

-----------------------------------------------------------------------------
(* Shutdown *)

\* ctrl+c: start_server returns once the requests in flight are answered.
CtrlC(p) ==
  /\ pc[p] = "serving"
  /\ ~HasToSend(p, "handler")
  /\ pc' = [pc EXCEPT ![p] = "drain"]
  /\ UNCHANGED <<now, lock, mem, cache, init, disk, historyVars, starts>>

\* Mutant: the memtable is not drained.
ShutdownDrainSkipped(p) ==
  /\ pc[p] = "drain"
  /\ pc' = [pc EXCEPT ![p] = "notify"]
  /\ UNCHANGED <<now, lock, mem, cache, init, disk, historyVars, starts>>

\* The shutdown drain.
ShutdownDrain(p) ==
  /\ pc[p] = "drain"
  /\ mem' = [mem EXCEPT ![p] = Drained(@, "main", Len(disk.wal))]
  /\ pc' = [pc EXCEPT ![p] = "notify"]
  /\ UNCHANGED <<now, lock, cache, init, disk, historyVars, starts>>

\* After the main task's own send: notify_waiters for both workers, which wakes
\* those that wait in select (a worker in the middle of a tick misses it), and
\* drop(state).
NotifyWorkers(p) ==
  /\ pc[p] = "notify"
  /\ ~HasToSend(p, "main")
  /\ \E inTick \in SUBSET Workers :
       /\ HasToSend(p, "rollup") => "rollup" \in inTick
       /\ mem' = [mem EXCEPT ![p] = [@ EXCEPT !.tasks = inTick]]
  /\ pc' = [pc EXCEPT ![p] = "join"]
  /\ UNCHANGED <<now, lock, cache, init, disk, historyVars, starts>>

\* The tasks that hold the shared state, and with it a sender of the flush
\* channel.  The flusher is one of them for as long as it runs.
SenderHolders(p) == {"flusher"} \cup mem[p].tasks

\* The three joins of run_server: the flusher ends when recv finds the queue
\* empty and no sender left, the workers when they were notified.
Joined(p) ==
  /\ pc[p] = "join"
  /\ mem[p].queue = <<>>
  /\ SenderHolders(p) = {}
  /\ mem[p].tasks = {}

\* The process ends, after the joins or by a crash at any moment; the operating
\* system releases the lock.
ProcessEnds(p) ==
  /\ pc[p] # "off"
  /\ pc' = [pc EXCEPT ![p] = "off"]
  /\ mem' = [mem EXCEPT ![p] = NoMemory]
  /\ lock' = lock \ {p}
  /\ cache' = [cache EXCEPT ![p] = <<>>]
  /\ UNCHANGED <<now, init, disk, historyVars, starts>>

-----------------------------------------------------------------------------

Next ==
  \/ TimePasses
  \/ \E p \in Procs : Acquire(p) \/ Recover(p) \/ OpenStateForAdmin(p) \/ AdminCommand(p)
  \/ \E p \in Servers, e \in Events : Ingest(p, e)
  \/ \E p \in Servers : Send(p) \/ FlusherCommit(p) \/ ForceDrain(p)
  \/ \E p \in Servers : CtrlC(p) \/ ShutdownDrain(p) \/ NotifyWorkers(p)
  \/ \E p \in Procs : ProcessEnds(p)

Spec == Init /\ [][Next]_vars

\* The runtime runs every task that can run, a send that waits for a place in the
\* channel goes on when there is one, and the main task goes on with the shutdown.
Fairness ==
  \A p \in Servers :
    /\ WF_vars(Send(p))
    /\ WF_vars(FlusherCommit(p))
    /\ WF_vars(ShutdownDrain(p))
    /\ WF_vars(NotifyWorkers(p))
    /\ WF_vars(Joined(p) /\ ProcessEnds(p))

FairSpec == Spec /\ Fairness

-----------------------------------------------------------------------------
(* Properties *)

\* The type invariant.
TypeOK ==
  /\ now \in Start..MaxTime
  /\ lock \subseteq Procs
  /\ pc \in [Procs -> {"off", "locked", "command", "serving", "drain", "notify", "join"}]
  /\ mem \in [Procs -> Memories]
  /\ init \in BOOLEAN
  /\ disk \in [segs : Seq(Seq(Rows)), sealed : Nat, wal : Seq(Rows)]
  /\ accepted \subseteq Rows

\* The cache and its queue hold an event once: commit and insert_known look it up
\* first, so that an eviction from the queue removes what it means to remove.
CacheUnique ==
  \A p \in Procs : \A i, j \in DOMAIN cache[p] : cache[p][i].id = cache[p][j].id => i = j

\* Processes do not clobber each other's manifest: no save removes a segment
\* that another process has committed (the comment in runtime/lock.rs).  A
\* server's own compaction, which swaps segments under its manifest lock, is in
\* the module Compaction.
SegmentsKept == [][\A s \in Range(disk.segs) : s \in Range(disk'.segs)]_vars

\* An event that is sent again within the dedupe window is not accepted again,
\* across flushes, shutdowns, crashes and recoveries (Excused says when the
\* cache may have forgotten it).
RetryDetected == rebilled = {}

\* If batches are sent in the order they were drained in, every accepted event is
\* in a committed segment or in the WAL that recovery replays: neither the drains
\* nor the shutdown drop one, wherever a crash falls between drain, send and
\* commit.
NothingDropped ==
  \A a \in accepted :
    \/ \E k \in (disk.sealed + 1)..Len(disk.wal) : a = disk.wal[k]
    \/ \E s \in Range(disk.segs) : a \in Range(s)

\* The shutdown drain: after ctrl+c everything that was accepted reaches a
\* segment, unless the process is killed first.
DrainedAtShutdown ==
  \A p \in Servers :
    pc[p] = "drain" ~>
      \/ pc[p] = "off"
      \/ /\ mem[p].memtable = <<>> /\ mem[p].unsent = <<>> /\ mem[p].queue = <<>>
         /\ disk.sealed = Len(disk.wal)

\* main.rs: after the shutdown sequence the process ends.
ShutdownTerminates == \A p \in Servers : pc[p] = "join" ~> pc[p] = "off"

=============================================================================
