--------------------------- MODULE IngestPipeline ---------------------------
(***************************************************************************)
(* The durable write path of usagedb: HTTP ingest, hot dedupe, the         *)
(* write-ahead log, the memtable, the bounded flush channel, the flusher,  *)
(* the manifest commit, WAL deletion, crash and startup recovery.          *)
(*                                                                         *)
(* One action per step at which another task, or a crash, can intervene.   *)
(* ingest_critical_section holds the dedupe, WAL and memtable locks from   *)
(* classification to rotation, so it is two steps: the append into the     *)
(* BufWriter, and everything from the sync on; only a crash can fall in    *)
(* between.  The send on the flush channel comes after the locks are       *)
(* released and is a step of its own.                                      *)
(*                                                                         *)
(* Data abstraction.  A Record is one line written for an event: a retry   *)
(* after a failed sync writes another copy.  Containers are sets of        *)
(* records.  Event sizes are not modelled, so whether the memtable         *)
(* exceeds its limit is a free choice.  manifest.raw is the set of records *)
(* readable through the manifest's raw segments: a reference to a segment  *)
(* file that does not exist contributes nothing, as every reader skips it. *)
(* Dedupe eviction (TTL, capacity) is outside this module.                 *)
(*                                                                         *)
(* A file that was created is still there after a crash: the code syncs    *)
(* the contents of WAL and segment files and not their directory, and      *)
(* leaves the entry to the file system.                                    *)
(***************************************************************************)
EXTENDS Integers, Sequences, FiniteSets

CONSTANTS
  Events,          \* the distinct events (an event id together with a payload)
  Ids,             \* event ids
  EventId,         \* [Events -> Ids]
  Bucket,          \* [Events -> Nat]: bucket_for_account of the event's account
  Clients,         \* concurrent POST /v1/events handlers
  RollupWorker,    \* the task that force-drains a stale memtable
  InOrderSends,    \* TRUE: drained batches enter the channel in sealing order
  Faults,          \* the I/O failures that may happen (a subset of FaultKinds)
  ChannelCapacity, \* mpsc::channel(4)
  MaxBatch,        \* bound: events of one request
  MaxWalId,        \* bound: WAL file ids
  MaxCopies,       \* bound: lines written for one event
  MaxFaults        \* bound: I/O failures in a behaviour

FaultKinds == {"append", "sync", "rotate", "cancel", "bucket", "save", "unlink", "torn"}

Tasks == Clients \cup {RollupWorker}

ASSUME IngestAssumption ==
  /\ EventId \in [Events -> Ids]
  /\ Bucket \in [Events -> Nat]
  /\ RollupWorker \notin Clients
  /\ InOrderSends \in BOOLEAN
  /\ Faults \subseteq FaultKinds
  /\ ChannelCapacity \in Nat \ {0}
  /\ MaxBatch \in Nat \ {0}
  /\ MaxWalId \in Nat \ {0}
  /\ MaxCopies \in Nat \ {0}
  /\ MaxFaults \in Nat

WalIds == 1..MaxWalId
Records == [ev : Events, copy : 0..MaxCopies]
Messages == [events : SUBSET Records, sealed : 0..MaxWalId]
Manifests == [raw : SUBSET Records, sealed : 0..MaxWalId]

NoMsg == [events |-> {}, sealed |-> 0]
IdleTask == [pc |-> "idle", recs |-> {}, acks |-> {}, msg |-> NoMsg]
IdleFlusher == [pc |-> "idle", msg |-> NoMsg]

VARIABLES
  \* durable state
  wal,       \* [WalIds -> SUBSET Records]: synced lines that replay can parse
  files,     \* ids of the WAL files in the directory
  torn,      \* the file being appended to ends in a partial line
  disk,      \* the manifest a restart would load
  \* volatile state
  up,        \* the server runs
  tail,      \* lines appended since the last successful sync
  dirty,     \* bytes were appended since the last successful sync
  activeId,  \* Wal.active_id
  fileId,    \* id of the file behind Wal.file
  dedupe,    \* events in the hot dedupe cache
  memtable,  \* buffered records
  task,      \* [Tasks -> progress of the task]
  channel,   \* the flush channel
  flusher,   \* progress of the flusher worker
  manifest,  \* the in-memory manifest
  \* history
  acked,     \* events some response counted as accepted or duplicate
  copies,    \* [Events -> Nat]: lines ever written for the event
  faults     \* I/O failures so far

vars == <<wal, files, torn, disk, up, tail, dirty, activeId, fileId, dedupe,
          memtable, task, channel, flusher, manifest, acked, copies, faults>>

-----------------------------------------------------------------------------
(* Helpers *)

EventsOf(recs) == {r.ev : r \in recs}
IdsOf(evs) == {EventId[e] : e \in evs}

\* Mutant: a request is not deduplicated against itself.
FirstsUnfiltered(evs) == {evs}

\* The choices of one event per id out of evs: the first of several with the
\* same id wins, whichever that is.
Firsts(evs) ==
  {S \in SUBSET evs :
     /\ IdsOf(S) = IdsOf(evs)
     /\ \A a, b \in S : EventId[a] = EventId[b] => a = b}

Fault(kind) ==
  /\ kind \in Faults
  /\ faults < MaxFaults
  /\ faults' = faults + 1

\* The dedupe, WAL and memtable locks are free.
LocksFree == \A p \in Tasks : task[p].pc # "append"

\* Mutant: the comparison with the seal pointer is off by one.
ListFilesAfterNext(last) == {f \in files : f > last + 1}

\* Wal::list_files_after
ListFilesAfter(last) == {f \in files : f > last}

\* Mutant: the file after the last sealed one goes too.
DeleteFilesPast(upTo) == {f \in files : f <= upTo + 1}

\* Wal::delete_files_through: the ids it removes
DeleteFilesThrough(upTo) == {f \in files : f <= upTo}

\* Mutant: the seal pointer names the file that was just opened.
SealOpened(current, sealed) == IF sealed > current THEN sealed + 1 ELSE current

\* The seal pointer only moves forward.
SealThrough(current, sealed) == IF sealed > current THEN sealed ELSE current

\* Wal::sync: everything appended so far becomes durable in the open file.
Sync ==
  /\ wal' = [wal EXCEPT ![fileId] = @ \cup tail]
  /\ tail' = {}
  /\ dirty' = FALSE

\* The ingest path syncs only if the request appended something.
SyncNew(recs) == IF recs = {} THEN UNCHANGED <<wal, tail, dirty>> ELSE Sync

-----------------------------------------------------------------------------
(* A freshly created database, just opened: WAL file 1 is active. *)

Init ==
  /\ wal = [f \in WalIds |-> {}]
  /\ files = {1}
  /\ torn = FALSE
  /\ disk = [raw |-> {}, sealed |-> 0]
  /\ up = TRUE
  /\ tail = {}
  /\ dirty = FALSE
  /\ activeId = 1
  /\ fileId = 1
  /\ dedupe = {}
  /\ memtable = {}
  /\ task = [p \in Tasks |-> IdleTask]
  /\ channel = <<>>
  /\ flusher = IdleFlusher
  /\ manifest = [raw |-> {}, sealed |-> 0]
  /\ acked = {}
  /\ copies = [e \in Events |-> 0]
  /\ faults = 0

-----------------------------------------------------------------------------
(* handle_ingest *)

\* Phases 1 and 2a of ingest_critical_section: take the locks, classify the
\* batch against the cache and against itself, append the new events to the
\* BufWriter.  If the open file ends in a torn line, the first appended line
\* completes that line and neither can be parsed.
IngestAppend(c, batch) ==
  /\ up
  /\ task[c].pc = "idle"
  /\ LocksFree
  /\ \E new \in Firsts({e \in batch : EventId[e] \notin IdsOf(dedupe)}) :
       LET recs == {[ev |-> e, copy |-> copies[e]] : e \in new}
       IN /\ \A e \in new : copies[e] < MaxCopies
          /\ \E lost \in IF torn /\ recs # {} THEN {{r} : r \in recs} ELSE {{}} :
               tail' = tail \cup (recs \ lost)
          /\ torn' = (torn /\ recs = {})
          /\ dirty' = (dirty \/ recs # {})
          /\ copies' = [e \in Events |-> IF e \in new THEN copies[e] + 1 ELSE copies[e]]
          /\ task' = [task EXCEPT ![c] =
               [pc |-> "append", recs |-> recs,
                acks |-> new \cup (batch \cap dedupe), msg |-> NoMsg]]
  /\ UNCHANGED <<wal, files, disk, up, activeId, fileId, dedupe, memtable,
                 channel, flusher, manifest, acked, faults>>

\* append_batch or sync returns an error: 500, nothing enters the cache or the
\* memtable.  A failed sync leaves the whole batch buffered or unsynced; a
\* failed append leaves some of its lines, perhaps without the last newline.
IngestWalFails(c) ==
  /\ task[c].pc = "append"
  /\ task[c].recs # {}
  /\ \/ /\ Fault("sync")
        /\ UNCHANGED <<tail, torn>>
     \/ /\ Fault("append")
        /\ \E lost \in SUBSET task[c].recs : tail' = tail \ lost
        /\ torn' \in BOOLEAN
  /\ task' = [task EXCEPT ![c] = IdleTask]
  /\ UNCHANGED <<wal, files, disk, up, dirty, activeId, fileId, dedupe,
                 memtable, channel, flusher, manifest, acked, copies>>

\* Phases 2b and 3 when the memtable stays within its limit: sync if anything
\* was appended, commit to the cache, insert into the memtable, unlock, answer.
IngestCommit(c) ==
  /\ task[c].pc = "append"
  /\ SyncNew(task[c].recs)
  /\ dedupe' = dedupe \cup EventsOf(task[c].recs)
  /\ memtable' = memtable \cup task[c].recs
  /\ acked' = acked \cup task[c].acks
  /\ task' = [task EXCEPT ![c] = IdleTask]
  /\ UNCHANGED <<files, torn, disk, up, activeId, fileId, channel, flusher,
                 manifest, copies, faults>>

\* Mutant: the id moves on but the writer keeps the old file.
RotateKeepsFile ==
  /\ activeId < MaxWalId
  /\ Sync
  /\ torn' = FALSE
  /\ activeId' = activeId + 1
  /\ files' = files \cup {activeId + 1}
  /\ UNCHANGED fileId

\* Wal::rotate: sync the open file, seal its id, open the next file.
Rotate ==
  /\ activeId < MaxWalId
  /\ Sync
  /\ torn' = FALSE
  /\ activeId' = activeId + 1
  /\ fileId' = activeId + 1
  /\ files' = files \cup {activeId + 1}

\* Wal::rotate returns an error: either its flush or sync failed, and only what
\* the caller had synced before is durable, or the next file could not be
\* opened after active_id was incremented, and writes keep going to the old
\* file.
RotateFails(recs) ==
  /\ Fault("rotate")
  /\ \/ /\ SyncNew(recs)
        /\ UNCHANGED activeId
     \/ /\ activeId < MaxWalId
        /\ Sync
        /\ activeId' = activeId + 1
  /\ UNCHANGED <<files, torn, fileId>>

\* As IngestCommit, but the memtable exceeds max_memtable_size_bytes: drain
\* it, rotate the WAL, unlock, and go on to send the batch to the flusher.
IngestOverflow(c) ==
  /\ task[c].pc = "append"
  /\ memtable \cup task[c].recs # {}
  /\ Rotate
  /\ dedupe' = dedupe \cup EventsOf(task[c].recs)
  /\ memtable' = {}
  /\ task' = [task EXCEPT ![c] =
       [pc |-> "send", recs |-> {}, acks |-> task[c].acks,
        msg |-> [events |-> memtable \cup task[c].recs, sealed |-> activeId]]]
  /\ UNCHANGED <<disk, up, channel, flusher, manifest, acked, copies, faults>>

\* The same with a rotation that fails: the drained events are dropped and the
\* request is answered 500, although the sync succeeded.
IngestRotateFails(c) ==
  /\ task[c].pc = "append"
  /\ memtable \cup task[c].recs # {}
  /\ RotateFails(task[c].recs)
  /\ dedupe' = dedupe \cup EventsOf(task[c].recs)
  /\ memtable' = {}
  /\ task' = [task EXCEPT ![c] = IdleTask]
  /\ UNCHANGED <<disk, up, channel, flusher, manifest, acked, copies>>

\* Mutant: the channel is unbounded.
SendFlushUnbounded(p) ==
  /\ task[p].pc = "send"
  /\ channel' = Append(channel, task[p].msg)
  /\ acked' = acked \cup task[p].acks
  /\ task' = [task EXCEPT ![p] = IdleTask]
  /\ UNCHANGED <<wal, files, torn, disk, up, tail, dirty, activeId, fileId,
                 dedupe, memtable, flusher, manifest, copies, faults>>

\* The send on the flush channel, made after the locks are released; it waits
\* while the channel is full.  The response follows it.
SendFlush(p) ==
  /\ task[p].pc = "send"
  /\ Len(channel) < ChannelCapacity
  /\ InOrderSends =>
       \A q \in Tasks : task[q].pc = "send" => task[p].msg.sealed <= task[q].msg.sealed
  /\ channel' = Append(channel, task[p].msg)
  /\ acked' = acked \cup task[p].acks
  /\ task' = [task EXCEPT ![p] = IdleTask]
  /\ UNCHANGED <<wal, files, torn, disk, up, tail, dirty, activeId, fileId,
                 dedupe, memtable, flusher, manifest, copies, faults>>

\* The client disconnects while its handler waits for room in the channel: the
\* handler's future is dropped, and the drained batch with it.
HandlerDropped(c) ==
  /\ task[c].pc = "send"
  /\ Len(channel) = ChannelCapacity
  /\ Fault("cancel")
  /\ task' = [task EXCEPT ![c] = IdleTask]
  /\ UNCHANGED <<wal, files, torn, disk, up, tail, dirty, activeId, fileId,
                 dedupe, memtable, channel, flusher, manifest, acked, copies>>

-----------------------------------------------------------------------------
(* RollupWorker::force_drain_memtable *)

ForceDrainMemtable ==
  /\ up
  /\ task[RollupWorker].pc = "idle"
  /\ LocksFree
  /\ memtable # {}
  /\ memtable' = {}
  /\ \/ /\ Rotate
        /\ task' = [task EXCEPT ![RollupWorker] =
             [pc |-> "send", recs |-> {}, acks |-> {},
              msg |-> [events |-> memtable, sealed |-> activeId]]]
        /\ UNCHANGED faults
     \/ /\ RotateFails({})
        /\ UNCHANGED task
  /\ UNCHANGED <<disk, up, dedupe, channel, flusher, manifest, acked, copies>>

-----------------------------------------------------------------------------
(* Flusher *)

\* receiver.recv() and the start of handle_message; an empty message is skipped.
FlusherRecv ==
  /\ up
  /\ flusher.pc = "idle"
  /\ channel # <<>>
  /\ channel' = Tail(channel)
  /\ flusher' = IF Head(channel).events = {}
                  THEN IdleFlusher
                  ELSE [pc |-> "write", msg |-> Head(channel)]
  /\ UNCHANGED <<wal, files, torn, disk, up, tail, dirty, activeId, fileId,
                 dedupe, memtable, task, manifest, acked, copies, faults>>

\* The write_bucket loop of attempt_flush: one synced segment file per bucket,
\* in bucket order.  A failure removes the segments already written and hands
\* back the events of the failing bucket and of the buckets after it.
WriteBuckets ==
  /\ flusher.pc = "write"
  /\ \/ /\ flusher' = [flusher EXCEPT !.pc = "commit"]
        /\ UNCHANGED faults
     \/ /\ Fault("bucket")
        /\ \E failing \in flusher.msg.events :
             flusher' = [pc |-> "reinsert",
                         msg |-> [flusher.msg EXCEPT !.events =
                           {r \in @ : Bucket[r.ev] >= Bucket[failing.ev]}]]
  /\ UNCHANGED <<wal, files, torn, disk, up, tail, dirty, activeId, fileId,
                 dedupe, memtable, task, channel, manifest, acked, copies>>

\* Mutant: the failed events return to the memtable and are also retried.
ReinsertAndRetry ==
  /\ flusher.pc = "reinsert"
  /\ LocksFree
  /\ memtable' = memtable \cup flusher.msg.events
  /\ flusher' = [flusher EXCEPT !.pc = "write"]
  /\ UNCHANGED <<wal, files, torn, disk, up, tail, dirty, activeId, fileId,
                 dedupe, task, channel, manifest, acked, copies, faults>>

\* handle_message after a failed flush: the events handed back return to the
\* memtable.
ReinsertFailed ==
  /\ flusher.pc = "reinsert"
  /\ LocksFree
  /\ memtable' = memtable \cup flusher.msg.events
  /\ flusher' = IdleFlusher
  /\ UNCHANGED <<wal, files, torn, disk, up, tail, dirty, activeId, fileId,
                 dedupe, task, channel, manifest, acked, copies, faults>>

\* Mutant: the seal pointer moves and the segments are not added.
CommitSealOnly ==
  /\ flusher.pc = "commit"
  /\ manifest' = [manifest EXCEPT !.sealed = SealThrough(@, flusher.msg.sealed)]
  /\ disk' = manifest'
  /\ flusher' = [flusher EXCEPT !.pc = "delete"]
  /\ UNCHANGED <<wal, files, torn, up, tail, dirty, activeId, fileId, dedupe,
                 memtable, task, channel, acked, copies, faults>>

\* The manifest commit of attempt_flush, under the manifest write lock: the new
\* segments and the seal pointer become durable together.
CommitManifest ==
  /\ flusher.pc = "commit"
  /\ manifest' = [raw |-> manifest.raw \cup flusher.msg.events,
                  sealed |-> SealThrough(manifest.sealed, flusher.msg.sealed)]
  /\ disk' = manifest'
  /\ flusher' = [flusher EXCEPT !.pc = "delete"]
  /\ UNCHANGED <<wal, files, torn, up, tail, dirty, activeId, fileId, dedupe,
                 memtable, task, channel, acked, copies, faults>>

\* Manifest::save returns an error.  The segment files are removed and no event
\* is handed back, while the in-memory manifest keeps the moved seal pointer.
\* The error may come after CURRENT was renamed (the directory sync), in which
\* case a restart loads the new generation.
SaveFails ==
  /\ flusher.pc = "commit"
  /\ Fault("save")
  /\ manifest' = [manifest EXCEPT !.sealed = SealThrough(@, flusher.msg.sealed)]
  /\ disk' \in {disk, manifest'}
  /\ flusher' = IdleFlusher
  /\ UNCHANGED <<wal, files, torn, up, tail, dirty, activeId, fileId, dedupe,
                 memtable, task, channel, acked, copies>>

\* The end of attempt_flush: delete the sealed WAL files; a file that cannot be
\* removed stays.
DeleteSealedWal ==
  /\ flusher.pc = "delete"
  /\ \E gone \in SUBSET DeleteFilesThrough(flusher.msg.sealed) :
       /\ \/ gone = DeleteFilesThrough(flusher.msg.sealed) /\ UNCHANGED faults
          \/ gone # DeleteFilesThrough(flusher.msg.sealed) /\ Fault("unlink")
       /\ files' = files \ gone
       /\ wal' = [f \in WalIds |-> IF f \in gone THEN {} ELSE wal[f]]
  /\ flusher' = IdleFlusher
  /\ UNCHANGED <<torn, disk, up, tail, dirty, activeId, fileId, dedupe,
                 memtable, task, channel, manifest, acked, copies>>

-----------------------------------------------------------------------------
(* Crash and restart *)

\* Volatile state is gone.  Any part of the unsynced tail may have reached the
\* file, which may now end in the middle of a line.
Crash ==
  /\ up
  /\ \E kept \in SUBSET tail : wal' = [wal EXCEPT ![fileId] = @ \cup kept]
  /\ torn' \in IF dirty /\ "torn" \in Faults THEN BOOLEAN ELSE {torn}
  /\ up' = FALSE
  /\ tail' = {}
  /\ dirty' = FALSE
  /\ dedupe' = {}
  /\ memtable' = {}
  /\ task' = [p \in Tasks |-> IdleTask]
  /\ channel' = <<>>
  /\ flusher' = IdleFlusher
  /\ manifest' = disk
  /\ UNCHANGED <<files, disk, activeId, fileId, acked, copies, faults>>

\* Wal::open: the highest unsealed file is active again, or the id after the
\* seal pointer.
WalOpen(sealed) ==
  LET unsealed == ListFilesAfter(sealed)
  IN IF unsealed = {} THEN sealed + 1
     ELSE CHOOSE f \in unsealed : \A g \in unsealed : g <= f

\* Mutant: only the WAL is registered.
RecoveredFromWal(replayed) == EventsOf(replayed)

\* The events recovery registers in the dedupe cache: those replayed from the
\* WAL and those of the raw segments.
RecoveredEvents(replayed) == EventsOf(replayed) \cup EventsOf(disk.raw)

\* run_startup_recovery and the opening of the WAL: drop the sealed files,
\* replay the others into cache and memtable, register the events of the raw
\* segments.  The cache keeps the first payload it sees for an id.
RunStartupRecovery ==
  /\ ~up
  /\ WalOpen(disk.sealed) \in WalIds
  /\ LET replayed == UNION {wal[f] : f \in ListFilesAfter(disk.sealed)}
         gone == DeleteFilesThrough(disk.sealed)
     IN /\ memtable' = replayed
        /\ dedupe' \in Firsts(RecoveredEvents(replayed))
        /\ files' = (files \ gone) \cup {WalOpen(disk.sealed)}
        /\ wal' = [f \in WalIds |-> IF f \in gone THEN {} ELSE wal[f]]
  /\ activeId' = WalOpen(disk.sealed)
  /\ fileId' = WalOpen(disk.sealed)
  /\ torn' = (torn /\ WalOpen(disk.sealed) = fileId)
  /\ up' = TRUE
  /\ manifest' = disk
  /\ UNCHANGED <<disk, tail, dirty, task, channel, flusher, acked, copies, faults>>

-----------------------------------------------------------------------------

Batches == {B \in SUBSET Events : B # {} /\ Cardinality(B) <= MaxBatch}

Client(c) ==
  \/ \E B \in Batches : IngestAppend(c, B)
  \/ IngestWalFails(c)
  \/ IngestCommit(c)
  \/ IngestOverflow(c)
  \/ IngestRotateFails(c)
  \/ SendFlush(c)
  \/ HandlerDropped(c)

Flusher ==
  \/ FlusherRecv
  \/ WriteBuckets
  \/ ReinsertFailed
  \/ CommitManifest
  \/ SaveFails
  \/ DeleteSealedWal

Next ==
  \/ \E c \in Clients : Client(c)
  \/ ForceDrainMemtable
  \/ SendFlush(RollupWorker)
  \/ Flusher
  \/ Crash
  \/ RunStartupRecovery

Spec == Init /\ [][Next]_vars

-----------------------------------------------------------------------------
(* Properties *)

TaskStates == [pc : {"idle", "append", "send"}, recs : SUBSET Records,
               acks : SUBSET Events, msg : Messages]
FlusherStates == [pc : {"idle", "write", "reinsert", "commit", "delete"},
                  msg : Messages]

\* The type invariant of the write path.
TypeOK ==
  /\ wal \in [WalIds -> SUBSET Records]
  /\ files \subseteq WalIds
  /\ torn \in BOOLEAN
  /\ disk \in Manifests
  /\ up \in BOOLEAN
  /\ tail \subseteq Records
  /\ dirty \in BOOLEAN
  /\ activeId \in WalIds
  /\ fileId \in WalIds
  /\ dedupe \subseteq Events
  /\ memtable \subseteq Records
  /\ task \in [Tasks -> TaskStates]
  /\ channel \in Seq(Messages)
  /\ Len(channel) <= ChannelCapacity
  /\ flusher \in FlusherStates
  /\ manifest \in Manifests
  /\ acked \subseteq Events
  /\ copies \in [Events -> 0..MaxCopies]
  /\ faults \in 0..MaxFaults

\* Messages handed to the channel or waiting for it, and the one being flushed.
InFlight ==
  {task[p].msg : p \in {q \in Tasks : task[q].pc = "send"}}
    \cup {channel[i] : i \in DOMAIN channel}
    \cup (IF flusher.pc \in {"write", "commit"} THEN {flusher.msg} ELSE {})

\* What a raw query reads now, and what a restart would reconstruct.
Visible == manifest.raw \cup memtable
Replayable == UNION {wal[f] : f \in ListFilesAfter(disk.sealed)}
Recoverable == disk.raw \cup Replayable

\* Every event a response counted as accepted or duplicate is in a committed
\* segment or in a WAL file that recovery would replay: the durability promise
\* of POST /v1/events, across flushes, WAL deletion and crashes.
AckedDurable == acked \subseteq EventsOf(Recoverable)

OncePerId(recs) ==
  \A r, s \in recs : EventId[r.ev] = EventId[s.ev] => r = s

\* No event id is counted twice, by a query now or after a restart: retries,
\* conflicting payloads, re-inserted batches and WAL replay included.
BilledOnce ==
  /\ OncePerId(Visible)
  /\ OncePerId(Recoverable)
  /\ manifest.raw \cap memtable = {}
  /\ disk.raw \cap Replayable = {}

\* The memtable, every message in flight and the committed segments hold
\* disjoint records: a flush never commits a record that another flush, or the
\* memtable, commits again.
OneOwner ==
  /\ \A m \in InFlight : m.events \cap Visible = {}
  /\ \A m1, m2 \in InFlight : m1 # m2 => m1.events \cap m2.events = {}

\* Wal.append_batch always writes to an existing file above the seal pointer,
\* also after a rotation that failed half way: no acknowledged line lands in a
\* file that delete_files_through may take or that recovery would skip.
OpenFileUnsealed ==
  up => fileId \in files /\ manifest.sealed < fileId

\* While the server runs, every acknowledged event is in a segment, in the
\* memtable or on its way through the flusher: no acknowledged event waits in
\* the WAL for a restart to make it visible again.
NoneStranded ==
  up => acked \subseteq EventsOf(Visible \cup UNION {m.events : m \in InFlight}
                                   \cup flusher.msg.events)

\* A WAL file at or below the seal pointer holds only records that the
\* committed segments hold too, so deleting it loses nothing
\* (Manifest.last_sealed_wal_id).
SealedIsCommitted ==
  \A f \in DeleteFilesThrough(disk.sealed) : wal[f] \subseteq disk.raw

-----------------------------------------------------------------------------
(* The inductive invariant behind AckedDurable, for sends in sealing order and
   for the faults that do not lose data. *)

ToleratedFaults == {"sync", "unlink"}

\* Only a running server has tasks, messages and unsynced lines; one task at a
\* time is inside the critical section, and its lines are in the tail.
TasksInv ==
  /\ ~up => /\ tail = {}
            /\ channel = <<>>
            /\ flusher = IdleFlusher
            /\ \A p \in Tasks : task[p] = IdleTask
  /\ \A p, q \in Tasks : task[p].pc = "append" /\ task[q].pc = "append" => p = q
  /\ \A p \in Tasks :
       /\ task[p].pc = "append" =>
            /\ task[p].recs \subseteq tail
            /\ task[p].acks \subseteq dedupe \cup EventsOf(task[p].recs)
       /\ task[p].pc = "send" => task[p].acks \subseteq dedupe

\* The active file is open and is the highest one; the seal pointer is below
\* it; memory and disk agree on the manifest.
WalInv ==
  /\ ~torn
  /\ fileId = activeId
  /\ activeId \in files
  /\ \A f \in files : f <= activeId
  /\ disk.sealed < activeId
  /\ manifest = disk

\* Messages carry events, sit between the seal pointer and the active file, and
\* reach the flusher in the order in which their files were sealed.
QueueInv ==
  /\ \A m \in InFlight : /\ m.events # {}
                         /\ disk.sealed < m.sealed
                         /\ m.sealed < activeId
  /\ \A i, j \in DOMAIN channel : i < j => channel[i].sealed < channel[j].sealed
  /\ \A p \in Tasks : task[p].pc = "send" =>
       /\ \A i \in DOMAIN channel : channel[i].sealed < task[p].msg.sealed
       /\ \A q \in Tasks : task[q].pc = "send" /\ task[p].msg.sealed = task[q].msg.sealed
                             => p = q
  /\ flusher.pc \in {"write", "commit"} =>
       /\ \A i \in DOMAIN channel : flusher.msg.sealed < channel[i].sealed
       /\ \A p \in Tasks : task[p].pc = "send" => flusher.msg.sealed < task[p].msg.sealed
  /\ flusher.pc = "delete" => flusher.msg.sealed <= disk.sealed
  /\ flusher.pc # "reinsert"

\* A record is safe in a WAL file: the file is unsealed and holds it, no message
\* in flight seals the file before the record is committed, and the running
\* server still has the record in memory.
SafeIn(r, f) ==
  /\ disk.sealed < f
  /\ r \in wal[f]
  /\ \A m \in InFlight : f <= m.sealed =>
       \E m2 \in InFlight : m2.sealed <= m.sealed /\ r \in m2.events
  /\ up => r \in memtable \/ \E m \in InFlight : r \in m.events
SafeRecord(r) == r \in disk.raw \/ \E f \in files : SafeIn(r, f)

SafeInv == \A e \in acked \cup dedupe : \E r \in Records : r.ev = e /\ SafeRecord(r)

\* The conjunction of the above, inductive under the tolerated faults.
IngestInv == TypeOK /\ TasksInv /\ WalInv /\ QueueInv /\ SafeInv

-----------------------------------------------------------------------------
(* Refinement and liveness *)

\* The write path implements the durable log: what a restart would reconstruct
\* only grows and covers every acknowledgement.
Log == INSTANCE DurableLog WITH log <- EventsOf(Recoverable)
ImplementsDurableLog == Log!Spec

\* The scheduler runs every task that can run; a crashed server is restarted.
Fairness ==
  /\ \A c \in Clients : WF_vars(IngestCommit(c) \/ IngestOverflow(c))
  /\ \A p \in Tasks : WF_vars(SendFlush(p))
  /\ WF_vars(FlusherRecv)
  /\ WF_vars(WriteBuckets)
  /\ WF_vars(ReinsertFailed)
  /\ WF_vars(CommitManifest)
  /\ WF_vars(DeleteSealedWal)
  /\ WF_vars(RunStartupRecovery)

FairSpec == Spec /\ Fairness

\* An acknowledged event that a flush has taken out of the memtable becomes
\* visible to queries again: it does not stay in flight for ever.
AckedVisible == \A e \in Events : (e \in acked) ~> (e \in EventsOf(Visible))

=============================================================================
