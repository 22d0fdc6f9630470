------------------------- MODULE IngestPipelineProofs -------------------------
(***************************************************************************)
(* The flusher, a crash and recovery keep every record with one owner, and *)
(* with the senders they preserve the inductive invariant: what was        *)
(* acknowledged is durable, no id is billed twice, and the write path      *)
(* implements the durable log.                                             *)
(***************************************************************************)
EXTENDS IngestRecordProofs

-----------------------------------------------------------------------------
(* One owner *)

\* A step of the flusher while the tasks and the server go on as they are.
LEMMA FlusherRuns ==
  ASSUME RunInv, UNCHANGED <<up, task>>, up
  PROVE  RunInv' /\ Pending' = Pending
  BY Zenon DEF RunInv, Pending

\* The flusher works only in a running server.
LEMMA FlusherUp ==
  ASSUME RunInv, flusher.pc # "idle"
  PROVE  up
  BY DEF RunInv, IdleFlusher

\* receiver.recv().
LEMMA RecvStep ==
  ASSUME TypeOK, OwnershipInv, FlusherRecv
  PROVE  OwnershipInv' /\ Carries
  <1>1. up /\ UNCHANGED <<wal, files, disk, up, tail, dedupe, activeId, fileId, memtable, task, manifest, copies>>
    BY Zenon DEF FlusherRecv
  <1>2. Pending' = Pending /\ RunInv'
    BY <1>1, FlusherRuns, Zenon DEF OwnershipInv
  <1>3. Live' \subseteq Live /\ DistinctInv' /\ flusher'.pc # "delete"
    BY RecvMessages, Zenon DEF OwnershipInv
  <1>4. OwnershipInv' /\ NothingNew
    BY <1>1, <1>2, <1>3, QuietStep, Zenon
  <1> QED
    BY <1>1, <1>2, <1>4, Zenon DEF Carries

\* The write_bucket loop.
LEMMA WriteStep ==
  ASSUME TypeOK, OwnershipInv, WriteBuckets
  PROVE  OwnershipInv' /\ Carries
  <1> USE DEF OwnershipInv
  <1>1. flusher.pc = "write"
        /\ UNCHANGED <<wal, files, disk, up, tail, dedupe, activeId, fileId, memtable, task, channel, manifest, copies>>
    BY Zenon DEF WriteBuckets
  <1>2. flusher'.pc \in {"commit", "reinsert"} /\ flusher'.msg.sealed = flusher.msg.sealed
        /\ flusher'.msg.events \subseteq flusher.msg.events
    BY DEF WriteBuckets, TypeOK, FlusherStates, Messages
  <1>3. Pending' = Pending /\ RunInv'
    BY <1>1, FlusherUp, FlusherRuns, Zenon
  <1>4. /\ flusher.msg \in Live
        /\ \A m \in Live' : m = flusher'.msg \/ (m \in Live /\ m # flusher.msg)
        /\ DistinctInv'
    BY <1>1, <1>2, KeepMessages, Zenon DEF Flushing
  <1>5. SealInv'
    BY <1>1, <1>2, <1>4, Zenon DEF SealInv
  <1>6. RecordsInv' /\ NothingNew
    BY <1>1, <1>2, <1>3, <1>4, RecordsShrink, Zenon
  <1>7. Carries
    BY <1>1, <1>3, <1>6, Zenon DEF Carries
  <1> QED
    BY <1>3, <1>4, <1>5, <1>6, <1>7, Zenon

\* Handing the events of a failed flush back to the memtable.
LEMMA ReinsertStep ==
  ASSUME TypeOK, OwnershipInv, ReinsertFailed
  PROVE  OwnershipInv' /\ Carries
  <1> USE DEF OwnershipInv
  <1>1. flusher.pc = "reinsert" /\ flusher' = IdleFlusher /\ memtable' = memtable \cup flusher.msg.events
        /\ (\A p \in Tasks : task[p].pc # "append")
        /\ UNCHANGED <<wal, files, disk, up, tail, dedupe, activeId, fileId, task, channel, manifest, copies>>
    BY Zenon DEF ReinsertFailed, LocksFree
  <1>2. Pending' = Pending /\ RunInv' /\ Pending = {}
    BY <1>1, FlusherUp, FlusherRuns, Zenon DEF Pending
  <1>3. Flushing /\ flusher'.pc = "idle" /\ flusher.msg \in Live
    BY <1>1, Zenon DEF Flushing, IdleFlusher, Live
  <1>4. Live' \subseteq Live /\ (\A m \in Live' : m # flusher.msg) /\ DistinctInv'
    BY <1>1, <1>3, DoneMessages, Zenon
  <1>5. SealInv'
    BY <1>1, <1>3, <1>4, SealKept, Zenon
  <1>6. RecordsInv' /\ NothingNew
    <2>1. tail \cap flusher.msg.events = {}
      BY <1>3, Zenon DEF RecordsInv, OwnerInv, InMessages
    <2> QED
      BY <1>1, <1>2, <1>3, <1>4, <2>1, RecordTypes, LiveType, RecordsTake, Zenon
  <1>7. Carries
    BY <1>1, <1>2, <1>6, Zenon DEF Carries
  <1> QED
    BY <1>2, <1>4, <1>5, <1>6, <1>7, Zenon

\* The manifest commit of a flush.
LEMMA ManifestStep ==
  ASSUME TypeOK, OwnershipInv, CommitManifest
  PROVE  OwnershipInv' /\ Carries
  <1> USE DEF OwnershipInv
  <1> DEFINE x == flusher.msg
  <1>1. flusher.pc = "commit" /\ flusher'.pc = "delete" /\ flusher'.msg = x
        /\ UNCHANGED <<wal, files, up, tail, dedupe, activeId, fileId, memtable, task, channel, copies>>
    BY Zenon DEF CommitManifest, TypeOK, FlusherStates
  <1>2. disk' = manifest' /\ manifest'.raw = manifest.raw \cup x.events
        /\ manifest'.sealed = SealThrough(manifest.sealed, x.sealed)
    BY Zenon DEF CommitManifest
  <1>3. Pending' = Pending /\ RunInv' /\ up
    BY <1>1, FlusherUp, FlusherRuns, Zenon
  <1>4. Flushing /\ x \in Live
    BY <1>1, Zenon DEF Flushing, Live, InFlight
  <1>5. Live' \subseteq Live /\ (\A m \in Live' : m # x) /\ DistinctInv'
    BY <1>1, <1>4, DoneMessages, Zenon
  <1>6. disk.sealed \in Nat /\ manifest.sealed \in Nat /\ x.sealed \in Nat
    BY <1>4, RecordTypes, LiveType, Zenon
  <1>7. /\ disk.sealed <= manifest.sealed /\ manifest.sealed < fileId /\ x.sealed < fileId
        /\ fileId \in files
    BY <1>3, <1>4, Zenon DEF SealInv
  <1>8. /\ disk'.sealed \in Nat /\ disk.sealed <= disk'.sealed /\ x.sealed <= disk'.sealed
        /\ disk'.sealed < fileId /\ manifest'.sealed = disk'.sealed
    BY <1>2, <1>6, <1>7 DEF SealThrough
  <1>9. SealInv'
    BY <1>1, <1>5, <1>7, <1>8 DEF SealInv
  <1>10. RecordsInv' /\ NothingNew
    <2>1. disk'.raw = disk.raw \cup x.events /\ manifest'.raw = disk'.raw
      BY <1>2, Zenon DEF RecordsInv, OwnerInv
    <2> HIDE DEF x
    <2> QED
      BY <1>1, <1>3, <1>4, <1>5, <1>6, <1>8, <2>1, RecordsTake, Zenon
  <1>11. Carries
    BY <1>1, <1>3, <1>10, Zenon DEF Carries
  <1> QED
    BY <1>3, <1>5, <1>9, <1>10, <1>11, Zenon

\* A failed save of the manifest.
LEMMA SaveFailsStep ==
  ASSUME TypeOK, OwnershipInv, SaveFails
  PROVE  OwnershipInv' /\ Carries
  <1> USE DEF OwnershipInv
  <1> DEFINE x == flusher.msg
  <1>1. flusher.pc = "commit" /\ flusher'.pc = "idle"
        /\ UNCHANGED <<wal, files, up, tail, dedupe, activeId, fileId, memtable, task, channel, copies>>
    BY Zenon DEF SaveFails, IdleFlusher
  <1>2. disk' \in {disk, manifest'} /\ manifest'.raw = manifest.raw
        /\ manifest'.sealed = SealThrough(manifest.sealed, x.sealed)
    BY Zenon DEF SaveFails, TypeOK, Manifests
  <1>3. Pending' = Pending /\ RunInv' /\ up
    BY <1>1, FlusherUp, FlusherRuns, Zenon
  <1>4. Flushing /\ x \in Live
    BY <1>1, Zenon DEF Flushing, Live, InFlight
  <1>5. Live' \subseteq Live /\ DistinctInv'
    BY <1>1, <1>4, DoneMessages, Zenon
  <1>6. disk.sealed \in Nat /\ manifest.sealed \in Nat /\ x.sealed \in Nat
    BY <1>4, RecordTypes, LiveType, Zenon
  <1>7. /\ disk.sealed <= manifest.sealed /\ manifest.sealed < fileId /\ x.sealed < fileId
        /\ fileId \in files
    BY <1>3, <1>4, Zenon DEF SealInv
  <1>8. /\ disk'.sealed \in Nat /\ disk.sealed <= disk'.sealed /\ disk'.sealed <= manifest'.sealed
        /\ manifest'.sealed < fileId
    BY <1>2, <1>6, <1>7 DEF SealThrough
  <1>9. SealInv'
    BY <1>1, <1>5, <1>7, <1>8, Zenon DEF SealInv
  <1>10. RecordsInv' /\ NothingNew
    <2>1. disk'.raw = disk.raw
      BY <1>2, Zenon DEF RecordsInv, OwnerInv
    <2>2. memtable \cap (tail \cup Pending) = {} /\ \A f \in WalIds : f \notin files => wal[f] = {}
      BY Zenon DEF RecordsInv, OwnerInv, LoggedInv
    <2> QED
      BY <1>1, <1>2, <1>3, <1>5, <1>6, <1>8, <2>1, <2>2, RecordsMove, Zenon
  <1>11. Carries
    BY <1>1, <1>3, <1>10, Zenon DEF Carries
  <1> QED
    BY <1>3, <1>5, <1>9, <1>10, <1>11, Zenon

\* The deletion of the sealed WAL files.
LEMMA DeleteStep ==
  ASSUME TypeOK, OwnershipInv, DeleteSealedWal
  PROVE  OwnershipInv' /\ Carries
  <1> USE DEF OwnershipInv
  <1>1. flusher.pc = "delete" /\ flusher'.pc = "idle"
        /\ UNCHANGED <<disk, up, tail, dedupe, activeId, fileId, memtable, task, channel, manifest, copies>>
    BY Zenon DEF DeleteSealedWal, IdleFlusher
  <1>2. PICK gone \in SUBSET DeleteFilesThrough(flusher.msg.sealed) :
          files' = files \ gone /\ wal' = [f \in WalIds |-> IF f \in gone THEN {} ELSE wal[f]]
    BY Zenon DEF DeleteSealedWal
  <1>3. Pending' = Pending /\ RunInv' /\ up
    BY <1>1, FlusherUp, FlusherRuns, Zenon
  <1>4. Live' \subseteq Live /\ DistinctInv'
    BY <1>1, DoneMessages, Zenon
  <1>5. SealInv'
    <2>1. fileId \in files /\ flusher.msg.sealed < fileId
      BY <1>1, <1>3, Zenon DEF SealInv
    <2>2. fileId \in Nat /\ flusher.msg.sealed \in Nat
      BY LiveType DEF TypeOK, WalIds
    <2>3. fileId \in files'
      BY <1>2, <2>1, <2>2 DEF DeleteFilesThrough
    <2>4. \E top \in files' : \A f \in files' : f <= top
      <3>1. PICK top \in files : \A f \in files : f <= top
        BY Zenon DEF SealInv
      <3>2. fileId <= top /\ top \in Nat
        BY <2>1, <3>1, FilesNat, Zenon
      <3>3. top \in files'
        BY <1>2, <2>1, <2>2, <3>1, <3>2 DEF DeleteFilesThrough
      <3> QED
        BY <1>2, <3>1, <3>3, Zenon
    <2> QED
      BY <1>1, <1>2, <1>4, <2>3, <2>4, Zenon DEF SealInv
  <1>6. RecordsInv' /\ NothingNew
    <2>1. memtable \cap (tail \cup Pending) = {} /\ \A f \in WalIds : f \notin files => wal[f] = {}
      BY Zenon DEF RecordsInv, OwnerInv, LoggedInv
    <2>2. (\A f \in WalIds : wal'[f] \subseteq wal[f] \cup tail)
          /\ \A f \in WalIds : f \notin files' => wal'[f] = {}
      BY <1>2, <2>1, Zenon
    <2>3. files' \subseteq files
      BY <1>2, Zenon
    <2> QED
      BY <1>1, <1>3, <1>4, <2>1, <2>2, <2>3, RecordTypes, RecordsMove
  <1>7. Carries
    BY <1>1, <1>3, <1>6, Zenon DEF Carries
  <1> QED
    BY <1>3, <1>4, <1>5, <1>6, <1>7, Zenon

\* With no task, message or flush there is nothing live and nothing pending.
LEMMA NothingRuns ==
  ASSUME task = [p \in Tasks |-> IdleTask] \/ (\A p \in Tasks : task[p] = IdleTask),
         channel = <<>>, flusher = IdleFlusher
  PROVE  Live = {} /\ Pending = {} /\ DistinctInv
         /\ \A p \in Tasks : task[p] = IdleTask
  <1>1. (\A p \in Tasks : task[p].pc = "idle") /\ flusher.pc = "idle" /\ DOMAIN channel = {}
    BY DEF IdleTask, IdleFlusher
  <1> QED
    BY <1>1, Zenon DEF Live, InFlight, Pending, DistinctInv, Sending, Flushing

\* A crash.
LEMMA CrashStep ==
  ASSUME TypeOK, OwnershipInv, Crash
  PROVE  OwnershipInv' /\ Carries
  <1> USE DEF OwnershipInv
  <1>1. up /\ ~up' /\ tail' = {} /\ memtable' = {} /\ task' = [p \in Tasks |-> IdleTask]
        /\ channel' = <<>> /\ flusher' = IdleFlusher /\ manifest' = disk
        /\ UNCHANGED <<files, disk, activeId, fileId, copies>>
    BY Zenon DEF Crash
  <1>2. (\A p \in Tasks : task'[p] = IdleTask /\ task'[p].pc = "idle")
        /\ flusher'.pc = "idle" /\ DOMAIN channel' = {}
    BY <1>1 DEF IdleTask, IdleFlusher
  <1>3. Live' = {} /\ Pending' = {} /\ DistinctInv'
    BY <1>2, Zenon DEF Live, InFlight, Pending, DistinctInv, Sending, Flushing
  <1>4. RunInv'
    BY <1>1, <1>2, Zenon DEF RunInv
  <1>5. SealInv'
    BY <1>1, <1>2, <1>3, RecordTypes DEF SealInv
  <1>6. RecordsInv' /\ NothingNew
    <2>1. (\A f \in WalIds : wal'[f] \subseteq wal[f] \cup tail)
          /\ \A f \in WalIds : f # fileId => wal'[f] = wal[f]
      BY Zenon DEF Crash, TypeOK
    <2>2. fileId \in files /\ \A f \in WalIds : f \notin files => wal[f] = {}
      BY <1>1, Zenon DEF SealInv, RecordsInv, LoggedInv
    <2>3. manifest'.raw = manifest.raw
      BY <1>1, Zenon DEF RecordsInv, OwnerInv
    <2> QED
      BY <1>1, <1>3, <2>1, <2>2, <2>3, RecordTypes, RecordsMove
  <1>7. Carries
    BY <1>1, <1>3, <1>6, Zenon DEF Carries
  <1> QED
    BY <1>3, <1>4, <1>5, <1>6, <1>7, Zenon

\* Wal::open picks a file above the seal pointer that no other file exceeds.
LEMMA OpenedFile ==
  ASSUME TypeOK, SealInv
  PROVE  /\ disk.sealed < WalOpen(disk.sealed)
         /\ \A f \in ListFilesAfter(disk.sealed) : f <= WalOpen(disk.sealed)
  <1> DEFINE U == ListFilesAfter(disk.sealed)
  <1>1. disk.sealed \in Nat /\ U \subseteq files /\ \A f \in U : f > disk.sealed
    BY RecordTypes, Zenon DEF ListFilesAfter
  <1>2. CASE U = {}
    BY <1>1, <1>2 DEF WalOpen
  <1>3. CASE U # {}
    <2>1. PICK top \in files : \A f \in files : f <= top
      BY Zenon DEF SealInv
    <2>2. top \in U
      <3>1. PICK u \in U : u > disk.sealed
        BY <1>1, <1>3, Zenon
      <3>2. u \in Nat /\ top \in Nat /\ u <= top
        BY <1>1, <2>1, FilesNat, Zenon
      <3> QED
        BY <1>1, <3>1, <3>2 DEF ListFilesAfter
    <2>3. WalOpen(disk.sealed) = CHOOSE f \in U : \A g \in U : g <= f
      BY <1>3, Zenon DEF WalOpen
    <2>4. WalOpen(disk.sealed) \in U /\ \A g \in U : g <= WalOpen(disk.sealed)
      <3> HIDE DEF U
      <3> QED
        BY <1>1, <2>1, <2>2, <2>3, Zenon
    <2> QED
      BY <1>1, <2>4, Zenon
  <1> QED
    BY <1>2, <1>3, Zenon

\* Startup recovery.
LEMMA RecoverStep ==
  ASSUME TypeOK, OwnershipInv, RunStartupRecovery
  PROVE  OwnershipInv' /\ (BillInv => BillInv')
  <1> USE DEF OwnershipInv
  <1> DEFINE n == WalOpen(disk.sealed)
             gone == DeleteFilesThrough(disk.sealed)
  <1>1. ~up /\ manifest' = disk /\ fileId' = n /\ activeId' = n /\ n \in WalIds
        /\ files' = (files \ gone) \cup {n}
        /\ memtable' = UNION {wal[f] : f \in ListFilesAfter(disk.sealed)}
        /\ wal' = [f \in WalIds |-> IF f \in gone THEN {} ELSE wal[f]]
        /\ UNCHANGED <<disk, tail, task, channel, flusher, copies>>
    BY Zenon DEF RunStartupRecovery
  <1>2. tail = {} /\ channel = <<>> /\ flusher = IdleFlusher /\ \A p \in Tasks : task[p] = IdleTask
    BY <1>1, Zenon DEF RunInv
  <1>3. Live = {} /\ Pending = {}
    BY <1>2, NothingRuns, Zenon
  <1>4. Live' = {} /\ Pending' = {} /\ DistinctInv' /\ RunInv' /\ flusher'.pc = "idle"
    <2>1. Live' = Live /\ Pending' = Pending /\ (DistinctInv => DistinctInv')
      BY <1>1, SMTT(30) DEF Live, InFlight, Pending, DistinctInv, Sending, Flushing
    <2> QED
      BY <1>1, <1>2, <1>3, <2>1, Zenon DEF RunInv, IdleFlusher
  <1>5. SealInv'
    <2>1. disk.sealed < n /\ (\A f \in ListFilesAfter(disk.sealed) : f <= n) /\ n \in Nat
      BY <1>1, OpenedFile DEF WalIds
    <2>2. \A f \in files' : f <= n
      <3>1. \A f \in files : f \in gone \/ f \in ListFilesAfter(disk.sealed)
        BY RecordTypes, FilesNat, SMTT(30) DEF ListFilesAfter, DeleteFilesThrough
      <3> HIDE DEF n, gone
      <3> QED
        BY <1>1, <2>1, <3>1
    <2>3. disk'.sealed <= manifest'.sealed
      BY <1>1, RecordTypes, SMTT(30)
    <2> HIDE DEF n, gone
    <2>4. n <= n /\ n \in files'
      BY <1>1, <2>1
    <2> QED
      BY <1>1, <1>4, <2>1, <2>2, <2>3, <2>4, Zenon DEF SealInv
  <1>6. RecordsInv'
    <2>1. tail' = {} /\ files \ gone \subseteq files'
      BY <1>1, <1>2, Zenon
    <2> HIDE DEF n
    <2> QED
      BY <1>1, <1>3, <1>4, <2>1, RecordsReplay, Zenon
  <1>7. ASSUME BillInv PROVE BillInv'
    <2>1. memtable' = Replayable /\ dedupe' \in Firsts(RecoveredEvents(Replayable)) /\ tail' = {}
      BY <1>1, <1>2, Zenon DEF RunStartupRecovery, Replayable
    <2>2. Replayable' \subseteq Replayable
      <3>1. \A f \in WalIds : wal'[f] \subseteq wal[f] \cup tail
        BY <1>1, Zenon
      <3>2. files' \subseteq WalIds /\ disk.sealed <= disk'.sealed /\ disk'.sealed \in Nat
        BY <1>1, RecordTypes DEF TypeOK
      <3> HIDE DEF n, gone
      <3> QED
        BY <1>2, <3>1, <3>2, RecordTypes, ReplayableKept, Zenon DEF RecordsInv
    <2>3. Present' \subseteq disk.raw \cup Replayable /\ disk.raw \cup Replayable \subseteq Present
      BY <1>1, <1>4, <2>1, <2>2, Zenon DEF Present, InMessages
    <2>4. \A r \in disk.raw \cup Replayable : EventId[r.ev] \in IdsOf(dedupe')
      BY <2>1, Zenon DEF Firsts, RecoveredEvents, EventsOf, IdsOf
    <2> QED
      BY <1>4, <1>7, <2>1, <2>3, <2>4, Zenon DEF BillInv, OncePerId
  <1> QED
    BY <1>4, <1>5, <1>6, <1>7, Zenon

\* A freshly opened database holds no record and seals nothing.
LEMMA OwnershipInit == Init => OwnershipInv
  <1> SUFFICES ASSUME Init PROVE OwnershipInv
    BY Zenon
  <1>1. task = [p \in Tasks |-> IdleTask] /\ channel = <<>> /\ flusher = IdleFlusher
        /\ fileId = 1 /\ activeId = 1 /\ files = {1} /\ tail = {} /\ memtable = {} /\ up
        /\ wal = [f \in WalIds |-> {}]
    BY Zenon DEF Init
  <1>2. disk.raw = {} /\ manifest.raw = {} /\ disk.sealed = 0 /\ manifest.sealed = 0
    BY Zenon DEF Init
  <1>3. Live = {} /\ Pending = {} /\ DistinctInv /\ \A p \in Tasks : task[p] = IdleTask
    BY <1>1, NothingRuns, Zenon
  <1>4. RunInv
    BY <1>1, <1>3, IdlePc, Zenon DEF RunInv
  <1>5. SealInv
    BY <1>1, <1>2, <1>3 DEF SealInv, IdleFlusher
  <1>6. InMessages = {} /\ Logged = {}
    BY <1>1, <1>3, Zenon DEF InMessages, Logged
  <1>7. RecordsInv
    BY <1>1, <1>2, <1>3, <1>6, Zenon DEF RecordsInv, CopiesInv, OwnerInv, LoggedInv
  <1> QED
    BY <1>3, <1>4, <1>5, <1>7, Zenon DEF OwnershipInv

\* Every step keeps a record with one owner.
LEMMA OwnershipNext == TypeOK /\ OwnershipInv /\ [Next]_vars => OwnershipInv'
  <1> SUFFICES ASSUME TypeOK, OwnershipInv, [Next]_vars PROVE OwnershipInv'
    BY Zenon
  <1>1. ASSUME NEW c \in Clients, Client(c) PROVE OwnershipInv'
    <2>1. c \in Tasks
      BY Zenon DEF Tasks
    <2> QED
      BY <1>1, <2>1, AppendStep, WalFailsStep, CommitStep, OverflowStep, RotateFailsStep,
         SendStep, DropStep, Zenon DEF Client
  <1>2. CASE SendFlush(RollupWorker)
    BY <1>2, SendStep, Zenon DEF Tasks
  <1>3. CASE Flusher
    BY <1>3, RecvStep, WriteStep, ReinsertStep, ManifestStep, SaveFailsStep, DeleteStep, Zenon
    DEF Flusher
  <1>4. CASE UNCHANGED vars
    <2>1. Live' = Live /\ Pending' = Pending /\ (Sending' = Sending) /\ (Flushing' = Flushing)
      BY <1>4, Zenon DEF vars, Live, InFlight, Pending, Sending, Flushing
    <2>2. InMessages' = InMessages /\ Logged' = Logged
      BY <1>4, <2>1, Zenon DEF vars, InMessages, Logged
    <2>3. RecordsInv'
      BY <1>4, <2>1, <2>2, Zenon DEF vars, OwnershipInv, RecordsInv, CopiesInv, OwnerInv, LoggedInv
    <2>4. RunInv' /\ SealInv' /\ DistinctInv'
      BY <1>4, <2>1 DEF vars, OwnershipInv, RunInv, SealInv, DistinctInv
    <2> QED
      BY <2>3, <2>4, Zenon DEF OwnershipInv
  <1> QED
    BY <1>1, <1>2, <1>3, <1>4, ForceDrainStep, CrashStep, RecoverStep, Zenon DEF Next

\* The ownership invariant holds in every reachable state, whatever I/O fails
\* and in whatever order the drained batches are sent.
THEOREM Ownership == Spec => []OwnershipInv
  BY TypeInit, TypeNext, OwnershipInit, OwnershipNext, PTL DEF Spec

\* The memtable, every message in flight and the committed segments hold
\* disjoint records, under every fault of the model and any order of sends.
THEOREM SingleOwner == Spec => []OneOwner
  <1>1. OwnershipInv => OneOwner
    BY Zenon DEF OwnershipInv, RecordsInv, OwnerInv, OneOwner, InMessages, Live, Visible
  <1> QED
    BY <1>1, Ownership, PTL

\* Lines are always appended to an existing file above the seal pointer, under
\* every fault of the model and any order of sends.
THEOREM OpenFile == Spec => []OpenFileUnsealed
  <1>1. OwnershipInv => OpenFileUnsealed
    BY Zenon DEF OwnershipInv, SealInv, OpenFileUnsealed
  <1> QED
    BY <1>1, Ownership, PTL

-----------------------------------------------------------------------------
(* What was acknowledged is durable *)

USE IngestAssumption

\* A send in sealing order preserves the invariant.
LEMMA StepSendFlush ==
  ASSUME IngestInv, TypeOK', InOrderSends, NEW p \in Tasks, SendFlush(p)
  PROVE  IngestInv' /\ Keeps
  <1> USE DEF IngestInv
  <1>1. /\ task[p].pc = "send"
        /\ channel' = Append(channel, task[p].msg)
        /\ acked' = acked \cup task[p].acks
        /\ task' = [task EXCEPT ![p] = IdleTask]
        /\ UNCHANGED <<wal, files, torn, disk, up, tail, activeId, fileId,
                       dedupe, memtable, flusher, manifest>>
        /\ \A q \in Tasks : task[q].pc = "send" => task[p].msg.sealed <= task[q].msg.sealed
    BY Zenon DEF SendFlush
  <1>2. InFlight' = InFlight
    BY InFlightSend, Zenon
  <1>3. \A q \in Tasks : task'[q] = IF q = p THEN IdleTask ELSE task[q]
    BY <1>1, Zenon DEF TypeOK
  <1>4. IdleTask.pc = "idle" /\ up
    BY <1>1 DEF IdleTask, TasksInv
  <1>5. task[p].msg \in Messages /\ channel \in Seq(Messages)
    BY Zenon DEF TypeOK, TaskStates
  <1>6. TasksInv'
    BY <1>1, <1>3, <1>4 DEF TasksInv
  <1>7. WalInv'
    BY <1>1, Zenon DEF WalInv
  <1>8. QueueInv'
    <2>1. /\ DOMAIN channel' = DOMAIN channel \cup {Len(channel) + 1}
          /\ \A i \in DOMAIN channel : channel'[i] = channel[i] /\ i \in Nat /\ i < Len(channel) + 1
          /\ channel'[Len(channel) + 1] = task[p].msg
          /\ Len(channel) \in Nat
      BY <1>1, <1>5, AppendElements
    <2>2. \A q \in Tasks : q # p /\ task[q].pc = "send" => task[p].msg.sealed < task[q].msg.sealed
      <3>1. \A q \in Tasks : task[q].pc = "send" => task[q].msg.sealed \in Nat
        BY InFlightType, Zenon DEF InFlight
      <3> QED
        BY <1>1, <3>1 DEF QueueInv
    <2>3. \A i, j \in DOMAIN channel' : i < j => channel'[i].sealed < channel'[j].sealed
      BY <1>1, <2>1 DEF QueueInv
    <2>4. \A q \in Tasks : task'[q].pc = "send" => q # p /\ task'[q] = task[q]
      BY <1>3, <1>4, Zenon
    <2>5. \A q \in Tasks : task'[q].pc = "send" =>
             \A i \in DOMAIN channel' : channel'[i].sealed < task'[q].msg.sealed
      BY <2>1, <2>2, <2>4, Zenon DEF QueueInv
    <2>6. flusher'.pc \in {"write", "commit"} =>
             /\ \A i \in DOMAIN channel' : flusher'.msg.sealed < channel'[i].sealed
             /\ \A q \in Tasks : task'[q].pc = "send" => flusher'.msg.sealed < task'[q].msg.sealed
      BY <1>1, <2>1, <2>4 DEF QueueInv
    <2> QED
      BY <1>1, <1>2, <2>3, <2>4, <2>5, <2>6 DEF QueueInv
  <1>9. Keeps
    BY <1>1, <1>2, KeepsSame, Zenon
  <1>10. SafeInv'
    <2>1. acked' \cup dedupe' \subseteq acked \cup dedupe
      BY <1>1, Zenon DEF TasksInv
    <2> QED
      BY <1>9, <2>1, KeepsSafeSame, Zenon
  <1> QED
    BY <1>6, <1>7, <1>8, <1>9, <1>10, Zenon

\* The manifest commit preserves it: the lowest sealed id in flight is committed.
LEMMA StepCommitManifest ==
  ASSUME IngestInv, TypeOK', CommitManifest
  PROVE  IngestInv' /\ Keeps
  <1> USE DEF IngestInv
  <1>1. /\ flusher.pc = "commit"
        /\ manifest' = disk'
        /\ flusher' = [flusher EXCEPT !.pc = "delete"]
        /\ UNCHANGED <<wal, files, torn, up, tail, activeId, fileId, dedupe,
                       memtable, task, channel, acked>>
    BY Zenon DEF CommitManifest
  <1>2. flusher'.pc = "delete" /\ flusher'.msg = flusher.msg
    BY <1>1, Zenon DEF TypeOK, FlusherStates
  <1>3. flusher.msg \in InFlight /\ flusher.msg.sealed \in Nat
    BY <1>1, InFlightType, Zenon DEF InFlight
  <1>4. disk.sealed < flusher.msg.sealed /\ flusher.msg.sealed < activeId
    BY <1>3, Zenon DEF QueueInv
  <1>5. disk'.sealed = flusher.msg.sealed
    BY <1>4, Zenon DEF CommitManifest, WalInv, SealThrough, TypeOK, Manifests
  <1>6. TasksInv'
    BY <1>1 DEF TasksInv, IdleFlusher
  <1>7. WalInv'
    BY <1>1, <1>4, <1>5, Zenon DEF WalInv
  <1>8. QueueInv'
    <2>1. /\ \A i \in DOMAIN channel : flusher.msg.sealed < channel[i].sealed
          /\ \A p \in Tasks : task[p].pc = "send" => flusher.msg.sealed < task[p].msg.sealed
      BY <1>1, Zenon DEF QueueInv
    <2>2. \A m \in InFlight' : m \in InFlight /\ flusher.msg.sealed < m.sealed
      BY <1>1, <1>2, <2>1, Zenon DEF InFlight
    <2>3. \A m \in InFlight' : m.events # {} /\ disk'.sealed < m.sealed /\ m.sealed < activeId'
      BY <1>1, <1>5, <2>2, Zenon DEF QueueInv
    <2>4. flusher'.msg.sealed <= disk'.sealed
      BY <1>2, <1>3, <1>5
    <2> QED
      BY <1>1, <1>2, <2>3, <2>4, Zenon DEF QueueInv
  <1>9. Keeps
    BY KeepsCommit, Zenon
  <1>10. SafeInv'
    BY <1>1, <1>9, KeepsSafeSame, Zenon
  <1> QED
    BY <1>6, <1>7, <1>8, <1>9, <1>10, Zenon

\* Deleting the sealed files preserves it, whether or not each removal succeeds.
LEMMA StepDeleteSealedWal ==
  ASSUME IngestInv, TypeOK', DeleteSealedWal
  PROVE  IngestInv' /\ Keeps
  <1> USE DEF IngestInv
  <1>1. PICK gone \in SUBSET DeleteFilesThrough(flusher.msg.sealed) :
             /\ files' = files \ gone
             /\ wal' = [f \in WalIds |-> IF f \in gone THEN {} ELSE wal[f]]
    BY Zenon DEF DeleteSealedWal
  <1>2. /\ flusher.pc = "delete"
        /\ flusher' = IdleFlusher
        /\ UNCHANGED <<torn, disk, up, tail, activeId, fileId, dedupe,
                       memtable, task, channel, manifest, acked>>
    BY Zenon DEF DeleteSealedWal
  <1>3. IdleFlusher.pc = "idle"
    BY Zenon DEF IdleFlusher
  <1>4. InFlight' = InFlight
    BY <1>2, <1>3, Zenon DEF InFlight
  <1>5. \A f \in gone : f \in Nat /\ f <= disk.sealed
    BY <1>2 DEF DeleteFilesThrough, QueueInv, TypeOK, WalIds, FlusherStates, Messages, Manifests
  <1>6. TasksInv'
    BY <1>2, Zenon DEF TasksInv
  <1>7. WalInv'
    BY <1>1, <1>2, <1>5 DEF WalInv, TypeOK, WalIds, Manifests
  <1>8. QueueInv'
    BY <1>2, <1>3, <1>4, Zenon DEF QueueInv
  <1>9. \A f \in files : disk.sealed < f => f \in files' /\ wal'[f] = wal[f]
    BY <1>1, <1>5, SMTT(30) DEF TypeOK, WalIds, Manifests
  <1>10. Keeps
    <2>1. \A f \in WalIds : wal'[f] \subseteq wal[f]
      BY <1>1, Zenon
    <2>2. \A f \in files : \A r \in wal[f] : SafeIn(r, f) => f \in files' /\ SafeIn(r, f)'
      BY <1>2, <1>4, <1>9, Zenon DEF SafeIn
    <2> QED
      BY <1>2, <2>1, <2>2, Zenon DEF Keeps
  <1>11. SafeInv'
    BY <1>2, <1>10, KeepsSafeSame, Zenon
  <1> QED
    BY <1>6, <1>7, <1>8, <1>10, <1>11, Zenon

\* A crash preserves it: what is safe is in the synced part of the WAL.
LEMMA StepCrash ==
  ASSUME IngestInv, TypeOK', Faults \subseteq ToleratedFaults, Crash
  PROVE  IngestInv' /\ Keeps
  <1> USE DEF IngestInv
  <1>1. ~torn'
    BY Zenon DEF Crash, ToleratedFaults, WalInv
  <1>2. /\ ~up'
        /\ tail' = {}
        /\ dedupe' = {}
        /\ task' = [p \in Tasks |-> IdleTask]
        /\ channel' = <<>>
        /\ flusher' = IdleFlusher
        /\ manifest' = disk
        /\ UNCHANGED <<files, disk, activeId, fileId, acked>>
    BY Zenon DEF Crash
  <1>3. IdleTask.pc = "idle" /\ IdleFlusher.pc = "idle" /\ DOMAIN channel' = {}
    BY <1>2 DEF IdleTask, IdleFlusher
  <1>4. InFlight' = {}
    BY <1>2, <1>3, Zenon DEF InFlight
  <1>5. \A f \in files : wal[f] \subseteq wal'[f]
    BY Zenon DEF Crash, TypeOK
  <1>6. TasksInv'
    BY <1>2, <1>3, Zenon DEF TasksInv
  <1>7. WalInv'
    BY <1>1, <1>2, Zenon DEF WalInv
  <1>8. QueueInv'
    BY <1>2, <1>3, <1>4, Zenon DEF QueueInv
  <1>9. Keeps
    <2>1. \A f \in files : \A r \in wal[f] : SafeIn(r, f) => SafeIn(r, f)'
      BY <1>2, <1>4, <1>5, Zenon DEF SafeIn
    <2>2. disk.sealed < activeId /\ activeId \in files
      BY Zenon DEF WalInv
    <2>3. \A f \in WalIds : \A r \in wal'[f] : r \in wal[f] \/ f = activeId
      BY Zenon DEF Crash, TypeOK, WalInv
    <2>4. \A r \in wal'[activeId] : SafeIn(r, activeId)'
      BY <1>2, <1>4, <2>2, Zenon DEF SafeIn
    <2> QED
      BY <1>2, <2>1, <2>2, <2>3, <2>4, Zenon DEF Keeps
  <1>10. SafeInv'
    BY <1>2, <1>9, KeepsSafeSame, Zenon
  <1> QED
    BY <1>6, <1>7, <1>8, <1>9, <1>10, Zenon

\* Recovery preserves it: the memtable holds again whatever the files hold.
LEMMA StepRecovery ==
  ASSUME IngestInv, TypeOK', RunStartupRecovery
  PROVE  IngestInv' /\ Keeps
  <1> USE DEF IngestInv
  <1> DEFINE unsealed == ListFilesAfter(disk.sealed)
             gone == DeleteFilesThrough(disk.sealed)
             replayed == UNION {wal[f] : f \in unsealed}
  <1>1. activeId \in unsealed /\ \A g \in unsealed : g <= activeId
    BY Zenon DEF ListFilesAfter, WalInv
  <1>2. WalOpen(disk.sealed) = activeId
    <2>1. files \subseteq Nat
      BY DEF TypeOK, WalIds
    <2>2. \A f \in unsealed : (\A g \in unsealed : g <= f) => f = activeId
      BY <1>1, <2>1 DEF ListFilesAfter
    <2> QED
      BY <1>1, <2>2, Zenon DEF WalOpen
  <1>3. /\ ~up
        /\ up'
        /\ memtable' = replayed
        /\ dedupe' \in Firsts(RecoveredEvents(replayed))
        /\ files' = (files \ gone) \cup {activeId}
        /\ wal' = [f \in WalIds |-> IF f \in gone THEN {} ELSE wal[f]]
        /\ activeId' = activeId
        /\ fileId' = activeId
        /\ torn' = (torn /\ activeId = fileId)
        /\ manifest' = disk
        /\ UNCHANGED <<disk, tail, task, channel, flusher, acked>>
    BY <1>2, Zenon DEF RunStartupRecovery
  <1>4. /\ channel = <<>>
        /\ flusher = IdleFlusher
        /\ \A p \in Tasks : task[p].pc = "idle"
        /\ flusher.pc = "idle"
        /\ DOMAIN channel = {}
    BY <1>3 DEF TasksInv, IdleTask, IdleFlusher
  <1>5. InFlight' = {} /\ InFlight = {}
    BY <1>3, <1>4, Zenon DEF InFlight
  <1>6. \A f \in files : disk.sealed < f => f \in files' /\ wal'[f] = wal[f] /\ wal[f] \subseteq memtable'
    <2> SUFFICES ASSUME NEW f \in files, disk.sealed < f
                 PROVE  f \in files' /\ wal'[f] = wal[f] /\ wal[f] \subseteq memtable'
      BY Zenon
    <2>1. f \in WalIds /\ f \in Nat /\ disk.sealed \in Nat
      BY DEF TypeOK, WalIds, Manifests
    <2>2. f \in unsealed /\ f \notin gone
      BY <2>1, SMTT(30) DEF ListFilesAfter, DeleteFilesThrough
    <2> QED
      BY <1>3, <2>1, <2>2, Zenon
  <1>7. TasksInv'
    BY <1>3, <1>4, Zenon DEF TasksInv
  <1>8. WalInv'
    BY <1>3, Zenon DEF WalInv
  <1>9. QueueInv'
    BY <1>3, <1>4, <1>5, Zenon DEF QueueInv
  <1>10. \A f \in files : disk.sealed < f => \A r \in wal[f] : SafeIn(r, f)'
    BY <1>3, <1>5, <1>6, Zenon DEF SafeIn
  <1>11. Keeps
    <2>1. \A f \in WalIds : wal'[f] \subseteq wal[f]
      BY <1>3, Zenon
    <2>2. \A f \in files : \A r \in wal[f] : SafeIn(r, f) => f \in files' /\ SafeIn(r, f)'
      BY <1>6, <1>10, Zenon DEF SafeIn
    <2> QED
      BY <1>3, <2>1, <2>2, Zenon DEF Keeps
  <1>12. SafeInv'
    <2> SUFFICES ASSUME NEW e \in acked' \cup dedupe'
                 PROVE  \E r \in Records : r.ev = e /\ SafeRecord(r)'
      BY Zenon DEF SafeInv
    <2>1. CASE e \in acked
      <3>1. PICK r \in Records : r.ev = e /\ SafeRecord(r)
        BY <2>1, Zenon DEF SafeInv
      <3> QED
        BY <1>11, <3>1 DEF SafeRecord, Keeps, SafeIn
    <2>2. CASE e \in dedupe'
      <3>1. e \in RecoveredEvents(replayed)
        BY <1>3, <2>2, Zenon DEF Firsts
      <3>2. PICK r \in replayed \cup disk.raw : r.ev = e
        BY <3>1, Zenon DEF RecoveredEvents, EventsOf
      <3>3. r \in Records
        BY SMTT(30) DEF TypeOK, Manifests, ListFilesAfter
      <3>4. SafeRecord(r)'
        BY <1>3, <1>6, <1>10, Zenon DEF SafeRecord, ListFilesAfter
      <3> QED
        BY <3>2, <3>3, <3>4, Zenon
    <2> QED
      BY <1>3, <2>1, <2>2, Zenon
  <1> QED
    BY <1>7, <1>8, <1>9, <1>11, <1>12, Zenon

\* The invariant is inductive for sends in sealing order and tolerated faults.
LEMMA IngestInvNext ==
  ASSUME InOrderSends, Faults \subseteq ToleratedFaults, IngestInv, [Next]_vars
  PROVE  IngestInv' /\ Keeps
  <1> TypeOK'
    BY TypeNext, Zenon DEF IngestInv
  <1>1. \A c \in Clients : ~IngestRotateFails(c) /\ ~HandlerDropped(c)
    BY Zenon DEF IngestRotateFails, RotateFails, HandlerDropped, Fault, ToleratedFaults
  <1>2. ~ReinsertFailed /\ ~SaveFails
    BY Zenon DEF ReinsertFailed, IngestInv, QueueInv, SaveFails, Fault, ToleratedFaults
  <1>3. ASSUME NEW c \in Clients, Client(c) PROVE IngestInv' /\ Keeps
    BY <1>1, <1>3, StepIngestAppend, StepIngestWalFails, StepIngestCommit,
       StepIngestOverflow, StepSendFlush, Zenon
    DEF Client, Tasks
  <1>4. ASSUME Flusher PROVE IngestInv' /\ Keeps
    BY <1>2, <1>4, StepFlusherRecv, StepWriteBuckets, StepCommitManifest,
       StepDeleteSealedWal, Zenon
    DEF Flusher
  <1>5. ASSUME SendFlush(RollupWorker) PROVE IngestInv' /\ Keeps
    BY <1>5, StepSendFlush, Zenon DEF Tasks
  <1>6. ASSUME UNCHANGED vars PROVE IngestInv' /\ Keeps
    <2>1. InFlight' = InFlight
      BY <1>6, Zenon DEF vars, InFlight
    <2> QED
      BY <1>6, <2>1, KeepsSame, SMTT(30) DEF vars, IngestInv, TasksInv, WalInv, QueueInv, SafeInv,
         SafeRecord, SafeIn
  <1> QED
    BY <1>3, <1>4, <1>5, <1>6, StepForceDrain, StepCrash, StepRecovery, Zenon DEF Next

\* The invariant holds in every reachable state, for sends in sealing order and
\* tolerated faults.
THEOREM IngestInvariant ==
  ASSUME InOrderSends, Faults \subseteq ToleratedFaults
  PROVE  Spec => []IngestInv
  <1>1. IngestInv /\ [Next]_vars => IngestInv'
    BY IngestInvNext, Zenon
  <1> QED
    BY <1>1, IngestInvInit, PTL DEF Spec

\* Every event a response counted as accepted or duplicate stays in a committed
\* segment or in a WAL file that recovery replays: for any events, clients,
\* channel capacity and crashes, with failing syncs and failing deletions of
\* WAL files, provided drained batches enter the flush channel in the order in
\* which their WAL files were sealed.
THEOREM AckedDurability ==
  ASSUME InOrderSends, Faults \subseteq ToleratedFaults
  PROVE  Spec => []AckedDurable
  <1>1. IngestInv => AckedDurable
    BY DEF IngestInv, SafeInv, SafeRecord, SafeIn, AckedDurable, EventsOf, Recoverable, Replayable,
           ListFilesAfter
  <1> QED
    BY <1>1, IngestInvariant, PTL

\* Under the same conditions a running server always has every acknowledged
\* event in a segment, in the memtable or in a message on its way.
THEOREM NothingStranded ==
  ASSUME InOrderSends, Faults \subseteq ToleratedFaults
  PROVE  Spec => []NoneStranded
  <1>1. IngestInv => NoneStranded
    <2> SUFFICES ASSUME IngestInv, up, NEW e \in acked
                 PROVE  e \in EventsOf(Visible \cup UNION {m.events : m \in InFlight} \cup flusher.msg.events)
      BY Zenon DEF NoneStranded
    <2>1. PICK r \in Records : r.ev = e /\ SafeRecord(r)
      BY Zenon DEF IngestInv, SafeInv
    <2>2. r \in Visible \cup UNION {m.events : m \in InFlight}
      BY <2>1, Zenon DEF SafeRecord, SafeIn, Visible, IngestInv, WalInv
    <2> QED
      BY <2>1, <2>2, Zenon DEF EventsOf
  <1> QED
    BY <1>1, IngestInvariant, PTL

-----------------------------------------------------------------------------
(* No id is billed twice *)

\* A step that brings in no record, and that tells the cache of the pending ones
\* when it lets go of them, brings no id in twice.
LEMMA CarriesBill ==
  ASSUME BillInv, Carries
  PROVE  BillInv'
  <1>1. Present' \subseteq Present
    BY Zenon DEF BillInv, Carries, NothingNew, Present
  <1>2. OncePerId(Present')
    BY <1>1, Zenon DEF BillInv, OncePerId
  <1>3. CASE Pending' = Pending /\ dedupe' = dedupe
    BY <1>1, <1>2, <1>3, Zenon DEF BillInv, Carries, OncePerId
  <1>4. CASE /\ Pending' = {} /\ (Pending # {} => tail' = {})
             /\ up' => dedupe' = dedupe \cup EventsOf(Pending)
    <2>1. tail' \subseteq Pending'
      BY <1>4, Zenon DEF BillInv, Carries
    <2>2. ASSUME up', NEW r \in Present' PROVE EventId[r.ev] \in IdsOf(dedupe')
      <3>1. CASE r \in Pending
        BY <1>4, <2>2, <3>1, Zenon DEF IdsOf, EventsOf
      <3>2. CASE r \notin Pending
        <4>1. EventId[r.ev] \in IdsOf(dedupe)
          BY <1>1, <2>2, <3>2, Zenon DEF BillInv, Carries
        <4> QED
          BY <1>4, <2>2, <4>1, Zenon DEF IdsOf
      <3> QED
        BY <3>1, <3>2, Zenon
    <2> QED
      BY <1>2, <1>4, <2>1, <2>2, Zenon DEF BillInv, OncePerId
  <1> QED
    BY <1>3, <1>4, Zenon DEF Carries

\* A freshly opened database holds no record.
LEMMA BillInit == Init => BillInv
  <1> SUFFICES ASSUME Init PROVE BillInv
    BY Zenon
  <1>1. task = [p \in Tasks |-> IdleTask] /\ channel = <<>> /\ flusher = IdleFlusher
        /\ tail = {} /\ memtable = {} /\ disk.raw = {} /\ files \subseteq WalIds
        /\ wal = [f \in WalIds |-> {}]
    BY TypeInit, Zenon DEF Init, TypeOK
  <1>2. Live = {} /\ Pending = {}
    BY <1>1, NothingRuns, Zenon
  <1>3. Present = {}
    BY <1>1, <1>2, Zenon DEF Present, InMessages, Replayable, ListFilesAfter
  <1> QED
    BY <1>1, <1>2, <1>3, Zenon DEF BillInv, OncePerId

\* Every step but a failed write to the log keeps an id billed once.
LEMMA BillNext ==
  ASSUME Faults \cap {"sync", "append"} = {}, TypeOK, OwnershipInv, BillInv, [Next]_vars
  PROVE  BillInv'
  <1>1. ASSUME NEW c \in Clients, Client(c) PROVE BillInv'
    <2>1. c \in Tasks /\ ~IngestWalFails(c)
      BY Zenon DEF Tasks, IngestWalFails, Fault
    <2> QED
      BY <1>1, <2>1, CarriesBill, AppendStep, CommitStep, OverflowStep, RotateFailsStep,
         SendStep, DropStep, Zenon DEF Client
  <1>2. CASE SendFlush(RollupWorker)
    BY <1>2, CarriesBill, SendStep, Zenon DEF Tasks
  <1>3. CASE Flusher
    BY <1>3, CarriesBill, RecvStep, WriteStep, ReinsertStep, ManifestStep, SaveFailsStep,
       DeleteStep, Zenon DEF Flusher
  <1>4. CASE UNCHANGED vars
    <2>1. Pending' = Pending /\ Live' = Live /\ Replayable' = Replayable
      BY <1>4 DEF vars, Pending, Live, InFlight, Sending, Replayable, ListFilesAfter
    <2>2. Carries
      BY <1>4, <2>1, Zenon DEF vars, Carries, NothingNew, Present, InMessages
    <2> QED
      BY <2>2, CarriesBill, Zenon
  <1> QED
    BY <1>1, <1>2, <1>3, <1>4, CarriesBill, ForceDrainStep, CrashStep, RecoverStep, Zenon DEF Next

\* As long as no append or fsync of the log fails, no event id is counted twice,
\* by a query or after a restart: whatever else fails, wherever the process
\* crashes, and in whatever order the drained batches are sent.
THEOREM NoDoubleBilling ==
  ASSUME Faults \cap {"sync", "append"} = {}
  PROVE  Spec => []BilledOnce
  <1>1. TypeOK /\ OwnershipInv /\ BillInv => BilledOnce
    <2> SUFFICES ASSUME TypeOK, OwnershipInv, BillInv PROVE BilledOnce
      BY Zenon
    <2>1. OncePerId(Visible) /\ OncePerId(Recoverable) /\ manifest.raw \cap memtable = {}
      BY Zenon DEF OwnershipInv, RecordsInv, OwnerInv, BillInv, OncePerId, Present, Visible, Recoverable
    <2>2. disk.raw \cap Replayable = {}
      <3>1. \A f \in ListFilesAfter(disk.sealed) : f \in WalIds /\ f \in Nat /\ f > disk.sealed
        BY DEF ListFilesAfter, TypeOK, WalIds
      <3> QED
        BY <3>1, RecordTypes DEF OwnershipInv, RecordsInv, LoggedInv, Replayable
    <2> QED
      BY <2>1, <2>2, Zenon DEF BilledOnce
  <1>2. TypeOK /\ OwnershipInv /\ BillInv /\ [Next]_vars => BillInv'
    BY BillNext, Zenon
  <1> QED
    BY <1>1, <1>2, TypeInit, TypeNext, OwnershipInit, OwnershipNext, BillInit, PTL DEF Spec

-----------------------------------------------------------------------------
(* Every line of the log is accounted for, and the log only grows *)

\* A line of the log is committed, or safe in its file.
LogInv ==
  \A f \in WalIds : \A r \in wal[f] : r \in disk.raw \/ (f \in files /\ SafeIn(r, f))

\* What a restart would reconstruct grows with every step.
LEMMA RecoverableGrows ==
  ASSUME TypeOK, LogInv, Keeps
  PROVE  Recoverable \subseteq Recoverable'
  <1> SUFFICES ASSUME NEW r \in Replayable PROVE r \in Recoverable'
    BY Zenon DEF Keeps, Recoverable
  <1>1. PICK f \in files : r \in wal[f]
    BY Zenon DEF Replayable, ListFilesAfter
  <1>2. r \in disk'.raw \/ (f \in files' /\ SafeIn(r, f)')
    BY <1>1, Zenon DEF LogInv, Keeps, TypeOK
  <1> QED
    BY <1>2, Zenon DEF Recoverable, Replayable, ListFilesAfter, SafeIn

\* If files are the only thing that may fail to go away, every line stays
\* accounted for.
LEMMA LogNext ==
  ASSUME InOrderSends, Faults \subseteq {"unlink"}, IngestInv, OwnershipInv, BillInv, LogInv, [Next]_vars
  PROVE  IngestInv' /\ OwnershipInv' /\ BillInv' /\ LogInv' /\ Keeps
  <1>1. Faults \subseteq ToleratedFaults /\ Faults \cap {"sync", "append"} = {} /\ TypeOK
    BY Zenon DEF ToleratedFaults, IngestInv
  <1>2. IngestInv' /\ Keeps
    BY <1>1, IngestInvNext, Zenon
  <1>3. OwnershipInv'
    BY <1>1, OwnershipNext, Zenon
  <1>4. BillInv'
    BY <1>1, BillNext, Zenon
  <1>5. tail \ Pending = {}
    BY Zenon DEF BillInv
  <1>6. LogInv'
    BY <1>2, <1>5, Zenon DEF LogInv, Keeps
  <1> QED
    BY <1>2, <1>3, <1>4, <1>6, Zenon

\* A fresh log is empty.
LEMMA LogInit == Init => LogInv
  BY Zenon DEF Init, LogInv

\* The four invariants together, in every reachable state.
LEMMA LogAlways ==
  ASSUME InOrderSends, Faults \subseteq {"unlink"}
  PROVE  Spec => [](IngestInv /\ OwnershipInv /\ BillInv /\ LogInv)
  <1>1. IngestInv /\ OwnershipInv /\ BillInv /\ LogInv /\ [Next]_vars
          => IngestInv' /\ OwnershipInv' /\ BillInv' /\ LogInv'
    BY LogNext, Zenon
  <1> QED
    BY <1>1, IngestInvInit, OwnershipInit, BillInit, LogInit, PTL DEF Spec

\* A WAL file at or below the seal pointer holds only committed records, so that
\* neither the flusher nor startup recovery loses anything by deleting it: for
\* sends in sealing order, with crashes and failing deletions.
THEOREM SealedCommitted ==
  ASSUME InOrderSends, Faults \subseteq {"unlink"}
  PROVE  Spec => []SealedIsCommitted
  <1>1. IngestInv /\ LogInv => SealedIsCommitted
    BY DEF IngestInv, TypeOK, WalIds, Manifests, LogInv, SafeIn, SealedIsCommitted, DeleteFilesThrough
  <1> QED
    BY <1>1, LogAlways, PTL

\* Responses are never taken back.
LEMMA AckedGrows == [Next]_vars => acked \subseteq acked'
  <1>1. ASSUME NEW c \in Clients, Client(c) PROVE acked \subseteq acked'
    BY <1>1, Zenon DEF Client, IngestAppend, IngestWalFails, IngestCommit, IngestOverflow,
       IngestRotateFails, SendFlush, HandlerDropped
  <1>2. CASE Flusher
    BY <1>2, Zenon DEF Flusher, FlusherRecv, WriteBuckets, ReinsertFailed, CommitManifest,
       SaveFails, DeleteSealedWal
  <1>3. CASE ForceDrainMemtable \/ SendFlush(RollupWorker) \/ Crash \/ RunStartupRecovery
    BY <1>3, Zenon DEF ForceDrainMemtable, SendFlush, Crash, RunStartupRecovery
  <1>4. CASE UNCHANGED vars
    BY <1>4, Zenon DEF vars
  <1> QED
    BY <1>1, <1>2, <1>3, <1>4, Zenon DEF Next

\* Under the same conditions the write path implements the durable log: what a
\* restart would reconstruct only grows, holds one payload per id and covers
\* every acknowledgement; flushes, rotations and deletions leave it as it is, and
\* a crash adds at most lines that were not yet synced.
THEOREM Refinement ==
  ASSUME InOrderSends, Faults \subseteq {"unlink"}
  PROVE  Spec => ImplementsDurableLog
  <1>1. Init => Log!Init
    <2> SUFFICES ASSUME Init PROVE Log!Init
      BY Zenon
    <2>1. disk.raw = {} /\ (\A f \in files : wal[f] = {}) /\ acked = {}
      BY TypeInit, Zenon DEF Init, TypeOK
    <2>2. Recoverable = {}
      BY <2>1, Zenon DEF Recoverable, Replayable, ListFilesAfter
    <2> QED
      BY <2>1, <2>2, Zenon DEF Log!Init, EventsOf
  <1>2. IngestInv /\ OwnershipInv /\ BillInv /\ LogInv /\ [Next]_vars
          /\ TypeOK' /\ AckedDurable' /\ BilledOnce' => [Log!Next]_(Log!vars)
    <2> SUFFICES ASSUME IngestInv, OwnershipInv, BillInv, LogInv, [Next]_vars,
                        TypeOK', AckedDurable', BilledOnce'
                 PROVE  Log!Next
      BY Zenon
    <2> DEFINE log == EventsOf(Recoverable)
    <2>1. log \subseteq log'
      <3>1. Recoverable \subseteq Recoverable'
        BY LogNext, RecoverableGrows, Zenon DEF IngestInv
      <3> QED
        BY <3>1, Zenon DEF EventsOf
    <2>2. log' \subseteq Events
      <3>1. Recoverable' \subseteq Records
        BY DEF TypeOK, Manifests, Recoverable, Replayable, ListFilesAfter
      <3> QED
        BY <3>1, Zenon DEF EventsOf, Records
    <2>3. acked \subseteq acked' /\ acked' \subseteq log'
      BY AckedGrows, Zenon DEF AckedDurable
    <2>4. Log!OnePayloadPerId(log')
      BY Zenon DEF Log!OnePayloadPerId, EventsOf, BilledOnce, OncePerId
    <2> HIDE DEF log
    <2>5. log' = log \cup log' /\ acked' = acked \cup acked'
      BY <2>1, <2>3, Zenon
    <2>6. Log!Accept(log', acked')
      BY <2>2, <2>3, <2>4, <2>5, Zenon DEF Log!Accept, log
    <2> QED
      BY <2>2, <2>3, <2>6, Zenon DEF Log!Next
  <1>3. Faults \subseteq ToleratedFaults /\ Faults \cap {"sync", "append"} = {}
    BY Zenon DEF ToleratedFaults
  <1>4. Spec => []AckedDurable
    BY <1>3, AckedDurability, Zenon
  <1>5. Spec => []BilledOnce
    BY <1>3, NoDoubleBilling, Zenon
  <1> QED
    BY <1>1, <1>2, <1>4, <1>5, LogAlways, TypeCorrect, PTL DEF Spec, ImplementsDurableLog, Log!Spec

=============================================================================
