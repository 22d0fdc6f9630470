-------------------------- MODULE IngestRecordProofs --------------------------
(***************************************************************************)
(* Where a record is on its way from the WAL to a segment, under every     *)
(* kind of I/O failure and any order of sends; and the handlers' and       *)
(* senders' steps keep every record with one owner.                        *)
(***************************************************************************)
EXTENDS IngestWriterProofs

\* The messages that hold events not yet committed: InFlight, and the one whose
\* events the flusher is about to hand back.
Flushing == flusher.pc \in {"write", "commit", "reinsert"}
Sending == {p \in Tasks : task[p].pc = "send"}
Live == InFlight \cup (IF flusher.pc = "reinsert" THEN {flusher.msg} ELSE {})

\* Only a running server has tasks, messages and unsynced lines, and one task at
\* a time is inside the critical section.
RunInv ==
  /\ ~up => /\ tail = {}
            /\ channel = <<>>
            /\ flusher = IdleFlusher
            /\ \A p \in Tasks : task[p] = IdleTask
  /\ \A p, q \in Tasks : task[p].pc = "append" /\ task[q].pc = "append" => p = q

\* The open file exists and is above every seal: that of the manifest, and those
\* of the messages, which name distinct files.
SealInv ==
  /\ up => fileId \in files /\ manifest.sealed < fileId
  /\ disk.sealed <= manifest.sealed
  /\ fileId <= activeId
  /\ \A f \in files : f <= activeId
  /\ \E top \in files : \A f \in files : f <= top
  /\ \A m \in Live : m.sealed < fileId
  /\ flusher.pc = "delete" => flusher.msg.sealed < fileId

\* No two messages on their way to the flusher seal the same file.
DistinctInv ==
  /\ \A p, q \in Sending : task[p].msg.sealed = task[q].msg.sealed => p = q
  /\ \A p \in Sending : \A i \in DOMAIN channel : task[p].msg.sealed # channel[i].sealed
  /\ \A i, j \in DOMAIN channel : channel[i].sealed = channel[j].sealed => i = j
  /\ Flushing => /\ \A p \in Sending : task[p].msg.sealed # flusher.msg.sealed
                 /\ \A i \in DOMAIN channel : channel[i].sealed # flusher.msg.sealed

\* A line is written once: every record anywhere is an older copy than the next
\* line of its event.
InMessages == UNION {m.events : m \in Live}
Logged == UNION {wal[f] : f \in WalIds}
CopiesInv ==
  \A r \in Pending \cup InMessages \cup Logged \cup tail \cup memtable \cup disk.raw :
    r.copy < copies[r.ev]

\* A record has one owner.
OwnerInv ==
  /\ manifest.raw = disk.raw
  /\ \A m1, m2 \in Live : m1 # m2 => m1.events \cap m2.events = {}
  /\ InMessages \cap (memtable \cup disk.raw) = {}
  /\ memtable \cap disk.raw = {}
  /\ (Pending \cup tail) \cap (memtable \cup disk.raw \cup InMessages) = {}

\* The log holds an owned record in files that its seal covers.
LoggedInv ==
  /\ \A f \in WalIds : f \notin files => wal[f] = {}
  /\ \A f \in WalIds : \A r \in wal[f] :
       /\ r \in disk.raw => f <= disk.sealed
       /\ \A m \in Live : r \in m.events => f <= m.sealed
RecordsInv == CopiesInv /\ OwnerInv /\ LoggedInv

\* The conjunction of the above, inductive together with TypeOK under every fault
\* and any order of sends.
OwnershipInv == RunInv /\ SealInv /\ DistinctInv /\ RecordsInv

\* The records that are visible, on their way, or found by a restart.
Present == disk.raw \cup memtable \cup InMessages \cup Pending \cup Replayable

\* No id is present twice, and the cache of a running server knows every present
\* id but those of the request inside the critical section.
BillInv ==
  /\ OncePerId(Present)
  /\ up => \A r \in Present \ Pending : EventId[r.ev] \in IdsOf(dedupe)
  /\ \A r \in Pending : EventId[r.ev] \notin IdsOf(dedupe)
  /\ tail \subseteq Pending

\* A step that brings in no record, and one that also tells the cache of the
\* pending ones when it lets go of them.
NothingNew == Present' \subseteq Present \cup tail
Carries ==
  /\ NothingNew
  /\ up' => up
  /\ tail' \subseteq tail
  /\ \/ Pending' = Pending /\ dedupe' = dedupe
     \/ /\ Pending' = {} /\ (Pending # {} => tail' = {})
        /\ up' => dedupe' = dedupe \cup EventsOf(Pending)

-----------------------------------------------------------------------------
(* What a step may do with records *)

\* A restart finds nothing that it would not have found before, but for the tail.
LEMMA ReplayableKept ==
  ASSUME LoggedInv, files' \subseteq WalIds, disk.sealed \in Nat, disk'.sealed \in Nat,
         disk.sealed <= disk'.sealed, \A f \in WalIds : wal'[f] \subseteq wal[f] \cup tail
  PROVE  Replayable' \subseteq Replayable \cup tail
  <1> SUFFICES ASSUME NEW f \in files', f > disk'.sealed, NEW r \in wal'[f], r \notin tail
               PROVE  f \in files /\ f > disk.sealed /\ r \in wal[f]
    BY Zenon DEF Replayable, ListFilesAfter
  <1>1. f \in WalIds /\ f \in Nat /\ r \in wal[f]
    BY DEF WalIds
  <1> QED
    BY <1>1 DEF LoggedInv

\* Records stay where they are, move from the critical section to the memtable,
\* reach the log from the tail, or are dropped from memory.
LEMMA RecordsMove ==
  ASSUME TypeOK, RecordsInv, copies' = copies, files' \subseteq files,
         disk'.raw = disk.raw, manifest'.raw = manifest.raw,
         disk.sealed \in Nat, disk'.sealed \in Nat, disk.sealed <= disk'.sealed,
         Live' \subseteq Live, tail' \subseteq tail, Pending' \subseteq Pending,
         memtable' \subseteq memtable \cup Pending, memtable' \cap (tail' \cup Pending') = {},
         \A f \in WalIds : wal'[f] \subseteq wal[f] \cup tail,
         \A f \in WalIds : f \notin files' => wal'[f] = {}
  PROVE  RecordsInv' /\ NothingNew
  <1>1. InMessages' \subseteq InMessages /\ Logged' \subseteq Logged \cup tail
    BY Zenon DEF InMessages, Logged
  <1>2. CopiesInv'
    BY <1>1, Zenon DEF RecordsInv, CopiesInv
  <1>3. OwnerInv'
    BY <1>1, Zenon DEF RecordsInv, OwnerInv
  <1>4. \A r \in tail : r \notin disk.raw /\ \A m \in Live : r \notin m.events
    BY DEF RecordsInv, OwnerInv, InMessages
  <1>5. LoggedInv'
    BY <1>4 DEF RecordsInv, LoggedInv, WalIds
  <1>6. Replayable' \subseteq Replayable \cup tail
    <2>1. files' \subseteq WalIds
      BY Zenon DEF TypeOK
    <2> QED
      BY <2>1, ReplayableKept, Zenon DEF RecordsInv
  <1>7. NothingNew
    BY <1>1, <1>6, Zenon DEF NothingNew, Present
  <1> QED
    BY <1>2, <1>3, <1>5, <1>7, Zenon DEF RecordsInv

\* A drain: the memtable and the pending records become a message that seals
\* every file written so far.
LEMMA RecordsDrain ==
  ASSUME TypeOK, RecordsInv, copies' = copies, disk' = disk, manifest' = manifest,
         disk.sealed \in Nat, files' \subseteq WalIds, NEW m, Live' \subseteq Live \cup {m}, m.events = memtable \cup Pending,
         m.sealed \in Nat, \A f \in files : f <= m.sealed, fileId \in files,
         tail' = {}, Pending' = {}, memtable' = {}, files \subseteq files',
         \A f \in WalIds : wal'[f] = IF f = fileId THEN wal[f] \cup tail ELSE wal[f]
  PROVE  RecordsInv' /\ NothingNew
  <1>0. Logged' \subseteq Logged \cup tail
    <2>1. \A f \in WalIds : wal'[f] \subseteq wal[f] \cup tail
      BY Zenon
    <2> QED
      BY ONLY <2>1, Zenon DEF Logged
  <1>1. InMessages' \subseteq InMessages \cup memtable \cup Pending
    BY Zenon DEF InMessages
  <1>2. CopiesInv'
    BY <1>0, <1>1, Zenon DEF RecordsInv, CopiesInv
  <1>3. OwnerInv'
    <2>1. \A m1 \in Live : m1.events \cap m.events = {}
      BY DEF RecordsInv, OwnerInv, InMessages
    <2>2. \A m1, m2 \in Live' : m1 # m2 => m1.events \cap m2.events = {}
      BY <2>1, Zenon DEF RecordsInv, OwnerInv
    <2> QED
      BY <1>1, <2>2, Zenon DEF RecordsInv, OwnerInv
  <1>4. \A r \in tail : r \notin disk.raw /\ \A m1 \in Live : r \notin m1.events
    BY DEF RecordsInv, OwnerInv, InMessages
  <1>5. \A f \in WalIds : wal'[f] # {} => f <= m.sealed
    BY Zenon DEF RecordsInv, LoggedInv
  <1>6. LoggedInv'
    BY <1>4, <1>5, Zenon DEF RecordsInv, LoggedInv
  <1>7. Replayable' \subseteq Replayable \cup tail
    <2>1. disk'.sealed \in Nat /\ disk.sealed <= disk'.sealed
      OBVIOUS
    <2>2. \A f \in WalIds : wal'[f] \subseteq wal[f] \cup tail
      BY Zenon
    <2> QED
      BY <2>1, <2>2, ReplayableKept, Zenon DEF RecordsInv
  <1>8. NothingNew
    BY <1>1, <1>7, Zenon DEF NothingNew, Present
  <1> QED
    BY <1>2, <1>3, <1>6, <1>8, Zenon DEF RecordsInv

\* The flusher gives up the records of its message x: to the memtable, or to the
\* segments together with the seal.
LEMMA RecordsTake ==
  ASSUME TypeOK, RecordsInv, copies' = copies, NEW x \in Live, \A m \in Live' : m \in Live /\ m # x,
         \/ /\ memtable' = memtable \cup x.events /\ Pending = {} /\ tail \cap x.events = {}
            /\ disk' = disk /\ manifest' = manifest
         \/ /\ memtable' = memtable
            /\ disk'.raw = disk.raw \cup x.events /\ manifest'.raw = disk'.raw
            /\ disk.sealed <= disk'.sealed /\ x.sealed <= disk'.sealed,
         disk.sealed \in Nat, disk'.sealed \in Nat, x.sealed \in Nat,
         Pending' = Pending, UNCHANGED <<tail, wal, files>>
  PROVE  RecordsInv' /\ NothingNew
  <1>1. /\ InMessages' \subseteq InMessages /\ x.events \subseteq InMessages
        /\ InMessages' \cap x.events = {} /\ Logged' = Logged
    BY DEF InMessages, Logged, RecordsInv, OwnerInv
  <1>2. CopiesInv'
    BY <1>1, Zenon DEF RecordsInv, CopiesInv
  <1>3. OwnerInv'
    BY <1>1, Zenon DEF RecordsInv, OwnerInv
  <1>4. LoggedInv'
    BY DEF RecordsInv, LoggedInv, WalIds
  <1>5. Replayable' \subseteq Replayable \cup tail
    <2>1. files' \subseteq WalIds /\ disk.sealed <= disk'.sealed
      BY DEF TypeOK
    <2>2. \A f \in WalIds : wal'[f] \subseteq wal[f] \cup tail
      BY Zenon
    <2> QED
      BY <2>1, <2>2, ReplayableKept, Zenon DEF RecordsInv
  <1>6. NothingNew
    BY <1>1, <1>5, Zenon DEF NothingNew, Present
  <1> QED
    BY <1>2, <1>3, <1>4, <1>6, Zenon DEF RecordsInv

\* A bucket fails: the flusher keeps some of the records of its message x.
LEMMA RecordsShrink ==
  ASSUME RecordsInv, NEW x \in Live, NEW y, y.events \subseteq x.events, y.sealed = x.sealed,
         \A m \in Live' : m = y \/ (m \in Live /\ m # x),
         Pending' = Pending, UNCHANGED <<copies, disk, manifest, memtable, tail, wal, files>>
  PROVE  RecordsInv' /\ NothingNew
  <1>1. InMessages' \subseteq InMessages /\ Logged' = Logged
    BY Zenon DEF InMessages, Logged
  <1>2. CopiesInv'
    BY <1>1, Zenon DEF RecordsInv, CopiesInv
  <1>3. OwnerInv'
    BY <1>1, Zenon DEF RecordsInv, OwnerInv
  <1>4. LoggedInv'
    BY Zenon DEF RecordsInv, LoggedInv
  <1>5. NothingNew
    BY <1>1 DEF NothingNew, Present, Replayable, ListFilesAfter
  <1> QED
    BY <1>2, <1>3, <1>4, <1>5, Zenon DEF RecordsInv

-----------------------------------------------------------------------------
(* Which messages are live after a step, and which files they seal *)

\* Live messages are messages.
LEMMA LiveType ==
  ASSUME TypeOK
  PROVE  /\ \A m \in Live : m \in Messages /\ m.sealed \in Nat
         /\ flusher.msg \in Messages /\ flusher.msg.sealed \in Nat
  <1>1. flusher.msg \in Messages /\ flusher.msg.sealed \in Nat
    BY DEF TypeOK, FlusherStates, Messages
  <1> QED
    BY <1>1, InFlightType, Zenon DEF Live

\* A live message is that of a sending task, of the channel or of the flusher.
LEMMA LiveWhere ==
  \A m : m \in Live <=> \/ \E p \in Sending : m = task[p].msg
                        \/ \E i \in DOMAIN channel : m = channel[i]
                        \/ Flushing /\ m = flusher.msg
  BY Zenon DEF Live, InFlight, Sending, Flushing

\* A task that neither starts nor ends a send moves no message.
LEMMA SameMessages ==
  ASSUME TypeOK, NEW c \in Tasks, NEW t, task' = [task EXCEPT ![c] = t],
         task[c].pc # "send", t.pc # "send", UNCHANGED <<channel, flusher>>
  PROVE  Live' = Live /\ (DistinctInv => DistinctInv')
  <1>1. Live' = Live
    BY InFlightSame, Zenon DEF Live
  <1>2. Sending' = Sending /\ \A p \in Sending : task'[p] = task[p]
    BY Zenon DEF Sending, TypeOK
  <1>3. Flushing' = Flushing
    BY Zenon DEF Flushing
  <1>4. DistinctInv => DistinctInv'
    BY <1>2, <1>3 DEF DistinctInv
  <1> QED
    BY <1>1, <1>4, Zenon

\* A drain adds a message, and it seals a file no other message seals.
LEMMA DrainMessages ==
  ASSUME TypeOK, SealInv, DistinctInv, NEW p \in Tasks, NEW t, task' = [task EXCEPT ![p] = t],
         task[p].pc # "send", t.pc = "send", t.msg.sealed = activeId, UNCHANGED <<channel, flusher>>
  PROVE  Live' = Live \cup {t.msg} /\ DistinctInv'
  <1>1. Live' = Live \cup {t.msg}
    BY InFlightDrain, Zenon DEF Live
  <1>2. \A m \in Live : m.sealed # t.msg.sealed
    BY LiveType DEF SealInv, TypeOK, WalIds
  <1>3. /\ \A q \in Sending : task[q].msg.sealed # t.msg.sealed
        /\ \A i \in DOMAIN channel : channel[i].sealed # t.msg.sealed
        /\ Flushing => flusher.msg.sealed # t.msg.sealed
    BY <1>2, LiveWhere, Zenon
  <1>4. Sending' = Sending \cup {p} /\ p \notin Sending /\ task'[p] = t
        /\ \A q \in Sending : task'[q] = task[q]
    BY Zenon DEF Sending, TypeOK
  <1>5. Flushing' = Flushing
    BY Zenon DEF Flushing
  <1>6. DistinctInv'
    BY <1>3, <1>4, <1>5 DEF DistinctInv
  <1> QED
    BY <1>1, <1>6, Zenon

\* A send moves a message into the channel.
LEMMA SendMessages ==
  ASSUME TypeOK, DistinctInv, NEW p \in Tasks, SendFlush(p)
  PROVE  Live' = Live /\ DistinctInv'
  <1>1. Live' = Live
    <2>1. flusher' = flusher
      BY Zenon DEF SendFlush
    <2> QED
      BY <2>1, InFlightSend, Zenon DEF Live
  <1>2. /\ DOMAIN channel' = DOMAIN channel \cup {Len(channel) + 1}
        /\ Len(channel) + 1 \notin DOMAIN channel
        /\ \A i \in DOMAIN channel : channel'[i] = channel[i]
        /\ channel'[Len(channel) + 1] = task[p].msg
    <2>1. task[p].msg \in Messages /\ channel \in Seq(Messages)
      BY Zenon DEF TypeOK, TaskStates
    <2>2. channel' = Append(channel, task[p].msg)
      BY Zenon DEF SendFlush
    <2> QED
      BY <2>1, <2>2, AppendElements
  <1>3. p \in Sending /\ Sending' = Sending \ {p} /\ \A q \in Sending' : task'[q] = task[q]
    BY Zenon DEF SendFlush, Sending, TypeOK, IdleTask
  <1>4. UNCHANGED flusher /\ Flushing' = Flushing
    BY Zenon DEF SendFlush, Flushing
  <1>5. DistinctInv'
    BY <1>2, <1>3, <1>4 DEF DistinctInv
  <1> QED
    BY <1>1, <1>5, Zenon

\* A handler dropped while it waits takes its message with it.
LEMMA DropMessages ==
  ASSUME TypeOK, DistinctInv, NEW p \in Tasks, task' = [task EXCEPT ![p] = IdleTask],
         UNCHANGED <<channel, flusher>>
  PROVE  Live' \subseteq Live /\ DistinctInv'
  <1>1. Sending' \subseteq Sending /\ \A q \in Sending' : task'[q] = task[q]
    BY Zenon DEF Sending, TypeOK, IdleTask
  <1>2. Flushing' = Flushing
    BY Zenon DEF Flushing
  <1>3. \A m \in Live' : \/ \E q \in Sending' : m = task'[q].msg
                         \/ \E i \in DOMAIN channel' : m = channel'[i]
                         \/ Flushing' /\ m = flusher'.msg
    BY Zenon DEF Live, InFlight, Sending, Flushing
  <1>4. Live' \subseteq Live
    BY <1>1, <1>2, <1>3, LiveWhere, Zenon
  <1> QED
    BY <1>1, <1>2, <1>4 DEF DistinctInv

\* The flusher takes the first message of the channel, or skips it when it is
\* empty.
LEMMA RecvMessages ==
  ASSUME TypeOK, DistinctInv, FlusherRecv
  PROVE  Live' \subseteq Live /\ DistinctInv' /\ flusher'.pc # "delete"
  <1>1. /\ 1 \in DOMAIN channel
        /\ Head(channel) = channel[1]
        /\ \A i \in DOMAIN channel' : i \in Nat /\ i + 1 \in DOMAIN channel /\ channel'[i] = channel[i + 1]
    BY TailElements, Zenon DEF FlusherRecv, TypeOK
  <1>2. flusher' = IdleFlusher \/ flusher' = [pc |-> "write", msg |-> channel[1]]
    BY <1>1, Zenon DEF FlusherRecv
  <1>3. Sending' = Sending /\ UNCHANGED task /\ flusher.pc = "idle"
    BY Zenon DEF FlusherRecv, Sending
  <1>4. Flushing' => flusher'.msg = channel[1]
    BY <1>2 DEF IdleFlusher, Flushing
  <1>5. Live' \subseteq Live
    BY <1>1, <1>2, <1>3 DEF Live, InFlight, IdleFlusher
  <1>6. \A i \in DOMAIN channel' : i + 1 # 1
    <2>1. channel \in Seq(Messages) /\ channel' = Tail(channel) /\ channel # <<>>
      BY Zenon DEF FlusherRecv, TypeOK
    <2>2. DOMAIN channel' = 1..(Len(channel) - 1)
      BY <2>1
    <2> QED
      BY <2>2
  <1>7. /\ \A i, j \in DOMAIN channel' : channel'[i].sealed = channel'[j].sealed => i = j
        /\ \A i \in DOMAIN channel' : channel'[i].sealed # channel[1].sealed
    BY <1>1, <1>6 DEF DistinctInv
  <1>8. \A p \in Sending : \A i \in DOMAIN channel' : task[p].msg.sealed # channel'[i].sealed
    BY <1>1 DEF DistinctInv
  <1>9. DistinctInv'
    BY <1>1, <1>3, <1>4, <1>7, <1>8 DEF DistinctInv
  <1> QED
    BY <1>2, <1>5, <1>9 DEF IdleFlusher

\* The flusher finishes with its message: the others are those of other files.
LEMMA DoneMessages ==
  ASSUME DistinctInv, UNCHANGED <<task, channel>>, flusher'.pc \in {"idle", "delete"}
  PROVE  /\ Live' \subseteq Live
         /\ Flushing => \A m \in Live' : m # flusher.msg
         /\ DistinctInv'
  <1>1. Sending' = Sending /\ ~Flushing'
    BY Zenon DEF Sending, Flushing
  <1>2. \A m \in Live' : \/ \E p \in Sending : m = task[p].msg
                         \/ \E i \in DOMAIN channel : m = channel[i]
    BY Zenon DEF Live, InFlight, Sending
  <1>3. Live' \subseteq Live
    BY <1>2, LiveWhere, Zenon
  <1>4. Flushing => \A m \in Live' : m # flusher.msg
    BY <1>2, Zenon DEF DistinctInv
  <1> QED
    BY <1>1, <1>3, <1>4, Zenon DEF DistinctInv

\* The flusher goes on with the same message, or with some of its events.
LEMMA KeepMessages ==
  ASSUME DistinctInv, UNCHANGED <<task, channel>>, Flushing, Flushing',
         flusher'.msg.sealed = flusher.msg.sealed
  PROVE  /\ flusher.msg \in Live
         /\ \A m \in Live' : m = flusher'.msg \/ (m \in Live /\ m # flusher.msg)
         /\ DistinctInv'
  <1>1. Sending' = Sending
    BY Zenon DEF Sending
  <1>2. \A m \in Live' : \/ \E p \in Sending : m = task[p].msg
                         \/ \E i \in DOMAIN channel : m = channel[i]
                         \/ m = flusher'.msg
    BY Zenon DEF Live, InFlight, Sending
  <1>3. \A m \in Live' : m = flusher'.msg \/ (m \in Live /\ m # flusher.msg)
    BY <1>2, LiveWhere DEF DistinctInv
  <1>4. flusher.msg \in Live
    BY LiveWhere, Zenon
  <1>5. DistinctInv'
    BY <1>1, Zenon DEF DistinctInv
  <1> QED
    BY <1>3, <1>4, <1>5, Zenon

-----------------------------------------------------------------------------
(* The critical section, the seal and the log *)

\* Everything the write path stores is a record.
LEMMA RecordTypes ==
  ASSUME TypeOK
  PROVE  /\ Pending \cup InMessages \cup Logged \cup tail \cup memtable \cup disk.raw \subseteq Records
         /\ disk.sealed \in Nat /\ manifest.sealed \in Nat
  <1>1. Pending \subseteq Records
    BY Zenon DEF Pending, TypeOK, TaskStates
  <1>2. InMessages \subseteq Records
    BY LiveType, Zenon DEF InMessages, Messages
  <1>3. Logged \subseteq Records
    BY Zenon DEF Logged, TypeOK
  <1>4. tail \cup memtable \cup disk.raw \subseteq Records /\ disk.sealed \in Nat /\ manifest.sealed \in Nat
    BY DEF TypeOK, Manifests
  <1> QED
    BY <1>1, <1>2, <1>3, <1>4, Zenon

\* Files have natural numbers.
LEMMA FilesNat ==
  ASSUME TypeOK
  PROVE  \A f \in files : f \in Nat
  BY DEF TypeOK, WalIds

\* The records of the task inside the critical section are all that is pending,
\* and nothing is when it leaves.
LEMMA PendingEnds ==
  ASSUME TypeOK, RunInv, NEW c \in Tasks, task[c].pc = "append",
         NEW t, task' = [task EXCEPT ![c] = t], t.pc # "append"
  PROVE  Pending = task[c].recs /\ Pending' = {} /\ up /\ (UNCHANGED up => RunInv')
  <1>1. \A q \in Tasks : task[q].pc = "append" => q = c
    BY Zenon DEF RunInv
  <1>2. Pending = task[c].recs
    BY <1>1, Zenon DEF Pending
  <1>3. \A q \in Tasks : task'[q].pc # "append"
    BY <1>1, Zenon DEF TypeOK
  <1>4. Pending' = {}
    BY <1>3, Zenon DEF Pending
  <1>5. up
    BY DEF RunInv, IdleTask
  <1> QED
    BY <1>2, <1>3, <1>4, <1>5, Zenon DEF RunInv

\* A step of a task outside the critical section changes nothing there.
LEMMA PendingSame ==
  ASSUME TypeOK, RunInv, NEW c \in Tasks, task[c].pc # "append", up, UNCHANGED up,
         NEW t, task' = [task EXCEPT ![c] = t], t.pc # "append"
  PROVE  Pending' = Pending /\ RunInv'
  <1>1. \A q \in Tasks : (task'[q].pc = "append" <=> task[q].pc = "append")
                         /\ (task[q].pc = "append" => task'[q] = task[q])
    BY Zenon DEF TypeOK
  <1>2. Pending' = Pending
    BY <1>1 DEF Pending
  <1> QED
    BY <1>1, <1>2, Zenon DEF RunInv

\* A step that keeps the files and the seal pointer keeps the open file above
\* every seal.
LEMMA SealKept ==
  ASSUME SealInv, UNCHANGED <<up, files, fileId, activeId, disk, manifest>>, Live' \subseteq Live,
         flusher'.pc = "delete" => flusher'.msg.sealed < fileId
  PROVE  SealInv'
  BY Zenon DEF SealInv

\* So does a rotation, which opens a file above every one sealed so far.
LEMMA SealRotated ==
  ASSUME TypeOK, SealInv, up, Rotate, NEW m, m.sealed = activeId, Live' = Live \cup {m},
         UNCHANGED <<up, disk, manifest, flusher>>
  PROVE  SealInv'
  <1>1. activeId \in Nat /\ fileId \in Nat /\ (\A f \in files : f \in Nat) /\ manifest.sealed \in Nat
    BY DEF TypeOK, WalIds, Manifests
  <1>2. /\ activeId' = activeId + 1 /\ fileId' = activeId + 1 /\ files' = files \cup {activeId + 1}
    BY Zenon DEF Rotate
  <1>3. fileId <= activeId /\ \A n \in Live : n.sealed < fileId /\ n.sealed \in Nat
    BY LiveType, Zenon DEF SealInv
  <1>4. \A n \in Live' : n.sealed < fileId'
    BY <1>1, <1>2, <1>3
  <1>5. flusher.pc = "delete" => flusher.msg.sealed < fileId'
    BY <1>1, <1>2, LiveType DEF SealInv
  <1>6. \A f \in files' : f <= activeId'
    BY <1>1, <1>2 DEF SealInv
  <1> QED
    BY <1>1, <1>2, <1>4, <1>5, <1>6 DEF SealInv

\* So does one that fails, although active_id may have moved on without the
\* file.
LEMMA SealNotRotated ==
  ASSUME TypeOK, SealInv, NEW recs, RotateFails(recs), Live' = Live,
         UNCHANGED <<up, disk, manifest, flusher>>
  PROVE  SealInv'
  <1>1. activeId \in Nat /\ fileId \in Nat /\ \A f \in files : f \in Nat
    BY DEF TypeOK, WalIds
  <1>2. UNCHANGED <<files, fileId>> /\ (activeId' = activeId \/ activeId' = activeId + 1)
    BY Zenon DEF RotateFails
  <1> QED
    BY <1>1, <1>2 DEF SealInv

\* A sync moves lines from the tail to the open file.
LEMMA SyncMoves ==
  ASSUME TypeOK, fileId \in files, LoggedInv, NEW recs, SyncNew(recs) \/ Sync
  PROVE  /\ tail' \subseteq tail
         /\ recs # {} => tail' = {}
         /\ \A f \in WalIds : wal'[f] \subseteq wal[f] \cup tail
         /\ \A f \in WalIds : f \notin files => wal'[f] = {}
  <1>1. CASE UNCHANGED <<wal, tail, dirty>> /\ recs = {}
    BY <1>1, Zenon DEF LoggedInv
  <1>2. CASE Sync
    BY <1>2, Zenon DEF Sync, LoggedInv, TypeOK
  <1> QED
    BY <1>1, <1>2, Zenon DEF SyncNew

\* A rotation syncs first.
LEMMA RotateMoves ==
  ASSUME TypeOK, Rotate
  PROVE  /\ tail' = {} /\ files \subseteq files'
         /\ \A f \in WalIds : wal'[f] = IF f = fileId THEN wal[f] \cup tail ELSE wal[f]
  BY Zenon DEF Rotate, Sync, TypeOK

\* Appended lines are new records: no copy of them is anywhere yet.
LEMMA RecordsAppend ==
  ASSUME TypeOK, RecordsInv, NEW new \in SUBSET Events,
         NEW recs, recs = {[ev |-> e, copy |-> copies[e]] : e \in new},
         copies' = [e \in Events |-> IF e \in new THEN copies[e] + 1 ELSE copies[e]],
         Pending = {}, Pending' = recs, tail' \subseteq tail \cup recs, Live' = Live,
         UNCHANGED <<disk, manifest, memtable, wal, files>>
  PROVE  RecordsInv'
  <1>1. \A e \in Events : copies[e] \in Nat /\ copies[e] <= copies'[e]
    BY DEF TypeOK
  <1>2. \A r \in recs : r.ev \in Events /\ r.copy = copies[r.ev] /\ r.copy < copies'[r.ev]
    BY <1>1
  <1>3. InMessages' = InMessages /\ Logged' = Logged
    BY Zenon DEF InMessages, Logged
  <1>4. \A r \in InMessages \cup Logged \cup tail \cup memtable \cup disk.raw :
          r \in Records /\ r.copy < copies[r.ev] /\ r \notin recs
    BY <1>1, <1>2, RecordTypes DEF RecordsInv, CopiesInv
  <1>5. CopiesInv'
    <2>1. \A r \in InMessages \cup Logged \cup tail \cup memtable \cup disk.raw : r.copy < copies'[r.ev]
      <3>1. \A r \in Records : r.ev \in Events /\ r.copy \in Nat
        BY DEF Records
      <3> QED
        BY <1>1, <1>4, <3>1
    <2> QED
      BY <1>2, <1>3, <2>1, Zenon DEF CopiesInv
  <1>6. OwnerInv'
    BY <1>3, <1>4, Zenon DEF RecordsInv, OwnerInv
  <1>7. LoggedInv'
    BY Zenon DEF RecordsInv, LoggedInv
  <1> QED
    BY <1>5, <1>6, <1>7, Zenon DEF RecordsInv

\* Recovery fills the memtable with what the unsealed files hold, which no
\* segment holds.
LEMMA RecordsReplay ==
  ASSUME TypeOK, RecordsInv, NEW gone, gone = DeleteFilesThrough(disk.sealed),
         Live = {}, Live' = {}, Pending' = {}, tail' = {}, files \ gone \subseteq files',
         memtable' = UNION {wal[f] : f \in ListFilesAfter(disk.sealed)},
         wal' = [f \in WalIds |-> IF f \in gone THEN {} ELSE wal[f]],
         manifest' = disk, UNCHANGED <<disk, copies>>
  PROVE  RecordsInv'
  <1>1. memtable' \subseteq Logged /\ Logged' \subseteq Logged /\ InMessages' = {}
    BY Zenon DEF InMessages, Logged, ListFilesAfter, TypeOK
  <1>2. CopiesInv'
    BY <1>1, Zenon DEF RecordsInv, CopiesInv
  <1>3. memtable' \cap disk.raw = {}
    <2>1. \A f \in ListFilesAfter(disk.sealed) : f \in WalIds /\ f \in Nat /\ f > disk.sealed
      BY DEF ListFilesAfter, TypeOK, WalIds
    <2> QED
      BY <2>1, RecordTypes DEF RecordsInv, LoggedInv
  <1>4. OwnerInv'
    BY <1>1, <1>3, Zenon DEF OwnerInv
  <1>5. LoggedInv'
    BY Zenon DEF RecordsInv, LoggedInv
  <1> QED
    BY <1>2, <1>4, <1>5, Zenon DEF RecordsInv

-----------------------------------------------------------------------------
(* The steps of the tasks *)

\* An idle task is in no critical section and sends nothing.
LEMMA IdlePc == IdleTask.pc = "idle"
  BY Zenon DEF IdleTask

\* ingest_critical_section up to the append.
LEMMA AppendStep ==
  ASSUME TypeOK, OwnershipInv, NEW c \in Clients, NEW B \in Batches, IngestAppend(c, B)
  PROVE  OwnershipInv' /\ (BillInv => BillInv')
  <1> USE DEF OwnershipInv
  <1>1. PICK new \in Firsts({e \in B : EventId[e] \notin IdsOf(dedupe)}) :
          LET recs == {[ev |-> e, copy |-> copies[e]] : e \in new}
          IN /\ \E lost \in IF torn /\ recs # {} THEN {{r} : r \in recs} ELSE {{}} :
                  tail' = tail \cup (recs \ lost)
             /\ copies' = [e \in Events |-> IF e \in new THEN copies[e] + 1 ELSE copies[e]]
             /\ task' = [task EXCEPT ![c] =
                  [pc |-> "append", recs |-> recs,
                   acks |-> new \cup (B \cap dedupe), msg |-> NoMsg]]
    BY Zenon DEF IngestAppend
  <1> DEFINE recs == {[ev |-> e, copy |-> copies[e]] : e \in new}
  <1>2. new \in SUBSET Events /\ c \in Tasks
    BY Zenon DEF Firsts, Batches, Tasks
  <1>3. /\ tail' \subseteq tail \cup recs
        /\ task' = [task EXCEPT ![c] = [pc |-> "append", recs |-> recs,
                      acks |-> new \cup (B \cap dedupe), msg |-> NoMsg]]
    BY <1>1, Zenon
  <1>4. copies' = [e \in Events |-> IF e \in new THEN copies[e] + 1 ELSE copies[e]]
    BY <1>1, Zenon
  <1> HIDE DEF recs
  <1>5. up /\ task[c].pc = "idle" /\ (\A p \in Tasks : task[p].pc # "append")
        /\ UNCHANGED <<wal, files, disk, up, activeId, fileId, memtable, channel, flusher, manifest>>
    BY Zenon DEF IngestAppend, LocksFree
  <1>6. /\ \A q \in Tasks : task'[q].pc = "append" <=> q = c
        /\ task'[c].recs = recs
    BY <1>2, <1>3, <1>5, Zenon DEF TypeOK
  <1>7. Pending = {} /\ Pending' = recs /\ RunInv'
    <2>1. Pending = {}
      BY <1>5, Zenon DEF Pending
    <2>2. Pending' = recs
      BY <1>2, <1>6, Zenon DEF Pending
    <2> QED
      BY <1>5, <1>6, <2>1, <2>2, Zenon DEF RunInv
  <1>8. Live' = Live /\ DistinctInv'
    <2> DEFINE t == [pc |-> "append", recs |-> recs, acks |-> new \cup (B \cap dedupe), msg |-> NoMsg]
    <2>1. t.pc # "send" /\ task' = [task EXCEPT ![c] = t]
      BY <1>3, Zenon
    <2> HIDE DEF t
    <2> QED
      BY <1>2, <1>5, <2>1, SameMessages, Zenon
  <1>9. SealInv'
    BY <1>5, <1>8, SealKept, Zenon DEF SealInv
  <1>10. RecordsInv'
    BY <1>2, <1>3, <1>4, <1>5, <1>7, <1>8, RecordsAppend, Zenon DEF recs
  <1>11. ASSUME BillInv PROVE BillInv'
    <2>1. Present' = Present \cup recs
      <3>1. InMessages' = InMessages /\ Replayable' = Replayable
        BY <1>5, <1>8, Zenon DEF InMessages, Replayable, ListFilesAfter
      <3> QED
        BY <1>5, <1>7, <3>1, Zenon DEF Present
    <2>2. \A r \in recs : EventId[r.ev] \notin IdsOf(dedupe)
      BY DEF Firsts, recs
    <2>3. \A r, q \in recs : EventId[r.ev] = EventId[q.ev] => r = q
      BY DEF Firsts, recs
    <2>4. \A r \in Present : EventId[r.ev] \in IdsOf(dedupe)
      BY <1>5, <1>7, <1>11, Zenon DEF BillInv
    <2>5. OncePerId(Present')
      BY <1>11, <2>1, <2>2, <2>3, <2>4, Zenon DEF BillInv, OncePerId
    <2>6. dedupe' = dedupe /\ tail' \subseteq recs
      BY <1>3, <1>7, <1>11, Zenon DEF BillInv, IngestAppend
    <2> QED
      BY <1>7, <2>1, <2>2, <2>4, <2>5, <2>6, Zenon DEF BillInv, OncePerId
  <1> QED
    BY <1>7, <1>8, <1>9, <1>10, <1>11, Zenon

\* A step that leaves the log, the segments and the memtable as they are.
LEMMA QuietStep ==
  ASSUME TypeOK, OwnershipInv, tail' \subseteq tail, Live' \subseteq Live, Pending' \subseteq Pending,
         UNCHANGED <<wal, files, disk, up, activeId, fileId, memtable, manifest, copies>>,
         flusher' = flusher \/ flusher'.pc # "delete", RunInv', DistinctInv'
  PROVE  OwnershipInv' /\ NothingNew
  <1> USE DEF OwnershipInv
  <1>1. SealInv'
    BY SealKept, Zenon DEF SealInv
  <1>2. memtable \cap (tail \cup Pending) = {} /\ \A f \in WalIds : f \notin files => wal[f] = {}
    BY Zenon DEF RecordsInv, OwnerInv, LoggedInv
  <1>3. RecordsInv' /\ NothingNew
    BY <1>2, RecordTypes, RecordsMove
  <1> QED
    BY <1>1, <1>3, Zenon

\* A failed append or sync.
LEMMA WalFailsStep ==
  ASSUME TypeOK, OwnershipInv, NEW c \in Clients, IngestWalFails(c)
  PROVE  OwnershipInv'
  <1>1. c \in Tasks /\ task[c].pc = "append" /\ task' = [task EXCEPT ![c] = IdleTask]
        /\ UNCHANGED <<channel, flusher, up>>
    BY Zenon DEF IngestWalFails, Tasks
  <1>2. tail' \subseteq tail
        /\ UNCHANGED <<wal, files, disk, up, activeId, fileId, memtable, manifest, copies>>
    BY Zenon DEF IngestWalFails
  <1>3. Pending' = {} /\ RunInv'
    BY <1>1, IdlePc, PendingEnds, Zenon DEF OwnershipInv
  <1>4. Live' = Live /\ DistinctInv'
    BY <1>1, IdlePc, SameMessages, Zenon DEF OwnershipInv
  <1> QED
    BY <1>1, <1>2, <1>3, <1>4, QuietStep, Zenon

-----------------------------------------------------------------------------
(* The handlers' commits, drains and sends keep one owner *)

\* A request that fits into the memtable.
LEMMA CommitStep ==
  ASSUME TypeOK, OwnershipInv, NEW c \in Clients, IngestCommit(c)
  PROVE  OwnershipInv' /\ Carries
  <1> USE DEF OwnershipInv
  <1>1. c \in Tasks /\ task[c].pc = "append" /\ task' = [task EXCEPT ![c] = IdleTask]
        /\ SyncNew(task[c].recs) /\ memtable' = memtable \cup task[c].recs
        /\ dedupe' = dedupe \cup EventsOf(task[c].recs)
        /\ UNCHANGED <<files, disk, up, activeId, fileId, channel, flusher, manifest, copies>>
    BY Zenon DEF IngestCommit, Tasks
  <1>2. Pending = task[c].recs /\ Pending' = {} /\ up /\ RunInv'
    BY <1>1, IdlePc, PendingEnds, Zenon
  <1>3. Live' = Live /\ DistinctInv'
    BY <1>1, IdlePc, SameMessages, Zenon
  <1>4. SealInv'
    BY <1>1, <1>3, SealKept, Zenon DEF SealInv
  <1>5. /\ tail' \subseteq tail
        /\ task[c].recs # {} => tail' = {}
        /\ \A f \in WalIds : wal'[f] \subseteq wal[f] \cup tail
        /\ \A f \in WalIds : f \notin files => wal'[f] = {}
    BY <1>1, <1>2, SyncMoves, Zenon DEF SealInv, RecordsInv
  <1>6. RecordsInv' /\ NothingNew
    <2>1. memtable \cap tail = {}
      BY Zenon DEF RecordsInv, OwnerInv
    <2>2. memtable' \cap (tail' \cup Pending') = {}
      BY <1>1, <1>2, <1>5, <2>1, Zenon
    <2> QED
      BY <1>1, <1>2, <1>3, <1>5, <2>2, RecordTypes, RecordsMove
  <1>7. Carries
    BY <1>1, <1>2, <1>5, <1>6, Zenon DEF Carries
  <1> QED
    BY <1>2, <1>3, <1>4, <1>6, <1>7, Zenon

\* A task p drains the memtable, and what it appended, into a message.
LEMMA DrainStep ==
  ASSUME TypeOK, OwnershipInv, up, Rotate, NEW p \in Tasks, NEW t, task' = [task EXCEPT ![p] = t],
         task[p].pc # "send", t.pc = "send", t.msg.sealed = activeId,
         t.msg.events = memtable \cup Pending, memtable' = {}, Pending' = {}, RunInv',
         UNCHANGED <<disk, up, channel, flusher, manifest, copies>>
  PROVE  OwnershipInv' /\ NothingNew /\ tail' = {}
  <1> USE DEF OwnershipInv
  <1>1. Live' = Live \cup {t.msg} /\ DistinctInv'
    BY DrainMessages, Zenon
  <1>2. SealInv'
    BY <1>1, SealRotated, Zenon
  <1>3. fileId \in files /\ \A f \in files : f <= t.msg.sealed
    BY Zenon DEF SealInv
  <1>4. t.msg.sealed \in Nat
    BY DEF TypeOK, WalIds
  <1>5. disk.sealed \in Nat /\ files' \subseteq WalIds
    BY RecordTypes, RotateType, Zenon
  <1>6. RecordsInv' /\ NothingNew
    BY <1>1, <1>3, <1>4, <1>5, RotateMoves, RecordsDrain, Zenon
  <1> QED
    BY <1>1, <1>2, <1>6, RotateMoves, Zenon

\* A request that drains the memtable.
LEMMA OverflowStep ==
  ASSUME TypeOK, OwnershipInv, NEW c \in Clients, IngestOverflow(c)
  PROVE  OwnershipInv' /\ Carries
  <1> DEFINE t == [pc |-> "send", recs |-> {}, acks |-> task[c].acks,
                   msg |-> [events |-> memtable \cup task[c].recs, sealed |-> activeId]]
  <1>1. c \in Tasks /\ task[c].pc = "append" /\ task' = [task EXCEPT ![c] = t]
        /\ Rotate /\ memtable' = {} /\ dedupe' = dedupe \cup EventsOf(task[c].recs)
        /\ UNCHANGED <<disk, up, channel, flusher, manifest, copies>>
    BY Zenon DEF IngestOverflow, Tasks
  <1>2. t.pc = "send" /\ t.msg.sealed = activeId /\ t.msg.events = memtable \cup task[c].recs
    BY Zenon
  <1> HIDE DEF t
  <1>3. Pending = task[c].recs /\ Pending' = {} /\ up /\ RunInv'
    BY <1>1, <1>2, PendingEnds, Zenon DEF OwnershipInv
  <1>4. OwnershipInv' /\ NothingNew /\ tail' = {}
    BY <1>1, <1>2, <1>3, DrainStep, Zenon
  <1> QED
    BY <1>1, <1>3, <1>4, Zenon DEF Carries

\* What a failed rotation leaves, with the memtable dropped.
LEMMA RotateFailsRecords ==
  ASSUME TypeOK, OwnershipInv, up, NEW recs, RotateFails(recs), memtable' = {}, Pending' = {},
         Live' = Live, UNCHANGED <<disk, up, manifest, copies, flusher>>
  PROVE  SealInv' /\ RecordsInv' /\ NothingNew /\ tail' \subseteq tail /\ (recs # {} => tail' = {})
  <1> USE DEF OwnershipInv
  <1>1. UNCHANGED files /\ (SyncNew(recs) \/ Sync)
    BY Zenon DEF RotateFails
  <1>2. /\ tail' \subseteq tail /\ (recs # {} => tail' = {}) /\ files' \subseteq files
        /\ \A f \in WalIds : wal'[f] \subseteq wal[f] \cup tail
        /\ \A f \in WalIds : f \notin files' => wal'[f] = {}
    BY <1>1, SyncMoves, Zenon DEF SealInv, RecordsInv
  <1>3. RecordsInv' /\ NothingNew
    BY <1>2, RecordTypes, RecordsMove
  <1> QED
    BY <1>2, <1>3, SealNotRotated, Zenon

\* A request whose rotation fails.
LEMMA RotateFailsStep ==
  ASSUME TypeOK, OwnershipInv, NEW c \in Clients, IngestRotateFails(c)
  PROVE  OwnershipInv' /\ Carries
  <1> USE DEF OwnershipInv
  <1>1. c \in Tasks /\ task[c].pc = "append" /\ task' = [task EXCEPT ![c] = IdleTask]
        /\ RotateFails(task[c].recs) /\ memtable' = {} /\ dedupe' = dedupe \cup EventsOf(task[c].recs)
        /\ UNCHANGED <<disk, up, channel, flusher, manifest, copies>>
    BY Zenon DEF IngestRotateFails, Tasks
  <1>2. Pending = task[c].recs /\ Pending' = {} /\ up /\ RunInv'
    BY <1>1, IdlePc, PendingEnds, Zenon
  <1>3. Live' = Live /\ DistinctInv'
    BY <1>1, IdlePc, SameMessages, Zenon
  <1>4. SealInv' /\ RecordsInv' /\ NothingNew /\ tail' \subseteq tail /\ (task[c].recs # {} => tail' = {})
    BY <1>1, <1>2, <1>3, RotateFailsRecords, Zenon
  <1> QED
    BY <1>1, <1>2, <1>3, <1>4, Zenon DEF Carries

\* force_drain_memtable, with its rotation succeeding or not.
LEMMA ForceDrainStep ==
  ASSUME TypeOK, OwnershipInv, ForceDrainMemtable
  PROVE  OwnershipInv' /\ Carries
  <1> DEFINE t == [pc |-> "send", recs |-> {}, acks |-> {},
                   msg |-> [events |-> memtable, sealed |-> activeId]]
  <1>1. RollupWorker \in Tasks /\ up /\ task[RollupWorker].pc = "idle" /\ memtable' = {}
        /\ (\A p \in Tasks : task[p].pc # "append")
        /\ UNCHANGED <<disk, up, dedupe, channel, flusher, manifest, copies>>
    BY Zenon DEF ForceDrainMemtable, LocksFree, Tasks
  <1>2. Pending = {}
    BY <1>1, Zenon DEF Pending
  <1>3. CASE Rotate /\ task' = [task EXCEPT ![RollupWorker] = t]
    <2>1. t.pc = "send" /\ t.msg.sealed = activeId /\ t.msg.events = memtable \cup Pending
      BY <1>2, Zenon
    <2> HIDE DEF t
    <2>2. Pending' = {} /\ RunInv'
      BY <1>1, <1>2, <1>3, <2>1, PendingSame, Zenon DEF OwnershipInv
    <2>3. OwnershipInv' /\ NothingNew /\ tail' = {}
      BY <1>1, <1>3, <2>1, <2>2, DrainStep, Zenon
    <2> QED
      BY <1>1, <1>2, <2>2, <2>3, Zenon DEF Carries
  <1>4. CASE RotateFails({}) /\ UNCHANGED task
    <2>1. Pending' = {} /\ Live' = Live /\ RunInv' /\ DistinctInv'
      BY <1>1, <1>2, <1>4
      DEF OwnershipInv, Pending, Live, InFlight, RunInv, DistinctInv, Sending, Flushing
    <2>2. SealInv' /\ RecordsInv' /\ NothingNew /\ tail' \subseteq tail
      BY <1>1, <1>4, <2>1, RotateFailsRecords, Zenon
    <2> QED
      BY <1>1, <1>2, <2>1, <2>2, Zenon DEF Carries, OwnershipInv
  <1> QED
    BY <1>3, <1>4, Zenon DEF ForceDrainMemtable

\* The send on the flush channel.
LEMMA SendStep ==
  ASSUME TypeOK, OwnershipInv, NEW p \in Tasks, SendFlush(p)
  PROVE  OwnershipInv' /\ Carries
  <1>1. task[p].pc = "send" /\ task' = [task EXCEPT ![p] = IdleTask] /\ UNCHANGED up
    BY Zenon DEF SendFlush
  <1>2. UNCHANGED <<wal, files, disk, up, tail, dedupe, activeId, fileId, memtable, flusher, manifest, copies>>
    BY Zenon DEF SendFlush
  <1>3. Pending' = Pending /\ RunInv'
    <2>1. up
      BY <1>1 DEF OwnershipInv, RunInv, IdleTask
    <2> QED
      BY <1>1, <2>1, IdlePc, PendingSame, Zenon DEF OwnershipInv
  <1>4. Live' = Live /\ DistinctInv'
    BY SendMessages, Zenon DEF OwnershipInv
  <1>5. OwnershipInv' /\ NothingNew
    BY <1>2, <1>3, <1>4, QuietStep, Zenon
  <1> QED
    BY <1>2, <1>3, <1>5, Zenon DEF Carries

\* A handler dropped while it waits for the channel.
LEMMA DropStep ==
  ASSUME TypeOK, OwnershipInv, NEW c \in Clients, HandlerDropped(c)
  PROVE  OwnershipInv' /\ Carries
  <1>1. c \in Tasks /\ task[c].pc = "send" /\ task' = [task EXCEPT ![c] = IdleTask]
        /\ UNCHANGED <<up, channel, flusher>>
    BY Zenon DEF HandlerDropped, Tasks
  <1>2. UNCHANGED <<wal, files, disk, up, tail, dedupe, activeId, fileId, memtable, flusher, manifest, copies>>
    BY Zenon DEF HandlerDropped
  <1>3. Pending' = Pending /\ RunInv'
    <2>1. up
      BY <1>1 DEF OwnershipInv, RunInv, IdleTask
    <2> QED
      BY <1>1, <2>1, IdlePc, PendingSame, Zenon DEF OwnershipInv
  <1>4. Live' \subseteq Live /\ DistinctInv'
    BY <1>1, DropMessages, Zenon DEF OwnershipInv
  <1>5. OwnershipInv' /\ NothingNew
    BY <1>2, <1>3, <1>4, QuietStep, Zenon
  <1> QED
    BY <1>2, <1>3, <1>5, Zenon DEF Carries

=============================================================================
