-------------------------- MODULE IngestWriterProofs --------------------------
(***************************************************************************)
(* The write path keeps every variable well typed.  Then the lemmas its    *)
(* durability rests on: which messages are in flight and which records     *)
(* stay safe after a step.  Last, a fresh database satisfies the inductive *)
(* invariant, and the handlers' steps and the rollup worker's drain        *)
(* preserve it.                                                            *)
(***************************************************************************)
EXTENDS IngestPipeline, TLAPS

USE IngestAssumption

\* The idle values of tasks and flusher, and the empty message, are well typed.
LEMMA IdleTypes ==
  /\ NoMsg \in Messages
  /\ IdleTask \in TaskStates
  /\ IdleFlusher \in FlusherStates
  BY DEF NoMsg, Messages, IdleTask, TaskStates, IdleFlusher, FlusherStates

\* A freshly opened database is well typed.
LEMMA TypeInit == Init => TypeOK
  <1> SUFFICES ASSUME Init PROVE TypeOK
    BY Zenon
  <1>1. disk \in Manifests /\ manifest \in Manifests
    BY DEF Init, Manifests
  <1>2. task \in [Tasks -> TaskStates] /\ flusher \in FlusherStates
    BY IdleTypes, Zenon DEF Init
  <1>3. 1 \in WalIds /\ 0 \in 0..MaxCopies /\ 0 \in 0..MaxFaults
    BY DEF WalIds
  <1>4. channel \in Seq(Messages)
    BY DEF Init
  <1>5. /\ wal \in [WalIds -> SUBSET Records]
        /\ copies \in [Events -> 0..MaxCopies]
        /\ files \subseteq WalIds
    BY <1>3, Zenon DEF Init
  <1>6. torn \in BOOLEAN /\ up \in BOOLEAN /\ dirty \in BOOLEAN
    BY Zenon DEF Init
  <1> QED
    BY <1>1, <1>2, <1>3, <1>4, <1>5, <1>6 DEF Init, TypeOK

\* What Wal::sync leaves is well typed.
LEMMA SyncType ==
  ASSUME TypeOK, Sync
  PROVE  /\ wal' \in [WalIds -> SUBSET Records]
         /\ tail' \subseteq Records
         /\ dirty' \in BOOLEAN
  BY Zenon DEF Sync, TypeOK

\* So is what the conditional sync of the ingest path leaves.
LEMMA SyncNewType ==
  ASSUME TypeOK, NEW recs, SyncNew(recs)
  PROVE  /\ wal' \in [WalIds -> SUBSET Records]
         /\ tail' \subseteq Records
         /\ dirty' \in BOOLEAN
  <1>1. CASE recs = {}
    BY <1>1, Zenon DEF SyncNew, TypeOK
  <1>2. CASE recs # {}
    BY <1>2, SyncType, Zenon DEF SyncNew
  <1> QED
    BY <1>1, <1>2, Zenon

\* Wal::rotate leaves a well-typed WAL, and the id it opens is within bounds.
LEMMA RotateType ==
  ASSUME TypeOK, Rotate
  PROVE  /\ wal' \in [WalIds -> SUBSET Records]
         /\ tail' \subseteq Records
         /\ dirty' \in BOOLEAN
         /\ torn' \in BOOLEAN
         /\ files' \subseteq WalIds
         /\ activeId \in 0..MaxWalId
         /\ activeId' \in WalIds
         /\ fileId' \in WalIds
  <1>1. activeId \in 0..MaxWalId /\ activeId + 1 \in WalIds
    BY DEF Rotate, TypeOK, WalIds
  <1>2. activeId' \in WalIds /\ fileId' \in WalIds /\ files' \subseteq WalIds
    BY <1>1, Zenon DEF Rotate, TypeOK
  <1>3. torn' \in BOOLEAN
    BY Zenon DEF Rotate
  <1> QED
    BY <1>1, <1>2, <1>3, SyncType, Zenon DEF Rotate

\* So does a rotation that returns an error, at either place.
LEMMA RotateFailsType ==
  ASSUME TypeOK, NEW recs, RotateFails(recs)
  PROVE  /\ wal' \in [WalIds -> SUBSET Records]
         /\ tail' \subseteq Records
         /\ dirty' \in BOOLEAN
         /\ activeId' \in WalIds
         /\ faults' \in 0..MaxFaults
         /\ UNCHANGED <<files, torn, fileId>>
  <1>1. faults' \in 0..MaxFaults /\ UNCHANGED <<files, torn, fileId>>
    BY DEF RotateFails, Fault, TypeOK
  <1>2. activeId' \in WalIds
    BY DEF RotateFails, TypeOK, WalIds
  <1>3. SyncNew(recs) \/ Sync
    BY Zenon DEF RotateFails
  <1> QED
    BY <1>1, <1>2, <1>3, SyncType, SyncNewType, Zenon

\* The events of a set of records are events.
LEMMA EventsOfType == ASSUME NEW recs \in SUBSET Records PROVE EventsOf(recs) \subseteq Events
  BY Zenon DEF EventsOf, Records

\* Every step of the write path keeps it well typed.
LEMMA TypeNext == TypeOK /\ [Next]_vars => TypeOK'
  <1> SUFFICES ASSUME TypeOK, [Next]_vars PROVE TypeOK'
    BY Zenon
  <1> USE DEF TypeOK
  <1> USE IdleTypes
  <1>1. ASSUME NEW c \in Clients, NEW B \in Batches, IngestAppend(c, B) PROVE TypeOK'
    <2>1. PICK new \in Firsts({e \in B : EventId[e] \notin IdsOf(dedupe)}) :
            LET recs == {[ev |-> e, copy |-> copies[e]] : e \in new}
            IN /\ \A e \in new : copies[e] < MaxCopies
               /\ \E lost \in IF torn /\ recs # {} THEN {{r} : r \in recs} ELSE {{}} :
                    tail' = tail \cup (recs \ lost)
               /\ torn' = (torn /\ recs = {})
               /\ dirty' = (dirty \/ recs # {})
               /\ copies' = [e \in Events |-> IF e \in new THEN copies[e] + 1 ELSE copies[e]]
               /\ task' = [task EXCEPT ![c] =
                    [pc |-> "append", recs |-> recs,
                     acks |-> new \cup (B \cap dedupe), msg |-> NoMsg]]
      BY <1>1, Zenon DEF IngestAppend
    <2> DEFINE recs == {[ev |-> e, copy |-> copies[e]] : e \in new}
    <2>2. new \subseteq Events /\ B \subseteq Events
      BY Zenon DEF Firsts, Batches
    <2>3. recs \subseteq Records
      BY <2>2 DEF Records
    <2>4. copies' \in [Events -> 0..MaxCopies]
      BY <2>1, <2>2
    <2>5. tail' \subseteq Records
      BY <2>1, <2>3, Zenon
    <2>6. torn' \in BOOLEAN /\ dirty' \in BOOLEAN
      BY <2>1, Zenon
    <2>7. task' \in [Tasks -> TaskStates]
      BY <2>1, <2>2, <2>3, Zenon DEF Tasks, TaskStates
    <2> QED
      BY <1>1, <2>4, <2>5, <2>6, <2>7, Zenon DEF IngestAppend
  <1>2. ASSUME NEW c \in Clients, IngestWalFails(c) PROVE TypeOK'
    BY <1>2 DEF IngestWalFails, Tasks, Fault
  <1>3. ASSUME NEW c \in Clients, IngestCommit(c) PROVE TypeOK'
    <2>1. c \in Tasks /\ task[c] \in TaskStates
      BY <1>3, Zenon DEF Tasks
    <2>2. task[c].recs \in SUBSET Records /\ task[c].acks \in SUBSET Events
      BY <2>1, Zenon DEF TaskStates
    <2>3. SyncNew(task[c].recs)
      BY <1>3, Zenon DEF IngestCommit
    <2>5. /\ wal' \in [WalIds -> SUBSET Records]
          /\ tail' \subseteq Records
          /\ dirty' \in BOOLEAN
      BY <2>3, SyncNewType, Zenon
    <2> QED
      BY <1>3, <2>1, <2>2, <2>5, EventsOfType, Zenon DEF IngestCommit
  <1>4. ASSUME NEW c \in Clients, IngestOverflow(c) PROVE TypeOK'
    <2>1. c \in Tasks /\ task[c] \in TaskStates
      BY <1>4, Zenon DEF Tasks
    <2>2. task[c].recs \in SUBSET Records /\ task[c].acks \in SUBSET Events
      BY <2>1, Zenon DEF TaskStates
    <2>3. Rotate
      BY <1>4, Zenon DEF IngestOverflow
    <2>4. [events |-> memtable \cup task[c].recs, sealed |-> activeId] \in Messages
      BY <2>2, <2>3, RotateType, Zenon DEF Messages
    <2>5. task' \in [Tasks -> TaskStates]
      BY <1>4, <2>2, <2>4, Zenon DEF IngestOverflow, TaskStates
    <2> QED
      BY <1>4, <2>2, <2>3, <2>5, RotateType, EventsOfType, Zenon DEF IngestOverflow
  <1>5. ASSUME NEW c \in Clients, IngestRotateFails(c) PROVE TypeOK'
    <2>1. c \in Tasks /\ task[c] \in TaskStates
      BY <1>5, Zenon DEF Tasks
    <2>2. task[c].recs \in SUBSET Records
      BY <2>1, Zenon DEF TaskStates
    <2>3. RotateFails(task[c].recs)
      BY <1>5, Zenon DEF IngestRotateFails
    <2>4. /\ wal' \in [WalIds -> SUBSET Records]
          /\ tail' \subseteq Records
          /\ dirty' \in BOOLEAN
          /\ activeId' \in WalIds
          /\ faults' \in 0..MaxFaults
          /\ UNCHANGED <<files, torn, fileId>>
      BY <2>3, RotateFailsType, Zenon
    <2> QED
      BY <1>5, <2>2, <2>4, EventsOfType, Zenon DEF IngestRotateFails
  <1>6. ASSUME NEW p \in Tasks, SendFlush(p) PROVE TypeOK'
    BY <1>6 DEF SendFlush, TaskStates
  <1>7. ASSUME NEW c \in Clients, HandlerDropped(c) PROVE TypeOK'
    BY <1>7 DEF HandlerDropped, Fault, Tasks
  <1>8. CASE ForceDrainMemtable
    <2>1. CASE /\ Rotate
               /\ task' = [task EXCEPT ![RollupWorker] =
                    [pc |-> "send", recs |-> {}, acks |-> {},
                     msg |-> [events |-> memtable, sealed |-> activeId]]]
               /\ UNCHANGED faults
      <3>1. [events |-> memtable, sealed |-> activeId] \in Messages
        BY <2>1, RotateType, Zenon DEF Messages
      <3>2. task' \in [Tasks -> TaskStates]
        BY <2>1, <3>1, Zenon DEF TaskStates
      <3> QED
        BY <1>8, <2>1, <3>2, RotateType, Zenon DEF ForceDrainMemtable
    <2>2. CASE RotateFails({}) /\ UNCHANGED task
      <3>1. /\ wal' \in [WalIds -> SUBSET Records]
            /\ tail' \subseteq Records
            /\ dirty' \in BOOLEAN
            /\ activeId' \in WalIds
            /\ faults' \in 0..MaxFaults
            /\ UNCHANGED <<files, torn, fileId>>
        BY <2>2, RotateFailsType, Zenon
      <3> QED
        BY <1>8, <2>2, <3>1, Zenon DEF ForceDrainMemtable
    <2> QED
      BY <1>8, <2>1, <2>2, Zenon DEF ForceDrainMemtable
  <1>9. CASE FlusherRecv
    BY <1>9 DEF FlusherRecv, FlusherStates
  <1>10. CASE WriteBuckets
    <2>1. flusher' \in FlusherStates
      <3>1. CASE flusher' = [flusher EXCEPT !.pc = "commit"]
        BY <3>1, Zenon DEF FlusherStates
      <3>2. CASE \E failing \in flusher.msg.events :
                   flusher' = [pc |-> "reinsert",
                               msg |-> [flusher.msg EXCEPT !.events =
                                 {r \in @ : Bucket[r.ev] >= Bucket[failing.ev]}]]
        <4>1. PICK failing \in flusher.msg.events :
                   flusher' = [pc |-> "reinsert",
                               msg |-> [flusher.msg EXCEPT !.events =
                                 {r \in @ : Bucket[r.ev] >= Bucket[failing.ev]}]]
          BY <3>2, Zenon
        <4>2. flusher.msg \in Messages
          BY Zenon DEF FlusherStates
        <4>3. flusher'.msg \in Messages
          BY <4>1, <4>2, Zenon DEF Messages
        <4> QED
          BY <4>1, <4>3, Zenon DEF FlusherStates
      <3> QED
        BY <1>10, <3>1, <3>2, Zenon DEF WriteBuckets
    <2>2. faults' \in 0..MaxFaults
      BY <1>10 DEF WriteBuckets, Fault
    <2> QED
      BY <1>10, <2>1, <2>2, Zenon DEF WriteBuckets
  <1>11. CASE ReinsertFailed
    BY <1>11, Zenon DEF ReinsertFailed, FlusherStates, Messages
  <1>12. CASE CommitManifest
    BY <1>12, Zenon DEF CommitManifest, FlusherStates, Messages, Manifests, SealThrough
  <1>13. CASE SaveFails
    <2>1. flusher.msg.sealed \in 0..MaxWalId
      BY Zenon DEF FlusherStates, Messages
    <2>2. manifest' \in Manifests
      BY <1>13, <2>1, Zenon DEF SaveFails, Manifests, SealThrough
    <2>3. disk' \in Manifests
      BY <1>13, <2>2, Zenon DEF SaveFails
    <2>4. faults' \in 0..MaxFaults
      BY <1>13 DEF SaveFails, Fault
    <2> QED
      BY <1>13, <2>2, <2>3, <2>4, Zenon DEF SaveFails
  <1>14. CASE DeleteSealedWal
    BY <1>14 DEF DeleteSealedWal, Fault, DeleteFilesThrough
  <1>15. CASE Crash
    <2>1. wal' \in [WalIds -> SUBSET Records]
      BY <1>15, Zenon DEF Crash
    <2>2. torn' \in BOOLEAN
      BY <1>15, Zenon DEF Crash
    <2>3. channel' \in Seq(Messages) /\ task' \in [Tasks -> TaskStates]
      BY <1>15 DEF Crash
    <2>4. up' \in BOOLEAN /\ dirty' \in BOOLEAN
      BY <1>15, Zenon DEF Crash
    <2> QED
      BY <1>15, <2>1, <2>2, <2>3, <2>4 DEF Crash
  <1>16. CASE RunStartupRecovery
    <2>1. wal' \in [WalIds -> SUBSET Records] /\ files' \subseteq WalIds
      BY <1>16, Zenon DEF RunStartupRecovery
    <2>2. disk.raw \in SUBSET Records
      BY Zenon DEF Manifests
    <2>3. memtable' \subseteq Records
      BY <1>16 DEF RunStartupRecovery, ListFilesAfter
    <2>4. RecoveredEvents(memtable') \subseteq Events
      BY <2>2, <2>3, EventsOfType, Zenon DEF RecoveredEvents
    <2>5. dedupe' \subseteq Events
      BY <1>16, <2>4, Zenon DEF RunStartupRecovery, Firsts
    <2>6. torn' \in BOOLEAN
      BY <1>16, Zenon DEF RunStartupRecovery
    <2> QED
      BY <1>16, <2>1, <2>3, <2>5, <2>6, Zenon DEF RunStartupRecovery
  <1>17. CASE UNCHANGED vars
    BY <1>17, Zenon DEF vars
  <1> QED
    BY <1>1, <1>2, <1>3, <1>4, <1>5, <1>6, <1>7, <1>8, <1>9, <1>10, <1>11,
       <1>12, <1>13, <1>14, <1>15, <1>16, <1>17, Zenon
    DEF Next, Client, Flusher, Tasks

\* The state of the write path is well typed in every reachable state, whatever
\* I/O fails and in whatever order the drained batches are sent.
THEOREM TypeCorrect == Spec => []TypeOK
  <1>1. Init => TypeOK
    BY TypeInit, Zenon
  <1>2. TypeOK /\ [Next]_vars => TypeOK'
    BY TypeNext, Zenon
  <1> QED
    BY <1>1, <1>2, PTL DEF Spec

-----------------------------------------------------------------------------
(* Which messages are in flight after a step *)

\* The records of the request inside the critical section.
Pending == UNION {task[p].recs : p \in {q \in Tasks : task[q].pc = "append"}}

\* The elements of a sequence after Append.
LEMMA AppendElements ==
  ASSUME NEW S, NEW s \in Seq(S), NEW x \in S
  PROVE  /\ DOMAIN Append(s, x) = DOMAIN s \cup {Len(s) + 1}
         /\ \A i \in DOMAIN s : Append(s, x)[i] = s[i]
         /\ Append(s, x)[Len(s) + 1] = x
         /\ Len(s) \in Nat
         /\ DOMAIN s = 1..Len(s)
  OBVIOUS

\* The elements of a non-empty sequence, by its head and tail.
LEMMA TailElements ==
  ASSUME NEW S, NEW s \in Seq(S), s # <<>>
  PROVE  /\ 1 \in DOMAIN s
         /\ Head(s) = s[1]
         /\ \A i \in DOMAIN Tail(s) : i \in Nat /\ i + 1 \in DOMAIN s /\ Tail(s)[i] = s[i + 1]
         /\ \A j \in DOMAIN s : j # 1 => j - 1 \in DOMAIN Tail(s) /\ s[j] = Tail(s)[j - 1]
  OBVIOUS

\* What is in flight is a set of messages.
LEMMA InFlightType ==
  ASSUME TypeOK
  PROVE  \A m \in InFlight : m \in Messages /\ m.sealed \in Nat
  <1>1. \A p \in Tasks : task[p].msg \in Messages
    BY Zenon DEF TypeOK, TaskStates
  <1>2. \A i \in DOMAIN channel : channel[i] \in Messages
    BY DEF TypeOK
  <1>3. flusher.msg \in Messages
    BY Zenon DEF TypeOK, FlusherStates
  <1>4. \A m \in InFlight : m \in Messages
    BY <1>1, <1>2, <1>3, Zenon DEF InFlight
  <1> QED
    BY <1>4 DEF Messages

\* A task that neither starts nor ends a send moves no message.
LEMMA InFlightSame ==
  ASSUME TypeOK, NEW c \in Tasks, NEW t, task' = [task EXCEPT ![c] = t],
         task[c].pc # "send", t.pc # "send", UNCHANGED <<channel, flusher>>
  PROVE  InFlight' = InFlight
  BY Zenon DEF InFlight, TypeOK

\* A drain puts one message in flight.
LEMMA InFlightDrain ==
  ASSUME TypeOK, NEW p \in Tasks, NEW t, task' = [task EXCEPT ![p] = t],
         task[p].pc # "send", t.pc = "send", UNCHANGED <<channel, flusher>>
  PROVE  InFlight' = InFlight \cup {t.msg}
  BY Zenon DEF InFlight, TypeOK

\* Entering the channel moves a message and leaves the set in flight as it is.
LEMMA InFlightSend ==
  ASSUME TypeOK, NEW p \in Tasks, SendFlush(p)
  PROVE  InFlight' = InFlight
  <1>1. {channel'[i] : i \in DOMAIN channel'} = {channel[i] : i \in DOMAIN channel} \cup {task[p].msg}
    <2>1. task[p].msg \in Messages /\ channel \in Seq(Messages)
      BY Zenon DEF TypeOK, TaskStates
    <2>2. channel' = Append(channel, task[p].msg)
      BY Zenon DEF SendFlush
    <2> QED
      BY <2>1, <2>2, AppendElements
  <1>2. {task'[q].msg : q \in {x \in Tasks : task'[x].pc = "send"}} \cup {task[p].msg}
          = {task[q].msg : q \in {x \in Tasks : task[x].pc = "send"}}
    BY Zenon DEF SendFlush, TypeOK, IdleTask
  <1>3. flusher' = flusher
    BY Zenon DEF SendFlush
  <1> QED
    BY <1>1, <1>2, <1>3, Zenon DEF InFlight

\* So does receiving a message with events from the channel.
LEMMA InFlightRecv ==
  ASSUME TypeOK, QueueInv, FlusherRecv
  PROVE  /\ InFlight' = InFlight
         /\ flusher' = [pc |-> "write", msg |-> channel[1]]
         /\ 1 \in DOMAIN channel
         /\ \A i \in DOMAIN channel' : i + 1 \in DOMAIN channel /\ channel'[i] = channel[i + 1]
  <1>1. /\ 1 \in DOMAIN channel
        /\ Head(channel) = channel[1]
        /\ \A i \in DOMAIN channel' : i + 1 \in DOMAIN channel /\ channel'[i] = channel[i + 1]
    BY TailElements, Zenon DEF FlusherRecv, TypeOK
  <1>2. {channel'[i] : i \in DOMAIN channel'} \cup {channel[1]} = {channel[i] : i \in DOMAIN channel}
    <2>1. \A j \in DOMAIN channel : j # 1 => \E i \in DOMAIN channel' : channel[j] = channel'[i]
      <3> SUFFICES ASSUME NEW j \in DOMAIN channel, j # 1
                   PROVE  \E i \in DOMAIN channel' : channel[j] = channel'[i]
        BY Zenon
      <3>1. channel \in Seq(Messages) /\ channel # <<>> /\ channel' = Tail(channel)
        BY Zenon DEF FlusherRecv, TypeOK
      <3>2. j - 1 \in DOMAIN channel' /\ channel[j] = channel'[j - 1]
        BY <3>1, TailElements, Zenon
      <3> QED
        BY <3>2, Zenon
    <2>2. \A i \in DOMAIN channel' : \E j \in DOMAIN channel : channel'[i] = channel[j]
      BY <1>1, Zenon
    <2>3. 1 \in DOMAIN channel
      BY <1>1, Zenon
    <2> QED
      BY ONLY <2>1, <2>2, <2>3
  <1>3. channel[1].events # {}
    BY <1>1, Zenon DEF QueueInv, InFlight
  <1>4. flusher' = [pc |-> "write", msg |-> channel[1]]
    BY <1>1, <1>3, Zenon DEF FlusherRecv
  <1>5. flusher.pc = "idle" /\ task' = task
    BY Zenon DEF FlusherRecv
  <1>6. InFlight' = InFlight
    <2> DEFINE S == {task[p].msg : p \in {q \in Tasks : task[q].pc = "send"}}
               C == {channel[i] : i \in DOMAIN channel}
    <2>1. InFlight = S \cup C \cup {}
      BY <1>5, Zenon DEF InFlight
    <2>2. S' = S
      BY <1>5, Zenon
    <2>3. InFlight' = S' \cup C' \cup {channel[1]}
      BY <1>4, Zenon DEF InFlight
    <2>4. C' \cup {channel[1]} = C
      BY <1>2, Zenon
    <2> HIDE DEF S, C
    <2> QED
      BY <2>1, <2>2, <2>3, <2>4, Zenon
  <1> QED
    BY <1>1, <1>4, <1>6, Zenon

-----------------------------------------------------------------------------
(* Which records stay safe *)

\* A committed record stays committed, a record that is safe in a file stays
\* safe there or is committed, and a line that appears in a file is safe there
\* unless an earlier request left it in the tail.
Keeps ==
  /\ disk.raw \subseteq disk'.raw
  /\ \A f \in files : \A r \in wal[f] :
       SafeIn(r, f) => f \in files' /\ (r \in disk'.raw \/ SafeIn(r, f)')
  /\ \A f \in WalIds : \A r \in wal'[f] :
       r \in wal[f] \/ (f \in files' /\ SafeIn(r, f)') \/ r \in tail \ Pending

\* A step that touches neither log nor segments and moves no record.
LEMMA KeepsSame ==
  ASSUME UNCHANGED <<wal, files, disk, up, memtable>>, InFlight' = InFlight
  PROVE  Keeps
  BY Zenon DEF Keeps, SafeIn

\* What is kept covers what the cache and the responses know, and so do new
\* records that are safe.
LEMMA KeepsSafe ==
  ASSUME SafeInv, Keeps, NEW recs \in SUBSET Records, NEW f \in files',
         \A r \in recs : SafeIn(r, f)',
         acked' \cup dedupe' \subseteq acked \cup dedupe \cup EventsOf(recs)
  PROVE  SafeInv'
  <1> SUFFICES ASSUME NEW e \in acked' \cup dedupe'
               PROVE  \E r \in Records : r.ev = e /\ SafeRecord(r)'
    BY Zenon DEF SafeInv
  <1>1. CASE e \in acked \cup dedupe
    <2>1. PICK r \in Records : r.ev = e /\ SafeRecord(r)
      BY <1>1, Zenon DEF SafeInv
    <2>2. SafeRecord(r)'
      BY <2>1 DEF SafeRecord, Keeps, SafeIn
    <2> QED
      BY <2>1, <2>2, Zenon
  <1>2. CASE e \in EventsOf(recs)
    BY <1>2, Zenon DEF EventsOf, SafeRecord
  <1> QED
    BY <1>1, <1>2, Zenon

\* The same for a step that tells the cache of no new event.
LEMMA KeepsSafeSame ==
  ASSUME SafeInv, Keeps, acked' \cup dedupe' \subseteq acked \cup dedupe
  PROVE  SafeInv'
  <1> SUFFICES ASSUME NEW e \in acked' \cup dedupe'
               PROVE  \E r \in Records : r.ev = e /\ SafeRecord(r)'
    BY Zenon DEF SafeInv
  <1>1. PICK r \in Records : r.ev = e /\ SafeRecord(r)
    BY Zenon DEF SafeInv
  <1>2. SafeRecord(r)'
    BY <1>1 DEF SafeRecord, Keeps, SafeIn
  <1> QED
    BY <1>1, <1>2, Zenon

\* A drain keeps safe records safe and makes the freshly appended ones safe: the
\* message that seals the active file carries whatever no earlier one carries.
LEMMA KeepsDrain ==
  ASSUME TypeOK, WalInv, QueueInv, UNCHANGED <<disk, up>>, Rotate,
         up, NEW recs \in SUBSET tail, Pending \subseteq recs, NEW m,
         m.events = memtable \cup recs, m.sealed = activeId,
         InFlight' = InFlight \cup {m}, NEW a, a = activeId
  PROVE  Keeps /\ \A r \in recs : SafeIn(r, a)'
  <1>1. /\ files \subseteq files'
        /\ \A f \in WalIds : wal[f] \subseteq wal'[f]
        /\ \A f \in WalIds : f # activeId => wal'[f] = wal[f]
        /\ wal'[activeId] = wal[activeId] \cup tail
        /\ activeId \in Nat
        /\ disk.sealed < activeId
        /\ activeId \in files
    BY DEF Rotate, Sync, TypeOK, WalInv, WalIds
  <1>2. \A n \in InFlight : n.sealed \in Nat /\ n.sealed < activeId /\ n.sealed <= activeId
    BY <1>1, InFlightType, SMTT(30) DEF QueueInv
  <1>3. ASSUME NEW f \in files, NEW r \in wal[f], SafeIn(r, f) PROVE SafeIn(r, f)'
    <2>1. \E n2 \in InFlight' : n2.sealed <= activeId /\ r \in n2.events
      BY <1>1, <1>2, <1>3 DEF SafeIn
    <2>2. f \in files' /\ r \in wal'[f]
      BY <1>1, <1>3, Zenon DEF TypeOK
    <2> QED
      BY <1>3, <2>1, <2>2, Zenon DEF SafeIn
  <1>4. ASSUME NEW r \in recs PROVE SafeIn(r, a)'
    <2>1. r \in wal'[a] /\ r \in m.events /\ disk'.sealed < a
      BY <1>1, <1>4, Zenon
    <2>2. \A n \in InFlight' : a <= n.sealed => m.sealed <= n.sealed
      BY <1>1, <1>2, Zenon
    <2> QED
      BY <2>1, <2>2, Zenon DEF SafeIn
  <1>5. \A f \in WalIds : \A r \in wal'[f] : r \in wal[f] \/ (f = a /\ r \in tail)
    BY <1>1, Zenon
  <1>6. a \in files'
    BY <1>1, Zenon
  <1> QED
    BY <1>1, <1>3, <1>4, <1>5, <1>6 DEF Keeps

\* Committing the message with the lowest sealed id keeps every safe record
\* safe: a record of a file that is now sealed was in that message.
LEMMA KeepsCommit ==
  ASSUME TypeOK, WalInv, QueueInv, CommitManifest
  PROVE  Keeps
  <1> DEFINE m == flusher.msg
  <1>1. m \in InFlight /\ disk.sealed < m.sealed /\ disk.sealed \in Nat /\ m.sealed \in Nat
    BY DEF CommitManifest, InFlight, QueueInv, TypeOK, Manifests, FlusherStates, Messages
  <1>2. disk'.raw = disk.raw \cup m.events /\ disk'.sealed = m.sealed
    BY <1>1, Zenon DEF CommitManifest, WalInv, SealThrough
  <1>3. InFlight' \subseteq InFlight /\ InFlight \subseteq InFlight' \cup {m}
    BY DEF CommitManifest, InFlight
  <1>4. \A n \in InFlight : n # m => m.sealed < n.sealed
    BY Zenon DEF CommitManifest, InFlight, QueueInv
  <1>5. \A n \in InFlight : n.sealed \in Nat
    BY InFlightType, Zenon
  <1>6. UNCHANGED <<files, wal, memtable, up>>
    BY Zenon DEF CommitManifest
  <1>7. ASSUME NEW f \in files, NEW r \in wal[f], SafeIn(r, f), r \notin m.events
        PROVE  SafeIn(r, f)'
    <2>1. /\ disk.sealed < f
          /\ \A n \in InFlight : f <= n.sealed =>
               \E n2 \in InFlight : n2.sealed <= n.sealed /\ r \in n2.events
      BY <1>7, Zenon DEF SafeIn
    <2>2. f \in Nat
      BY DEF TypeOK, WalIds
    <2>3. m.sealed < f
      BY <1>1, <1>4, <1>5, <1>7, <2>1, <2>2
    <2>4. \A n \in InFlight' : f <= n.sealed =>
             \E n2 \in InFlight' : n2.sealed <= n.sealed /\ r \in n2.events
      BY <1>3, <1>7, <2>1, Zenon
    <2>5. up => r \in memtable \/ \E n \in InFlight' : r \in n.events
      BY <1>3, <1>7, Zenon DEF SafeIn
    <2> QED
      BY <1>2, <1>6, <2>3, <2>4, <2>5, Zenon DEF SafeIn
  <1> QED
    BY <1>2, <1>6, <1>7, Zenon DEF Keeps

-----------------------------------------------------------------------------
(* The inductive invariant: a fresh database, and the writers' steps *)

\* A freshly opened database satisfies the inductive invariant.
LEMMA IngestInvInit == Init => IngestInv
  <1> SUFFICES ASSUME Init PROVE IngestInv
    BY Zenon
  <1>1. TypeOK
    BY TypeInit, Zenon
  <1>2. TasksInv
    BY Zenon DEF Init, TasksInv, IdleTask
  <1>3. InFlight = {}
    BY DEF Init, InFlight, IdleTask, IdleFlusher
  <1>4. WalInv
    BY DEF Init, WalInv
  <1>5. QueueInv
    BY <1>3 DEF Init, QueueInv, IdleTask, IdleFlusher
  <1>6. SafeInv
    BY Zenon DEF Init, SafeInv
  <1> QED
    BY <1>1, <1>2, <1>4, <1>5, <1>6, Zenon DEF IngestInv

\* Appending a request to the BufWriter preserves the invariant.
LEMMA StepIngestAppend ==
  ASSUME IngestInv, TypeOK', NEW c \in Clients, NEW B \in Batches, IngestAppend(c, B)
  PROVE  IngestInv' /\ Keeps
  <1> USE DEF IngestInv
  <1> c \in Tasks
    BY Zenon DEF Tasks
  <1>1. PICK new \in Firsts({e \in B : EventId[e] \notin IdsOf(dedupe)}) :
          LET recs == {[ev |-> e, copy |-> copies[e]] : e \in new}
          IN /\ \E lost \in IF torn /\ recs # {} THEN {{r} : r \in recs} ELSE {{}} :
                  tail' = tail \cup (recs \ lost)
             /\ torn' = (torn /\ recs = {})
             /\ task' = [task EXCEPT ![c] =
                  [pc |-> "append", recs |-> recs,
                   acks |-> new \cup (B \cap dedupe), msg |-> NoMsg]]
    BY Zenon DEF IngestAppend
  <1> DEFINE recs == {[ev |-> e, copy |-> copies[e]] : e \in new}
             t == [pc |-> "append", recs |-> recs,
                   acks |-> new \cup (B \cap dedupe), msg |-> NoMsg]
  <1>2. ~torn /\ ~torn' /\ tail' = tail \cup recs
    BY <1>1, Zenon DEF WalInv
  <1>3. task' = [task EXCEPT ![c] = t] /\ task[c].pc = "idle" /\ LocksFree /\ up
    BY <1>1, Zenon DEF IngestAppend
  <1>4. UNCHANGED <<wal, files, disk, up, activeId, fileId, dedupe, memtable,
                    channel, flusher, manifest, acked>>
    BY Zenon DEF IngestAppend
  <1>5. new \subseteq EventsOf(recs)
    <2> SUFFICES ASSUME NEW e \in new PROVE \E r \in recs : r.ev = e
      BY Zenon DEF EventsOf
    <2> WITNESS [ev |-> e, copy |-> copies[e]] \in recs
    <2> QED
      BY Zenon
  <1>6. InFlight' = InFlight
    BY <1>3, <1>4, InFlightSame
  <1>7. TasksInv'
    <2>1. \A p \in Tasks : p # c => task'[p] = task[p] /\ task[p].pc # "append"
      BY <1>3, Zenon DEF LocksFree, TypeOK
    <2>2. task'[c] = t
      BY <1>3, Zenon DEF TypeOK
    <2>3. t.recs \subseteq tail' /\ t.acks \subseteq dedupe' \cup EventsOf(t.recs)
      BY <1>2, <1>4, <1>5, Zenon
    <2>4. t.pc = "append"
      OBVIOUS
    <2> HIDE DEF t
    <2> QED
      BY <1>3, <1>4, <2>1, <2>2, <2>3, <2>4, ZenonT(40) DEF TasksInv
  <1>8. WalInv'
    BY <1>2, <1>4, Zenon DEF WalInv
  <1>9. QueueInv'
    <2>1. \A p \in Tasks : task'[p].pc = "send" => task[p].pc = "send" /\ task'[p] = task[p]
      BY <1>3, Zenon DEF TypeOK
    <2> QED
      BY <1>4, <1>6, <2>1, Zenon DEF QueueInv
  <1>10. Keeps
    BY <1>4, <1>6, KeepsSame, Zenon
  <1>11. SafeInv'
    BY <1>4, <1>10, KeepsSafeSame, Zenon
  <1> QED
    BY <1>7, <1>8, <1>9, <1>10, <1>11, Zenon

\* A failed sync preserves it: the lines stay in the tail, unacknowledged.
LEMMA StepIngestWalFails ==
  ASSUME IngestInv, TypeOK', Faults \subseteq ToleratedFaults,
         NEW c \in Clients, IngestWalFails(c)
  PROVE  IngestInv' /\ Keeps
  <1> USE DEF IngestInv
  <1> c \in Tasks
    BY Zenon DEF Tasks
  <1>1. UNCHANGED <<tail, torn>>
    BY Zenon DEF IngestWalFails, Fault, ToleratedFaults
  <1>2. task' = [task EXCEPT ![c] = IdleTask] /\ task[c].pc = "append"
    BY Zenon DEF IngestWalFails
  <1>3. UNCHANGED <<wal, files, disk, up, activeId, fileId, dedupe, memtable,
                    channel, flusher, manifest, acked>>
    BY Zenon DEF IngestWalFails
  <1>4. IdleTask.pc = "idle"
    BY Zenon DEF IdleTask
  <1>5. InFlight' = InFlight
    BY <1>2, <1>3, <1>4, InFlightSame, Zenon
  <1>6. \A p \in Tasks : task'[p] = IF p = c THEN IdleTask ELSE task[p]
    BY <1>2, Zenon DEF TypeOK
  <1>7. TasksInv'
    BY <1>1, <1>3, <1>4, <1>6, Zenon DEF TasksInv
  <1>8. WalInv'
    BY <1>1, <1>3, Zenon DEF WalInv
  <1>9. QueueInv'
    BY <1>3, <1>4, <1>5, <1>6, Zenon DEF QueueInv
  <1>10. Keeps
    BY <1>3, <1>5, KeepsSame, Zenon
  <1>11. SafeInv'
    BY <1>3, <1>10, KeepsSafeSame, Zenon
  <1> QED
    BY <1>7, <1>8, <1>9, <1>10, <1>11, Zenon

\* Sync, cache and memtable insertion preserve it: the acknowledged records are
\* in the active file and in the memtable.
LEMMA StepIngestCommit ==
  ASSUME IngestInv, TypeOK', NEW c \in Clients, IngestCommit(c)
  PROVE  IngestInv' /\ Keeps
  <1> USE DEF IngestInv
  <1> DEFINE recs == task[c].recs
  <1>1. c \in Tasks /\ task[c].pc = "append" /\ task[c] \in TaskStates
    BY Zenon DEF IngestCommit, Tasks, TypeOK
  <1>2. /\ task' = [task EXCEPT ![c] = IdleTask]
        /\ dedupe' = dedupe \cup EventsOf(recs)
        /\ memtable' = memtable \cup recs
        /\ acked' = acked \cup task[c].acks
        /\ UNCHANGED <<files, torn, disk, up, activeId, fileId, channel, flusher, manifest>>
    BY Zenon DEF IngestCommit
  <1>3. IdleTask.pc = "idle"
    BY Zenon DEF IdleTask
  <1>4. InFlight' = InFlight
    BY <1>1, <1>2, <1>3, InFlightSame, Zenon
  <1>5. \A p \in Tasks : task'[p] = IF p = c THEN IdleTask ELSE task[p]
    BY <1>2, Zenon DEF TypeOK
  <1>6. recs \subseteq tail /\ task[c].acks \subseteq dedupe' /\ recs \subseteq Records /\ up
    BY <1>1, <1>2, <1>3, Zenon DEF TasksInv, TaskStates
  <1>7. \A f \in WalIds : wal[f] \subseteq wal'[f] /\ wal'[f] \subseteq wal[f] \cup (IF f = activeId THEN tail ELSE {})
    BY SMTT(30) DEF IngestCommit, SyncNew, Sync, TypeOK, WalInv
  <1>8. recs \subseteq wal'[activeId]
    BY <1>6 DEF IngestCommit, SyncNew, Sync, TypeOK, WalInv
  <1>9. TasksInv'
    BY <1>1, <1>2, <1>3, <1>5, <1>6, ZenonT(40) DEF TasksInv
  <1>10. WalInv'
    BY <1>2, Zenon DEF WalInv
  <1>11. QueueInv'
    BY <1>2, <1>3, <1>4, <1>5, SMTT(30) DEF QueueInv
  <1> PICK a : a = activeId
    BY Zenon
  <1>12. disk.sealed < a /\ a \in files'
    BY <1>2, Zenon DEF WalInv
  <1>13. \A r \in recs : SafeIn(r, a)'
    <2>1. \A m \in InFlight : ~(a <= m.sealed)
      BY InFlightType, SMTT(30) DEF QueueInv, TypeOK, WalIds
    <2> QED
      BY <1>2, <1>4, <1>8, <1>12, <2>1, Zenon DEF SafeIn
  <1>14. Keeps
    <2>1. Pending \subseteq recs
      BY <1>1, Zenon DEF Pending, TasksInv
    <2>2. \A f \in files : \A r \in wal[f] : SafeIn(r, f) => SafeIn(r, f)'
      BY <1>2, <1>4, <1>7, Zenon DEF SafeIn, TypeOK
    <2> QED
      BY <1>2, <1>7, <1>12, <1>13, <2>1, <2>2, Zenon DEF Keeps
  <1>15. SafeInv'
    <2>1. acked' \cup dedupe' \subseteq acked \cup dedupe \cup EventsOf(recs)
      BY <1>2, <1>6, Zenon
    <2> QED
      BY <1>6, <1>12, <1>13, <1>14, <2>1, KeepsSafe, Zenon
  <1> QED
    BY <1>9, <1>10, <1>11, <1>14, <1>15, Zenon

\* What both drains do: rotate the WAL and put everything the memtable holds,
\* and the records just appended, in a message that seals the active file.
LEMMA StepDrain ==
  ASSUME IngestInv, TypeOK', up, NEW p \in Tasks, NEW t, NEW recs \in SUBSET tail, Pending \subseteq recs,
         Rotate, task' = [task EXCEPT ![p] = t],
         task[p].pc # "send", \A q \in Tasks : q # p => task[q].pc # "append",
         t.pc = "send", t.msg.events = memtable \cup recs, t.msg.sealed = activeId,
         t.msg.events # {},
         dedupe' = dedupe \cup EventsOf(recs), t.acks \subseteq dedupe',
         recs \subseteq Records,
         UNCHANGED <<disk, up, channel, flusher, manifest, acked>>
  PROVE  IngestInv' /\ Keeps
  <1> USE DEF IngestInv
  <1>1. InFlight' = InFlight \cup {t.msg}
    BY InFlightDrain, Zenon
  <1>2. \A q \in Tasks : task'[q] = IF q = p THEN t ELSE task[q]
    BY Zenon DEF TypeOK
  <1>3. /\ activeId' = activeId + 1
        /\ fileId' = activeId + 1
        /\ files' = files \cup {activeId + 1}
        /\ ~torn'
        /\ activeId \in Nat
        /\ disk.sealed \in Nat
        /\ files \subseteq Nat
    BY DEF Rotate, TypeOK, WalIds, Manifests
  <1>4. \A m \in InFlight : m.sealed \in Nat /\ m.sealed < activeId /\ disk.sealed < m.sealed /\ m.events # {}
    BY InFlightType, Zenon DEF QueueInv
  <1>5. TasksInv'
    BY <1>2, ZenonT(40) DEF TasksInv
  <1>6. WalInv'
    <2>1. \A f \in files' : f <= activeId + 1
      BY <1>3 DEF WalInv
    <2>2. disk.sealed < activeId + 1
      BY <1>3 DEF WalInv
    <2> QED
      BY <1>3, <2>1, <2>2, Zenon DEF WalInv
  <1>7. QueueInv'
    <2>1. \A m \in InFlight' : m.events # {} /\ disk'.sealed < m.sealed /\ m.sealed < activeId'
      <3> TAKE m \in InFlight'
      <3>1. disk'.sealed = disk.sealed /\ disk.sealed < activeId
        BY Zenon DEF WalInv
      <3>2. CASE m \in InFlight
        BY <1>3, <1>4, <3>1, <3>2
      <3>3. CASE m = t.msg
        BY <1>3, <3>1, <3>3, SMTT(30)
      <3> QED
        BY <1>1, <3>2, <3>3, Zenon
    <2>2. /\ \A i \in DOMAIN channel : channel[i].sealed < activeId
          /\ \A q \in Tasks : task[q].pc = "send" => task[q].msg.sealed < activeId
          /\ flusher.pc \in {"write", "commit"} => flusher.msg.sealed < activeId
      BY <1>4, Zenon DEF InFlight
    <2>3. \A q \in Tasks : task[q].pc = "send" => task[q].msg.sealed # activeId
      <3> SUFFICES ASSUME NEW q \in Tasks, task[q].pc = "send"
                   PROVE  task[q].msg.sealed # activeId
        BY Zenon
      <3>1. task[q].msg \in InFlight
        BY Zenon DEF InFlight
      <3>2. task[q].msg.sealed \in Nat /\ task[q].msg.sealed < activeId
        BY <1>4, <3>1, Zenon
      <3> QED
        BY <1>3, <3>2
    <2>4. \A q \in Tasks : task'[q].pc = "send" =>
             \A i \in DOMAIN channel' : channel'[i].sealed < task'[q].msg.sealed
      BY <1>2, <2>2, Zenon DEF QueueInv
    <2>5. \A q, q2 \in Tasks :
             task'[q].pc = "send" /\ task'[q2].pc = "send"
               /\ task'[q].msg.sealed = task'[q2].msg.sealed => q = q2
      BY <1>2, <2>3 DEF QueueInv
    <2>6. flusher'.pc \in {"write", "commit"} =>
             /\ \A i \in DOMAIN channel' : flusher'.msg.sealed < channel'[i].sealed
             /\ \A q \in Tasks : task'[q].pc = "send" => flusher'.msg.sealed < task'[q].msg.sealed
      BY <1>2, <2>2, Zenon DEF QueueInv
    <2> QED
      BY <2>1, <2>4, <2>5, <2>6, Zenon DEF QueueInv
  <1> PICK a : a = activeId
    BY Zenon
  <1>8. Keeps /\ \A r \in recs : SafeIn(r, a)'
    BY <1>1, KeepsDrain, Zenon
  <1>9. SafeInv'
    <2>1. acked' \cup dedupe' \subseteq acked \cup dedupe \cup EventsOf(recs) /\ a \in files'
      BY <1>3, Zenon DEF WalInv
    <2> QED
      BY <1>8, <2>1, KeepsSafe, Zenon
  <1> QED
    BY <1>5, <1>6, <1>7, <1>8, <1>9, Zenon

\* The ingest path's drain and rotation preserve the invariant.
LEMMA StepIngestOverflow ==
  ASSUME IngestInv, TypeOK', NEW c \in Clients, IngestOverflow(c)
  PROVE  IngestInv' /\ Keeps
  <1> USE DEF IngestInv
  <1> DEFINE recs == task[c].recs
             t == [pc |-> "send", recs |-> {}, acks |-> task[c].acks,
                   msg |-> [events |-> memtable \cup recs, sealed |-> activeId]]
  <1>1. c \in Tasks /\ task[c].pc = "append" /\ task[c] \in TaskStates
    BY Zenon DEF IngestOverflow, Tasks, TypeOK
  <1>2. /\ Rotate
        /\ task' = [task EXCEPT ![c] = t]
        /\ dedupe' = dedupe \cup EventsOf(recs)
        /\ memtable \cup recs # {}
        /\ UNCHANGED <<disk, up, channel, flusher, manifest, acked>>
    BY Zenon DEF IngestOverflow
  <1>3. recs \subseteq tail /\ task[c].acks \subseteq dedupe' /\ recs \subseteq Records
        /\ Pending \subseteq recs
    BY <1>1, <1>2, Zenon DEF TasksInv, TaskStates, Pending
  <1>4. up /\ \A q \in Tasks : q # c => task[q].pc # "append"
    BY <1>1, SMTT(30) DEF TasksInv, IdleTask
  <1>5. /\ t.pc = "send"
        /\ t.msg.events = memtable \cup recs
        /\ t.msg.sealed = activeId
        /\ t.acks = task[c].acks
    BY Zenon
  <1> HIDE DEF t, recs
  <1> QED
    BY <1>1, <1>2, <1>3, <1>4, <1>5, StepDrain, ZenonT(40)

\* The rollup worker's drain and rotation preserve the invariant.
LEMMA StepForceDrain ==
  ASSUME IngestInv, TypeOK', Faults \subseteq ToleratedFaults, ForceDrainMemtable
  PROVE  IngestInv' /\ Keeps
  <1> USE DEF IngestInv
  <1> DEFINE t == [pc |-> "send", recs |-> {}, acks |-> {},
                   msg |-> [events |-> memtable, sealed |-> activeId]]
  <1>1. ~RotateFails({})
    BY Zenon DEF RotateFails, Fault, ToleratedFaults
  <1>2. /\ Rotate
        /\ task' = [task EXCEPT ![RollupWorker] = t]
        /\ task[RollupWorker].pc = "idle"
        /\ up
        /\ LocksFree
        /\ memtable # {}
        /\ UNCHANGED <<disk, up, dedupe, channel, flusher, manifest, acked>>
    BY <1>1, Zenon DEF ForceDrainMemtable
  <1>3. RollupWorker \in Tasks /\ EventsOf({}) = {}
    BY Zenon DEF Tasks, EventsOf
  <1>4. /\ t.pc = "send"
        /\ t.msg.events = memtable \cup {}
        /\ t.msg.sealed = activeId
        /\ t.acks \subseteq dedupe'
        /\ t.msg.events # {}
    BY <1>2, Zenon
  <1>5. /\ \A q \in Tasks : q # RollupWorker => task[q].pc # "append"
        /\ {} \in SUBSET tail
        /\ Pending \subseteq {}
        /\ dedupe' = dedupe \cup EventsOf({})
    BY <1>2, <1>3, Zenon DEF LocksFree, Pending
  <1> HIDE DEF t
  <1> QED
    BY <1>2, <1>3, <1>4, <1>5, StepDrain, Zenon

\* Receiving a message preserves the invariant.
LEMMA StepFlusherRecv ==
  ASSUME IngestInv, TypeOK', FlusherRecv
  PROVE  IngestInv' /\ Keeps
  <1> USE DEF IngestInv
  <1>1. /\ InFlight' = InFlight
        /\ flusher' = [pc |-> "write", msg |-> channel[1]]
        /\ 1 \in DOMAIN channel
        /\ \A i \in DOMAIN channel' : i + 1 \in DOMAIN channel /\ channel'[i] = channel[i + 1]
    BY InFlightRecv, Zenon
  <1>2. /\ up
        /\ UNCHANGED <<wal, files, torn, disk, up, tail, activeId, fileId,
                       dedupe, memtable, task, manifest, acked>>
    BY Zenon DEF FlusherRecv
  <1>3. TasksInv'
    BY <1>2, Zenon DEF TasksInv
  <1>4. WalInv'
    BY <1>2, Zenon DEF WalInv
  <1>5. QueueInv'
    <2>1. \A i \in DOMAIN channel' : i \in Nat /\ i >= 1
      BY DEF TypeOK
    <2>2. \A i \in DOMAIN channel' : channel[1].sealed < channel'[i].sealed
      BY <1>1, <2>1 DEF QueueInv
    <2>3. \A i, j \in DOMAIN channel' : i < j => channel'[i].sealed < channel'[j].sealed
      BY <1>1, <2>1 DEF QueueInv
    <2>4. \A p \in Tasks : task[p].pc = "send" => channel[1].sealed < task[p].msg.sealed
      BY <1>1, Zenon DEF QueueInv
    <2>5. flusher'.pc = "write" /\ flusher'.msg = channel[1]
      BY <1>1, Zenon
    <2> QED
      BY <1>1, <1>2, <2>2, <2>3, <2>4, <2>5, Zenon DEF QueueInv
  <1>6. Keeps
    BY <1>1, <1>2, KeepsSame, Zenon
  <1>7. SafeInv'
    BY <1>2, <1>6, KeepsSafeSame, Zenon
  <1> QED
    BY <1>3, <1>4, <1>5, <1>6, <1>7, Zenon

\* Writing the segment files preserves the invariant.
LEMMA StepWriteBuckets ==
  ASSUME IngestInv, TypeOK', Faults \subseteq ToleratedFaults, WriteBuckets
  PROVE  IngestInv' /\ Keeps
  <1> USE DEF IngestInv
  <1>1. /\ flusher.pc = "write"
        /\ flusher' = [flusher EXCEPT !.pc = "commit"]
        /\ UNCHANGED <<wal, files, torn, disk, up, tail, activeId, fileId,
                       dedupe, memtable, task, channel, manifest, acked>>
    BY Zenon DEF WriteBuckets, Fault, ToleratedFaults
  <1>2. flusher'.pc = "commit" /\ flusher'.msg = flusher.msg
    BY <1>1, Zenon DEF TypeOK, FlusherStates
  <1>3. InFlight' = InFlight
    BY <1>1, <1>2, Zenon DEF InFlight
  <1>4. TasksInv'
    BY <1>1 DEF TasksInv, IdleFlusher
  <1>5. WalInv'
    BY <1>1, Zenon DEF WalInv
  <1>6. QueueInv'
    BY <1>1, <1>2, <1>3, Zenon DEF QueueInv
  <1>7. Keeps
    BY <1>1, <1>3, KeepsSame, Zenon
  <1>8. SafeInv'
    BY <1>1, <1>7, KeepsSafeSame, Zenon
  <1> QED
    BY <1>4, <1>5, <1>6, <1>7, <1>8, Zenon

=============================================================================
