--------------------------- MODULE LifecycleProofs ---------------------------
(* Proofs about the process lifecycle, for every set of processes and events    *)
(* and every bound: one process at a time owns the directory, no save removes a *)
(* segment, and, if batches are sent in the order they were drained in, no      *)
(* accepted event is dropped.                                                   *)
EXTENDS Lifecycle, TLAPS

-----------------------------------------------------------------------------
(* The inductive invariant *)

Running == {"serving", "drain", "notify", "join"}

\* At most one process is between DbLock::acquire and its end; the others have no
\* memory, and an admin command has nothing but the manifest.
LockInv ==
  /\ \A p, q \in lock : p = q
  /\ \A p \in Procs : pc[p] # "off" <=> p \in lock
  /\ \A p \in Procs : pc[p] \in {"off", "locked"} => mem[p] = NoMemory
  /\ \A p \in Procs : pc[p] \notin Running =>
       mem[p].queue = <<>> /\ mem[p].unsent = <<>> /\ mem[p].memtable = <<>> /\ mem[p].tasks = {}

\* The manifest in the memory of the owner is the one in the directory.
ManifestInv ==
  \A p \in Procs : pc[p] \in Running \cup {"command"} => mem[p].segs = disk.segs /\ mem[p].sealed = disk.sealed

\* The rows logged after the first "from" and up to "to" are among these.
Covered(rows, wal, from, to) ==
  \A k \in (from + 1)..to : \E i \in DOMAIN rows : rows[i] = wal[k]

\* The number of rows logged before those of the i-th batch.
Before(q, sealed, i) == IF i = 1 THEN sealed ELSE q[i - 1].sealed

\* The batches seal the WAL in the order of the log, every one holds the rows it
\* seals, and the memtable holds the rest.
PipelineOK(q, memtable, sealed, wal) ==
  /\ sealed <= Len(wal)
  /\ \A i \in 1..Len(q) :
       /\ Before(q, sealed, i) <= q[i].sealed
       /\ q[i].sealed <= Len(wal)
       /\ Covered(q[i].rows, wal, Before(q, sealed, i), q[i].sealed)
  /\ Covered(memtable, wal, Before(q, sealed, Len(q) + 1), Len(wal))

\* The batches on their way to the flusher: those in the channel, then those still
\* to be sent, which follow in the order they were drained in.
Batches(m) == m.queue \o m.unsent

LogInv ==
  /\ disk.sealed <= Len(disk.wal)
  /\ \A p \in Procs : pc[p] \in Running => PipelineOK(Batches(mem[p]), mem[p].memtable, disk.sealed, disk.wal)

\* The inductive invariant: what rests on the lock, and what rests on the order of
\* the sends.
LifecycleInv ==
  /\ TypeOK
  /\ LockInv
  /\ ManifestInv
  /\ InOrderSends => LogInv /\ NothingDropped

-----------------------------------------------------------------------------
(* The pipeline from the WAL to the segments *)

\* Where the rows of the memtable begin.
LEMMA BeforeType ==
  ASSUME NEW q \in Seq(Messages), NEW sealed \in Nat, NEW i \in 1..(Len(q) + 1)
  PROVE  Before(q, sealed, i) \in Nat
  <1>1. CASE i = 1
    BY <1>1 DEF Before
  <1>2. CASE i # 1
    <2>1. i - 1 \in 1..Len(q) /\ q[i - 1] \in Messages
      BY <1>2
    <2> QED
      BY <1>2, <2>1 DEF Before, Messages
  <1> QED
    BY <1>1, <1>2

\* append_batch and memtable.insert.
LEMMA PipelineAppend ==
  ASSUME NEW q \in Seq(Messages), NEW memtable \in Seq(Rows), NEW sealed \in Nat, NEW wal \in Seq(Rows),
         NEW row \in Rows, PipelineOK(q, memtable, sealed, wal)
  PROVE  PipelineOK(q, Append(memtable, row), sealed, Append(wal, row))
  <1> DEFINE log == Append(wal, row)
             mt == Append(memtable, row)
  <1>1. /\ log \in Seq(Rows) /\ Len(log) = Len(wal) + 1 /\ log[Len(wal) + 1] = row
        /\ \A k \in 1..Len(wal) : log[k] = wal[k]
    OBVIOUS
  <1>2. /\ mt \in Seq(Rows) /\ Len(mt) = Len(memtable) + 1 /\ mt[Len(memtable) + 1] = row
        /\ \A k \in 1..Len(memtable) : mt[k] = memtable[k]
    OBVIOUS
  <1> HIDE DEF log, mt
  <1>3. sealed <= Len(log)
    BY <1>1 DEF PipelineOK
  <1>4. ASSUME NEW i \in 1..Len(q)
        PROVE  /\ Before(q, sealed, i) <= q[i].sealed
               /\ q[i].sealed <= Len(log)
               /\ Covered(q[i].rows, log, Before(q, sealed, i), q[i].sealed)
    <2> DEFINE from == Before(q, sealed, i)
               to == q[i].sealed
    <2>1. from \in Nat /\ to \in Nat
      <3>1. q[i] \in Messages /\ i \in 1..(Len(q) + 1)
        OBVIOUS
      <3> QED
        BY <3>1, BeforeType, Zenon DEF Messages
    <2>2. from <= to /\ to <= Len(wal) /\ Covered(q[i].rows, wal, from, to)
      BY DEF PipelineOK
    <2> HIDE DEF from, to
    <2>3. \A k \in (from + 1)..to : log[k] = wal[k]
      <3>1. (from + 1)..to \subseteq 1..Len(wal)
        BY <2>1, <2>2
      <3> QED
        BY <1>1, <3>1, Zenon
    <2>4. Covered(q[i].rows, log, from, to)
      BY <2>2, <2>3, Zenon DEF Covered
    <2>5. to <= Len(log)
      BY <1>1, <2>1, <2>2
    <2> QED
      BY <2>2, <2>4, <2>5, Zenon DEF from, to
  <1>5. Covered(mt, log, Before(q, sealed, Len(q) + 1), Len(log))
    <2> DEFINE from == Before(q, sealed, Len(q) + 1)
    <2>1. from \in Nat
      BY BeforeType
    <2>2. Covered(memtable, wal, from, Len(wal))
      BY DEF PipelineOK
    <2> HIDE DEF from
    <2>3. ASSUME NEW k \in (from + 1)..Len(log) PROVE \E i \in DOMAIN mt : mt[i] = log[k]
      <3>1. CASE k = Len(wal) + 1
        <4>1. Len(memtable) + 1 \in DOMAIN mt /\ mt[Len(memtable) + 1] = log[k]
          BY <1>1, <1>2, <3>1
        <4> QED
          BY <4>1
      <3>2. CASE k # Len(wal) + 1
        <4>1. k \in (from + 1)..Len(wal) /\ log[k] = wal[k]
          BY <1>1, <2>1, <3>2
        <4>2. PICK i \in DOMAIN memtable : memtable[i] = wal[k]
          BY <2>2, <4>1 DEF Covered
        <4>3. i \in DOMAIN mt /\ mt[i] = memtable[i]
          BY <1>2, <4>2
        <4> QED
          BY <4>1, <4>2, <4>3
      <3> QED
        BY <3>1, <3>2
    <2> QED
      BY <2>3, Zenon DEF Covered, from
  <1> QED
    BY <1>3, <1>4, <1>5, Zenon DEF PipelineOK, log, mt

\* drain_all and rotate: the batch that the flusher will get.
LEMMA PipelineDrain ==
  ASSUME NEW q \in Seq(Messages), NEW memtable \in Seq(Rows), NEW sealed \in Nat, NEW wal \in Seq(Rows),
         NEW by \in Senders, PipelineOK(q, memtable, sealed, wal)
  PROVE  PipelineOK(Append(q, [rows |-> memtable, sealed |-> Len(wal), by |-> by]), <<>>, sealed, wal)
  <1> DEFINE msg == [rows |-> memtable, sealed |-> Len(wal), by |-> by]
             r == Append(q, msg)
  <1>1. msg \in Messages /\ msg.rows = memtable /\ msg.sealed = Len(wal) /\ Len(wal) \in Nat
    BY DEF Messages
  <1> HIDE DEF msg
  <1>2. /\ r \in Seq(Messages) /\ Len(r) = Len(q) + 1 /\ r[Len(q) + 1] = msg
        /\ \A i \in 1..Len(q) : r[i] = q[i]
    BY <1>1
  <1> HIDE DEF r
  <1>3. \A i \in 1..(Len(q) + 1) : Before(r, sealed, i) = Before(q, sealed, i)
    <2>1. \A i \in 1..(Len(q) + 1) : i # 1 => i - 1 \in 1..Len(q)
      OBVIOUS
    <2> QED
      BY <1>2, <2>1, Zenon DEF Before
  <1>4. ASSUME NEW i \in 1..Len(r)
        PROVE  /\ Before(r, sealed, i) <= r[i].sealed
               /\ r[i].sealed <= Len(wal)
               /\ Covered(r[i].rows, wal, Before(r, sealed, i), r[i].sealed)
    <2>1. CASE i \in 1..Len(q)
      <3>1. r[i] = q[i] /\ Before(r, sealed, i) = Before(q, sealed, i)
        BY <1>2, <1>3, <2>1
      <3> QED
        BY <2>1, <3>1 DEF PipelineOK
    <2>2. CASE i = Len(q) + 1
      <3>1. r[i] = msg /\ Before(r, sealed, i) = Before(q, sealed, Len(q) + 1)
        BY <1>2, <1>3, <2>2
      <3>2. Before(q, sealed, Len(q) + 1) <= Len(wal)
        <4>1. CASE Len(q) = 0
          BY <4>1 DEF Before, PipelineOK
        <4>2. CASE Len(q) # 0
          <5>1. Len(q) \in 1..Len(q) /\ Len(q) + 1 # 1 /\ (Len(q) + 1) - 1 = Len(q)
            BY <4>2
          <5>2. Before(q, sealed, Len(q) + 1) = q[Len(q)].sealed
            BY <5>1, Zenon DEF Before
          <5> QED
            BY <5>1, <5>2, Zenon DEF PipelineOK
        <4> QED
          BY <4>1, <4>2
      <3>3. Covered(memtable, wal, Before(q, sealed, Len(q) + 1), Len(wal))
        BY DEF PipelineOK
      <3>4. Len(wal) <= Len(wal)
        OBVIOUS
      <3> QED
        BY <1>1, <3>1, <3>2, <3>3, <3>4, Zenon
    <2> QED
      BY <1>2, <2>1, <2>2
  <1>5. Covered(<<>>, wal, Before(r, sealed, Len(r) + 1), Len(wal))
    <2>1. Before(r, sealed, Len(r) + 1) = Len(wal)
      <3>1. Len(r) + 1 # 1 /\ (Len(r) + 1) - 1 = Len(q) + 1
        BY <1>2
      <3> QED
        BY <1>1, <1>2, <3>1, Zenon DEF Before
    <2>2. (Len(wal) + 1)..Len(wal) = {}
      OBVIOUS
    <2> QED
      BY <2>1, <2>2, Zenon DEF Covered
  <1>6. sealed <= Len(wal)
    BY DEF PipelineOK
  <1> QED
    BY <1>4, <1>5, <1>6, Zenon DEF PipelineOK, r, msg

\* The flusher takes the first batch: it holds every row that its seal retires.
LEMMA PipelineFlush ==
  ASSUME NEW q \in Seq(Messages), NEW memtable \in Seq(Rows), NEW sealed \in Nat, NEW wal \in Seq(Rows),
         PipelineOK(q, memtable, sealed, wal), q # <<>>
  PROVE  /\ Head(q) \in Messages /\ sealed <= Head(q).sealed
         /\ Covered(Head(q).rows, wal, sealed, Head(q).sealed)
         /\ PipelineOK(Tail(q), memtable, Head(q).sealed, wal)
  <1> DEFINE r == Tail(q)
  <1>1. /\ Len(q) \in Nat /\ 1 \in 1..Len(q) /\ Head(q) = q[1] /\ q[1] \in Messages
        /\ r \in Seq(Messages) /\ Len(r) = Len(q) - 1
        /\ \A i \in 1..Len(r) : r[i] = q[i + 1]
    OBVIOUS
  <1>2. q[1].sealed \in Nat
    BY <1>1 DEF Messages
  <1> HIDE DEF r
  <1>3. Before(q, sealed, 1) = sealed
    BY DEF Before
  <1>4. sealed <= q[1].sealed /\ q[1].sealed <= Len(wal) /\ Covered(q[1].rows, wal, sealed, q[1].sealed)
    BY <1>1, <1>3, Zenon DEF PipelineOK
  <1>5. ASSUME NEW i \in 1..(Len(r) + 1) PROVE Before(r, q[1].sealed, i) = Before(q, sealed, i + 1)
    <2>1. CASE i = 1
      <3>1. (i + 1) - 1 = 1 /\ i + 1 # 1
        BY <2>1
      <3> QED
        BY <2>1, <3>1, Zenon DEF Before
    <2>2. CASE i # 1
      <3>1. (i + 1) - 1 = i /\ i + 1 # 1 /\ i - 1 \in 1..Len(r) /\ (i - 1) + 1 = i
        BY <1>1, <2>2
      <3>2. r[i - 1] = q[i]
        BY <1>1, <3>1
      <3> QED
        BY <2>2, <3>1, <3>2, Zenon DEF Before
    <2> QED
      BY <2>1, <2>2
  <1>6. ASSUME NEW i \in 1..Len(r)
        PROVE  /\ Before(r, q[1].sealed, i) <= r[i].sealed
               /\ r[i].sealed <= Len(wal)
               /\ Covered(r[i].rows, wal, Before(r, q[1].sealed, i), r[i].sealed)
    <2>1. i + 1 \in 1..Len(q) /\ r[i] = q[i + 1] /\ i \in 1..(Len(r) + 1)
      BY <1>1
    <2>2. Before(r, q[1].sealed, i) = Before(q, sealed, i + 1)
      BY <1>5, <2>1
    <2> QED
      BY <2>1, <2>2, Zenon DEF PipelineOK
  <1>7. Covered(memtable, wal, Before(r, q[1].sealed, Len(r) + 1), Len(wal))
    <2>1. Len(r) + 1 \in 1..(Len(r) + 1) /\ (Len(r) + 1) + 1 = Len(q) + 1
      BY <1>1
    <2>2. Before(r, q[1].sealed, Len(r) + 1) = Before(q, sealed, Len(q) + 1)
      BY <1>5, <2>1
    <2> QED
      BY <2>2, Zenon DEF PipelineOK
  <1> QED
    BY <1>1, <1>4, <1>6, <1>7, Zenon DEF PipelineOK, r

\* What recovery replays into the memtable.
LEMMA PipelineReplayed ==
  ASSUME NEW sealed \in Nat, NEW wal \in Seq(Rows), sealed <= Len(wal)
  PROVE  PipelineOK(<<>>, SubSeq(wal, sealed + 1, Len(wal)), sealed, wal)
  <1> DEFINE mt == SubSeq(wal, sealed + 1, Len(wal))
  <1>1. /\ mt \in Seq(Rows) /\ Len(mt) = Len(wal) - sealed
        /\ \A k \in 1..Len(mt) : mt[k] = wal[sealed + k]
    OBVIOUS
  <1> HIDE DEF mt
  <1>2. ASSUME NEW k \in (sealed + 1)..Len(wal) PROVE \E i \in DOMAIN mt : mt[i] = wal[k]
    <2>1. k - sealed \in DOMAIN mt /\ mt[k - sealed] = wal[k]
      <3>1. k - sealed \in 1..Len(mt) /\ sealed + (k - sealed) = k
        BY <1>1
      <3> QED
        BY <1>1, <3>1
    <2> QED
      BY <2>1
  <1>3. Covered(mt, wal, sealed, Len(wal))
    BY <1>2, Zenon DEF Covered
  <1>4. Len(<<>>) = 0 /\ 1..Len(<<>>) = {} /\ Before(<<>>, sealed, Len(<<>>) + 1) = sealed
    BY DEF Before
  <1> QED
    BY <1>1, <1>3, <1>4 DEF PipelineOK, mt

\* What a drain, a send and the flusher make of the batches on their way.
LEMMA BatchesMove ==
  ASSUME NEW q \in Seq(Messages), NEW u \in Seq(Messages)
  PROVE  /\ q \o u \in Seq(Messages)
         /\ \A msg \in Messages : q \o Append(u, msg) = Append(q \o u, msg)
         /\ u # <<>> => Append(q, u[1]) \o (SubSeq(u, 1, 1 - 1) \o SubSeq(u, 1 + 1, Len(u))) = q \o u
         /\ q # <<>> => q \o u # <<>> /\ Head(q \o u) = Head(q) /\ Tail(q \o u) = Tail(q) \o u
  <1>1. q \o u \in Seq(Messages) /\ \A msg \in Messages : q \o Append(u, msg) = Append(q \o u, msg)
    OBVIOUS
  <1>2. ASSUME u # <<>>
        PROVE  Append(q, u[1]) \o (SubSeq(u, 1, 1 - 1) \o SubSeq(u, 1 + 1, Len(u))) = q \o u
    <2>1. SubSeq(u, 1, 1 - 1) = <<>> /\ SubSeq(u, 1 + 1, Len(u)) = Tail(u)
      BY <1>2
    <2>2. <<>> \o Tail(u) = Tail(u)
      BY <1>2
    <2>3. Append(q, u[1]) \o Tail(u) = q \o u
      BY <1>2
    <2> QED
      BY <2>1, <2>2, <2>3
  <1>3. ASSUME q # <<>>
        PROVE  q \o u # <<>> /\ Head(q \o u) = Head(q) /\ Tail(q \o u) = Tail(q) \o u
    BY <1>3
  <1> QED
    BY <1>1, <1>2, <1>3

\* A segment is added to the manifest.
LEMMA AppendedSet ==
  ASSUME NEW s \in Seq(Seq(Rows)), NEW x \in Seq(Rows)
  PROVE  Range(Append(s, x)) = Range(s) \cup {x}
  <1> DEFINE t == Append(s, x)
  <1>1. /\ DOMAIN s = 1..Len(s) /\ DOMAIN t = 1..(Len(s) + 1)
        /\ t[Len(s) + 1] = x /\ \A i \in 1..Len(s) : t[i] = s[i]
        /\ \A i \in 1..(Len(s) + 1) : i \in 1..Len(s) \/ i = Len(s) + 1
        /\ Len(s) + 1 \in 1..(Len(s) + 1) /\ 1..Len(s) \subseteq 1..(Len(s) + 1)
    OBVIOUS
  <1> HIDE DEF t
  <1>2. \A y : y \in Range(t) <=> y \in Range(s) \/ y = x
    BY <1>1, Zenon DEF Range
  <1> QED
    BY <1>2, Zenon DEF t

-----------------------------------------------------------------------------
(* The processes *)

States == {"off", "locked", "command", "serving", "drain", "notify", "join"}
Disks == [segs : Seq(Seq(Rows)), sealed : Nat, wal : Seq(Rows)]

\* A process without memory is well typed.
LEMMA NoMemoryType ==
  /\ NoMemory \in Memories
  /\ NoMemory.queue = <<>> /\ NoMemory.unsent = <<>> /\ NoMemory.memtable = <<>> /\ NoMemory.tasks = {}
  BY DEF NoMemory, Memories

\* A fresh directory and no process.
LEMMA InitInv == Init => LifecycleInv
  <1> SUFFICES ASSUME Init PROVE LifecycleInv
    OBVIOUS
  <1>1. TypeOK
    <2>1. now \in Start..MaxTime /\ lock \subseteq Procs /\ init \in BOOLEAN /\ accepted \subseteq Rows
      <3>1. now \in Start..MaxTime
        BY LifecycleAssumption DEF Init
      <3> QED
        BY <3>1, Zenon DEF Init
    <2>2. pc \in [Procs -> States]
      BY DEF Init, States
    <2>3. mem \in [Procs -> Memories]
      BY NoMemoryType DEF Init
    <2>4. disk \in Disks
      BY DEF Init, Disks
    <2> QED
      BY <2>1, <2>2, <2>3, <2>4, Zenon DEF TypeOK, States, Disks
  <1>2. \A p \in Procs : pc[p] = "off" /\ mem[p] = NoMemory
    BY DEF Init
  <1>3. "off" \notin Running \cup {"command"}
    BY DEF Running
  <1>4. LockInv
    BY <1>2, NoMemoryType DEF Init, LockInv
  <1>5. ManifestInv
    BY <1>2, <1>3, Zenon DEF ManifestInv
  <1>6. disk.sealed <= Len(disk.wal)
    BY DEF Init
  <1>7. LogInv
    BY <1>2, <1>3, <1>6, Zenon DEF LogInv
  <1>8. NothingDropped
    BY DEF Init, NothingDropped
  <1> QED
    BY <1>1, <1>4, <1>5, <1>7, <1>8 DEF LifecycleInv

\* The process that is not off is the only one.
LEMMA OnlyOwner ==
  ASSUME LifecycleInv, NEW p \in Procs, pc[p] # "off"
  PROVE  p \in lock /\ \A q \in Procs : q # p => pc[q] = "off" /\ mem[q] = NoMemory
  BY Zenon DEF LifecycleInv, LockInv

\* A step of the process that owns the directory.
LEMMA OwnerStep ==
  ASSUME LifecycleInv, NEW p \in Procs, pc[p] # "off", NEW st \in States, st # "off", NEW m \in Memories,
         pc' = [pc EXCEPT ![p] = st], mem' = [mem EXCEPT ![p] = m], lock' = lock,
         now' = now, init' \in BOOLEAN, disk' \in Disks, accepted' \subseteq Rows,
         st = "locked" => m = NoMemory,
         st \notin Running => m.queue = <<>> /\ m.unsent = <<>> /\ m.memtable = <<>> /\ m.tasks = {},
         st \in Running \cup {"command"} => m.segs = disk'.segs /\ m.sealed = disk'.sealed,
         InOrderSends /\ st \in Running => PipelineOK(Batches(m), m.memtable, disk'.sealed, disk'.wal),
         InOrderSends => disk'.sealed <= Len(disk'.wal) /\ NothingDropped'
  PROVE  LifecycleInv'
  <1>1. p \in lock /\ \A q \in Procs : q # p => pc[q] = "off" /\ mem[q] = NoMemory
    BY OnlyOwner
  <1>2. pc \in [Procs -> States] /\ mem \in [Procs -> Memories] /\ now \in Start..MaxTime /\ lock \subseteq Procs
    BY Zenon DEF LifecycleInv, TypeOK, States
  <1>3. /\ pc' \in [Procs -> States] /\ mem' \in [Procs -> Memories]
        /\ pc'[p] = st /\ mem'[p] = m
        /\ \A q \in Procs : q # p => pc'[q] = "off" /\ mem'[q] = NoMemory
    BY <1>1, <1>2, Zenon
  <1>4. TypeOK'
    BY <1>2, <1>3, Zenon DEF TypeOK, States, Disks
  <1>5. "off" \notin Running \cup {"command"} /\ "off" # "locked" /\ "off" # st
    BY DEF Running
  <1>6. LockInv'
    <2>1. \A q \in Procs : pc'[q] # "off" <=> q \in lock'
      BY <1>1, <1>3, Zenon DEF LifecycleInv, LockInv
    <2>2. \A q1, q2 \in lock' : q1 = q2
      BY Zenon DEF LifecycleInv, LockInv
    <2>3. \A q \in Procs : pc'[q] \in {"off", "locked"} => mem'[q] = NoMemory
      BY <1>3, Zenon
    <2>4. \A q \in Procs : pc'[q] \notin Running =>
            mem'[q].queue = <<>> /\ mem'[q].unsent = <<>> /\ mem'[q].memtable = <<>> /\ mem'[q].tasks = {}
      BY <1>3, NoMemoryType, Zenon
    <2> QED
      BY <2>1, <2>2, <2>3, <2>4, Zenon DEF LockInv
  <1>7. ManifestInv'
    BY <1>3, <1>5, Zenon DEF ManifestInv
  <1>8. InOrderSends => LogInv'
    BY <1>3, <1>5, Zenon DEF LogInv
  <1> QED
    BY <1>4, <1>6, <1>7, <1>8, Zenon DEF LifecycleInv

\* The end of a process.
LEMMA EndStep ==
  ASSUME LifecycleInv, NEW p \in Procs, pc[p] # "off",
         pc' = [pc EXCEPT ![p] = "off"], mem' = [mem EXCEPT ![p] = NoMemory], lock' = lock \ {p},
         UNCHANGED <<now, init, disk, accepted>>
  PROVE  LifecycleInv'
  <1>1. p \in lock /\ \A q \in Procs : q # p => pc[q] = "off" /\ mem[q] = NoMemory
    BY OnlyOwner
  <1>2. pc \in [Procs -> States] /\ mem \in [Procs -> Memories] /\ "off" \in States
    BY DEF LifecycleInv, TypeOK, States
  <1>3. /\ pc' \in [Procs -> States] /\ mem' \in [Procs -> Memories]
        /\ \A q \in Procs : pc'[q] = "off" /\ mem'[q] = NoMemory
    BY <1>1, <1>2, NoMemoryType, Zenon
  <1>4. TypeOK'
    BY <1>2, <1>3, Zenon DEF LifecycleInv, TypeOK, States, Disks
  <1>5. lock' = {}
    <2>1. \A q \in lock : q = p
      BY <1>1, Zenon DEF LifecycleInv, LockInv
    <2> QED
      BY <2>1, Zenon
  <1>6. "off" \notin Running \cup {"command"}
    BY DEF Running
  <1>7. LockInv'
    BY <1>3, <1>5, NoMemoryType, Zenon DEF LockInv
  <1>8. ManifestInv'
    BY <1>3, <1>6, Zenon DEF ManifestInv
  <1>9. InOrderSends => LogInv'
    BY <1>3, <1>6, Zenon DEF LifecycleInv, LogInv
  <1>10. InOrderSends => NothingDropped'
    BY Zenon DEF LifecycleInv, NothingDropped
  <1> QED
    BY <1>4, <1>7, <1>8, <1>9, <1>10, Zenon DEF LifecycleInv

\* DbLock::acquire.
LEMMA AcquireStep ==
  ASSUME LifecycleInv, NEW p \in Procs, Acquire(p)
  PROVE  LifecycleInv'
  <1>1. UNCHANGED <<now, mem, init, disk, accepted>> /\ pc[p] = "off"
    BY Zenon DEF Acquire, historyVars
  <1>2. CASE lock # {}
    <2>1. lock' = lock /\ pc' = pc
      BY <1>2, Zenon DEF Acquire
    <2> QED
      BY <1>1, <2>1, Zenon DEF LifecycleInv, TypeOK, LockInv, ManifestInv, LogInv, NothingDropped
  <1>3. CASE lock = {}
    <2>1. lock' = {p} /\ pc' = [pc EXCEPT ![p] = "locked"]
      BY <1>3, Zenon DEF Acquire
    <2>2. pc \in [Procs -> States] /\ "locked" \in States /\ {"locked", "off"} \cap (Running \cup {"command"}) = {}
      BY DEF LifecycleInv, TypeOK, States, Running
    <2>3. \A q \in Procs : pc[q] = "off" /\ mem[q] = NoMemory
      BY <1>3, Zenon DEF LifecycleInv, LockInv
    <2>4. /\ pc' \in [Procs -> States] /\ pc'[p] = "locked"
          /\ \A q \in Procs : q # p => pc'[q] = "off"
          /\ \A q \in Procs : mem'[q] = NoMemory /\ pc'[q] \notin Running \cup {"command"}
      BY <1>1, <2>1, <2>2, <2>3, Zenon
    <2>5. TypeOK'
      BY <1>1, <2>1, <2>4, Zenon DEF LifecycleInv, TypeOK, States
    <2>6. "locked" # "off"
      OBVIOUS
    <2>7. LockInv'
      BY <2>1, <2>4, <2>6, NoMemoryType, Zenon DEF LockInv
    <2>8. ManifestInv'
      BY <2>4, Zenon DEF ManifestInv
    <2>9. InOrderSends => LogInv'
      BY <1>1, <2>4, Zenon DEF LifecycleInv, LogInv
    <2>10. InOrderSends => NothingDropped'
      BY <1>1, Zenon DEF LifecycleInv, NothingDropped
    <2> QED
      BY <2>5, <2>7, <2>8, <2>9, <2>10, Zenon DEF LifecycleInv
  <1> QED
    BY <1>2, <1>3

\* Startup recovery.
LEMMA RecoverStep ==
  ASSUME LifecycleInv, NEW p \in Procs, Recover(p)
  PROVE  LifecycleInv' /\ disk' = disk
  <1> DEFINE unsealed == SubSeq(disk.wal, disk.sealed + 1, Len(disk.wal))
             m == [segs |-> disk.segs, sealed |-> disk.sealed, memtable |-> unsealed,
                   unsent |-> <<>>, queue |-> <<>>, tasks |-> Tasks]
  <1>1. /\ pc[p] = "locked" /\ pc' = [pc EXCEPT ![p] = "serving"]
        /\ mem' = [mem EXCEPT ![p] = m] /\ UNCHANGED <<now, lock, disk, accepted>> /\ init' = TRUE
    BY Zenon DEF Recover
  <1>2. /\ disk \in Disks /\ disk.segs \in Seq(Seq(Rows)) /\ disk.sealed \in Nat /\ disk.wal \in Seq(Rows)
        /\ accepted \subseteq Rows
    BY DEF LifecycleInv, TypeOK, Disks
  <1>3. InOrderSends => disk.sealed <= Len(disk.wal)
    BY Zenon DEF LifecycleInv, LogInv
  <1>4. unsealed \in Seq(Rows)
    BY <1>2
  <1>5. InOrderSends => PipelineOK(<<>>, unsealed, disk.sealed, disk.wal)
    BY <1>2, <1>3, PipelineReplayed, Zenon
  <1> HIDE DEF unsealed
  <1>6. m \in Memories
    BY <1>2, <1>4 DEF Memories
  <1>7. m.segs = disk.segs /\ m.sealed = disk.sealed /\ m.memtable = unsealed /\ Batches(m) = <<>>
    BY DEF Batches
  <1> HIDE DEF m
  <1>8. "serving" \in States /\ "serving" # "off" /\ "serving" # "locked" /\ "serving" \in Running /\ pc[p] # "off"
    BY <1>1 DEF States, Running
  <1>9. InOrderSends => NothingDropped'
    BY <1>1, Zenon DEF LifecycleInv, NothingDropped
  <1>10. init' \in BOOLEAN
    BY <1>1, Zenon
  <1> QED
    BY <1>1, <1>2, <1>3, <1>5, <1>6, <1>7, <1>8, <1>9, <1>10, OwnerStep, Zenon

\* A memory into which a manifest is loaded.
LEMMA Loaded ==
  ASSUME NEW m \in Memories, NEW segs \in Seq(Seq(Rows)), NEW sealed \in Nat,
         NEW r, r = [m EXCEPT !.segs = segs, !.sealed = sealed]
  PROVE  r = [segs |-> segs, sealed |-> sealed, memtable |-> m.memtable,
              unsent |-> m.unsent, queue |-> m.queue, tasks |-> m.tasks]
  <1>1. m = [segs |-> m.segs, sealed |-> m.sealed, memtable |-> m.memtable,
              unsent |-> m.unsent, queue |-> m.queue, tasks |-> m.tasks]
    BY DEF Memories
  <1> QED
    BY <1>1, Zenon

\* The admin commands.
LEMMA AdminStep ==
  ASSUME LifecycleInv, NEW p \in Procs, OpenStateForAdmin(p) \/ AdminCommand(p)
  PROVE  LifecycleInv' /\ disk' = disk
  <1>1. /\ disk \in Disks /\ disk.segs \in Seq(Seq(Rows)) /\ disk.sealed \in Nat /\ disk.wal \in Seq(Rows)
        /\ accepted \subseteq Rows
    BY DEF LifecycleInv, TypeOK, Disks
  <1>2. mem \in [Procs -> Memories] /\ init \in BOOLEAN /\ (InOrderSends => disk.sealed <= Len(disk.wal))
    BY Zenon DEF LifecycleInv, TypeOK, LogInv
  <1>3. ASSUME OpenStateForAdmin(p), init PROVE LifecycleInv' /\ disk' = disk
    <2> DEFINE m == [mem[p] EXCEPT !.segs = disk.segs, !.sealed = disk.sealed]
    <2>1. /\ pc[p] = "locked" /\ pc' = [pc EXCEPT ![p] = "command"] /\ mem' = [mem EXCEPT ![p] = m]
          /\ UNCHANGED <<now, lock, init, disk, accepted>>
      BY <1>3, Zenon DEF OpenStateForAdmin, historyVars
    <2>2. m = [segs |-> disk.segs, sealed |-> disk.sealed, memtable |-> <<>>,
               unsent |-> <<>>, queue |-> <<>>, tasks |-> {}]
      <3>1. mem[p] = NoMemory
        BY <2>1, Zenon DEF LifecycleInv, LockInv
      <3>2. mem[p].memtable = <<>> /\ mem[p].unsent = <<>> /\ mem[p].queue = <<>> /\ mem[p].tasks = {}
        BY <3>1, NoMemoryType, Zenon
      <3>3. m = [segs |-> disk.segs, sealed |-> disk.sealed, memtable |-> mem[p].memtable,
                 unsent |-> mem[p].unsent, queue |-> mem[p].queue, tasks |-> mem[p].tasks]
        BY <1>1, <1>2, Loaded, Zenon
      <3> QED
        BY <3>2, <3>3, Zenon
    <2> HIDE DEF m
    <2>3. m \in Memories
      BY <1>1, <2>2 DEF Memories
    <2>4. m.segs = disk.segs /\ m.sealed = disk.sealed /\ m.queue = <<>> /\ m.unsent = <<>> /\ m.memtable = <<>> /\ m.tasks = {}
      BY <2>2
    <2>5. "command" \in States /\ "command" # "off" /\ "command" # "locked" /\ "command" \notin Running /\ pc[p] # "off"
      BY <2>1 DEF States, Running
    <2>6. InOrderSends => NothingDropped'
      BY <2>1, Zenon DEF LifecycleInv, NothingDropped
    <2> QED
      BY <1>1, <1>2, <2>1, <2>3, <2>4, <2>5, <2>6, OwnerStep, Zenon
  <1>4. ASSUME OpenStateForAdmin(p), ~init PROVE LifecycleInv' /\ disk' = disk
    <2>1. /\ pc[p] = "locked" /\ pc' = [pc EXCEPT ![p] = "off"] /\ mem' = mem /\ lock' = lock \ {p}
          /\ UNCHANGED <<now, init, disk, accepted>>
      BY <1>4, Zenon DEF OpenStateForAdmin, historyVars
    <2>2. mem[p] = NoMemory /\ pc[p] # "off"
      BY <2>1 DEF LifecycleInv, LockInv
    <2>3. mem' = [mem EXCEPT ![p] = NoMemory]
      BY <1>2, <2>1, <2>2
    <2> QED
      BY <2>1, <2>2, <2>3, EndStep, Zenon
  <1>5. ASSUME AdminCommand(p) PROVE LifecycleInv' /\ disk' = disk
    <2>1. /\ pc[p] = "command" /\ pc' = [pc EXCEPT ![p] = "off"]
          /\ mem' = [mem EXCEPT ![p] = NoMemory] /\ lock' = lock \ {p}
          /\ UNCHANGED <<now, init, accepted>>
          /\ disk' \in {disk, [disk EXCEPT !.segs = mem[p].segs, !.sealed = mem[p].sealed]}
      BY <1>5, Zenon DEF AdminCommand, historyVars
    <2>2. mem[p].segs = disk.segs /\ mem[p].sealed = disk.sealed /\ pc[p] # "off"
      BY <2>1 DEF LifecycleInv, ManifestInv
    <2>3. disk = [segs |-> disk.segs, sealed |-> disk.sealed, wal |-> disk.wal]
      BY <1>1 DEF Disks
    <2>4. disk' = disk
      BY <2>1, <2>2, <2>3, Zenon
    <2> QED
      BY <2>1, <2>2, <2>4, EndStep, Zenon
  <1> QED
    BY <1>3, <1>4, <1>5, Zenon

\* What Drained makes of the memory of a running process.
LEMMA DrainedOK ==
  ASSUME NEW m \in Memories, NEW sealed \in Nat, NEW wal \in Seq(Rows), NEW by \in Senders,
         InOrderSends => PipelineOK(Batches(m), m.memtable, sealed, wal)
  PROVE  /\ Drained(m, by, Len(wal)) \in Memories
         /\ Drained(m, by, Len(wal)).segs = m.segs /\ Drained(m, by, Len(wal)).sealed = m.sealed
         /\ InOrderSends => PipelineOK(Batches(Drained(m, by, Len(wal))), Drained(m, by, Len(wal)).memtable, sealed, wal)
  <1>1. CASE m.memtable = <<>>
    BY <1>1, Zenon DEF Drained
  <1>2. CASE m.memtable # <<>>
    <2> DEFINE msg == [rows |-> m.memtable, sealed |-> Len(wal), by |-> by]
               d == Drained(m, by, Len(wal))
    <2>1. /\ m = [segs |-> m.segs, sealed |-> m.sealed, memtable |-> m.memtable,
                  unsent |-> m.unsent, queue |-> m.queue, tasks |-> m.tasks]
          /\ m.queue \in Seq(Messages) /\ m.unsent \in Seq(Messages) /\ m.memtable \in Seq(Rows)
          /\ m.segs \in Seq(Seq(Rows)) /\ m.sealed \in Nat /\ m.tasks \in SUBSET Tasks
      BY DEF Memories
    <2>2. msg \in Messages
      BY <2>1 DEF Messages
    <2>3. Batches(m) \in Seq(Messages)
      BY <2>1, BatchesMove, Zenon DEF Batches
    <2>4. InOrderSends => PipelineOK(Append(Batches(m), msg), <<>>, sealed, wal)
      BY <2>1, <2>3, PipelineDrain, Zenon
    <2>5. d = [m EXCEPT !.memtable = <<>>, !.unsent = Append(@, msg)]
      BY <1>2, Zenon DEF Drained
    <2> HIDE DEF msg, d
    <2>6. d = [segs |-> m.segs, sealed |-> m.sealed, memtable |-> <<>>,
               unsent |-> Append(m.unsent, msg), queue |-> m.queue, tasks |-> m.tasks]
      BY <2>1, <2>5, Zenon
    <2>7. /\ d.segs = m.segs /\ d.sealed = m.sealed
          /\ d.memtable = <<>> /\ d.queue = m.queue /\ d.unsent = Append(m.unsent, msg)
      BY <2>6
    <2>8. d \in Memories
      BY <2>1, <2>2, <2>6 DEF Memories
    <2>9. Batches(d) = Append(Batches(m), msg)
      <3>1. m.queue \o Append(m.unsent, msg) = Append(m.queue \o m.unsent, msg)
        BY <2>1, <2>2, BatchesMove
      <3> QED
        BY <2>7, <3>1, Zenon DEF Batches
    <2> QED
      BY <2>4, <2>7, <2>8, <2>9, Zenon DEF d
  <1> QED
    BY <1>1, <1>2

\* The state that the steps of a running server rest on.
LEMMA RunningState ==
  ASSUME LifecycleInv, NEW p \in Procs, pc[p] \in Running
  PROVE  /\ disk \in Disks /\ disk.segs \in Seq(Seq(Rows)) /\ disk.sealed \in Nat /\ disk.wal \in Seq(Rows)
         /\ accepted \subseteq Rows /\ init \in BOOLEAN
         /\ disk = [segs |-> disk.segs, sealed |-> disk.sealed, wal |-> disk.wal]
         /\ mem[p] \in Memories /\ mem[p].queue \in Seq(Messages) /\ mem[p].unsent \in Seq(Messages)
         /\ mem[p].memtable \in Seq(Rows) /\ Batches(mem[p]) \in Seq(Messages)
         /\ mem[p].segs = disk.segs /\ mem[p].sealed = disk.sealed
         /\ InOrderSends => /\ disk.sealed <= Len(disk.wal)
                            /\ PipelineOK(Batches(mem[p]), mem[p].memtable, disk.sealed, disk.wal)
         /\ pc[p] \in States /\ pc[p] # "off" /\ pc[p] # "locked"
  <1>1. /\ disk \in Disks /\ accepted \subseteq Rows /\ init \in BOOLEAN
        /\ mem[p] \in Memories /\ pc \in [Procs -> States]
        /\ mem[p].segs = disk.segs /\ mem[p].sealed = disk.sealed
        /\ InOrderSends => /\ disk.sealed <= Len(disk.wal)
                           /\ PipelineOK(Batches(mem[p]), mem[p].memtable, disk.sealed, disk.wal)
    BY Zenon DEF LifecycleInv, TypeOK, States, Disks, ManifestInv, LogInv
  <1>2. /\ disk.segs \in Seq(Seq(Rows)) /\ disk.sealed \in Nat /\ disk.wal \in Seq(Rows)
        /\ disk = [segs |-> disk.segs, sealed |-> disk.sealed, wal |-> disk.wal]
    BY <1>1 DEF Disks
  <1>3. mem[p].queue \in Seq(Messages) /\ mem[p].unsent \in Seq(Messages) /\ mem[p].memtable \in Seq(Rows)
    BY <1>1 DEF Memories
  <1>4. Batches(mem[p]) \in Seq(Messages)
    BY <1>3, BatchesMove, Zenon DEF Batches
  <1>5. pc[p] \in States /\ pc[p] # "off" /\ pc[p] # "locked"
    BY <1>1 DEF Running
  <1> QED
    BY <1>1, <1>2, <1>3, <1>4, <1>5, Zenon

\* The ingest handler.
LEMMA IngestStep ==
  ASSUME LifecycleInv, NEW p \in Procs, NEW e \in Events, Ingest(p, e)
  PROVE  LifecycleInv' /\ disk'.segs = disk.segs
  <1> DEFINE row == [id |-> e, at |-> now]
             m == [mem[p] EXCEPT !.memtable = Append(@, row)]
             n == IF Len(m.memtable) > MemtableLimit THEN Drained(m, "handler", Len(disk.wal) + 1) ELSE m
  <1>1. /\ pc[p] = "serving" /\ mem' = [mem EXCEPT ![p] = n]
        /\ disk' = [disk EXCEPT !.wal = Append(@, row)]
        /\ accepted' = {a \in accepted : a.id # e} \cup {row}
        /\ UNCHANGED <<now, lock, pc, init>>
    BY Zenon DEF Ingest
  <1>2. pc[p] \in Running
    BY <1>1 DEF Running
  <1>3. /\ disk \in Disks /\ disk.segs \in Seq(Seq(Rows)) /\ disk.sealed \in Nat /\ disk.wal \in Seq(Rows)
        /\ accepted \subseteq Rows /\ init \in BOOLEAN
        /\ disk = [segs |-> disk.segs, sealed |-> disk.sealed, wal |-> disk.wal]
        /\ mem[p] \in Memories /\ Batches(mem[p]) \in Seq(Messages) /\ mem[p].memtable \in Seq(Rows)
        /\ mem[p].segs = disk.segs /\ mem[p].sealed = disk.sealed
        /\ InOrderSends => /\ disk.sealed <= Len(disk.wal)
                           /\ PipelineOK(Batches(mem[p]), mem[p].memtable, disk.sealed, disk.wal)
    BY <1>2, RunningState, Zenon
  <1>4. row \in Rows
    <2>1. now \in Nat
      BY LifecycleAssumption DEF LifecycleInv, TypeOK
    <2> QED
      BY <2>1 DEF Rows
  <1> HIDE DEF row
  <1>5. /\ disk' = [segs |-> disk.segs, sealed |-> disk.sealed, wal |-> Append(disk.wal, row)]
        /\ disk'.segs = disk.segs /\ disk'.sealed = disk.sealed /\ disk'.wal = Append(disk.wal, row)
    BY <1>1, <1>3, Zenon
  <1>6. /\ disk'.wal \in Seq(Rows) /\ Len(disk'.wal) = Len(disk.wal) + 1
        /\ InOrderSends => disk'.sealed <= Len(disk'.wal)
        /\ disk'.wal[Len(disk.wal) + 1] = row /\ \A k \in 1..Len(disk.wal) : disk'.wal[k] = disk.wal[k]
    BY <1>3, <1>4, <1>5
  <1>7. disk' \in Disks
    BY <1>3, <1>5, <1>6 DEF Disks
  <1>8. /\ m \in Memories /\ Batches(m) = Batches(mem[p]) /\ m.memtable = Append(mem[p].memtable, row)
        /\ m.segs = disk.segs /\ m.sealed = disk.sealed
    <2>1. Append(mem[p].memtable, row) \in Seq(Rows)
      BY <1>3, <1>4
    <2> QED
      BY <1>3, <2>1, Zenon DEF Memories, Batches
  <1> HIDE DEF m
  <1>9. InOrderSends => PipelineOK(Batches(m), m.memtable, disk'.sealed, disk'.wal)
    BY <1>3, <1>4, <1>5, <1>8, PipelineAppend, Zenon
  <1>10. /\ n \in Memories /\ n.segs = disk.segs /\ n.sealed = disk.sealed
         /\ InOrderSends => PipelineOK(Batches(n), n.memtable, disk'.sealed, disk'.wal)
    <2>1. (n = m \/ n = Drained(m, "handler", Len(disk'.wal))) /\ "handler" \in Senders
      BY <1>6, Zenon DEF Senders
    <2> HIDE DEF n
    <2>2. CASE n = m
      BY <1>8, <1>9, <2>2, Zenon
    <2>3. CASE n = Drained(m, "handler", Len(disk'.wal))
      <3>1. disk'.sealed \in Nat
        BY <1>3, <1>5
      <3> QED
        BY <1>6, <1>8, <1>9, <2>1, <2>3, <3>1, DrainedOK, Zenon
    <2> QED
      BY <2>1, <2>2, <2>3, Zenon
  <1> HIDE DEF n
  <1>11. accepted' \subseteq Rows
    BY <1>1, <1>3, <1>4, Zenon
  <1>12. ASSUME InOrderSends PROVE NothingDropped'
    <2> SUFFICES ASSUME NEW a \in accepted'
                 PROVE  \/ \E k \in (disk'.sealed + 1)..Len(disk'.wal) : a = disk'.wal[k]
                        \/ \E s \in Range(disk'.segs) : a \in Range(s)
      BY Zenon DEF NothingDropped
    <2>1. CASE a = row
      <3>1. Len(disk.wal) + 1 \in (disk'.sealed + 1)..Len(disk'.wal)
        BY <1>3, <1>5, <1>6, <1>12
      <3> QED
        BY <1>6, <2>1, <3>1, Zenon
    <2>2. CASE a \in accepted
      <3>1. CASE \E s \in Range(disk.segs) : a \in Range(s)
        BY <1>5, <3>1, Zenon
      <3>2. ASSUME NEW k \in (disk.sealed + 1)..Len(disk.wal), a = disk.wal[k]
            PROVE  \E j \in (disk'.sealed + 1)..Len(disk'.wal) : a = disk'.wal[j]
        <4>1. k \in (disk'.sealed + 1)..Len(disk'.wal) /\ k \in 1..Len(disk.wal)
          BY <1>3, <1>5, <1>6, <1>12
        <4> QED
          BY <1>6, <3>2, <4>1, Zenon
      <3> QED
        BY <1>12, <2>2, <3>1, <3>2, Zenon DEF LifecycleInv, NothingDropped
    <2> QED
      BY <1>1, <2>1, <2>2, Zenon
  <1>13. /\ "serving" \in States /\ "serving" # "off" /\ "serving" # "locked" /\ "serving" \in Running /\ pc[p] # "off"
    BY <1>1 DEF States, Running
  <1>14. pc' = [pc EXCEPT ![p] = "serving"]
    <2>1. pc \in [Procs -> States]
      BY Zenon DEF LifecycleInv, TypeOK, States
    <2> QED
      BY <1>1, <2>1, Zenon
  <1>15. n.segs = disk'.segs /\ n.sealed = disk'.sealed
    BY <1>5, <1>10, Zenon
  <1> QED
    BY <1>1, <1>3, <1>5, <1>6, <1>7, <1>10, <1>11, <1>12, <1>13, <1>14, <1>15, OwnerStep, Zenon

\* The steps of a running server that leave the directory alone: the drains, the
\* sends, ctrl+c, and the notification of the workers.
LEMMA ServerStep ==
  ASSUME LifecycleInv, NEW p \in Procs,
         Send(p) \/ ForceDrain(p) \/ CtrlC(p) \/ ShutdownDrain(p) \/ NotifyWorkers(p)
  PROVE  LifecycleInv' /\ disk' = disk
  <1>1. UNCHANGED <<now, lock, init, disk, accepted>>
    BY Zenon DEF Send, ForceDrain, CtrlC, ShutdownDrain, NotifyWorkers, historyVars
  <1>2. pc[p] \in Running
    <2>1. CASE ForceDrain(p)
      BY <2>1, Zenon DEF ForceDrain, LifecycleInv, LockInv
    <2>2. CASE Send(p)
      <3>1. \E i \in DOMAIN mem[p].unsent : TRUE
        BY <2>2, Zenon DEF Send
      <3>2. mem[p].unsent # <<>>
        BY <3>1
      <3> QED
        BY <3>2, Zenon DEF LifecycleInv, LockInv
    <2>3. CASE CtrlC(p) \/ ShutdownDrain(p) \/ NotifyWorkers(p)
      BY <2>3 DEF CtrlC, ShutdownDrain, NotifyWorkers, Running
    <2> QED
      BY <2>1, <2>2, <2>3
  <1>3. /\ disk \in Disks /\ disk.sealed \in Nat /\ disk.wal \in Seq(Rows)
        /\ accepted \subseteq Rows /\ init \in BOOLEAN
        /\ mem[p] \in Memories /\ mem[p].queue \in Seq(Messages) /\ mem[p].unsent \in Seq(Messages)
        /\ mem[p].segs = disk.segs /\ mem[p].sealed = disk.sealed
        /\ InOrderSends => /\ disk.sealed <= Len(disk.wal)
                           /\ PipelineOK(Batches(mem[p]), mem[p].memtable, disk.sealed, disk.wal)
        /\ pc[p] \in States /\ pc[p] # "off"
    BY <1>2, RunningState, Zenon
  <1>4. pc = [pc EXCEPT ![p] = pc[p]] /\ mem = [mem EXCEPT ![p] = mem[p]] /\ mem \in [Procs -> Memories]
    <2>1. pc \in [Procs -> States] /\ mem \in [Procs -> Memories]
      BY Zenon DEF LifecycleInv, TypeOK, States
    <2> QED
      BY <2>1, Zenon
  <1>5. InOrderSends => NothingDropped'
    BY <1>1, Zenon DEF LifecycleInv, NothingDropped
  <1>6. ASSUME NEW st \in Running, NEW m \in Memories, m.segs = disk.segs, m.sealed = disk.sealed,
               InOrderSends => PipelineOK(Batches(m), m.memtable, disk.sealed, disk.wal),
               pc' = [pc EXCEPT ![p] = st], mem' = [mem EXCEPT ![p] = m]
        PROVE  LifecycleInv'
    <2>1. st \in States /\ st # "off" /\ st # "locked"
      BY DEF Running, States
    <2> QED
      BY <1>1, <1>3, <1>5, <1>6, <2>1, OwnerStep, Zenon
  <1> DEFINE d(by) == Drained(mem[p], by, Len(disk.wal))
  <1>7. \A by \in Senders :
          /\ d(by) \in Memories /\ d(by).segs = disk.segs /\ d(by).sealed = disk.sealed
          /\ InOrderSends => PipelineOK(Batches(d(by)), d(by).memtable, disk.sealed, disk.wal)
    BY <1>3, DrainedOK, Zenon
  <1>8. {"drain", "notify", "join"} \subseteq Running /\ "rollup" \in Senders /\ "main" \in Senders
    BY DEF Running, Senders
  <1>9. CASE ForceDrain(p)
    <2>1. mem' = [mem EXCEPT ![p] = d("rollup")] /\ pc' = pc
      BY <1>9, Zenon DEF ForceDrain
    <2> HIDE DEF d
    <2> QED
      BY <1>1, <1>2, <1>4, <1>6, <1>7, <1>8, <2>1, Zenon
  <1>10. CASE CtrlC(p)
    <2>1. mem' = mem /\ pc' = [pc EXCEPT ![p] = "drain"]
      BY <1>10, Zenon DEF CtrlC
    <2> QED
      BY <1>1, <1>3, <1>4, <1>6, <1>8, <2>1, Zenon
  <1>11. CASE ShutdownDrain(p)
    <2>1. mem' = [mem EXCEPT ![p] = d("main")] /\ pc' = [pc EXCEPT ![p] = "notify"]
      BY <1>11, Zenon DEF ShutdownDrain
    <2> HIDE DEF d
    <2> QED
      BY <1>1, <1>6, <1>7, <1>8, <2>1, Zenon
  <1>12. CASE NotifyWorkers(p)
    <2>1. PICK inTick \in SUBSET Workers : mem' = [mem EXCEPT ![p] = [@ EXCEPT !.tasks = inTick]]
      BY <1>12, Zenon DEF NotifyWorkers
    <2> DEFINE m == [mem[p] EXCEPT !.tasks = inTick]
    <2>2. mem' = [mem EXCEPT ![p] = m] /\ pc' = [pc EXCEPT ![p] = "join"]
      BY <1>12, <2>1, Zenon DEF NotifyWorkers
    <2>3. /\ m \in Memories /\ m.segs = mem[p].segs /\ m.sealed = mem[p].sealed
          /\ m.queue = mem[p].queue /\ m.unsent = mem[p].unsent /\ m.memtable = mem[p].memtable
      <3>1. inTick \in SUBSET Tasks
        BY <2>1, Zenon DEF Tasks
      <3> QED
        BY <1>3, <3>1, SMTT(30) DEF Memories
    <2> HIDE DEF m
    <2>4. Batches(m) = Batches(mem[p])
      BY <2>3, Zenon DEF Batches
    <2> QED
      BY <1>1, <1>3, <1>6, <1>8, <2>2, <2>3, <2>4, Zenon
  <1>13. CASE Send(p)
    <2> DEFINE u == mem[p].unsent
               q(i) == Append(mem[p].queue, u[i])
               rest(i) == SubSeq(u, 1, i - 1) \o SubSeq(u, i + 1, Len(u))
               m(i) == [mem[p] EXCEPT !.queue = Append(@, u[i]), !.unsent = rest(i)]
    <2>1. PICK i \in DOMAIN u : (InOrderSends => i = 1) /\ mem' = [mem EXCEPT ![p] = m(i)]
      BY <1>13, Zenon DEF Send
    <2>2. pc' = pc
      BY <1>13, Zenon DEF Send
    <2>3. rest(i) \in Seq(Messages) /\ q(i) \in Seq(Messages) /\ mem[p].unsent # <<>>
      BY <1>3
    <2>4. ASSUME InOrderSends PROVE q(i) \o rest(i) = Batches(mem[p])
      <3>1. i = 1
        BY <2>1, <2>4
      <3> QED
        BY <1>3, <2>3, <3>1, BatchesMove DEF Batches
    <2>5. m(i) = [mem[p] EXCEPT !.queue = q(i), !.unsent = rest(i)]
      OBVIOUS
    <2> HIDE DEF rest, q, m
    <2>6. /\ mem[p] = [segs |-> mem[p].segs, sealed |-> mem[p].sealed, memtable |-> mem[p].memtable,
                       unsent |-> mem[p].unsent, queue |-> mem[p].queue, tasks |-> mem[p].tasks]
          /\ mem[p].segs \in Seq(Seq(Rows)) /\ mem[p].sealed \in Nat /\ mem[p].memtable \in Seq(Rows)
          /\ mem[p].tasks \in SUBSET Tasks
      BY <1>3 DEF Memories
    <2>7. m(i) = [segs |-> mem[p].segs, sealed |-> mem[p].sealed, memtable |-> mem[p].memtable,
                  unsent |-> rest(i), queue |-> q(i), tasks |-> mem[p].tasks]
      BY <2>5, <2>6, Zenon
    <2>8. m(i) \in Memories
      BY <2>3, <2>6, <2>7 DEF Memories
    <2>9. /\ m(i).segs = mem[p].segs /\ m(i).sealed = mem[p].sealed /\ m(i).memtable = mem[p].memtable
          /\ Batches(m(i)) = q(i) \o rest(i)
      <3>1. /\ m(i).segs = mem[p].segs /\ m(i).sealed = mem[p].sealed /\ m(i).memtable = mem[p].memtable
            /\ m(i).queue = q(i) /\ m(i).unsent = rest(i)
        BY <2>7
      <3> QED
        BY <3>1, Zenon DEF Batches
    <2>10. InOrderSends => PipelineOK(Batches(m(i)), m(i).memtable, disk.sealed, disk.wal)
      BY <1>3, <2>4, <2>9, Zenon
    <2> QED
      BY <1>1, <1>2, <1>3, <1>4, <1>6, <2>1, <2>2, <2>8, <2>9, <2>10, Zenon
  <1> QED
    BY <1>1, <1>9, <1>10, <1>11, <1>12, <1>13, Zenon

\* The flusher: what its seal retires from the WAL is in the segment it commits.
LEMMA FlusherStep ==
  ASSUME LifecycleInv, NEW p \in Procs, FlusherCommit(p)
  PROVE  /\ LifecycleInv'
         /\ \E rows : disk'.segs = Append(disk.segs, rows) /\ disk.segs \in Seq(Seq(Rows)) /\ rows \in Seq(Rows)
  <1> DEFINE batch == Head(mem[p].queue)
             sealed == IF batch.sealed > mem[p].sealed THEN batch.sealed ELSE mem[p].sealed
             m == [mem[p] EXCEPT !.queue = Tail(@), !.segs = Append(@, batch.rows),
                                 !.sealed = IF batch.sealed > @ THEN batch.sealed ELSE @]
  <1>1. /\ mem[p].queue # <<>> /\ mem' = [mem EXCEPT ![p] = m]
        /\ disk' = [disk EXCEPT !.segs = m.segs, !.sealed = m.sealed]
        /\ UNCHANGED <<now, lock, pc, init, accepted>>
    BY Zenon DEF FlusherCommit, historyVars
  <1>2. pc[p] \in Running
    BY <1>1, Zenon DEF LifecycleInv, LockInv
  <1>3. /\ disk \in Disks /\ disk.segs \in Seq(Seq(Rows)) /\ disk.sealed \in Nat /\ disk.wal \in Seq(Rows)
        /\ accepted \subseteq Rows /\ init \in BOOLEAN
        /\ disk = [segs |-> disk.segs, sealed |-> disk.sealed, wal |-> disk.wal]
        /\ mem[p] \in Memories /\ mem[p].queue \in Seq(Messages) /\ mem[p].unsent \in Seq(Messages)
        /\ mem[p].memtable \in Seq(Rows) /\ Batches(mem[p]) \in Seq(Messages)
        /\ mem[p].segs = disk.segs /\ mem[p].sealed = disk.sealed
        /\ InOrderSends => /\ disk.sealed <= Len(disk.wal)
                           /\ PipelineOK(Batches(mem[p]), mem[p].memtable, disk.sealed, disk.wal)
        /\ pc[p] \in States /\ pc[p] # "off" /\ pc[p] # "locked"
    BY <1>2, RunningState, Zenon
  <1>4. InOrderSends =>
          /\ disk.sealed <= batch.sealed
          /\ Covered(batch.rows, disk.wal, disk.sealed, batch.sealed)
          /\ PipelineOK(Tail(mem[p].queue) \o mem[p].unsent, mem[p].memtable, batch.sealed, disk.wal)
    <2>1. /\ Batches(mem[p]) # <<>> /\ Head(Batches(mem[p])) = batch
          /\ Tail(Batches(mem[p])) = Tail(mem[p].queue) \o mem[p].unsent
      BY <1>1, <1>3, BatchesMove, Zenon DEF Batches
    <2> HIDE DEF batch
    <2> QED
      BY <1>3, <2>1, PipelineFlush, Zenon
  <1>5. batch \in Messages /\ batch.sealed \in Nat /\ batch.rows \in Seq(Rows)
    <2>1. batch \in Messages
      BY <1>1, <1>3
    <2> HIDE DEF batch
    <2> QED
      BY <2>1 DEF Messages
  <1> HIDE DEF batch
  <1>6. sealed \in Nat /\ (InOrderSends => sealed = batch.sealed)
    BY <1>3, <1>4, <1>5
  <1>7. Tail(mem[p].queue) \in Seq(Messages) /\ Append(disk.segs, batch.rows) \in Seq(Seq(Rows))
    BY <1>1, <1>3, <1>5
  <1>8. m = [mem[p] EXCEPT !.queue = Tail(@), !.segs = Append(@, batch.rows), !.sealed = sealed]
    OBVIOUS
  <1> HIDE DEF m, sealed
  <1>9. /\ m = [segs |-> Append(disk.segs, batch.rows), sealed |-> sealed, memtable |-> mem[p].memtable,
                unsent |-> mem[p].unsent, queue |-> Tail(mem[p].queue), tasks |-> mem[p].tasks]
        /\ mem[p].tasks \in SUBSET Tasks
    <2>1. /\ mem[p] = [segs |-> mem[p].segs, sealed |-> mem[p].sealed, memtable |-> mem[p].memtable,
                       unsent |-> mem[p].unsent, queue |-> mem[p].queue, tasks |-> mem[p].tasks]
          /\ mem[p].tasks \in SUBSET Tasks
      BY <1>3 DEF Memories
    <2> QED
      BY <1>3, <1>8, <2>1, Zenon
  <1>10. /\ m.segs = Append(disk.segs, batch.rows) /\ m.sealed = sealed
         /\ m.memtable = mem[p].memtable /\ Batches(m) = Tail(mem[p].queue) \o mem[p].unsent
    BY <1>9, Zenon DEF Batches
  <1>11. m \in Memories
    BY <1>3, <1>5, <1>6, <1>7, <1>9 DEF Memories
  <1>12. /\ disk' = [segs |-> Append(disk.segs, batch.rows), sealed |-> sealed, wal |-> disk.wal]
         /\ disk'.segs = Append(disk.segs, batch.rows) /\ disk'.sealed = sealed /\ disk'.wal = disk.wal
    <2>1. disk' = [segs |-> m.segs, sealed |-> m.sealed, wal |-> disk.wal]
      BY <1>1, <1>3, Zenon
    <2> QED
      BY <1>10, <2>1, Zenon
  <1>13. disk' \in Disks
    BY <1>3, <1>5, <1>6, <1>7, <1>12 DEF Disks
  <1>14. InOrderSends => disk'.sealed <= Len(disk'.wal) /\ PipelineOK(Batches(m), m.memtable, disk'.sealed, disk'.wal)
    BY <1>4, <1>6, <1>10, <1>12, Zenon DEF PipelineOK
  <1>15. Range(disk'.segs) = Range(disk.segs) \cup {batch.rows}
    BY <1>3, <1>5, <1>12, AppendedSet, Zenon
  <1>16. ASSUME InOrderSends PROVE NothingDropped'
    <2> SUFFICES ASSUME NEW a \in accepted
                 PROVE  \/ \E k \in (disk'.sealed + 1)..Len(disk'.wal) : a = disk'.wal[k]
                        \/ \E s \in Range(disk'.segs) : a \in Range(s)
      BY <1>1, Zenon DEF NothingDropped
    <2>1. CASE \E s \in Range(disk.segs) : a \in Range(s)
      BY <1>15, <2>1, Zenon
    <2>2. ASSUME NEW k \in (disk.sealed + 1)..Len(disk.wal), a = disk.wal[k]
          PROVE  \/ \E j \in (disk'.sealed + 1)..Len(disk'.wal) : a = disk'.wal[j]
                 \/ \E s \in Range(disk'.segs) : a \in Range(s)
      <3>1. CASE k <= batch.sealed
        <4>1. k \in (disk.sealed + 1)..batch.sealed
          BY <1>3, <1>5, <3>1
        <4>2. PICK i \in DOMAIN batch.rows : batch.rows[i] = disk.wal[k]
          BY <1>4, <1>16, <4>1, Zenon DEF Covered
        <4>3. a \in Range(batch.rows)
          BY <2>2, <4>2, Zenon DEF Range
        <4> QED
          BY <1>15, <4>3, Zenon
      <3>2. CASE ~(k <= batch.sealed)
        <4>1. k \in (disk'.sealed + 1)..Len(disk'.wal)
          BY <1>3, <1>5, <1>6, <1>12, <1>16, <3>2
        <4> QED
          BY <1>12, <2>2, <4>1, Zenon
      <3> QED
        BY <3>1, <3>2
    <2> QED
      BY <1>16, <2>1, <2>2, Zenon DEF LifecycleInv, NothingDropped
  <1>17. pc' = [pc EXCEPT ![p] = pc[p]]
    <2>1. pc \in [Procs -> States]
      BY Zenon DEF LifecycleInv, TypeOK, States
    <2> QED
      BY <1>1, <2>1, Zenon
  <1>18. m.segs = disk'.segs /\ m.sealed = disk'.sealed /\ init' \in BOOLEAN /\ accepted' \subseteq Rows
    BY <1>1, <1>3, <1>10, <1>12, Zenon
  <1>19. LifecycleInv'
    BY <1>1, <1>2, <1>3, <1>11, <1>13, <1>14, <1>16, <1>17, <1>18, OwnerStep, Zenon
  <1> QED
    BY <1>3, <1>5, <1>12, <1>19, Zenon

-----------------------------------------------------------------------------
(* The theorems *)

\* What a step does to the directory and to the invariant.
LEMMA NextStep ==
  ASSUME LifecycleInv, Next
  PROVE  /\ LifecycleInv'
         /\ \/ disk'.segs = disk.segs
            \/ \E rows : disk'.segs = Append(disk.segs, rows) /\ disk.segs \in Seq(Seq(Rows)) /\ rows \in Seq(Rows)
  <1>1. CASE TimePasses
    <2>1. UNCHANGED <<lock, pc, mem, init, disk, accepted>>
      BY <1>1, Zenon DEF TimePasses, historyVars
    <2>2. now' \in Start..MaxTime
      BY <1>1, LifecycleAssumption DEF TimePasses, LifecycleInv, TypeOK
    <2> QED
      BY <2>1, <2>2, Zenon DEF LifecycleInv, TypeOK, LockInv, ManifestInv, LogInv, NothingDropped
  <1>2. ASSUME NEW p \in Procs, Acquire(p) PROVE LifecycleInv' /\ disk' = disk
    BY <1>2, AcquireStep, Zenon DEF Acquire
  <1>3. ASSUME NEW p \in Procs, ProcessEnds(p) PROVE LifecycleInv' /\ disk' = disk
    BY <1>3, EndStep, Zenon DEF ProcessEnds, historyVars
  <1>4. Servers \subseteq Procs
    BY Zenon DEF Procs
  <1> QED
    BY <1>1, <1>2, <1>3, <1>4, RecoverStep, AdminStep, IngestStep, FlusherStep, ServerStep, Zenon
    DEF Next, TimePasses

\* One process at a time is past DbLock::acquire and its manifest is the one in the
\* directory; if batches are sent in the order they were drained in, then WAL,
\* channel, unsent batches and memtable account for every row that is not in a
\* segment.
THEOREM LifecycleInvariant == Spec => []LifecycleInv
  <1>1. LifecycleInv /\ [Next]_vars => LifecycleInv'
    <2> SUFFICES ASSUME LifecycleInv, [Next]_vars PROVE LifecycleInv'
      OBVIOUS
    <2>1. CASE Next
      BY <2>1, NextStep
    <2>2. CASE UNCHANGED vars
      BY <2>2, Zenon DEF vars, LifecycleInv, TypeOK, LockInv, ManifestInv, LogInv, NothingDropped
    <2> QED
      BY <2>1, <2>2
  <1> QED
    BY <1>1, InitInv, PTL DEF Spec

\* If batches are sent in the order they were drained in, no accepted event is lost
\* by drains, sends, flushes, shutdown, crash or recovery: until the seal pointer
\* passes its row in the WAL it is replayed, and a seal pointer passes it only
\* together with a segment that holds it.
THEOREM NothingIsDropped ==
  ASSUME InOrderSends
  PROVE  Spec => []NothingDropped
  <1>1. LifecycleInv => NothingDropped
    BY Zenon DEF LifecycleInv
  <1> QED
    BY <1>1, LifecycleInvariant, PTL

\* Because of the process lock no save of the manifest, of a server or of an admin
\* command, removes a segment that another process has committed, in whatever
\* order batches are sent.
THEOREM SegmentsAreKept == Spec => SegmentsKept
  <1>1. LifecycleInv /\ [Next]_vars => [\A s \in Range(disk.segs) : s \in Range(disk'.segs)]_vars
    <2> SUFFICES ASSUME LifecycleInv, Next, NEW s \in Range(disk.segs) PROVE s \in Range(disk'.segs)
      BY Zenon
    <2>1. CASE disk'.segs = disk.segs
      BY <2>1, Zenon
    <2>2. ASSUME NEW rows \in Seq(Rows), disk.segs \in Seq(Seq(Rows)), disk'.segs = Append(disk.segs, rows)
          PROVE  s \in Range(disk'.segs)
      BY <2>2, AppendedSet, Zenon
    <2> QED
      BY <2>1, <2>2, NextStep, Zenon
  <1> QED
    BY <1>1, LifecycleInvariant, PTL DEF Spec, SegmentsKept

=============================================================================
