--------------------------- MODULE CompactionProofs ---------------------------
(***************************************************************************)
(* Compaction keeps what the segments hold, and a reader that listed the   *)
(* manifest before a compaction finds its segments during the grace        *)
(* period. First the type invariant: every id that occurs in a manifest,   *)
(* in the worker's plans or in the reader's list was handed out before.    *)
(***************************************************************************)
EXTENDS Compaction, TLAPS

Ids == 1..(nextId - 1)
Segs == [id : Ids, bucket : Nat, evs : SUBSET Events]
Recs == [old : SUBSET Ids, at : Nat]
Stages == {"idle", "delete", "save", "plan", "run", "swap"}
Workers == [pc : Stages, now : Nat, doomed : SUBSET Recs, plans : SUBSET (SUBSET Segs),
            plan : SUBSET Segs, out : SUBSET Segs]
Readers == [pc : {"idle", "read"}, since : Nat, todo : SUBSET Segs, seen : SUBSET Events,
            owed : SUBSET Events, missed : SUBSET Events]
Manifests == [segs : SUBSET Segs, repl : SUBSET Recs]

\* Every id that occurs was handed out before.
TypeInv ==
  /\ now \in Nat
  /\ nextId \in Nat \ {0}
  /\ files \subseteq Ids
  /\ manifest \in Manifests
  /\ disk \in Manifests
  /\ worker \in Workers
  /\ reader \in Readers
  /\ flushed \subseteq Events
  /\ damaged \in BOOLEAN
  /\ flushes \in Nat
  /\ restarts \in Nat
  /\ faults \in Nat

-----------------------------------------------------------------------------
(* Type correctness *)

\* Handing out an id leaves everything typed.
LEMMA TypesGrow ==
  ASSUME nextId \in Nat \ {0}, nextId' = nextId \/ nextId' = nextId + 1
  PROVE  /\ nextId' \in Nat \ {0}
         /\ Ids \subseteq Ids'
         /\ Segs \subseteq Segs'
         /\ Recs \subseteq Recs'
         /\ Workers \subseteq Workers'
         /\ Readers \subseteq Readers'
         /\ Manifests \subseteq Manifests'
<1>1. nextId' \in Nat \ {0} /\ Ids \subseteq Ids'
  BY DEF Ids
<1>2. Segs \subseteq Segs' /\ Recs \subseteq Recs'
  BY <1>1 DEF Segs, Recs
<1>3. Workers \subseteq Workers'
  BY <1>2 DEF Workers
<1>4. Readers \subseteq Readers'
  BY <1>2 DEF Readers
<1>5. Manifests \subseteq Manifests'
  BY <1>2 DEF Manifests
<1> QED
  BY <1>1, <1>2, <1>3, <1>4, <1>5

\* The worker's next state while it has plans (the loop of tick).
LEMMA RemainingType ==
  ASSUME worker \in Workers, NEW plans \in SUBSET (SUBSET Segs)
  PROVE  /\ Remaining(plans) \in Workers
         /\ Remaining(plans).pc \in {"idle", "run"}
BY Zenon DEF Remaining, Workers, IdleWorker, Stages

\* A database without segments is well typed.
LEMMA InitType == Init => TypeInv
<1> SUFFICES ASSUME Init PROVE TypeInv
  OBVIOUS
<1> USE DEF Init
<1>1. manifest \in Manifests /\ disk \in Manifests
  BY DEF Manifests
<1>2. worker \in Workers
  BY DEF Workers, IdleWorker, Stages
<1>3. reader \in Readers
  BY DEF Readers, IdleReader
<1>4. /\ now \in Nat /\ nextId \in Nat \ {0} /\ files \subseteq Ids /\ flushed \subseteq Events
      /\ flushes \in Nat /\ restarts \in Nat /\ faults \in Nat
  BY CompactionAssumption
<1>5. damaged \in BOOLEAN
  BY Zenon
<1> QED
  BY <1>1, <1>2, <1>3, <1>4, <1>5, Zenon DEF TypeInv

\* Every step of Next keeps TypeInv, action by action.
LEMMA StepType == TypeInv /\ [Next]_vars => TypeInv'
<1> SUFFICES ASSUME TypeInv, [Next]_vars PROVE TypeInv'
  OBVIOUS
<1> USE CompactionAssumption DEF TypeInv
<1>1. CASE TimePasses
  <2>1. nextId' = nextId
    BY <1>1 DEF TimePasses
  <2> QED
    BY <1>1, <2>1, TypesGrow DEF TimePasses
<1>2. ASSUME NEW e \in Events, Flush(e) PROVE TypeInv'
  <2>1. nextId' = nextId + 1
    BY <1>2 DEF Flush
  <2>2. nextId \in Ids'
    BY <2>1 DEF Ids
  <2>3. manifest' \in Manifests'
    <3>1. [id |-> nextId, bucket |-> Bucket[e], evs |-> {e}] \in Segs'
      BY <2>2 DEF Segs
    <3>2. manifest \in Manifests'
      BY <2>1, TypesGrow
    <3> QED
      BY <1>2, <3>1, <3>2, Zenon DEF Flush, Manifests
  <2> QED
    BY <1>2, <2>1, <2>2, <2>3, TypesGrow DEF Flush
<1>3. CASE SweepScan
  <2>1. worker' \in Workers
    BY <1>3, Zenon DEF SweepScan, Workers, IdleWorker, Stages, Expired, Manifests
  <2>2. nextId' = nextId
    BY <1>3 DEF SweepScan
  <2> QED
    BY <1>3, <2>1, <2>2, TypesGrow DEF SweepScan
<1>4. CASE SweepDelete
  <2>1. worker' \in Workers
    BY <1>4 DEF SweepDelete, Workers, Stages
  <2>2. nextId' = nextId
    BY <1>4 DEF SweepDelete
  <2>3. files' \subseteq Ids /\ faults' \in Nat
    BY <1>4 DEF SweepDelete
  <2> QED
    BY <1>4, <2>1, <2>2, <2>3, TypesGrow DEF SweepDelete
<1>5. CASE SweepSave
  <2>1. worker' \in Workers
    BY <1>5, Zenon DEF SweepSave, Workers, Stages
  <2>2. manifest' \in Manifests /\ disk' \in Manifests
    BY <1>5 DEF SweepSave, Manifests
  <2>3. nextId' = nextId
    BY <1>5 DEF SweepSave
  <2> QED
    BY <1>5, <2>1, <2>2, <2>3, TypesGrow DEF SweepSave
<1>6. CASE SweepSaveFails
  <2>1. worker' \in Workers
    BY <1>6 DEF SweepSaveFails, Workers, Stages, IdleWorker
  <2>2. manifest' \in Manifests /\ disk' \in Manifests
    BY <1>6 DEF SweepSaveFails, Manifests
  <2>3. nextId' = nextId
    BY <1>6 DEF SweepSaveFails
  <2> QED
    BY <1>6, <2>1, <2>2, <2>3, TypesGrow DEF SweepSaveFails
<1>7. CASE PlanCompaction
  <2>1. Plans \in SUBSET (SUBSET Segs)
    BY Zenon DEF Plans, Manifests
  <2>2. worker' \in Workers
    BY <1>7, <2>1, RemainingType DEF PlanCompaction
  <2>3. nextId' = nextId
    BY <1>7 DEF PlanCompaction
  <2> QED
    BY <1>7, <2>2, <2>3, TypesGrow DEF PlanCompaction
<1>8. CASE MergeInputs
  <2> PICK p \in worker.plans :
         LET evs == EventsOf(Present(p))
             out == [id |-> nextId, bucket |-> (CHOOSE s \in p : TRUE).bucket, evs |-> evs]
         IN IF evs = {}
              THEN worker' = Remaining(worker.plans \ {p}) /\ UNCHANGED <<files, nextId>>
              ELSE /\ worker' = [worker EXCEPT !.pc = "swap", !.plans = @ \ {p}, !.plan = p, !.out = {out}]
                   /\ files' = files \cup {nextId}
                   /\ nextId' = nextId + 1
    BY <1>8, Zenon DEF MergeInputs
  <2>1. p \in SUBSET Segs /\ worker.plans \ {p} \in SUBSET (SUBSET Segs)
    BY DEF Workers
  <2>2. CASE EventsOf(Present(p)) = {}
    <3>1. worker' \in Workers
      BY <2>1, <2>2, RemainingType
    <3> QED
      BY <1>8, <2>2, <3>1, TypesGrow DEF MergeInputs
  <2>3. CASE EventsOf(Present(p)) # {}
    <3> DEFINE out == [id |-> nextId, bucket |-> (CHOOSE s \in p : TRUE).bucket, evs |-> EventsOf(Present(p))]
    <3>1. nextId' = nextId + 1 /\ files' = files \cup {nextId}
          /\ worker' = [worker EXCEPT !.pc = "swap", !.plans = @ \ {p}, !.plan = p, !.out = {out}]
      BY <2>3
    <3>2. nextId \in Ids'
      BY <3>1 DEF Ids
    <3>3. out \in Segs'
      <4>1. p # {}
        BY <2>3 DEF EventsOf, Present
      <4>2. (CHOOSE s \in p : TRUE) \in p
        BY <4>1
      <4>3. (CHOOSE s \in p : TRUE).bucket \in Nat
        BY <2>1, <4>2 DEF Segs
      <4>4. EventsOf(Present(p)) \subseteq Events
        BY <2>1 DEF EventsOf, Present, Segs
      <4> QED
        BY <3>2, <4>3, <4>4 DEF Segs
    <3>4. worker \in Workers' /\ p \in SUBSET Segs'
      BY <2>1, <3>1, TypesGrow
    <3>5. worker' \in Workers'
      <4> HIDE DEF out
      <4> QED
        BY <3>1, <3>3, <3>4, Zenon DEF Workers, Stages
    <3> QED
      BY <1>8, <3>1, <3>2, <3>5, TypesGrow DEF MergeInputs
  <2> QED
    BY <2>2, <2>3
<1>9. CASE MergeFails
  <2>1. PICK p \in worker.plans : worker' = Remaining(worker.plans \ {p})
    BY <1>9, Zenon DEF MergeFails
  <2>2. worker.plans \ {p} \in SUBSET (SUBSET Segs)
    BY DEF Workers
  <2>3. worker' \in Workers
    BY <2>1, <2>2, RemainingType
  <2>4. nextId' = nextId
    BY <1>9 DEF MergeFails
  <2> QED
    BY <1>9, <2>3, <2>4, TypesGrow DEF MergeFails
<1>10. Swapped \in Manifests
  <2>1. [old |-> IdsOf(worker.plan), at |-> worker.now] \in Recs
    BY DEF Workers, Recs, IdsOf, Segs
  <2> QED
    BY <2>1, Zenon DEF Swapped, Manifests, Workers
<1>11. worker.plans \in SUBSET (SUBSET Segs)
  BY DEF Workers
<1>12. CASE Swap
  <2>1. worker' \in Workers
    BY <1>11, <1>12, RemainingType DEF Swap
  <2>2. manifest' \in Manifests /\ disk' \in Manifests /\ files' \subseteq Ids
    BY <1>10, <1>12 DEF Swap
  <2>3. nextId' = nextId
    BY <1>12 DEF Swap
  <2> QED
    BY <1>12, <2>1, <2>2, <2>3, TypesGrow DEF Swap
<1>13. CASE SwapSaveFails
  <2>1. worker' \in Workers
    BY <1>11, <1>13, RemainingType DEF SwapSaveFails
  <2>2. manifest' \in Manifests /\ disk' \in Manifests /\ files' \subseteq Ids
    BY <1>10, <1>13 DEF SwapSaveFails
  <2>3. nextId' = nextId
    BY <1>13 DEF SwapSaveFails
  <2> QED
    BY <1>13, <2>1, <2>2, <2>3, TypesGrow DEF SwapSaveFails
<1>14. CASE ReadStart
  <2>1. reader' \in Readers
    BY <1>14 DEF ReadStart, Readers, Manifests, Workers
  <2>2. nextId' = nextId
    BY <1>14 DEF ReadStart
  <2> QED
    BY <1>14, <2>1, <2>2, TypesGrow DEF ReadStart
<1>15. CASE ReadFile
  <2>1. PICK s \in reader.todo :
          reader' = [reader EXCEPT !.todo = @ \ {s}, !.seen = @ \cup EventsOf(Present({s}))]
    BY <1>15 DEF ReadFile
  <2>2. EventsOf(Present({s})) \subseteq Events
    BY DEF EventsOf, Present, Readers, Segs
  <2>3. reader' \in Readers
    BY <2>1, <2>2, Zenon DEF Readers
  <2>4. nextId' = nextId
    BY <1>15 DEF ReadFile
  <2> QED
    BY <1>15, <2>3, <2>4, TypesGrow DEF ReadFile
<1>16. CASE ReadEnd
  <2>1. reader' \in Readers
    BY <1>16 DEF ReadEnd, Readers, IdleReader
  <2>2. nextId' = nextId
    BY <1>16 DEF ReadEnd
  <2> QED
    BY <1>16, <2>1, <2>2, TypesGrow DEF ReadEnd
<1>17. CASE Restart
  <2>1. worker' \in Workers /\ reader' \in Readers
    BY <1>17 DEF Restart, Workers, Readers, IdleWorker, IdleReader, Stages
  <2>2. nextId' = nextId
    BY <1>17 DEF Restart
  <2> QED
    BY <1>17, <2>1, <2>2, TypesGrow DEF Restart
<1>18. CASE UNCHANGED vars
  BY <1>18, TypesGrow DEF vars
<1> QED
  BY <1>1, <1>2, <1>3, <1>4, <1>5, <1>6, <1>7, <1>8, <1>9, <1>12, <1>13, <1>14,
     <1>15, <1>16, <1>17, <1>18 DEF Next, Tick

-----------------------------------------------------------------------------
(***************************************************************************)
(* Compaction keeps the contents of the database, for every set of events, *)
(* every threshold and grace window, and any number of flushes, crashes    *)
(* and failures.                                                           *)
(*                                                                         *)
(* ContentPreserved is not inductive: the swap keeps the contents because  *)
(* the output holds what its inputs hold, and the sweep deletes no file in *)
(* use because the ids of replaced segments are never used again.          *)
(***************************************************************************)

\* The ids of segments in use, and of segments that were replaced.
InUse == IdsOf(manifest.segs)
Replaced == OldIds(manifest.repl) \cup OldIds(disk.repl)

\* The database as it is while no swap has failed to be saved.
Contents ==
  /\ disk.segs = manifest.segs
  /\ InUse \subseteq files
  /\ EventsOf(manifest.segs) = flushed

\* Ids name one segment, and no segment in use was replaced.
Distinct ==
  /\ \A s, t \in manifest.segs : s.id = t.id => s = t
  /\ InUse \cap Replaced = {}

\* What the worker has collected for deletion is not in use, and the output of a
\* merge is new and holds the events of its inputs if these are still there.
WorkerInv ==
  /\ worker.pc \in {"delete", "save"} => InUse \cap OldIds(worker.doomed) = {}
  /\ worker.pc = "swap" =>
       /\ \A o \in worker.out : /\ o.id \in files
                                /\ o.id \notin InUse
                                /\ o.id \notin Replaced
                                /\ o.id \notin IdsOf(worker.plan)
       /\ \A o, q \in worker.out : o = q
       /\ worker.plan \subseteq manifest.segs => EventsOf(worker.out) = EventsOf(worker.plan)

CompactionInv ==
  /\ TypeInv
  /\ ~damaged => Contents /\ Distinct /\ WorkerInv

-----------------------------------------------------------------------------
(* Contents *)

\* What the operators on segments and records do with unions and differences.
LEMMA EventsOfUnion ==
  ASSUME NEW S, NEW T
  PROVE  /\ EventsOf(S \cup T) = EventsOf(S) \cup EventsOf(T)
         /\ IdsOf(S \cup T) = IdsOf(S) \cup IdsOf(T)
         /\ OldIds(S \cup T) = OldIds(S) \cup OldIds(T)
BY DEF EventsOf, IdsOf, OldIds

\* The ids of fewer segments are fewer.
LEMMA SubsetIds ==
  ASSUME NEW S, NEW T, S \subseteq T
  PROVE  IdsOf(S) \subseteq IdsOf(T) /\ OldIds(S) \subseteq OldIds(T)
BY DEF IdsOf, OldIds

\* The ids in tombstone records are segment ids.
LEMMA OldIdsAreIds ==
  ASSUME NEW R, R \subseteq Recs
  PROVE  OldIds(R) \subseteq Ids
BY DEF OldIds, Recs

\* So are those of any set of segments.
LEMMA SegIdsAreIds ==
  ASSUME NEW T, T \subseteq Segs
  PROVE  IdsOf(T) \subseteq Ids
BY DEF IdsOf, Segs

\* A database without segments holds what was flushed: nothing.
LEMMA InitContents == Init => Contents /\ Distinct /\ WorkerInv
BY DEF Init, Contents, Distinct, WorkerInv, InUse, Replaced, IdsOf, OldIds, EventsOf, IdleWorker

\* A step that leaves the manifests and the files alone.
LEMMA SameDatabase ==
  ASSUME Contents, Distinct, UNCHANGED <<manifest, disk, files, flushed>>
  PROVE  Contents' /\ Distinct' /\ InUse' = InUse /\ Replaced' = Replaced
BY DEF Contents, Distinct, InUse, Replaced, IdsOf, OldIds, EventsOf

\* Flush: the new segment has a new id.
LEMMA FlushContents ==
  ASSUME TypeInv, Contents, Distinct, WorkerInv, NEW e \in Events, Flush(e)
  PROVE  Contents' /\ Distinct' /\ WorkerInv'
<1> DEFINE seg == [id |-> nextId, bucket |-> Bucket[e], evs |-> {e}]
<1>1. /\ manifest'.segs = manifest.segs \cup {seg}
      /\ manifest'.repl = manifest.repl
      /\ disk' = manifest'
      /\ files' = files \cup {nextId}
      /\ flushed' = flushed \cup {e}
      /\ worker' = worker
  BY DEF Flush, TypeInv, Manifests
<1>2. seg.id = nextId /\ seg.evs = {e}
  OBVIOUS
<1> HIDE DEF seg
<1>3. InUse' = InUse \cup {nextId} /\ Replaced' \subseteq Replaced
  BY <1>1, <1>2, EventsOfUnion DEF InUse, Replaced, IdsOf
<1>4. nextId \notin InUse /\ nextId \notin Replaced /\ nextId \notin files
  <2>1. nextId \notin Ids
    BY DEF TypeInv, Ids
  <2>2. InUse \subseteq Ids /\ Replaced \subseteq Ids
    BY SegIdsAreIds, OldIdsAreIds DEF InUse, Replaced, TypeInv, Manifests
  <2> QED
    BY <2>1, <2>2 DEF TypeInv
<1>5. EventsOf({seg}) = {e}
  BY <1>2 DEF EventsOf
<1>6. Contents'
  <2>1. EventsOf(manifest'.segs) = EventsOf(manifest.segs) \cup {e}
    <3>1. EventsOf(manifest.segs \cup {seg}) = EventsOf(manifest.segs) \cup EventsOf({seg})
      BY EventsOfUnion, Zenon
    <3> QED
      BY <1>1, <1>5, <3>1, Zenon
  <2>2. disk'.segs = manifest'.segs
    BY <1>1
  <2>3. InUse' \subseteq files'
    BY <1>1, <1>3 DEF Contents
  <2> QED
    BY <1>1, <2>1, <2>2, <2>3, Zenon DEF Contents
<1>7. Distinct'
  <2>1. \A s \in manifest.segs : s.id # nextId
    BY <1>4 DEF InUse, IdsOf
  <2> QED
    BY <1>1, <1>2, <1>3, <1>4, <2>1 DEF Distinct
<1>8. WorkerInv'
  <2>1. ASSUME worker.pc \in {"delete", "save"}
        PROVE  InUse' \cap OldIds(worker.doomed) = {}
    <3>1. OldIds(worker.doomed) \subseteq Ids
      BY OldIdsAreIds DEF TypeInv, Workers
    <3>2. nextId \notin Ids
      BY DEF TypeInv, Ids
    <3> QED
      BY <1>3, <2>1, <3>1, <3>2 DEF WorkerInv
  <2>2. ASSUME worker.pc = "swap", NEW o \in worker.out
        PROVE  o.id \in files' /\ o.id \notin InUse' /\ o.id \notin Replaced'
    <3>1. o.id # nextId
      BY DEF TypeInv, Workers, Segs, Ids
    <3> QED
      BY <1>1, <1>3, <2>2, <3>1 DEF WorkerInv
  <2>3. worker.plan \subseteq manifest'.segs => worker.plan \subseteq manifest.segs
    <3>1. \A s \in worker.plan : s.id # nextId
      BY DEF TypeInv, Workers, Segs, Ids
    <3> QED
      BY <1>1, <1>2, <3>1
  <2> QED
    BY <1>1, <2>1, <2>2, <2>3 DEF WorkerInv
<1> QED
  BY <1>6, <1>7, <1>8

\* The sweep: the files it deletes are not in use.
LEMMA SweepContents ==
  ASSUME TypeInv, Contents, Distinct, WorkerInv,
         SweepScan \/ SweepDelete \/ SweepSave \/ SweepSaveFails
  PROVE  Contents' /\ Distinct' /\ WorkerInv'
<1>1. CASE SweepScan
  <2>1. UNCHANGED <<manifest, disk, files, flushed>>
    BY <1>1 DEF SweepScan
  <2>2. worker'.pc \in {"plan", "delete"} /\ worker'.doomed = Expired(now)
    BY <1>1 DEF SweepScan, IdleWorker
  <2>3. OldIds(worker'.doomed) \subseteq Replaced
    BY <2>2, SubsetIds, Zenon DEF Expired, Replaced
  <2> QED
    BY <2>1, <2>2, <2>3, SameDatabase DEF WorkerInv, Distinct
<1>2. CASE SweepDelete
  <2>1. UNCHANGED <<manifest, disk, flushed>> /\ files \ OldIds(worker.doomed) \subseteq files'
    BY <1>2 DEF SweepDelete
  <2>2. InUse' = InUse /\ Replaced' = Replaced
    BY <2>1 DEF InUse, Replaced, IdsOf, OldIds
  <2>3. worker'.pc = "save" /\ worker'.doomed = worker.doomed /\ worker.pc = "delete"
    BY <1>2 DEF SweepDelete, TypeInv, Workers
  <2>4. InUse \cap OldIds(worker.doomed) = {}
    BY <2>3 DEF WorkerInv
  <2>5. Contents'
    BY <2>1, <2>2, <2>4 DEF Contents, EventsOf
  <2>6. Distinct'
    BY <2>1, <2>2 DEF Distinct
  <2>7. WorkerInv'
    BY <2>2, <2>3, <2>4 DEF WorkerInv
  <2> QED
    BY <2>5, <2>6, <2>7
<1>3. CASE SweepSave \/ SweepSaveFails
  <2>1. /\ manifest'.segs = manifest.segs /\ disk'.segs = disk.segs
        /\ manifest'.repl \subseteq manifest.repl /\ disk'.repl \subseteq manifest.repl \cup disk.repl
        /\ files' = files /\ flushed' = flushed /\ worker'.pc \in {"plan", "idle"}
    <3>1. CASE SweepSave
      BY <3>1 DEF SweepSave, TypeInv, Manifests, Workers, Contents
    <3>2. CASE SweepSaveFails
      <4>1. manifest'.segs = manifest.segs /\ manifest'.repl \subseteq manifest.repl
        BY <3>2 DEF SweepSaveFails, TypeInv, Manifests
      <4>2. disk' = disk \/ disk' = manifest'
        BY <3>2 DEF SweepSaveFails
      <4>3. worker'.pc = "idle" /\ files' = files /\ flushed' = flushed
        BY <3>2 DEF SweepSaveFails, IdleWorker
      <4> QED
        BY <4>1, <4>2, <4>3 DEF Contents
    <3> QED
      BY <1>3, <3>1, <3>2
  <2>2. InUse' = InUse /\ Replaced' \subseteq Replaced
    <3>1. OldIds(manifest'.repl) \subseteq Replaced /\ OldIds(disk'.repl) \subseteq Replaced
      <4>1. OldIds(manifest.repl \cup disk.repl) = Replaced
        BY EventsOfUnion, Zenon DEF Replaced
      <4>2. manifest'.repl \subseteq manifest.repl \cup disk.repl
        BY <2>1
      <4> QED
        BY <2>1, <4>1, <4>2, SubsetIds, Zenon
    <3> QED
      BY <2>1, <3>1 DEF InUse, Replaced, IdsOf
  <2>3. Contents'
    BY <2>1, <2>2 DEF Contents, EventsOf
  <2>4. Distinct'
    BY <2>1, <2>2 DEF Distinct
  <2>5. WorkerInv'
    BY <2>1 DEF WorkerInv
  <2> QED
    BY <2>3, <2>4, <2>5
<1> QED
  BY <1>1, <1>2, <1>3

\* The output of a merge has a new id and holds what its inputs hold.
LEMMA MergeContents ==
  ASSUME TypeInv, Contents, Distinct, WorkerInv, PlanCompaction \/ MergeInputs \/ MergeFails
  PROVE  Contents' /\ Distinct' /\ WorkerInv'
<1>1. worker.plans \in SUBSET (SUBSET Segs) /\ Plans \in SUBSET (SUBSET Segs)
  <2>1. manifest.segs \subseteq Segs /\ worker.plans \in SUBSET (SUBSET Segs)
    BY DEF TypeInv, Workers, Manifests
  <2>2. \A p \in Plans : p \subseteq manifest.segs
    BY ZenonT(40) DEF Plans
  <2>3. Plans \in SUBSET (SUBSET Segs)
    BY <2>1, <2>2, Zenon
  <2> QED
    BY <2>1, <2>3
<1>2. CASE PlanCompaction
  <2>1. UNCHANGED <<manifest, disk, files, flushed>>
    BY <1>2 DEF PlanCompaction
  <2>2. worker'.pc \in {"idle", "run"}
    BY <1>1, <1>2, RemainingType DEF PlanCompaction, TypeInv
  <2> QED
    BY <2>1, <2>2, SameDatabase DEF WorkerInv
<1>3. CASE MergeFails
  <2>1. UNCHANGED <<manifest, disk, files, flushed>>
    BY <1>3 DEF MergeFails
  <2>2. worker'.pc \in {"idle", "run"}
    <3>1. PICK p \in worker.plans : worker' = Remaining(worker.plans \ {p})
      BY <1>3 DEF MergeFails
    <3>2. worker.plans \ {p} \in SUBSET (SUBSET Segs)
      BY <1>1
    <3> QED
      BY <3>1, <3>2, RemainingType DEF TypeInv
  <2> QED
    BY <2>1, <2>2, SameDatabase DEF WorkerInv
<1>4. CASE MergeInputs
  <2> PICK p \in worker.plans :
         LET evs == EventsOf(Present(p))
             out == [id |-> nextId, bucket |-> (CHOOSE s \in p : TRUE).bucket, evs |-> evs]
         IN IF evs = {}
              THEN worker' = Remaining(worker.plans \ {p}) /\ UNCHANGED <<files, nextId>>
              ELSE /\ worker' = [worker EXCEPT !.pc = "swap", !.plans = @ \ {p}, !.plan = p, !.out = {out}]
                   /\ files' = files \cup {nextId}
                   /\ nextId' = nextId + 1
    BY <1>4, ZenonT(40) DEF MergeInputs
  <2>1. UNCHANGED <<manifest, disk, flushed>>
    BY <1>4, Zenon DEF MergeInputs
  <2>2. CASE EventsOf(Present(p)) = {}
    <3>1. files' = files /\ worker' = Remaining(worker.plans \ {p})
      BY <2>2
    <3>2. worker.plans \ {p} \in SUBSET (SUBSET Segs)
      BY <1>1
    <3>3. worker'.pc \in {"idle", "run"}
      BY <3>1, <3>2, RemainingType DEF TypeInv
    <3> QED
      BY <2>1, <3>1, <3>3, SameDatabase DEF WorkerInv
  <2>3. CASE EventsOf(Present(p)) # {}
    <3> DEFINE out == [id |-> nextId, bucket |-> (CHOOSE s \in p : TRUE).bucket, evs |-> EventsOf(Present(p))]
    <3>1. /\ files' = files \cup {nextId}
          /\ worker' = [worker EXCEPT !.pc = "swap", !.plans = @ \ {p}, !.plan = p, !.out = {out}]
      BY <2>3
    <3>2. out.id = nextId /\ out.evs = EventsOf(Present(p))
      OBVIOUS
    <3> HIDE DEF out
    <3>3. worker'.pc = "swap" /\ worker'.plan = p /\ worker'.out = {out}
      BY <3>1 DEF TypeInv, Workers
    <3>4. InUse' = InUse /\ Replaced' = Replaced
      BY <2>1 DEF InUse, Replaced, IdsOf, OldIds
    <3>5. nextId \notin Ids
      BY DEF TypeInv, Ids
    <3>6. InUse \subseteq Ids /\ Replaced \subseteq Ids /\ IdsOf(p) \subseteq Ids
      BY <1>1, SegIdsAreIds, OldIdsAreIds DEF InUse, Replaced, TypeInv, Manifests
    <3>7. p \subseteq manifest.segs => EventsOf({out}) = EventsOf(p)
      <4>1. EventsOf({out}) = EventsOf(Present(p))
        BY <3>2 DEF EventsOf
      <4>2. ASSUME p \subseteq manifest.segs PROVE Present(p) = p
        <5>1. \A s \in p : s.id \in InUse
          BY <4>2 DEF InUse, IdsOf
        <5> QED
          BY <5>1 DEF Present, Contents
      <4> QED
        BY <4>1, <4>2
    <3>8. Contents'
      <4>1. InUse' \subseteq files'
        BY <3>1, <3>4 DEF Contents
      <4> QED
        BY <2>1, <4>1 DEF Contents, EventsOf
    <3>9. Distinct'
      BY <2>1, <3>4 DEF Distinct
    <3>10. WorkerInv'
      <4>1. /\ out.id \in files' /\ out.id \notin InUse' /\ out.id \notin Replaced'
            /\ out.id \notin IdsOf(p)
        BY <3>1, <3>2, <3>4, <3>5, <3>6
      <4>2. manifest' = manifest
        BY <2>1
      <4> QED
        BY <3>3, <3>7, <4>1, <4>2 DEF WorkerInv
    <3> QED
      BY <3>8, <3>9, <3>10
  <2> QED
    BY <2>2, <2>3, ZenonT(40)
<1> QED
  BY <1>2, <1>3, <1>4

\* The swap: the inputs go, and the output brings their events.
LEMMA SwapContents ==
  ASSUME TypeInv, Contents, Distinct, WorkerInv, Swap
  PROVE  Contents' /\ Distinct' /\ WorkerInv'
<1>1. worker.pc = "swap" /\ flushed' = flushed
  BY DEF Swap
<1>2. worker'.pc \in {"idle", "run"}
  <2>1. worker.plans \in SUBSET (SUBSET Segs)
    BY DEF TypeInv, Workers
  <2> QED
    BY <2>1, RemainingType DEF Swap, TypeInv
<1>3. WorkerInv'
  BY <1>2 DEF WorkerInv
<1>4. CASE ~(worker.plan \subseteq manifest.segs)
  <2>1. UNCHANGED <<manifest, disk, flushed>> /\ files' = files \ IdsOf(worker.out)
    BY <1>4 DEF Swap
  <2>2. InUse' = InUse /\ Replaced' = Replaced
    BY <2>1 DEF InUse, Replaced, IdsOf, OldIds
  <2>3. InUse \cap IdsOf(worker.out) = {}
    BY <1>1 DEF WorkerInv, IdsOf
  <2>4. Contents'
    <3>1. InUse' \subseteq files'
      BY <2>1, <2>2, <2>3 DEF Contents
    <3> QED
      BY <2>1, <3>1 DEF Contents, EventsOf
  <2>5. Distinct'
    BY <2>1, <2>2 DEF Distinct
  <2> QED
    BY <1>3, <2>4, <2>5
<1>5. CASE worker.plan \subseteq manifest.segs
  <2> DEFINE kept == manifest.segs \ worker.plan
             record == [old |-> IdsOf(worker.plan), at |-> worker.now]
  <2>1. /\ manifest'.segs = kept \cup worker.out
        /\ manifest'.repl = manifest.repl \cup {record}
        /\ disk' = manifest'
        /\ files' = files
    BY <1>5, Zenon DEF Swap, Swapped, TypeInv, Manifests
  <2>2. record.old = IdsOf(worker.plan)
    OBVIOUS
  <2> HIDE DEF record
  <2>3. EventsOf(worker.out) = EventsOf(worker.plan)
    BY <1>1, <1>5 DEF WorkerInv
  <2>4. InUse' = IdsOf(kept) \cup IdsOf(worker.out)
    <3>1. IdsOf(kept \cup worker.out) = IdsOf(kept) \cup IdsOf(worker.out)
      BY EventsOfUnion, Zenon
    <3> QED
      BY <2>1, <3>1, Zenon DEF InUse
  <2>5. Contents'
    <3>1. EventsOf(manifest'.segs) = EventsOf(kept) \cup EventsOf(worker.plan)
      <4>1. EventsOf(kept \cup worker.out) = EventsOf(kept) \cup EventsOf(worker.out)
        BY EventsOfUnion, Zenon
      <4> QED
        BY <2>1, <2>3, <4>1, Zenon
    <3>2. kept \cup worker.plan = manifest.segs
      BY <1>5
    <3>3. EventsOf(kept) \cup EventsOf(worker.plan) = EventsOf(manifest.segs)
      <4>1. EventsOf(kept \cup worker.plan) = EventsOf(kept) \cup EventsOf(worker.plan)
        BY EventsOfUnion, Zenon
      <4> QED
        BY <3>2, <4>1, Zenon
    <3>4. IdsOf(kept) \subseteq files /\ IdsOf(worker.out) \subseteq files
      BY <1>1, SMTT(30) DEF Contents, WorkerInv, InUse, IdsOf
    <3>5. InUse' \subseteq files'
      BY <2>1, <2>4, <3>4, SMTT(30)
    <3>6. disk'.segs = manifest'.segs
      BY <2>1
    <3> QED
      BY <1>1, <3>1, <3>3, <3>5, <3>6 DEF Contents
  <2>6. Distinct'
    <3>1. \A s, t \in manifest'.segs : s.id = t.id => s = t
      <4>1. \A s \in kept, o \in worker.out : s.id # o.id
        BY <1>1 DEF WorkerInv, InUse, IdsOf
      <4>2. \A s, t \in kept : s.id = t.id => s = t
        BY DEF Distinct
      <4>3. \A o, q \in worker.out : o = q
        BY <1>1 DEF WorkerInv
      <4> HIDE DEF kept
      <4> QED
        BY <2>1, <4>1, <4>2, <4>3
    <3>2. Replaced' = OldIds(manifest.repl) \cup IdsOf(worker.plan)
      <4>1. OldIds({record}) = IdsOf(worker.plan)
        BY <2>2 DEF OldIds
      <4>2. OldIds(manifest.repl \cup {record}) = OldIds(manifest.repl) \cup OldIds({record})
        BY EventsOfUnion, Zenon
      <4> QED
        BY <2>1, <4>1, <4>2 DEF Replaced
    <3>3. IdsOf(kept) \cap IdsOf(worker.plan) = {}
      BY <1>5 DEF Distinct, IdsOf
    <3>4. IdsOf(kept) \subseteq InUse
      BY SubsetIds DEF InUse
    <3>5. IdsOf(worker.out) \cap Replaced = {} /\ IdsOf(worker.out) \cap IdsOf(worker.plan) = {}
      BY <1>1 DEF WorkerInv, IdsOf
    <3>6. OldIds(manifest.repl) \subseteq Replaced
      BY DEF Replaced
    <3>7. InUse' \cap Replaced' = {}
      <4> HIDE DEF kept
      <4> QED
        BY <2>4, <3>2, <3>3, <3>4, <3>5, <3>6 DEF Distinct
    <3> QED
      BY <3>1, <3>7 DEF Distinct
  <2> QED
    BY <1>3, <2>5, <2>6
<1> QED
  BY <1>4, <1>5

\* A restart goes back to the manifest on disk, which has the same segments.
LEMMA RestartContents ==
  ASSUME TypeInv, Contents, Distinct, Restart
  PROVE  Contents' /\ Distinct' /\ WorkerInv'
<1>1. manifest' = disk /\ disk' = disk /\ files' = files /\ flushed' = flushed /\ worker'.pc = "idle"
  BY DEF Restart, IdleWorker
<1>2. InUse' = InUse /\ Replaced' \subseteq Replaced
  BY <1>1 DEF Contents, InUse, Replaced, IdsOf, OldIds
<1>3. Contents'
  BY <1>1, <1>2 DEF Contents, EventsOf
<1>4. Distinct'
  BY <1>1, <1>2 DEF Distinct, Contents
<1>5. WorkerInv'
  BY <1>1 DEF WorkerInv
<1> QED
  BY <1>3, <1>4, <1>5

\* One step of Next, action by action.
LEMMA StepInv == CompactionInv /\ [Next]_vars => CompactionInv'
<1> SUFFICES ASSUME CompactionInv, [Next]_vars PROVE CompactionInv'
  OBVIOUS
<1>1. TypeInv /\ TypeInv'
  BY StepType DEF CompactionInv
<1>2. SUFFICES ASSUME ~damaged' PROVE Contents' /\ Distinct' /\ WorkerInv'
  BY <1>1, Zenon DEF CompactionInv
<1>3. CASE SwapSaveFails
  BY <1>2, <1>3 DEF SwapSaveFails
<1>4. ~SwapSaveFails => damaged' = damaged
  BY Zenon DEF Next, Tick, vars, TimePasses, Flush, SweepScan, SweepDelete, SweepSave, PlanCompaction,
     MergeInputs, Swap, SweepSaveFails, MergeFails, ReadStart, ReadFile, ReadEnd, Restart
<1>5. CASE ~SwapSaveFails
  <2>1. ~damaged
    BY <1>2, <1>4, <1>5, Zenon
  <2>2. Contents /\ Distinct /\ WorkerInv
    BY <2>1, Zenon DEF CompactionInv
  <2>3. CASE TimePasses \/ ReadStart \/ ReadFile \/ ReadEnd \/ UNCHANGED vars
    <3>1. UNCHANGED <<manifest, disk, files, flushed, worker>>
      BY <2>3, Zenon DEF TimePasses, ReadStart, ReadFile, ReadEnd, vars
    <3> QED
      BY <2>2, <3>1, SameDatabase DEF WorkerInv, IdsOf, EventsOf, OldIds
  <2>4. CASE \E e \in Events : Flush(e)
    BY <1>1, <2>2, <2>4, FlushContents
  <2>5. CASE SweepScan \/ SweepDelete \/ SweepSave \/ SweepSaveFails
    BY <1>1, <2>2, <2>5, SweepContents
  <2>6. CASE PlanCompaction \/ MergeInputs \/ MergeFails
    BY <1>1, <2>2, <2>6, MergeContents
  <2>7. CASE Swap
    BY <1>1, <2>2, <2>7, SwapContents
  <2>8. CASE Restart
    BY <1>1, <2>2, <2>8, RestartContents
  <2> QED
    BY <1>5, <2>3, <2>4, <2>5, <2>6, <2>7, <2>8, Zenon DEF Next, Tick
<1> QED
  BY <1>3, <1>5

\* The invariant holds always.
THEOREM Invariance == Spec => []CompactionInv
<1>1. Init => CompactionInv
  BY InitType, InitContents DEF CompactionInv
<1> QED
  BY <1>1, StepInv, PTL DEF Spec

\* Compaction, its sweep, crashes between its steps and flushes in between keep
\* the contents: the segments in memory and those a restart loads have their
\* files and hold exactly the flushed events (run_one_plan,
\* sweep_pending_deletions), for any number of them.
THEOREM ContentIsPreserved == Spec => []ContentPreserved
<1>1. CompactionInv => ContentPreserved
  <2> SUFFICES ASSUME CompactionInv, ~damaged, NEW m \in {manifest, disk}
               PROVE  IdsOf(m.segs) \subseteq files /\ EventsOf(m.segs) = flushed
    BY Zenon DEF ContentPreserved
  <2>1. Contents
    BY Zenon DEF CompactionInv
  <2> QED
    BY <2>1 DEF Contents, InUse
<1> QED
  BY <1>1, Invariance, PTL

-----------------------------------------------------------------------------
(***************************************************************************)
(* A reader that is done within the grace window misses nothing, for every *)
(* window and any number of flushes, swaps, sweeps, crashes and failures.  *)
(*                                                                         *)
(* The invariant says what the window buys: while it is open, the files    *)
(* that the reader has still to open exist, because every record that      *)
(* names one of them is at least as young as the reader, so that no sweep  *)
(* has collected it.                                                       *)
(***************************************************************************)

\* The worker and the reader took their times from the clock.
Clocks == worker.now <= now /\ reader.since <= now

\* The reader's grace window is open.
Reading == reader.pc = "read" /\ now - reader.since < Grace

\* What the reader still has to open is on disk and stays there.
Safe ==
  /\ reader.owed \subseteq reader.seen \cup EventsOf(reader.todo)
  /\ IdsOf(reader.todo) \subseteq files
  /\ \A r \in manifest.repl : r.old \cap IdsOf(reader.todo) # {} => reader.since <= r.at
  /\ worker.pc # "idle" => reader.since <= worker.now
  /\ worker.pc \in {"delete", "save"} => OldIds(worker.doomed) \cap IdsOf(reader.todo) = {}
  /\ worker.pc = "swap" => IdsOf(worker.out) \cap IdsOf(reader.todo) = {}

ReaderInv == (Reading => Safe) /\ reader.missed = {}

\* The inductive invariant: ids that occur were handed out, no id in use is to be
\* deleted, the output of a merge stands for its inputs, and a reader within the
\* grace window finds its files (run_one_plan, sweep_pending_deletions).
GraceInv ==
  /\ CompactionInv
  /\ Clocks
  /\ ~damaged => ReaderInv

-----------------------------------------------------------------------------

\* The worker that goes on with its plans keeps the time its tick began.
LEMMA RemainingNow ==
  ASSUME TypeInv, NEW plans
  PROVE  /\ Remaining(plans).pc \in {"idle", "run"}
         /\ Remaining(plans).pc = "run" => Remaining(plans).now = worker.now
         /\ Remaining(plans).now \in {0, worker.now}
<1>1. CASE plans = {}
  BY <1>1 DEF Remaining, IdleWorker
<1>2. CASE plans # {}
  BY <1>2 DEF Remaining, TypeInv, Workers
<1> QED
  BY <1>1, <1>2

\* The clocks only move forward.
LEMMA StepClocks ==
  ASSUME TypeInv, Clocks, [Next]_vars
  PROVE  Clocks' /\ (now' = now \/ now' = now + 1)
<1> USE DEF Clocks
<1>0. now \in Nat /\ worker.now \in Nat /\ reader.since \in Nat
  BY DEF TypeInv, Workers, Readers
<1>1. CASE TimePasses
  BY <1>0, <1>1 DEF TimePasses
<1>2. CASE \E e \in Events : Flush(e)
  BY <1>0, <1>2 DEF Flush
<1>3. CASE SweepScan
  <2>1. worker'.now = now /\ UNCHANGED <<now, reader>>
    BY <1>3 DEF SweepScan, IdleWorker
  <2> QED
    BY <1>0, <2>1
<1>4. CASE SweepDelete \/ SweepSave
  <2>1. worker'.now = worker.now /\ UNCHANGED <<now, reader>>
    BY <1>4, Zenon DEF SweepDelete, SweepSave, TypeInv, Workers
  <2> QED
    BY <1>0, <2>1
<1>5. CASE SweepSaveFails
  BY <1>0, <1>5 DEF SweepSaveFails, IdleWorker
<1>6. CASE PlanCompaction \/ MergeFails \/ Swap \/ SwapSaveFails
  <2>1. (\E plans : worker' = Remaining(plans)) /\ UNCHANGED <<now, reader>>
    BY <1>6, Zenon DEF PlanCompaction, MergeFails, Swap, SwapSaveFails
  <2>2. PICK plans : worker' = Remaining(plans)
    BY <2>1
  <2>3. worker'.now \in {0, worker.now}
    BY <2>2, RemainingNow
  <2> QED
    BY <1>0, <2>1, <2>3
<1>7. CASE MergeInputs
  <2>1. UNCHANGED <<now, reader>>
    BY <1>7 DEF MergeInputs
  <2>2. worker'.now \in {0, worker.now}
    <3> PICK p \in worker.plans :
           \/ worker' = Remaining(worker.plans \ {p})
           \/ \E out : worker' = [worker EXCEPT !.pc = "swap", !.plans = @ \ {p}, !.plan = p, !.out = {out}]
      BY <1>7, Zenon DEF MergeInputs
    <3>1. CASE worker' = Remaining(worker.plans \ {p})
      BY <3>1, RemainingNow
    <3>2. CASE \E out : worker' = [worker EXCEPT !.pc = "swap", !.plans = @ \ {p}, !.plan = p, !.out = {out}]
      BY <3>2 DEF TypeInv, Workers
    <3> QED
      BY <3>1, <3>2, Zenon
  <2> QED
    BY <1>0, <2>1, <2>2
<1>8. CASE ReadStart
  <2>1. reader'.since \in {now, worker.now} /\ UNCHANGED <<now, worker>>
    BY <1>8 DEF ReadStart
  <2> QED
    BY <1>0, <2>1
<1>9. CASE ReadFile
  <2>1. reader'.since = reader.since /\ UNCHANGED <<now, worker>>
    BY <1>9 DEF ReadFile, TypeInv, Readers
  <2> QED
    BY <1>0, <2>1
<1>10. CASE ReadEnd
  <2>1. reader'.since = 0 /\ UNCHANGED <<now, worker>>
    BY <1>10 DEF ReadEnd, IdleReader
  <2> QED
    BY <1>0, <2>1
<1>11. CASE Restart
  BY <1>0, <1>11 DEF Restart, IdleWorker, IdleReader
<1>12. CASE UNCHANGED vars
  BY <1>12 DEF vars
<1> QED
  BY <1>1, <1>2, <1>3, <1>4, <1>5, <1>6, <1>7, <1>8, <1>9, <1>10, <1>11, <1>12, Zenon DEF Next, Tick

\* A step that does not move the reader opens no window.
LEMMA WindowCloses ==
  ASSUME TypeInv, reader' = reader, now' = now \/ now' = now + 1, Reading'
  PROVE  Reading
<1>1. now \in Nat /\ reader.since \in Nat /\ Grace \in Nat
  BY CompactionAssumption DEF TypeInv, Readers
<1> QED
  BY <1>1 DEF Reading

-----------------------------------------------------------------------------
(* The steps of the worker and the flusher while a reader reads *)

\* Flush and the clock add files and change no record.
LEMMA FlushSafe ==
  ASSUME TypeInv, Safe, TimePasses \/ (\E e \in Events : Flush(e)) \/ UNCHANGED vars
  PROVE  Safe'
<1>1. /\ files \subseteq files'
      /\ worker' = worker /\ reader' = reader
      /\ manifest'.repl = manifest.repl
  <2>1. CASE TimePasses \/ UNCHANGED vars
    BY <2>1 DEF TimePasses, vars
  <2>2. CASE \E e \in Events : Flush(e)
    BY <2>2 DEF Flush, TypeInv, Manifests
  <2> QED
    BY <2>1, <2>2
<1>2. IdsOf(reader'.todo) = IdsOf(reader.todo)
  BY <1>1
<1> QED
  BY <1>1, <1>2 DEF Safe, IdsOf, EventsOf, OldIds

\* The sweep collects only records older than the reader.
LEMMA SweepSafe ==
  ASSUME TypeInv, Reading, Clocks, Safe, SweepScan \/ SweepDelete \/ SweepSave \/ SweepSaveFails
  PROVE  Safe'
<1>0. /\ now \in Nat /\ reader.since \in Nat /\ Grace \in Nat /\ worker.now \in Nat
      /\ \A r \in manifest.repl : r.at \in Nat
  BY CompactionAssumption DEF TypeInv, Readers, Workers, Manifests, Recs
<1>1. reader' = reader /\ EventsOf(reader'.todo) = EventsOf(reader.todo)
      /\ IdsOf(reader'.todo) = IdsOf(reader.todo)
  BY DEF SweepScan, SweepDelete, SweepSave, SweepSaveFails, EventsOf, IdsOf
<1>2. CASE SweepScan
  <2>1. /\ UNCHANGED <<files, manifest>>
        /\ worker'.now = now
        /\ worker'.doomed = Expired(now)
        /\ worker'.pc \in {"plan", "delete"}
    BY <1>2 DEF SweepScan, IdleWorker
  <2>2. \A r \in Expired(now) : r \in manifest.repl /\ r.at <= now - Grace
    BY DEF Expired
  <2>3. \A r \in Expired(now) : r.old \cap IdsOf(reader.todo) = {}
    BY <1>0, <2>2 DEF Safe, Reading
  <2>4. OldIds(worker'.doomed) \cap IdsOf(reader.todo) = {}
    BY <2>1, <2>3 DEF OldIds
  <2>5. reader.since <= worker'.now
    BY <2>1 DEF Clocks
  <2> QED
    BY <1>1, <2>1, <2>4, <2>5 DEF Safe
<1>3. CASE SweepDelete
  <2>1. /\ UNCHANGED manifest
        /\ files \ OldIds(worker.doomed) \subseteq files'
        /\ worker.pc = "delete" /\ worker'.pc = "save"
        /\ worker'.now = worker.now /\ worker'.doomed = worker.doomed
    BY <1>3 DEF SweepDelete, TypeInv, Workers
  <2>2. IdsOf(reader.todo) \subseteq files'
    BY <2>1 DEF Safe
  <2> QED
    BY <1>1, <2>1, <2>2 DEF Safe
<1>4. CASE SweepSave \/ SweepSaveFails
  <2>1. /\ files' = files
        /\ manifest'.repl \subseteq manifest.repl
        /\ worker.pc = "save"
    BY <1>4 DEF SweepSave, SweepSaveFails, TypeInv, Manifests
  <2>2. \/ worker'.pc = "idle"
        \/ worker'.pc = "plan" /\ worker'.now = worker.now
    <3>1. CASE SweepSave
      BY <3>1 DEF SweepSave, TypeInv, Workers
    <3>2. CASE SweepSaveFails
      <4>1. worker' = IdleWorker
        BY <3>2, Zenon DEF SweepSaveFails
      <4> QED
        BY <4>1 DEF IdleWorker
    <3> QED
      BY <1>4, <3>1, <3>2
  <2>3. worker'.pc # "idle" => reader.since <= worker'.now
    BY <2>1, <2>2 DEF Safe
  <2>4. worker'.pc \notin {"delete", "save", "swap"}
    BY <2>2
  <2> QED
    BY <1>1, <2>1, <2>3, <2>4 DEF Safe
<1> QED
  BY <1>2, <1>3, <1>4

\* A merge writes a file the reader does not know.
LEMMA MergeSafe ==
  ASSUME TypeInv, Safe, PlanCompaction \/ MergeInputs \/ MergeFails
  PROVE  Safe'
<1>1. /\ reader' = reader /\ manifest' = manifest
      /\ worker.pc # "idle"
      /\ EventsOf(reader'.todo) = EventsOf(reader.todo)
      /\ IdsOf(reader'.todo) = IdsOf(reader.todo)
  BY Zenon DEF PlanCompaction, MergeInputs, MergeFails, EventsOf, IdsOf
<1>2. CASE files' = files /\ \E plans : worker' = Remaining(plans)
  <2>1. worker'.pc \in {"idle", "run"} /\ (worker'.pc = "run" => worker'.now = worker.now)
    BY <1>2, RemainingNow
  <2> QED
    BY <1>1, <1>2, <2>1 DEF Safe
<1>3. CASE PlanCompaction \/ MergeFails
  <2>1. files' = files /\ \E plans : worker' = Remaining(plans)
    BY <1>3, Zenon DEF PlanCompaction, MergeFails
  <2> QED
    BY <1>2, <2>1
<1>4. CASE MergeInputs
  <2> PICK p \in worker.plans :
         LET evs == EventsOf(Present(p))
             out == [id |-> nextId, bucket |-> (CHOOSE s \in p : TRUE).bucket, evs |-> evs]
         IN IF evs = {}
              THEN worker' = Remaining(worker.plans \ {p}) /\ UNCHANGED <<files, nextId>>
              ELSE /\ worker' = [worker EXCEPT !.pc = "swap", !.plans = @ \ {p}, !.plan = p, !.out = {out}]
                   /\ files' = files \cup {nextId}
                   /\ nextId' = nextId + 1
    BY <1>4, Zenon DEF MergeInputs
  <2>1. CASE EventsOf(Present(p)) = {}
    BY <1>2, <2>1
  <2>2. CASE EventsOf(Present(p)) # {}
    <3> DEFINE out == [id |-> nextId, bucket |-> (CHOOSE s \in p : TRUE).bucket, evs |-> EventsOf(Present(p))]
    <3>1. /\ files' = files \cup {nextId}
          /\ worker' = [worker EXCEPT !.pc = "swap", !.plans = @ \ {p}, !.plan = p, !.out = {out}]
      BY <2>2
    <3>2. out.id = nextId
      OBVIOUS
    <3> HIDE DEF out
    <3>3. worker'.pc = "swap" /\ worker'.now = worker.now /\ IdsOf(worker'.out) = {nextId}
      BY <3>1, <3>2 DEF TypeInv, Workers, IdsOf
    <3>4. nextId \notin IdsOf(reader.todo)
      <4>1. IdsOf(reader.todo) \subseteq Ids
        BY SegIdsAreIds DEF TypeInv, Readers
      <4> QED
        BY <4>1 DEF TypeInv, Ids
    <3> QED
      BY <1>1, <3>1, <3>3, <3>4, Zenon DEF Safe
  <2> QED
    BY <2>1, <2>2, ZenonT(40)
<1> QED
  BY <1>3, <1>4, ZenonT(40)

\* The record of a swap is as young as the tick, and the tick as the reader.
LEMMA SwapSafe ==
  ASSUME TypeInv, Safe, Swap
  PROVE  Safe'
<1>1. /\ reader' = reader /\ worker.pc = "swap"
      /\ EventsOf(reader'.todo) = EventsOf(reader.todo)
      /\ IdsOf(reader'.todo) = IdsOf(reader.todo)
  BY DEF Swap, EventsOf, IdsOf
<1>2. worker'.pc \in {"idle", "run"} /\ (worker'.pc = "run" => worker'.now = worker.now)
  BY RemainingNow DEF Swap
<1>3. CASE worker.plan \subseteq manifest.segs
  <2> DEFINE record == [old |-> IdsOf(worker.plan), at |-> worker.now]
  <2>1. files' = files /\ manifest'.repl = manifest.repl \cup {record}
    BY <1>3, Zenon DEF Swap, Swapped, TypeInv, Manifests
  <2>2. record.at = worker.now
    OBVIOUS
  <2> HIDE DEF record
  <2>3. \A r \in manifest'.repl : r.old \cap IdsOf(reader.todo) # {} => reader.since <= r.at
    BY <1>1, <2>1, <2>2 DEF Safe
  <2> QED
    BY <1>1, <1>2, <2>1, <2>3 DEF Safe
<1>4. CASE ~(worker.plan \subseteq manifest.segs)
  <2>1. manifest' = manifest /\ files' = files \ IdsOf(worker.out)
    BY <1>4 DEF Swap
  <2>2. IdsOf(reader.todo) \subseteq files'
    BY <1>1, <2>1 DEF Safe
  <2> QED
    BY <1>1, <1>2, <2>1, <2>2 DEF Safe
<1> QED
  BY <1>3, <1>4

-----------------------------------------------------------------------------
(* The steps of the reader *)

\* A reader starts with segments that no record names.
LEMMA StartSafe ==
  ASSUME TypeInv, Clocks, Contents, Distinct, WorkerInv, reader.missed = {}, ReadStart
  PROVE  Safe' /\ reader'.missed = {}
<1>1. /\ UNCHANGED <<manifest, disk, files, worker, now>>
      /\ reader'.todo = manifest.segs /\ reader'.seen = {} /\ reader'.owed = flushed
      /\ reader'.missed = {}
      /\ worker.pc # "idle" => reader'.since = worker.now
  BY DEF ReadStart
<1>2. worker.pc # "idle" => reader'.since <= worker'.now
  <2>1. worker.now \in Nat
    BY DEF TypeInv, Workers
  <2> QED
    BY <1>1, <2>1
<1>3. IdsOf(reader'.todo) = InUse /\ EventsOf(reader'.todo) = flushed
  BY <1>1 DEF InUse, Contents
<1>4. \A r \in manifest.repl : r.old \cap InUse = {}
  BY DEF Distinct, Replaced, OldIds
<1>5. worker.pc = "swap" => IdsOf(worker.out) \cap InUse = {}
  BY DEF WorkerInv, IdsOf
<1>6. Safe'
  BY <1>1, <1>2, <1>3, <1>4, <1>5 DEF Safe, Contents, WorkerInv
<1> QED
  BY <1>1, <1>6

\* The file it opens is there.
LEMMA ReadSafe ==
  ASSUME TypeInv, Safe, ReadFile
  PROVE  Safe'
<1> PICK s \in reader.todo :
       reader' = [reader EXCEPT !.todo = @ \ {s}, !.seen = @ \cup EventsOf(Present({s}))]
  BY DEF ReadFile
<1>1. /\ UNCHANGED <<manifest, files, worker>>
      /\ reader'.todo = reader.todo \ {s} /\ reader'.owed = reader.owed
      /\ reader'.seen = reader.seen \cup EventsOf(Present({s}))
      /\ reader'.since = reader.since
  BY Zenon DEF ReadFile, TypeInv, Readers
<1>2. EventsOf(Present({s})) = s.evs
  <2>1. s.id \in files
    BY DEF Safe, IdsOf
  <2> QED
    BY <2>1 DEF EventsOf, Present
<1>3. EventsOf(reader.todo) = s.evs \cup EventsOf(reader'.todo)
  BY <1>1 DEF EventsOf
<1>4. IdsOf(reader'.todo) \subseteq IdsOf(reader.todo)
  BY <1>1, SubsetIds
<1> QED
  BY <1>1, <1>2, <1>3, <1>4, SMTT(30) DEF Safe

\* It ends, or a crash ends it.
LEMMA EndComplete ==
  ASSUME TypeInv, Reading => Safe, reader.missed = {}, ReadEnd \/ Restart
  PROVE  ~Reading' /\ reader'.missed = {}
<1>1. CASE Restart
  BY <1>1 DEF Restart, IdleReader, Reading
<1>2. CASE ReadEnd
  <2>1. /\ reader'.pc = "idle"
        /\ reader'.missed = IF now - reader.since < Grace THEN reader.owed \ reader.seen ELSE {}
    BY <1>2 DEF ReadEnd, IdleReader
  <2>2. ASSUME now - reader.since < Grace PROVE reader.owed \subseteq reader.seen
    <3>1. Safe /\ reader.todo = {}
      BY <1>2, <2>2 DEF ReadEnd, Reading
    <3> QED
      BY <3>1 DEF Safe, EventsOf
  <2> QED
    BY <2>1, <2>2 DEF Reading
<1> QED
  BY <1>1, <1>2

-----------------------------------------------------------------------------

\* Every step of ticks, flushes, readers and restarts preserves the grace invariant.
LEMMA StepGrace == GraceInv /\ [Next]_vars => GraceInv'
<1> SUFFICES ASSUME GraceInv, [Next]_vars PROVE GraceInv'
  OBVIOUS
<1>1. TypeInv /\ Clocks /\ CompactionInv'
  BY StepInv, Zenon DEF GraceInv, CompactionInv
<1>2. Clocks' /\ (now' = now \/ now' = now + 1)
  BY <1>1, StepClocks
<1>3. SUFFICES ASSUME ~damaged' PROVE ReaderInv'
  BY <1>1, <1>2, Zenon DEF GraceInv
<1>4. CASE SwapSaveFails
  BY <1>3, <1>4 DEF SwapSaveFails
<1>5. CASE ~SwapSaveFails
  <2>1. damaged' = damaged
    BY <1>5, Zenon DEF Next, Tick, vars, TimePasses, Flush, SweepScan, SweepDelete, SweepSave,
       PlanCompaction, MergeInputs, Swap, SweepSaveFails, MergeFails, ReadStart, ReadFile, ReadEnd, Restart
  <2>2. Contents /\ Distinct /\ WorkerInv /\ (Reading => Safe) /\ reader.missed = {}
    BY <1>3, <2>1, Zenon DEF GraceInv, CompactionInv, ReaderInv
  <2>3. CASE TimePasses \/ (\E e \in Events : Flush(e)) \/ UNCHANGED vars
    <3>1. reader' = reader
      BY <2>3, Zenon DEF TimePasses, Flush, vars
    <3> QED
      BY <1>1, <1>2, <2>2, <2>3, <3>1, WindowCloses, FlushSafe DEF ReaderInv
  <2>4. CASE SweepScan \/ SweepDelete \/ SweepSave \/ SweepSaveFails
    <3>1. reader' = reader
      BY <2>4, Zenon DEF SweepScan, SweepDelete, SweepSave, SweepSaveFails
    <3> QED
      BY <1>1, <1>2, <2>2, <2>4, <3>1, WindowCloses, SweepSafe DEF ReaderInv
  <2>5. CASE PlanCompaction \/ MergeInputs \/ MergeFails
    <3>1. reader' = reader
      BY <2>5, Zenon DEF PlanCompaction, MergeInputs, MergeFails
    <3> QED
      BY <1>1, <1>2, <2>2, <2>5, <3>1, WindowCloses, MergeSafe DEF ReaderInv
  <2>6. CASE Swap
    <3>1. reader' = reader
      BY <2>6, Zenon DEF Swap
    <3> QED
      BY <1>1, <1>2, <2>2, <2>6, <3>1, WindowCloses, SwapSafe DEF ReaderInv
  <2>7. CASE ReadStart
    BY <1>1, <2>2, <2>7, StartSafe DEF ReaderInv
  <2>8. CASE ReadFile
    <3>1. reader'.missed = reader.missed /\ (Reading' => Reading)
      BY <2>8 DEF ReadFile, TypeInv, Readers, Reading
    <3> QED
      BY <1>1, <2>2, <2>8, <3>1, ReadSafe DEF ReaderInv
  <2>9. CASE ReadEnd \/ Restart
    BY <1>1, <2>2, <2>9, EndComplete DEF ReaderInv
  <2> QED
    BY <1>5, <2>3, <2>4, <2>5, <2>6, <2>7, <2>8, <2>9, Zenon DEF Next, Tick
<1> QED
  BY <1>4, <1>5

\* The grace invariant holds in every reachable state: segments hold what was
\* flushed, the worker's bookkeeping agrees with the manifest, and every file
\* the reader still has to open outlives its window.
THEOREM GraceInvariant == Spec => []GraceInv
<1>1. Init => Clocks /\ ReaderInv
  <2> SUFFICES ASSUME Init PROVE Clocks /\ ReaderInv
    OBVIOUS
  <2>1. now = Start /\ worker.now = 0 /\ reader.since = 0 /\ reader.pc = "idle" /\ reader.missed = {}
    BY DEF Init, IdleWorker, IdleReader
  <2> QED
    BY <2>1, CompactionAssumption DEF Clocks, ReaderInv, Reading
<1>2. Init => CompactionInv
  BY InitType, InitContents DEF CompactionInv
<1>3. Init => GraceInv
  BY <1>1, <1>2, Zenon DEF GraceInv
<1> QED
  BY <1>3, StepGrace, PTL DEF Spec

\* A reader that opens its last file within the grace window, counted from the
\* start of the tick that was running when it began, finds every segment of the
\* list it copied (sweep_pending_deletions, run_one_plan), whatever the window
\* and however flushes, swaps, sweeps, failures and crashes fall in between.
THEOREM ReaderIsComplete == Spec => []ReaderComplete
<1>1. GraceInv => ReaderComplete
  BY Zenon DEF GraceInv, ReaderInv, ReaderComplete
<1> QED
  BY <1>1, GraceInvariant, PTL

=============================================================================
