---------------------------- MODULE ManifestProofs ----------------------------
(***************************************************************************)
(* What the manifest store promises after any number of saves, failed      *)
(* saves, crashes and corrupted files, for every KEEP_GENERATIONS.         *)
(***************************************************************************)
EXTENDS ManifestStore, FiniteSetTheorems, TLAPS

Numbers == 0..(MaxVersion + 1)
Stages == {"down", "failed", "idle", "gen", "current", "sync", "prune", "wal"}
Running == pc \notin {"down", "failed"}

\* The values the variables take.  A file is never numbered past the versions
\* produced so far, so a save always finds its next generation in the range.
TypeOK ==
  /\ gens \in [Generations -> Contents] /\ syncedGens \in [Generations -> Contents]
  /\ current \in Numbers /\ syncedCurrent \in Numbers /\ generation \in Numbers
  /\ legacy \in {0, Absent, Corrupt}
  /\ pc \in Stages
  /\ version \in Versions /\ committed \in Versions /\ attempted \in Versions
  /\ migrating \in BOOLEAN /\ unpruned \in BOOLEAN
  /\ saves \in Nat /\ corruptions \in Nat
  /\ walDeleted \in Versions

\* Versions and generation numbers are handed out in order.
NumbersInv ==
  /\ \A g \in Generations : gens[g] # Absent \/ syncedGens[g] # Absent => g <= attempted + 1
  /\ current <= attempted + 1 /\ syncedCurrent <= attempted + 1 /\ generation <= attempted + 1
  /\ pc \in Saving => NextGen <= attempted + 1
  /\ version <= attempted /\ committed <= attempted
  /\ \A g \in Generations : gens[g] <= attempted /\ syncedGens[g] <= attempted

\* The stages of a save.
SaveInv ==
  /\ pc \in {"current", "sync"} => gens[NextGen] = version
  /\ pc = "sync" => current = NextGen
  /\ pc \in Saving /\ ~migrating => version = attempted
  /\ pc \in {"down", "failed", "idle", "wal"} => ~migrating
  /\ saves = 0 => committed = 0 /\ pc \notin {"prune", "wal"}
  /\ saves > 0 => current > 0 /\ syncedCurrent > 0
  /\ migrating => version = 0 /\ current <= 1 /\ legacy # Absent
  /\ migrating /\ pc # "prune" => saves = 0 /\ generation = 0
  /\ pc = "failed" /\ current = 0 => legacy = Corrupt

\* What a save that returned Ok leaves on disk, through crashes and corruption:
\* only the next generation's file and files the prune gives up can differ from
\* what was synced, and CURRENT is never behind.
SyncedInv ==
  saves > 0 =>
    /\ \A g \in Generations : gens[g] # syncedGens[g] =>
         g = generation + 1 \/ g <= generation - KeepGenerations
    /\ generation > 0
    /\ generation <= current /\ generation <= syncedCurrent
    /\ ~Running => gens = syncedGens /\ current = syncedCurrent
    /\ \A g \in Generations : generation + 1 < g /\ (g <= current \/ g <= syncedCurrent) => gens[g] \notin Versions

\* The generations the store retains after the saves so far.
Retained == IF saves < KeepGenerations THEN saves ELSE KeepGenerations
Window == {g \in Generations : generation - Retained < g /\ g <= generation /\ gens[g] \in Versions}
WindowInv ==
  /\ saves > 0 => Cardinality(Window) + corruptions >= Retained
  /\ pc = "failed" => Loadable = {}

\* After a prune that removed all it meant to remove.
PruneInv ==
  pc = "wal" /\ ~unpruned =>
    \A g \in Files : g <= generation => g > generation - KeepGenerations

\* Without corruption the loaded generation is never older than the last one
\* whose save returned Ok, and nothing older is above it.
NewestInv ==
  corruptions = 0 /\ saves > 0 =>
    /\ gens[generation] \in Versions
    /\ \A g \in Generations : g >= generation =>
         /\ gens[g] \in Versions => gens[g] >= committed
         /\ syncedGens[g] \in Versions => syncedGens[g] >= committed
    /\ \A g \in Generations : g > generation + 1 => gens[g] = Absent /\ syncedGens[g] = Absent
    /\ Running => version >= committed

\* Before the first save returns Ok: the files a crash or a failed save left.
FirstInv ==
  corruptions = 0 /\ saves = 0 =>
    /\ \A g \in Generations : gens[g] # Absent \/ syncedGens[g] # Absent =>
         g <= generation + 1 \/ (g = 2 /\ generation = 0 /\ legacy # Absent)
    /\ Running /\ generation = 0 /\ legacy # Absent => migrating
    /\ \/ generation = 0
       \/ generation = 1 /\ legacy # Absent
       \/ /\ gens[generation] \in Versions /\ syncedGens[generation] = gens[generation]
          /\ generation <= current /\ generation <= syncedCurrent
    /\ \A g \in Generations : gens[g] # Corrupt /\ syncedGens[g] # Corrupt
    /\ pc = "down" => \/ gens = syncedGens /\ current = syncedCurrent
                      \/ legacy # Absent /\ current <= 1

\* CURRENT does not parse, and will not after a restart: nothing starts again.
CurrentLost == current = Corrupt /\ syncedCurrent = Corrupt /\ ~Running

\* While CURRENT parses, the conjunction of the above; every step preserves it.
ManifestInv ==
  \/ CurrentLost
  \/ /\ TypeOK
     /\ NumbersInv
     /\ SaveInv
     /\ SyncedInv
     /\ WindowInv
     /\ PruneInv
     /\ NewestInv
     /\ FirstInv

-----------------------------------------------------------------------------
(* Types and numbers *)

USE ManifestAssumption

\* What the operators on numbers are.
LEMMA Ranges ==
  /\ \A g : g \in Generations <=> g \in Int /\ 1 <= g /\ g <= MaxVersion + 1
  /\ \A g : g \in Numbers <=> g \in Int /\ 0 <= g /\ g <= MaxVersion + 1
  /\ \A v : v \in Versions <=> v \in Int /\ 0 <= v /\ v <= MaxVersion
  /\ \A v : v \in Contents <=> v \in Versions \/ v = Absent \/ v = Corrupt
  /\ Absent = -1 /\ Corrupt = -2 /\ MaxVersion \in Nat \ {0}
  /\ \A v \in Contents : v \in Int
  BY DEF Generations, Numbers, Versions, Contents, Absent, Corrupt

\* The generation that Manifest::load settles on.
LEMMA NewestLoadable ==
  ASSUME TypeOK, Loadable # {}
  PROVE  LET t == CHOOSE g \in Loadable : \A h \in Loadable : h <= g
         IN t \in Loadable /\ \A h \in Loadable : h <= t
  <1> DEFINE Distances == {MaxVersion + 1 - g : g \in Loadable}
             Less == OpToRel(<, Nat)
  <1>1. Distances \subseteq Nat /\ Distances # {}
    BY Ranges DEF Loadable
  <1>2. \E x \in Distances : \A y \in Distances : <<y, x>> \notin Less
    <2> HIDE DEF Distances
    <2> QED
      BY <1>1, WFMin, NatLessThanWellFounded
  <1>3. PICK x \in Distances : \A y \in Distances : ~(y < x)
    BY <1>1, <1>2, Zenon DEF OpToRel
  <1>4. PICK t \in Loadable : x = MaxVersion + 1 - t
    BY <1>3
  <1>5. \A h \in Loadable : h <= t
    <2> SUFFICES ASSUME NEW h \in Loadable PROVE h <= t
      OBVIOUS
    <2>1. MaxVersion + 1 - h \in Distances
      OBVIOUS
    <2>2. h \in Int /\ t \in Int
      BY Ranges DEF Loadable
    <2> HIDE DEF Distances
    <2> QED
      BY <1>3, <1>4, <2>1, <2>2
  <1> QED
    BY <1>5, Zenon

Base == TypeOK /\ NumbersInv /\ SaveInv

\* A fresh database, with or without a legacy manifest, satisfies the invariant.
LEMMA ManifestInit == Init => ManifestInv
  <1> SUFFICES ASSUME Init PROVE ManifestInv
    OBVIOUS
  <1> USE Ranges DEF Init
  <1>0. \A g \in Generations : gens[g] = Absent /\ syncedGens[g] = Absent
    OBVIOUS
  <1>1. TypeOK
    <2>1. gens \in [Generations -> Contents] /\ syncedGens \in [Generations -> Contents]
      OBVIOUS
    <2>2. /\ current \in Numbers /\ syncedCurrent \in Numbers /\ generation \in Numbers
          /\ version \in Versions /\ committed \in Versions /\ attempted \in Versions
          /\ walDeleted \in Versions /\ saves \in Nat /\ corruptions \in Nat
      OBVIOUS
    <2> QED
      BY <2>1, <2>2, Zenon DEF TypeOK, Stages
  <1>2. NumbersInv /\ SaveInv
    <2>1. NumbersInv
      BY <1>0, <1>1 DEF NumbersInv, Saving
    <2>2. SaveInv
      BY DEF SaveInv, Saving
    <2> QED
      BY <2>1, <2>2
  <1>3. SyncedInv /\ WindowInv /\ PruneInv /\ NewestInv
    BY <1>0, <1>1 DEF SyncedInv, WindowInv, PruneInv, NewestInv
  <1>4. FirstInv
    BY <1>0, <1>1 DEF FirstInv, Running
  <1> QED
    BY <1>1, <1>2, <1>3, <1>4 DEF ManifestInv

\* The crash and the renames, file by file.
LEMMA CrashFiles ==
  ASSUME TypeOK, Crash
  PROVE  /\ gens' \in [Generations -> Contents]
         /\ \A g \in Generations : gens'[g] = gens[g] \/ gens'[g] = syncedGens[g]
         /\ syncedGens' = gens' /\ syncedCurrent' = current'
         /\ current' = current \/ current' = syncedCurrent
         /\ pc' = "down" /\ migrating' = FALSE
         /\ UNCHANGED <<legacy, version, generation, historyVars>>
  BY DEF TypeOK, Crash

\* The files after a new generation is renamed into place.
LEMMA RenameFiles ==
  ASSUME Base, RenameGeneration
  PROVE  /\ NextGen \in Generations
         /\ gens' \in [Generations -> Contents]
         /\ \A g \in Generations : gens'[g] = IF g = NextGen THEN version ELSE gens[g]
  BY Ranges DEF Base, TypeOK, NumbersInv, RenameGeneration, Saving, NextGen

\* The files after prune_old_generations.
LEMMA PruneFiles ==
  ASSUME TypeOK, FinishSave
  PROVE  /\ gens' \in [Generations -> Contents]
         /\ \A g \in Generations : gens'[g] = gens[g] \/ (gens'[g] = Absent /\ g <= generation - KeepGenerations)
         /\ ~unpruned' => \A g \in Generations : gens'[g] # Absent /\ g <= generation => g > generation - KeepGenerations
  <1>1. PICK gone \in SUBSET PruneOldGenerations(generation) :
          /\ unpruned' = (gone # PruneOldGenerations(generation))
          /\ gens' = [g \in Generations |-> IF g \in gone THEN Absent ELSE gens[g]]
    BY DEF FinishSave
  <1>2. gens' \in [Generations -> Contents]
    BY <1>1, Ranges DEF TypeOK
  <1>3. \A g \in PruneOldGenerations(generation) : g <= generation - KeepGenerations
    BY Ranges DEF PruneOldGenerations, Files, TypeOK
  <1>4. \A g \in Generations : gens[g] # Absent /\ g <= generation - KeepGenerations =>
                                 g \in PruneOldGenerations(generation)
    BY Ranges DEF PruneOldGenerations, Files, TypeOK
  <1>5. \A g \in Generations : gens'[g] = gens[g] \/ (gens'[g] = Absent /\ g <= generation - KeepGenerations)
    BY <1>1, <1>3
  <1>6. ASSUME ~unpruned', NEW g \in Generations, gens'[g] # Absent, g <= generation
        PROVE  g > generation - KeepGenerations
    <2>1. g \notin PruneOldGenerations(generation)
      BY <1>1, <1>6, Zenon
    <2>2. gens[g] # Absent
      BY <1>5, <1>6
    <2>3. g \in Int /\ generation \in Int /\ KeepGenerations \in Int
      BY Ranges DEF TypeOK
    <2> QED
      BY <1>4, <2>1, <2>2, <2>3
  <1> QED
    BY <1>2, <1>5, <1>6

\* The files after one stops parsing.
LEMMA CorruptFiles ==
  ASSUME TypeOK, NEW h \in Generations, CorruptFile(h)
  PROVE  /\ gens' \in [Generations -> Contents]
         /\ \A g \in Generations : gens'[g] = IF g = h THEN Corrupt ELSE gens[g]
  BY Ranges DEF TypeOK, CorruptFile

\* Loading from generations either refuses to start or settles on the newest
\* generation that parses.
LEMMA LoadFiles ==
  ASSUME TypeOK, LoadFromGenerations
  PROVE  \/ Loadable = {} /\ pc' = "failed" /\ UNCHANGED <<version, generation>>
         \/ /\ pc' = "idle"
            /\ generation' \in Generations
            /\ generation' <= current
            /\ gens[generation'] \in Versions
            /\ version' = gens[generation']
            /\ \A g \in Generations : g <= current /\ gens[g] \in Versions => g <= generation'
  <1>0. current # Corrupt
    BY Ranges DEF TypeOK
  <1>1. CASE Loadable = {}
    BY <1>1 DEF LoadFromGenerations
  <1>2. CASE Loadable # {}
    <2>1. /\ pc' = "idle" /\ version' = gens[generation']
          /\ generation' \in Loadable /\ \A h \in Loadable : h <= generation'
      BY <1>0, <1>2, NewestLoadable DEF LoadFromGenerations
    <2> QED
      BY <2>1 DEF Loadable
  <1> QED
    BY <1>1, <1>2

\* Types, numbers and the stages of a save, for every step.
LEMMA BaseNext ==
  ASSUME Base, [Next]_vars, ~CorruptCurrent
  PROVE  Base'
  <1> USE Ranges DEF Base, diskVars, historyVars, Saving, NextGen
  <1>1. CASE Mutate
    <2>1. TypeOK'
      BY <1>1 DEF Mutate, TypeOK, NumbersInv, Stages
    <2>2. NumbersInv'
      BY <1>1 DEF Mutate, TypeOK, NumbersInv
    <2>3. SaveInv'
      BY <1>1 DEF Mutate, TypeOK, SaveInv
    <2> QED
      BY <2>1, <2>2, <2>3
  <1>2. CASE RenameGeneration
    <2>1. TypeOK'
      BY <1>2, RenameFiles DEF RenameGeneration, TypeOK, NumbersInv, Stages
    <2>2. NumbersInv'
      BY <1>2, RenameFiles DEF RenameGeneration, TypeOK, NumbersInv
    <2>3. SaveInv'
      BY <1>2, RenameFiles DEF RenameGeneration, TypeOK, SaveInv
    <2> QED
      BY <2>1, <2>2, <2>3
  <1>3. CASE RenameCurrent
    <2>1. TypeOK'
      BY <1>3 DEF RenameCurrent, TypeOK, NumbersInv, Stages
    <2>2. NumbersInv'
      BY <1>3 DEF RenameCurrent, TypeOK, NumbersInv
    <2>3. SaveInv'
      BY <1>3 DEF RenameCurrent, TypeOK, SaveInv
    <2> QED
      BY <2>1, <2>2, <2>3
  <1>4. CASE SyncDirectory
    <2>1. TypeOK'
      BY <1>4 DEF SyncDirectory, DirectorySync, TypeOK, NumbersInv, Stages
    <2>2. NumbersInv'
      BY <1>4 DEF SyncDirectory, DirectorySync, TypeOK, NumbersInv
    <2>3. SaveInv'
      BY <1>4 DEF SyncDirectory, DirectorySync, TypeOK, SaveInv
    <2> QED
      BY <2>1, <2>2, <2>3
  <1>5. CASE FinishSave
    <2>1. TypeOK'
      BY <1>5, PruneFiles, Zenon DEF FinishSave, TypeOK, NumbersInv, Stages
    <2>2. NumbersInv'
      BY <1>5, PruneFiles DEF FinishSave, TypeOK, NumbersInv
    <2>3. SaveInv'
      BY <1>5, PruneFiles DEF FinishSave, TypeOK, SaveInv
    <2> QED
      BY <2>1, <2>2, <2>3
  <1>6. CASE SaveFails
    <2>1. TypeOK'
      BY <1>6, Zenon DEF SaveFails, TypeOK, NumbersInv, Stages
    <2>2. NumbersInv'
      BY <1>6 DEF SaveFails, TypeOK, NumbersInv
    <2>3. SaveInv'
      BY <1>6 DEF SaveFails, TypeOK, SaveInv
    <2> QED
      BY <2>1, <2>2, <2>3
  <1>7. CASE AfterSave
    <2>1. TypeOK'
      BY <1>7 DEF AfterSave, TypeOK, NumbersInv, Stages
    <2>2. NumbersInv'
      BY <1>7 DEF AfterSave, TypeOK, NumbersInv
    <2>3. SaveInv'
      BY <1>7 DEF AfterSave, TypeOK, SaveInv
    <2> QED
      BY <2>1, <2>2, <2>3
  <1>8. CASE Crash
    <2>1. TypeOK'
      BY <1>8, CrashFiles, Zenon DEF Crash, TypeOK, NumbersInv, Stages
    <2>2. NumbersInv'
      BY <1>8, CrashFiles DEF Crash, TypeOK, NumbersInv
    <2>3. SaveInv'
      BY <1>8, CrashFiles DEF Crash, TypeOK, SaveInv
    <2> QED
      BY <2>1, <2>2, <2>3
  <1>9. CASE \E h \in Generations : CorruptFile(h)
    <2> PICK h \in Generations : CorruptFile(h)
      BY <1>9
    <2>0. /\ gens' \in [Generations -> Contents]
          /\ \A g \in Generations : gens'[g] = IF g = h THEN Corrupt ELSE gens[g]
      BY CorruptFiles
    <2>1. TypeOK'
      BY <2>0 DEF CorruptFile, TypeOK, NumbersInv, Stages
    <2>2. NumbersInv'
      BY <2>0 DEF CorruptFile, TypeOK, NumbersInv
    <2>3. SaveInv'
      BY <2>0 DEF CorruptFile, TypeOK, SaveInv
    <2> QED
      BY <2>1, <2>2, <2>3
  <1>10. CASE LoadFromGenerations
    <2>1. TypeOK'
      BY <1>10, LoadFiles DEF LoadFromGenerations, TypeOK, NumbersInv, Stages
    <2>2. NumbersInv'
      BY <1>10, LoadFiles DEF LoadFromGenerations, TypeOK, NumbersInv
    <2>3. SaveInv'
      BY <1>10, LoadFiles DEF LoadFromGenerations, TypeOK, SaveInv
    <2> QED
      BY <2>1, <2>2, <2>3
  <1>11. CASE LoadWithoutCurrent
    <2>1. TypeOK'
      <3>1. UNCHANGED <<diskVars, historyVars>> /\ migrating' \in BOOLEAN
        BY <1>11, Zenon DEF LoadWithoutCurrent, TypeOK
      <3>2. version' \in Versions /\ generation' \in Numbers /\ pc' \in Stages
        BY <1>11 DEF LoadWithoutCurrent, TypeOK, Stages
      <3> QED
        BY <3>1, <3>2, Zenon DEF TypeOK
    <2>2. NumbersInv'
      BY <1>11 DEF LoadWithoutCurrent, TypeOK, NumbersInv
    <2>3. SaveInv'
      <3>1. saves = 0 /\ UNCHANGED <<saves, committed, current, legacy>>
        BY <1>11 DEF LoadWithoutCurrent, TypeOK, SaveInv
      <3>2. Corrupt # Absent
        BY DEF Corrupt, Absent
      <3>3. CASE legacy = Absent
        BY <1>11, <3>1, <3>2, <3>3, Zenon DEF LoadWithoutCurrent, SaveInv
      <3>4. CASE legacy = Corrupt
        <4>1. pc' = "failed" /\ pc = "down" /\ UNCHANGED <<version, generation, migrating>>
          BY <1>11, <3>4, Zenon DEF LoadWithoutCurrent
        <4> QED
          BY <1>11, <3>1, <3>4, <4>1 DEF SaveInv, TypeOK, LoadWithoutCurrent
      <3>5. CASE legacy # Absent /\ legacy # Corrupt
        <4>1. migrating' = TRUE /\ pc' = "gen" /\ version' = 0 /\ generation' = 0 /\ current = 0
          BY <1>11, <3>5, Zenon DEF LoadWithoutCurrent
        <4> QED
          BY <3>1, <3>5, <4>1 DEF SaveInv
      <3> QED
        BY <3>3, <3>4, <3>5
    <2> QED
      BY <2>1, <2>2, <2>3
  <1>12. CASE CorruptLegacy
    <2>1. TypeOK'
      BY <1>12 DEF CorruptLegacy, TypeOK, Stages
    <2>2. NumbersInv'
      BY <1>12 DEF CorruptLegacy, TypeOK, NumbersInv
    <2>3. SaveInv'
      BY <1>12 DEF CorruptLegacy, TypeOK, SaveInv
    <2> QED
      BY <2>1, <2>2, <2>3
  <1>13. CASE UNCHANGED vars
    BY <1>13 DEF vars, TypeOK, NumbersInv, SaveInv
  <1> QED
    BY <1>1, <1>2, <1>3, <1>4, <1>5, <1>6, <1>7, <1>8, <1>9, <1>10, <1>11, <1>12, <1>13, Zenon DEF Next

-----------------------------------------------------------------------------
(* What is on disk once a save returned Ok *)

\* The numbers that the invariants below compare.
LEMMA Counts ==
  ASSUME TypeOK
  PROVE  /\ saves \in Nat /\ corruptions \in Nat /\ KeepGenerations \in Nat /\ KeepGenerations > 0
         /\ generation \in Nat /\ current \in Nat /\ syncedCurrent \in Nat
         /\ version \in Nat /\ committed \in Nat /\ attempted \in Nat
         /\ \A g \in Generations : g \in Nat /\ g > 0 /\ gens[g] \in Int /\ syncedGens[g] \in Int
  BY Ranges DEF TypeOK

\* What was synced stays, for every step.
LEMMA SyncedNext ==
  ASSUME Base, SyncedInv, [Next]_vars, ~CorruptCurrent
  PROVE  SyncedInv'
  <1> USE DEF diskVars, historyVars, Running
  <1>0. TypeOK
    BY DEF Base
  <1>1. CASE Mutate
    <2>1. pc = "idle" /\ pc' = "gen" /\ UNCHANGED <<gens, syncedGens, current, syncedCurrent, generation, saves>>
      BY <1>1 DEF Mutate
    <2> QED
      BY <1>0, Counts, <2>1 DEF SyncedInv
  <1>2. CASE RenameGeneration
    <2>1. pc' = "current" /\ UNCHANGED <<syncedGens, current, syncedCurrent, generation, saves>>
      BY <1>2 DEF RenameGeneration
    <2>2. \A g \in Generations : gens'[g] = IF g = NextGen THEN version ELSE gens[g]
      BY <1>2, RenameFiles
    <2> QED
      BY <1>0, Counts, <2>1, <2>2 DEF SyncedInv, NextGen
  <1>3. CASE RenameCurrent
    <2>1. /\ pc' = "sync" /\ current' = generation + 1
          /\ UNCHANGED <<gens, syncedGens, syncedCurrent, generation, saves>>
      BY <1>3 DEF RenameCurrent, NextGen
    <2> QED
      BY <1>0, Counts, <2>1 DEF SyncedInv
  <1>4. CASE SyncDirectory
    <2>1. /\ pc' = "prune" /\ syncedGens' = gens /\ syncedCurrent' = current
          /\ generation' = generation + 1 /\ UNCHANGED <<gens, current>>
      BY <1>4 DEF SyncDirectory, DirectorySync, NextGen
    <2>2. current = generation + 1
      BY <1>4 DEF SyncDirectory, Base, SaveInv, NextGen
    <2> QED
      BY <1>0, Counts, <2>1, <2>2 DEF SyncedInv
  <1>5. CASE FinishSave
    <2>1. /\ pc' \in {"idle", "wal"}
          /\ UNCHANGED <<generation, saves, current, syncedGens, syncedCurrent>>
      BY <1>5 DEF FinishSave
    <2>2. \A g \in Generations : gens'[g] = gens[g] \/ (gens'[g] = Absent /\ g <= generation - KeepGenerations)
      BY <1>0, <1>5, PruneFiles
    <2>3. Absent \notin Versions
      BY Ranges
    <2> QED
      BY <1>0, Counts, <2>1, <2>2, <2>3 DEF SyncedInv
  <1>6. CASE SaveFails
    <2>1. /\ pc \in Saving /\ pc' = IF migrating THEN "down" ELSE "idle"
          /\ UNCHANGED <<gens, syncedGens, current, syncedCurrent, generation, saves>>
      BY <1>6 DEF SaveFails
    <2>2. migrating /\ pc \in Saving => saves = 0
      BY DEF Base, SaveInv, Saving
    <2> QED
      BY <1>0, Counts, <2>1, <2>2 DEF SyncedInv, Saving
  <1>7. CASE AfterSave
    <2>1. pc = "wal" /\ pc' = "idle" /\ UNCHANGED <<gens, syncedGens, current, syncedCurrent, generation, saves>>
      BY <1>7 DEF AfterSave
    <2> QED
      BY <1>0, Counts, <2>1 DEF SyncedInv
  <1>8. CASE Crash
    <2>1. /\ \A g \in Generations : gens'[g] = gens[g] \/ gens'[g] = syncedGens[g]
          /\ syncedGens' = gens' /\ syncedCurrent' = current'
          /\ current' = current \/ current' = syncedCurrent
          /\ UNCHANGED <<generation, saves>>
      BY <1>0, <1>8, CrashFiles
    <2> QED
      BY <1>0, Counts, <2>1 DEF SyncedInv
  <1>9. CASE \E h \in Generations : CorruptFile(h)
    <2> PICK h \in Generations : CorruptFile(h)
      BY <1>9
    <2>1. \A g \in Generations : gens'[g] = IF g = h THEN Corrupt ELSE gens[g]
      BY <1>0, CorruptFiles
    <2>2. /\ pc = "down" /\ syncedGens' = gens'
          /\ UNCHANGED <<pc, current, syncedCurrent, generation, saves>>
      BY DEF CorruptFile
    <2>3. Corrupt \notin Versions
      BY Ranges
    <2> QED
      BY <1>0, Counts, <2>1, <2>2, <2>3 DEF SyncedInv
  <1>10. CASE LoadFromGenerations
    <2>1. pc = "down" /\ UNCHANGED <<gens, syncedGens, current, syncedCurrent, saves>>
      BY <1>10 DEF LoadFromGenerations
    <2>2. \/ generation' = generation /\ pc' = "failed"
          \/ /\ generation' \in Generations /\ generation' <= current
             /\ \A g \in Generations : g <= current /\ gens[g] \in Versions => g <= generation'
      BY <1>0, <1>10, LoadFiles
    <2> QED
      BY <1>0, Counts, <2>1, <2>2 DEF SyncedInv
  <1>11. CASE LoadWithoutCurrent
    <2>1. current = 0 /\ saves' = saves
      BY <1>11 DEF LoadWithoutCurrent
    <2> QED
      BY <1>0, Counts, <2>1 DEF SyncedInv
  <1>12. CASE CorruptLegacy
    BY <1>12 DEF CorruptLegacy, SyncedInv
  <1>13. CASE UNCHANGED vars
    BY <1>13 DEF vars, SyncedInv
  <1> QED
    BY <1>1, <1>2, <1>3, <1>4, <1>5, <1>6, <1>7, <1>8, <1>9, <1>10, <1>11, <1>12, <1>13, Zenon DEF Next

\* The directory right after a complete prune, for every step.
LEMMA PruneNext ==
  ASSUME Base, PruneInv, [Next]_vars, ~CorruptCurrent
  PROVE  PruneInv'
  <1> USE DEF PruneInv
  <1>0. TypeOK
    BY DEF Base
  <1>1. CASE FinishSave
    <2>1. generation' = generation
      BY <1>1 DEF FinishSave
    <2>2. ~unpruned' => \A g \in Generations : gens'[g] # Absent /\ g <= generation => g > generation - KeepGenerations
      BY <1>0, <1>1, PruneFiles
    <2> QED
      BY <2>1, <2>2 DEF Files
  <1>2. CASE Mutate \/ RenameGeneration \/ RenameCurrent \/ SyncDirectory \/ AfterSave
    BY <1>2 DEF Mutate, RenameGeneration, RenameCurrent, SyncDirectory, AfterSave
  <1>3. CASE SaveFails \/ Crash
    BY <1>3 DEF SaveFails, Crash
  <1>4. CASE \E h \in Generations : CorruptFile(h)
    BY <1>4 DEF CorruptFile
  <1>5. CASE LoadFromGenerations \/ LoadWithoutCurrent
    BY <1>5 DEF LoadFromGenerations, LoadWithoutCurrent
  <1>6. CASE CorruptLegacy
    BY <1>6 DEF CorruptLegacy
  <1>7. CASE UNCHANGED vars
    BY <1>7 DEF vars, Files
  <1> QED
    BY <1>1, <1>2, <1>3, <1>4, <1>5, <1>6, <1>7, Zenon DEF Next

\* Without corruption nothing older than the last save is loaded, for every step.
LEMMA NewestNext ==
  ASSUME Base, SyncedInv, NewestInv, FirstInv, [Next]_vars, ~CorruptCurrent
  PROVE  NewestInv'
  <1> USE DEF diskVars, historyVars, Running
  <1>0. TypeOK
    BY DEF Base
  <1>1. CASE Mutate
    <2>1. pc = "idle" /\ version' = attempted + 1 /\ UNCHANGED <<gens, syncedGens, generation, saves, committed, corruptions>>
      BY <1>1 DEF Mutate
    <2>2. committed <= attempted
      BY DEF Base, NumbersInv
    <2> QED
      BY <1>0, Counts, <2>1, <2>2 DEF NewestInv
  <1>2. CASE RenameGeneration
    <2>1. pc = "gen" /\ UNCHANGED <<syncedGens, version, generation, saves, committed, corruptions>>
      BY <1>2 DEF RenameGeneration
    <2>2. \A g \in Generations : gens'[g] = IF g = generation + 1 THEN version ELSE gens[g]
      BY <1>2, RenameFiles DEF NextGen
    <2>3. saves > 0 => generation \in Generations
      BY <1>0, Ranges DEF TypeOK, SyncedInv
    <2> QED
      BY <1>0, Counts, <2>1, <2>2, <2>3 DEF NewestInv
  <1>3. CASE RenameCurrent
    <2>1. pc = "current" /\ version' = version /\ UNCHANGED <<gens, syncedGens, generation, saves, committed, corruptions>>
      BY <1>3 DEF RenameCurrent
    <2> QED
      BY <1>0, Counts, <2>1 DEF NewestInv
  <1>4. CASE SyncDirectory
    <2>1. /\ pc = "sync" /\ syncedGens' = gens /\ gens' = gens
          /\ generation' = generation + 1 /\ committed' = version
          /\ saves' = saves + 1 /\ UNCHANGED <<corruptions, version>>
      BY <1>4 DEF SyncDirectory, DirectorySync, NextGen
    <2>2. /\ generation + 1 \in Generations /\ gens[generation + 1] = version
          /\ version \in Versions
      BY <1>0, Counts, <2>1, Ranges DEF TypeOK, Base, SaveInv, NumbersInv, NextGen, Saving
    <2>3. ASSUME corruptions = 0, NEW g \in Generations, g > generation + 1, gens[g] # Absent
          PROVE  version = 0 /\ g <= generation + 2
      <3>1. saves = 0
        BY <1>0, Counts, <2>3 DEF NewestInv
      <3>2. g = 2 /\ generation = 0 /\ legacy # Absent
        BY <1>0, Counts, <2>3, <3>1 DEF FirstInv
      <3>3. migrating
        BY <2>1, <2>3, <3>1, <3>2 DEF FirstInv
      <3> QED
        BY <3>2, <3>3 DEF Base, SaveInv
    <2>4. \A v \in Versions : v >= 0 /\ v # Absent
      BY Ranges
    <2> QED
      BY <1>0, Counts, <2>1, <2>2, <2>3, <2>4 DEF NewestInv
  <1>5. CASE FinishSave
    <2>1. /\ pc = "prune"
          /\ UNCHANGED <<generation, saves, syncedGens, version, committed, corruptions>>
      BY <1>5 DEF FinishSave
    <2>2. \A g \in Generations : gens'[g] = gens[g] \/ (gens'[g] = Absent /\ g <= generation - KeepGenerations)
      BY <1>0, <1>5, PruneFiles
    <2>3. saves > 0 => generation \in Generations
      BY <1>0, Ranges DEF TypeOK, SyncedInv
    <2>4. Absent \notin Versions
      BY Ranges
    <2> QED
      BY <1>0, Counts, <2>1, <2>2, <2>3, <2>4 DEF NewestInv
  <1>6. CASE SaveFails
    <2>1. pc \in Saving /\ version' = version /\ UNCHANGED <<gens, syncedGens, generation, saves, committed, corruptions>>
      BY <1>6 DEF SaveFails
    <2> QED
      BY <1>0, Counts, <2>1 DEF NewestInv, Saving
  <1>7. CASE AfterSave
    <2>1. pc = "wal" /\ version' = version /\ UNCHANGED <<gens, syncedGens, generation, saves, committed, corruptions>>
      BY <1>7 DEF AfterSave
    <2> QED
      BY <1>0, Counts, <2>1 DEF NewestInv
  <1>8. CASE Crash
    <2>1. /\ \A g \in Generations : gens'[g] = gens[g] \/ gens'[g] = syncedGens[g]
          /\ syncedGens' = gens' /\ pc' = "down"
          /\ UNCHANGED <<generation, saves, committed, corruptions>>
      BY <1>0, <1>8, CrashFiles DEF historyVars
    <2>2. saves > 0 => generation \in Generations /\ gens[generation] = syncedGens[generation]
      BY <1>0, Counts, Ranges DEF TypeOK, SyncedInv
    <2> QED
      BY <1>0, Counts, <2>1, <2>2 DEF NewestInv
  <1>9. CASE \E h \in Generations : CorruptFile(h)
    <2>1. corruptions' = corruptions + 1
      BY <1>9 DEF CorruptFile
    <2> QED
      BY <1>0, Counts, <2>1 DEF NewestInv
  <1>10. CASE LoadFromGenerations
    <2>1. UNCHANGED <<gens, syncedGens, saves, committed, corruptions>>
      BY <1>10 DEF LoadFromGenerations
    <2>2. \/ generation' = generation /\ pc' = "failed"
          \/ /\ generation' \in Generations /\ version' = gens[generation']
             /\ gens[generation'] \in Versions
             /\ \A g \in Generations : g <= current /\ gens[g] \in Versions => g <= generation'
      BY <1>0, <1>10, LoadFiles
    <2>3. saves > 0 => generation \in Generations /\ generation <= current
      BY <1>0, Ranges DEF TypeOK, SyncedInv
    <2> QED
      BY <1>0, Counts, <2>1, <2>2, <2>3 DEF NewestInv
  <1>11. CASE LoadWithoutCurrent
    <2>1. current = 0 /\ saves' = saves
      BY <1>11 DEF LoadWithoutCurrent
    <2>2. saves = 0
      BY <1>0, Counts, <2>1 DEF SyncedInv
    <2> QED
      BY <2>1, <2>2 DEF NewestInv
  <1>12. CASE CorruptLegacy
    BY <1>12 DEF CorruptLegacy, NewestInv
  <1>13. CASE UNCHANGED vars
    BY <1>13 DEF vars, NewestInv
  <1> QED
    BY <1>1, <1>2, <1>3, <1>4, <1>5, <1>6, <1>7, <1>8, <1>9, <1>10, <1>11, <1>12, <1>13, Zenon DEF Next

\* Before the first save returns Ok, for every step.
LEMMA FirstNext ==
  ASSUME Base, FirstInv, [Next]_vars, ~CorruptCurrent
  PROVE  FirstInv'
  <1> USE DEF diskVars, historyVars, Running
  <1>0. TypeOK
    BY DEF Base
  <1>1. CASE Mutate
    <2>1. /\ pc = "idle" /\ pc' = "gen" /\ migrating' = migrating
          /\ UNCHANGED <<gens, current, syncedGens, syncedCurrent, legacy, generation, saves, corruptions>>
      BY <1>1 DEF Mutate
    <2> QED
      BY <1>0, Counts, <2>1 DEF FirstInv
  <1>2. CASE RenameGeneration
    <2>1. /\ pc = "gen" /\ pc' = "current"
          /\ UNCHANGED <<current, syncedGens, syncedCurrent, legacy, migrating, generation, saves, corruptions>>
      BY <1>2 DEF RenameGeneration
    <2>2. \A g \in Generations : gens'[g] = IF g = generation + 1 THEN version ELSE gens[g]
      BY <1>2, RenameFiles DEF NextGen
    <2>3. version # Corrupt /\ version # Absent /\ (generation # 0 => generation \in Generations)
      BY <1>0, Ranges DEF TypeOK
    <2> QED
      BY <1>0, Counts, <2>1, <2>2, <2>3 DEF FirstInv
  <1>3. CASE RenameCurrent
    <2>1. /\ pc = "current" /\ pc' = "sync" /\ current' = generation + 1
          /\ UNCHANGED <<gens, syncedGens, syncedCurrent, legacy, migrating, generation, saves, corruptions>>
      BY <1>3 DEF RenameCurrent, NextGen
    <2> QED
      BY <1>0, Counts, <2>1 DEF FirstInv
  <1>4. CASE SyncDirectory
    <2>1. saves' = saves + 1
      BY <1>4 DEF SyncDirectory
    <2> QED
      BY <1>0, Counts, <2>1 DEF FirstInv
  <1>5. CASE FinishSave
    <2>1. pc = "prune" /\ saves' = saves
      BY <1>5 DEF FinishSave
    <2>2. saves # 0
      BY <2>1 DEF Base, SaveInv
    <2> QED
      BY <2>1, <2>2 DEF FirstInv
  <1>6. CASE SaveFails
    <2>1. /\ pc \in Saving /\ pc' = IF migrating THEN "down" ELSE "idle"
          /\ UNCHANGED <<gens, current, syncedGens, syncedCurrent, legacy, generation, saves, corruptions>>
      BY <1>6 DEF SaveFails
    <2>2. migrating => current <= 1 /\ legacy # Absent
      BY DEF Base, SaveInv
    <2>3. CASE migrating
      BY <1>0, Counts, <2>1, <2>2, <2>3 DEF FirstInv
    <2>4. CASE ~migrating
      BY <1>0, Counts, <2>1, <2>4 DEF FirstInv, Saving
    <2> QED
      BY <2>3, <2>4
  <1>7. CASE AfterSave
    <2>1. pc = "wal" /\ saves' = saves
      BY <1>7 DEF AfterSave
    <2>2. saves # 0
      BY <2>1 DEF Base, SaveInv
    <2> QED
      BY <2>1, <2>2 DEF FirstInv
  <1>8. CASE Crash
    <2>1. /\ \A g \in Generations : gens'[g] = gens[g] \/ gens'[g] = syncedGens[g]
          /\ syncedGens' = gens' /\ syncedCurrent' = current' /\ pc' = "down"
          /\ current' = current \/ current' = syncedCurrent
          /\ UNCHANGED <<legacy, generation, saves, corruptions>>
      BY <1>0, <1>8, CrashFiles
    <2>2. generation # 0 => generation \in Generations
      BY <1>0, Ranges DEF TypeOK
    <2> QED
      BY <1>0, Counts, <2>1, <2>2 DEF FirstInv
  <1>9. CASE \E h \in Generations : CorruptFile(h)
    <2>1. corruptions' = corruptions + 1
      BY <1>9 DEF CorruptFile
    <2> QED
      BY <1>0, Counts, <2>1 DEF FirstInv
  <1>10. CASE LoadFromGenerations
    <2>1. pc = "down" /\ UNCHANGED <<gens, syncedGens, current, syncedCurrent, legacy, saves, corruptions>>
      BY <1>10 DEF LoadFromGenerations
    <2>2. CASE pc' = "failed"
      <3>1. generation' = generation
        BY <1>0, <1>10, <2>2, LoadFiles
      <3> QED
        BY <2>1, <2>2, <3>1 DEF FirstInv
    <2>3. CASE pc' # "failed"
      <3>1. /\ generation' \in Generations /\ generation' <= current /\ pc' = "idle"
            /\ gens[generation'] \in Versions
            /\ \A g \in Generations : g <= current /\ gens[g] \in Versions => g <= generation'
        BY <1>0, <1>10, <2>3, LoadFiles
      <3>2. generation # 0 => generation \in Generations
        BY <1>0, Ranges DEF TypeOK
      <3>3. Absent \notin Versions
        BY Ranges
      <3> QED
        BY <1>0, Counts, <2>1, <3>1, <3>2, <3>3 DEF FirstInv
    <2> QED
      BY <2>2, <2>3
  <1>11. CASE LoadWithoutCurrent
    <2>1. /\ pc = "down" /\ current = 0 /\ pc' # "down"
          /\ UNCHANGED <<gens, current, syncedGens, syncedCurrent, legacy, saves, corruptions>>
      BY <1>11 DEF LoadWithoutCurrent
    <2>2. CASE legacy = Corrupt
      <3>1. pc' = "failed" /\ generation' = generation
        BY <1>11, <2>2, Zenon DEF LoadWithoutCurrent
      <3> QED
        BY <2>1, <3>1 DEF FirstInv
    <2>3. CASE legacy # Corrupt
      <3>1. generation' = 0
        BY <1>11, <2>3, Zenon DEF LoadWithoutCurrent
      <3>2. legacy # Absent => migrating'
        BY <1>11, <2>3, Zenon DEF LoadWithoutCurrent
      <3> QED
        BY <1>0, Counts, <2>1, <3>1, <3>2 DEF FirstInv
    <2> QED
      BY <2>2, <2>3
  <1>12. CASE CorruptLegacy
    <2>1. legacy # Absent /\ pc = "down"
      BY <1>12, Ranges DEF CorruptLegacy
    <2>2. legacy' # Absent
      BY <1>12, Ranges DEF CorruptLegacy
    <2> QED
      BY <1>12, <2>1, <2>2 DEF CorruptLegacy, FirstInv
  <1>13. CASE UNCHANGED vars
    BY <1>13 DEF vars, FirstInv
  <1> QED
    BY <1>1, <1>2, <1>3, <1>4, <1>5, <1>6, <1>7, <1>8, <1>9, <1>10, <1>11, <1>12, <1>13, Zenon DEF Next

-----------------------------------------------------------------------------
(* The generations a restart can fall back on *)

\* Sets of generations are finite.
LEMMA GenerationsFinite ==
  ASSUME NEW S \in SUBSET Generations
  PROVE  IsFiniteSet(S) /\ Cardinality(S) \in Nat
  <1>1. IsFiniteSet(Generations)
    BY FS_Interval DEF Generations
  <1> QED
    BY <1>1, FS_Subset, FS_CardinalityType

\* A set that loses at most y and gains x.
LEMMA Shifted ==
  ASSUME NEW S, NEW T, IsFiniteSet(S), IsFiniteSet(T), NEW x, NEW y,
         S \ {y} \subseteq T, x \in T, x \notin S
  PROVE  /\ Cardinality(T) >= Cardinality(S)
         /\ y \notin S => Cardinality(T) >= Cardinality(S) + 1
  <1> DEFINE R == S \ {y}
             U == R \cup {x}
  <1>1. IsFiniteSet(R) /\ Cardinality(R) = IF y \in S THEN Cardinality(S) - 1 ELSE Cardinality(S)
    BY FS_RemoveElement
  <1>2. x \notin R
    OBVIOUS
  <1>3. U \in SUBSET T
    OBVIOUS
  <1> HIDE DEF R
  <1>4. Cardinality(U) = Cardinality(R) + 1
    BY <1>1, <1>2, FS_AddElement, Zenon
  <1>5. Cardinality(U) <= Cardinality(T)
    <2> HIDE DEF U
    <2> QED
      BY <1>3, FS_Subset
  <1>6. Cardinality(S) \in Nat /\ Cardinality(T) \in Nat
    BY FS_CardinalityType
  <1> HIDE DEF U
  <1> QED
    BY <1>1, <1>4, <1>5, <1>6

\* Of the generations the store should retain, one is lost per corrupted file at
\* most, for every step.
LEMMA WindowNext ==
  ASSUME Base, Base', SyncedInv, WindowInv, [Next]_vars, ~CorruptCurrent
  PROVE  WindowInv'
  <1> USE DEF diskVars, historyVars, NextGen
  <1>0. /\ TypeOK
        /\ saves \in Nat /\ corruptions \in Nat /\ generation \in Nat /\ current \in Nat
        /\ KeepGenerations \in Nat /\ KeepGenerations > 0
        /\ \A g \in Generations : g \in Nat /\ g > 0
        /\ Absent \notin Versions /\ Corrupt \notin Versions
        /\ IsFiniteSet(Window) /\ Cardinality(Window) \in Nat
        /\ IsFiniteSet(Window') /\ Cardinality(Window') \in Nat
    <2>1. Window \in SUBSET Generations /\ Window' \in SUBSET Generations
      BY DEF Window, Generations
    <2> QED
      BY <2>1, GenerationsFinite, Counts, Ranges DEF Base
  <1>1. CASE Mutate
    <2>1. Window' = Window /\ UNCHANGED <<saves, corruptions>> /\ pc' # "failed"
      BY <1>0, <1>1 DEF Mutate, Window, Retained
    <2> QED
      BY <2>1 DEF WindowInv, Retained
  <1>2. CASE RenameGeneration
    <2>1. \A g \in Generations : gens'[g] = IF g = NextGen THEN version ELSE gens[g]
      BY <1>2, RenameFiles
    <2>2. Window' = Window /\ UNCHANGED <<saves, corruptions>> /\ pc' # "failed"
      BY <1>0, <1>2, <2>1 DEF RenameGeneration, Window, Retained
    <2> QED
      BY <2>2 DEF WindowInv, Retained
  <1>3. CASE RenameCurrent
    <2>1. Window' = Window /\ UNCHANGED <<saves, corruptions>> /\ pc' # "failed"
      BY <1>0, <1>3 DEF RenameCurrent, Window, Retained
    <2> QED
      BY <2>1 DEF WindowInv, Retained
  <1>4. CASE SyncDirectory
    <2>1. /\ generation' = generation + 1 /\ saves' = saves + 1
          /\ gens' = gens /\ corruptions' = corruptions /\ pc' # "failed"
      BY <1>4 DEF SyncDirectory
    <2>0. /\ generation + 1 \in Generations /\ gens[generation + 1] \in Versions
          /\ pc = "sync"
      BY <1>4, Ranges, Counts DEF SyncDirectory, TypeOK, Base, SaveInv, NumbersInv, Saving
    <2>2. generation' \in Window' /\ generation' \notin Window
      BY <1>0, <2>0, <2>1 DEF Window, Retained
    <2> DEFINE y == generation - KeepGenerations + 1
    <2>3. Window \ {y} \subseteq Window'
      BY <1>0, <2>1 DEF Window, Retained
    <2>4. /\ Cardinality(Window') >= Cardinality(Window)
          /\ y \notin Window => Cardinality(Window') >= Cardinality(Window) + 1
      <3> HIDE DEF y
      <3> QED
        BY <1>0, <2>2, <2>3, Shifted
    <2>5. CASE saves < KeepGenerations
      <3>1. y \notin Window
        BY <1>0, <2>5 DEF Window, Retained
      <3>2. Retained' = Retained + 1 /\ Retained = saves
        BY <1>0, <2>1, <2>5 DEF Retained
      <3> QED
        BY <1>0, <2>1, <2>4, <3>1, <3>2 DEF WindowInv
    <2>6. CASE ~(saves < KeepGenerations)
      <3>1. Retained' = Retained /\ saves > 0 /\ Retained \in Nat
        BY <1>0, <2>1, <2>6 DEF Retained
      <3> QED
        BY <1>0, <2>1, <2>4, <3>1 DEF WindowInv
    <2> QED
      BY <2>5, <2>6
  <1>5. CASE FinishSave
    <2>1. UNCHANGED <<saves, corruptions, generation>> /\ pc' # "failed"
      BY <1>5 DEF FinishSave
    <2>2. \A g \in Generations : gens'[g] = gens[g] \/ (gens'[g] = Absent /\ g <= generation - KeepGenerations)
      BY <1>0, <1>5, PruneFiles
    <2>3. Window' = Window
      BY <1>0, <2>1, <2>2 DEF Window, Retained
    <2> QED
      BY <2>1, <2>3 DEF WindowInv, Retained
  <1>6. CASE SaveFails
    <2>1. Window' = Window /\ UNCHANGED <<saves, corruptions>> /\ pc' # "failed"
      BY <1>0, <1>6 DEF SaveFails, Window, Retained
    <2> QED
      BY <2>1 DEF WindowInv, Retained
  <1>7. CASE AfterSave
    <2>1. Window' = Window /\ UNCHANGED <<saves, corruptions>> /\ pc' # "failed"
      BY <1>0, <1>7 DEF AfterSave, Window, Retained
    <2> QED
      BY <2>1 DEF WindowInv, Retained
  <1>8. CASE Crash
    <2>1. /\ \A g \in Generations : gens'[g] = gens[g] \/ gens'[g] = syncedGens[g]
          /\ UNCHANGED <<saves, corruptions, generation>> /\ pc' # "failed"
      BY <1>0, <1>8, CrashFiles
    <2>2. saves > 0 => Window' = Window
      BY <1>0, <2>1 DEF Window, Retained, SyncedInv
    <2> QED
      BY <2>1, <2>2 DEF WindowInv, Retained
  <1>9. CASE \E h \in Generations : CorruptFile(h)
    <2> PICK h \in Generations : CorruptFile(h)
      BY <1>9
    <2>1. \A g \in Generations : gens'[g] = IF g = h THEN Corrupt ELSE gens[g]
      BY <1>0, CorruptFiles
    <2>2. /\ UNCHANGED <<saves, generation>> /\ corruptions' = corruptions + 1
          /\ pc' = "down"
      BY DEF CorruptFile
    <2>3. Window' = Window \ {h}
      BY <1>0, <2>1, <2>2 DEF Window, Retained
    <2>4. Cardinality(Window') >= Cardinality(Window) - 1
      BY <1>0, <2>3, FS_RemoveElement
    <2>5. Retained' = Retained /\ Retained \in Nat
      BY <1>0, <2>2 DEF Retained
    <2> QED
      BY <1>0, <2>2, <2>4, <2>5 DEF WindowInv
  <1>10. CASE LoadFromGenerations
    <2>1. UNCHANGED <<gens, current, saves, corruptions>> /\ Retained' = Retained
      BY <1>10 DEF LoadFromGenerations, Retained
    <2>2. CASE pc' = "failed"
      <3>1. Loadable = {} /\ generation' = generation
        BY <1>0, <1>10, <2>2, LoadFiles
      <3>2. Window' = Window /\ Loadable' = Loadable
        BY <2>1, <3>1 DEF Window, Loadable
      <3> QED
        BY <2>1, <3>1, <3>2 DEF WindowInv
    <2>3. CASE pc' # "failed"
      <3>1. /\ generation' \in Generations /\ generation' <= current
            /\ gens[generation'] \in Versions
            /\ \A g \in Generations : g <= current /\ gens[g] \in Versions => g <= generation'
        BY <1>0, <1>10, <2>3, LoadFiles
      <3>2. ASSUME saves > 0 PROVE Cardinality(Window') >= Cardinality(Window)
        <4>1. CASE generation' > generation
          <5>1. generation' = generation + 1
            BY <1>0, <3>1, <3>2, <4>1 DEF SyncedInv
          <5>2. generation' \in Window' /\ generation' \notin Window
            BY <1>0, <2>1, <3>1, <3>2, <5>1 DEF Window, Retained
          <5> DEFINE y == generation - Retained + 1
          <5>3. Window \ {y} \subseteq Window'
            BY <1>0, <2>1, <5>1 DEF Window, Retained
          <5> HIDE DEF y
          <5> QED
            BY <1>0, <5>2, <5>3, Shifted
        <4>2. CASE generation' <= generation
          <5>1. Window \subseteq Window'
            BY <1>0, <2>1, <3>1, <3>2, <4>2 DEF Window, Retained, SyncedInv
          <5> QED
            BY <1>0, <5>1, FS_Subset
        <4> QED
          BY <1>0, <3>1, <4>1, <4>2
      <3>3. Retained \in Nat
        BY <1>0 DEF Retained
      <3> QED
        BY <1>0, <2>1, <2>3, <3>2, <3>3 DEF WindowInv
    <2> QED
      BY <2>2, <2>3
  <1>11. CASE LoadWithoutCurrent
    <2>1. saves = 0 /\ saves' = saves /\ current' = 0
      BY <1>0, <1>11 DEF LoadWithoutCurrent, Base, SaveInv
    <2>2. Loadable' = {}
      BY <1>0, <2>1 DEF Loadable
    <2> QED
      BY <1>0, <2>1, <2>2 DEF WindowInv
  <1>12. CASE CorruptLegacy
    BY <1>12 DEF CorruptLegacy, WindowInv, Window, Retained, Loadable
  <1>13. CASE UNCHANGED vars
    BY <1>13 DEF vars, WindowInv, Window, Retained, Loadable
  <1> QED
    BY <1>1, <1>2, <1>3, <1>4, <1>5, <1>6, <1>7, <1>8, <1>9, <1>10, <1>11, <1>12, <1>13, Zenon DEF Next

-----------------------------------------------------------------------------
(* The theorems *)

\* While CURRENT parses, every step but its loss preserves the invariant.
LEMMA SoundNext ==
  ASSUME ManifestInv, ~CurrentLost, [Next]_vars, ~CorruptCurrent
  PROVE  ManifestInv'
  <1>1. Base
    BY Zenon DEF ManifestInv, Base
  <1>2. Base'
    BY <1>1, BaseNext
  <1>3. SyncedInv' /\ PruneInv' /\ FirstInv'
    BY <1>1, <1>2, SyncedNext, PruneNext, FirstNext, Zenon DEF ManifestInv
  <1>4. NewestInv' /\ WindowInv'
    BY <1>1, <1>2, NewestNext, WindowNext, Zenon DEF ManifestInv
  <1> QED
    BY <1>2, <1>3, <1>4, Zenon DEF ManifestInv, Base

\* Without a CURRENT that parses every load refuses to start.
LEMMA LostNext ==
  ASSUME CurrentLost, [Next]_vars
  PROVE  CurrentLost'
  <1> USE DEF CurrentLost, Running
  <1>0. current # 0 /\ ~(current > 0)
    BY DEF Corrupt
  <1>1. CASE Mutate \/ RenameGeneration \/ RenameCurrent \/ SyncDirectory \/ FinishSave
    BY <1>1 DEF Mutate, RenameGeneration, RenameCurrent, SyncDirectory, FinishSave
  <1>2. CASE SaveFails \/ AfterSave
    BY <1>2 DEF SaveFails, AfterSave, Saving
  <1>3. CASE Crash
    BY <1>3 DEF Crash
  <1>4. CASE \E h \in Generations : CorruptFile(h)
    BY <1>4 DEF CorruptFile
  <1>5. CASE CorruptCurrent \/ CorruptLegacy
    BY <1>0, <1>5 DEF CorruptCurrent, CorruptLegacy
  <1>6. CASE LoadFromGenerations \/ LoadWithoutCurrent
    BY <1>0, <1>6 DEF LoadFromGenerations, LoadWithoutCurrent, diskVars
  <1>7. CASE UNCHANGED vars
    BY <1>7 DEF vars
  <1> QED
    BY <1>1, <1>2, <1>3, <1>4, <1>5, <1>6, <1>7, Zenon DEF Next

\* Every step of save, load, crash and corruption preserves the invariant.
LEMMA ManifestNext == ManifestInv /\ [Next]_vars => ManifestInv'
  <1> SUFFICES ASSUME ManifestInv, [Next]_vars PROVE ManifestInv'
    OBVIOUS
  <1>1. CASE CurrentLost
    BY <1>1, LostNext, Zenon DEF ManifestInv
  <1>2. CASE CorruptCurrent
    <2>1. CurrentLost'
      BY <1>2 DEF CorruptCurrent, CurrentLost, Running
    <2> QED
      BY <2>1, Zenon DEF ManifestInv
  <1> QED
    BY <1>1, <1>2, SoundNext, Zenon

\* Manifest::save and Manifest::load keep the inductive invariant, whatever
\* crashes, failed steps and corrupted files come between them.
THEOREM ManifestInvariant == Spec => []ManifestInv
  BY ManifestInit, ManifestNext, PTL DEF Spec

\* For every number of saves and of retained generations: without corruption, a
\* running server has a manifest at least as new as the last one whose save
\* returned Ok.
THEOREM SaveDurability == Spec => []SaveIsDurable
  <1>1. ManifestInv => SaveIsDurable
    <2> SUFFICES ASSUME ManifestInv, corruptions = 0, Running PROVE version >= committed
      BY DEF SaveIsDurable, Running
    <2>0. TypeOK /\ SaveInv /\ NewestInv
      BY Zenon DEF ManifestInv, CurrentLost
    <2>1. CASE saves = 0
      BY <2>0, <2>1, Ranges DEF TypeOK, SaveInv
    <2>2. CASE saves # 0
      BY <2>0, <2>2 DEF TypeOK, NewestInv
    <2> QED
      BY <2>1, <2>2
  <1> QED
    BY <1>1, ManifestInvariant, PTL

\* Manifest::load refuses to start only when CURRENT does not parse, when the
\* legacy manifest it has to fall back on does not, or after KEEP_GENERATIONS
\* generation files, or as many as saves returned Ok, stopped parsing.
THEOREM LateFailure == Spec => []FailsClosedLate
  <1>1. ManifestInv => FailsClosedLate
    <2> SUFFICES ASSUME ManifestInv, pc = "failed", current # Corrupt, ~(current = 0 /\ legacy = Corrupt)
                 PROVE  corruptions >= KeepGenerations \/ corruptions >= saves
      BY Zenon DEF FailsClosedLate
    <2>0. TypeOK /\ SyncedInv /\ WindowInv
      BY Zenon DEF ManifestInv, CurrentLost
    <2>1. CASE saves = 0
      BY <2>0, <2>1 DEF TypeOK
    <2>2. CASE saves > 0
      <3>1. Window \subseteq Loadable
        BY <2>0, <2>2, Ranges DEF SyncedInv, Window, Loadable, TypeOK
      <3>2. Cardinality(Window) = 0
        BY <2>0, <3>1, FS_EmptySet DEF WindowInv
      <3> QED
        BY <2>0, <2>2, <3>2 DEF WindowInv, Retained, TypeOK
    <2> QED
      BY <2>0, <2>1, <2>2 DEF TypeOK
  <1> QED
    BY <1>1, ManifestInvariant, PTL

\* After a prune_old_generations that removed all it meant to, at most
\* KEEP_GENERATIONS files are left up to the current generation.
THEOREM BoundedDirectory == Spec => []DirectoryBounded
  <1>1. ManifestInv => DirectoryBounded
    <2> DEFINE Left == {g \in Files : g <= generation}
               Kept == (generation - KeepGenerations + 1)..generation
    <2> SUFFICES ASSUME ManifestInv, pc = "wal", ~unpruned
                 PROVE  Cardinality(Left) <= KeepGenerations
      BY DEF DirectoryBounded
    <2>0. TypeOK /\ PruneInv
      BY Zenon DEF ManifestInv, CurrentLost, Running
    <2>1. generation \in Int /\ KeepGenerations \in Int /\ KeepGenerations > 0
      BY <2>0, Ranges DEF TypeOK
    <2>2. Left \in SUBSET Kept
      BY <2>0, <2>1, Ranges DEF PruneInv, Files
    <2>3. IsFiniteSet(Kept) /\ Cardinality(Kept) = KeepGenerations
      BY <2>1, FS_Interval
    <2> HIDE DEF Left, Kept
    <2> QED
      BY <2>2, <2>3, FS_Subset
  <1> QED
    BY <1>1, ManifestInvariant, PTL
==============================================================================
