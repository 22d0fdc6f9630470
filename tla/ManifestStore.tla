---------------------------- MODULE ManifestStore ----------------------------
(***************************************************************************)
(* The manifest generations of usagedb: Manifest::save writes              *)
(* manifest-<g+1>.json, moves CURRENT to it, syncs the directory and       *)
(* prunes; Manifest::load follows CURRENT and walks back over generations  *)
(* that are missing or do not parse, but needs a CURRENT that parses; a    *)
(* legacy manifest.json is migrated, if it parses.                         *)
(*                                                                         *)
(* A manifest is abstracted to a version number: every mutation under the  *)
(* manifest write lock produces the next version, which contains the       *)
(* segments of the version it was made from.  Renames and deletions reach  *)
(* the disk at the directory sync; a crash before it keeps or loses each   *)
(* of them independently.  After a successful save the flusher deletes the *)
(* WAL files the version seals: from then on the events of that version    *)
(* exist only through a manifest that includes it.                         *)
(***************************************************************************)
EXTENDS Integers, FiniteSets

CONSTANTS
  KeepGenerations, \* KEEP_GENERATIONS (10)
  MaxVersion,      \* bound: versions produced
  MaxCorruptions   \* bound: generation files that stop parsing

ASSUME ManifestAssumption ==
  /\ KeepGenerations \in Nat \ {0}
  /\ MaxVersion \in Nat \ {0}
  /\ MaxCorruptions \in Nat

Absent == -1
Corrupt == -2
Versions == 0..MaxVersion
\* Every save that writes a new generation number saves a new version.
Generations == 1..(MaxVersion + 1)
Contents == Versions \cup {Absent, Corrupt}

VARIABLES
  gens,        \* [Generations -> Contents]: the generation files
  current,     \* the generation CURRENT names; 0 when there is no CURRENT,
               \* Corrupt when it cannot be read or parsed
  legacy,      \* content of manifest.json
  syncedGens,  \* gens and current as of the last directory sync
  syncedCurrent,
  pc,          \* "down", "failed" (recovery refused to start), "idle", or the
               \* next step of a save: "gen", "current", "sync", "prune", "wal"
  version,     \* version of the in-memory manifest
  generation,  \* Manifest.current_generation
  migrating,   \* the save is migrate_legacy's
  \* history
  committed,   \* the version of the last save that returned Ok
  attempted,   \* the last version produced
  saves,       \* saves that returned Ok
  unpruned,    \* the last prune left a file it should have removed
  walDeleted,  \* the version through which WAL files were deleted
  corruptions  \* generation files corrupted so far

vars == <<gens, current, legacy, syncedGens, syncedCurrent, pc, version,
          generation, migrating, committed, attempted, saves, unpruned, walDeleted,
          corruptions>>
diskVars == <<gens, current, legacy, syncedGens, syncedCurrent>>
historyVars == <<committed, attempted, saves, unpruned, walDeleted, corruptions>>

Files == {g \in Generations : gens[g] # Absent}
Saving == {"gen", "current", "sync"}

Init ==
  /\ gens = [g \in Generations |-> Absent]
  /\ current = 0
  /\ legacy \in {0, Absent}
  /\ syncedGens = gens
  /\ syncedCurrent = 0
  /\ pc = "down"
  /\ version = 0
  /\ generation = 0
  /\ migrating = FALSE
  /\ committed = 0
  /\ attempted = 0
  /\ saves = 0
  /\ unpruned = FALSE
  /\ walDeleted = 0
  /\ corruptions = 0

-----------------------------------------------------------------------------
(* Manifest::save *)

NextGen == generation + 1

\* Mutant: the renames are not synced.
DirectoryNotSynced == UNCHANGED <<syncedGens, syncedCurrent>>

DirectorySync ==
  /\ syncedGens' = gens
  /\ syncedCurrent' = current

\* A writer takes the write lock, changes the manifest and calls save.
Mutate ==
  /\ pc = "idle"
  /\ attempted < MaxVersion
  /\ attempted' = attempted + 1
  /\ version' = attempted + 1
  /\ pc' = "gen"
  /\ UNCHANGED <<diskVars, generation, migrating, committed, saves, unpruned, walDeleted,
                 corruptions>>

\* The synced temporary file is renamed to the next generation.
RenameGeneration ==
  /\ pc = "gen"
  /\ gens' = [gens EXCEPT ![NextGen] = version]
  /\ pc' = "current"
  /\ UNCHANGED <<current, legacy, syncedGens, syncedCurrent, version, generation,
                 migrating, historyVars>>

\* CURRENT.tmp is renamed to CURRENT.
RenameCurrent ==
  /\ pc = "current"
  /\ current' = NextGen
  /\ pc' = "sync"
  /\ UNCHANGED <<gens, legacy, syncedGens, syncedCurrent, version, generation,
                 migrating, historyVars>>

\* The directory is synced and current_generation moves on.
SyncDirectory ==
  /\ pc = "sync"
  /\ DirectorySync
  /\ generation' = NextGen
  /\ committed' = version
  /\ saves' = saves + 1
  /\ pc' = "prune"
  /\ UNCHANGED <<gens, current, legacy, version, migrating, attempted, unpruned,
                 walDeleted, corruptions>>

\* Mutants: the floor is off by one, either way.
PruneTooFew(currentGen) ==
  {g \in Files : currentGen > KeepGenerations /\ g < currentGen - KeepGenerations}
PruneTooMany(currentGen) ==
  {g \in Files : currentGen > KeepGenerations /\ g <= currentGen - KeepGenerations + 1}

\* prune_old_generations: the generations it removes
PruneOldGenerations(currentGen) ==
  {g \in Files : currentGen > KeepGenerations /\ g < currentGen - KeepGenerations + 1}

\* save prunes and returns Ok, even if a file could not be removed;
\* migrate_legacy then removes manifest.json, or fails to.
FinishSave ==
  /\ pc = "prune"
  /\ \E gone \in SUBSET PruneOldGenerations(generation) :
       /\ unpruned' = (gone # PruneOldGenerations(generation))
       /\ gens' = [g \in Generations |-> IF g \in gone THEN Absent ELSE gens[g]]
  /\ legacy' \in IF migrating THEN {legacy, Absent} ELSE {legacy}
  /\ migrating' = FALSE
  /\ pc' = IF migrating THEN "idle" ELSE "wal"
  /\ UNCHANGED <<current, syncedGens, syncedCurrent, version, generation, committed,
                 attempted, saves, walDeleted, corruptions>>

\* A step of save returns an error: the in-memory manifest keeps its change and
\* its generation number, the directory keeps what was renamed.  An error while
\* migrating ends startup.
SaveFails ==
  /\ pc \in Saving
  /\ pc' = IF migrating THEN "down" ELSE "idle"
  /\ migrating' = FALSE
  /\ UNCHANGED <<diskVars, version, generation, historyVars>>

\* The caller of a successful save: the flusher deletes the sealed WAL files,
\* the other writers have nothing to delete.
AfterSave ==
  /\ pc = "wal"
  /\ pc' = "idle"
  /\ walDeleted' \in {walDeleted, version}
  /\ UNCHANGED <<diskVars, version, generation, migrating, committed, attempted,
                 saves, unpruned, corruptions>>

-----------------------------------------------------------------------------
(* Crash, corruption, Manifest::load *)

Crash ==
  /\ pc # "down"
  /\ \E lost \in SUBSET {g \in Generations : gens[g] # syncedGens[g]} :
       gens' = [g \in Generations |-> IF g \in lost THEN syncedGens[g] ELSE gens[g]]
  /\ current' \in {current, syncedCurrent}
  /\ syncedGens' = gens'
  /\ syncedCurrent' = current'
  /\ pc' = "down"
  /\ migrating' = FALSE
  /\ UNCHANGED <<legacy, version, generation, historyVars>>

\* A generation file stops parsing.
CorruptFile(g) ==
  /\ pc = "down"
  /\ corruptions < MaxCorruptions
  /\ gens[g] \in Versions
  /\ gens' = [gens EXCEPT ![g] = Corrupt]
  /\ syncedGens' = gens'
  /\ corruptions' = corruptions + 1
  /\ UNCHANGED <<current, legacy, syncedCurrent, pc, version, generation, migrating,
                 committed, attempted, saves, unpruned, walDeleted>>

\* CURRENT stops parsing.
CorruptCurrent ==
  /\ pc = "down"
  /\ current > 0
  /\ current' = Corrupt
  /\ syncedCurrent' = Corrupt
  /\ UNCHANGED <<gens, legacy, syncedGens, pc, version, generation, migrating, historyVars>>

\* manifest.json stops parsing.
CorruptLegacy ==
  /\ pc = "down"
  /\ legacy \in Versions
  /\ legacy' = Corrupt
  /\ UNCHANGED <<gens, current, syncedGens, syncedCurrent, pc, version, generation, migrating,
                 historyVars>>

\* load_from_generations: the generations it can use
Loadable == {g \in Generations : g <= current /\ gens[g] \in Versions}

\* CURRENT exists: the newest generation at or below it that parses.  A CURRENT
\* that does not parse is an error, whatever the generations are.
LoadFromGenerations ==
  /\ pc = "down"
  /\ current # 0
  /\ IF current = Corrupt \/ Loadable = {}
       THEN pc' = "failed" /\ UNCHANGED <<version, generation>>
       ELSE /\ pc' = "idle"
            /\ generation' = CHOOSE g \in Loadable : \A h \in Loadable : h <= g
            /\ version' = gens[generation']
  /\ UNCHANGED <<diskVars, migrating, historyVars>>

\* No CURRENT: migrate_legacy saves the legacy manifest as generation 1, or
\* refuses one that does not parse; without a legacy file the database is fresh.
LoadWithoutCurrent ==
  /\ pc = "down"
  /\ current = 0
  /\ IF legacy = Corrupt
       THEN pc' = "failed" /\ UNCHANGED <<version, generation, migrating>>
       ELSE /\ version' = 0
            /\ generation' = 0
            /\ migrating' = (legacy # Absent)
            /\ pc' = IF legacy = Absent THEN "idle" ELSE "gen"
  /\ UNCHANGED <<diskVars, historyVars>>

-----------------------------------------------------------------------------

Next ==
  \/ Mutate
  \/ RenameGeneration
  \/ RenameCurrent
  \/ SyncDirectory
  \/ FinishSave
  \/ SaveFails
  \/ AfterSave
  \/ Crash
  \/ \E g \in Generations : CorruptFile(g)
  \/ CorruptCurrent
  \/ CorruptLegacy
  \/ LoadFromGenerations
  \/ LoadWithoutCurrent

Spec == Init /\ [][Next]_vars

-----------------------------------------------------------------------------
(* Properties *)

\* Without corruption, a restart at any point of a save, after any number of
\* failed saves and with any subset of the unsynced renames lost, loads a
\* manifest at least as new as the last one whose save returned Ok.
SaveIsDurable ==
  corruptions = 0 /\ pc \notin {"down", "failed"} => version >= committed

\* While CURRENT parses, or without CURRENT while manifest.json does, recovery
\* refuses to start only after as many generation files were corrupted as the
\* store retains: one bad generation never keeps the database down once two were
\* saved.
FailsClosedLate ==
  pc = "failed" =>
    \/ current = Corrupt
    \/ current = 0 /\ legacy = Corrupt
    \/ corruptions >= KeepGenerations
    \/ corruptions >= saves

\* Once a prune_old_generations that removes every file it means to has run, the
\* directory holds at most KEEP_GENERATIONS generations up to the current one,
\* whatever crashes, failed saves and incomplete prunes left behind.
DirectoryBounded ==
  pc = "wal" /\ ~unpruned =>
    Cardinality({g \in Files : g <= generation}) <= KeepGenerations

\* A running server has the segments whose WAL files were deleted: rolling back
\* to an older generation does not orphan billing data.
NothingOrphaned == pc \notin {"down", "failed"} => version >= walDeleted

\* With a CURRENT file, Manifest::load returns an error only when no generation
\* parses.
FailsOnlyWithoutGenerations ==
  pc = "failed" /\ current # 0 => \A g \in Generations : gens[g] \notin Versions

=============================================================================
