--------------------------- MODULE JsonFileProofs ---------------------------
(***************************************************************************)
(* Theorems about JsonFile, for any number of processes, commits, failed   *)
(* file operations, power cuts and damaged files.                          *)
(*                                                                         *)
(* The argument.  Whoever may still replace the primary either owns the    *)
(* lock or has passed the last comparison of its token and still has its   *)
(* temporary file.  There is one such process at a time, because the next  *)
(* owner of the lock removes the temporary files before anything else      *)
(* (OneEntitled).  It therefore has in memory all that was acknowledged    *)
(* and all that a store already renamed but not yet acknowledged, so that  *)
(* its snapshot can replace the primary (NothingLost).  Where the lock is  *)
(* not contended its owner is the only process that works on the files     *)
(* (LockOrder), and the backup trails the primary by one store             *)
(* (BackupTrails).                                                         *)
(***************************************************************************)
EXTENDS JsonFile, FiniteSetTheorems, TLAPS

-----------------------------------------------------------------------------
(* The inductive invariant: types and places *)

File == Snapshot \cup {Missing, Corrupt}

ProcessPlaces == Acquiring \cup Loading \cup Storing \cup Stopped
                   \cup {"ready", "refused", "failed", "closed"}

ControlTypes ==
  /\ pc \in [Processes -> ProcessPlaces]
  /\ release \in [Processes -> Releasing \cup {"no", "done"}]

Locks == [owner : Processes \cup {Ghost}, written : BOOLEAN]

LockTypes == lock \in {NoLock} \cup Locks

FileTypes ==
  /\ primary \in File /\ backup \in File
  /\ synced.primary \in File /\ synced.backup \in File
  /\ acked \subseteq Snapshot
  /\ damages \in Nat
  /\ damages = 0 => Corrupt \notin {primary, backup, synced.primary, synced.backup}

LocalTypes ==
  /\ found \in [Processes -> File]
  /\ generation \in [Processes -> Nat]
  /\ memory \in [Processes -> SUBSET (1 .. MaxCommits)]
  /\ issued \in 0 .. MaxCommits
  /\ DOMAIN temp = Processes /\ DOMAIN seen = Processes
  /\ attempt \in [Processes -> 0 .. 2]

Types == ControlTypes /\ LockTypes /\ FileTypes /\ LocalTypes

(* Places in which a process has no lock file of its own *)
Free == {"off", "lock", "readLock", "rereadLock", "unlinkLock"}

PlaceSound(p) ==
  /\ release[p] # "no" => pc[p] \in Storing \cup {"ready", "closed"}
  /\ ~setting.hasty /\ pc[p] \in Storing => release[p] = "no"
  /\ pc[p] \in {"writeBackup", "copyBackup"} => Exists(found[p])
  /\ pc[p] \in {"writeRecovery", "recover", "syncRecover"} =>
       Exists(found[p]) /\ setting.permit
  /\ pc[p] = "off" => attempt[p] = 0
  /\ pc[p] \in Free => attempt[p] # 2 /\ (lock = NoLock \/ lock.owner # p)

Places == \A p \in Processes : PlaceSound(p)

-----------------------------------------------------------------------------
(* The inductive invariant: the lock *)

Working(p) == pc[p] \in Loading \cup Storing \cup {"ready"}

(* What #acquireLock may take away *)
Unlocked == lock = NoLock \/ ~lock.written \/ ~Alive(lock.owner)

OneAcquires ==
  \A p, q \in Processes : pc[p] \in Acquiring /\ pc[q] \in Acquiring => p = q

(* Whoever works and has not been closed owns the lock, and so does whoever *)
(* is about to release it; what is about to be unlinked is still stale.     *)
OwnerOf(p) ==
  /\ pc[p] = "writeLock" => lock # NoLock /\ lock.owner = p /\ ~lock.written
  /\ (Working(p) /\ release[p] = "no") \/ release[p] = "unlinkOwn" =>
       lock # NoLock /\ lock.owner = p /\ lock.written
  /\ pc[p] \in {"rereadLock", "unlinkLock"} => Unlocked

Owners == \A p \in Processes : OwnerOf(p)

(* The second attempt finds no lock, and a stale lock reads the same twice. *)
AttemptOf(p) ==
  pc[p] \in Acquiring \ {"writeLock"} /\ p \notin failed =>
    /\ attempt[p] # 0 => pc[p] = "lock" /\ lock = NoLock
    /\ pc[p] = "rereadLock" => seen[p] = LockText

Attempts == \A p \in Processes : AttemptOf(p)

(* Holds where the lock is not contended *)
LockOrder == OneAcquires /\ Owners /\ Attempts

(* A process that owns the lock and has removed the temporary files *)
Holds(p) == OwnsLock(p) /\ Working(p) /\ pc[p] # "clean"

(* A process that may replace the primary, now or later *)
Entitled(p) == Holds(p) \/ (pc[p] = "rename" /\ temp[p])

OneEntitled == \A p, q \in Processes : Entitled(p) /\ Entitled(q) => p = q

-----------------------------------------------------------------------------
(* The inductive invariant: the primary *)

(* Nobody may recover from the backup while others may be storing. *)
Careful == setting.permit => ~setting.overlapping /\ ~setting.hasty

Covers(file, snapshots) ==
  Exists(file) => \A s \in snapshots : s.commits \subseteq file.commits

FileSound == Covers(primary, acked) /\ Covers(synced.primary, acked)

(* A snapshot that was renamed but not acknowledged is not lost either. *)
StoredIsIn ==
  \A p \in Processes :
    pc[p] = "syncStore" /\ Exists(primary) => memory[p] \subseteq primary.commits

(* Whoever may replace the primary has in memory what is in it. *)
MemoryComplete ==
  \A p \in Processes : Entitled(p) /\ pc[p] \in Storing \cup {"ready"} =>
    /\ \A s \in acked : s.commits \subseteq memory[p]
    /\ \A q \in Processes : pc[q] = "syncStore" => memory[q] \subseteq memory[p]

(* A primary that the owner of the lock did not find is still not there. *)
ReadFresh ==
  \A p \in Processes :
    Holds(p) /\ pc[p] = "readBackup" /\ found[p] = Missing => primary = Missing

(* A file holds what was acknowledged up to its generation. *)
InLine(file) ==
  Exists(file) => \A s \in acked :
                    s.generation <= file.generation => s.commits \subseteq file.commits

(* What is recovered holds all that is not given up by the recovery. *)
RecoveryComplete ==
  \A p \in Processes :
    /\ pc[p] \in {"writeRecovery", "recover"} => InLine(found[p])
    /\ pc[p] = "syncRecover" => Covers(found[p], acked)

NothingLost ==
  FileSound /\ StoredIsIn /\ MemoryComplete /\ ReadFresh /\ RecoveryComplete

(* One of the two files is there and stays there if the machine stops. *)
Survives == \/ primary # Missing /\ synced.primary # Missing
            \/ backup # Missing /\ synced.backup # Missing

Exposed == primary # Missing \/ (backup # Missing /\ synced.backup # Missing)

(* An empty storage is never what is left of one with commits. *)
NeverEmpty ==
  /\ acked # {} => Survives
  /\ \A p \in Processes : pc[p] = "syncStore" => Exposed

(* No snapshot has the generation of an empty storage. *)
GenerationsCount ==
  /\ Exists(primary) => primary.generation # 0
  /\ Exists(backup) => backup.generation # 0
  /\ Exists(synced.primary) => synced.primary.generation # 0
  /\ Exists(synced.backup) => synced.backup.generation # 0
  /\ \A p \in Processes : Exists(found[p]) => found[p].generation # 0

-----------------------------------------------------------------------------
(* The inductive invariant: the backup *)

(* One process works on the files at a time. *)
Quiet == ~setting.overlapping /\ ~setting.hasty

Busy(p) == Working(p) /\ release[p] = "no"

(* No acknowledged snapshot is newer than generation n. *)
NewestIs(n) == \A s \in acked : s.generation <= n

(* Generations count up from what is acknowledged. *)
AckedBelow ==
  /\ Exists(primary) => NewestIs(primary.generation)
  /\ Exists(synced.primary) => NewestIs(synced.primary.generation)
  /\ \A p \in Processes :
       /\ Busy(p) /\ pc[p] \notin Loading => NewestIs(generation[p])
       /\ pc[p] = "syncRecover" => NewestIs(found[p].generation)
       /\ pc[p] = "syncStore" /\ Exists(primary) =>
            primary.generation = generation[p] + 1

BackupInLine == InLine(backup) /\ InLine(synced.backup)

HoldsRest(file) ==
  file # Corrupt =>
    \A s \in Superseded : Exists(file) /\ s.commits \subseteq file.commits

BackupRest == HoldsRest(backup) /\ HoldsRest(synced.backup)

(* What a store copies to the backup is complete. *)
CopyComplete ==
  \A p \in Processes : pc[p] \in {"writeBackup", "copyBackup"} =>
    /\ found[p].generation = generation[p]
    /\ \A s \in acked : s.commits \subseteq found[p].commits

(* From the copy to its acknowledgement a store has a complete backup. *)
BackupComplete ==
  \A p \in Processes :
    pc[p] \in {"syncBackup", "writeTemp", "recheck", "rename", "syncStore"} =>
      /\ backup = Missing => acked = {}
      /\ Exists(backup) => /\ backup.generation <= generation[p]
                           /\ \A s \in acked : s.commits \subseteq backup.commits

(* A database that has not stored yet opened an empty storage. *)
FreshEmpty ==
  \A p \in Processes : Busy(p) /\ pc[p] \notin Loading /\ generation[p] = 0 =>
    acked = {} /\ backup = Missing

BackupTrails ==
  /\ AckedBelow /\ BackupInLine /\ BackupRest
  /\ CopyComplete /\ BackupComplete /\ FreshEmpty

IInv ==
  /\ Types /\ Places /\ OneEntitled /\ NeverEmpty /\ GenerationsCount
  /\ ~setting.overlapping => LockOrder
  /\ Careful => NothingLost
  /\ Quiet => BackupTrails

-----------------------------------------------------------------------------
(* Facts *)

(* A step of a process *)
Move(p) ==
  \/ Start(p) \/ CreateLock(p) \/ WriteLock(p) \/ ReadLock(p) \/ RereadLock(p)
  \/ UnlinkLock(p) \/ CleanTemps(p) \/ CheckLoad(p) \/ ReadPrimary(p) \/ ReadBackup(p)
  \/ WriteTemp(p) \/ Recover(p) \/ SyncRecover(p) \/ BeginStore(p) \/ CheckStore(p)
  \/ ReadDisk(p) \/ CopyBackup(p) \/ SyncBackup(p) \/ Recheck(p) \/ Rename(p)
  \/ SyncStore(p) \/ Close(p) \/ ReadOwn(p) \/ UnlinkOwn(p) \/ FailOperation(p)
  \/ Die(p)

(* A step is one of a process, unless the machine stops or a file rots. *)
LEMMA NextMoves ==
  ASSUME [Next]_vars
  PROVE  (\E p \in Processes : Move(p)) \/ PowerCut \/ Damage \/ UNCHANGED vars
BY DEF Next, Move

(* A file is a snapshot, missing or corrupt, and never two of them. *)
LEMMA SnapshotFacts ==
  /\ Missing \notin Snapshot /\ Corrupt \notin Snapshot /\ Missing # Corrupt
  /\ Missing \in File /\ Corrupt \in File /\ Snapshot \subseteq File
  /\ \A s \in Snapshot : s.generation \in Nat /\ s.commits \in SUBSET (1 .. MaxCommits)
  /\ \A file \in File : Exists(file) <=> file \in Snapshot
  /\ \A file \in File \ {Corrupt} : GenerationOf(file) \in Nat
BY JsonFileAssumption DEF Snapshot, File, Exists, GenerationOf

(* What a store writes is a snapshot. *)
LEMMA StoredFacts ==
  ASSUME LocalTypes, NEW p \in Processes
  PROVE  /\ Stored(p) \in Snapshot
         /\ Stored(p).generation = generation[p] + 1 /\ Stored(p).commits = memory[p]
BY DEF LocalTypes, Stored, Snapshot

(* A process that recovers is the only one that works on the files. *)
LEMMA RecoversAlone ==
  ASSUME Places, Careful, ~setting.overlapping => LockOrder,
         NEW p \in Processes, pc[p] \in {"writeRecovery", "recover", "syncRecover"}
  PROVE  Quiet /\ \A q \in Processes : pc[q] \in Loading \cup Storing => q = p
<1>1. Quiet
  BY DEF Places, PlaceSound, Careful, Quiet
<1>2. release[p] = "no"
  BY DEF Places, PlaceSound, Storing
<1>3. lock.owner = p
  BY <1>1, <1>2 DEF Quiet, LockOrder, Owners, OwnerOf, Working, Loading
<1>4. ASSUME NEW q \in Processes, pc[q] \in Loading \cup Storing
      PROVE  lock.owner = q
  <2>1. release[q] = "no"
    BY <1>1, <1>4 DEF Places, PlaceSound, Loading, Storing, Quiet
  <2> QED
    BY <1>1, <1>4, <2>1 DEF Quiet, LockOrder, Owners, OwnerOf, Working
<1> QED
  BY <1>1, <1>3, <1>4

(* A process that loads or stores, or has not been closed, is the only one *)
WorksAlone(p) ==
  \A q \in Processes : pc[q] \in Loading \cup Storing \/ Busy(q) => q = p

(* One process works where the lock is not contended and no adapter is     *)
(* closed in haste.                                                        *)
LEMMA BusyAlone ==
  ASSUME Places, Quiet, LockOrder, ControlTypes,
         NEW p \in Processes, pc[p] \in Loading \cup Storing \/ Busy(p)
  PROVE  WorksAlone(p)
BY DEF WorksAlone, Places, PlaceSound, Quiet, LockOrder, Owners, OwnerOf,
   Working, Busy, Loading, Storing

(* Where neither file is found, nothing was ever acknowledged.             *)
LEMMA NothingToFind ==
  ASSUME Places, LockOrder, NothingLost, NeverEmpty,
         NEW p \in Processes, pc[p] = "readBackup", found[p] = Missing, backup = Missing
  PROVE  acked = {}
<1>1. Holds(p)
  BY DEF Holds, OwnsLock, LockText, LockOrder, Owners, OwnerOf, Working,
     Places, PlaceSound, Loading, Storing
<1> QED
  BY <1>1 DEF NothingLost, ReadFresh, NeverEmpty, Survives

(* What the end of a store does *)
StoreEnds(p) ==
  /\ pc[p] = "syncStore" /\ pc' = [pc EXCEPT ![p] = "ready"]
  /\ acked' = acked \cup {Stored(p)}
  /\ Stored(p).generation = generation[p] + 1 /\ generation[p] \in Nat
  /\ generation' = [generation EXCEPT ![p] = generation[p] + 1]
  /\ generation'[p] = generation[p] + 1
  /\ synced'.primary = primary /\ synced'.backup = backup
  /\ UNCHANGED <<primary, backup, found, release>>

(* A store ends with the sync of the directory and its acknowledgement. *)
LEMMA SyncStoreEnds ==
  ASSUME LocalTypes, NEW p \in Processes, SyncStore(p)
  PROVE  StoreEnds(p)
BY StoredFacts
DEF StoreEnds, SyncStore, Step, Go, SyncDirectory, Acknowledge, LocalTypes

(* No process is left that loads, stores or serves when the machine stops. *)
LEMMA PowerCutStops ==
  ASSUME PowerCut, NEW q \in Processes
  PROVE  pc'[q] \notin Loading \cup Storing \cup {"ready"}
BY JsonFileAssumption DEF PowerCut, Lose, Alive, Loading, Storing, Stopped

-----------------------------------------------------------------------------
(* Who writes what *)

(* Files change where they are renamed, synced or damaged and when the     *)
(* machine stops; the lock file changes in few steps; the setting never    *)
(* does.                                                                   *)
LEMMA Writers ==
  ASSUME [Next]_vars
  PROVE  /\ UNCHANGED setting
         /\ UNCHANGED damages \/ Damage
         /\ \/ UNCHANGED <<files, acked>> \/ PowerCut \/ Damage
            \/ \E p \in Processes :
                 \/ Recover(p) \/ SyncRecover(p) \/ CopyBackup(p) \/ SyncBackup(p)
                 \/ Rename(p) \/ SyncStore(p)
         /\ \/ UNCHANGED lock \/ PowerCut
            \/ \E p \in Processes :
                 \/ CreateLock(p) \/ WriteLock(p) \/ UnlinkLock(p)
                 \/ UnlinkOwn(p) \/ FailOperation(p)
<1> USE DEF files, bounds
<1>1. ASSUME NEW p \in Processes, Move(p)
      PROVE  /\ UNCHANGED <<setting, damages>>
             /\ \/ UNCHANGED <<files, acked>>
                \/ Recover(p) \/ SyncRecover(p) \/ CopyBackup(p) \/ SyncBackup(p)
                \/ Rename(p) \/ SyncStore(p)
             /\ \/ UNCHANGED lock
                \/ CreateLock(p) \/ WriteLock(p) \/ UnlinkLock(p)
                \/ UnlinkOwn(p) \/ FailOperation(p)
  <2>1. CASE Start(p) BY <2>1 DEF Start
  <2>2. CASE CreateLock(p) BY <2>2 DEF CreateLock
  <2>3. CASE WriteLock(p) BY <2>3 DEF WriteLock
  <2>4. CASE ReadLock(p) BY <2>4 DEF ReadLock
  <2>5. CASE RereadLock(p) BY <2>5 DEF RereadLock
  <2>6. CASE UnlinkLock(p) BY <2>6 DEF UnlinkLock
  <2>7. CASE CleanTemps(p) BY <2>7 DEF CleanTemps
  <2>8. CASE CheckLoad(p) BY <2>8 DEF CheckLoad
  <2>9. CASE ReadPrimary(p) BY <2>9 DEF ReadPrimary
  <2>10. CASE ReadBackup(p) BY <2>10 DEF ReadBackup
  <2>11. CASE WriteTemp(p) BY <2>11 DEF WriteTemp
  <2>12. CASE Recover(p) BY <2>12 DEF Recover
  <2>13. CASE SyncRecover(p) BY <2>13 DEF SyncRecover, SyncDirectory
  <2>14. CASE BeginStore(p) BY <2>14 DEF BeginStore
  <2>15. CASE CheckStore(p) BY <2>15 DEF CheckStore
  <2>16. CASE ReadDisk(p) BY <2>16 DEF ReadDisk
  <2>17. CASE CopyBackup(p) BY <2>17 DEF CopyBackup
  <2>18. CASE SyncBackup(p) BY <2>18 DEF SyncBackup, SyncDirectory
  <2>19. CASE Recheck(p) BY <2>19 DEF Recheck
  <2>20. CASE Rename(p) BY <2>20 DEF Rename
  <2>21. CASE SyncStore(p) BY <2>21 DEF SyncStore, SyncDirectory, Acknowledge
  <2>22. CASE Close(p) BY <2>22 DEF Close
  <2>23. CASE ReadOwn(p) BY <2>23 DEF ReadOwn
  <2>24. CASE UnlinkOwn(p) BY <2>24 DEF UnlinkOwn
  <2>25. CASE FailOperation(p) BY <2>25 DEF FailOperation
  <2>26. CASE Die(p) BY <2>26 DEF Die, Lose
  <2> QED
    BY <1>1, <2>1, <2>2, <2>3, <2>4, <2>5, <2>6, <2>7, <2>8, <2>9, <2>10,
       <2>11, <2>12, <2>13, <2>14, <2>15, <2>16, <2>17, <2>18, <2>19, <2>20,
       <2>21, <2>22, <2>23, <2>24, <2>25, <2>26
    DEF Move
<1>2. CASE PowerCut
  BY <1>2 DEF PowerCut, Lose
<1>3. CASE Damage
  BY <1>3 DEF Damage
<1>4. CASE UNCHANGED vars
  BY <1>4 DEF vars
<1> QED
  BY <1>1, <1>2, <1>3, <1>4, NextMoves

-----------------------------------------------------------------------------
(* Types and places *)

(* Every step leads a process to a place of the program. *)
LEMMA ControlTypesKept ==
  ASSUME ControlTypes, [Next]_vars
  PROVE  ControlTypes'
<1> USE DEF ControlTypes, ProcessPlaces, Acquiring, Loading, Storing, Stopped,
        Releasing, files, locals, bounds
<1>1. ASSUME NEW p \in Processes, Move(p) PROVE ControlTypes'
  <2>1. CASE Start(p) BY <2>1 DEF Start, Step, Go
  <2>2. CASE CreateLock(p) BY <2>2 DEF CreateLock, Go
  <2>3. CASE WriteLock(p) BY <2>3 DEF WriteLock, Step, Go
  <2>4. CASE ReadLock(p) BY <2>4 DEF ReadLock, Go, LockText
  <2>5. CASE RereadLock(p) BY <2>5 DEF RereadLock, Retry, Go, LockText
  <2>6. CASE UnlinkLock(p) BY <2>6 DEF UnlinkLock, Retry, Go
  <2>7. CASE CleanTemps(p) BY <2>7 DEF CleanTemps, Step, Go
  <2>8. CASE CheckLoad(p) BY <2>8 DEF CheckLoad, Proceed, GiveUp, Go
  <2>9. CASE ReadPrimary(p) BY <2>9 DEF ReadPrimary, Serve, Go
  <2>10. CASE ReadBackup(p)
    BY <2>10 DEF ReadBackup, Serve, Proceed, GiveUp, Go, MayRecover
  <2>11. CASE WriteTemp(p) BY <2>11 DEF WriteTemp, Step, Go
  <2>12. CASE Recover(p) BY <2>12 DEF Recover, Drop, Proceed, GiveUp, Go
  <2>13. CASE SyncRecover(p) BY <2>13 DEF SyncRecover, SyncDirectory, Serve, Go
  <2>14. CASE BeginStore(p) BY <2>14 DEF BeginStore, Step, Go
  <2>15. CASE CheckStore(p) BY <2>15 DEF CheckStore, Step, Go
  <2>16. CASE ReadDisk(p) BY <2>16 DEF ReadDisk, Go, NeedsBackup, GenerationOf
  <2>17. CASE CopyBackup(p) BY <2>17 DEF CopyBackup, Drop, Go
  <2>18. CASE SyncBackup(p) BY <2>18 DEF SyncBackup, SyncDirectory, Step, Go
  <2>19. CASE Recheck(p) BY <2>19 DEF Recheck, Drop, Go
  <2>20. CASE Rename(p) BY <2>20 DEF Rename, Drop, Go, Stored
  <2>21. CASE SyncStore(p)
    BY <2>21 DEF SyncStore, SyncDirectory, Acknowledge, Stored, Step, Go
  <2>22. CASE Close(p) BY <2>22 DEF Close
  <2>23. CASE ReadOwn(p) BY <2>23 DEF ReadOwn
  <2>24. CASE UnlinkOwn(p) BY <2>24 DEF UnlinkOwn
  <2>25. CASE FailOperation(p)
    BY <2>25 DEF FailOperation, Retry, Proceed, GiveUp, Step, Drop, Go
  <2>26. CASE Die(p) BY <2>26 DEF Die, Lose
  <2> QED
    BY <1>1, <2>1, <2>2, <2>3, <2>4, <2>5, <2>6, <2>7, <2>8, <2>9, <2>10,
       <2>11, <2>12, <2>13, <2>14, <2>15, <2>16, <2>17, <2>18, <2>19, <2>20,
       <2>21, <2>22, <2>23, <2>24, <2>25, <2>26
    DEF Move
<1>2. CASE PowerCut
  BY <1>2 DEF PowerCut, Lose
<1>3. CASE Damage
  BY <1>3 DEF Damage
<1>4. CASE UNCHANGED vars
  BY <1>4 DEF vars
<1> QED
  BY <1>1, <1>2, <1>3, <1>4, NextMoves

(* The lock file has an owner and is written or not. *)
LEMMA LockTypesKept ==
  ASSUME LockTypes, [Next]_vars
  PROVE  LockTypes'
<1> USE DEF LockTypes, Locks
<1>1. ASSUME NEW p \in Processes, CreateLock(p) PROVE LockTypes'
  <2>1. [owner |-> p, written |-> FALSE] \in Locks
    OBVIOUS
  <2>2. lock' = lock \/ lock' = [owner |-> p, written |-> FALSE]
    BY <1>1 DEF CreateLock
  <2> QED
    BY <2>1, <2>2
<1>2. ASSUME NEW p \in Processes, WriteLock(p) PROVE LockTypes'
  BY <1>2 DEF WriteLock, Step, Go
<1>3. ASSUME NEW p \in Processes, UnlinkLock(p) PROVE LockTypes'
  BY <1>3 DEF UnlinkLock, Retry, Go
<1>4. ASSUME NEW p \in Processes, UnlinkOwn(p) PROVE LockTypes'
  BY <1>4 DEF UnlinkOwn
<1>5. ASSUME NEW p \in Processes, FailOperation(p) PROVE LockTypes'
  BY <1>5 DEF FailOperation, Retry, Proceed, GiveUp, Step, Drop, Go
<1>6. ASSUME PowerCut PROVE LockTypes'
  BY <1>6 DEF PowerCut, Lose
<1>7. CASE UNCHANGED lock
  BY <1>7 DEF files
<1> QED
  BY <1>1, <1>2, <1>3, <1>4, <1>5, <1>6, <1>7, Writers

(* Files hold snapshots, or nothing, and rot only by damage. *)
LEMMA FileTypesKept ==
  ASSUME FileTypes, LocalTypes, Places, [Next]_vars
  PROVE  FileTypes'
<1> USE SnapshotFacts, StoredFacts DEF FileTypes, LocalTypes, Places,
        PlaceSound, File, locals, bounds
<1>1. ASSUME NEW p \in Processes, Recover(p) PROVE FileTypes'
  BY <1>1 DEF Recover, Drop, Proceed, GiveUp, Go
<1>2. ASSUME NEW p \in Processes, SyncRecover(p) PROVE FileTypes'
  BY <1>2 DEF SyncRecover, SyncDirectory, Serve, Go
<1>3. ASSUME NEW p \in Processes, CopyBackup(p) PROVE FileTypes'
  BY <1>3 DEF CopyBackup, Drop, Go
<1>4. ASSUME NEW p \in Processes, SyncBackup(p) PROVE FileTypes'
  BY <1>4 DEF SyncBackup, SyncDirectory, Step, Go
<1>5. ASSUME NEW p \in Processes, Rename(p) PROVE FileTypes'
  BY <1>5, StoredFacts DEF Rename
<1>6. ASSUME NEW p \in Processes, SyncStore(p) PROVE FileTypes'
  BY <1>6, StoredFacts DEF SyncStore, Acknowledge, SyncDirectory
<1>7. ASSUME PowerCut PROVE FileTypes'
  BY <1>7 DEF PowerCut, Lose
<1>8. ASSUME Damage PROVE FileTypes'
  BY <1>8 DEF Damage
<1>9. CASE UNCHANGED <<files, acked, damages>>
  BY <1>9 DEF files
<1> QED
  BY <1>1, <1>2, <1>3, <1>4, <1>5, <1>6, <1>7, <1>8, <1>9, Writers

(* The fields of adapters and databases keep their types; there is no      *)
(* third attempt.                                                          *)
LEMMA LocalTypesKept ==
  ASSUME LocalTypes, FileTypes, Places, [Next]_vars
  PROVE  LocalTypes'
<1> USE SnapshotFacts, JsonFileAssumption DEF LocalTypes, FileTypes, Places,
        PlaceSound, Free, locals, bounds
<1>1. ASSUME NEW p \in Processes, Move(p) PROVE LocalTypes'
  <2>1. CASE Start(p) BY <2>1 DEF Start, Step, Go
  <2>2. CASE CreateLock(p) BY <2>2 DEF CreateLock, Go
  <2>3. CASE WriteLock(p) BY <2>3 DEF WriteLock, Step, Go
  <2>4. CASE ReadLock(p) BY <2>4 DEF ReadLock, Go, LockText
  <2>5. CASE RereadLock(p) BY <2>5 DEF RereadLock, Retry, Go, LockText
  <2>6. CASE UnlinkLock(p) BY <2>6 DEF UnlinkLock, Retry, Go
  <2>7. CASE CleanTemps(p) BY <2>7 DEF CleanTemps, Step, Go
  <2>8. CASE CheckLoad(p) BY <2>8 DEF CheckLoad, Proceed, GiveUp, Go
  <2>9. CASE ReadPrimary(p) BY <2>9 DEF ReadPrimary, Serve, Go
  <2>10. CASE ReadBackup(p)
    BY <2>10 DEF ReadBackup, Serve, Proceed, GiveUp, Go, MayRecover
  <2>11. CASE WriteTemp(p) BY <2>11 DEF WriteTemp, Step, Go
  <2>12. CASE Recover(p) BY <2>12 DEF Recover, Drop, Proceed, GiveUp, Go
  <2>13. CASE SyncRecover(p) BY <2>13 DEF SyncRecover, SyncDirectory, Serve, Go
  <2>14. CASE BeginStore(p) BY <2>14 DEF BeginStore, Step, Go
  <2>15. CASE CheckStore(p) BY <2>15 DEF CheckStore, Step, Go
  <2>16. CASE ReadDisk(p) BY <2>16 DEF ReadDisk, Go, NeedsBackup, GenerationOf
  <2>17. CASE CopyBackup(p) BY <2>17 DEF CopyBackup, Drop, Go
  <2>18. CASE SyncBackup(p) BY <2>18 DEF SyncBackup, SyncDirectory, Step, Go
  <2>19. CASE Recheck(p) BY <2>19 DEF Recheck, Drop, Go
  <2>20. CASE Rename(p) BY <2>20 DEF Rename, Drop, Go, Stored
  <2>21. CASE SyncStore(p)
    BY <2>21 DEF SyncStore, SyncDirectory, Acknowledge, Stored, Step, Go
  <2>22. CASE Close(p) BY <2>22 DEF Close
  <2>23. CASE ReadOwn(p) BY <2>23 DEF ReadOwn
  <2>24. CASE UnlinkOwn(p) BY <2>24 DEF UnlinkOwn
  <2>25. CASE FailOperation(p)
    BY <2>25 DEF FailOperation, Retry, Proceed, GiveUp, Step, Drop, Go
  <2>26. CASE Die(p) BY <2>26 DEF Die, Lose
  <2> QED
    BY <1>1, <2>1, <2>2, <2>3, <2>4, <2>5, <2>6, <2>7, <2>8, <2>9, <2>10,
       <2>11, <2>12, <2>13, <2>14, <2>15, <2>16, <2>17, <2>18, <2>19, <2>20,
       <2>21, <2>22, <2>23, <2>24, <2>25, <2>26
    DEF Move
<1>2. CASE PowerCut
  BY <1>2 DEF PowerCut, Lose
<1>3. CASE Damage
  BY <1>3 DEF Damage
<1>4. CASE UNCHANGED vars
  BY <1>4 DEF vars
<1> QED
  BY <1>1, <1>2, <1>3, <1>4, NextMoves

(* Where a process is goes with what it has found and with the progress of *)
(* close().                                                                *)
LEMMA PlacesKept ==
  ASSUME ControlTypes, LockTypes, LocalTypes, FileTypes, Places, [Next]_vars
  PROVE  Places'
<1> USE SnapshotFacts DEF Places, PlaceSound, Free, LockTypes, Locks,
        LocalTypes, FileTypes, File, Exists, ControlTypes, ProcessPlaces,
        Acquiring, Loading, Storing, Stopped, Releasing, files, locals, bounds
<1>1. ASSUME NEW p \in Processes, Move(p) PROVE Places'
  <2>1. CASE Start(p) BY <2>1 DEF Start, Step, Go
  <2>2. CASE CreateLock(p) BY <2>2 DEF CreateLock, Go
  <2>3. CASE WriteLock(p) BY <2>3 DEF WriteLock, Step, Go
  <2>4. CASE ReadLock(p) BY <2>4 DEF ReadLock, Go, LockText
  <2>5. CASE RereadLock(p) BY <2>5 DEF RereadLock, Retry, Go, LockText
  <2>6. CASE UnlinkLock(p) BY <2>6 DEF UnlinkLock, Retry, Go
  <2>7. CASE CleanTemps(p) BY <2>7 DEF CleanTemps, Step, Go
  <2>8. CASE CheckLoad(p) BY <2>8 DEF CheckLoad, Proceed, GiveUp, Go
  <2>9. CASE ReadPrimary(p) BY <2>9 DEF ReadPrimary, Serve, Go
  <2>10. CASE ReadBackup(p)
    BY <2>10 DEF ReadBackup, Serve, Proceed, GiveUp, Go, MayRecover
  <2>11. CASE WriteTemp(p) BY <2>11 DEF WriteTemp, Step, Go
  <2>12. CASE Recover(p) BY <2>12 DEF Recover, Drop, Proceed, GiveUp, Go
  <2>13. CASE SyncRecover(p) BY <2>13 DEF SyncRecover, SyncDirectory, Serve, Go
  <2>14. CASE BeginStore(p) BY <2>14 DEF BeginStore, Step, Go
  <2>15. CASE CheckStore(p) BY <2>15 DEF CheckStore, Step, Go
  <2>16. CASE ReadDisk(p) BY <2>16 DEF ReadDisk, Go, NeedsBackup, GenerationOf
  <2>17. CASE CopyBackup(p) BY <2>17 DEF CopyBackup, Drop, Go
  <2>18. CASE SyncBackup(p) BY <2>18 DEF SyncBackup, SyncDirectory, Step, Go
  <2>19. CASE Recheck(p) BY <2>19 DEF Recheck, Drop, Go
  <2>20. CASE Rename(p) BY <2>20 DEF Rename, Drop, Go, Stored
  <2>21. CASE SyncStore(p)
    BY <2>21 DEF SyncStore, SyncDirectory, Acknowledge, Stored, Step, Go
  <2>22. CASE Close(p) BY <2>22 DEF Close
  <2>23. CASE ReadOwn(p) BY <2>23 DEF ReadOwn
  <2>24. CASE UnlinkOwn(p) BY <2>24 DEF UnlinkOwn
  <2>25. CASE FailOperation(p)
    BY <2>25 DEF FailOperation, Retry, Proceed, GiveUp, Step, Drop, Go
  <2>26. CASE Die(p) BY <2>26 DEF Die, Lose
  <2> QED
    BY <1>1, <2>1, <2>2, <2>3, <2>4, <2>5, <2>6, <2>7, <2>8, <2>9, <2>10,
       <2>11, <2>12, <2>13, <2>14, <2>15, <2>16, <2>17, <2>18, <2>19, <2>20,
       <2>21, <2>22, <2>23, <2>24, <2>25, <2>26
    DEF Move
<1>2. CASE PowerCut
  BY <1>2 DEF PowerCut, Lose
<1>3. CASE Damage
  BY <1>3 DEF Damage
<1>4. CASE UNCHANGED vars
  BY <1>4 DEF vars
<1> QED
  BY <1>1, <1>2, <1>3, <1>4, NextMoves

-----------------------------------------------------------------------------
(* The lock *)

(* A process starts to acquire the lock when no other one does. *)
LEMMA OneAcquiresKept ==
  ASSUME ControlTypes, LockTypes, LocalTypes, Places, ~setting.overlapping,
         OneAcquires, [Next]_vars
  PROVE  OneAcquires'
<1> USE DEF Places, PlaceSound, Free, OneAcquires, ControlTypes, ProcessPlaces,
        Acquiring, Loading, Storing, Stopped, Releasing, files, locals, bounds
<1>1. ASSUME NEW p \in Processes, Move(p) PROVE OneAcquires'
  <2>1. CASE Start(p) BY <2>1 DEF Start, Step, Go
  <2>2. CASE CreateLock(p) BY <2>2 DEF CreateLock, Go
  <2>3. CASE WriteLock(p) BY <2>3 DEF WriteLock, Step, Go
  <2>4. CASE ReadLock(p) BY <2>4 DEF ReadLock, Go, LockText
  <2>5. CASE RereadLock(p) BY <2>5 DEF RereadLock, Retry, Go, LockText
  <2>6. CASE UnlinkLock(p) BY <2>6 DEF UnlinkLock, Retry, Go
  <2>7. CASE CleanTemps(p) BY <2>7 DEF CleanTemps, Step, Go
  <2>8. CASE CheckLoad(p) BY <2>8 DEF CheckLoad, Proceed, GiveUp, Go
  <2>9. CASE ReadPrimary(p) BY <2>9 DEF ReadPrimary, Serve, Go
  <2>10. CASE ReadBackup(p)
    BY <2>10 DEF ReadBackup, Serve, Proceed, GiveUp, Go, MayRecover
  <2>11. CASE WriteTemp(p) BY <2>11 DEF WriteTemp, Step, Go
  <2>12. CASE Recover(p) BY <2>12 DEF Recover, Drop, Proceed, GiveUp, Go
  <2>13. CASE SyncRecover(p) BY <2>13 DEF SyncRecover, SyncDirectory, Serve, Go
  <2>14. CASE BeginStore(p) BY <2>14 DEF BeginStore, Step, Go
  <2>15. CASE CheckStore(p) BY <2>15 DEF CheckStore, Step, Go
  <2>16. CASE ReadDisk(p) BY <2>16 DEF ReadDisk, Go, NeedsBackup, GenerationOf
  <2>17. CASE CopyBackup(p) BY <2>17 DEF CopyBackup, Drop, Go
  <2>18. CASE SyncBackup(p) BY <2>18 DEF SyncBackup, SyncDirectory, Step, Go
  <2>19. CASE Recheck(p) BY <2>19 DEF Recheck, Drop, Go
  <2>20. CASE Rename(p) BY <2>20 DEF Rename, Drop, Go, Stored
  <2>21. CASE SyncStore(p)
    BY <2>21 DEF SyncStore, SyncDirectory, Acknowledge, Stored, Step, Go
  <2>22. CASE Close(p) BY <2>22 DEF Close
  <2>23. CASE ReadOwn(p) BY <2>23 DEF ReadOwn
  <2>24. CASE UnlinkOwn(p) BY <2>24 DEF UnlinkOwn
  <2>25. CASE FailOperation(p)
    BY <2>25 DEF FailOperation, Retry, Proceed, GiveUp, Step, Drop, Go
  <2>26. CASE Die(p) BY <2>26 DEF Die, Lose
  <2> QED
    BY <1>1, <2>1, <2>2, <2>3, <2>4, <2>5, <2>6, <2>7, <2>8, <2>9, <2>10,
       <2>11, <2>12, <2>13, <2>14, <2>15, <2>16, <2>17, <2>18, <2>19, <2>20,
       <2>21, <2>22, <2>23, <2>24, <2>25, <2>26
    DEF Move
<1>2. CASE PowerCut
  BY <1>2 DEF PowerCut, Lose
<1>3. CASE Damage
  BY <1>3 DEF Damage
<1>4. CASE UNCHANGED vars
  BY <1>4 DEF vars
<1> QED
  BY <1>1, <1>2, <1>3, <1>4, NextMoves

(* No step takes the lock from a process that works: a written token of a  *)
(* live process is respected, and the only process that acquires was the   *)
(* only one to see a stale lock.                                           *)
LEMMA OwnersKept ==
  ASSUME ControlTypes, LockTypes, LocalTypes, Places, ~setting.overlapping,
         OneAcquires, Owners, [Next]_vars
  PROVE  Owners'
<1> USE JsonFileAssumption DEF Owners, OwnerOf, Working, Unlocked, Alive,
        LockTypes, Locks, OwnsLock, LockText, Places, PlaceSound, Free,
        OneAcquires, ControlTypes, ProcessPlaces, Acquiring, Loading, Storing,
        Stopped, Releasing, files, locals, bounds
<1>1. ASSUME NEW p \in Processes, Move(p) PROVE Owners'
  <2>1. CASE Start(p) BY <2>1 DEF Start, Step, Go
  <2>2. CASE CreateLock(p)
    <3>1. CASE lock # NoLock
      BY <2>2, <3>1
      DEF CreateLock, Go, Owners, OwnerOf, Working, Unlocked, Alive,
          ControlTypes, Loading, Storing, locals
    <3>2. CASE lock = NoLock
      <4>1. /\ lock' = [owner |-> p, written |-> FALSE]
            /\ pc' = [pc EXCEPT ![p] = "writeLock"] /\ UNCHANGED release
        BY <2>2, <3>2 DEF CreateLock, Go
      <4>2. lock' \in Locks
        BY <4>1
      <4>3. lock' # NoLock /\ lock'.owner = p /\ ~lock'.written
        BY <4>1, <4>2, JsonFileAssumption
      <4> QED
        BY <2>2, <3>2, <4>1, <4>3
        DEF CreateLock, Owners, OwnerOf, Working, OneAcquires, Acquiring,
            Loading, Storing, ControlTypes, Places, PlaceSound
    <3> QED BY <3>1, <3>2
  <2>3. CASE WriteLock(p)
    <3>1. lock # NoLock /\ lock.owner = p /\ pc[p] = "writeLock"
      BY <2>3 DEF WriteLock, Step, Owners, OwnerOf
    <3>2. lock' = [lock EXCEPT !.written = TRUE] /\ lock \in Locks
      BY <2>3, <3>1 DEF WriteLock, LockTypes
    <3>3. lock' \in Locks
      BY <3>2
    <3>4. lock' # NoLock /\ lock'.owner = p /\ lock'.written
      BY <3>1, <3>2, <3>3, JsonFileAssumption
    <3>5. pc' = [pc EXCEPT ![p] = "clean"] /\ UNCHANGED release
      BY <2>3 DEF WriteLock, Step, Go
    <3> QED
      BY <3>1, <3>4, <3>5
      DEF Owners, OwnerOf, Working, OneAcquires, Acquiring, Loading, Storing,
          ControlTypes, Places, PlaceSound
  <2>4. CASE ReadLock(p) BY <2>4 DEF ReadLock, Go, LockText
  <2>5. CASE RereadLock(p) BY <2>5 DEF RereadLock, Retry, Go, LockText
  <2>6. CASE UnlinkLock(p) BY <2>6 DEF UnlinkLock, Retry, Go
  <2>7. CASE CleanTemps(p) BY <2>7 DEF CleanTemps, Step, Go
  <2>8. CASE CheckLoad(p) BY <2>8 DEF CheckLoad, Proceed, GiveUp, Go
  <2>9. CASE ReadPrimary(p) BY <2>9 DEF ReadPrimary, Serve, Go
  <2>10. CASE ReadBackup(p)
    BY <2>10 DEF ReadBackup, Serve, Proceed, GiveUp, Go, MayRecover
  <2>11. CASE WriteTemp(p) BY <2>11 DEF WriteTemp, Step, Go
  <2>12. CASE Recover(p) BY <2>12 DEF Recover, Drop, Proceed, GiveUp, Go
  <2>13. CASE SyncRecover(p) BY <2>13 DEF SyncRecover, SyncDirectory, Serve, Go
  <2>14. CASE BeginStore(p) BY <2>14 DEF BeginStore, Step, Go
  <2>15. CASE CheckStore(p) BY <2>15 DEF CheckStore, Step, Go
  <2>16. CASE ReadDisk(p) BY <2>16 DEF ReadDisk, Go, NeedsBackup, GenerationOf
  <2>17. CASE CopyBackup(p) BY <2>17 DEF CopyBackup, Drop, Go
  <2>18. CASE SyncBackup(p) BY <2>18 DEF SyncBackup, SyncDirectory, Step, Go
  <2>19. CASE Recheck(p) BY <2>19 DEF Recheck, Drop, Go
  <2>20. CASE Rename(p) BY <2>20 DEF Rename, Drop, Go, Stored
  <2>21. CASE SyncStore(p)
    BY <2>21 DEF SyncStore, SyncDirectory, Acknowledge, Stored, Step, Go
  <2>22. CASE Close(p) BY <2>22 DEF Close
  <2>23. CASE ReadOwn(p) BY <2>23 DEF ReadOwn
  <2>24. CASE UnlinkOwn(p) BY <2>24 DEF UnlinkOwn
  <2>25. CASE FailOperation(p)
    BY <2>25 DEF FailOperation, Retry, Proceed, GiveUp, Step, Drop, Go
  <2>26. CASE Die(p) BY <2>26 DEF Die, Lose
  <2> QED
    BY <1>1, <2>1, <2>2, <2>3, <2>4, <2>5, <2>6, <2>7, <2>8, <2>9, <2>10,
       <2>11, <2>12, <2>13, <2>14, <2>15, <2>16, <2>17, <2>18, <2>19, <2>20,
       <2>21, <2>22, <2>23, <2>24, <2>25, <2>26
    DEF Move
<1>2. CASE PowerCut
  BY <1>2 DEF PowerCut, Lose
<1>3. CASE Damage
  BY <1>3 DEF Damage
<1>4. CASE UNCHANGED vars
  BY <1>4 DEF vars
<1> QED
  BY <1>1, <1>2, <1>3, <1>4, NextMoves

(* What the only process that acquires has read of the lock is not changed *)
(* by others.                                                              *)
LEMMA AttemptsKept ==
  ASSUME ControlTypes, LockTypes, LocalTypes, Places, ~setting.overlapping,
         OneAcquires, Owners, Attempts, [Next]_vars
  PROVE  Attempts'
<1> USE JsonFileAssumption DEF Owners, OwnerOf, Working, Unlocked, Alive,
        LockTypes, Locks, OwnsLock, LockText, Attempts, AttemptOf, LocalTypes,
        Places, PlaceSound, Free, OneAcquires, ControlTypes, ProcessPlaces,
        Acquiring, Loading, Storing, Stopped, Releasing, files, locals, bounds
<1>1. ASSUME NEW p \in Processes, Move(p) PROVE Attempts'
  <2>1. CASE Start(p) BY <2>1 DEF Start, Step, Go
  <2>2. CASE CreateLock(p) BY <2>2 DEF CreateLock, Go
  <2>3. CASE WriteLock(p) BY <2>3 DEF WriteLock, Step, Go
  <2>4. CASE ReadLock(p) BY <2>4 DEF ReadLock, Go, LockText
  <2>5. CASE RereadLock(p) BY <2>5 DEF RereadLock, Retry, Go, LockText
  <2>6. CASE UnlinkLock(p) BY <2>6 DEF UnlinkLock, Retry, Go
  <2>7. CASE CleanTemps(p) BY <2>7 DEF CleanTemps, Step, Go
  <2>8. CASE CheckLoad(p) BY <2>8 DEF CheckLoad, Proceed, GiveUp, Go
  <2>9. CASE ReadPrimary(p) BY <2>9 DEF ReadPrimary, Serve, Go
  <2>10. CASE ReadBackup(p)
    BY <2>10 DEF ReadBackup, Serve, Proceed, GiveUp, Go, MayRecover
  <2>11. CASE WriteTemp(p) BY <2>11 DEF WriteTemp, Step, Go
  <2>12. CASE Recover(p) BY <2>12 DEF Recover, Drop, Proceed, GiveUp, Go
  <2>13. CASE SyncRecover(p) BY <2>13 DEF SyncRecover, SyncDirectory, Serve, Go
  <2>14. CASE BeginStore(p) BY <2>14 DEF BeginStore, Step, Go
  <2>15. CASE CheckStore(p) BY <2>15 DEF CheckStore, Step, Go
  <2>16. CASE ReadDisk(p) BY <2>16 DEF ReadDisk, Go, NeedsBackup, GenerationOf
  <2>17. CASE CopyBackup(p) BY <2>17 DEF CopyBackup, Drop, Go
  <2>18. CASE SyncBackup(p) BY <2>18 DEF SyncBackup, SyncDirectory, Step, Go
  <2>19. CASE Recheck(p) BY <2>19 DEF Recheck, Drop, Go
  <2>20. CASE Rename(p) BY <2>20 DEF Rename, Drop, Go, Stored
  <2>21. CASE SyncStore(p)
    BY <2>21 DEF SyncStore, SyncDirectory, Acknowledge, Stored, Step, Go
  <2>22. CASE Close(p) BY <2>22 DEF Close
  <2>23. CASE ReadOwn(p) BY <2>23 DEF ReadOwn
  <2>24. CASE UnlinkOwn(p) BY <2>24 DEF UnlinkOwn
  <2>25. CASE FailOperation(p)
    BY <2>25 DEF FailOperation, Retry, Proceed, GiveUp, Step, Drop, Go
  <2>26. CASE Die(p) BY <2>26 DEF Die, Lose
  <2> QED
    BY <1>1, <2>1, <2>2, <2>3, <2>4, <2>5, <2>6, <2>7, <2>8, <2>9, <2>10,
       <2>11, <2>12, <2>13, <2>14, <2>15, <2>16, <2>17, <2>18, <2>19, <2>20,
       <2>21, <2>22, <2>23, <2>24, <2>25, <2>26
    DEF Move
<1>2. CASE PowerCut
  BY <1>2 DEF PowerCut, Lose
<1>3. CASE Damage
  BY <1>3 DEF Damage
<1>4. CASE UNCHANGED vars
  BY <1>4 DEF vars
<1> QED
  BY <1>1, <1>2, <1>3, <1>4, NextMoves

(* Contended or not, one process at a time may replace the primary: a new  *)
(* owner is not entitled before it has removed the temporary file of the   *)
(* last one.                                                               *)
LEMMA OneEntitledKept ==
  ASSUME ControlTypes, LockTypes, LocalTypes, Places, OneEntitled, [Next]_vars
  PROVE  OneEntitled'
<1> USE JsonFileAssumption DEF OneEntitled, Entitled, Holds, Working, OwnsLock,
        LockText, LockTypes, Locks, LocalTypes, ControlTypes, ProcessPlaces,
        Acquiring, Loading, Storing, Stopped, Releasing, files, locals, bounds
<1>1. ASSUME NEW p \in Processes, Move(p) PROVE OneEntitled'
  <2>1. CASE Start(p) BY <2>1 DEF Start, Step, Go
  <2>2. CASE CreateLock(p) BY <2>2 DEF CreateLock, Go
  <2>3. CASE WriteLock(p) BY <2>3 DEF WriteLock, Step, Go
  <2>4. CASE ReadLock(p) BY <2>4 DEF ReadLock, Go, LockText
  <2>5. CASE RereadLock(p) BY <2>5 DEF RereadLock, Retry, Go, LockText
  <2>6. CASE UnlinkLock(p) BY <2>6 DEF UnlinkLock, Retry, Go
  <2>7. CASE CleanTemps(p) BY <2>7 DEF CleanTemps, Step, Go
  <2>8. CASE CheckLoad(p) BY <2>8 DEF CheckLoad, Proceed, GiveUp, Go
  <2>9. CASE ReadPrimary(p) BY <2>9 DEF ReadPrimary, Serve, Go
  <2>10. CASE ReadBackup(p)
    BY <2>10 DEF ReadBackup, Serve, Proceed, GiveUp, Go, MayRecover
  <2>11. CASE WriteTemp(p) BY <2>11 DEF WriteTemp, Step, Go
  <2>12. CASE Recover(p) BY <2>12 DEF Recover, Drop, Proceed, GiveUp, Go
  <2>13. CASE SyncRecover(p) BY <2>13 DEF SyncRecover, SyncDirectory, Serve, Go
  <2>14. CASE BeginStore(p) BY <2>14 DEF BeginStore, Step, Go
  <2>15. CASE CheckStore(p) BY <2>15 DEF CheckStore, Step, Go
  <2>16. CASE ReadDisk(p) BY <2>16 DEF ReadDisk, Go, NeedsBackup, GenerationOf
  <2>17. CASE CopyBackup(p) BY <2>17 DEF CopyBackup, Drop, Go
  <2>18. CASE SyncBackup(p) BY <2>18 DEF SyncBackup, SyncDirectory, Step, Go
  <2>19. CASE Recheck(p) BY <2>19 DEF Recheck, Drop, Go
  <2>20. CASE Rename(p) BY <2>20 DEF Rename, Drop, Go, Stored
  <2>21. CASE SyncStore(p)
    BY <2>21 DEF SyncStore, SyncDirectory, Acknowledge, Stored, Step, Go
  <2>22. CASE Close(p) BY <2>22 DEF Close
  <2>23. CASE ReadOwn(p) BY <2>23 DEF ReadOwn
  <2>24. CASE UnlinkOwn(p) BY <2>24 DEF UnlinkOwn
  <2>25. CASE FailOperation(p)
    BY <2>25 DEF FailOperation, Retry, Proceed, GiveUp, Step, Drop, Go
  <2>26. CASE Die(p) BY <2>26 DEF Die, Lose
  <2> QED
    BY <1>1, <2>1, <2>2, <2>3, <2>4, <2>5, <2>6, <2>7, <2>8, <2>9, <2>10,
       <2>11, <2>12, <2>13, <2>14, <2>15, <2>16, <2>17, <2>18, <2>19, <2>20,
       <2>21, <2>22, <2>23, <2>24, <2>25, <2>26
    DEF Move
<1>2. CASE PowerCut
  BY <1>2 DEF PowerCut, Lose
<1>3. CASE Damage
  BY <1>3 DEF Damage
<1>4. CASE UNCHANGED vars
  BY <1>4 DEF vars
<1> QED
  BY <1>1, <1>2, <1>3, <1>4, NextMoves

-----------------------------------------------------------------------------
(* The primary *)

(* The first acknowledgement follows a sync of the directory, and no step  *)
(* removes both files.                                                     *)
LEMMA NeverEmptyKept ==
  ASSUME ControlTypes, FileTypes, LocalTypes, Places, NeverEmpty, [Next]_vars
  PROVE  NeverEmpty'
<1> USE SnapshotFacts, StoredFacts, JsonFileAssumption DEF NeverEmpty,
        Survives, Exposed, Exists, Places, PlaceSound, LocalTypes, FileTypes,
        ControlTypes, ProcessPlaces, Acquiring, Loading, Storing, Stopped,
        Releasing, files, locals, bounds
<1>1. ASSUME NEW p \in Processes, Move(p) PROVE NeverEmpty'
  <2>1. CASE Start(p) BY <2>1 DEF Start, Step, Go
  <2>2. CASE CreateLock(p) BY <2>2 DEF CreateLock, Go
  <2>3. CASE WriteLock(p) BY <2>3 DEF WriteLock, Step, Go
  <2>4. CASE ReadLock(p) BY <2>4 DEF ReadLock, Go, LockText
  <2>5. CASE RereadLock(p) BY <2>5 DEF RereadLock, Retry, Go, LockText
  <2>6. CASE UnlinkLock(p) BY <2>6 DEF UnlinkLock, Retry, Go
  <2>7. CASE CleanTemps(p) BY <2>7 DEF CleanTemps, Step, Go
  <2>8. CASE CheckLoad(p) BY <2>8 DEF CheckLoad, Proceed, GiveUp, Go
  <2>9. CASE ReadPrimary(p) BY <2>9 DEF ReadPrimary, Serve, Go
  <2>10. CASE ReadBackup(p)
    BY <2>10 DEF ReadBackup, Serve, Proceed, GiveUp, Go, MayRecover
  <2>11. CASE WriteTemp(p) BY <2>11 DEF WriteTemp, Step, Go
  <2>12. CASE Recover(p) BY <2>12 DEF Recover, Drop, Proceed, GiveUp, Go
  <2>13. CASE SyncRecover(p) BY <2>13 DEF SyncRecover, SyncDirectory, Serve, Go
  <2>14. CASE BeginStore(p) BY <2>14 DEF BeginStore, Step, Go
  <2>15. CASE CheckStore(p) BY <2>15 DEF CheckStore, Step, Go
  <2>16. CASE ReadDisk(p) BY <2>16 DEF ReadDisk, Go, NeedsBackup, GenerationOf
  <2>17. CASE CopyBackup(p) BY <2>17 DEF CopyBackup, Drop, Go
  <2>18. CASE SyncBackup(p) BY <2>18 DEF SyncBackup, SyncDirectory, Step, Go
  <2>19. CASE Recheck(p) BY <2>19 DEF Recheck, Drop, Go
  <2>20. CASE Rename(p)
    BY <2>20 DEF Rename, Go
  <2>21. CASE SyncStore(p)
    BY <2>21 DEF SyncStore, SyncDirectory, Acknowledge, Stored, Step, Go
  <2>22. CASE Close(p) BY <2>22 DEF Close
  <2>23. CASE ReadOwn(p) BY <2>23 DEF ReadOwn
  <2>24. CASE UnlinkOwn(p) BY <2>24 DEF UnlinkOwn
  <2>25. CASE FailOperation(p)
    BY <2>25 DEF FailOperation, Retry, Proceed, GiveUp, Step, Drop, Go
  <2>26. CASE Die(p) BY <2>26 DEF Die, Lose
  <2> QED
    BY <1>1, <2>1, <2>2, <2>3, <2>4, <2>5, <2>6, <2>7, <2>8, <2>9, <2>10,
       <2>11, <2>12, <2>13, <2>14, <2>15, <2>16, <2>17, <2>18, <2>19, <2>20,
       <2>21, <2>22, <2>23, <2>24, <2>25, <2>26
    DEF Move
<1>2. CASE PowerCut
  <2>1. \A q \in Processes : pc'[q] # "syncStore"
    BY <1>2 DEF PowerCut, Lose, Alive
  <2>2. synced'.primary = primary' /\ synced'.backup = backup' /\ UNCHANGED acked
    BY <1>2 DEF PowerCut
  <2>3. primary' \in {primary, synced.primary} /\ backup' \in {backup, synced.backup}
    BY <1>2 DEF PowerCut
  <2> QED
    BY <2>1, <2>2, <2>3 DEF NeverEmpty
<1>3. CASE Damage
  BY <1>3 DEF Damage
<1>4. CASE UNCHANGED vars
  BY <1>4 DEF vars
<1> QED
  BY <1>1, <1>2, <1>3, <1>4, NextMoves

(* A store counts its generation up before it writes it. *)
LEMMA GenerationsCountKept ==
  ASSUME FileTypes, LocalTypes, Places, GenerationsCount, [Next]_vars
  PROVE  GenerationsCount'
<1> USE SnapshotFacts, StoredFacts, JsonFileAssumption DEF GenerationsCount,
        Exists, Places, PlaceSound, FileTypes, LocalTypes, files, locals,
        bounds
<1>1. ASSUME NEW p \in Processes, Move(p) PROVE GenerationsCount'
  <2>1. CASE Start(p) BY <2>1 DEF Start, Step, Go
  <2>2. CASE CreateLock(p) BY <2>2 DEF CreateLock, Go
  <2>3. CASE WriteLock(p) BY <2>3 DEF WriteLock, Step, Go
  <2>4. CASE ReadLock(p) BY <2>4 DEF ReadLock, Go, LockText
  <2>5. CASE RereadLock(p) BY <2>5 DEF RereadLock, Retry, Go, LockText
  <2>6. CASE UnlinkLock(p) BY <2>6 DEF UnlinkLock, Retry, Go
  <2>7. CASE CleanTemps(p) BY <2>7 DEF CleanTemps, Step, Go
  <2>8. CASE CheckLoad(p) BY <2>8 DEF CheckLoad, Proceed, GiveUp, Go
  <2>9. CASE ReadPrimary(p) BY <2>9 DEF ReadPrimary, Serve, Go
  <2>10. CASE ReadBackup(p)
    BY <2>10 DEF ReadBackup, Serve, Proceed, GiveUp, Go, MayRecover
  <2>11. CASE WriteTemp(p) BY <2>11 DEF WriteTemp, Step, Go
  <2>12. CASE Recover(p) BY <2>12 DEF Recover, Drop, Proceed, GiveUp, Go
  <2>13. CASE SyncRecover(p) BY <2>13 DEF SyncRecover, SyncDirectory, Serve, Go
  <2>14. CASE BeginStore(p) BY <2>14 DEF BeginStore, Step, Go
  <2>15. CASE CheckStore(p) BY <2>15 DEF CheckStore, Step, Go
  <2>16. CASE ReadDisk(p) BY <2>16 DEF ReadDisk, Go, NeedsBackup, GenerationOf
  <2>17. CASE CopyBackup(p) BY <2>17 DEF CopyBackup, Drop, Go
  <2>18. CASE SyncBackup(p) BY <2>18 DEF SyncBackup, SyncDirectory, Step, Go
  <2>19. CASE Recheck(p) BY <2>19 DEF Recheck, Drop, Go
  <2>20. CASE Rename(p) BY <2>20 DEF Rename, Drop, Go, Stored
  <2>21. CASE SyncStore(p)
    BY <2>21 DEF SyncStore, SyncDirectory, Acknowledge, Stored, Step, Go
  <2>22. CASE Close(p) BY <2>22 DEF Close
  <2>23. CASE ReadOwn(p) BY <2>23 DEF ReadOwn
  <2>24. CASE UnlinkOwn(p) BY <2>24 DEF UnlinkOwn
  <2>25. CASE FailOperation(p)
    BY <2>25 DEF FailOperation, Retry, Proceed, GiveUp, Step, Drop, Go
  <2>26. CASE Die(p) BY <2>26 DEF Die, Lose
  <2> QED
    BY <1>1, <2>1, <2>2, <2>3, <2>4, <2>5, <2>6, <2>7, <2>8, <2>9, <2>10,
       <2>11, <2>12, <2>13, <2>14, <2>15, <2>16, <2>17, <2>18, <2>19, <2>20,
       <2>21, <2>22, <2>23, <2>24, <2>25, <2>26
    DEF Move
<1>2. CASE PowerCut
  BY <1>2 DEF PowerCut, Lose
<1>3. CASE Damage
  BY <1>3 DEF Damage
<1>4. CASE UNCHANGED vars
  BY <1>4 DEF vars
<1> QED
  BY <1>1, <1>2, <1>3, <1>4, NextMoves

(* The primary is replaced by what holds all that was acknowledged, or     *)
(* recovered.                                                              *)
LEMMA FileSoundKept ==
  ASSUME ControlTypes, LockTypes, FileTypes, LocalTypes, Places, Careful,
         ~setting.overlapping => LockOrder, OneEntitled, NeverEmpty,
         NothingLost, Quiet => BackupTrails, [Next]_vars
  PROVE  FileSound'
<1> USE SnapshotFacts, StoredFacts, JsonFileAssumption DEF NothingLost,
        FileSound, StoredIsIn, Covers, Exists, Entitled, Places, PlaceSound,
        LocalTypes, FileTypes, ControlTypes, ProcessPlaces, Acquiring, Loading,
        Storing, Stopped, Releasing, locals, bounds
<1>1. ASSUME NEW p \in Processes, Recover(p) PROVE FileSound'
  BY <1>1 DEF Recover, RecoveryComplete, InLine
<1>2. ASSUME NEW p \in Processes, SyncRecover(p) PROVE FileSound'
  BY <1>2 DEF SyncRecover, SyncDirectory, Serve, Go
<1>3. ASSUME NEW p \in Processes, CopyBackup(p) PROVE FileSound'
  BY <1>3 DEF CopyBackup, Drop, Go
<1>4. ASSUME NEW p \in Processes, SyncBackup(p) PROVE FileSound'
  BY <1>4 DEF SyncBackup, SyncDirectory, Step, Go
<1>5. ASSUME NEW p \in Processes, Rename(p) PROVE FileSound'
  BY <1>5 DEF Rename, MemoryComplete
<1>6. ASSUME NEW p \in Processes, SyncStore(p) PROVE FileSound'
  BY <1>6 DEF SyncStore, SyncDirectory, Acknowledge, Stored, Step, Go
<1>7. ASSUME PowerCut PROVE FileSound'
  BY <1>7 DEF PowerCut, Lose
<1>8. ASSUME Damage PROVE FileSound'
  BY <1>8 DEF Damage
<1>9. CASE UNCHANGED <<files, acked>>
  BY <1>9 DEF files
<1> QED
  BY <1>1, <1>2, <1>3, <1>4, <1>5, <1>6, <1>7, <1>8, <1>9, Writers

(* The next store after an unacknowledged one contains it. *)
LEMMA StoredIsInKept ==
  ASSUME ControlTypes, LockTypes, FileTypes, LocalTypes, Places, Careful,
         ~setting.overlapping => LockOrder, OneEntitled, NeverEmpty,
         NothingLost, Quiet => BackupTrails, [Next]_vars
  PROVE  StoredIsIn'
<1> USE SnapshotFacts, StoredFacts, JsonFileAssumption DEF NothingLost,
        FileSound, StoredIsIn, Covers, Exists, Entitled, Places, PlaceSound,
        LocalTypes, FileTypes, ControlTypes, ProcessPlaces, Acquiring, Loading,
        Storing, Stopped, Releasing, locals, bounds, files
<1>1. ASSUME NEW p \in Processes, Move(p) PROVE StoredIsIn'
  <2>1. CASE Start(p) BY <2>1 DEF Start, Step, Go
  <2>2. CASE CreateLock(p) BY <2>2 DEF CreateLock, Go
  <2>3. CASE WriteLock(p) BY <2>3 DEF WriteLock, Step, Go
  <2>4. CASE ReadLock(p) BY <2>4 DEF ReadLock, Go, LockText
  <2>5. CASE RereadLock(p) BY <2>5 DEF RereadLock, Retry, Go, LockText
  <2>6. CASE UnlinkLock(p) BY <2>6 DEF UnlinkLock, Retry, Go
  <2>7. CASE CleanTemps(p) BY <2>7 DEF CleanTemps, Step, Go
  <2>8. CASE CheckLoad(p) BY <2>8 DEF CheckLoad, Proceed, GiveUp, Go
  <2>9. CASE ReadPrimary(p) BY <2>9 DEF ReadPrimary, Serve, Go
  <2>10. CASE ReadBackup(p)
    BY <2>10 DEF ReadBackup, Serve, Proceed, GiveUp, Go, MayRecover
  <2>11. CASE WriteTemp(p) BY <2>11 DEF WriteTemp, Step, Go
  <2>12. CASE Recover(p)
    <3>1. \A q \in Processes : pc[q] # "syncStore"
      BY <2>12, RecoversAlone DEF Recover
    <3>2. \A q \in Processes : pc'[q] # "syncStore"
      BY <2>12, <3>1 DEF Recover, Proceed, GiveUp, Go
    <3> QED
      BY <3>2
  <2>13. CASE SyncRecover(p) BY <2>13 DEF SyncRecover, SyncDirectory, Serve, Go
  <2>14. CASE BeginStore(p) BY <2>14 DEF BeginStore, Step, Go
  <2>15. CASE CheckStore(p) BY <2>15 DEF CheckStore, Step, Go
  <2>16. CASE ReadDisk(p) BY <2>16 DEF ReadDisk, Go, NeedsBackup, GenerationOf
  <2>17. CASE CopyBackup(p) BY <2>17 DEF CopyBackup, Drop, Go
  <2>18. CASE SyncBackup(p) BY <2>18 DEF SyncBackup, SyncDirectory, Step, Go
  <2>19. CASE Recheck(p) BY <2>19 DEF Recheck, Drop, Go
  <2>20. CASE Rename(p)
    <3>1. CASE temp[p]
      <4>1. /\ pc[p] = "rename" /\ pc' = [pc EXCEPT ![p] = "syncStore"]
            /\ primary' = Stored(p) /\ UNCHANGED memory
        BY <2>20, <3>1 DEF Rename, Go
      <4>2. \A q \in Processes : pc[q] = "syncStore" => memory[q] \subseteq memory[p]
        BY <3>1, <4>1 DEF MemoryComplete
      <4> QED
        BY <4>1, <4>2
    <3>2. CASE ~temp[p]
      BY <2>20, <3>2 DEF Rename, Go
    <3> QED
      BY <3>1, <3>2
  <2>21. CASE SyncStore(p)
    BY <2>21 DEF SyncStore, SyncDirectory, Acknowledge, Stored, Step, Go
  <2>22. CASE Close(p) BY <2>22 DEF Close
  <2>23. CASE ReadOwn(p) BY <2>23 DEF ReadOwn
  <2>24. CASE UnlinkOwn(p) BY <2>24 DEF UnlinkOwn
  <2>25. CASE FailOperation(p)
    BY <2>25 DEF FailOperation, Retry, Proceed, GiveUp, Step, Drop, Go
  <2>26. CASE Die(p) BY <2>26 DEF Die, Lose
  <2> QED
    BY <1>1, <2>1, <2>2, <2>3, <2>4, <2>5, <2>6, <2>7, <2>8, <2>9, <2>10,
       <2>11, <2>12, <2>13, <2>14, <2>15, <2>16, <2>17, <2>18, <2>19, <2>20,
       <2>21, <2>22, <2>23, <2>24, <2>25, <2>26
    DEF Move
<1>2. CASE PowerCut
  BY <1>2, PowerCutStops DEF PowerCut
<1>3. CASE Damage
  BY <1>3 DEF Damage
<1>4. CASE UNCHANGED vars
  BY <1>4 DEF vars
<1> QED
  BY <1>1, <1>2, <1>3, <1>4, NextMoves

(* Whoever becomes entitled to replace the primary has loaded it. *)
LEMMA MemoryCompleteKept ==
  ASSUME ControlTypes, LockTypes, FileTypes, LocalTypes, Places, Careful,
         ~setting.overlapping => LockOrder, OneEntitled, NeverEmpty,
         NothingLost, Quiet => BackupTrails, [Next]_vars
  PROVE  MemoryComplete'
<1> USE SnapshotFacts, StoredFacts, JsonFileAssumption DEF NothingLost,
        FileSound, StoredIsIn, Covers, Exists, Entitled, Places, PlaceSound,
        LocalTypes, FileTypes, ControlTypes, ProcessPlaces, Acquiring, Loading,
        Storing, Stopped, Releasing, locals, bounds, MemoryComplete, Holds,
        Working, OwnsLock, LockText, LockTypes, Locks, OneEntitled, files
<1>1. ASSUME NEW p \in Processes, Move(p) PROVE MemoryComplete'
  <2>1. CASE Start(p) BY <2>1 DEF Start, Step, Go
  <2>2. CASE CreateLock(p) BY <2>2 DEF CreateLock, Go
  <2>3. CASE WriteLock(p) BY <2>3 DEF WriteLock, Step, Go
  <2>4. CASE ReadLock(p) BY <2>4 DEF ReadLock, Go, LockText
  <2>5. CASE RereadLock(p) BY <2>5 DEF RereadLock, Retry, Go, LockText
  <2>6. CASE UnlinkLock(p) BY <2>6 DEF UnlinkLock, Retry, Go
  <2>7. CASE CleanTemps(p) BY <2>7 DEF CleanTemps, Step, Go
  <2>8. CASE CheckLoad(p) BY <2>8 DEF CheckLoad, Proceed, GiveUp, Go
  <2>9. CASE ReadPrimary(p) BY <2>9 DEF ReadPrimary, Serve, Go
  <2>10. CASE ReadBackup(p)
    <3>1. CASE backup = Missing /\ found[p] = Missing
      <4>1. Entitled(p) => acked = {} /\ \A q \in Processes : pc[q] # "syncStore"
        BY <2>10, <3>1 DEF ReadBackup, ReadFresh, NeverEmpty, Exposed, Survives
      <4>2. /\ pc' = [pc EXCEPT ![p] = "ready"] /\ memory' = [memory EXCEPT ![p] = {}]
            /\ pc[p] = "readBackup" /\ UNCHANGED <<acked, lock, temp>>
        BY <2>10, <3>1 DEF ReadBackup, Serve, Go
      <4> QED
        BY <4>1, <4>2
    <3>2. CASE ~(backup = Missing /\ found[p] = Missing)
      BY <2>10, <3>2 DEF ReadBackup, Proceed, GiveUp, Go
    <3> QED
      BY <3>1, <3>2
  <2>11. CASE WriteTemp(p) BY <2>11 DEF WriteTemp, Step, Go
  <2>12. CASE Recover(p) BY <2>12 DEF Recover, Drop, Proceed, GiveUp, Go
  <2>13. CASE SyncRecover(p)
    <3>1. pc[p] = "syncRecover" /\ \A q \in Processes : pc[q] # "syncStore"
      BY <2>13, RecoversAlone DEF SyncRecover
    <3>2. \A s \in acked : s.commits \subseteq found[p].commits
      BY <3>1 DEF RecoveryComplete
    <3>3. /\ pc' = [pc EXCEPT ![p] = "ready"]
          /\ memory' = [memory EXCEPT ![p] = found[p].commits]
          /\ UNCHANGED <<acked, lock, temp>>
      BY <2>13, <3>1 DEF SyncRecover, Serve, Go
    <3> QED
      BY <3>1, <3>2, <3>3
  <2>14. CASE BeginStore(p) BY <2>14 DEF BeginStore, Step, Go
  <2>15. CASE CheckStore(p) BY <2>15 DEF CheckStore, Step, Go
  <2>16. CASE ReadDisk(p) BY <2>16 DEF ReadDisk, Go, NeedsBackup, GenerationOf
  <2>17. CASE CopyBackup(p) BY <2>17 DEF CopyBackup, Drop, Go
  <2>18. CASE SyncBackup(p) BY <2>18 DEF SyncBackup, SyncDirectory, Step, Go
  <2>19. CASE Recheck(p) BY <2>19 DEF Recheck, Drop, Go
  <2>20. CASE Rename(p) BY <2>20 DEF Rename, Drop, Go, Stored
  <2>21. CASE SyncStore(p)
    BY <2>21 DEF SyncStore, SyncDirectory, Acknowledge, Stored, Step, Go
  <2>22. CASE Close(p) BY <2>22 DEF Close
  <2>23. CASE ReadOwn(p) BY <2>23 DEF ReadOwn
  <2>24. CASE UnlinkOwn(p) BY <2>24 DEF UnlinkOwn
  <2>25. CASE FailOperation(p)
    BY <2>25 DEF FailOperation, Retry, Proceed, GiveUp, Step, Drop, Go
  <2>26. CASE Die(p) BY <2>26 DEF Die, Lose
  <2> QED
    BY <1>1, <2>1, <2>2, <2>3, <2>4, <2>5, <2>6, <2>7, <2>8, <2>9, <2>10,
       <2>11, <2>12, <2>13, <2>14, <2>15, <2>16, <2>17, <2>18, <2>19, <2>20,
       <2>21, <2>22, <2>23, <2>24, <2>25, <2>26
    DEF Move
<1>2. CASE PowerCut
  BY <1>2 DEF PowerCut, Lose
<1>3. CASE Damage
  BY <1>3 DEF Damage
<1>4. CASE UNCHANGED vars
  BY <1>4 DEF vars
<1> QED
  BY <1>1, <1>2, <1>3, <1>4, NextMoves

(* Nobody stores between the two reads of a load by the owner of the lock. *)
LEMMA ReadFreshKept ==
  ASSUME ControlTypes, LockTypes, FileTypes, LocalTypes, Places, Careful,
         ~setting.overlapping => LockOrder, OneEntitled, NeverEmpty,
         NothingLost, Quiet => BackupTrails, [Next]_vars
  PROVE  ReadFresh'
<1> USE SnapshotFacts, StoredFacts, JsonFileAssumption DEF NothingLost,
        FileSound, StoredIsIn, Covers, Exists, Entitled, Places, PlaceSound,
        LocalTypes, FileTypes, ControlTypes, ProcessPlaces, Acquiring, Loading,
        Storing, Stopped, Releasing, locals, bounds, MemoryComplete, Holds,
        Working, OwnsLock, LockText, LockTypes, Locks, OneEntitled, files,
        ReadFresh
<1>1. ASSUME NEW p \in Processes, Move(p) PROVE ReadFresh'
  <2>1. CASE Start(p) BY <2>1 DEF Start, Step, Go
  <2>2. CASE CreateLock(p) BY <2>2 DEF CreateLock, Go
  <2>3. CASE WriteLock(p) BY <2>3 DEF WriteLock, Step, Go
  <2>4. CASE ReadLock(p) BY <2>4 DEF ReadLock, Go, LockText
  <2>5. CASE RereadLock(p) BY <2>5 DEF RereadLock, Retry, Go, LockText
  <2>6. CASE UnlinkLock(p) BY <2>6 DEF UnlinkLock, Retry, Go
  <2>7. CASE CleanTemps(p) BY <2>7 DEF CleanTemps, Step, Go
  <2>8. CASE CheckLoad(p) BY <2>8 DEF CheckLoad, Proceed, GiveUp, Go
  <2>9. CASE ReadPrimary(p) BY <2>9 DEF ReadPrimary, Serve, Go
  <2>10. CASE ReadBackup(p)
    BY <2>10 DEF ReadBackup, Serve, Proceed, GiveUp, Go, MayRecover
  <2>11. CASE WriteTemp(p) BY <2>11 DEF WriteTemp, Step, Go
  <2>12. CASE Recover(p)
    <3>1. pc[p] = "recover" /\ \A q \in Processes : pc[q] # "readBackup"
      BY <2>12, RecoversAlone DEF Recover
    <3>2. \A q \in Processes : pc'[q] # "readBackup"
      BY <2>12, <3>1 DEF Recover, Proceed, GiveUp, Go
    <3> QED
      BY <3>2
  <2>13. CASE SyncRecover(p) BY <2>13 DEF SyncRecover, SyncDirectory, Serve, Go
  <2>14. CASE BeginStore(p) BY <2>14 DEF BeginStore, Step, Go
  <2>15. CASE CheckStore(p) BY <2>15 DEF CheckStore, Step, Go
  <2>16. CASE ReadDisk(p) BY <2>16 DEF ReadDisk, Go, NeedsBackup, GenerationOf
  <2>17. CASE CopyBackup(p) BY <2>17 DEF CopyBackup, Drop, Go
  <2>18. CASE SyncBackup(p) BY <2>18 DEF SyncBackup, SyncDirectory, Step, Go
  <2>19. CASE Recheck(p) BY <2>19 DEF Recheck, Drop, Go
  <2>20. CASE Rename(p) BY <2>20 DEF Rename, Drop, Go, Stored
  <2>21. CASE SyncStore(p)
    BY <2>21 DEF SyncStore, SyncDirectory, Acknowledge, Stored, Step, Go
  <2>22. CASE Close(p) BY <2>22 DEF Close
  <2>23. CASE ReadOwn(p) BY <2>23 DEF ReadOwn
  <2>24. CASE UnlinkOwn(p) BY <2>24 DEF UnlinkOwn
  <2>25. CASE FailOperation(p)
    BY <2>25 DEF FailOperation, Retry, Proceed, GiveUp, Step, Drop, Go
  <2>26. CASE Die(p) BY <2>26 DEF Die, Lose
  <2> QED
    BY <1>1, <2>1, <2>2, <2>3, <2>4, <2>5, <2>6, <2>7, <2>8, <2>9, <2>10,
       <2>11, <2>12, <2>13, <2>14, <2>15, <2>16, <2>17, <2>18, <2>19, <2>20,
       <2>21, <2>22, <2>23, <2>24, <2>25, <2>26
    DEF Move
<1>2. CASE PowerCut
  BY <1>2, PowerCutStops DEF PowerCut
<1>3. CASE Damage
  BY <1>3 DEF Damage
<1>4. CASE UNCHANGED vars
  BY <1>4 DEF vars
<1> QED
  BY <1>1, <1>2, <1>3, <1>4, NextMoves

(* A recovery is alone and takes a backup that is in line. *)
LEMMA RecoveryCompleteKept ==
  ASSUME ControlTypes, LockTypes, FileTypes, LocalTypes, Places, Careful,
         ~setting.overlapping => LockOrder, OneEntitled, NeverEmpty,
         NothingLost, Quiet => BackupTrails, [Next]_vars
  PROVE  RecoveryComplete'
<1> USE SnapshotFacts, StoredFacts, JsonFileAssumption DEF NothingLost,
        FileSound, StoredIsIn, Covers, Exists, Entitled, Places, PlaceSound,
        LocalTypes, FileTypes, ControlTypes, ProcessPlaces, Acquiring, Loading,
        Storing, Stopped, Releasing, locals, bounds, MemoryComplete, Holds,
        Working, OwnsLock, LockText, LockTypes, Locks, OneEntitled, files,
        RecoveryComplete, InLine, Careful, Quiet, LockOrder, Owners, OwnerOf,
        BackupTrails, BackupInLine
<1>1. ASSUME NEW p \in Processes, Move(p) PROVE RecoveryComplete'
  <2>1. CASE Start(p) BY <2>1 DEF Start, Step, Go
  <2>2. CASE CreateLock(p) BY <2>2 DEF CreateLock, Go
  <2>3. CASE WriteLock(p) BY <2>3 DEF WriteLock, Step, Go
  <2>4. CASE ReadLock(p) BY <2>4 DEF ReadLock, Go, LockText
  <2>5. CASE RereadLock(p) BY <2>5 DEF RereadLock, Retry, Go, LockText
  <2>6. CASE UnlinkLock(p) BY <2>6 DEF UnlinkLock, Retry, Go
  <2>7. CASE CleanTemps(p) BY <2>7 DEF CleanTemps, Step, Go
  <2>8. CASE CheckLoad(p) BY <2>8 DEF CheckLoad, Proceed, GiveUp, Go
  <2>9. CASE ReadPrimary(p) BY <2>9 DEF ReadPrimary, Serve, Go
  <2>10. CASE ReadBackup(p)
    BY <2>10 DEF ReadBackup, Serve, Proceed, GiveUp, Go, MayRecover
  <2>11. CASE WriteTemp(p) BY <2>11 DEF WriteTemp, Step, Go
  <2>12. CASE Recover(p) BY <2>12 DEF Recover, Drop, Proceed, GiveUp, Go
  <2>13. CASE SyncRecover(p) BY <2>13 DEF SyncRecover, SyncDirectory, Serve, Go
  <2>14. CASE BeginStore(p) BY <2>14 DEF BeginStore, Step, Go
  <2>15. CASE CheckStore(p) BY <2>15 DEF CheckStore, Step, Go
  <2>16. CASE ReadDisk(p) BY <2>16 DEF ReadDisk, Go, NeedsBackup, GenerationOf
  <2>17. CASE CopyBackup(p) BY <2>17 DEF CopyBackup, Drop, Go
  <2>18. CASE SyncBackup(p) BY <2>18 DEF SyncBackup, SyncDirectory, Step, Go
  <2>19. CASE Recheck(p) BY <2>19 DEF Recheck, Drop, Go
  <2>20. CASE Rename(p) BY <2>20 DEF Rename, Drop, Go, Stored
  <2>21. CASE SyncStore(p)
    BY <2>21 DEF SyncStore, SyncDirectory, Acknowledge, Stored, Step, Go
  <2>22. CASE Close(p) BY <2>22 DEF Close
  <2>23. CASE ReadOwn(p) BY <2>23 DEF ReadOwn
  <2>24. CASE UnlinkOwn(p) BY <2>24 DEF UnlinkOwn
  <2>25. CASE FailOperation(p)
    BY <2>25 DEF FailOperation, Retry, Proceed, GiveUp, Step, Drop, Go
  <2>26. CASE Die(p) BY <2>26 DEF Die, Lose
  <2> QED
    BY <1>1, <2>1, <2>2, <2>3, <2>4, <2>5, <2>6, <2>7, <2>8, <2>9, <2>10,
       <2>11, <2>12, <2>13, <2>14, <2>15, <2>16, <2>17, <2>18, <2>19, <2>20,
       <2>21, <2>22, <2>23, <2>24, <2>25, <2>26
    DEF Move
<1>2. CASE PowerCut
  BY <1>2 DEF PowerCut, Lose
<1>3. CASE Damage
  BY <1>3 DEF Damage
<1>4. CASE UNCHANGED vars
  BY <1>4 DEF vars
<1> QED
  BY <1>1, <1>2, <1>3, <1>4, NextMoves

-----------------------------------------------------------------------------
(* The backup *)

(* A store counts up from the newest generation. *)
LEMMA AckedBelowKept ==
  ASSUME ControlTypes, LockTypes, FileTypes, LocalTypes, Places, Quiet,
         LockOrder, NeverEmpty, NothingLost, GenerationsCount, BackupTrails,
         [Next]_vars
  PROVE  AckedBelow'
<1> USE SnapshotFacts, StoredFacts, JsonFileAssumption DEF Covers, Exists,
        Places, PlaceSound, LocalTypes, FileTypes, ControlTypes, ProcessPlaces,
        Acquiring, Loading, Storing, Stopped, Releasing, locals, bounds, Quiet,
        BackupTrails, WorksAlone, StoreEnds, AckedBelow, NewestIs, Busy,
        Working, files
<1>1. ASSUME NEW p \in Processes, Move(p) PROVE AckedBelow'
  <2>1. CASE Start(p) BY <2>1 DEF Start, Step, Go
  <2>2. CASE CreateLock(p) BY <2>2 DEF CreateLock, Go
  <2>3. CASE WriteLock(p) BY <2>3 DEF WriteLock, Step, Go
  <2>4. CASE ReadLock(p) BY <2>4 DEF ReadLock, Go, LockText
  <2>5. CASE RereadLock(p) BY <2>5 DEF RereadLock, Retry, Go, LockText
  <2>6. CASE UnlinkLock(p) BY <2>6 DEF UnlinkLock, Retry, Go
  <2>7. CASE CleanTemps(p) BY <2>7 DEF CleanTemps, Step, Go
  <2>8. CASE CheckLoad(p) BY <2>8 DEF CheckLoad, Proceed, GiveUp, Go
  <2>9. CASE ReadPrimary(p)
    <3>1. CASE Exists(primary)
      <4>1. /\ generation' = [generation EXCEPT ![p] = primary.generation]
            /\ \A s \in acked : s.generation <= primary.generation
        BY <2>9, <3>1 DEF ReadPrimary, Serve, GenerationOf
      <4>2. /\ pc[p] = "readPrimary" /\ pc' = [pc EXCEPT ![p] = "ready"]
            /\ UNCHANGED <<primary, synced, acked, release>>
        BY <2>9, <3>1 DEF ReadPrimary, Serve, Go
      <4>3. found' = [found EXCEPT ![p] = primary]
        BY <2>9 DEF ReadPrimary
      <4> QED
        BY <4>1, <4>2, <4>3
    <3>2. CASE ~Exists(primary)
      BY <2>9, <3>2 DEF ReadPrimary, Go
    <3> QED
      BY <3>1, <3>2
  <2>10. CASE ReadBackup(p)
    <3>1. CASE backup = Missing /\ found[p] = Missing
      <4>1. pc[p] = "readBackup" /\ UNCHANGED <<acked, primary, synced>>
        BY <2>10 DEF ReadBackup
      <4>2. acked = {}
        BY <3>1, <4>1, NothingToFind
      <4>3. /\ pc' = [pc EXCEPT ![p] = "ready"]
            /\ generation' = [generation EXCEPT ![p] = 0]
        BY <2>10, <3>1 DEF ReadBackup, Serve, Go, GenerationOf
      <4> QED
        BY <4>1, <4>2, <4>3
    <3>2. CASE ~(backup = Missing /\ found[p] = Missing)
      BY <2>10, <3>2 DEF ReadBackup, Proceed, GiveUp, Go
    <3> QED
      BY <3>1, <3>2
  <2>11. CASE WriteTemp(p) BY <2>11 DEF WriteTemp, Step, Go
  <2>12. CASE Recover(p)
    <3>1. pc[p] = "recover" /\ setting.permit /\ UNCHANGED <<synced, found, generation>>
      BY <2>12 DEF Recover
    <3>2. WorksAlone(p)
      BY <3>1, BusyAlone
    <3>3. CASE temp[p]
      <4>1. /\ primary' = found[p] /\ UNCHANGED release
            /\ pc' = [pc EXCEPT ![p] = "syncRecover"]
            /\ acked' = {s \in acked : s.generation <= found[p].generation}
        BY <2>12, <3>1, <3>3 DEF Recover, Proceed, Go
      <4>2. \A q \in Processes : Busy(q)' => q = p
        BY <3>1, <3>2, <4>1
      <4> QED
        BY <3>1, <3>2, <4>1, <4>2
    <3>4. CASE ~temp[p]
      BY <2>12, <3>4 DEF Recover, GiveUp, Go
    <3> QED
      BY <3>3, <3>4
  <2>13. CASE SyncRecover(p)
    <3>1. pc[p] = "syncRecover" /\ UNCHANGED <<primary, acked, found, release>>
      BY <2>13 DEF SyncRecover
    <3>2. synced'.primary = primary /\ pc' = [pc EXCEPT ![p] = "ready"]
      BY <2>13 DEF SyncRecover, SyncDirectory, Serve, Go
    <3>3. generation' = [generation EXCEPT ![p] = found[p].generation]
      BY <2>13, <3>1 DEF SyncRecover, Serve, GenerationOf
    <3> QED
      BY <3>1, <3>2, <3>3
  <2>14. CASE BeginStore(p) BY <2>14 DEF BeginStore, Step, Go
  <2>15. CASE CheckStore(p) BY <2>15 DEF CheckStore, Step, Go
  <2>16. CASE ReadDisk(p) BY <2>16 DEF ReadDisk, Go, NeedsBackup, GenerationOf
  <2>17. CASE CopyBackup(p) BY <2>17 DEF CopyBackup, Drop, Go
  <2>18. CASE SyncBackup(p) BY <2>18 DEF SyncBackup, SyncDirectory, Step, Go
  <2>19. CASE Recheck(p) BY <2>19 DEF Recheck, Drop, Go
  <2>20. CASE Rename(p)
    <3>1. pc[p] = "rename" /\ UNCHANGED <<synced, acked, found, generation, release>>
      BY <2>20 DEF Rename
    <3>2. WorksAlone(p)
      BY <3>1, BusyAlone
    <3>3. CASE temp[p]
      <4>1. primary' = Stored(p) /\ pc' = [pc EXCEPT ![p] = "syncStore"]
        BY <2>20, <3>3 DEF Rename, Go
      <4>2. \A s \in acked : s.generation <= generation[p] /\ s.generation \in Nat
        BY <3>1
      <4>3. primary'.generation = generation[p] + 1 /\ generation[p] \in Nat
        BY <4>1
      <4>4. \A s \in acked : s.generation <= primary'.generation
        BY <4>2, <4>3
      <4>5. WorksAlone(p)'
        BY <3>1, <3>2, <4>1
      <4> QED
        BY <3>1, <4>1, <4>2, <4>3, <4>4, <4>5
    <3>4. CASE ~temp[p]
      BY <2>20, <3>4 DEF Rename, Go
    <3> QED
      BY <3>3, <3>4
  <2>21. CASE SyncStore(p)
    <3>1. StoreEnds(p)
      BY <2>21, SyncStoreEnds
    <3>2. WorksAlone(p)
      BY <3>1, BusyAlone
    <3>3. \A s \in acked : s.generation <= generation[p] /\ s.generation \in Nat
      BY <3>1
    <3>4. \A s \in acked' : s.generation <= generation[p] + 1
      BY <3>1, <3>3
    <3>5. Exists(primary) => primary.generation = generation[p] + 1
      BY <3>1
    <3>6. WorksAlone(p)'
      BY <3>1, <3>2
    <3> QED
      BY <3>1, <3>4, <3>5, <3>6
  <2>22. CASE Close(p) BY <2>22 DEF Close
  <2>23. CASE ReadOwn(p) BY <2>23 DEF ReadOwn
  <2>24. CASE UnlinkOwn(p) BY <2>24 DEF UnlinkOwn
  <2>25. CASE FailOperation(p)
    BY <2>25 DEF FailOperation, Retry, Proceed, GiveUp, Step, Drop, Go
  <2>26. CASE Die(p) BY <2>26 DEF Die, Lose
  <2> QED
    BY <1>1, <2>1, <2>2, <2>3, <2>4, <2>5, <2>6, <2>7, <2>8, <2>9, <2>10,
       <2>11, <2>12, <2>13, <2>14, <2>15, <2>16, <2>17, <2>18, <2>19, <2>20,
       <2>21, <2>22, <2>23, <2>24, <2>25, <2>26
    DEF Move
<1>2. CASE PowerCut
  <2>1. \A q \in Processes : pc'[q] \notin Loading \cup Storing \cup {"ready"}
    BY <1>2 DEF PowerCut, Lose, Alive
  <2>2. /\ primary' \in {primary, synced.primary}
        /\ synced'.primary = primary' /\ UNCHANGED acked
    BY <1>2 DEF PowerCut
  <2> QED
    BY <2>1, <2>2
<1>3. CASE Damage
  BY <1>3 DEF Damage
<1>4. CASE UNCHANGED vars
  BY <1>4 DEF vars
<1> QED
  BY <1>1, <1>2, <1>3, <1>4, NextMoves

(* A copy is complete, and a later acknowledgement has a higher            *)
(* generation.                                                             *)
LEMMA BackupInLineKept ==
  ASSUME ControlTypes, LockTypes, FileTypes, LocalTypes, Places, Quiet,
         LockOrder, NeverEmpty, NothingLost, GenerationsCount, BackupTrails,
         [Next]_vars
  PROVE  BackupInLine'
<1> USE SnapshotFacts, StoredFacts, JsonFileAssumption DEF Covers, Exists,
        Places, PlaceSound, LocalTypes, FileTypes, ControlTypes, ProcessPlaces,
        Acquiring, Loading, Storing, Stopped, Releasing, locals, bounds, Quiet,
        BackupTrails, WorksAlone, StoreEnds, BackupInLine, InLine
<1>1. ASSUME NEW p \in Processes, Recover(p) PROVE BackupInLine'
  BY <1>1 DEF Recover, Drop, Proceed, GiveUp, Go
<1>2. ASSUME NEW p \in Processes, SyncRecover(p) PROVE BackupInLine'
  BY <1>2 DEF SyncRecover, SyncDirectory, Serve, Go
<1>3. ASSUME NEW p \in Processes, CopyBackup(p) PROVE BackupInLine'
  <2>1. /\ \A s \in acked : s.commits \subseteq found[p].commits
        /\ backup' \in {backup, found[p]} /\ UNCHANGED <<synced, acked>>
    BY <1>3 DEF CopyBackup, CopyComplete
  <2> QED
    BY <2>1
<1>4. ASSUME NEW p \in Processes, SyncBackup(p) PROVE BackupInLine'
  BY <1>4 DEF SyncBackup, SyncDirectory, Step, Go
<1>5. ASSUME NEW p \in Processes, Rename(p) PROVE BackupInLine'
  BY <1>5 DEF Rename, Drop, Go, Stored
<1>6. ASSUME NEW p \in Processes, SyncStore(p) PROVE BackupInLine'
  <2>1. StoreEnds(p)
    BY <1>6, SyncStoreEnds
  <2>2. Exists(backup) => /\ backup.generation \in Nat /\ backup.generation <= generation[p]
                          /\ \A s \in acked : s.commits \subseteq backup.commits
    BY <2>1 DEF BackupComplete
  <2> QED
    BY <2>1, <2>2
<1>7. ASSUME PowerCut PROVE BackupInLine'
  BY <1>7 DEF PowerCut, Lose
<1>8. ASSUME Damage PROVE BackupInLine'
  BY <1>8 DEF Damage
<1>9. CASE UNCHANGED <<files, acked>>
  BY <1>9 DEF files
<1> QED
  BY <1>1, <1>2, <1>3, <1>4, <1>5, <1>6, <1>7, <1>8, <1>9, Writers

(* What an acknowledgement supersedes was copied before. *)
LEMMA BackupRestKept ==
  ASSUME ControlTypes, LockTypes, FileTypes, LocalTypes, Places, Quiet,
         LockOrder, NeverEmpty, NothingLost, GenerationsCount, BackupTrails,
         [Next]_vars
  PROVE  BackupRest'
<1> USE SnapshotFacts, StoredFacts, JsonFileAssumption DEF Covers, Exists,
        Places, PlaceSound, LocalTypes, FileTypes, ControlTypes, ProcessPlaces,
        Acquiring, Loading, Storing, Stopped, Releasing, locals, bounds, Quiet,
        BackupTrails, WorksAlone, StoreEnds, BackupRest, HoldsRest, Superseded
<1>1. ASSUME NEW p \in Processes, Recover(p) PROVE BackupRest'
  BY <1>1 DEF Recover, Drop, Proceed, GiveUp, Go
<1>2. ASSUME NEW p \in Processes, SyncRecover(p) PROVE BackupRest'
  BY <1>2 DEF SyncRecover, SyncDirectory, Serve, Go
<1>3. ASSUME NEW p \in Processes, CopyBackup(p) PROVE BackupRest'
  <2>1. /\ Exists(found[p]) /\ \A s \in acked : s.commits \subseteq found[p].commits
        /\ backup' \in {backup, found[p]} /\ UNCHANGED <<synced, acked>>
    BY <1>3 DEF CopyBackup, CopyComplete
  <2> QED
    BY <2>1
<1>4. ASSUME NEW p \in Processes, SyncBackup(p) PROVE BackupRest'
  BY <1>4 DEF SyncBackup, SyncDirectory, Step, Go
<1>5. ASSUME NEW p \in Processes, Rename(p) PROVE BackupRest'
  BY <1>5 DEF Rename, Drop, Go, Stored
<1>6. ASSUME NEW p \in Processes, SyncStore(p) PROVE BackupRest'
  <2>1. StoreEnds(p)
    BY <1>6, SyncStoreEnds
  <2>2. /\ backup = Missing => acked = {}
        /\ Exists(backup) => \A s \in acked : s.commits \subseteq backup.commits
    BY <2>1 DEF BackupComplete
  <2>3. \A s \in acked : s.generation \in Nat /\ s.generation <= generation[p]
    BY <2>1 DEF AckedBelow, NewestIs, Busy, Working
  <2>4. \A s \in Superseded' : s \in acked /\ acked # {}
    BY <2>1, <2>3
  <2> QED
    BY <2>1, <2>2, <2>4
<1>7. ASSUME PowerCut PROVE BackupRest'
  BY <1>7 DEF PowerCut, Lose
<1>8. ASSUME Damage PROVE BackupRest'
  BY <1>8 DEF Damage
<1>9. CASE UNCHANGED <<files, acked>>
  BY <1>9 DEF files
<1> QED
  BY <1>1, <1>2, <1>3, <1>4, <1>5, <1>6, <1>7, <1>8, <1>9, Writers

(* A store copies the primary that it has in memory. *)
LEMMA CopyCompleteKept ==
  ASSUME ControlTypes, LockTypes, FileTypes, LocalTypes, Places, Quiet,
         LockOrder, NeverEmpty, NothingLost, GenerationsCount, BackupTrails,
         [Next]_vars
  PROVE  CopyComplete'
<1> USE SnapshotFacts, StoredFacts, JsonFileAssumption DEF Covers, Exists,
        Places, PlaceSound, LocalTypes, FileTypes, ControlTypes, ProcessPlaces,
        Acquiring, Loading, Storing, Stopped, Releasing, locals, bounds, Quiet,
        BackupTrails, WorksAlone, StoreEnds, CopyComplete, files
<1>1. ASSUME NEW p \in Processes, Move(p) PROVE CopyComplete'
  <2>1. CASE Start(p) BY <2>1 DEF Start, Step, Go
  <2>2. CASE CreateLock(p) BY <2>2 DEF CreateLock, Go
  <2>3. CASE WriteLock(p) BY <2>3 DEF WriteLock, Step, Go
  <2>4. CASE ReadLock(p) BY <2>4 DEF ReadLock, Go, LockText
  <2>5. CASE RereadLock(p) BY <2>5 DEF RereadLock, Retry, Go, LockText
  <2>6. CASE UnlinkLock(p) BY <2>6 DEF UnlinkLock, Retry, Go
  <2>7. CASE CleanTemps(p) BY <2>7 DEF CleanTemps, Step, Go
  <2>8. CASE CheckLoad(p) BY <2>8 DEF CheckLoad, Proceed, GiveUp, Go
  <2>9. CASE ReadPrimary(p) BY <2>9 DEF ReadPrimary, Serve, Go
  <2>10. CASE ReadBackup(p)
    BY <2>10 DEF ReadBackup, Serve, Proceed, GiveUp, Go, MayRecover
  <2>11. CASE WriteTemp(p) BY <2>11 DEF WriteTemp, Step, Go
  <2>12. CASE Recover(p) BY <2>12 DEF Recover, Drop, Proceed, GiveUp, Go
  <2>13. CASE SyncRecover(p) BY <2>13 DEF SyncRecover, SyncDirectory, Serve, Go
  <2>14. CASE BeginStore(p) BY <2>14 DEF BeginStore, Step, Go
  <2>15. CASE CheckStore(p) BY <2>15 DEF CheckStore, Step, Go
  <2>16. CASE ReadDisk(p)
    <3>1. /\ pc[p] = "readDisk" /\ found' = [found EXCEPT ![p] = primary]
          /\ UNCHANGED <<acked, generation>>
      BY <2>16 DEF ReadDisk
    <3>2. CASE pc' = [pc EXCEPT ![p] = "writeBackup"]
      <4>1. Exists(primary) /\ primary.generation = generation[p]
        BY <2>16, <3>1, <3>2 DEF ReadDisk, Go, NeedsBackup, GenerationOf
      <4> QED
        BY <3>1, <3>2, <4>1 DEF CopyComplete, NothingLost, FileSound
    <3>3. CASE \/ pc' = [pc EXCEPT ![p] = "ready"]
               \/ pc' = [pc EXCEPT ![p] = "writeTemp"]
      BY <3>1, <3>3 DEF CopyComplete
    <3> QED
      BY <2>16, <3>2, <3>3 DEF ReadDisk, Go
  <2>17. CASE CopyBackup(p) BY <2>17 DEF CopyBackup, Drop, Go
  <2>18. CASE SyncBackup(p) BY <2>18 DEF SyncBackup, SyncDirectory, Step, Go
  <2>19. CASE Recheck(p) BY <2>19 DEF Recheck, Drop, Go
  <2>20. CASE Rename(p) BY <2>20 DEF Rename, Drop, Go, Stored
  <2>21. CASE SyncStore(p)
    <3>1. StoreEnds(p)
      BY <2>21, SyncStoreEnds
    <3>2. WorksAlone(p)
      BY <3>1, BusyAlone
    <3> QED
      BY <3>1, <3>2
  <2>22. CASE Close(p) BY <2>22 DEF Close
  <2>23. CASE ReadOwn(p) BY <2>23 DEF ReadOwn
  <2>24. CASE UnlinkOwn(p) BY <2>24 DEF UnlinkOwn
  <2>25. CASE FailOperation(p)
    BY <2>25 DEF FailOperation, Retry, Proceed, GiveUp, Step, Drop, Go
  <2>26. CASE Die(p) BY <2>26 DEF Die, Lose
  <2> QED
    BY <1>1, <2>1, <2>2, <2>3, <2>4, <2>5, <2>6, <2>7, <2>8, <2>9, <2>10,
       <2>11, <2>12, <2>13, <2>14, <2>15, <2>16, <2>17, <2>18, <2>19, <2>20,
       <2>21, <2>22, <2>23, <2>24, <2>25, <2>26
    DEF Move
<1>2. CASE PowerCut
  BY <1>2 DEF PowerCut, Lose
<1>3. CASE Damage
  BY <1>3 DEF Damage
<1>4. CASE UNCHANGED vars
  BY <1>4 DEF vars
<1> QED
  BY <1>1, <1>2, <1>3, <1>4, NextMoves

(* A store goes on after its copy, or without one if there is nothing to   *)
(* copy.                                                                   *)
LEMMA BackupCompleteKept ==
  ASSUME ControlTypes, LockTypes, FileTypes, LocalTypes, Places, Quiet,
         LockOrder, NeverEmpty, NothingLost, GenerationsCount, BackupTrails,
         [Next]_vars
  PROVE  BackupComplete'
<1> USE SnapshotFacts, StoredFacts, JsonFileAssumption DEF Covers, Exists,
        Places, PlaceSound, LocalTypes, FileTypes, ControlTypes, ProcessPlaces,
        Acquiring, Loading, Storing, Stopped, Releasing, locals, bounds, Quiet,
        BackupTrails, WorksAlone, StoreEnds, BackupComplete, files
<1>1. ASSUME NEW p \in Processes, Move(p) PROVE BackupComplete'
  <2>1. CASE Start(p) BY <2>1 DEF Start, Step, Go
  <2>2. CASE CreateLock(p) BY <2>2 DEF CreateLock, Go
  <2>3. CASE WriteLock(p) BY <2>3 DEF WriteLock, Step, Go
  <2>4. CASE ReadLock(p) BY <2>4 DEF ReadLock, Go, LockText
  <2>5. CASE RereadLock(p) BY <2>5 DEF RereadLock, Retry, Go, LockText
  <2>6. CASE UnlinkLock(p) BY <2>6 DEF UnlinkLock, Retry, Go
  <2>7. CASE CleanTemps(p) BY <2>7 DEF CleanTemps, Step, Go
  <2>8. CASE CheckLoad(p) BY <2>8 DEF CheckLoad, Proceed, GiveUp, Go
  <2>9. CASE ReadPrimary(p) BY <2>9 DEF ReadPrimary, Serve, Go
  <2>10. CASE ReadBackup(p)
    BY <2>10 DEF ReadBackup, Serve, Proceed, GiveUp, Go, MayRecover
  <2>11. CASE WriteTemp(p) BY <2>11 DEF WriteTemp, Step, Go
  <2>12. CASE Recover(p) BY <2>12 DEF Recover, Drop, Proceed, GiveUp, Go
  <2>13. CASE SyncRecover(p) BY <2>13 DEF SyncRecover, SyncDirectory, Serve, Go
  <2>14. CASE BeginStore(p) BY <2>14 DEF BeginStore, Step, Go
  <2>15. CASE CheckStore(p) BY <2>15 DEF CheckStore, Step, Go
  <2>16. CASE ReadDisk(p)
    <3>1. pc[p] = "readDisk" /\ UNCHANGED <<acked, generation, backup>>
      BY <2>16 DEF ReadDisk
    <3>2. CASE pc' = [pc EXCEPT ![p] = "writeTemp"]
      <4>1. generation[p] = 0
        BY <2>16, <3>1, <3>2 DEF ReadDisk, Go, NeedsBackup, GenerationOf
      <4>2. acked = {} /\ backup = Missing
        BY <3>1, <4>1 DEF FreshEmpty, Busy, Working
      <4> QED
        BY <3>1, <4>2
    <3>3. CASE \/ pc' = [pc EXCEPT ![p] = "ready"]
               \/ pc' = [pc EXCEPT ![p] = "writeBackup"]
      BY <3>1, <3>3
    <3> QED
      BY <2>16, <3>2, <3>3 DEF ReadDisk, Go
  <2>17. CASE CopyBackup(p)
    <3>1. pc[p] = "copyBackup" /\ UNCHANGED <<acked, generation>>
      BY <2>17 DEF CopyBackup
    <3>2. WorksAlone(p)
      BY <3>1, BusyAlone
    <3>3. CASE backup' = found[p]
      <4>1. /\ Exists(found[p]) /\ found[p].generation = generation[p]
            /\ \A s \in acked : s.commits \subseteq found[p].commits
        BY <3>1 DEF CopyComplete
      <4>2. \A q \in Processes : pc'[q] \in Storing => q = p
        BY <2>17, <3>2 DEF CopyBackup, Go
      <4> QED
        BY <3>1, <3>3, <4>1, <4>2
    <3>4. CASE backup' = backup /\ pc' = [pc EXCEPT ![p] = "ready"]
      BY <3>1, <3>4
    <3> QED
      BY <2>17, <3>3, <3>4 DEF CopyBackup, Go
  <2>18. CASE SyncBackup(p) BY <2>18 DEF SyncBackup, SyncDirectory, Step, Go
  <2>19. CASE Recheck(p) BY <2>19 DEF Recheck, Drop, Go
  <2>20. CASE Rename(p) BY <2>20 DEF Rename, Drop, Go, Stored
  <2>21. CASE SyncStore(p)
    <3>1. StoreEnds(p)
      BY <2>21, SyncStoreEnds
    <3>2. WorksAlone(p)
      BY <3>1, BusyAlone
    <3> QED
      BY <3>1, <3>2
  <2>22. CASE Close(p) BY <2>22 DEF Close
  <2>23. CASE ReadOwn(p) BY <2>23 DEF ReadOwn
  <2>24. CASE UnlinkOwn(p) BY <2>24 DEF UnlinkOwn
  <2>25. CASE FailOperation(p)
    BY <2>25 DEF FailOperation, Retry, Proceed, GiveUp, Step, Drop, Go
  <2>26. CASE Die(p) BY <2>26 DEF Die, Lose
  <2> QED
    BY <1>1, <2>1, <2>2, <2>3, <2>4, <2>5, <2>6, <2>7, <2>8, <2>9, <2>10,
       <2>11, <2>12, <2>13, <2>14, <2>15, <2>16, <2>17, <2>18, <2>19, <2>20,
       <2>21, <2>22, <2>23, <2>24, <2>25, <2>26
    DEF Move
<1>2. CASE PowerCut
  BY <1>2, PowerCutStops DEF PowerCut, Working
<1>3. CASE Damage
  BY <1>3 DEF Damage
<1>4. CASE UNCHANGED vars
  BY <1>4 DEF vars
<1> QED
  BY <1>1, <1>2, <1>3, <1>4, NextMoves

(* A storage is opened as empty only if nothing was acknowledged. *)
LEMMA FreshEmptyKept ==
  ASSUME ControlTypes, LockTypes, FileTypes, LocalTypes, Places, Quiet,
         LockOrder, NeverEmpty, NothingLost, GenerationsCount, BackupTrails,
         [Next]_vars
  PROVE  FreshEmpty'
<1> USE SnapshotFacts, StoredFacts, JsonFileAssumption DEF Covers, Exists,
        Places, PlaceSound, LocalTypes, FileTypes, ControlTypes, ProcessPlaces,
        Acquiring, Loading, Storing, Stopped, Releasing, locals, bounds, Quiet,
        BackupTrails, WorksAlone, StoreEnds, FreshEmpty, Busy, Working, files
<1>1. ASSUME NEW p \in Processes, Move(p) PROVE FreshEmpty'
  <2>1. CASE Start(p) BY <2>1 DEF Start, Step, Go
  <2>2. CASE CreateLock(p) BY <2>2 DEF CreateLock, Go
  <2>3. CASE WriteLock(p) BY <2>3 DEF WriteLock, Step, Go
  <2>4. CASE ReadLock(p) BY <2>4 DEF ReadLock, Go, LockText
  <2>5. CASE RereadLock(p) BY <2>5 DEF RereadLock, Retry, Go, LockText
  <2>6. CASE UnlinkLock(p) BY <2>6 DEF UnlinkLock, Retry, Go
  <2>7. CASE CleanTemps(p) BY <2>7 DEF CleanTemps, Step, Go
  <2>8. CASE CheckLoad(p) BY <2>8 DEF CheckLoad, Proceed, GiveUp, Go
  <2>9. CASE ReadPrimary(p)
    <3>1. CASE Exists(primary)
      BY <2>9, <3>1 DEF ReadPrimary, Serve, Go, GenerationOf, GenerationsCount
    <3>2. CASE ~Exists(primary)
      BY <2>9, <3>2 DEF ReadPrimary, Go
    <3> QED
      BY <3>1, <3>2
  <2>10. CASE ReadBackup(p)
    <3>1. CASE backup = Missing /\ found[p] = Missing
      <4>1. pc[p] = "readBackup" /\ UNCHANGED <<acked, backup>>
        BY <2>10 DEF ReadBackup
      <4>2. acked = {}
        BY <3>1, <4>1, NothingToFind
      <4> QED
        BY <3>1, <4>1, <4>2
    <3>2. CASE ~(backup = Missing /\ found[p] = Missing)
      BY <2>10, <3>2 DEF ReadBackup, Proceed, GiveUp, Go
    <3> QED
      BY <3>1, <3>2
  <2>11. CASE WriteTemp(p) BY <2>11 DEF WriteTemp, Step, Go
  <2>12. CASE Recover(p) BY <2>12 DEF Recover, Drop, Proceed, GiveUp, Go
  <2>13. CASE SyncRecover(p)
    <3>1. Exists(found[p]) /\ GenerationOf(found[p]) # 0
      BY <2>13 DEF SyncRecover, GenerationsCount, GenerationOf
    <3> QED
      BY <2>13, <3>1 DEF SyncRecover, Serve, Go
  <2>14. CASE BeginStore(p) BY <2>14 DEF BeginStore, Step, Go
  <2>15. CASE CheckStore(p) BY <2>15 DEF CheckStore, Step, Go
  <2>16. CASE ReadDisk(p) BY <2>16 DEF ReadDisk, Go, NeedsBackup, GenerationOf
  <2>17. CASE CopyBackup(p)
    <3>1. pc[p] = "copyBackup" /\ UNCHANGED <<acked, generation, release>>
      BY <2>17 DEF CopyBackup
    <3>2. WorksAlone(p)
      BY <3>1, BusyAlone
    <3>3. generation[p] # 0
      BY <3>1 DEF CopyComplete, GenerationsCount
    <3>4. \A q \in Processes : Busy(q)' /\ pc'[q] \notin Loading => q = p
      BY <2>17, <3>1, <3>2 DEF CopyBackup, Go
    <3> QED
      BY <3>1, <3>3, <3>4
  <2>18. CASE SyncBackup(p) BY <2>18 DEF SyncBackup, SyncDirectory, Step, Go
  <2>19. CASE Recheck(p) BY <2>19 DEF Recheck, Drop, Go
  <2>20. CASE Rename(p) BY <2>20 DEF Rename, Drop, Go, Stored
  <2>21. CASE SyncStore(p)
    <3>1. StoreEnds(p)
      BY <2>21, SyncStoreEnds
    <3>2. WorksAlone(p)
      BY <3>1, BusyAlone
    <3>3. generation'[p] # 0
      BY <3>1
    <3>4. \A q \in Processes : Busy(q)' => q = p
      BY <3>1, <3>2
    <3> QED
      BY <3>3, <3>4
  <2>22. CASE Close(p) BY <2>22 DEF Close
  <2>23. CASE ReadOwn(p) BY <2>23 DEF ReadOwn
  <2>24. CASE UnlinkOwn(p) BY <2>24 DEF UnlinkOwn
  <2>25. CASE FailOperation(p)
    BY <2>25 DEF FailOperation, Retry, Proceed, GiveUp, Step, Drop, Go
  <2>26. CASE Die(p) BY <2>26 DEF Die, Lose
  <2> QED
    BY <1>1, <2>1, <2>2, <2>3, <2>4, <2>5, <2>6, <2>7, <2>8, <2>9, <2>10,
       <2>11, <2>12, <2>13, <2>14, <2>15, <2>16, <2>17, <2>18, <2>19, <2>20,
       <2>21, <2>22, <2>23, <2>24, <2>25, <2>26
    DEF Move
<1>2. CASE PowerCut
  BY <1>2, PowerCutStops DEF PowerCut, Working
<1>3. CASE Damage
  BY <1>3 DEF Damage
<1>4. CASE UNCHANGED vars
  BY <1>4 DEF vars
<1> QED
  BY <1>1, <1>2, <1>3, <1>4, NextMoves

-----------------------------------------------------------------------------
(* Theorems *)

(* Nothing is stored and nobody works at first. *)
LEMMA InitInv == Init => IInv
<1> SUFFICES ASSUME Init PROVE IInv
  OBVIOUS
<1> USE SnapshotFacts, JsonFileAssumption DEF Init, Acquiring, Loading,
        Storing, Stopped
<1>1. Types
  <2>1. ControlTypes /\ FileTypes
    BY DEF ControlTypes, ProcessPlaces, FileTypes
  <2>2. LockTypes
    <3>1. [owner |-> Ghost, written |-> TRUE] \in Locks
      BY DEF Locks
    <3> QED
      BY <3>1 DEF LockTypes
  <2>3. MaxCommits \in Nat
    BY DEF JsonFileAssumption
  <2>4. LocalTypes
    BY <2>3 DEF LocalTypes
  <2> QED
    BY <2>1, <2>2, <2>4 DEF Types
<1>2. Places
  BY DEF Places, PlaceSound
<1>3. OneEntitled
  BY DEF OneEntitled, Entitled, Holds, Working
<1>4. NeverEmpty /\ GenerationsCount
  BY DEF NeverEmpty, GenerationsCount, Exists
<1>5. LockOrder
  BY DEF LockOrder, OneAcquires, Owners, OwnerOf, Attempts, AttemptOf, Working
<1>6. NothingLost
  BY DEF NothingLost, FileSound, Covers, Exists, StoredIsIn, MemoryComplete,
     ReadFresh, Holds, Working,
         RecoveryComplete
<1>7. BackupTrails
  BY DEF BackupTrails, AckedBelow, NewestIs, Exists, BackupInLine, InLine,
     BackupRest, HoldsRest, Superseded,
         CopyComplete, BackupComplete, FreshEmpty, Busy, Working
<1> QED
  BY <1>1, <1>2, <1>3, <1>4, <1>5, <1>6, <1>7 DEF IInv

(* Every step keeps the inductive invariant. *)
LEMMA StepInv == IInv /\ [Next]_vars => IInv'
<1> SUFFICES ASSUME IInv, [Next]_vars PROVE IInv'
  OBVIOUS
<1>1. Types' /\ Places'
  BY ControlTypesKept, LockTypesKept, FileTypesKept, LocalTypesKept, PlacesKept
  DEF IInv, Types
<1>2. OneEntitled' /\ NeverEmpty' /\ GenerationsCount'
  BY OneEntitledKept, NeverEmptyKept, GenerationsCountKept DEF IInv, Types
<1>3. ~setting.overlapping => LockOrder'
  BY OneAcquiresKept, OwnersKept, AttemptsKept DEF IInv, Types, LockOrder
<1>4. Careful => NothingLost'
  BY FileSoundKept, StoredIsInKept, MemoryCompleteKept, ReadFreshKept,
     RecoveryCompleteKept
  DEF IInv, Types, NothingLost
<1>5. Quiet => BackupTrails'
  <2> SUFFICES ASSUME Quiet PROVE BackupTrails'
    OBVIOUS
  <2>1. LockOrder /\ NothingLost
    BY DEF IInv, Quiet, Careful
  <2> QED
    BY <2>1, AckedBelowKept, BackupInLineKept, BackupRestKept,
       CopyCompleteKept, BackupCompleteKept,
       FreshEmptyKept
    DEF IInv, Types, BackupTrails
<1> QED
  BY <1>1, <1>2, <1>3, <1>4, <1>5, Writers DEF IInv, Careful, Quiet

(* The inductive invariant of the file, its backup and its lock. *)
THEOREM FileInvHolds == Spec => []IInv
BY InitInv, StepInv, PTL DEF Spec

(* Careful is about the setting alone. *)
LEMMA StaysCareful == Spec /\ Careful => []Careful
<1>1. Careful /\ [Next]_vars => Careful'
  BY Writers DEF Careful
<1> QED
  BY <1>1, PTL DEF Spec

(* The files hold whole snapshots or what damage left of them, and a       *)
(* process is where load, store and close can take it.                     *)
THEOREM FileTypesHold == Spec => []TypeOK
<1>1. IInv => TypeOK
  BY DEF IInv, Types, ControlTypes, ProcessPlaces, LockTypes, Locks, FileTypes,
     LocalTypes, File, TypeOK
<1> QED
  BY <1>1, FileInvHolds, PTL

(* While locks are not contended, #acquireLock never lets two processes    *)
(* serve the file, whatever the dead leave behind and whenever an adapter  *)
(* is closed.                                                              *)
THEOREM OneProcessServes == Spec => []OneServes
<1>1. ASSUME IInv PROVE OneServes
  <2> SUFFICES ASSUME ~setting.overlapping PROVE Cardinality(Serving) <= 1
    BY DEF OneServes
  <2>1. \A p \in Serving : p \in Processes /\ lock.owner = p
    BY <1>1 DEF IInv, LockOrder, Owners, OwnerOf, Working, Serving
  <2>2. CASE Serving = {}
    BY <2>2, FS_EmptySet
  <2>3. CASE Serving # {}
    <3>1. PICK p \in Serving : TRUE
      BY <2>3
    <3>2. Serving = {p}
      BY <2>1, <3>1
    <3> QED
      BY <3>2, FS_Singleton
  <2> QED
    BY <2>2, <2>3
<1> QED
  BY <1>1, FileInvHolds, PTL

(* One process at a time may replace the primary, however many believe     *)
(* that they own the lock: the token is compared and the temporary file is *)
(* needed, and the next owner removes it first.                            *)
THEOREM OneMayReplace == Spec => []OneEntitled
<1>1. IInv => OneEntitled
  BY DEF IInv
<1> QED
  BY <1>1, FileInvHolds, PTL

(* What was acknowledged is in the primary, after any crash of a process   *)
(* or of the machine, and with any number of processes that believe they   *)
(* own the lock, unless a process may recover from the backup while the    *)
(* lock is contended or an adapter is closed under a store.  A permitted   *)
(* recovery gives up what is younger than the backup, whether the primary  *)
(* was damaged or could only not be read.                                  *)
THEOREM AckedStaysInFile == Spec /\ Careful => []AckedInFile
<1>1. IInv /\ Careful => AckedInFile
  BY DEF IInv, NothingLost, FileSound, Covers, AckedInFile
<1> QED
  BY <1>1, FileInvHolds, StaysCareful, PTL

(* The backup holds all acknowledged snapshots but the newest, also        *)
(* between the two renames of a store and after any crash.                 *)
THEOREM BackupTrailsByOne == Spec => []BackupHoldsTheRest
<1>1. IInv => BackupHoldsTheRest
  BY DEF IInv, Quiet, BackupTrails, BackupRest, HoldsRest, BackupHoldsTheRest
<1> QED
  BY <1>1, FileInvHolds, PTL

(* A load ends in one of three steps. *)
LEMMA Opens ==
  ASSUME ControlTypes, NEW q \in Processes, pc[q] \in Loading,
         pc'[q] = "ready", [Next]_vars
  PROVE  ReadPrimary(q) \/ ReadBackup(q) \/ SyncRecover(q)
<1> USE DEF ControlTypes, ProcessPlaces, Acquiring, Loading, Storing, Stopped,
        Releasing, files, locals, bounds
<1>1. ASSUME NEW p \in Processes, Move(p)
      PROVE  ReadPrimary(q) \/ ReadBackup(q) \/ SyncRecover(q)
  <2>1. CASE Start(p) BY <2>1 DEF Start, Step, Go
  <2>2. CASE CreateLock(p) BY <2>2 DEF CreateLock, Go
  <2>3. CASE WriteLock(p) BY <2>3 DEF WriteLock, Step, Go
  <2>4. CASE ReadLock(p) BY <2>4 DEF ReadLock, Go, LockText
  <2>5. CASE RereadLock(p) BY <2>5 DEF RereadLock, Retry, Go, LockText
  <2>6. CASE UnlinkLock(p) BY <2>6 DEF UnlinkLock, Retry, Go
  <2>7. CASE CleanTemps(p) BY <2>7 DEF CleanTemps, Step, Go
  <2>8. CASE CheckLoad(p) BY <2>8 DEF CheckLoad, Proceed, GiveUp, Go
  <2>9. CASE ReadPrimary(p) BY <2>9 DEF ReadPrimary, Serve, Go
  <2>10. CASE ReadBackup(p)
    BY <2>10 DEF ReadBackup, Serve, Proceed, GiveUp, Go, MayRecover
  <2>11. CASE WriteTemp(p) BY <2>11 DEF WriteTemp, Step, Go
  <2>12. CASE Recover(p) BY <2>12 DEF Recover, Drop, Proceed, GiveUp, Go
  <2>13. CASE SyncRecover(p) BY <2>13 DEF SyncRecover, SyncDirectory, Serve, Go
  <2>14. CASE BeginStore(p) BY <2>14 DEF BeginStore, Step, Go
  <2>15. CASE CheckStore(p) BY <2>15 DEF CheckStore, Step, Go
  <2>16. CASE ReadDisk(p) BY <2>16 DEF ReadDisk, Go, NeedsBackup, GenerationOf
  <2>17. CASE CopyBackup(p) BY <2>17 DEF CopyBackup, Drop, Go
  <2>18. CASE SyncBackup(p) BY <2>18 DEF SyncBackup, SyncDirectory, Step, Go
  <2>19. CASE Recheck(p) BY <2>19 DEF Recheck, Drop, Go
  <2>20. CASE Rename(p) BY <2>20 DEF Rename, Drop, Go, Stored
  <2>21. CASE SyncStore(p)
    BY <2>21 DEF SyncStore, SyncDirectory, Acknowledge, Stored, Step, Go
  <2>22. CASE Close(p) BY <2>22 DEF Close
  <2>23. CASE ReadOwn(p) BY <2>23 DEF ReadOwn
  <2>24. CASE UnlinkOwn(p) BY <2>24 DEF UnlinkOwn
  <2>25. CASE FailOperation(p)
    BY <2>25 DEF FailOperation, Retry, Proceed, GiveUp, Step, Drop, Go
  <2>26. CASE Die(p) BY <2>26 DEF Die, Lose
  <2> QED
    BY <1>1, <2>1, <2>2, <2>3, <2>4, <2>5, <2>6, <2>7, <2>8, <2>9, <2>10,
       <2>11, <2>12, <2>13, <2>14, <2>15, <2>16, <2>17, <2>18, <2>19, <2>20,
       <2>21, <2>22, <2>23, <2>24, <2>25, <2>26
    DEF Move
<1>2. CASE PowerCut
  BY <1>2 DEF PowerCut, Lose
<1>3. CASE Damage
  BY <1>3 DEF Damage
<1>4. CASE UNCHANGED vars
  BY <1>4 DEF vars
<1> QED
  BY <1>1, <1>2, <1>3, <1>4, NextMoves

(* A database that opens has all that was acknowledged, whether it loads   *)
(* the primary, an empty storage or a permitted recovery.                  *)
LEMMA OpeningComplete ==
  ASSUME IInv, Careful, ~setting.overlapping, [Next]_vars,
         NEW p \in Processes, pc[p] \in Loading, pc'[p] = "ready"
  PROVE  \A s \in acked : s.commits \subseteq memory'[p]
<1> DEFINE Complete == \A s \in acked : s.commits \subseteq memory'[p]
<1> USE DEF IInv, Types, ControlTypes, LocalTypes
<1>1. \/ ReadPrimary(p) \/ ReadBackup(p) \/ SyncRecover(p)
  BY Opens
<1>2. CASE ReadPrimary(p)
  <2>1. Exists(primary) /\ memory'[p] = primary.commits
    BY <1>2 DEF ReadPrimary, Serve, Go, Exists
  <2> QED
    BY <2>1 DEF NothingLost, FileSound, Covers
<1>3. CASE ReadBackup(p)
  <2>1. pc[p] = "readBackup" /\ backup = Missing /\ found[p] = Missing
    BY <1>3 DEF ReadBackup, Proceed, GiveUp, Go
  <2> QED
    BY <2>1, NothingToFind
<1>4. CASE SyncRecover(p)
  <2>1. pc[p] = "syncRecover" /\ Exists(found[p])
    BY <1>4 DEF SyncRecover, Places, PlaceSound
  <2>2. memory'[p] = found[p].commits
    BY <1>4, <2>1 DEF SyncRecover, Serve, Exists
  <2> QED
    BY <2>1, <2>2 DEF NothingLost, RecoveryComplete, Covers
<1> QED
  BY <1>1, <1>2, <1>3, <1>4

(* Opening is never silently incomplete while locks are not contended,     *)
(* unless an adapter may be closed under a store where a process may       *)
(* recover from the backup.                                                *)
THEOREM OpeningsAreComplete == Spec /\ Careful => OpensComplete
<1>1. IInv /\ Careful /\ [Next]_vars =>
        [\A p \in Processes :
           ~setting.overlapping /\ pc[p] \in Loading /\ pc'[p] = "ready" =>
             \A s \in acked : s.commits \subseteq memory'[p]]_vars
  BY OpeningComplete
<1> QED
  BY <1>1, FileInvHolds, StaysCareful, PTL DEF Spec, OpensComplete

(* A process is turned away where it reads or removes a lock, or by a      *)
(* failure.                                                                *)
LEMMA Refuses ==
  ASSUME ControlTypes, NEW q \in Processes, pc[q] \in Acquiring,
         pc'[q] = "refused", [Next]_vars
  PROVE  ReadLock(q) \/ RereadLock(q) \/ UnlinkLock(q) \/ q \in failed'
<1> USE DEF ControlTypes, ProcessPlaces, Acquiring, Loading, Storing, Stopped,
        Releasing, files, locals, bounds
<1>1. ASSUME NEW p \in Processes, Move(p)
      PROVE  ReadLock(q) \/ RereadLock(q) \/ UnlinkLock(q) \/ q \in failed'
  <2>1. CASE Start(p) BY <2>1 DEF Start, Step, Go
  <2>2. CASE CreateLock(p) BY <2>2 DEF CreateLock, Go
  <2>3. CASE WriteLock(p) BY <2>3 DEF WriteLock, Step, Go
  <2>4. CASE ReadLock(p) BY <2>4 DEF ReadLock, Go, LockText
  <2>5. CASE RereadLock(p) BY <2>5 DEF RereadLock, Retry, Go, LockText
  <2>6. CASE UnlinkLock(p) BY <2>6 DEF UnlinkLock, Retry, Go
  <2>7. CASE CleanTemps(p) BY <2>7 DEF CleanTemps, Step, Go
  <2>8. CASE CheckLoad(p) BY <2>8 DEF CheckLoad, Proceed, GiveUp, Go
  <2>9. CASE ReadPrimary(p) BY <2>9 DEF ReadPrimary, Serve, Go
  <2>10. CASE ReadBackup(p)
    BY <2>10 DEF ReadBackup, Serve, Proceed, GiveUp, Go, MayRecover
  <2>11. CASE WriteTemp(p) BY <2>11 DEF WriteTemp, Step, Go
  <2>12. CASE Recover(p) BY <2>12 DEF Recover, Drop, Proceed, GiveUp, Go
  <2>13. CASE SyncRecover(p) BY <2>13 DEF SyncRecover, SyncDirectory, Serve, Go
  <2>14. CASE BeginStore(p) BY <2>14 DEF BeginStore, Step, Go
  <2>15. CASE CheckStore(p) BY <2>15 DEF CheckStore, Step, Go
  <2>16. CASE ReadDisk(p) BY <2>16 DEF ReadDisk, Go, NeedsBackup, GenerationOf
  <2>17. CASE CopyBackup(p) BY <2>17 DEF CopyBackup, Drop, Go
  <2>18. CASE SyncBackup(p) BY <2>18 DEF SyncBackup, SyncDirectory, Step, Go
  <2>19. CASE Recheck(p) BY <2>19 DEF Recheck, Drop, Go
  <2>20. CASE Rename(p) BY <2>20 DEF Rename, Drop, Go, Stored
  <2>21. CASE SyncStore(p)
    BY <2>21 DEF SyncStore, SyncDirectory, Acknowledge, Stored, Step, Go
  <2>22. CASE Close(p) BY <2>22 DEF Close
  <2>23. CASE ReadOwn(p) BY <2>23 DEF ReadOwn
  <2>24. CASE UnlinkOwn(p) BY <2>24 DEF UnlinkOwn
  <2>25. CASE FailOperation(p)
    BY <2>25 DEF FailOperation, Retry, Proceed, GiveUp, Step, Drop, Go
  <2>26. CASE Die(p) BY <2>26 DEF Die, Lose
  <2> QED
    BY <1>1, <2>1, <2>2, <2>3, <2>4, <2>5, <2>6, <2>7, <2>8, <2>9, <2>10,
       <2>11, <2>12, <2>13, <2>14, <2>15, <2>16, <2>17, <2>18, <2>19, <2>20,
       <2>21, <2>22, <2>23, <2>24, <2>25, <2>26
    DEF Move
<1>2. CASE PowerCut
  BY <1>2 DEF PowerCut, Lose
<1>3. CASE Damage
  BY <1>3 DEF Damage
<1>4. CASE UNCHANGED vars
  BY <1>4 DEF vars
<1> QED
  BY <1>1, <1>2, <1>3, <1>4, NextMoves

(* A process is turned away by a written lock of another live one, or has *)
(* had a file operation fail.                                              *)
LEMMA RefusalExplained ==
  ASSUME IInv, ~setting.overlapping, [Next]_vars,
         NEW p \in Processes, p \notin failed', pc[p] \in Acquiring, pc'[p] = "refused"
  PROVE  lock # NoLock /\ lock.owner # p /\ Alive(lock.owner)
<1> USE DEF IInv, Types, ControlTypes, LocalTypes
<1>1. ReadLock(p) \/ RereadLock(p) \/ UnlinkLock(p)
  BY Refuses
<1>2. CASE ReadLock(p)
  BY <1>2 DEF ReadLock, Go, Places, PlaceSound, Free
<1>3. CASE RereadLock(p)
  BY <1>3
  DEF RereadLock, Retry, Go, LockOrder, Attempts, AttemptOf, Acquiring, bounds
<1>4. CASE UnlinkLock(p)
  BY <1>4
  DEF UnlinkLock, Retry, Go, LockOrder, Attempts, AttemptOf, Acquiring, bounds
<1> QED
  BY <1>1, <1>2, <1>3, <1>4

(* While locks are not contended, a process is turned away only if another *)
(* live one owns the lock: what the dead leave behind never keeps the      *)
(* database closed.                                                        *)
THEOREM RefusalsAreForTheLiving == Spec => RefusedOnlyByTheLiving
<1>1. IInv /\ [Next]_vars =>
        [\A p \in Processes :
           ~setting.overlapping /\ p \notin failed' /\ pc[p] \in Acquiring
             /\ pc'[p] = "refused" =>
             lock # NoLock /\ lock.owner # p /\ Alive(lock.owner)]_vars
  BY RefusalExplained
<1> QED
  BY <1>1, FileInvHolds, PTL DEF Spec, RefusedOnlyByTheLiving
=============================================================================
