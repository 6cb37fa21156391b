------------------------------ MODULE JsonFile ------------------------------
(***************************************************************************)
(* JsonFileAdapter (src/src/node/json-file-adapter.ts): processes that     *)
(* share one database file, its backup and its lock file, and die at any   *)
(* point.  A step is what happens between two awaits of file operations.   *)
(* Above each adapter sits a Database that stores the commits it has in    *)
(* memory, one snapshot at a time; a commit is a number.  All snapshots    *)
(* are of one database, so the checks of its identity are left out.        *)
(***************************************************************************)
EXTENDS Integers, Sequences, FiniteSets

CONSTANTS
  Processes,     \* processes, each with one adapter on the path
  Ghost,         \* a process that died before and may have left a lock
  NoLock,        \* the lock file does not exist
  Missing,       \* the file does not exist
  Corrupt,       \* the file is not a verified snapshot
  Settings,      \* what the environment may be, see setting
  MaxCommits,    \* bound of the model: commits over all processes
  MaxFailures,   \* bound of the model: processes whose file operations fail once
  MaxPowerCuts,  \* bound of the model: machine crashes
  MaxDamages     \* bound of the model: files that rot

ASSUME JsonFileAssumption ==
  /\ Ghost \notin Processes /\ {"missing", "empty"} \cap (Processes \cup {Ghost}) = {}
  /\ NoLock \notin [owner : Processes \cup {Ghost}, written : BOOLEAN]
  /\ Missing # Corrupt
  /\ {Missing, Corrupt} \cap [generation : Nat, commits : SUBSET (1 .. MaxCommits)] = {}
  /\ Settings \subseteq [overlapping : BOOLEAN, permit : BOOLEAN, hasty : BOOLEAN]
  /\ {MaxCommits, MaxFailures, MaxPowerCuts, MaxDamages} \subseteq Nat

VARIABLES
  primary,     \* what the path holds
  backup,      \* what the backup path holds
  synced,      \* what both held when the directory was last synced
  lock,        \* the lock file: who created it and whether it is written
  pc,          \* where each process is in load or store
  release,     \* how far close() of its adapter has come
  attempt,     \* the loop variable of #acquireLock
  seen,        \* firstText of #acquireLock
  found,       \* the snapshot a process has read
  temp,        \* whether the temporary file of a process exists
  generation,  \* #generation of the adapter and of its database
  memory,      \* the commits in the memory of its database
  unsaved,     \* whether its database has something to persist
  setting,     \* whether processes may acquire the lock at the same time;
               \* whether they set recoverFromBackup; whether a database may
               \* close the adapter while it stores, as with a full queue
  acked,       \* history: the snapshots whose store was acknowledged
  failed,      \* the processes that had a file operation fail
  issued, powerCuts, damages  \* how much of the bounds is used

files  == <<primary, backup, synced>>
locals == <<attempt, seen, found, temp, generation, memory, unsaved>>
bounds == <<setting, failed, powerCuts, damages>>
vars   == <<files, lock, pc, release, locals, acked, issued, bounds>>

Snapshot == [generation : Nat, commits : SUBSET (1 .. MaxCommits)]

Exists(file) == file # Missing /\ file # Corrupt

GenerationOf(file) == IF file = Missing THEN 0 ELSE file.generation

Acquiring == {"lock", "writeLock", "readLock", "rereadLock", "unlinkLock"}
Loading   == {"clean", "checkLoad", "readPrimary", "readBackup", "writeRecovery",
              "recover", "syncRecover"}
Storing   == {"checkStore", "readDisk", "writeBackup", "copyBackup", "syncBackup", "writeTemp",
              "recheck", "rename", "syncStore"}
Releasing == {"readOwn", "unlinkOwn"}
Stopped   == {"off", "dead"}

(* processIsAlive: of a process that closed or failed, too *)
Alive(p) == p # Ghost /\ pc[p] \notin Stopped

Serving == {p \in Processes : pc[p] \in Storing \cup {"ready"} /\ release[p] = "no"}

Init ==
  /\ primary = Missing /\ backup = Missing
  /\ synced = [primary |-> Missing, backup |-> Missing]
  /\ lock \in {NoLock, [owner |-> Ghost, written |-> TRUE]}
  /\ pc = [p \in Processes |-> "off"]
  /\ release = [p \in Processes |-> "no"]
  /\ attempt = [p \in Processes |-> 0]
  /\ seen = [p \in Processes |-> "missing"]
  /\ found = [p \in Processes |-> Missing]
  /\ temp = [p \in Processes |-> FALSE]
  /\ generation = [p \in Processes |-> 0]
  /\ memory = [p \in Processes |-> {}]
  /\ unsaved = [p \in Processes |-> FALSE]
  /\ setting \in Settings
  /\ acked = {} /\ issued = 0
  /\ failed = {} /\ powerCuts = 0 /\ damages = 0

Go(p, place) == pc' = [pc EXCEPT ![p] = place]

Step(p, from, to) == pc[p] = from /\ Go(p, to)

Proceed(p, place) == Go(p, place) /\ UNCHANGED release

(* load fails, and closes the adapter *)
GiveUp(p) == Go(p, "closed") /\ release' = [release EXCEPT ![p] = "readOwn"]

-----------------------------------------------------------------------------
(* #acquireLock *)

(* The text of the lock file: a token tells its owner *)
LockText == IF lock = NoLock THEN "missing" ELSE IF lock.written THEN lock.owner ELSE "empty"

Start(p) ==
  /\ setting.overlapping \/ \A q \in Processes : pc[q] \notin Acquiring
  /\ Step(p, "off", "lock")
  /\ UNCHANGED <<files, lock, locals, acked, issued, release, bounds>>

CreateLock(p) ==
  /\ pc[p] = "lock"
  /\ IF lock = NoLock
     THEN lock' = [owner |-> p, written |-> FALSE] /\ Go(p, "writeLock")
     ELSE UNCHANGED lock /\ Go(p, "readLock")
  /\ UNCHANGED <<files, locals, acked, issued, release, bounds>>

(* The token is written to the file that was created, linked or not. *)
WriteLock(p) ==
  /\ Step(p, "writeLock", "clean")
  /\ lock' = IF lock # NoLock /\ lock.owner = p THEN [lock EXCEPT !.written = TRUE] ELSE lock
  /\ UNCHANGED <<files, locals, acked, issued, release, bounds>>

(* A broken variant: an owner is never asked whether it is alive *)
MutantReadLock(p) ==
  /\ Step(p, "readLock", "rereadLock")
  /\ seen' = [seen EXCEPT ![p] = LockText]
  /\ UNCHANGED <<files, lock, attempt, found, temp, generation, memory, unsaved,
                 acked, issued, release, bounds>>

(* A lock whose token is written and whose process is alive is respected. *)
ReadLock(p) ==
  /\ pc[p] = "readLock"
  /\ seen' = [seen EXCEPT ![p] = LockText]
  /\ Go(p, IF lock # NoLock /\ lock.written /\ Alive(lock.owner) THEN "refused" ELSE "rereadLock")
  /\ UNCHANGED <<files, lock, attempt, found, temp, generation, memory, unsaved,
                 acked, issued, release, bounds>>

(* Broken variant: the loop runs once more *)
MutantRetryOften(p) ==
  /\ attempt' = [attempt EXCEPT ![p] = @ + 1]
  /\ Go(p, IF attempt[p] <= 1 THEN "lock" ELSE "refused")

(* Broken variant: no second attempt *)
MutantRetry(p) == attempt' = [attempt EXCEPT ![p] = @ + 1] /\ Go(p, "refused")

Retry(p) ==
  /\ attempt' = [attempt EXCEPT ![p] = @ + 1]
  /\ Go(p, IF attempt[p] = 0 THEN "lock" ELSE "refused")

(* A lock that is gone or changed meanwhile is not touched. *)
RereadLock(p) ==
  /\ pc[p] = "rereadLock"
  /\ IF seen[p] = "missing" \/ LockText # seen[p]
     THEN Retry(p)
     ELSE Go(p, "unlinkLock") /\ UNCHANGED attempt
  /\ UNCHANGED <<files, lock, seen, found, temp, generation, memory, unsaved,
                 acked, issued, release, bounds>>

UnlinkLock(p) ==
  /\ pc[p] = "unlinkLock"
  /\ lock' = NoLock
  /\ Retry(p)
  /\ UNCHANGED <<files, seen, found, temp, generation, memory, unsaved, acked, issued,
                 release, bounds>>

-----------------------------------------------------------------------------
(* load *)

OwnsLock(p) == LockText = p

(* #removeStaleTemps: the temporary snapshots of every process *)
CleanTemps(p) ==
  /\ Step(p, "clean", "checkLoad")
  /\ temp' = [q \in Processes |-> FALSE]
  /\ UNCHANGED <<files, lock, attempt, seen, found, generation, memory, unsaved,
                 acked, issued, release, bounds>>

(* #assertLockOwnership *)
CheckLoad(p) ==
  /\ pc[p] = "checkLoad"
  /\ IF OwnsLock(p) THEN Proceed(p, "readPrimary") ELSE GiveUp(p)
  /\ UNCHANGED <<files, lock, locals, acked, issued, bounds>>

(* The database opens with it; an empty storage is yet to be persisted. *)
Serve(p, file) ==
  /\ Go(p, "ready")
  /\ generation' = [generation EXCEPT ![p] = GenerationOf(file)]
  /\ memory' = [memory EXCEPT ![p] = IF file = Missing THEN {} ELSE file.commits]
  /\ unsaved' = [unsaved EXCEPT ![p] = file = Missing]

(* #loadWithRecovery: the primary snapshot, if it is verified *)
ReadPrimary(p) ==
  /\ pc[p] = "readPrimary"
  /\ found' = [found EXCEPT ![p] = primary]
  /\ IF Exists(primary) THEN Serve(p, primary)
     ELSE Go(p, "readBackup") /\ UNCHANGED <<generation, memory, unsaved>>
  /\ UNCHANGED <<files, lock, attempt, seen, temp, acked, issued, release, bounds>>

(* Broken variant: the permission is not asked for *)
MutantMayRecover == TRUE

MayRecover == setting.permit

(* No file at all is an empty storage; a verified backup is only used with *)
(* permission.                                                             *)
ReadBackup(p) ==
  /\ pc[p] = "readBackup"
  /\ found' = [found EXCEPT ![p] = backup]
  /\ IF backup = Missing /\ found[p] = Missing THEN Serve(p, Missing) /\ UNCHANGED release
     ELSE /\ IF Exists(backup) /\ MayRecover THEN Proceed(p, "writeRecovery") ELSE GiveUp(p)
          /\ UNCHANGED <<generation, memory, unsaved>>
  /\ UNCHANGED <<files, lock, attempt, seen, temp, acked, issued, bounds>>

(* A temporary file is created, written, synced and closed. *)
WriteTemp(p) ==
  /\ \/ Step(p, "writeRecovery", "recover")
     \/ Step(p, "writeBackup", "copyBackup")
     \/ Step(p, "writeTemp", "recheck")
  /\ temp' = [temp EXCEPT ![p] = TRUE]
  /\ UNCHANGED <<files, lock, attempt, seen, found, generation, memory, unsaved,
                 acked, issued, release, bounds>>

Drop(p) == temp' = [temp EXCEPT ![p] = FALSE]

(* #installBytes: the rename of the backup's copy, which fails if the      *)
(* temporary file was cleaned away, then the sync of the directory.  What  *)
(* was stored after the backup is given up with the permission, and so     *)
(* leaves acked, also when the primary was intact and only its read failed *)
(* (RecoversOnlyDamaged is about that case).                               *)
Recover(p) ==
  /\ pc[p] = "recover"
  /\ IF temp[p]
     THEN /\ primary' = found[p] /\ Proceed(p, "syncRecover")
          /\ acked' = IF setting.permit
                      THEN {s \in acked : s.generation <= found[p].generation} ELSE acked
     ELSE UNCHANGED <<primary, acked>> /\ GiveUp(p)
  /\ Drop(p)
  /\ UNCHANGED <<backup, synced, lock, attempt, seen, found, generation, memory, unsaved,
                 issued, bounds>>

SyncDirectory == synced' = [primary |-> primary, backup |-> backup]

SyncRecover(p) ==
  /\ pc[p] = "syncRecover"
  /\ SyncDirectory
  /\ Serve(p, found[p])
  /\ UNCHANGED <<primary, backup, lock, attempt, seen, found, temp, acked, issued, release, bounds>>

-----------------------------------------------------------------------------
(* store *)

(* The database stores what it has in memory after one more commit, or, in *)
(* flush(), whatever is not yet persisted.                                 *)
BeginStore(p) ==
  /\ Step(p, "ready", "checkStore") /\ release[p] = "no"
  /\ \/ issued < MaxCommits /\ issued' = issued + 1
     \/ unsaved[p] /\ issued' = issued
  /\ memory' = [memory EXCEPT ![p] = @ \cup issued + 1 .. issued']
  /\ unsaved' = [unsaved EXCEPT ![p] = TRUE]
  /\ UNCHANGED <<files, lock, attempt, seen, found, temp, generation, acked, release, bounds>>

CheckStore(p) ==
  /\ Step(p, "checkStore", IF OwnsLock(p) THEN "readDisk" ELSE "ready")
  /\ UNCHANGED <<files, lock, locals, acked, issued, release, bounds>>

(* Broken variant: a backup that exists is kept *)
MutantNeedsBackup == primary # Missing /\ backup = Missing

NeedsBackup == primary # Missing

(* A corrupt primary or one of another generation refuses the store. *)
ReadDisk(p) ==
  /\ pc[p] = "readDisk"
  /\ found' = [found EXCEPT ![p] = primary]
  /\ Go(p, IF primary = Corrupt THEN "ready"
           ELSE IF GenerationOf(primary) # generation[p] THEN "ready"
           ELSE IF NeedsBackup THEN "writeBackup" ELSE "writeTemp")
  /\ UNCHANGED <<files, lock, attempt, seen, temp, generation, memory, unsaved,
                 acked, issued, release, bounds>>

Stored(p) == [generation |-> generation[p] + 1, commits |-> memory[p]]

(* #writeBackup: as in Recover *)
CopyBackup(p) ==
  /\ pc[p] = "copyBackup"
  /\ IF temp[p] THEN backup' = found[p] /\ Go(p, "syncBackup")
     ELSE UNCHANGED backup /\ Go(p, "ready")
  /\ Drop(p)
  /\ UNCHANGED <<primary, synced, lock, attempt, seen, found, generation, memory, unsaved,
                 acked, issued, release, bounds>>

SyncBackup(p) ==
  /\ Step(p, "syncBackup", "writeTemp")
  /\ SyncDirectory
  /\ UNCHANGED <<primary, backup, lock, locals, acked, issued, release, bounds>>

(* Broken variant: the token is not compared before the replacement *)
MutantRecheck(p) ==
  /\ Step(p, "recheck", "rename")
  /\ UNCHANGED <<files, lock, locals, acked, issued, release, bounds>>

Recheck(p) ==
  /\ pc[p] = "recheck"
  /\ IF OwnsLock(p) THEN Go(p, "rename") /\ UNCHANGED temp ELSE Go(p, "ready") /\ Drop(p)
  /\ UNCHANGED <<files, lock, attempt, seen, found, generation, memory, unsaved,
                 acked, issued, release, bounds>>

(* The rename fails if the temporary file was cleaned away meanwhile. *)
Rename(p) ==
  /\ pc[p] = "rename"
  /\ IF temp[p] THEN primary' = Stored(p) /\ Go(p, "syncStore")
     ELSE UNCHANGED primary /\ Go(p, "ready")
  /\ Drop(p)
  /\ UNCHANGED <<backup, synced, lock, attempt, seen, found, generation, memory, unsaved,
                 acked, issued, release, bounds>>

Acknowledge(p) ==
  /\ generation' = [generation EXCEPT ![p] = @ + 1]
  /\ unsaved' = [unsaved EXCEPT ![p] = FALSE]
  /\ acked' = acked \cup {Stored(p)}
  /\ UNCHANGED <<primary, backup, lock, attempt, seen, found, temp, memory, issued,
                 release, bounds>>

(* Broken variant: the directory is not synced before the acknowledgement *)
MutantSyncStore(p) == Step(p, "syncStore", "ready") /\ UNCHANGED synced /\ Acknowledge(p)

SyncStore(p) == Step(p, "syncStore", "ready") /\ SyncDirectory /\ Acknowledge(p)

-----------------------------------------------------------------------------
(* close, and what may go wrong *)

(* close(): no store is begun from then on; one that is under way goes on. *)
Close(p) ==
  /\ release[p] = "no"
  /\ pc[p] = "ready" \/ (setting.hasty /\ pc[p] \in Storing)
  /\ release' = [release EXCEPT ![p] = "readOwn"]
  /\ UNCHANGED <<files, lock, pc, locals, acked, issued, bounds>>

ReadOwn(p) ==
  /\ release[p] = "readOwn"
  /\ release' = [release EXCEPT ![p] = IF OwnsLock(p) THEN "unlinkOwn" ELSE "done"]
  /\ UNCHANGED <<files, lock, pc, locals, acked, issued, bounds>>

UnlinkOwn(p) ==
  /\ release[p] = "unlinkOwn"
  /\ release' = [release EXCEPT ![p] = "done"]
  /\ lock' = NoLock
  /\ UNCHANGED <<files, pc, locals, acked, issued, bounds>>

(* Any file operation may fail.  A load closes the adapter, but takes a    *)
(* primary it cannot read for a corrupt one; a store removes its temporary *)
(* file; close() leaves the lock behind, and so does a process that cannot *)
(* write or sync the lock it created.  #acquireLock takes a lock it cannot *)
(* read or unlink for one that changed.                                    *)
FailOperation(p) ==
  /\ p \notin failed /\ Cardinality(failed) < MaxFailures
  /\ failed' = failed \cup {p}
  /\ \/ /\ pc[p] = "lock" /\ Proceed(p, "failed")
        /\ UNCHANGED <<lock, attempt, found, temp>>
     \/ /\ pc[p] = "writeLock" /\ Proceed(p, "failed")
        /\ \/ UNCHANGED lock
           \/ /\ lock # NoLock /\ lock.owner = p
              /\ lock' = [lock EXCEPT !.written = TRUE]
        /\ UNCHANGED <<attempt, found, temp>>
     \/ /\ pc[p] \in {"readLock", "rereadLock", "unlinkLock"} /\ Retry(p)
        /\ UNCHANGED <<release, lock, found, temp>>
     \/ /\ Step(p, "readPrimary", "readBackup")
        /\ found' = [found EXCEPT ![p] = Corrupt]
        /\ UNCHANGED <<release, lock, attempt, temp>>
     \/ /\ pc[p] \in Loading \ {"readPrimary"} /\ GiveUp(p) /\ Drop(p)
        /\ UNCHANGED <<lock, attempt, found>>
     \/ /\ pc[p] \in Storing /\ Proceed(p, "ready") /\ Drop(p)
        /\ UNCHANGED <<lock, attempt, found>>
     \/ /\ release[p] \in Releasing /\ release' = [release EXCEPT ![p] = "done"]
        /\ UNCHANGED <<pc, lock, attempt, found, temp>>
  /\ UNCHANGED <<files, seen, generation, memory, unsaved, acked, issued,
                 setting, powerCuts, damages>>

(* What the dead had in memory is gone; their files remain. *)
Lose(dead) ==
  LET Reset(f, value) == [p \in Processes |-> IF p \in dead THEN value ELSE f[p]] IN
  /\ pc' = Reset(pc, "dead")
  /\ release' = Reset(release, "no")
  /\ attempt' = Reset(attempt, 0)
  /\ seen' = Reset(seen, "missing")
  /\ found' = Reset(found, Missing)
  /\ generation' = Reset(generation, 0)
  /\ memory' = Reset(memory, {})
  /\ unsaved' = Reset(unsaved, FALSE)

Die(p) ==
  /\ Alive(p)
  /\ Lose({p})
  /\ UNCHANGED <<files, lock, temp, acked, issued, bounds>>

(* The machine stops: of the renames since the last sync of the directory  *)
(* any may be lost.  What was renamed had been synced before.              *)
PowerCut ==
  /\ powerCuts < MaxPowerCuts
  /\ powerCuts' = powerCuts + 1
  /\ primary' \in {primary, synced.primary}
  /\ backup' \in {backup, synced.backup}
  /\ synced' = [primary |-> primary', backup |-> backup']
  /\ lock' \in {lock, NoLock}
  /\ Lose({p \in Processes : Alive(p)})
  /\ UNCHANGED <<temp, acked, issued, setting, failed, damages>>

(* A file rots, or the primary vanishes while there is a backup to stay. *)
Damage ==
  /\ damages < MaxDamages
  /\ damages' = damages + 1
  /\ \/ /\ Exists(primary)
        /\ primary' \in {Corrupt} \cup IF Exists(backup) /\ Exists(synced.backup) THEN {Missing} ELSE {}
        /\ UNCHANGED backup
     \/ /\ Exists(backup)
        /\ backup' = Corrupt
        /\ UNCHANGED primary
  /\ synced' = [primary |-> IF primary' = primary THEN synced.primary ELSE primary',
                backup  |-> IF backup' = backup THEN synced.backup ELSE backup']
  /\ UNCHANGED <<lock, pc, release, locals, acked, issued, setting, failed, powerCuts>>

Next ==
  \/ \E p \in Processes :
       \/ Start(p) \/ CreateLock(p) \/ WriteLock(p)
       \/ ReadLock(p) \/ RereadLock(p) \/ UnlinkLock(p)
       \/ CleanTemps(p) \/ CheckLoad(p)
       \/ ReadPrimary(p) \/ ReadBackup(p) \/ Recover(p) \/ SyncRecover(p)
       \/ BeginStore(p) \/ CheckStore(p) \/ ReadDisk(p)
       \/ CopyBackup(p) \/ SyncBackup(p) \/ WriteTemp(p) \/ Recheck(p)
       \/ Rename(p) \/ SyncStore(p)
       \/ Close(p) \/ ReadOwn(p) \/ UnlinkOwn(p)
       \/ FailOperation(p) \/ Die(p)
  \/ PowerCut
  \/ Damage

Spec == Init /\ [][Next]_vars

-----------------------------------------------------------------------------
(* Properties *)

(* The files hold whole snapshots or what damage left of them, and a       *)
(* process is where load, store and close can take it.                     *)
TypeOK ==
  /\ {primary, backup, synced.primary, synced.backup} \subseteq Snapshot \cup {Missing, Corrupt}
  /\ damages = 0 => Corrupt \notin {primary, backup, synced.primary, synced.backup}
  /\ lock \in {NoLock} \cup [owner : Processes \cup {Ghost}, written : BOOLEAN]
  /\ pc \in [Processes -> Acquiring \cup Loading \cup Storing \cup Stopped
                            \cup {"ready", "refused", "failed", "closed"}]
  /\ release \in [Processes -> Releasing \cup {"no", "done"}]
  /\ attempt \in [Processes -> 0 .. 2]
  /\ generation \in [Processes -> Nat]
  /\ memory \in [Processes -> SUBSET (1 .. MaxCommits)]
  /\ acked \subseteq Snapshot

(* While locks are not contended, two processes never serve the same file, *)
(* although locks are left behind by the dead, half written and released   *)
(* at any time, also under a store of their own.                           *)
OneServes == setting.overlapping \/ Cardinality(Serving) <= 1

(* What was acknowledged is in the file, after any crash of a process or   *)
(* of the machine.  Only damage of the file itself can take it away, or a  *)
(* permitted recovery, which also takes a primary it could not read for a  *)
(* damaged one (Recover shortens acked; RecoversOnlyDamaged).  The         *)
(* fencing token and #removeStaleTemps see to it when two processes both   *)
(* believe that they own the lock, or when one releases the lock while it  *)
(* stores and the next one loads.                                          *)
AckedInFile ==
  Exists(primary) => \A s \in acked : s.commits \subseteq primary.commits

Superseded == {s \in acked : \E later \in acked : later.generation > s.generation}

(* The backup holds everything acknowledged but the newest snapshot, also  *)
(* between the two renames of a store and after any crash.  A store that   *)
(* outlives its adapter would break it: #writeBackup compares no token.    *)
BackupHoldsTheRest ==
  ~setting.overlapping /\ ~setting.hasty /\ backup # Corrupt =>
    \A s \in Superseded : Exists(backup) /\ s.commits \subseteq backup.commits

(* Opening is never silently incomplete while locks are not contended:     *)
(* what a process serves contains all that was acknowledged and, in a      *)
(* permitted recovery from the backup, not given up by it.                 *)
OpensComplete ==
  [][\A p \in Processes :
       ~setting.overlapping /\ pc[p] \in Loading /\ pc'[p] = "ready" =>
         \A s \in acked : s.commits \subseteq memory'[p]]_vars

(* While locks are not contended, a process is turned away only if another *)
(* live one owns the lock: what the dead leave behind, at whatever point   *)
(* they died, never keeps the database closed.                             *)
RefusedOnlyByTheLiving ==
  [][\A p \in Processes :
       ~setting.overlapping /\ p \notin failed' /\ pc[p] \in Acquiring /\ pc'[p] = "refused" =>
         lock # NoLock /\ lock.owner # p /\ Alive(lock.owner)]_vars

(* The backup only replaces a primary that is missing or corrupt, as       *)
(* recoverFromBackup says.                                                 *)
RecoversOnlyDamaged ==
  [][\A p \in Processes :
       pc[p] = "recover" /\ primary' # primary => ~Exists(primary)]_vars
=============================================================================
