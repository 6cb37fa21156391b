----------------------------- MODULE Durability -----------------------------
(***************************************************************************)
(* Persistence and lifecycle of a Database (src/src/database.ts): commits  *)
(* are published in memory first; snapshots of the root wait in a bounded  *)
(* FIFO queue for the storage adapter; callers await the snapshot that     *)
(* covers them; failures degrade the database and a later flush heals it.  *)
(* The root is the set of the commits in it: what is in a commit is the    *)
(* matter of module Transactions.  A step is a synchronous stretch of code *)
(* between two awaits.                                                     *)
(***************************************************************************)
EXTENDS Integers, Sequences, FiniteSets, SequencesExt

CONSTANTS
  Clients,              \* callers of transaction() and flush()
  Closer,               \* the one promise of close()
  Idle,                 \* awaiting nothing
  MaxPendingSnapshots,  \* persistenceLimits.maxPendingSnapshots
  OverflowHookCommits,  \* onEventOverflow runs a transaction
  MaxCommits,           \* bound of the model: commits ever published
  MaxFailures,          \* bound of the model: stores refused with nothing written
  MaxLostAcks,          \* bound of the model: stores written but not acknowledged
  MaxRestarts           \* bound of the model: crashes or closes with a reopening

ASSUME DurabilityAssumption ==
  /\ MaxPendingSnapshots \in Nat \ {0}
  /\ Closer \notin Clients
  /\ OverflowHookCommits \in BOOLEAN
  /\ {MaxCommits, MaxFailures, MaxLostAcks, MaxRestarts} \subseteq Nat

VARIABLES
  state,      \* Database.#state
  revision,   \* Database.#revision
  root,       \* Database.#collections: the commits it contains
  persisted,  \* Database.#persistedRevision
  generation, \* Database.#generation
  queue,      \* pending snapshots; the keys of #persistenceByRevision in order
  phase,      \* how far the head of the queue has come
  closing,    \* how far #performClose has come
  waits,      \* what each client, and close, awaits
  disk,       \* the snapshot the adapter has installed
  released,   \* the adapter was told to close
  promised,   \* history: every durable promise that was resolved
  issued,     \* history: the commits published so far
  failures, lostAcks, restarts  \* how much of the bounds is used

memory  == <<revision, root, persisted, generation>>
storage == <<disk, released>>
history == <<promised, issued>>
bounds  == <<failures, lostAcks, restarts>>
vars    == <<state, memory, queue, phase, closing, waits, storage, history, bounds>>

Snapshot == [revision : 0 .. MaxCommits, root : SUBSET (1 .. MaxCommits)]

Now == [revision |-> revision, root |-> root]

Awaiting(task, tail, receipt) == [task |-> task, tail |-> tail, receipt |-> receipt]

(* open() on empty storage with initialData *)
Init ==
  /\ state = "open"
  /\ revision = 0 /\ root = {} /\ persisted = -1 /\ generation = 0
  /\ queue = <<>> /\ phase = "waiting"
  /\ closing = "none"
  /\ waits = [c \in Clients \cup {Closer} |-> Idle]
  /\ disk = [generation |-> 0, revision |-> 0, root |-> {}]
  /\ released = FALSE
  /\ promised = {} /\ issued = 0
  /\ failures = 0 /\ lostAcks = 0 /\ restarts = 0

Usable == state \in {"open", "degraded"}

-----------------------------------------------------------------------------
(* #persist *)

(* Broken variants: one snapshot too many, and the newest stored first *)
MutantPersistLimit(pending, snapshot) ==
  IF \E n \in 1 .. Len(pending) : pending[n].revision = snapshot.revision
  THEN [queue |-> pending, full |-> FALSE]
  ELSE IF Len(pending) > MaxPendingSnapshots THEN [queue |-> pending, full |-> TRUE]
  ELSE [queue |-> Append(pending, snapshot), full |-> FALSE]

MutantPersistOrder(pending, snapshot) ==
  IF \E n \in 1 .. Len(pending) : pending[n].revision = snapshot.revision
  THEN [queue |-> pending, full |-> FALSE]
  ELSE IF Len(pending) >= MaxPendingSnapshots THEN [queue |-> pending, full |-> TRUE]
  ELSE [queue |-> <<snapshot>> \o pending, full |-> FALSE]

(* A snapshot of the same revision that is still pending is shared, a full  *)
(* queue refuses, otherwise the root of this moment is queued.              *)
Persist(pending, snapshot) ==
  IF \E n \in 1 .. Len(pending) : pending[n].revision = snapshot.revision
  THEN [queue |-> pending, full |-> FALSE]
  ELSE IF Len(pending) >= MaxPendingSnapshots THEN [queue |-> pending, full |-> TRUE]
  ELSE [queue |-> Append(pending, snapshot), full |-> FALSE]

(* Await the snapshot of the receipt, or be rejected at once.  The state is *)
(* degraded when the queue is full and what it was about to be otherwise.   *)
AwaitPersist(c, persist, receipt, otherwise) ==
  /\ queue' = persist.queue
  /\ state' = IF persist.full THEN "degraded" ELSE otherwise
  /\ waits' = IF persist.full THEN waits
              ELSE [waits EXCEPT ![c] = Awaiting(receipt.revision, FALSE, receipt)]

(* flush, and #flushDuringClose: persist the current root, or wait for the  *)
(* end of the queue when storage already covers it.                        *)
Cover(c, otherwise) ==
  \/ /\ persisted < revision
     /\ AwaitPersist(c, Persist(queue, Now), Now, otherwise)
     /\ UNCHANGED promised
  \/ /\ persisted >= revision
     /\ state' = otherwise
     /\ waits' = IF queue = <<>> THEN waits
                 ELSE [waits EXCEPT ![c] = Awaiting(Last(queue).revision, TRUE, Now)]
     /\ promised' = IF queue = <<>> THEN promised \cup {Now} ELSE promised
     /\ UNCHANGED queue

-----------------------------------------------------------------------------
(* The callers *)

Published(n) == [revision |-> revision + n, root |-> root \cup issued + 1 .. issued + n]

Publish(n) ==
  /\ issued + n <= MaxCommits
  /\ revision' = Published(n).revision
  /\ root' = Published(n).root
  /\ issued' = issued + n

(* transaction() with persisted durability; a degraded database refuses it *)
CommitPersisted(c) ==
  /\ waits[c] = Idle
  /\ state = "open"
  /\ Publish(1)
  /\ AwaitPersist(c, Persist(queue, Published(1)), Published(1), state)
  /\ UNCHANGED <<persisted, generation, phase, closing, storage, promised, bounds>>

(* The same, when the event queue is full and the overflow hook, called by  *)
(* _commit before it returns, runs a durable transaction of its own: the    *)
(* hook's snapshot is queued first, and the outer call then takes its       *)
(* snapshot from the root that already contains the hook's commit.          *)
CommitAroundHook(c, hook) ==
  LET inner == Persist(queue, Published(2))
      outer == Persist(inner.queue, [Published(2) EXCEPT !.revision = revision + 1])
  IN  /\ OverflowHookCommits
      /\ c # hook /\ waits[c] = Idle /\ waits[hook] = Idle
      /\ state = "open"
      /\ Publish(2)
      /\ queue' = outer.queue
      /\ state' = IF outer.full THEN "degraded" ELSE state
      /\ waits' = [w \in DOMAIN waits |->
            IF w = hook /\ ~inner.full THEN Awaiting(revision + 2, FALSE, Published(2))
            ELSE IF w = c /\ ~outer.full THEN Awaiting(revision + 1, FALSE, Published(1))
            ELSE waits[w]]
      /\ UNCHANGED <<persisted, generation, phase, closing, storage, promised, bounds>>

(* The same, when what the hook runs is not durable: beginTransaction() with *)
(* commit(), or transaction() with memory durability.  A hook around a       *)
(* commit that is not durable itself, or one that calls flush(), does what   *)
(* the single steps of this module do one after the other.                   *)
CommitAroundVolatile(c) ==
  /\ OverflowHookCommits
  /\ waits[c] = Idle
  /\ state = "open"
  /\ Publish(2)
  /\ AwaitPersist(c, Persist(queue, [Published(2) EXCEPT !.revision = revision + 1]),
                  Published(1), state)
  /\ UNCHANGED <<persisted, generation, phase, closing, storage, promised, bounds>>

(* transaction() with memory durability, which a degraded database allows   *)
(* to those who ask, and beginTransaction() with commit(), which it allows  *)
(* to anyone.                                                               *)
CommitVolatile ==
  /\ Usable
  /\ Publish(1)
  /\ UNCHANGED <<state, persisted, generation, queue, phase, closing, waits,
                 storage, promised, bounds>>

(* transaction() with persisted durability that changes nothing *)
CommitUnchanged(c) ==
  /\ waits[c] = Idle
  /\ state = "open"
  /\ \/ /\ persisted < revision
        /\ AwaitPersist(c, Persist(queue, Now), Now, state)
        /\ UNCHANGED promised
     \/ /\ persisted >= revision
        /\ promised' = promised \cup {Now}
        /\ UNCHANGED <<state, queue, waits>>
  /\ UNCHANGED <<memory, phase, closing, storage, issued, bounds>>

(* A broken variant: a degraded database refuses flush, too *)
MutantFlush(c) ==
  /\ waits[c] = Idle
  /\ state = "open"
  /\ Cover(c, state)
  /\ UNCHANGED <<memory, phase, closing, storage, issued, bounds>>

Flush(c) ==
  /\ waits[c] = Idle
  /\ Usable
  /\ Cover(c, state)
  /\ UNCHANGED <<memory, phase, closing, storage, issued, bounds>>

(* close(): later calls return the same promise *)
Close ==
  /\ closing = "none"
  /\ Cover(Closer, "closing")
  /\ closing' = IF waits'[Closer] = Idle THEN "settled" ELSE "flushing"
  /\ UNCHANGED <<memory, phase, storage, issued, bounds>>

-----------------------------------------------------------------------------
(* The task at the head of the queue: adapter.store and what follows it *)

StartStore ==
  /\ queue # <<>>
  /\ phase = "waiting"
  /\ phase' = "storing"
  /\ UNCHANGED <<state, memory, queue, closing, waits, storage, history, bounds>>

(* A broken variant: the root is cloned when the store begins *)
MutantEnvelope ==
  [generation |-> generation + 1, revision |-> Head(queue).revision, root |-> root]

(* The snapshot of the task: the root cloned when #persist was called *)
Envelope ==
  [generation |-> generation + 1, revision |-> Head(queue).revision, root |-> Head(queue).root]

(* The adapter replaces its snapshot if the expected generation is its own. *)
InstallSnapshot ==
  /\ phase = "storing"
  /\ generation = disk.generation
  /\ disk' = Envelope
  /\ phase' = "installed"
  /\ UNCHANGED <<state, memory, queue, closing, waits, released, history, bounds>>

(* Broken variants: what is in memory counts as persisted, and an           *)
(* acknowledgement never reopens the database.                              *)
MutantAcknowledged == revision
MutantHealed(covered) == state

(* What an acknowledgement does to #persistedRevision and to #state *)
Acknowledged == IF persisted < Head(queue).revision THEN Head(queue).revision ELSE persisted
Healed(covered) == IF state = "degraded" /\ covered >= revision THEN "open" ELSE state

AckStore ==
  /\ phase = "installed"
  /\ phase' = "stored"
  /\ generation' = generation + 1
  /\ persisted' = Acknowledged
  /\ state' = Healed(Acknowledged)
  /\ UNCHANGED <<revision, root, queue, closing, waits, storage, history, bounds>>

StoreRejected ==
  /\ phase' = "failed"
  /\ state' = "degraded"
  /\ UNCHANGED <<memory, queue, closing, waits, storage, history, restarts>>

(* Rejected with nothing written: another generation, a closed adapter, or *)
(* any other failure of the storage.                                       *)
FailStore ==
  /\ phase = "storing"
  /\ \/ /\ generation # disk.generation \/ released
        /\ UNCHANGED failures
     \/ /\ failures < MaxFailures
        /\ failures' = failures + 1
  /\ StoreRejected
  /\ UNCHANGED lostAcks

(* Rejected although installed, as when the directory cannot be synced after *)
(* the rename, or acknowledged in a way #persist does not accept.            *)
LoseAck ==
  /\ phase = "installed"
  /\ lostAcks < MaxLostAcks
  /\ lostAcks' = lostAcks + 1
  /\ StoreRejected
  /\ UNCHANGED failures

(* Who awaits the task at the head, and which of them go on with their      *)
(* promise resolved: all if the store succeeded, otherwise those that only  *)
(* await the end of the queue.                                              *)
HeadAwaited == {c \in DOMAIN waits : waits[c] # Idle /\ waits[c].task = Head(queue).revision}

Resolvable == {c \in DOMAIN waits : waits[c] # Idle /\ (phase = "stored" \/ waits[c].tail)}

(* Broken variants: a failure is never told, or told as a success *)
MutantAwakened == HeadAwaited \cap Resolvable
MutantResolved == HeadAwaited

Awakened == HeadAwaited
Resolved == HeadAwaited \cap Resolvable

(* The finally of the task: it leaves the queue and its awaiters go on. *)
SettleTask ==
  /\ phase \in {"stored", "failed"}
  /\ phase' = "waiting"
  /\ queue' = Tail(queue)
  /\ waits' = [c \in DOMAIN waits |-> IF c \in Awakened THEN Idle ELSE waits[c]]
  /\ promised' = promised \cup {waits[c].receipt : c \in Resolved}
  /\ closing' = IF Closer \in Awakened THEN "settled" ELSE closing
  /\ UNCHANGED <<state, memory, storage, issued, bounds>>

(* A broken variant: no release after a flush that failed *)
MutantReleaseAdapter ==
  /\ closing = "settled"
  /\ persisted >= revision
  /\ closing' = "releasing"
  /\ released' = TRUE
  /\ UNCHANGED <<state, memory, queue, phase, waits, disk, history, bounds>>

(* #performClose after its flush, whether that failed or not *)
ReleaseAdapter ==
  /\ closing = "settled"
  /\ closing' = "releasing"
  /\ released' = TRUE
  /\ UNCHANGED <<state, memory, queue, phase, waits, disk, history, bounds>>

FinishClose ==
  /\ closing = "releasing"
  /\ closing' = "closed"
  /\ state' = "closed"
  /\ UNCHANGED <<memory, queue, phase, waits, storage, history, bounds>>

(* The process ends at any moment and a new one opens what is on disk. *)
Restart ==
  /\ restarts < MaxRestarts
  /\ restarts' = restarts + 1
  /\ state' = "open"
  /\ revision' = disk.revision
  /\ root' = disk.root
  /\ persisted' = IF disk.generation = 0 THEN -1 ELSE disk.revision
  /\ generation' = disk.generation
  /\ queue' = <<>> /\ phase' = "waiting"
  /\ closing' = "none"
  /\ waits' = [c \in DOMAIN waits |-> Idle]
  /\ released' = FALSE
  /\ UNCHANGED <<disk, history, failures, lostAcks>>

Next ==
  \/ \E c \in Clients : CommitPersisted(c) \/ CommitUnchanged(c) \/ Flush(c)
  \/ \E c, hook \in Clients : CommitAroundHook(c, hook)
  \/ \E c \in Clients : CommitAroundVolatile(c)
  \/ CommitVolatile
  \/ Close
  \/ StartStore \/ InstallSnapshot \/ AckStore \/ FailStore \/ LoseAck
  \/ SettleTask
  \/ ReleaseAdapter \/ FinishClose
  \/ Restart

Spec == Init /\ [][Next]_vars

(* Promise callbacks run, and the adapter answers every call. *)
Answer == InstallSnapshot \/ AckStore \/ FailStore \/ LoseAck

Fairness ==
  /\ WF_vars(StartStore) /\ WF_vars(Answer) /\ WF_vars(SettleTask)
  /\ WF_vars(ReleaseAdapter) /\ WF_vars(FinishClose)

FairSpec == Spec /\ Fairness

(* As README.md:108 advises, the application keeps calling flush() while   *)
(* the database is degraded.                                               *)
Retries == SF_vars(\E c \in Clients : Flush(c))

RetryingSpec == FairSpec /\ Retries

-----------------------------------------------------------------------------
(* Properties *)

(* The fields have their types, and the queue never exceeds its limit. *)
TypeOK ==
  /\ state \in {"open", "degraded", "closing", "closed"}
  /\ revision \in 0 .. MaxCommits /\ root \subseteq 1 .. MaxCommits
  /\ persisted \in -1 .. MaxCommits
  /\ generation \in Nat
  /\ queue \in Seq(Snapshot) /\ Len(queue) <= MaxPendingSnapshots
  /\ phase \in {"waiting", "storing", "installed", "stored", "failed"}
  /\ phase # "waiting" => queue # <<>>
  /\ closing \in {"none", "flushing", "settled", "releasing", "closed"}
  /\ \A c \in Clients \cup {Closer} :
       waits[c] # Idle =>
         /\ waits[c].receipt \in Snapshot
         /\ \E n \in 1 .. Len(queue) : queue[n].revision = waits[c].task
  /\ disk.generation \in Nat /\ [revision |-> disk.revision, root |-> disk.root] \in Snapshot
  /\ released \in BOOLEAN
  /\ promised \subseteq Snapshot /\ issued \in 0 .. MaxCommits

(* Every call whose durable promise resolved is covered by the snapshot on *)
(* disk, now and after any crash: later stores, shared snapshots, failures *)
(* in between and restarts never take an acknowledged commit away.         *)
AckedDurable == \A receipt \in promised : receipt.root \subseteq disk.root

(* A snapshot holds exactly the commits up to the revision it is stored    *)
(* under, although it waits in the queue while more commits are published. *)
SnapshotsMatchLabel ==
  /\ Cardinality(root) = revision
  /\ Cardinality(disk.root) = disk.revision
  /\ \A n \in 1 .. Len(queue) : Cardinality(queue[n].root) = queue[n].revision

(* The database is degraded only while some commit is not persisted: a     *)
(* store that catches up always leaves it open again.                      *)
DegradedMeansBehind == state = "degraded" => persisted < revision

(* What is on disk never goes back to an older revision or loses a commit. *)
DiskNeverRegresses ==
  [][disk.revision <= disk'.revision /\ disk.root \subseteq disk'.root]_vars

(* Every caller that awaits a snapshot is answered, and close() ends with  *)
(* the adapter released, also when the flush within it fails.              *)
CallsSettle == \A c \in Clients \cup {Closer} : waits[c] # Idle ~> waits[c] = Idle
CloseFinishes == closing # "none" ~> closing \in {"closed", "none"}

(* A degraded database heals when flush() is called again and again.       *)
(* README.md:108: "call flush() to retry persistence".                     *)
RetryHeals ==
  (state = "degraded" /\ closing = "none") ~> (state # "degraded" \/ closing # "none")

(* A store that was installed but not acknowledged left memory a generation *)
(* behind the storage.                                                      *)
GenerationLost == generation < disk.generation /\ phase # "installed"

(* As long as that does not happen, calling flush() again and again brings  *)
(* every commit of a degraded database to the storage, through failures,    *)
(* shared and refused snapshots, and hooks that commit.                     *)
RetryPersists ==
  Retries => ((state = "degraded" /\ closing = "none" /\ persisted < revision)
                ~> (persisted >= revision \/ closing # "none" \/ GenerationLost))

(* docs/errors.md:14: ERR_CLOSED for an "Operation after close began or    *)
(* completed", so nothing is published from then on.                       *)
ClosedIsTerminal ==
  [][closing # "none" /\ closing' # "none" => issued' = issued]_vars

(* docs/durability-and-recovery.md:5: close() "flushes outstanding memory  *)
(* work before releasing storage ownership".                               *)
CloseFlushes == released => root \subseteq disk.root

(* docs/decisions/0003-durability-lifecycle-events.md:18: a durable promise *)
(* resolves only after an installed snapshot contains its revision, and     *)
(* acknowledgements cannot reorder.                                         *)
AckedRevisionInstalled == \A receipt \in promised : receipt.revision <= disk.revision
=============================================================================
