# NewtonDB in TLA+

NewtonDB (`src/src`) is an embedded document database: documents live in memory
in ordered collections with secondary indexes, transactions read and replace
whole collections optimistically, snapshots go to a storage adapter through a
queue, and listeners are told of each commit. This directory models the parts
of it in which order, interleaving and failure matter, checks them with TLC on
small instances and proves the central facts for all sizes with TLAPS.

Paths below are relative to `src/`, so `src/database.ts` is the engine.
`PROJECT.json` gives the source lines of every definition.

## 1. The system

| Component | State | Operations | Hard behaviour | What makes it correct |
|---|---|---|---|---|
| Collections (`src/database.ts` 57-459) | per collection: records by key, order, positions, index buckets | insert, upsert, update, delete, find | several structures change in one call, which may be refused half way | the structures agree; a refused write changes nothing; unique values differ; answers are those of a plain list |
| Transaction engine (`src/database.ts` 937-1015, 1313-1605) | published root with a revision per collection; per transaction: status, base revisions, working copies, list of changes, limits | beginTransaction, reads, queries, writes, commit, rollback | calls of open transactions interleave; a transaction may be used on after an error | serializability, no lost update, an aborted transaction leaves no trace, the change list is exact |
| Persistence queue and lifecycle (`src/database.ts` 629-830, 1017-1110) | state, revision, persisted revision, generation, promise chain, pending snapshots by revision, promise of close | open, transaction (volatile and persisted), flush, close; completion of a store | the caller waits while others commit; failures, lost acknowledgements, full queue, close in between, crash | what was acknowledged is on disk; storage never goes back; every call is answered; a degraded database can be healed |
| JSON file adapter (`src/node/json-file-adapter.ts`) | primary, backup, temporary and lock files; generation, token | load with recovery, store, close | several processes, stale locks, crash between file operations, unsynced directory, damage | one owner, acknowledged snapshots survive, nothing is lost silently, nobody is locked out for ever |
| Event dispatch (`src/database.ts` 1112-1180, 802-820) | listeners, queue of batches and count of their changes, one microtask | subscribe, enqueue, dispatch, overflow hook, end of close | listeners and hooks commit, subscribe, unsubscribe and close while batches are delivered; overflow drops batches | revisions rise, gaps are announced, a batch goes to those subscribed when it was taken, no batch is stranded, close drops none that was committed before it |
| Query planner (`src/database.ts` 832-935, `src/query.ts`) | none | find, count, explain with index candidates, order, pagination, limits | choice of an index changes what is examined, and in which order | same result as a scan; every page is the one promised |
| Overlay map (`src/overlay-map.ts`) | base map, updates, deletions, counted size, depth, sealed | get, has, iteration, set, delete, seal with compaction | the root and open copies share layers | behaves as a plain map that is copied; what is published never changes; few layers |
| Envelope, catalog, keys, paths, JSON values, errors, entry points | none or constants | pure functions of one value | none between steps | unit tests |

Components call each other synchronously except for four things that run later:
the promise chain of snapshots, the adapter's promises, the microtask of the
event queue, and user callbacks (`onEventOverflow`, listeners, `transaction()`
callbacks). JavaScript runs one stretch of code between two awaits at a time,
so one such stretch is one step of a model; within a file adapter another
process may run between any two file operations.

## 2. The modules

| Module | What it is | State and actions against the code |
|---|---|---|
| `Schema` | constants: keys, documents, patches, indexes, and the calls of `TransactionCollection` | documents are opaque; `IndexKeyOf` says what an index sees in a document, a patch is a function of it |
| `Collection` | one `StoredCollection` and the operators `InsertDoc`, `UpsertDoc`, `UpdateDoc`, `DeleteDoc`, `FindDocs` with every refusal | translated from `_insert`, `_update`, `_delete`; `Consistent` is `assertCollectionInvariant` plus uniqueness |
| `SerialDocs`, `SerialStore` | abstract: a collection as a list of key and document; a store in which a committed transaction is one atomic step | not in the code: what README and ADR-0002 promise |
| `Transactions` | the engine, one action per method of `Transaction` and the branches of `_commit` | `stored`, `collRevision`, `revision` are the root; `base`, `working`, `changes`, `operations`, `status` are the private fields |
| `TransactionHistory` | `Transactions` with a history variable: the calls and answers of each transaction | refinement mapping to `SerialStore` |
| `Durability` | commits, snapshots, acknowledgements, flush, close, crash and reopening, one atomic adapter below | the root is the set of commits in it; `queue` is the promise chain, `waits` the callers' promises, `phase` how far the head of the chain has come |
| `JsonFile` | the adapter, one step per file operation, several processes | `pc` is the place in load or store, `release` that in close, which may run beside a store; `primary`, `backup`, `lock`, `temp` are files; `synced` is what the last sync of the directory made safe |
| `Queries` | queries on the root: plan, candidates, filter, order, page, limits | `ChoosePlan`, `Candidates`, `Holds`, `Accepts`, `CompareJson`, `Execute` are `choosePlan`, the branches of `_query`, the comparisons and connectives of `compileWhere`, `compareJson` and `_query`; `Sorted` is what `Array.prototype.sort` does with a comparison; `Promised` says the same answer without plan, candidates or sorting |
| `Events` | listeners, queue of batches, microtasks, close | one action per call of the application and per stretch of the dispatching microtask; `microtasks` is the runtime's queue, `speaking` and `hooks` say which application code is on the stack and may call the database |
| `OverlayMap` | maps as objects on a heap, each with the chain of handles below it | `Copy` is `#writable`, `Set` and `Delete` the methods, `Commit` is `seal` and the publication of its result, `Discard` the end of a transaction without publication |
| `PlainMaps` | abstract: maps that are copied, changed and replaced as a whole | not in the code: what the engine takes its maps for |
| `FoldProofs` | lemmas about `FoldLeft` | used by the proofs that meet a fold |
| `TransactionsProofs`, `TransactionHistoryProofs`, `QueriesProofs`, `DurabilityProofs`, `EventsProofs`, `OverlayMapProofs`, `JsonFileProofs` | theorems | see section 5 |
| `MC*` | values for TLC and symmetry | |

How they compose: `Transactions` EXTENDS `Collection` EXTENDS `Schema`;
`TransactionHistory` EXTENDS `Transactions` and INSTANCEs `SerialStore` for the
refinement; `Collection` INSTANCEs `SerialDocs` to compare each call with a plain
list. `Queries` EXTENDS `Transactions`, so that queries are asked of every root
that commits can lead to. `OverlayMap` details what `Collection` takes for a
function (records, positions, buckets) and INSTANCEs `PlainMaps` for the
refinement. `Events` details what follows a publication; of the lifecycle it
keeps what admits calls, and takes from `Durability` that a closing database may
become degraded. `Durability` abstracts the root of `Transactions` to the commits in it;
`JsonFile` details what `Durability` takes as one install of a snapshot
(`StartStore`, `InstallSnapshot`, `AckStore`, `FailStore`, `LoseAck`).

Definitions named `Mutant...` are broken variants of the operator that follows
them. `PROJECT.json` pairs each with the property that detects it.

## 3. The runs

All passing runs exhaust their state space, and all of them set
`CHECK_DEADLOCK FALSE`: every system here may stop (all transactions ended, a
database closed, the bounds used up).

| Run | Question | Bounds and why they are enough |
|---|---|---|
| `txn_structure` | do the structures of a collection agree at every step of every mix of writes, are answers, change lists and query results right? | one collection, two keys, three valid documents that clash or not on a unique index and one the second index refuses, two transactions of two operations. Refusals half way need a second index; stale positions need delete and re-insert; two keys order them. The answers of a transaction's calls are compared with a plain list in states where no other transaction is open (a copy does not depend on the others), and a fixed set of queries, with ceilings for candidates, results and sorting that some of them exceed and others just meet, is asked of the root where none is |
| `txn_serial` | is every committed history serial? | two collections, one key, two transactions of two calls each: write skew and lost updates need two transactions, two collections, and a read before a write. There are no patches: for the history an update is a read followed by an upsert. A find is called with no or one result allowed, so that it answers or is refused by what was written; the refusal for candidates needs two documents and is met in `txn_structure` |
| `dur_safety` | queue, acknowledgements and crash | two clients and close, queue of two, four commits, two failed stores, one lost acknowledgement, one crash: a refused, a shared and a stored snapshot can all be pending together |
| `dur_live` | the same with an overflow hook that commits, durably or in memory: are calls answered, does close finish, and does flush() called again and again persist what is not? | as above with three commits; liveness, hence no symmetry |
| `events` | do listeners hear what they were promised, whatever they and the hooks do meanwhile? | three commits of one or two changes, two queued batches, three queued changes, two subscriptions, hooks one deep: either limit can be the one that is reached, one listener can add or remove the other while a batch is out, and a commit from a hook or a listener meets a full queue |
| `overlay` | do layered maps behave as plain ones? | two keys, two values, two transactions, four maps, depth two, threshold two: two values tell an overlaid entry from the one below it, a second layer reaches the depth, two changes the threshold, and a copy of an older root is still read while newer ones are published |
| `file_safety` | do lock, store, backup and recovery keep the file whole? | two processes, a lock perhaps left by a third, two commits (so that there is a backup that lags), one failed operation, one power cut, one damaged file, in every order; an adapter may be closed at any point of a store |

`JsonFile` has a constant `Settings`: whether processes may be within
`#acquireLock` at the same time, whether they set `recoverFromBackup`, and whether
a database may close the adapter while it stores, as it does when its queue is
full (`dur_close_flush`). In `file_safety` at most one of the three. `OneServes`,
`BackupHoldsTheRest`, `OpensComplete` and `RefusedOnlyByTheLiving` hold while locks
are not contended and say so in their formula. `AckedInFile` holds with contended
locks too as long as nobody may recover from the backup, and when the lock is
released under a store, and the reason deserves notice: two processes can both
believe they own the lock, and the token is compared before the rename, not with
it. What stops the old owner is that the new owner removes its temporary file
(`#removeStaleTemps`) before it loads. A
variant without the second comparison (`MutantRecheck`) loses acknowledged
commits.

`AckedInFile` speaks of what is acknowledged and not given up since. A permitted
recovery gives up what was stored after the backup (`Recover` takes it out of
`acked`), and the code does so for any primary it could not read, damaged or not.
That an intact primary can be given up this way is what `file_unread` shows; it
is not hidden by `file_safety`, nor refuted by it.

`onEventOverflow` is optional (`src/database.ts` 1127 calls it with `?.`). Without
one the database does what it does with a hook that returns at once, which is
among the behaviours of `Events`; every property holds there too, but `overflowed`
is then the set of the batches that did not fit and that nobody was told of. That
no gap is silent (`NoSilentGap`) is said of databases that configure the hook.

A hook that commits is modelled in `Durability` at the one place where it makes a
difference, inside a durable commit: durably itself (`CommitAroundHook`) or in
memory (`CommitAroundVolatile`). Around a volatile commit, or when the hook calls
`flush()`, it does what the single actions do one after the other.

### Divergences

Five runs are expected to violate their property; each shows the code doing
something other than its documentation says.

| Run | Property | What happens |
|---|---|---|
| `dur_closed` | `ClosedIsTerminal` | a store that fails or a full queue during close sets the state to degraded again, and commits are accepted (`src/database.ts` 1052, 1097; `docs/errors.md:14`) |
| `dur_close_flush` | `CloseFlushes` | with a full queue the flush within close is refused at once and the adapter is released with a commit unstored (`src/database.ts` 1049; `docs/durability-and-recovery.md:5`) |
| `dur_lost_ack` | `RetryHeals` | a store installed but not acknowledged leaves the generation behind, so no later flush succeeds (`src/database.ts` 1096; `README.md:108`) |
| `file_race` | `AckedInFile` | recovery from the backup renames without comparing the token again, over a snapshot another live process is about to acknowledge (`src/node/json-file-adapter.ts` 472; `docs/durability-and-recovery.md:13`) |
| `file_unread` | `RecoversOnlyDamaged` | an intact primary that could not be read once is taken for corrupt and replaced by the older backup (`src/node/json-file-adapter.ts` 440; its own line 45; `docs/durability-and-recovery.md:19`) |

Observed as well, with no run of their own: a commit queued behind the one its
own overflow hook made takes the revision on disk back, though no commit is lost
(`src/database.ts` 1127; with `OverflowHookCommits = TRUE` TLC finds
`AckedRevisionInstalled` violated); under that hook a database may also stay
degraded with `persistedRevision` equal to `revision`, where flush() only waits
and never heals (which is why `DegradedMeansBehind` is checked in `dur_safety`
and not in `dur_live`, and why `RetryPersists` is about commits that are not
persisted); a snapshot that a dead process renamed without syncing the directory
is loaded and counts as persisted (`src/node/json-file-adapter.ts` 443; ADR-0003
line 18 asks for the sync before an acknowledgement); the store of an adapter that
was closed under it may still rename its copy of an old primary over a newer
backup, since `#writeBackup` compares no token (with `hasty` and three commits TLC
finds the backup an acknowledged snapshot short, hence the exception in
`BackupHoldsTheRest`); a listener that subscribes
before the microtask of a batch receives that batch, although it was committed
before; the count of queued changes is not reset when close() empties the queue,
and a batch committed after close() began (which `dur_closed` shows to be
possible) may be dropped by its end without a word; reads
through a collection are allowed after close, which ADR-0003's table rejects; a
commit through `beginTransaction()` is accepted while degraded without
`allowVolatileWhenDegraded`; the same table lists flush as rejected while
degraded, the code retries; a `transaction()` callback that calls `commit()`
itself publishes and is then told of a failure.

## 4. Fairness

Safety runs use `Spec`, which has none. `FairSpec` of `Durability` assumes weak
fairness of what the JavaScript runtime and the adapter do by themselves:
continuations of settled promises run, and an adapter that was called answers in
one of its ways (`Answer`: acknowledges, fails, or fails after installing).
Nothing is assumed of the application. Where a property is about an application
that keeps calling flush(), as `README.md:108` tells it to do, that is strong
fairness of flush(): `Retries`, the assumption within `RetryPersists`, and
`RetryingSpec` in `dur_lost_ack`, where `RetryHeals` fails all the same.
`RetryPersists` excepts the case that `dur_lost_ack` shows (`GenerationLost`).

`FairSpec` of `Events` assumes weak fairness of `Runtime`: microtasks are run, and
listeners and hooks return. It assumes nothing of commits, subscriptions, close,
or of the time at which the storage answers.

## 5. What is proved

All theorems hold for any constants that satisfy the assumptions stated in the
modules (`CollectionAssumption`, `TransactionsAssumption`, `HistoryAssumption`,
`QueriesAssumption`, `DurabilityAssumption`, `EventsAssumption`,
`OverlayAssumption`, `JsonFileAssumption`; every passing run that uses a module evaluates its
assumptions).

*Transactions.* `TransactionInv` (`InvariantHolds`) conjoins the types, the
consistency of the root and of all working copies, that revisions only grow, and
that a working copy is no older than the first touch of its collection. It is
inductive; consistency alone is not, since a publication installs a copy, so the
copies have to be consistent, and `NoLostUpdate` needs to know that base
revisions and collection revisions are ordered. Its step rests on the lemmas
about `Collection` that open `TransactionsProofs`: `InsertNewConsistent`, `ReplaceConsistent` and
`DeleteDocConsistent` show that each write, also one refused half way, preserves
`Consistent`. From it follow `TypeCorrect`, `RootStaysConsistent`,
`CopiesStayConsistent` and `NoUpdateIsLost`.

*Calls.* `CallsStaySerial` compares every call with the plain list of documents.
Its lemmas do it for one call on any consistent collection (`CallsMatch`): a look-up in the list finds what the record map holds
(`LookupFinds`); an index accepts a document exactly if no other document of the
list stands in its way (`AdmissibleIsAccepted`), also while the old document is out
of the indexes, which is where a refused update is; the list after an insert, a
replacement or a deletion is the order of the new collection with its records
(`InsertNewMatches`, `ReplaceMatches`, `DeleteMatches`); and find keeps the same
documents (`FindMatches`). Consistency is what the comparison rests on, so the
theorem follows from `InvariantHolds`. The proof found the guards of the CASE in
which `WriteVerdict` of `SerialDocs` was written to overlap, so that its meaning
was TLC's order of evaluation; it, and `CompareJson` of `Queries` with the same
fault, are now written with IF.

*Changes.* `ChangeListsTellAll` needs a stronger invariant, `ChangesSound`: where a
transaction is not in conflict, its list replayed over the root gives the
documents it sees, and with no entry about a collection it sees the documents and
the order of the root. A write adds the entry that leads from what was seen to what
is (`WriteTells`), and a refused one leaves documents and order. That others
publish does not disturb it: where the root moved, a transaction that had looked is
in conflict, and one that had not has no entry (`OthersKeepSound`).

*History.* `ReadsStayCurrent`: whatever a transaction was told of a collection
it has not written is still true of the root in every state in which it could
commit. `HistoryInv` says it entry by entry: an answer holds of the root as long
as the base revision of its collection is the current one.

*Serializability.* `TransactionsSerialize` is the refinement of `SerialStore`. The
invariant that carries it is `Serializes`: as long as no collection a transaction
touched has moved, running its script alone, on any store that has the committed
documents of those collections, gives the answers it was given and leaves what it
sees. "Any store" is what makes it inductive: the script does not depend on
collections the transaction never looked at, so others may change them. A call adds
one step to the script, which agrees by `CallsMatch` (`CallKeepsSerial`); a commit
that passes the revision check is then `Settle` (`CommitIsSettle`), and one that
publishes nothing, because there are no changes, leaves the documents as they are,
by `ChangesSound`.

A script is run by a fold, a list is replayed by one, and find keeps documents by
one. `FoldProofs` has what they share: the function by which `FoldLeft` is defined
exists (`FoldsExist`), and what it yields is the end of a trace with one value per
position (`FoldTrace`), so that one element more is one step more (`TraceAppend`).

*Queries.* `QueriesAnswerAsPromised` and `PlansNeverShow` compare what plan,
candidates, filter, sort and page yield with `Promised`, which knows none of them:
a document stands on a page by how many accepted documents precede it.
The promise has both directions for sorting and results: a refusal comes only
where more documents are accepted than may be sorted, or stand on the page than may
be returned, and then no page with room for a document is given. For candidates only
the first is asked, since their number is a matter of the plan.
Every plan offers all that the condition accepts, in insertion order
(`PlanOffers`): the scan does so by its order, the primary key because an accepted
document is stored under the key that is asked for (`KeyOffers`), and an index because its
bucket has exactly the documents with the encoded value and is sorted by position
(`IndexOffers`). Here consistency is needed, so both theorems rest on
`RootStaysConsistent`, and so is that `EncodeIndexValue` keeps values apart.
What the filter keeps of them stays in that order (`PickedInOrder`). With an order
asked for, the comparison of sort is `Precedes` (`SortsAsPromised`), by the first
field that tells two documents apart, and strict and total since primary keys
differ (`FieldsOrder`); for such a comparison there is a way to sort and sorting
ascends (`SortedAscends`). In a listing that ascends, the place of an element is the
number of those that precede it (`PlaceTold`), hence a stretch of it is a promised page
(`PageIsPromised`). An index examines no more documents than a scan (`OfferBounded`,
where the primary key needs a ceiling of at least one; the code's is 100 000,
`src/database.ts` 100).
The theorems hold whatever transactions are open. Of `and`, `or` and `not` they need
only that a document is accepted or not, not what the parts say; that a
nested condition means what it should is the function inside `Accepts`, and its
values are seen by TLC alone.

*Durability.* `DurabilityInv` has five parts: `MemorySound` (persisted,
revision and root are ordered), `QueueSound` (pending snapshots contain what is
on disk and grow towards the root), `HeadSound` (where the store of the head has
come), `WaitsSound` (a caller awaits a snapshot, or the end of a queue, that
contains its receipt), and `AckedDurable`. The last is the property, and is not
inductive without the others: a promise is resolved because the snapshot it
awaited was installed, and a later install keeps it because the queue grows. It
covers any number of clients, any queue limit, failures, lost acknowledgements,
crashes, and the overflow hook, whether it commits durably or in memory; so do the types (`TypesHold`).

*Order of stores.* When the overflow hook commits nothing, snapshots also wait in
the order of their revisions, each newer than what is persisted and not older than
the disk (`RevisionOrder`), and a caller awaits the snapshot of its own revision
(`ReceiptOrder`). `OrderHolds` shows this inductive on top of `DurabilityInv`, and
`LabelsAreRight`, `AckedIsInstalled`, `DegradedIsBehind` and `DiskMovesOn` follow.
They have the premise `~OverflowHookCommits` because the code breaks them without
it (see the observations in section 3).

*Events.* `EventsInv` (`EventsInvHolds`) orders the revisions: what a listener
heard lies below the batch in delivery, that below the queued ones, which rise up
to `revision` (`HeardBefore`, `QueueRises`); who has heard a batch or is still to
be called with it is the audience noted when it was taken (`AudienceKnown`); and
every microtask of close() has the dispatching one ahead of it, or running, as
long as a batch from before close() is queued (`CloseOrder`). From it follow
`ListenersHearInOrder`, `NoGapIsSilent`, `AudienceIsServed`, `NoBatchIsStranded`
and `CloseKeepsEarlyBatches`, none of which is inductive alone, for any limits,
any number of listeners and hooks within hooks. TLC cuts hooks within hooks at
`MaxHookDepth`; `NoGapIsSilent` covers them at any depth.

`QueueStaysWithinLimits` is about a sum over a sequence, and the sum is a fold.
`FoldLeft` is defined by a function that is chosen; `SumsExist` shows that there
is one and `SumsAgree` that its value depends on the batches alone, both by
induction over their number. The induction is `SetInduction`, over a set of
numbers and not over a predicate, which the provers can instantiate. Hence a batch
more counts as what it holds (`CountedAppend`), the head that is taken no longer
does (`CountedTail`), and each step keeps the count exact (`LimitsStep`).

*Overlay map.* `OverlayInv` (`OverlayInvHolds`) says that every chain ends at its
map and lies over sealed layers only, that each copy is unsealed and one
transaction's, and that a look-up ends. Hence a write reaches no look-up but those
that start at the copy (`WriteSeenOnce`), a new layer answers as the map it was
taken from (`CopyEffect`), and a compacted one as the layers it replaces
(`CommitEffect`). `LookUpsAreBounded`, `SizesAreRight` and `SharedMapsNeverChange`
follow, and `LayersArePlainMaps`: every step is one of `PlainMaps`, for any keys,
values, transactions, depth and threshold.

A compaction is `new Map(this)`, which iterates; `Compacted` is therefore made of
the entries that `Iterate` yields, and that they are what `get` answers is a result:
`IterationMatchesLookUps` for keys and values, `CompactedIsContent` for the copy. The
iteration is a fold over the chain and within each layer a fold over the entries from
below (`KeptTrace`, `IterateTrace` turn both into a sequence of results). By
induction along the chain the result at each layer names no key twice and has
the entries which the map at that layer answers for (`IterateYields`); the step is
that a layer answers with what it updates, and else with what its base answers
unless it deletes the key (`LayerGets`, `LayerYields`). That needs the
last conjunct of the invariant, `ChainsNest`: the chain of a map begins with the
chain of each map on it.

*JSON file.* `IInv` (`FileInvHolds`) has a part that always holds and two that
depend on the setting. Always: the types and places, `OneEntitled`, and that an
empty storage is never what is left of one with commits. `OneEntitled` is the
centre: a process may still replace the primary if it owns the lock and has removed
the temporary files of its predecessors, or if it has compared its token for the
last time and its temporary file is still there. At most one process can be either
(`OneMayReplace`), also when several believe that they own the lock, since the next
owner removes the temporary file before it loads. It is inductive by itself;
"one owner of the lock" is not, and with contended locks is false. While locks are
not contended `LockOrder` adds who can be within `#acquireLock` and what lock it
can have found there, and `OneProcessServes` and `RefusalsAreForTheLiving` follow.

`NothingLost` says that primary, and what a power cut would leave of it, hold
every acknowledged commit (`FileSound`), that a snapshot which was renamed and not
yet acknowledged is in it (`StoredIsIn`), that whoever may replace the primary has
both in memory (`MemoryComplete`, `ReadFresh`), and that a recovery writes what is
complete (`RecoveryComplete`). The property alone is not inductive because a store
replaces the file as a whole: what it replaces it with is the memory of the process.
(`acked` is what is acknowledged and was not given up by a permitted recovery, see
section 3.) `AckedStaysInFile` and `OpeningsAreComplete` have the premise `Careful`, that a
process may recover from the backup only where locks are not contended and no
adapter is closed under a store: the run `file_race` shows the code losing an
acknowledged commit without it. `BackupTrails` relates the generations of backup,
primary, memory and acknowledgements; it holds where locks are not contended and no
adapter is closed under a store (`Quiet`), which is what `BackupHoldsTheRest` says
of itself (`BackupTrailsByOne`), for the reason given in section 3. Before it was
proved, `IInv` was checked with TLC as an invariant of `MCJsonFile`, for all eight
settings with two processes.

*Only model-checked.* Liveness (`CallsSettle`, `CloseFinishes`, `RetryPersists`,
`BatchesLeave`), which the prover cannot do. Every safety invariant and action
property of a passing run is stated by a theorem. The violated properties of
section 3 have none.

## 6. Not modelled, and assumptions

- Documents are opaque: schema validation, cloning, encoded keys and the syntax of
  paths are functions of one value. A validator or an updater that calls the
  database back is left out (`src/database.ts` 1492).
- Of conditions, `parseWhere` (the shape of one value), the fluent query builder
  and the inside of `contains`, `startsWith` and `endsWith` are left out; a text
  condition is the set of values it accepts.
- Maps iterate in an order the modules do not observe: `Collection` keeps the order
  of documents in `order` and `positions`, as the code does.
- `Transactions` keeps the lifecycle as one Boolean, `accepting`; `Durability`
  has it in full. Their composition (a callback of `transaction()` that commits
  its own transaction) is in the plan.
- The clock is a step that lets a transaction expire.
- `Durability` has one process at a time; `JsonFile` several. The database
  identity, byte limits and hard links are left out. A process
  opens the file once, a read and the removal of stale temporary files
  are one step each, and a dead process's number is not
  used again. Damage makes a primary vanish only when a backup is durable: with
  neither file there is nothing to tell an empty storage from a lost one.

## 7. Plan

In this order:

1. `Transactions` with `Durability`: the content of snapshots, `transaction()`
   with a callback that commits, fails or begins others.
2. `JsonFile` as an implementation of the adapter that `Durability` assumes.
3. Proofs for the modules that 1 and 2 add.
