---------------------------- MODULE Transactions ----------------------------
(***************************************************************************)
(* The transaction engine of src/src/database.ts: explicit transactions    *)
(* that read the committed root, write private copies of collections and   *)
(* publish them together if no collection they touched has moved.          *)
(* JavaScript runs one call at a time, so each method of Transaction is a  *)
(* step; the calls of several open transactions interleave in any order.   *)
(* A transaction whose method throws stays usable when the caller catches. *)
(***************************************************************************)
EXTENDS Collection

CONSTANTS
  Txns,               \* transaction objects the clients create
  Seeds,              \* what a collection may be loaded with
  MaxOperations,      \* limits.maxOperations
  MaxReadCollections, \* limits.maxReadCollections
  NoCopy              \* no working copy of a collection

ASSUME TransactionsAssumption ==
  /\ MaxOperations \in Nat \ {0}
  /\ MaxReadCollections \in Nat \ {0}
  /\ \A docs \in Seeds : docs \in Seq([key : Keys, doc : Docs]) /\ Loadable(docs)
  /\ NoCopy \notin [coll : CollectionType, baseRevision : Nat]

VARIABLES
  stored,       \* Database.#collections: the published root
  collRevision, \* the revision field of each published collection
  revision,     \* Database.#revision
  accepting,    \* the lifecycle state passes #assertOpen
  status,       \* Transaction.#status, "unborn" before beginTransaction
  expired,      \* the transaction is older than limits.maxAgeMs
  operations,   \* Transaction.#operations
  base,         \* Transaction.#baseRevisions
  working,      \* Transaction.#working
  changes       \* Transaction.#changes

root    == <<stored, collRevision, revision>>
private == <<operations, base, working, changes>>
vars    == <<stored, collRevision, revision, accepting, status, expired,
             operations, base, working, changes>>

Untouched == -1

WorkingType == [coll : CollectionType, baseRevision : Nat]

Untold == [c \in Collections |-> Untouched]
NoCopies == [c \in Collections |-> NoCopy]

Init ==
  /\ \E seed \in [Collections -> Seeds] :
       stored = [c \in Collections |-> CreateCollection(seed[c])]
  /\ collRevision = [c \in Collections |-> 0]
  /\ revision = 0
  /\ accepting = TRUE
  /\ status = [t \in Txns |-> "unborn"]
  /\ expired = [t \in Txns |-> FALSE]
  /\ operations = [t \in Txns |-> 0]
  /\ base = [t \in Txns |-> Untold]
  /\ working = [t \in Txns |-> NoCopies]
  /\ changes = [t \in Txns |-> <<>>]

-----------------------------------------------------------------------------
(* Helpers of Transaction *)

(* #assertActive and #assertWithinLimits *)
CanCall(t) == status[t] = "active" /\ ~expired[t]

Touched(t) == {c \in Collections : base[t][c] # Untouched}

(* #touchCollection: the first touch records the revision, later ones do not, *)
(* and a new collection must not exceed the limit.                            *)
CanTouch(t, c) ==
  c \in Touched(t) \/ Cardinality(Touched(t)) < MaxReadCollections

(* A broken variant: every touch records the revision anew *)
MutantTouch(t, c) == base' = [base EXCEPT ![t][c] = collRevision[c]]

Touch(t, c) ==
  base' = IF c \in Touched(t) THEN base ELSE [base EXCEPT ![t][c] = collRevision[c]]

(* What a transaction sees: its working copy, else the root of this moment *)
View(t, c) == IF working[t][c] = NoCopy THEN stored[c] ELSE working[t][c].coll

(* #writable: copy the collection on the first write *)
Writable(t, c) ==
  IF working[t][c] = NoCopy
  THEN [coll |-> stored[c], baseRevision |-> collRevision[c]]
  ELSE working[t][c]

-----------------------------------------------------------------------------
(* The methods of a transaction *)

(* Database.beginTransaction *)
BeginTransaction(t) ==
  /\ accepting
  /\ status[t] = "unborn"
  /\ status' = [status EXCEPT ![t] = "active"]
  /\ UNCHANGED <<root, accepting, expired, private>>

(* A call that only looks; its answer, be it a refusal, is computed from View *)
Look(t, c) ==
  /\ CanCall(t)
  /\ CanTouch(t, c)
  /\ Touch(t, c)
  /\ UNCHANGED <<root, accepting, status, expired, operations, working, changes>>

(* Transaction._read and Transaction._query *)
Get(t, call)  == Look(t, call.coll)
Find(t, call) == Look(t, call.coll)

(* A broken variant: a refused write is noted as a change *)
MutantWrite(t, call) ==
  LET copy  == Writable(t, call.coll)
      write == WriteOutcome(copy.coll, call)
  IN  /\ CanCall(t)
      /\ operations[t] < MaxOperations
      /\ CanTouch(t, call.coll)
      /\ operations' = [operations EXCEPT ![t] = @ + 1]
      /\ Touch(t, call.coll)
      /\ working' = [working EXCEPT ![t][call.coll] = [copy EXCEPT !.coll = write.coll]]
      /\ changes' = [changes EXCEPT ![t] =
                       Append(@, [coll |-> call.coll, change |-> write.change])]
      /\ UNCHANGED <<root, accepting, status, expired>>

(* A write that passes #recordOperation and #writable: the working copy is *)
(* made even when the write is then refused; a change is noted only when   *)
(* it is not.                                                              *)
Write(t, call) ==
  LET copy  == Writable(t, call.coll)
      write == WriteOutcome(copy.coll, call)
  IN  /\ CanCall(t)
      /\ operations[t] < MaxOperations
      /\ CanTouch(t, call.coll)
      /\ operations' = [operations EXCEPT ![t] = @ + 1]
      /\ Touch(t, call.coll)
      /\ working' = [working EXCEPT ![t][call.coll] = [copy EXCEPT !.coll = write.coll]]
      /\ changes' = IF write.result # "ok" THEN changes
                    ELSE [changes EXCEPT ![t] =
                            Append(@, [coll |-> call.coll, change |-> write.change])]
      /\ UNCHANGED <<root, accepting, status, expired>>

(* A write refused by a limit: #recordOperation counts it before it looks, *)
(* and a collection beyond the read limit is found out after the count.    *)
(* Counts above MaxOperations + 1 are all alike and not distinguished.     *)
ExceedLimit(t) ==
  /\ CanCall(t)
  /\ operations[t] <= MaxOperations
  /\ \/ operations[t] = MaxOperations
     \/ \E c \in Collections : ~CanTouch(t, c)
  /\ operations' = [operations EXCEPT ![t] = @ + 1]
  /\ UNCHANGED <<root, accepting, status, expired, base, working, changes>>

(* Date.now() - #createdAt passes limits.maxAgeMs: every later call throws, *)
(* commit too, and only rollback is left.                                  *)
Expire(t) ==
  /\ CanCall(t)
  /\ expired' = [expired EXCEPT ![t] = TRUE]
  /\ UNCHANGED <<root, accepting, status, private>>

(* A transaction that ends never looks at its private state again. *)
End(t, how) ==
  /\ status' = [status EXCEPT ![t] = how]
  /\ expired' = [expired EXCEPT ![t] = FALSE]
  /\ operations' = [operations EXCEPT ![t] = 0]
  /\ base' = [base EXCEPT ![t] = Untold]
  /\ working' = [working EXCEPT ![t] = NoCopies]
  /\ changes' = [changes EXCEPT ![t] = <<>>]

(* Transaction.rollback *)
Rollback(t) ==
  /\ status[t] = "active"
  /\ End(t, "rolledBack")
  /\ UNCHANGED <<root, accepting>>

-----------------------------------------------------------------------------
(* Transaction.commit and Database._commit *)

(* A broken variant: only the collections written are validated *)
MutantConflicts(t) ==
  {c \in Touched(t) : working[t][c] # NoCopy /\ base[t][c] # collRevision[c]}

Conflicts(t) == {c \in Touched(t) : base[t][c] # collRevision[c]}

(* ClosedError or ConflictError: the transaction is rolled back *)
RefuseCommit(t) ==
  /\ CanCall(t)
  /\ ~accepting \/ Conflicts(t) # {}
  /\ End(t, "rolledBack")
  /\ UNCHANGED <<root, accepting>>

(* Nothing changed: a receipt without a new revision *)
CommitUnchanged(t) ==
  /\ CanCall(t)
  /\ accepting
  /\ Conflicts(t) = {}
  /\ changes[t] = <<>>
  /\ End(t, "committed")
  /\ UNCHANGED <<root, accepting>>

(* A broken variant: a collection whose order is the same keeps its revision *)
MutantPublish(t) ==
  /\ CanCall(t)
  /\ accepting
  /\ Conflicts(t) = {}
  /\ changes[t] # <<>>
  /\ stored' = [c \in Collections |-> View(t, c)]
  /\ collRevision' = [c \in Collections |->
                        IF View(t, c).order = stored[c].order
                        THEN collRevision[c] ELSE revision + 1]
  /\ revision' = revision + 1
  /\ End(t, "committed")
  /\ UNCHANGED accepting

(* Every working copy, changed or not, becomes the collection of the next  *)
(* revision; one assignment publishes them together.                       *)
Publish(t) ==
  /\ CanCall(t)
  /\ accepting
  /\ Conflicts(t) = {}
  /\ changes[t] # <<>>
  /\ stored' = [c \in Collections |-> View(t, c)]
  /\ collRevision' = [c \in Collections |->
                        IF working[t][c] = NoCopy THEN collRevision[c] ELSE revision + 1]
  /\ revision' = revision + 1
  /\ End(t, "committed")
  /\ UNCHANGED accepting

(* close() leaves open and degraded; a failed store of a closing database  *)
(* may enter degraded again (module Durability), so both ways are allowed. *)
ChangeLifecycle ==
  /\ accepting' = ~accepting
  /\ UNCHANGED <<root, status, expired, private>>

Next ==
  \/ \E t \in Txns :
       \/ BeginTransaction(t)
       \/ \E call \in GetCalls : Get(t, call)
       \/ \E call \in FindCalls : Find(t, call)
       \/ \E call \in WriteCalls : Write(t, call)
       \/ ExceedLimit(t)
       \/ Expire(t)
       \/ Rollback(t)
       \/ RefuseCommit(t)
       \/ CommitUnchanged(t)
       \/ Publish(t)
  \/ ChangeLifecycle

Spec == Init /\ [][Next]_vars

-----------------------------------------------------------------------------
(* Properties *)

(* Every variable has the shape the fields of Database and Transaction have. *)
TypeOK ==
  /\ stored \in [Collections -> CollectionType]
  /\ collRevision \in [Collections -> Nat]
  /\ revision \in Nat
  /\ accepting \in BOOLEAN
  /\ status \in [Txns -> {"unborn", "active", "committed", "rolledBack"}]
  /\ expired \in [Txns -> BOOLEAN]
  /\ operations \in [Txns -> 0 .. MaxOperations + 1]
  /\ base \in [Txns -> [Collections -> Nat \cup {Untouched}]]
  /\ working \in [Txns -> [Collections -> WorkingType \cup {NoCopy}]]
  /\ changes \in [Txns -> Seq([coll : Collections, change : ChangeType])]

(* assertCollectionInvariant never fires on the published root, although   *)
(* _commit runs it only when verifyInvariants is set: order, positions,    *)
(* records and every index bucket agree, and unique values are unique.     *)
RootConsistent == \A c \in Collections : Consistent(stored[c])

(* The private copies are as consistent as the root at every step, also    *)
(* after a write was refused half way through its index changes and the    *)
(* caller went on: what commit publishes never needs repair.               *)
CopiesConsistent ==
  \A t \in Txns, c \in Collections :
    working[t][c] # NoCopy => Consistent(working[t][c].coll)

(* Every call a transaction could make next answers what the plain sequence *)
(* of documents would answer and leaves what it would leave: the indexes,   *)
(* positions and copies are never visible, whatever was refused before.     *)
(* A call looks at nothing of other open transactions, so it is examined    *)
(* where none is.                                                           *)
CallsMatchSerialDocs ==
  \A t \in Txns : (status[t] = "active" /\ \A u \in Txns \ {t} : status[u] # "active") =>
    \A call \in Calls : MatchesSerialDocs(View(t, call.coll), call)

(* A working copy that the revision check would let through was taken from *)
(* the revision it replaces: no publication overwrites another unseen.     *)
(* The copy may be younger than the first touch, which is what counts.     *)
NoLostUpdate ==
  \A t \in Txns, c \in Collections :
    working[t][c] # NoCopy =>
      /\ c \in Touched(t)
      /\ c \notin Conflicts(t) => working[t][c].baseRevision = collRevision[c]

(* What a change list does to the documents of one collection *)
Replayed(records, c, list) ==
  FoldLeft(LAMBDA recs, e :
             IF e.coll = c /\ recs[e.change.key] = e.change.before
             THEN [recs EXCEPT ![e.change.key] = e.change.after] ELSE recs,
           records, list)

(* The change list of a publication is the whole difference: replayed over *)
(* the replaced documents, each before-image matching, it gives the new    *)
(* ones; collections outside it keep documents and order.                  *)
ChangesTellAll ==
  [][\A t \in Txns : Publish(t) =>
       \A c \in Collections :
         /\ stored'[c].records = Replayed(stored[c].records, c, changes[t])
         /\ (\A n \in 1 .. Len(changes[t]) : changes[t][n].coll # c)
              => stored'[c].order = stored[c].order]_vars
=============================================================================
