----------------------------- MODULE Collection -----------------------------
(***************************************************************************)
(* One collection of the engine: the data structure StoredCollection and   *)
(* its private copy WorkingCollection, and the operations a transaction    *)
(* performs on a copy (src/src/database.ts).                               *)
(*                                                                         *)
(* Absent maps are total functions here: a key without a record has the    *)
(* record Absent and the position NoPosition, an index value without a     *)
(* bucket has the empty bucket.                                            *)
(***************************************************************************)
EXTENDS Schema

NoPosition == -1

CollectionType ==
  [order        : Seq(Keys),
   positions    : [Keys -> Nat \cup {NoPosition}],
   nextPosition : Nat,
   records      : [Keys -> Docs \cup {Absent}],
   buckets      : [Indexes -> [IndexKeys -> SUBSET Keys]]]

Has(coll, k) == coll.records[k] # Absent

(* createStoredCollection, of the documents of a seed or a loaded snapshot:  *)
(* a sequence of [key, doc] in insertion order.  It throws unless the keys   *)
(* differ, the documents are valid and the indexes take every one of them.   *)
Loadable(docs) ==
  /\ \A n \in 1 .. Len(docs) :
       /\ docs[n].doc \in ValidDocs
       /\ \A i \in Indexes : IndexKeyOf[i][docs[n].doc] # Unindexable
  /\ \A m, n \in 1 .. Len(docs) : m # n =>
       /\ docs[m].key # docs[n].key
       /\ \A i \in UniqueIndexes :
            IndexKeyOf[i][docs[m].doc] = IndexKeyOf[i][docs[n].doc]
              => IndexKeyOf[i][docs[m].doc] = Unindexed

CreateCollection(docs) ==
  LET Places(k) == {n \in 1 .. Len(docs) : docs[n].key = k}
      Place(k)  == CHOOSE n \in Places(k) : TRUE
      DocAt(k)  == IF Places(k) = {} THEN Absent ELSE docs[Place(k)].doc
  IN  [order        |-> [n \in 1 .. Len(docs) |-> docs[n].key],
       positions    |-> [k \in Keys |-> IF Places(k) = {} THEN NoPosition
                                        ELSE Place(k) - 1],
       nextPosition |-> Len(docs),
       records      |-> [k \in Keys |-> DocAt(k)],
       buckets      |-> [i \in Indexes |-> [x \in IndexKeys |->
                          {k \in Keys : DocAt(k) # Absent /\ IndexKeyOf[i][DocAt(k)] = x}]]]

-----------------------------------------------------------------------------
(* Secondary indexes *)

(* addToIndexes examines every index before it changes any of them: each   *)
(* value must be a primitive, and a unique bucket must be empty or hold    *)
(* the very key.                                                           *)
CanAddToIndexes(buckets, k, d) ==
  \A i \in Indexes :
    /\ IndexKeyOf[i][d] # Unindexable
    /\ (i \in UniqueIndexes /\ IndexKeyOf[i][d] # Unindexed) =>
         LET bucket == buckets[i][IndexKeyOf[i][d]]
         IN  bucket = {} \/ k \in bucket

AddToIndexes(buckets, k, d) ==
  [i \in Indexes |-> [x \in IndexKeys |->
     IF IndexKeyOf[i][d] = x THEN buckets[i][x] \cup {k} ELSE buckets[i][x]]]

RemoveFromIndexes(buckets, k, d) ==
  [i \in Indexes |-> [x \in IndexKeys |->
     IF IndexKeyOf[i][d] = x THEN buckets[i][x] \ {k} ELSE buckets[i][x]]]

-----------------------------------------------------------------------------
(* Each write yields the new collection and what the caller is told.  A    *)
(* change is the entry of the transaction's change list, or NoChange.      *)

ChangeType ==
  [operation : {"insert", "update", "delete"}, key : Keys,
   before : Docs \cup {Absent}, after : Docs \cup {Absent}]

NoChange == [operation |-> "none"]

Refused(coll, why) == [coll |-> coll, result |-> why, change |-> NoChange]

(* A broken variant: positions numbered by the length of order *)
MutantInsertNew(coll, k, d) ==
  IF ~CanAddToIndexes(coll.buckets, k, d)
  THEN Refused(coll, "indexRefused")
  ELSE [coll   |-> [order        |-> Append(coll.order, k),
                    positions    |-> [coll.positions EXCEPT ![k] = Len(coll.order)],
                    nextPosition |-> Len(coll.order) + 1,
                    records      |-> [coll.records EXCEPT ![k] = d],
                    buckets      |-> AddToIndexes(coll.buckets, k, d)],
        result |-> "ok",
        change |-> [operation |-> "insert", key |-> k, before |-> Absent, after |-> d]]

(* Insert a new document: push its key on order, give it the next position *)
InsertNew(coll, k, d) ==
  IF ~CanAddToIndexes(coll.buckets, k, d)
  THEN Refused(coll, "indexRefused")
  ELSE [coll   |-> [order        |-> Append(coll.order, k),
                    positions    |-> [coll.positions EXCEPT ![k] = coll.nextPosition],
                    nextPosition |-> coll.nextPosition + 1,
                    records      |-> [coll.records EXCEPT ![k] = d],
                    buckets      |-> AddToIndexes(coll.buckets, k, d)],
        result |-> "ok",
        change |-> [operation |-> "insert", key |-> k, before |-> Absent, after |-> d]]

(* Broken variants: the old entries are not added back after a refusal, and *)
(* the record is replaced before the indexes have accepted it.              *)
MutantReplaceNoRestore(coll, k, d) ==
  LET before  == coll.records[k]
      removed == RemoveFromIndexes(coll.buckets, k, before)
  IN  IF ~CanAddToIndexes(removed, k, d)
      THEN Refused([coll EXCEPT !.buckets = removed], "indexRefused")
      ELSE [coll   |-> [coll EXCEPT !.records[k] = d,
                                    !.buckets = AddToIndexes(removed, k, d)],
            result |-> "ok",
            change |-> [operation |-> "update", key |-> k, before |-> before, after |-> d]]

MutantReplaceEarly(coll, k, d) ==
  LET before  == coll.records[k]
      removed == RemoveFromIndexes(coll.buckets, k, before)
      early   == [coll EXCEPT !.records[k] = d]
  IN  IF ~CanAddToIndexes(removed, k, d)
      THEN Refused(early, "indexRefused")
      ELSE [coll   |-> [early EXCEPT !.buckets = AddToIndexes(removed, k, d)],
            result |-> "ok",
            change |-> [operation |-> "update", key |-> k, before |-> before, after |-> d]]

(* Replace the document under a key.  The old index entries are removed,   *)
(* the new ones added; when that is refused the old ones are added back.   *)
Replace(coll, k, d) ==
  LET before  == coll.records[k]
      removed == RemoveFromIndexes(coll.buckets, k, before)
  IN  IF ~CanAddToIndexes(removed, k, d)
      THEN Refused([coll EXCEPT !.buckets = AddToIndexes(removed, k, before)],
                   "indexRefused")
      ELSE [coll   |-> [coll EXCEPT !.records[k] = d,
                                    !.buckets = AddToIndexes(removed, k, d)],
            result |-> "ok",
            change |-> [operation |-> "update", key |-> k, before |-> before, after |-> d]]

(* Transaction._insert with upsert = false *)
InsertDoc(coll, k, d) ==
  IF d \notin ValidDocs THEN Refused(coll, "invalid")
  ELSE IF Has(coll, k) THEN Refused(coll, "duplicateKey")
  ELSE InsertNew(coll, k, d)

(* Transaction._insert with upsert = true *)
UpsertDoc(coll, k, d) ==
  IF d \notin ValidDocs THEN Refused(coll, "invalid")
  ELSE IF Has(coll, k) THEN Replace(coll, k, d)
  ELSE InsertNew(coll, k, d)

(* Transaction._update: the patch is merged and validated before indexes *)
UpdateDoc(coll, k, p) ==
  IF ~Has(coll, k) THEN Refused(coll, "notFound")
  ELSE LET after == PatchOf[coll.records[k], p]
       IN  IF after \notin ValidDocs THEN Refused(coll, "invalid")
           ELSE Replace(coll, k, after)

IndexInOrder(order, k) == CHOOSE n \in 1 .. Len(order) : order[n] = k

(* A broken variant: the index entries of the document are forgotten *)
MutantDeleteDoc(coll, k) ==
  IF ~Has(coll, k) THEN Refused(coll, "notFound")
  ELSE LET before == coll.records[k]
       IN  [coll   |-> [coll EXCEPT !.order = RemoveAt(@, IndexInOrder(@, k)),
                                    !.positions[k] = NoPosition,
                                    !.records[k] = Absent],
            result |-> "ok",
            change |-> [operation |-> "delete", key |-> k, before |-> before, after |-> Absent]]

(* Transaction._delete *)
DeleteDoc(coll, k) ==
  IF ~Has(coll, k) THEN Refused(coll, "notFound")
  ELSE LET before == coll.records[k]
       IN  [coll   |-> [order        |-> RemoveAt(coll.order, IndexInOrder(coll.order, k)),
                        positions    |-> [coll.positions EXCEPT ![k] = NoPosition],
                        nextPosition |-> coll.nextPosition,
                        records      |-> [coll.records EXCEPT ![k] = Absent],
                        buckets      |-> RemoveFromIndexes(coll.buckets, k, before)],
            result |-> "ok",
            change |-> [operation |-> "delete", key |-> k, before |-> before, after |-> Absent]]

(* Transaction._query: the documents a condition accepts, in order, or the  *)
(* limit that is exceeded                                                   *)
FindDocs(coll, condition, ceiling) ==
  LET found == Picked(coll.order, {k \in Keys : coll.records[k] \in condition})
  IN  IF Len(coll.order) > ceiling.candidates THEN <<"CANDIDATE_LIMIT">>
      ELSE IF Len(found) > ceiling.results THEN <<"RESULT_LIMIT">>
      ELSE found

-----------------------------------------------------------------------------
(* The calls by name *)

LookAnswer(coll, call) ==
  IF call.kind = "get" THEN coll.records[call.key]
  ELSE FindDocs(coll, call.condition, call.ceiling)

(* Transaction._insert, _update and _delete on a working copy *)
WriteOutcome(coll, call) ==
  CASE call.kind = "insert" -> InsertDoc(coll, call.key, call.doc)
    [] call.kind = "upsert" -> UpsertDoc(coll, call.key, call.doc)
    [] call.kind = "update" -> UpdateDoc(coll, call.key, call.patch)
    [] call.kind = "delete" -> DeleteDoc(coll, call.key)

(* The documents in order, as the reference SerialDocs has them, and the    *)
(* agreement with it on one call.                                           *)
DocsOf(coll) ==
  [n \in 1 .. Len(coll.order) |->
     [key |-> coll.order[n], doc |-> coll.records[coll.order[n]]]]

Ideal == INSTANCE SerialDocs

MatchesSerialDocs(coll, call) ==
  IF call.kind \in {"get", "find"}
  THEN Ideal!Answer(DocsOf(coll), call) = LookAnswer(coll, call)
  ELSE LET write == WriteOutcome(coll, call)
       IN  /\ Ideal!Answer(DocsOf(coll), call) = write.result
           /\ Ideal!After(DocsOf(coll), call) = DocsOf(write.coll)

-----------------------------------------------------------------------------
(* assertCollectionInvariant, part by part *)

OrderListsRecords(coll) ==
  /\ \A k \in Keys : Has(coll, k) <=> \E n \in 1 .. Len(coll.order) : coll.order[n] = k
  /\ \A m, n \in 1 .. Len(coll.order) : coll.order[m] = coll.order[n] => m = n

PositionsRankOrder(coll) ==
  /\ \A k \in Keys : Has(coll, k) <=> coll.positions[k] # NoPosition
  /\ \A m, n \in 1 .. Len(coll.order) :
       m < n => coll.positions[coll.order[m]] < coll.positions[coll.order[n]]
  /\ \A k \in Keys : coll.positions[k] < coll.nextPosition

BucketsIndexRecords(coll) ==
  \A i \in Indexes, x \in IndexKeys :
    coll.buckets[i][x] =
      {k \in Keys : Has(coll, k) /\ IndexKeyOf[i][coll.records[k]] = x}

(* What the indexes are for: no two documents share a unique index value,  *)
(* and no stored document has a value an index cannot file.                *)
UniqueValuesDiffer(coll) ==
  \A i \in UniqueIndexes, k1, k2 \in Keys :
    /\ Has(coll, k1) /\ Has(coll, k2) /\ k1 # k2
    /\ IndexKeyOf[i][coll.records[k1]] \in IndexKeys
    => IndexKeyOf[i][coll.records[k1]] # IndexKeyOf[i][coll.records[k2]]

Consistent(coll) ==
  /\ OrderListsRecords(coll)
  /\ PositionsRankOrder(coll)
  /\ BucketsIndexRecords(coll)
  /\ UniqueValuesDiffer(coll)
=============================================================================
