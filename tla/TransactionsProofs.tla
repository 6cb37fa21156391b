------------------------- MODULE TransactionsProofs -------------------------
(***************************************************************************)
(* Theorems about Transactions, for every set of collections, keys,        *)
(* documents, indexes and transactions and every limit.                    *)
(*                                                                         *)
(* The first part are lemmas about the operations on one collection: each  *)
(* keeps the shape of a collection, keeps it consistent in the sense of    *)
(* assertCollectionInvariant, and means on it what it means on the plain   *)
(* sequence of its documents.                                              *)
(*                                                                         *)
(* The second part are the theorems.  The four invariants are proved       *)
(* together: the shape of a deletion rests on the order of the copy        *)
(* listing its records, the consistency of the published root on the       *)
(* consistency of the copies that replace it, and the freshness of a copy  *)
(* on revisions never going back.                                          *)
(***************************************************************************)
EXTENDS Transactions, SequenceTheorems, FoldProofs

-----------------------------------------------------------------------------
(* The writes of module Collection keep the shape of a collection. *)

(* Adding to and removing from buckets yields buckets. *)
LEMMA BucketsType ==
  ASSUME NEW buckets \in [Indexes -> [IndexKeys -> SUBSET Keys]],
         NEW k \in Keys, NEW d
  PROVE  /\ AddToIndexes(buckets, k, d) \in [Indexes -> [IndexKeys -> SUBSET Keys]]
         /\ RemoveFromIndexes(buckets, k, d) \in [Indexes -> [IndexKeys -> SUBSET Keys]]
BY DEF AddToIndexes, RemoveFromIndexes

(* A write returns a collection, and a change when it was accepted. *)
WriteTyped(write) ==
  /\ write.coll \in CollectionType
  /\ write.result = "ok" => write.change \in ChangeType

(* Inserting a new document keeps the shape, refused or not. *)
LEMMA InsertNewTyped ==
  ASSUME NEW coll \in CollectionType, NEW k \in Keys, NEW d \in Docs
  PROVE  WriteTyped(InsertNew(coll, k, d))
<1>1. CASE ~CanAddToIndexes(coll.buckets, k, d)
  BY <1>1 DEF InsertNew, Refused, WriteTyped
<1>2. CASE CanAddToIndexes(coll.buckets, k, d)
  <2>1. AddToIndexes(coll.buckets, k, d) \in [Indexes -> [IndexKeys -> SUBSET Keys]]
    BY BucketsType DEF CollectionType
  <2>2. InsertNew(coll, k, d).coll \in CollectionType
    BY <1>2, <2>1 DEF InsertNew, CollectionType
  <2>3. InsertNew(coll, k, d).change \in ChangeType
    BY <1>2 DEF InsertNew, ChangeType
  <2> QED
    BY <2>2, <2>3 DEF WriteTyped
<1> QED
  BY <1>1, <1>2

(* Replacing a document keeps the shape, also when the index entries of the *)
(* old document are added back.                                             *)
LEMMA ReplaceTyped ==
  ASSUME NEW coll \in CollectionType, NEW k \in Keys, NEW d \in Docs
  PROVE  WriteTyped(Replace(coll, k, d))
<1> DEFINE before  == coll.records[k]
           removed == RemoveFromIndexes(coll.buckets, k, before)
<1>1. /\ before \in Docs \cup {Absent}
      /\ removed \in [Indexes -> [IndexKeys -> SUBSET Keys]]
  BY BucketsType DEF CollectionType
<1>2. /\ AddToIndexes(removed, k, before) \in [Indexes -> [IndexKeys -> SUBSET Keys]]
      /\ AddToIndexes(removed, k, d) \in [Indexes -> [IndexKeys -> SUBSET Keys]]
  BY <1>1, BucketsType
<1> HIDE DEF removed
<1>3. CASE ~CanAddToIndexes(removed, k, d)
  BY <1>2, <1>3 DEF Replace, Refused, WriteTyped, CollectionType, removed
<1>4. CASE CanAddToIndexes(removed, k, d)
  <2>1. Replace(coll, k, d).coll \in CollectionType
    BY <1>2, <1>4 DEF Replace, CollectionType, removed
  <2>2. Replace(coll, k, d).change \in ChangeType
    BY <1>1, <1>4 DEF Replace, ChangeType, removed
  <2> QED
    BY <2>1, <2>2 DEF WriteTyped
<1> QED
  BY <1>3, <1>4

(* indexOf and splice: dropping a listed key leaves a sequence of keys one  *)
(* shorter, whose elements are the others in the same order.                *)
LEMMA RemoveKey ==
  ASSUME NEW order \in Seq(Keys), NEW p \in 1 .. Len(order)
  PROVE  /\ RemoveAt(order, p) \in Seq(Keys)
         /\ Len(RemoveAt(order, p)) = Len(order) - 1
         /\ \A n \in 1 .. Len(order) - 1 :
              RemoveAt(order, p)[n] = IF n < p THEN order[n] ELSE order[n + 1]
<1> DEFINE low  == SubSeq(order, 1, p - 1)
           high == SubSeq(order, p + 1, Len(order))
<1>1. /\ low \in Seq(Keys)
      /\ Len(low) = p - 1
      /\ \A n \in 1 .. p - 1 : low[n] = order[n]
  OBVIOUS
<1>2. /\ high \in Seq(Keys)
      /\ Len(high) = Len(order) - p
      /\ \A n \in 1 .. Len(order) - p : high[n] = order[n + p]
  OBVIOUS
<1>3. RemoveAt(order, p) = low \o high
  BY DEF RemoveAt
<1> HIDE DEF low, high
<1>4. /\ low \o high \in Seq(Keys)
      /\ Len(low \o high) = Len(low) + Len(high)
      /\ \A n \in 1 .. Len(low) + Len(high) :
           (low \o high)[n] = IF n <= Len(low) THEN low[n] ELSE high[n - Len(low)]
  <2>1. low \in Seq(Keys) /\ high \in Seq(Keys)
    BY <1>1, <1>2
  <2> HIDE <1>1, <1>2
  <2> QED BY <2>1, ConcatProperties, Zenon
<1>5. Len(low) + Len(high) = Len(order) - 1
  BY <1>1, <1>2
<1> QED
  BY <1>1, <1>2, <1>3, <1>4, <1>5

(* A consistent order lists every record, so indexOf finds it. *)
LEMMA IndexInOrderFinds ==
  ASSUME NEW coll \in CollectionType, OrderListsRecords(coll),
         NEW k \in Keys, Has(coll, k)
  PROVE  /\ IndexInOrder(coll.order, k) \in 1 .. Len(coll.order)
         /\ coll.order[IndexInOrder(coll.order, k)] = k
BY DEF OrderListsRecords, IndexInOrder

(* Deleting keeps the shape, provided indexOf finds the key in order. *)
LEMMA DeleteDocTyped ==
  ASSUME NEW coll \in CollectionType, OrderListsRecords(coll), NEW k \in Keys
  PROVE  WriteTyped(DeleteDoc(coll, k))
<1>1. CASE ~Has(coll, k)
  BY <1>1 DEF DeleteDoc, Refused, WriteTyped
<1>2. CASE Has(coll, k)
  <2> DEFINE p == IndexInOrder(coll.order, k)
             b == RemoveFromIndexes(coll.buckets, k, coll.records[k])
  <2>1. RemoveAt(coll.order, p) \in Seq(Keys)
    BY <1>2, IndexInOrderFinds, RemoveKey DEF CollectionType
  <2>2. b \in [Indexes -> [IndexKeys -> SUBSET Keys]]
    BY BucketsType DEF CollectionType
  <2>3. DeleteDoc(coll, k).coll =
          [order        |-> RemoveAt(coll.order, p),
           positions    |-> [coll.positions EXCEPT ![k] = NoPosition],
           nextPosition |-> coll.nextPosition,
           records      |-> [coll.records EXCEPT ![k] = Absent],
           buckets      |-> b]
    BY <1>2 DEF DeleteDoc
  <2>4. DeleteDoc(coll, k).coll \in CollectionType
    <3> HIDE DEF p, b
    <3> QED BY <2>1, <2>2, <2>3 DEF CollectionType
  <2>5. DeleteDoc(coll, k).change \in ChangeType
    BY <1>2 DEF DeleteDoc, ChangeType, CollectionType, Has
  <2> QED
    BY <2>4, <2>5 DEF WriteTyped
<1> QED
  BY <1>1, <1>2

(* A refusal hands back the collection it was given. *)
LEMMA RefusedTyped ==
  ASSUME NEW coll \in CollectionType, NEW why \in Refusals
  PROVE  WriteTyped(Refused(coll, why))
BY DEF Refused, WriteTyped, Refusals

(* Every call of a transaction that writes returns a collection. *)
LEMMA WriteOutcomeTyped ==
  ASSUME NEW coll \in CollectionType, OrderListsRecords(coll), NEW call \in WriteCalls
  PROVE  WriteTyped(WriteOutcome(coll, call))
<1> USE CollectionAssumption
<1>1. CASE call \in InsertCalls
  <2>1. WriteOutcome(coll, call) = InsertDoc(coll, call.key, call.doc)
    BY <1>1 DEF WriteOutcome, InsertCalls
  <2> QED
    BY <1>1, <2>1, InsertNewTyped, RefusedTyped DEF InsertDoc, InsertCalls, Refusals
<1>2. CASE call \in UpsertCalls
  <2>1. WriteOutcome(coll, call) = UpsertDoc(coll, call.key, call.doc)
    BY <1>2 DEF WriteOutcome, UpsertCalls
  <2> QED
    BY <1>2, <2>1, InsertNewTyped, ReplaceTyped, RefusedTyped
    DEF UpsertDoc, UpsertCalls, Refusals
<1>3. CASE call \in UpdateCalls
  <2>1. WriteOutcome(coll, call) = UpdateDoc(coll, call.key, call.patch)
    BY <1>3 DEF WriteOutcome, UpdateCalls
  <2> DEFINE after == PatchOf[coll.records[call.key], call.patch]
  <2>2. after \in ValidDocs => WriteTyped(Replace(coll, call.key, after))
    <3> HIDE DEF after
    <3> QED BY <1>3, ReplaceTyped DEF UpdateCalls
  <2>3. WriteTyped(Refused(coll, "notFound")) /\ WriteTyped(Refused(coll, "invalid"))
    BY RefusedTyped DEF Refusals
  <2> QED
    BY <2>1, <2>2, <2>3 DEF UpdateDoc
<1>4. CASE call \in DeleteCalls
  <2>1. WriteOutcome(coll, call) = DeleteDoc(coll, call.key)
    BY <1>4 DEF WriteOutcome, DeleteCalls
  <2> QED
    BY <1>4, <2>1, DeleteDocTyped DEF DeleteCalls
<1> QED
  BY <1>1, <1>2, <1>3, <1>4 DEF WriteCalls

-----------------------------------------------------------------------------
(* The writes keep assertCollectionInvariant. *)

(* The buckets hold exactly the keys other than k. *)
OthersFiled(buckets, records, k) ==
  \A i \in Indexes, x \in IndexKeys :
    buckets[i][x] = {k2 \in Keys : /\ k2 # k /\ records[k2] # Absent
                                  /\ IndexKeyOf[i][records[k2]] = x}

(* No other stored document has a unique value of d. *)
NoOtherHas(records, k, d) ==
  \A i \in UniqueIndexes, k2 \in Keys :
    /\ k2 # k /\ records[k2] # Absent /\ IndexKeyOf[i][d] \in IndexKeys
    => IndexKeyOf[i][records[k2]] # IndexKeyOf[i][d]

(* When the indexes accept a document, no other stored document has its     *)
(* unique values, provided the buckets hold exactly the other keys.         *)
LEMMA AcceptedIsUnique ==
  ASSUME NEW buckets, NEW records, NEW k \in Keys, NEW d \in Docs,
         OthersFiled(buckets, records, k), CanAddToIndexes(buckets, k, d)
  PROVE  NoOtherHas(records, k, d)
<1>1. SUFFICES ASSUME NEW i \in UniqueIndexes, NEW k2 \in Keys,
                      k2 # k, records[k2] # Absent, IndexKeyOf[i][d] \in IndexKeys,
                      IndexKeyOf[i][records[k2]] = IndexKeyOf[i][d]
               PROVE  FALSE
  BY DEF NoOtherHas
<1>2. i \in Indexes /\ IndexKeyOf[i][d] # Unindexed
  BY <1>1, CollectionAssumption
<1>3. k2 \in buckets[i][IndexKeyOf[i][d]] /\ k \notin buckets[i][IndexKeyOf[i][d]]
  BY <1>1, <1>2 DEF OthersFiled
<1> QED
  BY <1>1, <1>2, <1>3 DEF CanAddToIndexes

(* Inserting a new document keeps a collection consistent. *)
LEMMA InsertNewConsistent ==
  ASSUME NEW coll \in CollectionType, Consistent(coll),
         NEW k \in Keys, ~Has(coll, k), NEW d \in Docs
  PROVE  Consistent(InsertNew(coll, k, d).coll)
<1>1. CASE ~CanAddToIndexes(coll.buckets, k, d)
  BY <1>1 DEF InsertNew, Refused
<1>2. CASE CanAddToIndexes(coll.buckets, k, d)
  <2> DEFINE new == InsertNew(coll, k, d).coll
  <2>1. /\ new.order = Append(coll.order, k)
        /\ new.positions = [coll.positions EXCEPT ![k] = coll.nextPosition]
        /\ new.nextPosition = coll.nextPosition + 1
        /\ new.records = [coll.records EXCEPT ![k] = d]
        /\ new.buckets = AddToIndexes(coll.buckets, k, d)
    BY <1>2 DEF InsertNew
  <2> HIDE DEF new
  <2>2. /\ coll.order \in Seq(Keys)
        /\ coll.positions \in [Keys -> Nat \cup {NoPosition}]
        /\ coll.nextPosition \in Nat
        /\ coll.records \in [Keys -> Docs \cup {Absent}]
        /\ coll.buckets \in [Indexes -> [IndexKeys -> SUBSET Keys]]
    BY DEF CollectionType
  <2>3. /\ Len(new.order) = Len(coll.order) + 1
        /\ \A n \in 1 .. Len(coll.order) : new.order[n] = coll.order[n]
        /\ new.order[Len(coll.order) + 1] = k
    BY <2>1, <2>2
  <2>4. \A n \in 1 .. Len(coll.order) :
          coll.order[n] \in Keys /\ coll.order[n] # k /\ Has(coll, coll.order[n])
    BY <2>2 DEF Consistent, OrderListsRecords
  <2>5. /\ new.records[k] = d /\ d # Absent
        /\ \A k2 \in Keys : k2 # k => new.records[k2] = coll.records[k2]
    BY <2>1, <2>2, CollectionAssumption
  <2>6. OrderListsRecords(new)
    <3> DEFINE len == Len(coll.order)
    <3>1. /\ len \in Nat
          /\ 1 .. Len(new.order) = (1 .. len) \cup {len + 1}
          /\ len + 1 \notin 1 .. len
      BY <2>2, <2>3
    <3>2. /\ \A k2 \in Keys : Has(coll, k2) <=> \E n \in 1 .. len : coll.order[n] = k2
          /\ \A m, n \in 1 .. len : coll.order[m] = coll.order[n] => m = n
      BY DEF Consistent, OrderListsRecords
    <3>3. \A k2 \in Keys : Has(new, k2) <=> k2 = k \/ Has(coll, k2)
      BY <2>5 DEF Has
    <3> HIDE DEF len
    <3>4. \A k2 \in Keys : Has(new, k2) <=> \E n \in 1 .. Len(new.order) : new.order[n] = k2
      BY <2>3, <3>1, <3>2, <3>3 DEF len
    <3>5. \A m, n \in 1 .. Len(new.order) : new.order[m] = new.order[n] => m = n
      BY <2>3, <2>4, <3>1, <3>2 DEF len
    <3> QED BY <3>4, <3>5 DEF OrderListsRecords
  <2>7. PositionsRankOrder(new)
    <3>1. \A k2 \in Keys : Has(new, k2) <=> new.positions[k2] # NoPosition
      BY <2>1, <2>2, <2>5 DEF Consistent, PositionsRankOrder, Has, NoPosition
    <3>2. \A k2 \in Keys : new.positions[k2] < new.nextPosition
      BY <2>1, <2>2 DEF Consistent, PositionsRankOrder, NoPosition
    <3>3. \A m, n \in 1 .. Len(new.order) :
            m < n => new.positions[new.order[m]] < new.positions[new.order[n]]
      BY <2>1, <2>2, <2>3, <2>4 DEF Consistent, PositionsRankOrder, NoPosition
    <3> QED BY <3>1, <3>2, <3>3 DEF PositionsRankOrder
  <2>8. BucketsIndexRecords(new)
    BY <2>1, <2>2, <2>5 DEF Consistent, BucketsIndexRecords, AddToIndexes, Has
  <2>9. UniqueValuesDiffer(new)
    <3>1. OthersFiled(coll.buckets, coll.records, k)
      BY DEF Consistent, BucketsIndexRecords, Has, OthersFiled
    <3>2. NoOtherHas(coll.records, k, d)
      BY <1>2, <3>1, AcceptedIsUnique
    <3> QED
      BY <2>5, <3>2 DEF Consistent, UniqueValuesDiffer, Has, NoOtherHas
  <2> QED
    BY <2>6, <2>7, <2>8, <2>9 DEF Consistent, new
<1> QED
  BY <1>1, <1>2

(* Replacing keeps a collection consistent: refused, the entries added back *)
(* give the very buckets there were.                                        *)
LEMMA ReplaceConsistent ==
  ASSUME NEW coll \in CollectionType, Consistent(coll),
         NEW k \in Keys, Has(coll, k), NEW d \in Docs
  PROVE  Consistent(Replace(coll, k, d).coll)
<1> DEFINE before  == coll.records[k]
           removed == RemoveFromIndexes(coll.buckets, k, before)
<1>1. /\ coll.records \in [Keys -> Docs \cup {Absent}]
      /\ coll.buckets \in [Indexes -> [IndexKeys -> SUBSET Keys]]
  BY DEF CollectionType
<1>2. OthersFiled(removed, coll.records, k)
  BY <1>1 DEF Consistent, BucketsIndexRecords, RemoveFromIndexes, Has, OthersFiled
<1>3. removed \in [Indexes -> [IndexKeys -> SUBSET Keys]]
  BY <1>1, BucketsType
<1>4. CASE ~CanAddToIndexes(removed, k, d)
  <2>1. Replace(coll, k, d).coll = [coll EXCEPT !.buckets = AddToIndexes(removed, k, before)]
    BY <1>4 DEF Replace, Refused
  <2>2. AddToIndexes(removed, k, before) = coll.buckets
    <3>1. ASSUME NEW i \in Indexes, NEW x \in IndexKeys
          PROVE  AddToIndexes(removed, k, before)[i][x] = coll.buckets[i][x]
      <4>1. /\ removed[i][x] = {k2 \in Keys : /\ k2 # k /\ coll.records[k2] # Absent
                                              /\ IndexKeyOf[i][coll.records[k2]] = x}
            /\ coll.buckets[i][x] = {k2 \in Keys : /\ coll.records[k2] # Absent
                                                   /\ IndexKeyOf[i][coll.records[k2]] = x}
        BY <1>2 DEF OthersFiled, Consistent, BucketsIndexRecords, Has
      <4> HIDE DEF removed
      <4>2. AddToIndexes(removed, k, before)[i][x] =
              IF IndexKeyOf[i][before] = x THEN removed[i][x] \cup {k} ELSE removed[i][x]
        BY DEF AddToIndexes
      <4> QED BY <4>1, <4>2 DEF Has
    <3>2. AddToIndexes(removed, k, before) \in [Indexes -> [IndexKeys -> SUBSET Keys]]
      BY <1>3, BucketsType
    <3> HIDE DEF removed
    <3>3. \A i \in Indexes : AddToIndexes(removed, k, before)[i] = coll.buckets[i]
      BY <1>1, <3>1, <3>2
    <3> QED BY <1>1, <3>2, <3>3
  <2>3. [coll EXCEPT !.buckets = coll.buckets] = coll
    BY DEF CollectionType
  <2> QED
    BY <2>1, <2>2, <2>3
<1>5. CASE CanAddToIndexes(removed, k, d)
  <2> DEFINE new == Replace(coll, k, d).coll
  <2>1. new = [coll EXCEPT !.records[k] = d, !.buckets = AddToIndexes(removed, k, d)]
    BY <1>5 DEF Replace
  <2> HIDE DEF new, removed
  <2>2. /\ new.order = coll.order
        /\ new.positions = coll.positions
        /\ new.nextPosition = coll.nextPosition
        /\ new.records = [coll.records EXCEPT ![k] = d]
        /\ new.buckets = AddToIndexes(removed, k, d)
    BY <2>1 DEF CollectionType
  <2>3. /\ new.records[k] = d /\ d # Absent
        /\ \A k2 \in Keys : k2 # k => new.records[k2] = coll.records[k2]
    BY <1>1, <2>2, CollectionAssumption
  <2>4. \A k2 \in Keys : Has(new, k2) <=> Has(coll, k2)
    BY <2>3 DEF Has
  <2>5. OrderListsRecords(new) /\ PositionsRankOrder(new)
    BY <2>2, <2>4 DEF Consistent, OrderListsRecords, PositionsRankOrder
  <2>6. BucketsIndexRecords(new)
    BY <1>2, <1>3, <2>2, <2>3 DEF BucketsIndexRecords, AddToIndexes, Has, OthersFiled
  <2>7. UniqueValuesDiffer(new)
    <3>1. NoOtherHas(coll.records, k, d)
      BY <1>2, <1>5, AcceptedIsUnique
    <3> QED
      BY <2>3, <3>1 DEF Consistent, UniqueValuesDiffer, Has, NoOtherHas
  <2> QED
    BY <2>5, <2>6, <2>7 DEF Consistent, new
<1> QED
  BY <1>4, <1>5

(* Deleting keeps a collection consistent: splice closes the gap in order   *)
(* and positions keep ranking it although one of them is missing.           *)
LEMMA DeleteDocConsistent ==
  ASSUME NEW coll \in CollectionType, Consistent(coll), NEW k \in Keys
  PROVE  Consistent(DeleteDoc(coll, k).coll)
<1>1. CASE ~Has(coll, k)
  BY <1>1 DEF DeleteDoc, Refused
<1>2. CASE Has(coll, k)
  <2> DEFINE new == DeleteDoc(coll, k).coll
             p   == IndexInOrder(coll.order, k)
             len == Len(coll.order)
  <2>1. /\ new.order = RemoveAt(coll.order, p)
        /\ new.positions = [coll.positions EXCEPT ![k] = NoPosition]
        /\ new.nextPosition = coll.nextPosition
        /\ new.records = [coll.records EXCEPT ![k] = Absent]
        /\ new.buckets = RemoveFromIndexes(coll.buckets, k, coll.records[k])
    BY <1>2 DEF DeleteDoc
  <2>2. /\ coll.order \in Seq(Keys)
        /\ coll.positions \in [Keys -> Nat \cup {NoPosition}]
        /\ coll.nextPosition \in Nat
        /\ coll.records \in [Keys -> Docs \cup {Absent}]
        /\ coll.buckets \in [Indexes -> [IndexKeys -> SUBSET Keys]]
    BY DEF CollectionType
  <2>3. p \in 1 .. len /\ coll.order[p] = k
    BY <1>2, IndexInOrderFinds DEF Consistent
  <2>4. /\ Len(new.order) = len - 1
        /\ \A n \in 1 .. len - 1 :
             new.order[n] = IF n < p THEN coll.order[n] ELSE coll.order[n + 1]
    <3> HIDE DEF new, p
    <3>1. coll.order \in Seq(Keys) /\ p \in 1 .. Len(coll.order)
      BY <2>2, <2>3
    <3>2. /\ Len(RemoveAt(coll.order, p)) = Len(coll.order) - 1
          /\ \A n \in 1 .. Len(coll.order) - 1 : RemoveAt(coll.order, p)[n] =
               IF n < p THEN coll.order[n] ELSE coll.order[n + 1]
      <4> DEFINE order == coll.order
      <4>1. order \in Seq(Keys) /\ p \in 1 .. Len(order)
        BY <3>1
      <4> HIDE DEF order
      <4>2. /\ Len(RemoveAt(order, p)) = Len(order) - 1
            /\ \A n \in 1 .. Len(order) - 1 :
                 RemoveAt(order, p)[n] = IF n < p THEN order[n] ELSE order[n + 1]
        BY <4>1, RemoveKey
      <4> QED BY <4>2 DEF order
    <3>3. new.order = RemoveAt(coll.order, p)
      BY <2>1
    <3> QED BY <3>2, <3>3
  <2>5. /\ \A k2 \in Keys : Has(coll, k2) <=> \E n \in 1 .. len : coll.order[n] = k2
        /\ \A m, n \in 1 .. len : coll.order[m] = coll.order[n] => m = n
    BY DEF Consistent, OrderListsRecords
  <2>6. /\ ~Has(new, k)
        /\ \A k2 \in Keys : k2 # k => new.records[k2] = coll.records[k2]
    BY <2>1, <2>2 DEF Has
  <2> HIDE DEF new, p, len
  <2>7. len \in Nat
    BY <2>2 DEF len
  <2>8. \A n \in 1 .. len : coll.order[n] \in Keys
    BY <2>2 DEF len
  <2>9. OrderListsRecords(new)
    <3>1. ASSUME NEW k2 \in Keys
          PROVE  Has(new, k2) <=> \E n \in 1 .. Len(new.order) : new.order[n] = k2
      <4>1. ASSUME Has(new, k2)
            PROVE  \E n \in 1 .. Len(new.order) : new.order[n] = k2
        <5>1. k2 # k /\ Has(coll, k2)
          BY <4>1, <2>6 DEF Has
        <5>2. PICK m \in 1 .. len : coll.order[m] = k2
          BY <5>1, <2>5
        <5>3. m # p
          BY <5>1, <5>2, <2>3
        <5>4. CASE m < p
          BY <5>2, <5>4, <2>3, <2>4, <2>7
        <5>5. CASE m > p
          <6>1. m - 1 \in 1 .. len - 1 /\ ~(m - 1 < p) /\ (m - 1) + 1 = m
            BY <5>2, <5>5, <2>3, <2>7
          <6> QED BY <5>2, <6>1, <2>4
        <5> QED BY <5>2, <5>3, <5>4, <5>5, <2>3, <2>7
      <4>2. ASSUME NEW n \in 1 .. Len(new.order), new.order[n] = k2
            PROVE  Has(new, k2)
        <5>1. PICK m \in 1 .. len : m # p /\ coll.order[m] = k2
          BY <4>2, <2>3, <2>4, <2>7
        <5>2. k2 # k /\ Has(coll, k2)
          BY <5>1, <2>3, <2>5
        <5> QED BY <5>2, <2>6 DEF Has
      <4> QED BY <4>1, <4>2
    <3>2. \A m, n \in 1 .. Len(new.order) : new.order[m] = new.order[n] => m = n
      BY <2>3, <2>4, <2>5, <2>7
    <3> QED BY <3>1, <3>2 DEF OrderListsRecords
  <2>10. PositionsRankOrder(new)
    <3>1. /\ \A k2 \in Keys : Has(coll, k2) <=> coll.positions[k2] # NoPosition
          /\ \A m, n \in 1 .. len :
               m < n => coll.positions[coll.order[m]] < coll.positions[coll.order[n]]
          /\ \A k2 \in Keys : coll.positions[k2] < coll.nextPosition
      BY DEF Consistent, PositionsRankOrder, len
    <3>2. /\ new.positions[k] = NoPosition
          /\ \A k2 \in Keys : k2 # k => new.positions[k2] = coll.positions[k2]
      BY <2>1, <2>2
    <3>3. \A k2 \in Keys : Has(new, k2) <=> new.positions[k2] # NoPosition
      BY <2>6, <3>1, <3>2 DEF Has
    <3>4. \A k2 \in Keys : new.positions[k2] < new.nextPosition
      BY <2>1, <2>2, <3>1, <3>2 DEF NoPosition
    <3>5. ASSUME NEW m \in 1 .. Len(new.order), NEW n \in 1 .. Len(new.order), m < n
          PROVE  new.positions[new.order[m]] < new.positions[new.order[n]]
      <4>1. PICK m2 \in 1 .. len, n2 \in 1 .. len :
              /\ m2 < n2 /\ m2 # p /\ n2 # p
              /\ new.order[m] = coll.order[m2] /\ new.order[n] = coll.order[n2]
        BY <3>5, <2>3, <2>4, <2>7
      <4>2. coll.order[m2] # k /\ coll.order[n2] # k
        BY <4>1, <2>3, <2>5
      <4> QED BY <4>1, <4>2, <3>1, <3>2, <2>8
    <3> QED BY <3>3, <3>4, <3>5 DEF PositionsRankOrder
  <2>11. BucketsIndexRecords(new)
    BY <1>2, <2>1, <2>2, <2>6 DEF Consistent, BucketsIndexRecords, RemoveFromIndexes, Has
  <2>12. UniqueValuesDiffer(new)
    BY <2>6 DEF Consistent, UniqueValuesDiffer, Has
  <2> QED
    BY <2>9, <2>10, <2>11, <2>12 DEF Consistent, new
<1> QED
  BY <1>1, <1>2

(* Whatever a transaction writes, and whether or not it is refused, a       *)
(* consistent collection stays consistent.                                  *)
LEMMA WriteOutcomeConsistent ==
  ASSUME NEW coll \in CollectionType, Consistent(coll), NEW call \in WriteCalls
  PROVE  Consistent(WriteOutcome(coll, call).coll)
<1> USE CollectionAssumption
<1>1. CASE call \in InsertCalls
  <2>1. WriteOutcome(coll, call) = InsertDoc(coll, call.key, call.doc)
    BY <1>1 DEF WriteOutcome, InsertCalls
  <2> QED
    BY <1>1, <2>1, InsertNewConsistent DEF InsertDoc, InsertCalls, Refused
<1>2. CASE call \in UpsertCalls
  <2>1. WriteOutcome(coll, call) = UpsertDoc(coll, call.key, call.doc)
    BY <1>2 DEF WriteOutcome, UpsertCalls
  <2> QED
    BY <1>2, <2>1, InsertNewConsistent, ReplaceConsistent DEF UpsertDoc, UpsertCalls, Refused
<1>3. CASE call \in UpdateCalls
  <2>1. WriteOutcome(coll, call) = UpdateDoc(coll, call.key, call.patch)
    BY <1>3 DEF WriteOutcome, UpdateCalls
  <2> DEFINE after == PatchOf[coll.records[call.key], call.patch]
  <2>2. after \in ValidDocs /\ Has(coll, call.key)
          => Consistent(Replace(coll, call.key, after).coll)
    <3> HIDE DEF after
    <3> QED BY <1>3, ReplaceConsistent DEF UpdateCalls
  <2>3. CASE Has(coll, call.key) /\ after \in ValidDocs
    <3>1. UpdateDoc(coll, call.key, call.patch) = Replace(coll, call.key, after)
      BY <2>3 DEF UpdateDoc
    <3> HIDE DEF after
    <3> QED BY <2>1, <2>2, <2>3, <3>1
  <2>4. CASE ~(Has(coll, call.key) /\ after \in ValidDocs)
    <3>1. \E why \in Refusals : UpdateDoc(coll, call.key, call.patch) = Refused(coll, why)
      BY <2>4 DEF UpdateDoc, Refusals
    <3> HIDE DEF after
    <3> QED BY <2>1, <3>1 DEF Refused
  <2> QED
    BY <2>3, <2>4
<1>4. CASE call \in DeleteCalls
  <2>1. WriteOutcome(coll, call) = DeleteDoc(coll, call.key)
    BY <1>4 DEF WriteOutcome, DeleteCalls
  <2> QED
    BY <1>4, <2>1, DeleteDocConsistent DEF DeleteCalls
<1> QED
  BY <1>1, <1>2, <1>3, <1>4 DEF WriteCalls

(* A seed or snapshot the code accepts makes a consistent collection. *)
LEMMA CreateCollectionConsistent ==
  ASSUME NEW docs \in Seq([key : Keys, doc : Docs]), Loadable(docs)
  PROVE  /\ CreateCollection(docs) \in CollectionType
         /\ Consistent(CreateCollection(docs))
<1> DEFINE coll == CreateCollection(docs)
           len == Len(docs)
           Places(k) == {n \in 1 .. len : docs[n].key = k}
           Place(k) == CHOOSE n \in Places(k) : TRUE
           DocAt(k) == IF Places(k) = {} THEN Absent ELSE docs[Place(k)].doc
<1>1. /\ coll.order = [n \in 1 .. len |-> docs[n].key]
      /\ coll.positions = [k \in Keys |-> IF Places(k) = {} THEN NoPosition ELSE Place(k) - 1]
      /\ coll.nextPosition = len
      /\ coll.records = [k \in Keys |-> DocAt(k)]
      /\ coll.buckets = [i \in Indexes |-> [x \in IndexKeys |->
                          {k \in Keys : DocAt(k) # Absent /\ IndexKeyOf[i][DocAt(k)] = x}]]
  BY DEF CreateCollection
<1>2. /\ len \in Nat
      /\ \A n \in 1 .. len : docs[n] \in [key : Keys, doc : Docs]
  <2> DEFINE Entries == [key : Keys, doc : Docs]
  <2>1. docs \in Seq(Entries)
    OBVIOUS
  <2> HIDE DEF Entries
  <2>2. Len(docs) \in Nat /\ \A n \in 1 .. Len(docs) : docs[n] \in Entries
    BY <2>1
  <2> QED BY <2>2 DEF Entries
<1>3. \A n \in 1 .. len : docs[n].key \in Keys /\ docs[n].doc \in Docs
  BY <1>2
<1>4. \A m, n \in 1 .. len : m # n => docs[m].key # docs[n].key
  BY DEF Loadable
<1>5. ASSUME NEW k \in Keys, Places(k) # {}
      PROVE  Place(k) \in 1 .. len /\ docs[Place(k)].key = k
  BY <1>5
<1>6. \A k \in Keys : DocAt(k) \in Docs \cup {Absent} /\ (DocAt(k) # Absent <=> Places(k) # {})
  BY <1>3, <1>5, CollectionAssumption
<1>7. ASSUME NEW n \in 1 .. len
      PROVE  Places(docs[n].key) = {n} /\ Place(docs[n].key) = n
  BY <1>4
<1> HIDE DEF coll, len, Places, Place, DocAt
<1>8. coll \in CollectionType
  <2>1. coll.order \in Seq(Keys)
    BY <1>1, <1>2, <1>3
  <2>2. coll.positions \in [Keys -> Nat \cup {NoPosition}]
    BY <1>1, <1>2, <1>5
  <2>3. /\ coll.records \in [Keys -> Docs \cup {Absent}]
        /\ coll.buckets \in [Indexes -> [IndexKeys -> SUBSET Keys]]
    BY <1>1, <1>6
  <2>4. coll = [order |-> coll.order, positions |-> coll.positions,
                nextPosition |-> coll.nextPosition,
                records |-> coll.records, buckets |-> coll.buckets]
    BY DEF coll, CreateCollection
  <2> QED BY <1>1, <1>2, <2>1, <2>2, <2>3, <2>4 DEF CollectionType
<1>9. /\ Len(coll.order) = len
      /\ \A n \in 1 .. len : coll.order[n] = docs[n].key
  BY <1>1, <1>2
<1>10. \A k \in Keys : Has(coll, k) <=> Places(k) # {}
  BY <1>1, <1>6 DEF Has
<1>11. OrderListsRecords(coll)
  <2>1. \A k \in Keys : Places(k) # {} <=> \E n \in 1 .. len : docs[n].key = k
    BY DEF Places, len
  <2> QED
    BY <1>4, <1>9, <1>10, <2>1 DEF OrderListsRecords
<1>12. PositionsRankOrder(coll)
  <2>1. \A k \in Keys : Places(k) # {} => /\ coll.positions[k] = Place(k) - 1
                                         /\ Place(k) \in 1 .. len
    BY <1>1, <1>5
  <2>2. \A k \in Keys : Places(k) = {} => coll.positions[k] = NoPosition
    BY <1>1
  <2>3. \A n \in 1 .. len : coll.positions[docs[n].key] = n - 1
    BY <1>2, <1>3, <1>7, <2>1
  <2>4. \A m, n \in 1 .. Len(coll.order) :
          m < n => coll.positions[coll.order[m]] < coll.positions[coll.order[n]]
    <3>1. ASSUME NEW m \in 1 .. len, NEW n \in 1 .. len, m < n
          PROVE  coll.positions[coll.order[m]] < coll.positions[coll.order[n]]
      <4>1. coll.order[m] = docs[m].key /\ coll.order[n] = docs[n].key
        BY <1>9
      <4>2. /\ coll.positions[docs[m].key] = m - 1
            /\ coll.positions[docs[n].key] = n - 1
        BY <2>3
      <4>3. m \in Int /\ n \in Int
        BY <1>2
      <4>4. m - 1 < n - 1
        BY <3>1, <4>3
      <4> QED BY <4>1, <4>2, <4>4
    <3> QED BY <1>9, <3>1
  <2>5. \A k \in Keys : Has(coll, k) <=> coll.positions[k] # NoPosition
    BY <1>2, <1>10, <2>1, <2>2 DEF NoPosition
  <2>6. \A k \in Keys : coll.positions[k] < coll.nextPosition
    BY <1>1, <1>2, <2>1, <2>2 DEF NoPosition
  <2> QED BY <2>4, <2>5, <2>6 DEF PositionsRankOrder
<1>13. BucketsIndexRecords(coll)
  BY <1>1, <1>6 DEF BucketsIndexRecords, Has
<1>14. UniqueValuesDiffer(coll)
  <2>1. SUFFICES ASSUME NEW i \in UniqueIndexes, NEW k1 \in Keys, NEW k2 \in Keys,
                        Has(coll, k1), Has(coll, k2), k1 # k2,
                        IndexKeyOf[i][coll.records[k1]] \in IndexKeys,
                        IndexKeyOf[i][coll.records[k1]] = IndexKeyOf[i][coll.records[k2]]
                 PROVE  FALSE
    BY DEF UniqueValuesDiffer
  <2>2. /\ Place(k1) \in 1 .. len /\ docs[Place(k1)].key = k1
        /\ Place(k2) \in 1 .. len /\ docs[Place(k2)].key = k2
    BY <1>5, <1>10, <2>1
  <2>3. /\ coll.records[k1] = docs[Place(k1)].doc
        /\ coll.records[k2] = docs[Place(k2)].doc
    BY <1>1, <1>10, <2>1 DEF DocAt
  <2>4. \A m, n \in 1 .. len : m # n =>
          \A j \in UniqueIndexes :
            IndexKeyOf[j][docs[m].doc] = IndexKeyOf[j][docs[n].doc]
              => IndexKeyOf[j][docs[m].doc] = Unindexed
    BY DEF Loadable, len
  <2>5. Place(k1) # Place(k2)
    BY <2>1, <2>2
  <2>6. IndexKeyOf[i][docs[Place(k1)].doc] = Unindexed
    BY <2>1, <2>2, <2>3, <2>4, <2>5
  <2> QED
    BY <2>1, <2>3, <2>6, CollectionAssumption
<1> QED
  BY <1>8, <1>11, <1>12, <1>13, <1>14 DEF Consistent, coll

-----------------------------------------------------------------------------
(* Keeping the chosen elements of a sequence *)

(* The trace of the loop: element by element, kept or passed over *)
PickTrace(p, s, chosen) ==
  /\ p[0] = <<>>
  /\ \A i \in 1 .. Len(s) :
       p[i] = IF s[i] \in chosen THEN Append(p[i - 1], s[i]) ELSE p[i - 1]
  /\ p[Len(s)] = Picked(s, chosen)

LEMMA PickedTrace ==
  ASSUME NEW S, NEW s \in Seq(S), NEW chosen
  PROVE  \E p \in [0 .. Len(s) -> Seq(S)] : PickTrace(p, s, chosen)
<1> DEFINE m == Len(s)
           A == Seq(S)
           st == [i \in 1 .. m |-> [a \in A |-> IF s[i] \in chosen THEN Append(a, s[i]) ELSE a]]
           f == CHOOSE c : c = [r \in SUBSET (1 .. m) |->
                  IF r = {} THEN <<>>
                  ELSE IF s[Max(r)] \in chosen THEN Append(c[r \ {Max(r)}], s[Max(r)])
                  ELSE c[r \ {Max(r)}]]
<1>1. m \in Nat /\ DOMAIN s = 1 .. m /\ <<>> \in A /\ \A i \in 1 .. m : s[i] \in S
  OBVIOUS
<1>2. Picked(s, chosen) = f[1 .. m]
  BY <1>1 DEF Picked, FoldLeft, MapThenFoldSet
<1>3. st \in [1 .. m -> [A -> A]]
  BY <1>1
<1>4. \A i \in 1 .. m, a \in A :
        st[i][a] = IF s[i] \in chosen THEN Append(a, s[i]) ELSE a
  OBVIOUS
<1> HIDE DEF st, m, A
<1>5. PICK g \in [SUBSET (1 .. m) -> A] : Folds(g, m, st, <<>>)
  BY <1>1, <1>3, FoldsExist DEF CanFold
<1>6. ASSUME NEW r \in SUBSET (1 .. m)
      PROVE  g[r] = IF r = {} THEN <<>>
                    ELSE IF s[Max(r)] \in chosen THEN Append(g[r \ {Max(r)}], s[Max(r)])
                    ELSE g[r \ {Max(r)}]
  <2>1. CASE r = {}
    BY <1>5, <2>1 DEF Folds
  <2>2. CASE r # {}
    <3>1. Max(r) \in 1 .. m /\ r \ {Max(r)} \in SUBSET (1 .. m)
      BY <1>1, <2>2, MaxBounds
    <3>2. g[r \ {Max(r)}] \in A
      BY <3>1
    <3>3. g[r] = st[Max(r)][g[r \ {Max(r)}]]
      BY <1>5, <2>2 DEF Folds
    <3> QED
      BY <1>4, <2>2, <3>1, <3>2, <3>3
  <2> QED
    BY <2>1, <2>2
<1>7. f = [r \in SUBSET (1 .. m) |->
             IF r = {} THEN <<>>
             ELSE IF s[Max(r)] \in chosen THEN Append(f[r \ {Max(r)}], s[Max(r)])
             ELSE f[r \ {Max(r)}]]
  <2>1. g = [r \in SUBSET (1 .. m) |->
               IF r = {} THEN <<>>
               ELSE IF s[Max(r)] \in chosen THEN Append(g[r \ {Max(r)}], s[Max(r)])
               ELSE g[r \ {Max(r)}]]
    BY <1>6
  <2> QED
    BY <2>1
<1> HIDE DEF f
<1>8. f[1 .. m] = g[1 .. m]
  <2>1. {} \in SUBSET (1 .. m)
    OBVIOUS
  <2>2. f[{}] = g[{}]
    BY <1>6, <1>7, <2>1
  <2>3. ASSUME NEW r \in SUBSET (1 .. m), r # {}, f[r \ {Max(r)}] = g[r \ {Max(r)}]
        PROVE  f[r] = g[r]
    BY <1>6, <1>7, <2>3
  <2> QED
    BY <1>1, <2>2, <2>3, SameFolds
<1>9. m \in Nat /\ <<>> \in A
  BY <1>1
<1>10. g \in [SUBSET (1 .. m) -> A] /\ Folds(g, m, st, <<>>)
  BY <1>5
<1>11. Traced(A, m, st, <<>>, g[1 .. m])
  BY <1>9, <1>3, <1>10, FoldTrace
<1>12. PICK p \in [0 .. m -> A] : Trace(p, m, st, <<>>) /\ p[m] = g[1 .. m]
  BY <1>11 DEF Traced
<1>13. ASSUME NEW i \in 1 .. m
       PROVE  p[i] = IF s[i] \in chosen THEN Append(p[i - 1], s[i]) ELSE p[i - 1]
  <2>1. i - 1 \in 0 .. m
    BY <1>1
  <2>2. p[i - 1] \in A
    BY <2>1
  <2> QED
    BY <1>4, <1>12, <2>2 DEF Trace
<1>14. p[0] = <<>> /\ p[m] = Picked(s, chosen)
  BY <1>2, <1>8, <1>12 DEF Trace
<1> QED
  BY <1>13, <1>14 DEF m, A, PickTrace

(* Choosing all but one position is dropping that position. *)
LEMMA PickedSkips ==
  ASSUME NEW S, NEW s \in Seq(S), NEW chosen, NEW at \in 1 .. Len(s),
         \A i \in 1 .. Len(s) : s[i] \in chosen <=> i # at
  PROVE  /\ Picked(s, chosen) \in Seq(S)
         /\ Len(Picked(s, chosen)) = Len(s) - 1
         /\ \A n \in 1 .. Len(s) - 1 :
              Picked(s, chosen)[n] = IF n < at THEN s[n] ELSE s[n + 1]
<1> DEFINE m == Len(s)
<1>1. m \in Nat /\ \A i \in 1 .. m : s[i] \in S
  OBVIOUS
<1>2. PICK p \in [0 .. m -> Seq(S)] : PickTrace(p, s, chosen)
  BY PickedTrace
<1> DEFINE Kept(i) == IF i < at THEN i ELSE i - 1
           Good == {i \in Nat : i <= m =>
                      /\ Len(p[i]) = Kept(i)
                      /\ \A n \in 1 .. Kept(i) : p[i][n] = IF n < at THEN s[n] ELSE s[n + 1]}
<1>3. 0 \in Good
  BY <1>2 DEF PickTrace
<1>4. ASSUME NEW i \in Nat, i \in Good PROVE i + 1 \in Good
  <2> SUFFICES ASSUME i + 1 <= m
               PROVE  /\ Len(p[i + 1]) = Kept(i + 1)
                      /\ \A n \in 1 .. Kept(i + 1) :
                           p[i + 1][n] = IF n < at THEN s[n] ELSE s[n + 1]
    OBVIOUS
  <2>1. /\ Len(p[i]) = Kept(i)
        /\ \A n \in 1 .. Kept(i) : p[i][n] = IF n < at THEN s[n] ELSE s[n + 1]
    BY <1>4
  <2> HIDE DEF Good
  <2>2. i + 1 \in 1 .. m /\ (i + 1) - 1 = i /\ i \in 0 .. m
    OBVIOUS
  <2>3. p[i] \in Seq(S) /\ s[i + 1] \in S
    BY <1>1, <2>2
  <2>4. p[i + 1] = IF i + 1 # at THEN Append(p[i], s[i + 1]) ELSE p[i]
    BY <1>2, <2>2 DEF PickTrace
  <2> HIDE DEF m
  <2>5. CASE i + 1 = at
    BY <2>1, <2>4, <2>5
  <2>6. CASE i + 1 # at
    <3>1. Kept(i + 1) = Kept(i) + 1 /\ Kept(i) \in Nat
      BY <1>1, <2>6
    <3>2. s[i + 1] = IF Kept(i) + 1 < at THEN s[Kept(i) + 1] ELSE s[(Kept(i) + 1) + 1]
      BY <2>6
    <3> HIDE DEF Kept
    <3>3. /\ Len(p[i + 1]) = Kept(i) + 1
          /\ \A n \in 1 .. Kept(i) : p[i + 1][n] = p[i][n]
          /\ p[i + 1][Kept(i) + 1] = s[i + 1]
      BY <2>1, <2>3, <2>4, <2>6, <3>1
    <3>4. \A n \in 1 .. Kept(i) + 1 : n \in 1 .. Kept(i) \/ n = Kept(i) + 1
      BY <3>1
    <3> QED
      BY <2>1, <3>1, <3>2, <3>3, <3>4
  <2> QED
    BY <2>5, <2>6
<1> HIDE DEF Good
<1>5. m \in Good
  BY <1>1, <1>3, <1>4, SetInduction
<1>6. p[m] = Picked(s, chosen) /\ p[m] \in Seq(S)
  BY <1>1, <1>2 DEF PickTrace
<1> QED
  BY <1>5, <1>6 DEF Good

(* Choosing alike in two sequences that go together keeps them together. *)
LEMMA PickedTogether ==
  ASSUME NEW S, NEW T, NEW s \in Seq(S), NEW r \in Seq(T), Len(r) = Len(s),
         NEW chosen, NEW taken,
         \A i \in 1 .. Len(s) : r[i].key = s[i] /\ (s[i] \in chosen <=> r[i] \in taken)
  PROVE  Picked(s, chosen) =
           [n \in 1 .. Len(Picked(r, taken)) |-> Picked(r, taken)[n].key]
<1> DEFINE m == Len(s)
<1>1. m \in Nat /\ (\A i \in 1 .. m : s[i] \in S /\ r[i] \in T)
  OBVIOUS
<1>2. PICK p \in [0 .. m -> Seq(S)] : PickTrace(p, s, chosen)
  BY PickedTrace
<1>3. PICK q \in [0 .. m -> Seq(T)] : PickTrace(q, r, taken)
  BY PickedTrace
<1> DEFINE Good == {i \in Nat : i <= m =>
                      /\ Len(p[i]) = Len(q[i])
                      /\ \A n \in 1 .. Len(q[i]) : p[i][n] = q[i][n].key}
<1>4. 0 \in Good
  BY <1>2, <1>3 DEF PickTrace
<1>5. ASSUME NEW i \in Nat, i \in Good PROVE i + 1 \in Good
  <2> SUFFICES ASSUME i + 1 <= m
               PROVE  /\ Len(p[i + 1]) = Len(q[i + 1])
                      /\ \A n \in 1 .. Len(q[i + 1]) : p[i + 1][n] = q[i + 1][n].key
    OBVIOUS
  <2>1. Len(p[i]) = Len(q[i]) /\ \A n \in 1 .. Len(q[i]) : p[i][n] = q[i][n].key
    BY <1>5
  <2> HIDE DEF Good
  <2>2. i + 1 \in 1 .. m /\ (i + 1) - 1 = i /\ i \in 0 .. m
    OBVIOUS
  <2>3. p[i] \in Seq(S) /\ q[i] \in Seq(T) /\ s[i + 1] \in S /\ r[i + 1] \in T
    BY <1>1, <2>2
  <2>4. /\ p[i + 1] = IF s[i + 1] \in chosen THEN Append(p[i], s[i + 1]) ELSE p[i]
        /\ q[i + 1] = IF s[i + 1] \in chosen THEN Append(q[i], r[i + 1]) ELSE q[i]
        /\ r[i + 1].key = s[i + 1]
    BY SMTT(30), <1>2, <1>3, <2>2 DEF PickTrace
  <2> HIDE DEF m
  <2>5. CASE s[i + 1] \in chosen
    <3> PICK len \in Nat : len = Len(q[i])
      BY <2>3
    <3>1. /\ Len(p[i + 1]) = len + 1 /\ Len(q[i + 1]) = len + 1
          /\ \A n \in 1 .. len : p[i + 1][n] = p[i][n] /\ q[i + 1][n] = q[i][n]
          /\ p[i + 1][len + 1] = s[i + 1] /\ q[i + 1][len + 1] = r[i + 1]
      BY SMTT(30), <2>1, <2>3, <2>4, <2>5
    <3>2. \A n \in 1 .. len + 1 : n \in 1 .. len \/ n = len + 1
      OBVIOUS
    <3> QED
      BY <2>1, <2>4, <3>1, <3>2
  <2>6. CASE s[i + 1] \notin chosen
    BY <2>1, <2>4, <2>6
  <2> QED
    BY <2>5, <2>6
<1> HIDE DEF Good
<1>6. m \in Good
  BY <1>1, <1>4, <1>5, SetInduction
<1>7. /\ p[m] = Picked(s, chosen) /\ q[m] = Picked(r, taken)
      /\ p[m] \in Seq(S) /\ q[m] \in Seq(T)
  BY <1>1, <1>2, <1>3 DEF PickTrace
<1>8. Len(p[m]) = Len(q[m]) /\ \A n \in 1 .. Len(q[m]) : p[m][n] = q[m][n].key
  BY <1>6 DEF Good
<1>9. p[m] = [n \in 1 .. Len(q[m]) |-> q[m][n].key]
  <2>1. p[m] = [n \in 1 .. Len(p[m]) |-> p[m][n]]
    BY <1>7
  <2> QED
    BY <1>8, <2>1
<1> QED
  BY <1>7, <1>9

(* Chosen from a sequence without repetitions there are none. *)
LEMMA PickedDistinct ==
  ASSUME NEW S, NEW s \in Seq(S), NEW chosen,
         \A i, j \in 1 .. Len(s) : s[i] = s[j] => i = j
  PROVE  /\ Picked(s, chosen) \in Seq(S)
         /\ \A i, j \in 1 .. Len(Picked(s, chosen)) :
              Picked(s, chosen)[i] = Picked(s, chosen)[j] => i = j
<1> DEFINE m == Len(s)
<1>1. m \in Nat /\ \A i \in 1 .. m : s[i] \in S
  OBVIOUS
<1>2. PICK p \in [0 .. m -> Seq(S)] : PickTrace(p, s, chosen)
  BY PickedTrace
<1> DEFINE Good == {i \in Nat : i <= m =>
                      /\ \A n \in 1 .. Len(p[i]) : \E k \in 1 .. i : p[i][n] = s[k]
                      /\ \A n, k \in 1 .. Len(p[i]) : p[i][n] = p[i][k] => n = k}
<1>3. 0 \in Good
  BY <1>2 DEF PickTrace
<1>4. ASSUME NEW i \in Nat, i \in Good PROVE i + 1 \in Good
  <2> SUFFICES ASSUME i + 1 <= m
               PROVE  /\ \A n \in 1 .. Len(p[i + 1]) : \E k \in 1 .. i + 1 : p[i + 1][n] = s[k]
                      /\ \A n, k \in 1 .. Len(p[i + 1]) : p[i + 1][n] = p[i + 1][k] => n = k
    OBVIOUS
  <2>1. /\ \A n \in 1 .. Len(p[i]) : \E k \in 1 .. i : p[i][n] = s[k]
        /\ \A n, k \in 1 .. Len(p[i]) : p[i][n] = p[i][k] => n = k
    <3>1. i \in Good /\ i <= m
      BY <1>1, <1>4
    <3> QED
      BY <3>1
  <2> HIDE DEF Good
  <2>2. i + 1 \in 1 .. m /\ (i + 1) - 1 = i /\ i \in 0 .. m
    OBVIOUS
  <2>3. p[i] \in Seq(S) /\ s[i + 1] \in S
    BY <1>1, <2>2
  <2>4. p[i + 1] = IF s[i + 1] \in chosen THEN Append(p[i], s[i + 1]) ELSE p[i]
    BY <1>2, <2>2 DEF PickTrace
  <2>5. \A k \in 1 .. i : s[k] # s[i + 1]
    BY <2>2
  <2> HIDE DEF m
  <2>6. CASE s[i + 1] \in chosen
    <3> PICK len \in Nat : len = Len(p[i])
      BY <2>3
    <3>1. /\ Len(p[i + 1]) = len + 1
          /\ \A n \in 1 .. len : p[i + 1][n] = p[i][n]
          /\ p[i + 1][len + 1] = s[i + 1]
      BY <2>3, <2>4, <2>6
    <3>2. \A n \in 1 .. len + 1 : n \in 1 .. len \/ n = len + 1
      OBVIOUS
    <3>3. \A n \in 1 .. len : p[i + 1][n] # s[i + 1] /\ \E k \in 1 .. i + 1 : p[i + 1][n] = s[k]
      <4> TAKE n \in 1 .. len
      <4>1. PICK k \in 1 .. i : p[i][n] = s[k]
        BY <2>1
      <4> QED
        BY <2>5, <3>1, <4>1
    <3>4. ASSUME NEW n \in 1 .. len + 1 PROVE \E k \in 1 .. i + 1 : p[i + 1][n] = s[k]
      <4>1. i + 1 \in 1 .. i + 1
        OBVIOUS
      <4>2. CASE n = len + 1
        BY <3>1, <4>1, <4>2
      <4>3. CASE n \in 1 .. len
        BY <3>3, <4>3
      <4> QED
        BY <3>2, <4>2, <4>3
    <3>5. ASSUME NEW n \in 1 .. len + 1, NEW k \in 1 .. len + 1, p[i + 1][n] = p[i + 1][k]
          PROVE  n = k
      BY <2>1, <3>1, <3>2, <3>3, <3>5
    <3> QED
      BY <3>1, <3>4, <3>5
  <2>7. CASE s[i + 1] \notin chosen
    <3>1. p[i + 1] = p[i] /\ 1 .. i \subseteq 1 .. i + 1
      BY <2>4, <2>7
    <3> QED
      BY <2>1, <3>1
  <2> QED
    BY <2>6, <2>7
<1> HIDE DEF Good
<1>5. m \in Good
  BY <1>1, <1>3, <1>4, SetInduction
<1>6. p[m] = Picked(s, chosen) /\ p[m] \in Seq(S)
  BY <1>1, <1>2 DEF PickTrace
<1> QED
  BY <1>5, <1>6 DEF Good
-----------------------------------------------------------------------------
(* Every call means on a consistent collection what it means on the plain  *)
(* sequence of its documents.                                              *)

LEMMA SamePicked ==
  ASSUME NEW s, NEW chosen
  PROVE  Ideal!Picked(s, chosen) = Picked(s, chosen)
BY DEF Ideal!Picked, Ideal!FoldLeft, Ideal!MapThenFoldSet, Ideal!Max,
       Picked, FoldLeft, MapThenFoldSet, Max

(* The documents of a collection, in order *)
LEMMA DocsListed ==
  ASSUME NEW coll \in CollectionType, OrderListsRecords(coll)
  PROVE  /\ DocsOf(coll) \in Seq(Ideal!Entries)
         /\ Len(DocsOf(coll)) = Len(coll.order)
         /\ \A n \in 1 .. Len(coll.order) :
              /\ coll.order[n] \in Keys /\ coll.records[coll.order[n]] \in Docs
              /\ DocsOf(coll)[n] = [key |-> coll.order[n], doc |-> coll.records[coll.order[n]]]
              /\ DocsOf(coll)[n].key = coll.order[n]
              /\ DocsOf(coll)[n].doc = coll.records[coll.order[n]]
<1>1. /\ coll.order \in Seq(Keys) /\ Len(coll.order) \in Nat
      /\ coll.records \in [Keys -> Docs \cup {Absent}]
  BY DEF CollectionType
<1>2. ASSUME NEW n \in 1 .. Len(coll.order)
      PROVE  coll.order[n] \in Keys /\ coll.records[coll.order[n]] \in Docs
  <2>1. coll.order[n] \in Keys
    BY <1>1
  <2>2. Has(coll, coll.order[n])
    BY <2>1 DEF OrderListsRecords
  <2> QED
    BY <1>1, <2>1, <2>2 DEF Has
<1> QED
  BY <1>1, <1>2 DEF DocsOf, Ideal!Entries

(* Looking a key up in the sequence finds its record. *)
LEMMA LookupFinds ==
  ASSUME NEW coll \in CollectionType, OrderListsRecords(coll), NEW k \in Keys
  PROVE  Ideal!Lookup(DocsOf(coll), k) = coll.records[k]
<1> PICK docs : docs = DocsOf(coll)
  OBVIOUS
<1>1. /\ Len(docs) = Len(coll.order)
      /\ \A n \in 1 .. Len(coll.order) :
           docs[n].key = coll.order[n] /\ docs[n].doc = coll.records[coll.order[n]]
  BY DocsListed
<1>2. Has(coll, k) <=> \E n \in 1 .. Len(docs) : docs[n].key = k
  BY <1>1 DEF OrderListsRecords
<1>3. CASE Has(coll, k)
  <2> DEFINE at == CHOOSE n \in 1 .. Len(docs) : docs[n].key = k
  <2>1. at \in 1 .. Len(docs) /\ docs[at].key = k
    BY <1>2, <1>3
  <2>2. Ideal!Lookup(docs, k) = docs[at].doc
    BY <1>2, <1>3 DEF Ideal!Lookup
  <2> HIDE DEF at
  <2> QED
    BY <1>1, <2>1, <2>2
<1>4. CASE ~Has(coll, k)
  BY <1>2, <1>4 DEF Ideal!Lookup, Has
<1> QED
  BY <1>3, <1>4

(* The indexes take a document exactly when no other document of the       *)
(* sequence has its unique values.                                         *)
LEMMA AdmissibleIsAccepted ==
  ASSUME NEW coll \in CollectionType, OrderListsRecords(coll), NEW k \in Keys, NEW d \in Docs,
         NEW buckets, OthersFiled(buckets, coll.records, k)
  PROVE  Ideal!Admissible(DocsOf(coll), k, d) <=> CanAddToIndexes(buckets, k, d)
<1> PICK docs : docs = DocsOf(coll)
  OBVIOUS
<1>1. /\ Len(docs) = Len(coll.order)
      /\ \A n \in 1 .. Len(coll.order) :
           /\ coll.order[n] \in Keys
           /\ docs[n].key = coll.order[n] /\ docs[n].doc = coll.records[coll.order[n]]
  BY DocsListed
<1>2. \A k2 \in Keys : coll.records[k2] # Absent <=> \E n \in 1 .. Len(docs) : docs[n].key = k2
  BY <1>1 DEF OrderListsRecords, Has
<1>3. ASSUME NEW i \in UniqueIndexes, IndexKeyOf[i][d] # Unindexable, IndexKeyOf[i][d] # Unindexed
      PROVE  (\A n \in 1 .. Len(docs) :
                docs[n].key # k => IndexKeyOf[i][docs[n].doc] # IndexKeyOf[i][d])
             <=> (\/ buckets[i][IndexKeyOf[i][d]] = {}
                  \/ k \in buckets[i][IndexKeyOf[i][d]])
  <2>1. i \in Indexes /\ IndexKeyOf[i][d] \in IndexKeys
    BY <1>3, CollectionAssumption
  <2> PICK x \in IndexKeys : x = IndexKeyOf[i][d]
    BY <2>1
  <2>2. buckets[i][x] = {k2 \in Keys : /\ k2 # k /\ coll.records[k2] # Absent
                                       /\ IndexKeyOf[i][coll.records[k2]] = x}
    BY <2>1 DEF OthersFiled
  <2>3. k \notin buckets[i][x]
    BY <2>2
  <2>4. buckets[i][x] = {} <=>
          \A n \in 1 .. Len(docs) : docs[n].key # k => IndexKeyOf[i][docs[n].doc] # x
    <3>1. ASSUME NEW n \in 1 .. Len(docs), docs[n].key # k, IndexKeyOf[i][docs[n].doc] = x
          PROVE  docs[n].key \in buckets[i][x]
      BY <1>1, <1>2, <2>2, <3>1
    <3>2. ASSUME NEW k2 \in buckets[i][x]
          PROVE  \E n \in 1 .. Len(docs) : docs[n].key # k /\ IndexKeyOf[i][docs[n].doc] = x
      <4>1. k2 \in Keys /\ k2 # k /\ coll.records[k2] # Absent /\ IndexKeyOf[i][coll.records[k2]] = x
        BY <2>2, <3>2
      <4>2. PICK n \in 1 .. Len(docs) : docs[n].key = k2
        BY <1>2, <4>1
      <4> QED
        BY <1>1, <4>1, <4>2
    <3> QED
      BY <3>1, <3>2
  <2> QED
    BY <2>3, <2>4
<1> QED
  BY <1>3, CollectionAssumption DEF Ideal!Admissible, CanAddToIndexes

(* A new document goes to the end, if it is admissible. *)
LEMMA InsertNewMatches ==
  ASSUME NEW coll \in CollectionType, Consistent(coll),
         NEW k \in Keys, ~Has(coll, k), NEW d \in Docs
  PROVE  LET write == InsertNew(coll, k, d)
         IN  IF Ideal!Admissible(DocsOf(coll), k, d)
             THEN write.result = "ok" /\ DocsOf(write.coll) = Ideal!Put(DocsOf(coll), k, d)
             ELSE write.result = "indexRefused" /\ DocsOf(write.coll) = DocsOf(coll)
<1> PICK docs : docs = DocsOf(coll)
  OBVIOUS
<1>1. OrderListsRecords(coll)
  BY DEF Consistent
<1>2. OthersFiled(coll.buckets, coll.records, k)
  BY DEF Consistent, BucketsIndexRecords, Has, OthersFiled
<1>3. Ideal!Admissible(docs, k, d) <=> CanAddToIndexes(coll.buckets, k, d)
  BY <1>1, <1>2, AdmissibleIsAccepted
<1>4. CASE ~CanAddToIndexes(coll.buckets, k, d)
  BY <1>3, <1>4 DEF InsertNew, Refused
<1>5. CASE CanAddToIndexes(coll.buckets, k, d)
  <2> DEFINE new == InsertNew(coll, k, d).coll
  <2>1. /\ new.order = Append(coll.order, k)
        /\ new.records = [coll.records EXCEPT ![k] = d]
        /\ InsertNew(coll, k, d).result = "ok"
    BY <1>5 DEF InsertNew
  <2> HIDE DEF new
  <2>2. Ideal!Put(docs, k, d) = Append(docs, [key |-> k, doc |-> d])
    BY <1>1, LookupFinds DEF Ideal!Put, Has
  <2>3. /\ coll.order \in Seq(Keys) /\ Len(coll.order) \in Nat
        /\ coll.records \in [Keys -> Docs \cup {Absent}]
    BY DEF CollectionType
  <2>4. /\ docs \in Seq(Ideal!Entries) /\ Len(docs) = Len(coll.order)
        /\ \A n \in 1 .. Len(coll.order) :
             /\ coll.order[n] \in Keys
             /\ docs[n] = [key |-> coll.order[n], doc |-> coll.records[coll.order[n]]]
    BY <1>1, DocsListed
  <2>5. \A n \in 1 .. Len(coll.order) : coll.order[n] # k
    BY <1>1, <2>4 DEF OrderListsRecords
  <2> PICK len \in Nat : len = Len(coll.order)
    BY <2>3
  <2>6. /\ Len(new.order) = len + 1
        /\ \A n \in 1 .. len : new.order[n] = coll.order[n]
        /\ new.order[len + 1] = k
    BY <2>1, <2>3
  <2>7. /\ new.records[k] = d
        /\ \A n \in 1 .. len : new.records[coll.order[n]] = coll.records[coll.order[n]]
    BY <2>1, <2>3, <2>4, <2>5
  <2>8. DocsOf(new) = [n \in 1 .. len + 1 |->
                         IF n = len + 1 THEN [key |-> k, doc |-> d] ELSE docs[n]]
    <3>1. \A n \in 1 .. len + 1 : n \in 1 .. len \/ n = len + 1
      OBVIOUS
    <3> QED
      BY <2>4, <2>6, <2>7, <3>1 DEF DocsOf
  <2>9. Append(docs, [key |-> k, doc |-> d]) =
          [n \in 1 .. len + 1 |-> IF n = len + 1 THEN [key |-> k, doc |-> d] ELSE docs[n]]
    BY <2>4
  <2> QED
    BY <1>3, <1>5, <2>1, <2>2, <2>8, <2>9 DEF new
<1> QED
  BY <1>4, <1>5

(* A replaced document keeps its place, if the new one is admissible;       *)
(* refused, nothing is left of the attempt.                                *)
LEMMA ReplaceMatches ==
  ASSUME NEW coll \in CollectionType, Consistent(coll),
         NEW k \in Keys, Has(coll, k), NEW d \in Docs
  PROVE  LET write == Replace(coll, k, d)
         IN  IF Ideal!Admissible(DocsOf(coll), k, d)
             THEN write.result = "ok" /\ DocsOf(write.coll) = Ideal!Put(DocsOf(coll), k, d)
             ELSE write.result = "indexRefused" /\ DocsOf(write.coll) = DocsOf(coll)
<1> PICK docs : docs = DocsOf(coll)
  OBVIOUS
<1> DEFINE removed == RemoveFromIndexes(coll.buckets, k, coll.records[k])
<1>1. /\ OrderListsRecords(coll)
      /\ coll.order \in Seq(Keys) /\ Len(coll.order) \in Nat
      /\ coll.records \in [Keys -> Docs \cup {Absent}]
      /\ coll.buckets \in [Indexes -> [IndexKeys -> SUBSET Keys]]
  BY DEF Consistent, CollectionType
<1>2. OthersFiled(removed, coll.records, k)
  BY <1>1 DEF Consistent, BucketsIndexRecords, RemoveFromIndexes, Has, OthersFiled
<1> HIDE DEF removed
<1>3. Ideal!Admissible(docs, k, d) <=> CanAddToIndexes(removed, k, d)
  BY <1>1, <1>2, AdmissibleIsAccepted
<1>4. CASE ~CanAddToIndexes(removed, k, d)
  <2> DEFINE new == Replace(coll, k, d).coll
  <2>1. /\ new = [coll EXCEPT !.buckets = AddToIndexes(removed, k, coll.records[k])]
        /\ Replace(coll, k, d).result = "indexRefused"
    BY <1>4 DEF Replace, Refused, removed
  <2> HIDE DEF new
  <2>2. new.order = coll.order /\ new.records = coll.records
    BY <2>1 DEF CollectionType
  <2> QED
    BY <1>3, <1>4, <2>1, <2>2 DEF DocsOf, new
<1>5. CASE CanAddToIndexes(removed, k, d)
  <2> DEFINE new == Replace(coll, k, d).coll
  <2>1. /\ new = [coll EXCEPT !.records[k] = d, !.buckets = AddToIndexes(removed, k, d)]
        /\ Replace(coll, k, d).result = "ok"
    BY <1>5 DEF Replace, removed
  <2> HIDE DEF new
  <2>2. new.order = coll.order /\ new.records = [coll.records EXCEPT ![k] = d]
    BY <2>1 DEF CollectionType
  <2>3. /\ Len(docs) = Len(coll.order)
        /\ \A n \in 1 .. Len(coll.order) :
             /\ coll.order[n] \in Keys
             /\ docs[n] = [key |-> coll.order[n], doc |-> coll.records[coll.order[n]]]
             /\ docs[n].key = coll.order[n]
    BY <1>1, DocsListed
  <2>4. Ideal!Put(docs, k, d) =
          [n \in 1 .. Len(docs) |-> IF docs[n].key = k THEN [key |-> k, doc |-> d] ELSE docs[n]]
    BY <1>1, LookupFinds DEF Ideal!Put, Has
  <2>5. DocsOf(new) = [n \in 1 .. Len(coll.order) |->
                         [key |-> coll.order[n], doc |-> new.records[coll.order[n]]]]
    BY <2>2 DEF DocsOf
  <2>6. ASSUME NEW n \in 1 .. Len(coll.order)
        PROVE  [key |-> coll.order[n], doc |-> new.records[coll.order[n]]] =
                 IF docs[n].key = k THEN [key |-> k, doc |-> d] ELSE docs[n]
    <3>1. CASE coll.order[n] = k
      BY <1>1, <2>2, <2>3, <3>1
    <3>2. CASE coll.order[n] # k
      <4>1. new.records[coll.order[n]] = coll.records[coll.order[n]]
        BY <1>1, <2>2, <2>3, <3>2
      <4> QED
        BY <2>3, <3>2, <4>1
    <3> QED
      BY <3>1, <3>2
  <2>7. DocsOf(new) = Ideal!Put(docs, k, d)
    BY <2>3, <2>4, <2>5, <2>6
  <2> QED
    BY <1>3, <1>5, <2>1, <2>7 DEF new
<1> QED
  BY <1>4, <1>5

(* Dropping a key that one entry has drops that entry. *)
LEMMA DropsOne ==
  ASSUME NEW docs \in Seq(Ideal!Entries), NEW k, NEW at \in 1 .. Len(docs),
         \A n \in 1 .. Len(docs) : docs[n].key = k <=> n = at
  PROVE  /\ Ideal!Drop(docs, k) \in Seq(Ideal!Entries)
         /\ Len(Ideal!Drop(docs, k)) = Len(docs) - 1
         /\ \A n \in 1 .. Len(docs) - 1 :
              Ideal!Drop(docs, k)[n] = IF n < at THEN docs[n] ELSE docs[n + 1]
<1> DEFINE E == Ideal!Entries
           chosen == {e \in E : e.key # k}
<1>1. docs \in Seq(E) /\ \A n \in 1 .. Len(docs) : docs[n] \in chosen <=> n # at
  <2>1. \A n \in 1 .. Len(docs) : docs[n] \in E
    <3> HIDE DEF E
    <3>1. docs \in Seq(E)
      BY DEF E
    <3> QED
      BY <3>1
  <2> QED
    BY <2>1
<1>2. Ideal!Drop(docs, k) = Picked(docs, chosen)
  BY SamePicked DEF Ideal!Drop
<1> HIDE DEF E, chosen
<1>3. /\ Picked(docs, chosen) \in Seq(E)
      /\ Len(Picked(docs, chosen)) = Len(docs) - 1
      /\ \A n \in 1 .. Len(docs) - 1 :
           Picked(docs, chosen)[n] = IF n < at THEN docs[n] ELSE docs[n + 1]
  BY <1>1, PickedSkips
<1> QED
  BY <1>2, <1>3 DEF E

(* A deletion drops the one entry of its key. *)
LEMMA DeleteMatches ==
  ASSUME NEW coll \in CollectionType, Consistent(coll), NEW k \in Keys, Has(coll, k)
  PROVE  DocsOf(DeleteDoc(coll, k).coll) = Ideal!Drop(DocsOf(coll), k)
<1>0. PICK docs : docs = DocsOf(coll)
  OBVIOUS
<1> DEFINE new == DeleteDoc(coll, k).coll
           at == IndexInOrder(coll.order, k)
<1>1. /\ new.order = RemoveAt(coll.order, at)
      /\ new.records = [coll.records EXCEPT ![k] = Absent]
  BY DEF DeleteDoc
<1>2. /\ OrderListsRecords(coll)
      /\ coll.order \in Seq(Keys)
      /\ coll.records \in [Keys -> Docs \cup {Absent}]
  BY DEF Consistent, CollectionType
<1>3. at \in 1 .. Len(coll.order) /\ coll.order[at] = k
  BY <1>2, IndexInOrderFinds
<1> HIDE DEF new, at
<1> PICK len \in Nat : len = Len(coll.order)
  BY <1>2
<1>4. /\ Len(new.order) = len - 1
      /\ \A n \in 1 .. len - 1 :
           new.order[n] = IF n < at THEN coll.order[n] ELSE coll.order[n + 1]
  <2> PICK order : order = coll.order
    OBVIOUS
  <2>1. order \in Seq(Keys) /\ at \in 1 .. Len(order) /\ new.order = RemoveAt(order, at)
    BY <1>1, <1>2, <1>3
  <2> QED
    BY <2>1, RemoveKey
<1>5. /\ docs \in Seq(Ideal!Entries) /\ Len(docs) = len
      /\ \A n \in 1 .. len :
           /\ coll.order[n] \in Keys
           /\ docs[n] = [key |-> coll.order[n], doc |-> coll.records[coll.order[n]]]
           /\ docs[n].key = coll.order[n]
  BY <1>0, <1>2, DocsListed
<1>6. \A n \in 1 .. len : coll.order[n] = k <=> n = at
  BY <1>2, <1>3 DEF OrderListsRecords
<1>7. \A n \in 1 .. Len(docs) : docs[n].key = k <=> n = at
  BY <1>5, <1>6
<1>8. docs \in Seq(Ideal!Entries) /\ at \in 1 .. Len(docs)
  BY <1>3, <1>5
<1>9. PICK left : left = Ideal!Drop(docs, k)
  OBVIOUS
<1>10. /\ left \in Seq(Ideal!Entries) /\ Len(left) = len - 1
       /\ \A n \in 1 .. len - 1 : left[n] = IF n < at THEN docs[n] ELSE docs[n + 1]
  <2>1. /\ Ideal!Drop(docs, k) \in Seq(Ideal!Entries)
        /\ Len(Ideal!Drop(docs, k)) = Len(docs) - 1
        /\ \A n \in 1 .. Len(docs) - 1 :
             Ideal!Drop(docs, k)[n] = IF n < at THEN docs[n] ELSE docs[n + 1]
    BY <1>7, <1>8, DropsOne
  <2> QED
    BY <1>5, <1>9, <2>1
<1>11. DocsOf(new) = [n \in 1 .. len - 1 |->
                        [key |-> new.order[n], doc |-> new.records[new.order[n]]]]
  BY <1>4 DEF DocsOf
<1>12. ASSUME NEW n \in 1 .. len - 1
       PROVE  left[n] = [key |-> new.order[n], doc |-> new.records[new.order[n]]]
  <2> PICK m : m = IF n < at THEN n ELSE n + 1
    OBVIOUS
  <2>1. m \in 1 .. len /\ m # at
    BY <1>3
  <2>2. left[n] = docs[m] /\ new.order[n] = coll.order[m]
    BY <1>4, <1>10
  <2>3. coll.order[m] # k /\ coll.order[m] \in Keys
    BY <1>5, <1>6, <2>1
  <2>4. new.records[coll.order[m]] = coll.records[coll.order[m]]
    BY <1>1, <1>2, <2>3
  <2> QED
    BY <1>5, <2>1, <2>2, <2>4
<1>13. left = [n \in 1 .. len - 1 |-> left[n]]
  BY <1>10
<1> QED
  BY <1>0, <1>9, <1>11, <1>12, <1>13 DEF new

(* A query finds the documents the condition accepts, in order. *)
LEMMA FindMatches ==
  ASSUME NEW coll \in CollectionType, Consistent(coll), NEW call \in FindCalls
  PROVE  Ideal!Answer(DocsOf(coll), call) = FindDocs(coll, call.condition, call.ceiling)
<1> PICK docs : docs = DocsOf(coll)
  OBVIOUS
<1> DEFINE chosen == {k \in Keys : coll.records[k] \in call.condition}
           taken == {e \in Ideal!Entries : e.doc \in call.condition}
<1>1. /\ OrderListsRecords(coll) /\ coll.order \in Seq(Keys)
  BY DEF Consistent, CollectionType
<1>2. /\ docs \in Seq(Ideal!Entries) /\ Len(docs) = Len(coll.order)
      /\ \A n \in 1 .. Len(coll.order) :
           /\ coll.order[n] \in Keys
           /\ docs[n].key = coll.order[n]
           /\ docs[n].doc = coll.records[coll.order[n]]
  BY <1>1, DocsListed
<1>3. ASSUME NEW n \in 1 .. Len(coll.order)
      PROVE  docs[n].key = coll.order[n] /\ (coll.order[n] \in chosen <=> docs[n] \in taken)
  <2>1. docs[n] \in Ideal!Entries
    BY <1>2
  <2> QED
    BY <1>2, <2>1
<1>4. /\ FindDocs(coll, call.condition, call.ceiling) =
           IF Len(coll.order) > call.ceiling.candidates THEN <<"CANDIDATE_LIMIT">>
           ELSE IF Len(Picked(coll.order, chosen)) > call.ceiling.results
           THEN <<"RESULT_LIMIT">> ELSE Picked(coll.order, chosen)
      /\ Ideal!Picked(docs, taken) = Picked(docs, taken)
  BY SamePicked DEF FindDocs
<1>5. Ideal!Answer(docs, call) =
        IF Len(docs) > call.ceiling.candidates THEN <<"CANDIDATE_LIMIT">>
        ELSE IF Len(Ideal!Picked(docs, taken)) > call.ceiling.results
        THEN <<"RESULT_LIMIT">>
        ELSE [n \in 1 .. Len(Ideal!Picked(docs, taken)) |-> Ideal!Picked(docs, taken)[n].key]
  <2>1. call.kind = "find"
    BY DEF FindCalls
  <2> QED
    BY <2>1 DEF Ideal!Answer
<1> HIDE DEF chosen, taken
<1>6. Picked(coll.order, chosen) =
        [n \in 1 .. Len(Picked(docs, taken)) |-> Picked(docs, taken)[n].key]
  <2>0. PICK order, A, B, T : /\ order = coll.order /\ A = chosen /\ B = taken
                              /\ T = Ideal!Entries
    OBVIOUS
  <2>1. order \in Seq(Keys) /\ docs \in Seq(T) /\ Len(docs) = Len(order)
    BY <1>1, <1>2, <2>0
  <2>2. \A n \in 1 .. Len(order) :
          docs[n].key = order[n] /\ (order[n] \in A <=> docs[n] \in B)
    BY <1>3, <2>0
  <2>3. Picked(order, A) = [n \in 1 .. Len(Picked(docs, B)) |-> Picked(docs, B)[n].key]
    BY <2>1, <2>2, PickedTogether
  <2> QED
    BY <2>0, <2>3
<1>7. Len(Picked(coll.order, chosen)) = Len(Picked(docs, taken))
  <2>1. PICK T : T = Ideal!Entries
    OBVIOUS
  <2>2. Picked(docs, taken) \in Seq(T)
    <3>1. docs \in Seq(T) /\ Len(docs) \in 0 .. Len(docs)
      BY <1>2, <2>1
    <3>2. PICK p \in [0 .. Len(docs) -> Seq(T)] : PickTrace(p, docs, taken)
      BY <3>1, PickedTrace
    <3> QED
      BY <3>1, <3>2 DEF PickTrace
  <2> QED
    BY <1>6, <2>2
<1> QED
  BY <1>2, <1>4, <1>5, <1>6, <1>7

(* The verdict on a write, kind by kind *)
LEMMA Verdicts ==
  ASSUME NEW docs, NEW call
  PROVE  LET before == Ideal!Lookup(docs, call.key)
             Filing(d) == IF d \notin ValidDocs THEN "invalid"
                          ELSE IF call.kind = "insert" /\ before # Absent THEN "duplicateKey"
                          ELSE IF ~Ideal!Admissible(docs, call.key, d) THEN "indexRefused"
                          ELSE "ok"
         IN  /\ call \in InsertCalls \cup UpsertCalls =>
                  Ideal!WriteVerdict(docs, call) = Filing(call.doc)
             /\ call \in UpdateCalls =>
                  Ideal!WriteVerdict(docs, call) =
                    IF before = Absent THEN "notFound" ELSE Filing(PatchOf[before, call.patch])
             /\ call \in DeleteCalls =>
                  Ideal!WriteVerdict(docs, call) =
                    IF before = Absent THEN "notFound" ELSE "ok"
<1>1. /\ call \in InsertCalls => call.kind = "insert"
      /\ call \in UpsertCalls => call.kind = "upsert"
      /\ call \in UpdateCalls => call.kind = "update"
      /\ call \in DeleteCalls => call.kind = "delete"
  BY DEF InsertCalls, UpsertCalls, UpdateCalls, DeleteCalls
<1> QED
  BY <1>1 DEF Ideal!WriteVerdict

(* What a write leaves, kind by kind *)
LEMMA Aftermath ==
  ASSUME NEW docs, NEW call
  PROVE  /\ call \in WriteCalls /\ Ideal!WriteVerdict(docs, call) # "ok" =>
              Ideal!After(docs, call) = docs
         /\ Ideal!WriteVerdict(docs, call) = "ok" =>
              /\ call \in InsertCalls \cup UpsertCalls =>
                   Ideal!After(docs, call) = Ideal!Put(docs, call.key, call.doc)
              /\ call \in UpdateCalls =>
                   Ideal!After(docs, call) =
                     Ideal!Put(docs, call.key, PatchOf[Ideal!Lookup(docs, call.key), call.patch])
              /\ call \in DeleteCalls => Ideal!After(docs, call) = Ideal!Drop(docs, call.key)
         /\ call \in GetCalls \cup FindCalls => Ideal!After(docs, call) = docs
         /\ call \in WriteCalls => Ideal!Answer(docs, call) = Ideal!WriteVerdict(docs, call)
         /\ call \in GetCalls => Ideal!Answer(docs, call) = Ideal!Lookup(docs, call.key)
BY DEF Ideal!After, Ideal!Answer, WriteCalls, InsertCalls, UpsertCalls, UpdateCalls,
       DeleteCalls, GetCalls, FindCalls

LEMMA WritesMatch ==
  ASSUME NEW coll \in CollectionType, Consistent(coll), NEW call \in WriteCalls
  PROVE  /\ Ideal!WriteVerdict(DocsOf(coll), call) = WriteOutcome(coll, call).result
         /\ Ideal!After(DocsOf(coll), call) = DocsOf(WriteOutcome(coll, call).coll)
<1>0. PICK docs : docs = DocsOf(coll)
  OBVIOUS
<1> PICK k \in Keys : k = call.key
  BY DEF WriteCalls, InsertCalls, UpsertCalls, UpdateCalls, DeleteCalls
<1>1. Ideal!Lookup(docs, k) = coll.records[k] /\ coll.records[k] \in Docs \cup {Absent}
  BY <1>0, LookupFinds DEF Consistent, CollectionType
<1>2. CASE call \in InsertCalls
  <2>1. WriteOutcome(coll, call) = InsertDoc(coll, k, call.doc) /\ call.doc \in Docs
        /\ call.kind = "insert"
    BY <1>2 DEF WriteOutcome, InsertCalls
  <2>2. Ideal!WriteVerdict(docs, call) =
          IF call.doc \notin ValidDocs THEN "invalid"
          ELSE IF Has(coll, k) THEN "duplicateKey"
          ELSE IF ~Ideal!Admissible(docs, k, call.doc) THEN "indexRefused" ELSE "ok"
    BY <1>1, <1>2, <2>1, Verdicts DEF Has
  <2>3. Ideal!After(docs, call) = IF Ideal!WriteVerdict(docs, call) # "ok" THEN docs
                                  ELSE Ideal!Put(docs, k, call.doc)
    BY <1>2, Aftermath DEF WriteCalls
  <2>4. ~Has(coll, k) =>
          IF Ideal!Admissible(docs, k, call.doc)
          THEN /\ InsertNew(coll, k, call.doc).result = "ok"
               /\ DocsOf(InsertNew(coll, k, call.doc).coll) = Ideal!Put(docs, k, call.doc)
          ELSE /\ InsertNew(coll, k, call.doc).result = "indexRefused"
               /\ DocsOf(InsertNew(coll, k, call.doc).coll) = docs
    BY <1>0, <2>1, InsertNewMatches
  <2> QED
    BY <1>0, <2>1, <2>2, <2>3, <2>4 DEF InsertDoc, Refused
<1>3. CASE call \in UpsertCalls
  <2>1. WriteOutcome(coll, call) = UpsertDoc(coll, k, call.doc) /\ call.doc \in Docs
        /\ call.kind # "insert"
    BY <1>3 DEF WriteOutcome, UpsertCalls
  <2>2. Ideal!WriteVerdict(docs, call) =
          IF call.doc \notin ValidDocs THEN "invalid"
          ELSE IF ~Ideal!Admissible(docs, k, call.doc) THEN "indexRefused" ELSE "ok"
    BY <1>3, <2>1, Verdicts
  <2>3. Ideal!After(docs, call) = IF Ideal!WriteVerdict(docs, call) # "ok" THEN docs
                                  ELSE Ideal!Put(docs, k, call.doc)
    BY <1>3, Aftermath DEF WriteCalls
  <2>4. ~Has(coll, k) =>
          IF Ideal!Admissible(docs, k, call.doc)
          THEN /\ InsertNew(coll, k, call.doc).result = "ok"
               /\ DocsOf(InsertNew(coll, k, call.doc).coll) = Ideal!Put(docs, k, call.doc)
          ELSE /\ InsertNew(coll, k, call.doc).result = "indexRefused"
               /\ DocsOf(InsertNew(coll, k, call.doc).coll) = docs
    BY <1>0, <2>1, InsertNewMatches
  <2>5. Has(coll, k) =>
          IF Ideal!Admissible(docs, k, call.doc)
          THEN /\ Replace(coll, k, call.doc).result = "ok"
               /\ DocsOf(Replace(coll, k, call.doc).coll) = Ideal!Put(docs, k, call.doc)
          ELSE /\ Replace(coll, k, call.doc).result = "indexRefused"
               /\ DocsOf(Replace(coll, k, call.doc).coll) = docs
    BY <1>0, <2>1, ReplaceMatches
  <2> QED
    BY <1>0, <2>1, <2>2, <2>3, <2>4, <2>5 DEF UpsertDoc, Refused
<1>4. CASE call \in UpdateCalls
  <2>1. WriteOutcome(coll, call) = UpdateDoc(coll, k, call.patch) /\ call.kind # "insert"
    BY <1>4 DEF WriteOutcome, UpdateCalls
  <2>2. PICK after : after = PatchOf[coll.records[k], call.patch]
    OBVIOUS
  <2>3. Ideal!WriteVerdict(docs, call) =
          IF ~Has(coll, k) THEN "notFound"
          ELSE IF after \notin ValidDocs THEN "invalid"
          ELSE IF ~Ideal!Admissible(docs, k, after) THEN "indexRefused" ELSE "ok"
    BY <1>1, <1>4, <2>1, <2>2, Verdicts DEF Has
  <2>4. Ideal!After(docs, call) = IF Ideal!WriteVerdict(docs, call) # "ok" THEN docs
                                  ELSE Ideal!Put(docs, k, after)
    <3>1. after = PatchOf[Ideal!Lookup(docs, k), call.patch]
      BY <1>1, <2>2
    <3>2. Ideal!WriteVerdict(docs, call) = "ok" => Ideal!After(docs, call) = Ideal!Put(docs, k, after)
      BY <1>4, <3>1, Aftermath, Zenon
    <3>3. Ideal!WriteVerdict(docs, call) # "ok" => Ideal!After(docs, call) = docs
      BY <1>4, Aftermath DEF WriteCalls
    <3> QED
      BY <3>2, <3>3
  <2>5. after \in ValidDocs /\ Has(coll, k) =>
          IF Ideal!Admissible(docs, k, after)
          THEN /\ Replace(coll, k, after).result = "ok"
               /\ DocsOf(Replace(coll, k, after).coll) = Ideal!Put(docs, k, after)
          ELSE /\ Replace(coll, k, after).result = "indexRefused"
               /\ DocsOf(Replace(coll, k, after).coll) = docs
    BY <1>0, ReplaceMatches, CollectionAssumption
  <2>6. UpdateDoc(coll, k, call.patch) =
          IF ~Has(coll, k) THEN Refused(coll, "notFound")
          ELSE IF after \notin ValidDocs THEN Refused(coll, "invalid")
          ELSE Replace(coll, k, after)
    BY <2>2 DEF UpdateDoc
  <2> QED
    BY <1>0, <2>1, <2>3, <2>4, <2>5, <2>6 DEF Refused
<1>5. CASE call \in DeleteCalls
  <2>1. WriteOutcome(coll, call) = DeleteDoc(coll, k)
    BY <1>5 DEF WriteOutcome, DeleteCalls
  <2>2. Ideal!WriteVerdict(docs, call) = IF ~Has(coll, k) THEN "notFound" ELSE "ok"
    BY <1>1, <1>5, Verdicts DEF Has
  <2>3. Ideal!After(docs, call) = IF Has(coll, k) THEN Ideal!Drop(docs, k) ELSE docs
    BY <1>5, <2>2, Aftermath DEF WriteCalls
  <2>4. CASE Has(coll, k)
    <3>1. DocsOf(DeleteDoc(coll, k).coll) = Ideal!Drop(docs, k)
      BY <1>0, <2>4, DeleteMatches
    <3>2. DeleteDoc(coll, k).result = "ok"
      BY <2>4 DEF DeleteDoc
    <3> QED
      BY <1>0, <2>1, <2>2, <2>3, <2>4, <3>1, <3>2
  <2>5. CASE ~Has(coll, k)
    BY <1>0, <2>1, <2>2, <2>3, <2>5 DEF DeleteDoc, Refused
  <2> QED
    BY <2>4, <2>5
<1> QED
  BY <1>0, <1>2, <1>3, <1>4, <1>5 DEF WriteCalls

(* Every call answers what it would answer on the sequence, and leaves what *)
(* it would leave.                                                         *)
LEMMA CallsMatch ==
  ASSUME NEW coll \in CollectionType, Consistent(coll), NEW call \in Calls
  PROVE  /\ MatchesSerialDocs(coll, call)
         /\ call \in GetCalls \cup FindCalls =>
              /\ Ideal!Answer(DocsOf(coll), call) = LookAnswer(coll, call)
              /\ Ideal!After(DocsOf(coll), call) = DocsOf(coll)
         /\ call \in WriteCalls =>
              /\ Ideal!Answer(DocsOf(coll), call) = WriteOutcome(coll, call).result
              /\ Ideal!After(DocsOf(coll), call) = DocsOf(WriteOutcome(coll, call).coll)
<1>1. CASE call \in GetCalls
  <2>1. call.kind = "get" /\ call.key \in Keys
    BY <1>1 DEF GetCalls
  <2>2. Ideal!Answer(DocsOf(coll), call) = LookAnswer(coll, call)
    BY <1>1, <2>1, Aftermath, LookupFinds DEF LookAnswer, Consistent
  <2> QED
    BY <1>1, <2>1, <2>2, Aftermath
    DEF MatchesSerialDocs, WriteCalls, InsertCalls, UpsertCalls, UpdateCalls, DeleteCalls
<1>2. CASE call \in FindCalls
  <2>1. call.kind = "find"
    BY <1>2 DEF FindCalls
  <2>2. Ideal!Answer(DocsOf(coll), call) = LookAnswer(coll, call)
    BY <1>2, <2>1, FindMatches DEF LookAnswer
  <2> QED
    BY <1>2, <2>1, <2>2, Aftermath
    DEF MatchesSerialDocs, WriteCalls, InsertCalls, UpsertCalls, UpdateCalls, DeleteCalls
<1>3. CASE call \in WriteCalls
  <2>1. call.kind \notin {"get", "find"}
    BY <1>3 DEF WriteCalls, InsertCalls, UpsertCalls, UpdateCalls, DeleteCalls
  <2>2. /\ Ideal!Answer(DocsOf(coll), call) = WriteOutcome(coll, call).result
        /\ Ideal!After(DocsOf(coll), call) = DocsOf(WriteOutcome(coll, call).coll)
    BY <1>3, WritesMatch, Aftermath
  <2> QED
    BY <1>3, <2>1, <2>2 DEF MatchesSerialDocs, GetCalls, FindCalls
<1> QED
  BY <1>1, <1>2, <1>3 DEF Calls

-----------------------------------------------------------------------------
(* What the rest of the engine relies on about one call *)

(* An accepted write tells the document it replaced and the one it put;    *)
(* a refused one leaves the documents and their order.                     *)
TellsAll(coll, write) ==
  IF write.result = "ok"
  THEN /\ write.change.key \in Keys
       /\ coll.records[write.change.key] = write.change.before
       /\ write.coll.records = [coll.records EXCEPT ![write.change.key] = write.change.after]
  ELSE write.coll.records = coll.records /\ write.coll.order = coll.order

LEMMA WriteTells ==
  ASSUME NEW coll \in CollectionType, NEW call \in WriteCalls
  PROVE  TellsAll(coll, WriteOutcome(coll, call))
<1> PICK k \in Keys : k = call.key
  BY DEF WriteCalls, InsertCalls, UpsertCalls, UpdateCalls, DeleteCalls
<1>1. ASSUME NEW why \in {"invalid", "duplicateKey", "notFound"}
      PROVE  TellsAll(coll, Refused(coll, why))
  BY DEF TellsAll, Refused
<1>2. ASSUME NEW d, ~Has(coll, k) PROVE TellsAll(coll, InsertNew(coll, k, d))
  BY <1>2 DEF TellsAll, InsertNew, Refused, Has
<1>3. ASSUME NEW d PROVE TellsAll(coll, Replace(coll, k, d))
  <2> PICK removed : removed = RemoveFromIndexes(coll.buckets, k, coll.records[k])
    OBVIOUS
  <2>1. CASE ~CanAddToIndexes(removed, k, d)
    <3>1. /\ Replace(coll, k, d).coll =
               [coll EXCEPT !.buckets = AddToIndexes(removed, k, coll.records[k])]
          /\ Replace(coll, k, d).result = "indexRefused"
      BY <2>1 DEF Replace, Refused
    <3> QED
      BY <3>1 DEF TellsAll, CollectionType
  <2>2. CASE CanAddToIndexes(removed, k, d)
    <3>1. /\ Replace(coll, k, d).coll =
               [coll EXCEPT !.records[k] = d, !.buckets = AddToIndexes(removed, k, d)]
          /\ Replace(coll, k, d).change.key = k
          /\ Replace(coll, k, d).change.before = coll.records[k]
          /\ Replace(coll, k, d).change.after = d
          /\ Replace(coll, k, d).result = "ok"
      BY <2>2 DEF Replace
    <3>2. Replace(coll, k, d).coll.records = [coll.records EXCEPT ![k] = d]
      BY <3>1 DEF CollectionType
    <3> QED
      BY <3>1, <3>2 DEF TellsAll
  <2> QED
    BY <2>1, <2>2
<1>4. CASE call \in InsertCalls
  <2>1. WriteOutcome(coll, call) = InsertDoc(coll, k, call.doc)
    BY <1>4 DEF WriteOutcome, InsertCalls
  <2> QED
    BY <1>1, <1>2, <2>1 DEF InsertDoc
<1>5. CASE call \in UpsertCalls
  <2>1. WriteOutcome(coll, call) = UpsertDoc(coll, k, call.doc)
    BY <1>5 DEF WriteOutcome, UpsertCalls
  <2> QED
    BY <1>1, <1>2, <1>3, <2>1 DEF UpsertDoc
<1>6. CASE call \in UpdateCalls
  <2>1. WriteOutcome(coll, call) = UpdateDoc(coll, k, call.patch)
    BY <1>6 DEF WriteOutcome, UpdateCalls
  <2> PICK after : after = PatchOf[coll.records[k], call.patch]
    OBVIOUS
  <2>2. UpdateDoc(coll, k, call.patch) =
          IF ~Has(coll, k) THEN Refused(coll, "notFound")
          ELSE IF after \notin ValidDocs THEN Refused(coll, "invalid")
          ELSE Replace(coll, k, after)
    BY DEF UpdateDoc
  <2> QED
    BY <1>1, <1>3, <2>1, <2>2
<1>7. CASE call \in DeleteCalls
  <2>1. WriteOutcome(coll, call) = DeleteDoc(coll, k)
    BY <1>7 DEF WriteOutcome, DeleteCalls
  <2>2. Has(coll, k) => TellsAll(coll, DeleteDoc(coll, k))
    BY DEF TellsAll, DeleteDoc
  <2>3. ~Has(coll, k) => TellsAll(coll, DeleteDoc(coll, k))
    BY <1>1 DEF DeleteDoc
  <2> QED
    BY <2>1, <2>2, <2>3
<1> QED
  BY <1>4, <1>5, <1>6, <1>7 DEF WriteCalls

(* A call answers what its kind may answer. *)
LEMMA AnswersTyped ==
  ASSUME NEW coll \in CollectionType, Consistent(coll)
  PROVE  /\ \A call \in GetCalls \cup FindCalls : LookAnswer(coll, call) \in Answers(call)
         /\ \A call \in WriteCalls : WriteOutcome(coll, call).result \in Answers(call)
<1>1. ASSUME NEW call \in GetCalls PROVE LookAnswer(coll, call) \in Answers(call)
  BY DEF GetCalls, LookAnswer, Answers, CollectionType
<1>2. ASSUME NEW call \in FindCalls PROVE LookAnswer(coll, call) \in Answers(call)
  <2>1. call.kind = "find"
    BY DEF FindCalls
  <2>2. PICK found : found = Picked(coll.order, {k \in Keys : coll.records[k] \in call.condition})
    OBVIOUS
  <2>3. /\ found \in Seq(Keys)
        /\ \A m, n \in 1 .. Len(found) : found[m] = found[n] => m = n
    <3>1. PICK order, chosen : /\ order = coll.order
                               /\ chosen = {k \in Keys : coll.records[k] \in call.condition}
      OBVIOUS
    <3>2. order \in Seq(Keys) /\ \A i, j \in 1 .. Len(order) : order[i] = order[j] => i = j
      BY <3>1 DEF CollectionType, Consistent, OrderListsRecords
    <3>3. found = Picked(order, chosen)
      BY <2>2, <3>1
    <3> QED
      BY <3>2, <3>3, PickedDistinct
  <2>4. LookAnswer(coll, call) \in {found} \cup TooMany
    BY <2>1, <2>2 DEF LookAnswer, FindDocs, TooMany
  <2>5. {found} \cup TooMany \subseteq Answers(call)
    BY <2>1, <2>3 DEF Answers
  <2> QED
    BY <2>4, <2>5
<1>3. ASSUME NEW call \in WriteCalls PROVE WriteOutcome(coll, call).result \in Answers(call)
  <2>1. Answers(call) = Refusals \cup {"ok"}
    BY DEF Answers, WriteCalls, InsertCalls, UpsertCalls, UpdateCalls, DeleteCalls
  <2>2. Ideal!WriteVerdict(DocsOf(coll), call) \in Refusals \cup {"ok"}
    BY DEF Ideal!WriteVerdict, Refusals
  <2> QED
    BY <2>1, <2>2, WritesMatch
<1> QED
  BY <1>1, <1>2, <1>3

(* A call on any documents leaves documents. *)
LEMMA AfterTyped ==
  ASSUME NEW docs \in Seq(Ideal!Entries), NEW call \in Calls
  PROVE  Ideal!After(docs, call) \in Seq(Ideal!Entries)
<1>1. ASSUME NEW k \in Keys, NEW d \in Docs PROVE Ideal!Put(docs, k, d) \in Seq(Ideal!Entries)
  <2>1. [key |-> k, doc |-> d] \in Ideal!Entries
    BY DEF Ideal!Entries
  <2>2. PICK E, e : E = Ideal!Entries /\ e = [key |-> k, doc |-> d]
    OBVIOUS
  <2>3. docs \in Seq(E) /\ e \in E
    BY <2>1, <2>2
  <2>4. /\ Append(docs, e) \in Seq(E)
        /\ [n \in 1 .. Len(docs) |-> IF docs[n].key = k THEN e ELSE docs[n]] \in Seq(E)
    BY <2>3
  <2> QED
    BY <2>2, <2>4 DEF Ideal!Put
<1>2. ASSUME NEW k PROVE Ideal!Drop(docs, k) \in Seq(Ideal!Entries)
  <2>1. PICK E, chosen : E = Ideal!Entries /\ chosen = {e \in Ideal!Entries : e.key # k}
    OBVIOUS
  <2>2. docs \in Seq(E) /\ Len(docs) \in Nat
    BY <2>1
  <2>3. PICK p \in [0 .. Len(docs) -> Seq(E)] : PickTrace(p, docs, chosen)
    BY <2>2, PickedTrace
  <2>4. Picked(docs, chosen) \in Seq(E)
    BY <2>2, <2>3 DEF PickTrace
  <2> QED
    BY <2>1, <2>4, SamePicked DEF Ideal!Drop
<1>3. CASE call \in GetCalls \cup FindCalls
  BY <1>3, Aftermath
<1>4. CASE call \in WriteCalls
  <2>1. CASE Ideal!WriteVerdict(docs, call) # "ok"
    BY <1>4, <2>1, Aftermath
  <2>2. CASE Ideal!WriteVerdict(docs, call) = "ok"
    <3>1. call.key \in Keys
      BY <1>4 DEF WriteCalls, InsertCalls, UpsertCalls, UpdateCalls, DeleteCalls
    <3>2. CASE call \in InsertCalls \cup UpsertCalls
      <4>1. call.doc \in Docs
        BY <3>2 DEF InsertCalls, UpsertCalls
      <4> QED
        BY <1>1, <2>2, <3>1, <3>2, <4>1, Aftermath
    <3>3. CASE call \in UpdateCalls
      <4>1. PICK after : after = PatchOf[Ideal!Lookup(docs, call.key), call.patch]
        OBVIOUS
      <4>2. after \in ValidDocs
        <5>1. Ideal!WriteVerdict(docs, call) \in {"notFound", "invalid"} \/ after \in ValidDocs
          BY <3>3, <4>1, Verdicts, Zenon
        <5> QED
          BY <2>2, <5>1
      <4>3. Ideal!After(docs, call) = Ideal!Put(docs, call.key, after)
        BY <2>2, <3>3, <4>1, Aftermath, Zenon
      <4> QED
        BY <1>1, <3>1, <4>2, <4>3, CollectionAssumption
    <3>4. CASE call \in DeleteCalls
      BY <1>2, <2>2, <3>4, Aftermath
    <3> QED
      BY <1>4, <3>2, <3>3, <3>4 DEF WriteCalls
  <2> QED
    BY <2>1, <2>2
<1> QED
  BY <1>3, <1>4 DEF Calls

(* A collection created from documents lists those documents. *)
LEMMA CreatedDocs ==
  ASSUME NEW docs \in Seq([key : Keys, doc : Docs]), Loadable(docs)
  PROVE  DocsOf(CreateCollection(docs)) = docs
<1> DEFINE coll == CreateCollection(docs)
           Places(k) == {n \in 1 .. Len(docs) : docs[n].key = k}
           Place(k) == CHOOSE n \in Places(k) : TRUE
<1>1. /\ coll.order = [n \in 1 .. Len(docs) |-> docs[n].key]
      /\ coll.records = [k \in Keys |-> IF Places(k) = {} THEN Absent ELSE docs[Place(k)].doc]
  BY DEF CreateCollection
<1>2. Len(docs) \in Nat /\ \A n \in 1 .. Len(docs) : docs[n] \in [key : Keys, doc : Docs]
  <2>1. PICK E : E = [key : Keys, doc : Docs]
    OBVIOUS
  <2>2. docs \in Seq(E)
    BY <2>1
  <2>3. Len(docs) \in Nat /\ \A n \in 1 .. Len(docs) : docs[n] \in E
    BY <2>2
  <2> QED
    BY <2>1, <2>3
<1>3. \A m, n \in 1 .. Len(docs) : m # n => docs[m].key # docs[n].key
  BY DEF Loadable
<1>4. ASSUME NEW n \in 1 .. Len(docs)
      PROVE  docs[n] = [key |-> coll.order[n], doc |-> coll.records[coll.order[n]]]
  <2>1. coll.order[n] = docs[n].key /\ docs[n].key \in Keys
    BY <1>1, <1>2
  <2>2. Places(docs[n].key) = {n}
    BY <1>3
  <2>3. Place(docs[n].key) = n
    BY <2>2
  <2> HIDE DEF coll, Places, Place
  <2>4. coll.records[docs[n].key] = docs[n].doc
    BY <1>1, <2>1, <2>2, <2>3
  <2> QED
    BY <1>2, <2>1, <2>4
<1> HIDE DEF coll
<1>5. Len(coll.order) = Len(docs)
  BY <1>1, <1>2
<1>6. docs = [n \in 1 .. Len(docs) |-> docs[n]]
  BY <1>2
<1> QED
  BY <1>4, <1>5, <1>6 DEF DocsOf, coll

-----------------------------------------------------------------------------
(* Revisions only grow, and a working copy is taken no earlier than the    *)
(* transaction first touched the collection.                               *)
RevisionsGrow ==
  /\ \A c \in Collections : collRevision[c] <= revision
  /\ \A t \in Txns, c \in Collections :
       /\ base[t][c] <= collRevision[c]
       /\ working[t][c] # NoCopy =>
            /\ base[t][c] # Untouched
            /\ base[t][c] <= working[t][c].baseRevision
            /\ working[t][c].baseRevision <= collRevision[c]

TransactionInv ==
  /\ TypeOK
  /\ RootConsistent
  /\ CopiesConsistent
  /\ RevisionsGrow

-----------------------------------------------------------------------------
(* The copy a write works on is a consistent collection taken no earlier   *)
(* than the first touch.                                                   *)
LEMMA WritableSound ==
  ASSUME TransactionInv, NEW t \in Txns, NEW c \in Collections
  PROVE  /\ Writable(t, c) \in WorkingType
         /\ Consistent(Writable(t, c).coll)
         /\ Writable(t, c).baseRevision <= collRevision[c]
         /\ base[t][c] # Untouched => base[t][c] <= Writable(t, c).baseRevision
<1>1. /\ stored[c] \in CollectionType /\ collRevision[c] \in Nat
      /\ working[t][c] \in WorkingType \cup {NoCopy}
      /\ base[t][c] \in Nat \cup {Untouched}
  BY DEF TransactionInv, TypeOK
<1>2. CASE working[t][c] = NoCopy
  BY <1>1, <1>2 DEF Writable, WorkingType, TransactionInv, RootConsistent, RevisionsGrow
<1>3. CASE working[t][c] # NoCopy
  BY <1>1, <1>3 DEF Writable, TransactionInv, CopiesConsistent, RevisionsGrow
<1> QED
  BY <1>2, <1>3

(* What a transaction sees of a collection is always a consistent collection *)
LEMMA ViewSound ==
  ASSUME TransactionInv, NEW t \in Txns, NEW c \in Collections
  PROVE  View(t, c) \in CollectionType /\ Consistent(View(t, c))
BY DEF View, TransactionInv, TypeOK, WorkingType, RootConsistent, CopiesConsistent

(* The first touch records the present revision, later ones nothing. *)
LEMMA TouchSound ==
  ASSUME TransactionInv, NEW t \in Txns, NEW c \in Collections, Touch(t, c)
  PROVE  /\ base' \in [Txns -> [Collections -> Nat \cup {Untouched}]]
         /\ base'[t][c] # Untouched
         /\ base[t][c] # Untouched => base'[t][c] = base[t][c]
         /\ base[t][c] = Untouched => base'[t][c] = collRevision[c]
         /\ \A u \in Txns, d \in Collections :
              u # t \/ d # c => base'[u][d] = base[u][d]
<1>1. /\ base \in [Txns -> [Collections -> Nat \cup {Untouched}]]
      /\ collRevision[c] \in Nat
  BY DEF TransactionInv, TypeOK
<1>2. CASE c \in Touched(t)
  BY <1>1, <1>2 DEF Touch, Touched
<1>3. CASE c \notin Touched(t)
  <2>1. base' = [base EXCEPT ![t][c] = collRevision[c]] /\ base[t][c] = Untouched
    BY <1>3 DEF Touch, Touched
  <2>2. base'[t][c] = collRevision[c]
    BY <1>1, <2>1
  <2> QED
    BY <1>1, <2>1, <2>2 DEF Untouched
<1> QED
  BY <1>2, <1>3

(* A transaction that ends leaves nothing behind that could break. *)
LEMMA EndSound ==
  ASSUME TypeOK, NEW t \in Txns, NEW how \in {"committed", "rolledBack"}, End(t, how)
  PROVE  /\ status' \in [Txns -> {"unborn", "active", "committed", "rolledBack"}]
         /\ expired' \in [Txns -> BOOLEAN]
         /\ operations' \in [Txns -> 0 .. MaxOperations + 1]
         /\ base' \in [Txns -> [Collections -> Nat \cup {Untouched}]]
         /\ working' \in [Txns -> [Collections -> WorkingType \cup {NoCopy}]]
         /\ changes' \in [Txns -> Seq([coll : Collections, change : ChangeType])]
         /\ \A u \in Txns, c \in Collections :
              \/ u = t /\ base'[u][c] = Untouched /\ working'[u][c] = NoCopy
              \/ base'[u][c] = base[u][c] /\ working'[u][c] = working[u][c]
<1>1. 0 \in 0 .. MaxOperations + 1
  BY TransactionsAssumption
<1>2. /\ status' \in [Txns -> {"unborn", "active", "committed", "rolledBack"}]
      /\ expired' \in [Txns -> BOOLEAN]
      /\ operations' \in [Txns -> 0 .. MaxOperations + 1]
  BY <1>1 DEF End, TypeOK
<1>3. /\ base' \in [Txns -> [Collections -> Nat \cup {Untouched}]]
      /\ working' \in [Txns -> [Collections -> WorkingType \cup {NoCopy}]]
      /\ \A u \in Txns, c \in Collections :
              \/ u = t /\ base'[u][c] = Untouched /\ working'[u][c] = NoCopy
              \/ base'[u][c] = base[u][c] /\ working'[u][c] = working[u][c]
  BY DEF End, TypeOK, Untold, NoCopies
<1>4. changes' \in [Txns -> Seq([coll : Collections, change : ChangeType])]
  <2> DEFINE Lists == Seq([coll : Collections, change : ChangeType])
  <2>1. <<>> \in Lists
    OBVIOUS
  <2>2. changes \in [Txns -> Lists] /\ changes' = [changes EXCEPT ![t] = <<>>]
    BY DEF End, TypeOK
  <2> HIDE DEF Lists
  <2>3. changes' \in [Txns -> Lists]
    BY <2>1, <2>2
  <2> QED BY <2>3 DEF Lists
<1> QED
  BY <1>2, <1>3, <1>4

(* Ending a transaction without publishing keeps the invariant. *)
LEMMA EndKeeps ==
  ASSUME TransactionInv, NEW t \in Txns, NEW how \in {"committed", "rolledBack"},
         End(t, how), UNCHANGED <<root, accepting>>
  PROVE  TransactionInv'
<1>1. /\ UNCHANGED stored /\ UNCHANGED collRevision
      /\ UNCHANGED revision /\ UNCHANGED accepting
  BY DEF root
<1>2. TypeOK
  BY DEF TransactionInv
<1>3. /\ status' \in [Txns -> {"unborn", "active", "committed", "rolledBack"}]
      /\ expired' \in [Txns -> BOOLEAN]
      /\ operations' \in [Txns -> 0 .. MaxOperations + 1]
      /\ base' \in [Txns -> [Collections -> Nat \cup {Untouched}]]
      /\ working' \in [Txns -> [Collections -> WorkingType \cup {NoCopy}]]
      /\ changes' \in [Txns -> Seq([coll : Collections, change : ChangeType])]
  BY <1>2, EndSound
<1>4. \A u \in Txns, c \in Collections :
         \/ u = t /\ base'[u][c] = Untouched /\ working'[u][c] = NoCopy
         \/ base'[u][c] = base[u][c] /\ working'[u][c] = working[u][c]
  BY <1>2, EndSound
<1>5. TypeOK'
  BY <1>1, <1>2, <1>3 DEF TypeOK
<1>6. RootConsistent' /\ CopiesConsistent'
  BY <1>1, <1>4 DEF TransactionInv, RootConsistent, CopiesConsistent
<1>7. RevisionsGrow'
  BY <1>1, <1>2, <1>4 DEF TransactionInv, RevisionsGrow, TypeOK, Untouched
<1> QED
  BY <1>5, <1>6, <1>7 DEF TransactionInv

-----------------------------------------------------------------------------
(* Loading accepted documents establishes the invariant. *)
LEMMA InitSound == Init => TransactionInv
<1> SUFFICES ASSUME Init PROVE TransactionInv
  OBVIOUS
<1>1. PICK seed \in [Collections -> Seeds] :
        stored = [c \in Collections |-> CreateCollection(seed[c])]
  BY DEF Init
<1>2. ASSUME NEW c \in Collections
      PROVE  stored[c] \in CollectionType /\ Consistent(stored[c])
  <2>1. seed[c] \in Seq([key : Keys, doc : Docs]) /\ Loadable(seed[c])
    BY <1>1, TransactionsAssumption
  <2> QED BY <1>1, <2>1, CreateCollectionConsistent
<1>3. 0 \in 0 .. MaxOperations + 1
  BY TransactionsAssumption
<1>4. <<>> \in Seq([coll : Collections, change : ChangeType])
  OBVIOUS
<1>5. stored \in [Collections -> CollectionType]
  BY <1>1, <1>2
<1>6. TypeOK
  BY <1>3, <1>4, <1>5 DEF Init, TypeOK, Untold, NoCopies
<1>7. RootConsistent
  BY <1>2 DEF RootConsistent
<1>8. CopiesConsistent
  BY DEF Init, CopiesConsistent, NoCopies
<1>9. RevisionsGrow
  BY DEF Init, RevisionsGrow, Untold, NoCopies, Untouched
<1> QED
  BY <1>6, <1>7, <1>8, <1>9 DEF TransactionInv

(* Reading records a touch and nothing else. *)
LEMMA LookKeeps ==
  ASSUME TransactionInv, NEW t \in Txns, NEW c \in Collections, Look(t, c)
  PROVE  TransactionInv'
<1>1. /\ UNCHANGED stored /\ UNCHANGED collRevision
      /\ UNCHANGED revision /\ UNCHANGED accepting /\ UNCHANGED status
      /\ UNCHANGED expired /\ UNCHANGED operations
      /\ UNCHANGED working /\ UNCHANGED changes
  BY DEF Look, root
<1>2. Touch(t, c)
  BY DEF Look
<1>3. /\ base' \in [Txns -> [Collections -> Nat \cup {Untouched}]]
      /\ base'[t][c] # Untouched
      /\ base[t][c] # Untouched => base'[t][c] = base[t][c]
      /\ base[t][c] = Untouched => base'[t][c] = collRevision[c]
      /\ \A u \in Txns, d \in Collections :
           u # t \/ d # c => base'[u][d] = base[u][d]
  BY <1>2, TouchSound
<1>4. TypeOK'
  BY <1>1, <1>3 DEF TransactionInv, TypeOK
<1>5. RootConsistent' /\ CopiesConsistent'
  BY <1>1 DEF TransactionInv, RootConsistent, CopiesConsistent
<1>6. RevisionsGrow'
  <2>1. collRevision[c] \in Nat
    BY DEF TransactionInv, TypeOK
  <2> QED
    BY <1>1, <1>3, <2>1 DEF TransactionInv, RevisionsGrow
<1> QED
  BY <1>4, <1>5, <1>6 DEF TransactionInv

(* A write leaves a consistent working copy, accepted or refused. *)
LEMMA WriteKeeps ==
  ASSUME TransactionInv, NEW t \in Txns, NEW call \in WriteCalls, Write(t, call)
  PROVE  TransactionInv'
<1> DEFINE c     == call.coll
           copy  == Writable(t, c)
           write == WriteOutcome(copy.coll, call)
<1>1. c \in Collections
  BY DEF WriteCalls, InsertCalls, UpsertCalls, UpdateCalls, DeleteCalls
<1>2. /\ copy \in WorkingType
      /\ Consistent(copy.coll)
      /\ copy.baseRevision <= collRevision[c]
      /\ base[t][c] # Untouched => base[t][c] <= copy.baseRevision
      /\ base[t][c] = Untouched => copy.baseRevision = collRevision[c]
  <2>1. base[t][c] = Untouched => working[t][c] = NoCopy
    BY <1>1 DEF TransactionInv, RevisionsGrow
  <2> QED BY <1>1, <2>1, WritableSound DEF Writable
<1>3. copy.coll \in CollectionType /\ copy.baseRevision \in Nat
  BY <1>2 DEF WorkingType
<1>4. WriteTyped(write) /\ Consistent(write.coll)
  <2> HIDE DEF copy
  <2> QED BY <1>2, <1>3, WriteOutcomeTyped, WriteOutcomeConsistent DEF Consistent
<1>5. [copy EXCEPT !.coll = write.coll]
        = [coll |-> write.coll, baseRevision |-> copy.baseRevision]
  <2> HIDE DEF copy, write
  <2> QED BY <1>2 DEF WorkingType
<1>6. /\ UNCHANGED stored /\ UNCHANGED collRevision
      /\ UNCHANGED revision /\ UNCHANGED accepting /\ UNCHANGED status
      /\ UNCHANGED expired
      /\ operations[t] < MaxOperations
      /\ operations' = [operations EXCEPT ![t] = @ + 1]
      /\ working' = [working EXCEPT ![t][c] =
                       [coll |-> write.coll, baseRevision |-> copy.baseRevision]]
      /\ changes' = IF write.result # "ok" THEN changes
                    ELSE [changes EXCEPT ![t] =
                            Append(@, [coll |-> c, change |-> write.change])]
  BY <1>5 DEF Write, root
<1>7. /\ base' \in [Txns -> [Collections -> Nat \cup {Untouched}]]
      /\ base'[t][c] # Untouched
      /\ base[t][c] # Untouched => base'[t][c] = base[t][c]
      /\ base[t][c] = Untouched => base'[t][c] = collRevision[c]
      /\ \A u \in Txns, d \in Collections :
           u # t \/ d # c => base'[u][d] = base[u][d]
  <2>1. Touch(t, c)
    BY DEF Write
  <2> HIDE DEF c
  <2> QED BY <1>1, <2>1, TouchSound
<1> HIDE DEF c, copy, write
<1> DEFINE made == [coll |-> write.coll, baseRevision |-> copy.baseRevision]
<1>8. made \in WorkingType /\ made # NoCopy
  BY <1>3, <1>4, TransactionsAssumption DEF WriteTyped, WorkingType
<1>9. /\ working \in [Txns -> [Collections -> WorkingType \cup {NoCopy}]]
      /\ working' = [working EXCEPT ![t][c] = made]
  BY <1>6 DEF TransactionInv, TypeOK
<1>10. made.coll = write.coll /\ made.baseRevision = copy.baseRevision
  OBVIOUS
<1> HIDE DEF made
<1>11. /\ working' \in [Txns -> [Collections -> WorkingType \cup {NoCopy}]]
       /\ working'[t][c] = made
       /\ \A u \in Txns, d \in Collections :
            u # t \/ d # c => working'[u][d] = working[u][d]
  BY <1>1, <1>8, <1>9
<1>12. operations' \in [Txns -> 0 .. MaxOperations + 1]
  BY <1>6, TransactionsAssumption DEF TransactionInv, TypeOK
<1>13. changes' \in [Txns -> Seq([coll : Collections, change : ChangeType])]
  <2> DEFINE Entries == [coll : Collections, change : ChangeType]
             entry   == [coll |-> c, change |-> write.change]
  <2>1. changes \in [Txns -> Seq(Entries)]
    BY DEF TransactionInv, TypeOK
  <2>2. write.result = "ok" => entry \in Entries
    BY <1>1, <1>4 DEF WriteTyped
  <2>3. changes' = IF write.result # "ok" THEN changes
                   ELSE [changes EXCEPT ![t] = Append(@, entry)]
    BY <1>6
  <2> HIDE DEF Entries, entry
  <2>4. changes' \in [Txns -> Seq(Entries)]
    BY <2>1, <2>2, <2>3
  <2> QED BY <2>4 DEF Entries
<1>14. TypeOK'
  BY <1>6, <1>7, <1>11, <1>12, <1>13 DEF TransactionInv, TypeOK
<1>15. RootConsistent'
  BY <1>6 DEF TransactionInv, RootConsistent
<1>16. CopiesConsistent'
  BY <1>4, <1>10, <1>11 DEF TransactionInv, CopiesConsistent
<1>17. RevisionsGrow'
  <2>1. ASSUME NEW u \in Txns, NEW d \in Collections
        PROVE  /\ base'[u][d] <= collRevision'[d]
               /\ working'[u][d] # NoCopy =>
                    /\ base'[u][d] # Untouched
                    /\ base'[u][d] <= working'[u][d].baseRevision
                    /\ working'[u][d].baseRevision <= collRevision'[d]
    <3>1. CASE u = t /\ d = c
      <4>1. collRevision[c] \in Nat
        BY <1>1 DEF TransactionInv, TypeOK
      <4>2. base[t][c] <= collRevision[c]
        BY <1>1 DEF TransactionInv, RevisionsGrow
      <4> QED BY <3>1, <4>1, <4>2, <1>2, <1>6, <1>7, <1>10, <1>11
    <3>2. CASE u # t \/ d # c
      BY SMTT(30), <3>2, <1>6, <1>7, <1>11 DEF TransactionInv, RevisionsGrow
    <3> QED BY <3>1, <3>2
  <2>2. \A d \in Collections : collRevision'[d] <= revision'
    BY <1>6 DEF TransactionInv, RevisionsGrow
  <2> QED BY <2>1, <2>2 DEF RevisionsGrow
<1> QED
  BY <1>14, <1>15, <1>16, <1>17 DEF TransactionInv

(* A publication replaces the root by consistent copies under a revision    *)
(* above every other.                                                       *)
LEMMA PublishKeeps ==
  ASSUME TransactionInv, NEW t \in Txns, Publish(t)
  PROVE  TransactionInv'
<1>1. TypeOK
  BY DEF TransactionInv
<1>2. /\ stored' = [c \in Collections |-> View(t, c)]
      /\ collRevision' = [c \in Collections |->
            IF working[t][c] = NoCopy THEN collRevision[c] ELSE revision + 1]
      /\ revision' = revision + 1
      /\ UNCHANGED accepting
      /\ End(t, "committed")
  BY DEF Publish
<1>3. /\ status' \in [Txns -> {"unborn", "active", "committed", "rolledBack"}]
      /\ expired' \in [Txns -> BOOLEAN]
      /\ operations' \in [Txns -> 0 .. MaxOperations + 1]
      /\ base' \in [Txns -> [Collections -> Nat \cup {Untouched}]]
      /\ working' \in [Txns -> [Collections -> WorkingType \cup {NoCopy}]]
      /\ changes' \in [Txns -> Seq([coll : Collections, change : ChangeType])]
  BY <1>1, <1>2, EndSound
<1>4. \A u \in Txns, c \in Collections :
         \/ u = t /\ base'[u][c] = Untouched /\ working'[u][c] = NoCopy
         \/ base'[u][c] = base[u][c] /\ working'[u][c] = working[u][c]
  BY <1>1, <1>2, EndSound
<1>5. \A c \in Collections : View(t, c) \in CollectionType /\ Consistent(View(t, c))
  BY ViewSound
<1>6. /\ revision \in Nat /\ collRevision \in [Collections -> Nat]
      /\ \A c \in Collections : collRevision[c] <= revision
  BY <1>1 DEF TypeOK, TransactionInv, RevisionsGrow
<1>7. \A c \in Collections : /\ collRevision[c] <= collRevision'[c]
                            /\ collRevision'[c] <= revision'
                            /\ collRevision'[c] \in Nat
  BY <1>2, <1>6
<1>8. TypeOK'
  <2>1. stored' \in [Collections -> CollectionType]
    BY <1>2, <1>5
  <2>2. collRevision' \in [Collections -> Nat] /\ revision' \in Nat
    BY <1>2, <1>6
  <2> QED BY <1>1, <1>2, <1>3, <2>1, <2>2 DEF TypeOK
<1>9. RootConsistent'
  BY <1>2, <1>5 DEF RootConsistent
<1>10. CopiesConsistent'
  BY <1>4 DEF TransactionInv, CopiesConsistent
<1>11. RevisionsGrow'
  <2>1. ASSUME NEW u \in Txns, NEW d \in Collections
        PROVE  /\ base'[u][d] <= collRevision'[d]
               /\ working'[u][d] # NoCopy =>
                    /\ base'[u][d] # Untouched
                    /\ base'[u][d] <= working'[u][d].baseRevision
                    /\ working'[u][d].baseRevision <= collRevision'[d]
    <3>1. /\ base[u][d] \in Nat \cup {Untouched}
          /\ collRevision[d] \in Nat
          /\ working[u][d] # NoCopy => working[u][d].baseRevision \in Nat
      BY <1>1 DEF TypeOK, WorkingType
    <3>2. /\ base[u][d] <= collRevision[d]
          /\ working[u][d] # NoCopy =>
               /\ base[u][d] # Untouched
               /\ base[u][d] <= working[u][d].baseRevision
               /\ working[u][d].baseRevision <= collRevision[d]
      BY DEF TransactionInv, RevisionsGrow
    <3>3. CASE u = t /\ base'[u][d] = Untouched /\ working'[u][d] = NoCopy
      BY <3>3, <1>7 DEF Untouched
    <3>4. CASE base'[u][d] = base[u][d] /\ working'[u][d] = working[u][d]
      BY <3>1, <3>2, <3>4, <1>7 DEF Untouched
    <3> QED BY <1>4, <3>3, <3>4
  <2> QED BY <1>7, <2>1 DEF RevisionsGrow
<1> QED
  BY <1>8, <1>9, <1>10, <1>11 DEF TransactionInv

(* No step of the engine breaks the invariant. *)
LEMMA NextSound == TransactionInv /\ [Next]_vars => TransactionInv'
<1> SUFFICES ASSUME TransactionInv, [Next]_vars PROVE TransactionInv'
  OBVIOUS
<1>1. ASSUME NEW t \in Txns, BeginTransaction(t)
      PROVE  TransactionInv'
  BY <1>1 DEF BeginTransaction, root, private, TransactionInv, TypeOK,
              RootConsistent, CopiesConsistent, RevisionsGrow
<1>2. ASSUME NEW t \in Txns, NEW call \in GetCalls \cup FindCalls, Look(t, call.coll)
      PROVE  TransactionInv'
  <2>1. call.coll \in Collections
    BY DEF GetCalls, FindCalls
  <2> QED BY <1>2, <2>1, LookKeeps
<1>3. ASSUME NEW t \in Txns, NEW call \in WriteCalls, Write(t, call)
      PROVE  TransactionInv'
  BY <1>3, WriteKeeps
<1>4. ASSUME NEW t \in Txns, ExceedLimit(t)
      PROVE  TransactionInv'
  <2>1. operations' \in [Txns -> 0 .. MaxOperations + 1]
    BY <1>4, TransactionsAssumption DEF ExceedLimit, TransactionInv, TypeOK
  <2> QED
    BY <1>4, <2>1 DEF ExceedLimit, root, TransactionInv, TypeOK,
                      RootConsistent, CopiesConsistent, RevisionsGrow
<1>5. ASSUME NEW t \in Txns, Expire(t)
      PROVE  TransactionInv'
  BY <1>5 DEF Expire, root, private, TransactionInv, TypeOK,
              RootConsistent, CopiesConsistent, RevisionsGrow
<1>6. ASSUME NEW t \in Txns, Rollback(t) \/ RefuseCommit(t) \/ CommitUnchanged(t)
      PROVE  TransactionInv'
  <2>1. \E how \in {"committed", "rolledBack"} :
          End(t, how) /\ UNCHANGED <<root, accepting>>
    BY <1>6 DEF Rollback, RefuseCommit, CommitUnchanged
  <2> QED BY <2>1, EndKeeps
<1>7. ASSUME NEW t \in Txns, Publish(t)
      PROVE  TransactionInv'
  BY <1>7, PublishKeeps
<1>8. CASE ChangeLifecycle \/ UNCHANGED vars
  BY <1>8 DEF ChangeLifecycle, vars, root, private, TransactionInv, TypeOK,
              RootConsistent, CopiesConsistent, RevisionsGrow
<1> QED
  BY <1>1, <1>2, <1>3, <1>4, <1>5, <1>6, <1>7, <1>8 DEF Next, Get, Find

(* The invariant holds in every state of every behaviour. *)
THEOREM InvariantHolds == Spec => []TransactionInv
BY InitSound, NextSound, PTL DEF Spec

-----------------------------------------------------------------------------
(* The fields keep their types: in particular order stays a list of keys    *)
(* and a change list never holds an entry of a refused write.               *)
THEOREM TypeCorrect == Spec => []TypeOK
<1>1. TransactionInv => TypeOK
  BY DEF TransactionInv
<1> QED
  BY <1>1, InvariantHolds, PTL

(* assertCollectionInvariant never fires on the published root, whatever    *)
(* transactions interleave and whichever writes were refused on the way.    *)
THEOREM RootStaysConsistent == Spec => []RootConsistent
<1>1. TransactionInv => RootConsistent
  BY DEF TransactionInv
<1> QED
  BY <1>1, InvariantHolds, PTL

(* Every working copy is consistent at every step. *)
THEOREM CopiesStayConsistent == Spec => []CopiesConsistent
<1>1. TransactionInv => CopiesConsistent
  BY DEF TransactionInv
<1> QED
  BY <1>1, InvariantHolds, PTL

(* A copy that would pass the revision check of commit was taken from the   *)
(* very revision it replaces, so publishing overwrites no other commit.     *)
THEOREM NoUpdateIsLost == Spec => []NoLostUpdate
<1>1. TransactionInv => NoLostUpdate
  <2> SUFFICES ASSUME TransactionInv, NEW t \in Txns, NEW c \in Collections,
                      working[t][c] # NoCopy
               PROVE  /\ c \in Touched(t)
                      /\ c \notin Conflicts(t) =>
                           working[t][c].baseRevision = collRevision[c]
    BY DEF NoLostUpdate
  <2>1. /\ working[t][c].baseRevision \in Nat
        /\ collRevision[c] \in Nat
        /\ base[t][c] \in Nat \cup {Untouched}
    BY DEF TransactionInv, TypeOK, WorkingType
  <2>2. /\ base[t][c] # Untouched
        /\ base[t][c] <= working[t][c].baseRevision
        /\ working[t][c].baseRevision <= collRevision[c]
    BY DEF TransactionInv, RevisionsGrow
  <2> QED
    BY <2>1, <2>2 DEF Touched, Conflicts
<1> QED
  BY <1>1, InvariantHolds, PTL

-----------------------------------------------------------------------------
(* Every call a transaction could make answers what the plain sequence of  *)
(* documents would answer, and leaves what it would leave, whatever other  *)
(* transactions do and whatever was refused before.                        *)
THEOREM CallsStaySerial == Spec => []CallsMatchSerialDocs
<1>1. TransactionInv => CallsMatchSerialDocs
  <2> SUFFICES ASSUME TransactionInv, NEW t \in Txns, NEW call \in Calls
               PROVE  MatchesSerialDocs(View(t, call.coll), call)
    BY DEF CallsMatchSerialDocs
  <2>1. call.coll \in Collections
    BY DEF Calls, GetCalls, FindCalls, WriteCalls, InsertCalls, UpsertCalls,
           UpdateCalls, DeleteCalls
  <2>2. PICK coll : coll = View(t, call.coll)
    OBVIOUS
  <2>3. coll \in CollectionType /\ Consistent(coll)
    BY <2>1, <2>2, ViewSound
  <2>4. MatchesSerialDocs(coll, call)
    BY <2>3, CallsMatch
  <2> QED
    BY <2>2, <2>4
<1> QED
  BY <1>1, InvariantHolds, PTL

-----------------------------------------------------------------------------
(* A change list tells everything.  The argument: as long as the revision  *)
(* check would let a transaction commit, replaying its list over the root  *)
(* gives what it sees; what it never touched it has no entry about.        *)

Records == [Keys -> Docs \cup {Absent}]
Lists   == Seq([coll : Collections, change : ChangeType])

ReplayOn(records, c, e) ==
  IF e.coll = c /\ records[e.change.key] = e.change.before
  THEN [records EXCEPT ![e.change.key] = e.change.after] ELSE records

Replays(c, list) == [i \in 1 .. Len(list) |-> [r \in Records |-> ReplayOn(r, c, list[i])]]

(* Replaying passes through the entries one by one. *)
LEMMA ReplayTrace ==
  ASSUME NEW records \in Records, NEW c, NEW list \in Lists
  PROVE  /\ Replays(c, list) \in [1 .. Len(list) -> [Records -> Records]]
         /\ Traced(Records, Len(list), Replays(c, list), records, Replayed(records, c, list))
<1> DEFINE m == Len(list)
           st == Replays(c, list)
           f == CHOOSE h : h = [s \in SUBSET (1 .. m) |->
                  IF s = {} THEN records
                  ELSE IF /\ list[Max(s)].coll = c
                          /\ h[s \ {Max(s)}][list[Max(s)].change.key] = list[Max(s)].change.before
                       THEN [h[s \ {Max(s)}] EXCEPT
                               ![list[Max(s)].change.key] = list[Max(s)].change.after]
                       ELSE h[s \ {Max(s)}]]
<1>1. /\ m \in Nat /\ DOMAIN list = 1 .. m
      /\ \A i \in 1 .. m : list[i] \in [coll : Collections, change : ChangeType]
  <2>1. PICK E : E = [coll : Collections, change : ChangeType]
    OBVIOUS
  <2>2. list \in Seq(E)
    BY <2>1 DEF Lists
  <2>3. m \in Nat /\ DOMAIN list = 1 .. m /\ \A i \in 1 .. m : list[i] \in E
    BY <2>2
  <2> QED
    BY <2>1, <2>3
<1>2. Replayed(records, c, list) = f[1 .. m]
  BY <1>1 DEF Replayed, FoldLeft, MapThenFoldSet
<1>3. st \in [1 .. m -> [Records -> Records]]
  <2>1. ASSUME NEW i \in 1 .. m, NEW r \in Records PROVE ReplayOn(r, c, list[i]) \in Records
    BY <1>1 DEF ReplayOn, Records, ChangeType
  <2> QED
    BY <2>1 DEF Replays
<1>4. \A i \in 1 .. m, r \in Records : st[i][r] = ReplayOn(r, c, list[i])
  BY DEF Replays
<1> HIDE DEF st, m
<1>5. PICK g \in [SUBSET (1 .. m) -> Records] : Folds(g, m, st, records)
  BY <1>1, <1>3, FoldsExist DEF CanFold
<1>6. ASSUME NEW s \in SUBSET (1 .. m)
      PROVE  g[s] = IF s = {} THEN records ELSE ReplayOn(g[s \ {Max(s)}], c, list[Max(s)])
  <2>1. CASE s = {}
    BY <1>5, <2>1 DEF Folds
  <2>2. CASE s # {}
    <3>1. Max(s) \in 1 .. m /\ s \ {Max(s)} \in SUBSET (1 .. m)
      BY <1>1, <2>2, MaxBounds
    <3>2. g[s \ {Max(s)}] \in Records
      BY <3>1
    <3>3. g[s] = st[Max(s)][g[s \ {Max(s)}]]
      BY <1>5, <2>2 DEF Folds
    <3> QED
      BY <1>4, <2>2, <3>1, <3>2, <3>3
  <2> QED
    BY <2>1, <2>2
<1>7. f = [s \in SUBSET (1 .. m) |->
             IF s = {} THEN records ELSE ReplayOn(f[s \ {Max(s)}], c, list[Max(s)])]
  <2>1. g = [s \in SUBSET (1 .. m) |->
               IF s = {} THEN records ELSE ReplayOn(g[s \ {Max(s)}], c, list[Max(s)])]
    BY <1>6
  <2> QED
    BY <2>1 DEF ReplayOn
<1> HIDE DEF f
<1>8. f[1 .. m] = g[1 .. m]
  <2>1. {} \in SUBSET (1 .. m)
    OBVIOUS
  <2>2. f[{}] = g[{}]
    BY <1>6, <1>7, <2>1
  <2>3. ASSUME NEW s \in SUBSET (1 .. m), s # {}, f[s \ {Max(s)}] = g[s \ {Max(s)}]
        PROVE  f[s] = g[s]
    BY <1>6, <1>7, <2>3
  <2> QED
    BY <1>1, <2>2, <2>3, SameFolds
<1>9. m \in Nat
  BY <1>1
<1>10. g \in [SUBSET (1 .. m) -> Records] /\ Folds(g, m, st, records)
  BY <1>5
<1>11. Traced(Records, m, st, records, g[1 .. m])
  BY <1>9, <1>3, <1>10, FoldTrace
<1> QED
  BY <1>2, <1>3, <1>8, <1>11 DEF st, m

(* Entries about other collections change nothing. *)
LEMMA ReplayedElsewhere ==
  ASSUME NEW records \in Records, NEW c, NEW list \in Lists,
         \A n \in 1 .. Len(list) : list[n].coll # c
  PROVE  Replayed(records, c, list) = records
<1> DEFINE m == Len(list)
<1>1. m \in Nat
  BY DEF Lists
<1>2. PICK p \in [0 .. m -> Records] :
        Trace(p, m, Replays(c, list), records) /\ p[m] = Replayed(records, c, list)
  BY ReplayTrace DEF Traced
<1> DEFINE Good == {i \in Nat : i <= m => p[i] = records}
<1>3. 0 \in Good
  BY <1>2 DEF Trace
<1>4. ASSUME NEW i \in Nat, i \in Good PROVE i + 1 \in Good
  <2> SUFFICES ASSUME i + 1 <= m PROVE p[i + 1] = records
    OBVIOUS
  <2>1. p[i] = records
    BY <1>4
  <2> HIDE DEF Good
  <2>2. i + 1 \in 1 .. m /\ (i + 1) - 1 = i
    OBVIOUS
  <2>3. p[i + 1] = Replays(c, list)[i + 1][p[i]]
    BY <1>2, <2>2 DEF Trace
  <2>4. Replays(c, list)[i + 1][records] = records
    BY <2>2 DEF Replays, ReplayOn
  <2> QED
    BY <2>1, <2>3, <2>4
<1> HIDE DEF Good
<1>5. m \in Good
  BY <1>1, <1>3, <1>4, SetInduction
<1> QED
  BY <1>1, <1>2, <1>5 DEF Good

(* One more entry is replayed after the others. *)
LEMMA ReplayedAppend ==
  ASSUME NEW records \in Records, NEW c, NEW list \in Lists,
         NEW e \in [coll : Collections, change : ChangeType]
  PROVE  /\ Append(list, e) \in Lists
         /\ Replayed(records, c, list) \in Records
         /\ Replayed(records, c, Append(list, e)) = ReplayOn(Replayed(records, c, list), c, e)
<1>0. PICK m \in Nat : m = Len(list)
  <2>1. Len(list) \in Nat
    BY DEF Lists
  <2> QED
    BY <2>1
<1>1. PICK longer :
        /\ longer = Append(list, e)
        /\ longer \in Lists /\ Len(longer) = m + 1 /\ longer[m + 1] = e
        /\ \A i \in 1 .. m : longer[i] = list[i]
  <2>1. PICK E : E = [coll : Collections, change : ChangeType]
    OBVIOUS
  <2>2. list \in Seq(E) /\ e \in E
    BY <2>1 DEF Lists
  <2>3. /\ Append(list, e) \in Seq(E) /\ Len(list) \in Nat
        /\ Len(Append(list, e)) = Len(list) + 1 /\ Append(list, e)[Len(list) + 1] = e
        /\ \A i \in 1 .. Len(list) : Append(list, e)[i] = list[i]
    BY <2>2
  <2> QED
    BY <1>0, <2>1, <2>3 DEF Lists
<1>2. PICK x, y : x = Replayed(records, c, list) /\ y = Replayed(records, c, longer)
  OBVIOUS
<1>3. /\ Traced(Records, m, Replays(c, list), records, x)
      /\ Traced(Records, m + 1, Replays(c, longer), records, y)
  BY <1>0, <1>1, <1>2, ReplayTrace
<1>4. x \in Records
  BY <1>3 DEF Traced
<1>5. \A i \in 1 .. m : Replays(c, list)[i] = Replays(c, longer)[i]
  BY <1>1 DEF Replays
<1>6. y = Replays(c, longer)[m + 1][x]
  BY <1>3, <1>5, TraceAppend
<1>7. Replays(c, longer)[m + 1][x] = ReplayOn(x, c, e)
  BY <1>1, <1>4 DEF Replays
<1> QED
  BY <1>1, <1>2, <1>4, <1>6, <1>7

(* A transaction has entries only about what it touched; where it is not in *)
(* conflict, its entries replayed over the root give what it sees, and      *)
(* without entries it sees the documents of the root in their order.        *)
ChangesSound(t) ==
  /\ \A n \in 1 .. Len(changes[t]) : changes[t][n].coll \in Touched(t)
  /\ \A c \in Collections \ Conflicts(t) :
       /\ Replayed(stored[c].records, c, changes[t]) = View(t, c).records
       /\ (\A n \in 1 .. Len(changes[t]) : changes[t][n].coll # c) =>
            /\ View(t, c).records = stored[c].records
            /\ View(t, c).order = stored[c].order

ChangesInv == TransactionInv /\ \A t \in Txns : ChangesSound(t)

(* The fields that matter for one collection *)
LEMMA FieldTypes ==
  ASSUME TransactionInv, NEW t \in Txns
  PROVE  /\ changes[t] \in Lists
         /\ \A c \in Collections :
              /\ stored[c].records \in Records
              /\ View(t, c).records \in Records
              /\ working[t][c] # NoCopy => c \in Touched(t)
              /\ collRevision[c] \in Nat /\ base[t][c] \in Nat \cup {Untouched}
              /\ base[t][c] <= collRevision[c] /\ collRevision[c] <= revision
              /\ revision \in Nat
<1>1. changes[t] \in Lists
  BY DEF TransactionInv, TypeOK, Lists
<1>2. ASSUME NEW c \in Collections
      PROVE  stored[c].records \in Records /\ View(t, c).records \in Records
  BY ViewSound DEF TransactionInv, TypeOK, CollectionType, Records
<1>3. ASSUME NEW c \in Collections
      PROVE  /\ working[t][c] # NoCopy => c \in Touched(t)
             /\ collRevision[c] \in Nat /\ base[t][c] \in Nat \cup {Untouched}
             /\ base[t][c] <= collRevision[c] /\ collRevision[c] <= revision
             /\ revision \in Nat
  BY DEF TransactionInv, TypeOK, RevisionsGrow, Touched
<1> QED
  BY <1>1, <1>2, <1>3

(* A transaction without touches, copies and entries *)
LEMMA FreshSound ==
  ASSUME TransactionInv, NEW t \in Txns,
         base[t] = Untold, working[t] = NoCopies, changes[t] = <<>>
  PROVE  ChangesSound(t)
<1>1. Len(changes[t]) = 0
  OBVIOUS
<1>2. ASSUME NEW c \in Collections
      PROVE  /\ View(t, c) = stored[c]
             /\ Replayed(stored[c].records, c, changes[t]) = stored[c].records
  <2>1. View(t, c) = stored[c]
    BY DEF View, NoCopies
  <2>2. PICK records, list : records = stored[c].records /\ list = changes[t]
    OBVIOUS
  <2>3. records \in Records /\ list \in Lists
    BY <2>2, FieldTypes
  <2>4. \A n \in 1 .. Len(list) : list[n].coll # c
    BY <1>1, <2>2
  <2>5. Replayed(records, c, list) = records
    BY <2>3, <2>4, ReplayedElsewhere
  <2> QED
    BY <2>1, <2>2, <2>5
<1> QED
  BY <1>1, <1>2 DEF ChangesSound

(* What others do keeps it: where the root moved under a transaction it is  *)
(* in conflict or has never looked.                                        *)
LEMMA OthersKeepSound ==
  ASSUME TransactionInv, TransactionInv', NEW t \in Txns, ChangesSound(t),
         base'[t] = base[t], working'[t] = working[t], changes'[t] = changes[t],
         \A c \in Collections :
           \/ stored'[c] = stored[c] /\ collRevision'[c] = collRevision[c]
           \/ collRevision'[c] = revision + 1
  PROVE  ChangesSound(t)'
<1>1. Touched(t)' = Touched(t)
  BY DEF Touched
<1>2. ASSUME NEW c \in Collections \ Conflicts(t)'
      PROVE  /\ (Replayed(stored[c].records, c, changes[t]) = View(t, c).records)'
             /\ (\A n \in 1 .. Len(changes[t]) : changes[t][n].coll # c)' =>
                  /\ (View(t, c).records = stored[c].records)'
                  /\ (View(t, c).order = stored[c].order)'
  <2>1. CASE c \in Touched(t)
    <3>1. base[t][c] = collRevision'[c]
      BY <1>1, <2>1 DEF Conflicts
    <3>2. stored'[c] = stored[c] /\ collRevision'[c] = collRevision[c]
      BY <2>1, <3>1, FieldTypes DEF Touched, Untouched
    <3>3. c \notin Conflicts(t)
      BY <3>1, <3>2 DEF Conflicts
    <3>4. View(t, c)' = View(t, c)
      BY <3>2 DEF View
    <3>5. Replayed(stored'[c].records, c, changes'[t]) = Replayed(stored[c].records, c, changes[t])
      BY <3>2
    <3> QED
      BY <3>2, <3>3, <3>4, <3>5 DEF ChangesSound
  <2>2. CASE c \notin Touched(t)
    <3>1. working'[t][c] = NoCopy
      BY <2>2, FieldTypes
    <3>2. View(t, c)' = stored'[c]
      BY <3>1 DEF View
    <3>3. PICK records, list : records = stored'[c].records /\ list = changes'[t]
      OBVIOUS
    <3>4. records \in Records
      BY <3>3 DEF TransactionInv, TypeOK, CollectionType, Records
    <3>5. list \in Lists /\ \A n \in 1 .. Len(list) : list[n].coll # c
      BY <2>2, <3>3, FieldTypes DEF ChangesSound
    <3>6. Replayed(records, c, list) = records
      BY <3>4, <3>5, ReplayedElsewhere
    <3> QED
      BY <3>2, <3>3, <3>6
  <2> QED
    BY <2>1, <2>2
<1>3. (\A n \in 1 .. Len(changes[t]) : changes[t][n].coll \in Touched(t))'
  BY <1>1 DEF ChangesSound
<1> QED
  BY <1>2, <1>3 DEF ChangesSound

(* A touch alone never makes or ends a conflict. *)
LEMMA TouchConflicts ==
  ASSUME TransactionInv, NEW t \in Txns, NEW c \in Collections, Touch(t, c),
         UNCHANGED collRevision
  PROVE  /\ Touched(t)' = Touched(t) \cup {c}
         /\ Conflicts(t)' = Conflicts(t)
<1>1. /\ base'[t][c] # Untouched
      /\ base[t][c] # Untouched => base'[t][c] = base[t][c]
      /\ base[t][c] = Untouched => base'[t][c] = collRevision[c]
      /\ \A d \in Collections : d # c => base'[t][d] = base[t][d]
  BY TouchSound
<1>2. Touched(t)' = Touched(t) \cup {c}
  BY <1>1 DEF Touched
<1>3. ASSUME NEW d \in Collections PROVE d \in Conflicts(t)' <=> d \in Conflicts(t)
  BY <1>1, <1>2, <1>3 DEF Conflicts, Touched
<1>4. Conflicts(t)' \subseteq Collections /\ Conflicts(t) \subseteq Collections
  BY DEF Conflicts, Touched
<1> QED
  BY <1>2, <1>3, <1>4

(* Looking adds a touch and nothing else. *)
LEMMA LookKeepsSound ==
  ASSUME ChangesInv, TransactionInv', NEW t \in Txns, NEW c \in Collections, Look(t, c),
         NEW u \in Txns
  PROVE  ChangesSound(u)'
<1>1. /\ TransactionInv /\ ChangesSound(u) /\ Touch(t, c)
      /\ stored' = stored /\ collRevision' = collRevision
      /\ working' = working /\ changes' = changes
  BY DEF ChangesInv, Look, root
<1>2. CASE u # t
  <2>1. base'[u] = base[u]
    BY <1>1, <1>2 DEF Touch, TransactionInv, TypeOK
  <2> QED
    BY <1>1, <2>1, OthersKeepSound
<1>3. CASE u = t
  <2>1. Touched(u)' = Touched(u) \cup {c} /\ Conflicts(u)' = Conflicts(u)
    BY <1>1, <1>3, TouchConflicts
  <2>2. \A d \in Collections : View(u, d)' = View(u, d)
    BY <1>1 DEF View
  <2> QED
    BY <1>1, <2>1, <2>2 DEF ChangesSound
<1> QED
  BY <1>2, <1>3

(* After a write the transaction sees what it wrote. *)
LEMMA WriteShows ==
  ASSUME TransactionInv, NEW t \in Txns, NEW c \in Collections, NEW write,
         write.coll \in CollectionType, UNCHANGED stored,
         working' = [working EXCEPT ![t][c] = [Writable(t, c) EXCEPT !.coll = write.coll]]
  PROVE  /\ View(t, c)' = write.coll
         /\ \A d \in Collections : d # c => View(t, d)' = View(t, d)
<1>1. Writable(t, c) \in WorkingType
  BY WritableSound
<1>2. PICK made : made = [Writable(t, c) EXCEPT !.coll = write.coll]
  OBVIOUS
<1>3. made.coll = write.coll /\ made \in WorkingType
  BY <1>1, <1>2 DEF WorkingType
<1>4. made # NoCopy
  BY <1>3, TransactionsAssumption DEF WorkingType
<1>5. /\ working'[t][c] = made
      /\ \A d \in Collections : d # c => working'[t][d] = working[t][d]
  BY <1>2 DEF TransactionInv, TypeOK
<1> QED
  BY <1>3, <1>4, <1>5 DEF View

(* A write adds its entry, which tells what it did to the copy. *)
LEMMA WriteKeepsSound ==
  ASSUME ChangesInv, TransactionInv', NEW t \in Txns, NEW call \in WriteCalls, Write(t, call),
         NEW u \in Txns
  PROVE  ChangesSound(u)'
<1> PICK c \in Collections : c = call.coll
  BY DEF WriteCalls, InsertCalls, UpsertCalls, UpdateCalls, DeleteCalls
<1>0. PICK seen, write : seen = View(t, c) /\ write = WriteOutcome(seen, call)
  OBVIOUS
<1>1. /\ TransactionInv /\ ChangesSound(u) /\ Touch(t, c)
      /\ stored' = stored /\ collRevision' = collRevision
  BY DEF ChangesInv, Write, root
<1>2. Writable(t, c).coll = seen
  BY <1>0 DEF Writable, View
<1>3. /\ working' = [working EXCEPT ![t][c] = [Writable(t, c) EXCEPT !.coll = write.coll]]
      /\ changes' = IF write.result # "ok" THEN changes
                    ELSE [changes EXCEPT ![t] = Append(@, [coll |-> c, change |-> write.change])]
  BY <1>0, <1>2 DEF Write
<1>4. CASE u # t
  <2>1. base'[u] = base[u]
    BY <1>1, <1>4 DEF Touch, TransactionInv, TypeOK
  <2>2. working'[u] = working[u] /\ changes'[u] = changes[u]
    BY <1>1, <1>3, <1>4 DEF TransactionInv, TypeOK
  <2> QED
    BY <1>1, <2>1, <2>2, OthersKeepSound
<1>5. CASE u = t
  <2>1. /\ Touched(t)' = Touched(t) \cup {c} /\ Conflicts(t)' = Conflicts(t)
        /\ ChangesSound(t)
    BY <1>1, <1>5, TouchConflicts
  <2>2. /\ seen \in CollectionType /\ Consistent(seen)
        /\ TellsAll(seen, write) /\ WriteTyped(write)
    BY <1>0, <1>1, ViewSound, WriteTells, WriteOutcomeTyped DEF Consistent
  <2>3. /\ View(t, c)' = write.coll
        /\ \A d \in Collections : d # c => View(t, d)' = View(t, d)
    BY <1>1, <1>3, <2>2, WriteShows DEF WriteTyped
  <2>4. changes[t] \in Lists /\ \A d \in Collections : stored[d].records \in Records
    BY <1>1, FieldTypes
  <2>5. CASE write.result # "ok"
    <3>1. changes'[t] = changes[t]
      BY <1>3, <2>5
    <3>2. write.coll.records = seen.records /\ write.coll.order = seen.order
      BY <2>2, <2>5 DEF TellsAll
    <3>3. \A d \in Collections : View(t, d)'.records = View(t, d).records
                                /\ View(t, d)'.order = View(t, d).order
      BY <1>0, <2>3, <3>2
    <3>4. (\A n \in 1 .. Len(changes[t]) : changes[t][n].coll \in Touched(t))'
      BY <2>1, <3>1 DEF ChangesSound
    <3>5. ASSUME NEW d \in Collections \ Conflicts(t)'
          PROVE  /\ (Replayed(stored[d].records, d, changes[t]) = View(t, d).records)'
                 /\ (\A n \in 1 .. Len(changes[t]) : changes[t][n].coll # d)' =>
                      /\ (View(t, d).records = stored[d].records)'
                      /\ (View(t, d).order = stored[d].order)'
      <4>1. Replayed(stored'[d].records, d, changes'[t]) = Replayed(stored[d].records, d, changes[t])
        BY <1>1, <3>1
      <4>2. d \in Collections \ Conflicts(t)
        BY <2>1
      <4> QED
        BY <1>1, <2>1, <3>1, <3>3, <4>1, <4>2 DEF ChangesSound
    <3> QED
      BY <1>5, <3>4, <3>5 DEF ChangesSound
  <2>6. CASE write.result = "ok"
    <3>1. PICK e : e = [coll |-> c, change |-> write.change]
      OBVIOUS
    <3>2. e \in [coll : Collections, change : ChangeType] /\ e.coll = c /\ e.change = write.change
      BY <2>2, <2>6, <3>1 DEF WriteTyped
    <3>3. changes'[t] = Append(changes[t], e)
      BY <1>1, <1>3, <2>6, <3>1 DEF TransactionInv, TypeOK
    <3>4. PICK m \in Nat :
            /\ m = Len(changes[t]) /\ Len(changes'[t]) = m + 1 /\ changes'[t][m + 1] = e
            /\ \A n \in 1 .. m : changes'[t][n] = changes[t][n]
      <4>1. PICK E, list : E = [coll : Collections, change : ChangeType] /\ list = changes[t]
        OBVIOUS
      <4>2. list \in Seq(E) /\ e \in E
        BY <2>4, <3>2, <4>1 DEF Lists
      <4>3. /\ Len(list) \in Nat /\ Len(Append(list, e)) = Len(list) + 1
            /\ Append(list, e)[Len(list) + 1] = e
            /\ \A n \in 1 .. Len(list) : Append(list, e)[n] = list[n]
        BY <4>2
      <4> QED
        BY <3>3, <4>1, <4>3
    <3>5. \A n \in 1 .. m + 1 : n \in 1 .. m \/ n = m + 1
      OBVIOUS
    <3>6. ASSUME NEW n \in 1 .. Len(changes'[t]) PROVE changes'[t][n].coll \in Touched(t)'
      BY <2>1, <3>2, <3>4, <3>5 DEF ChangesSound
    <3>7. ASSUME NEW d \in Collections \ Conflicts(t)'
          PROVE  /\ (Replayed(stored[d].records, d, changes[t]) = View(t, d).records)'
                 /\ (\A n \in 1 .. Len(changes[t]) : changes[t][n].coll # d)' =>
                      /\ (View(t, d).records = stored[d].records)'
                      /\ (View(t, d).order = stored[d].order)'
      <4>1. d \in Collections \ Conflicts(t)
        BY <2>1
      <4>2. PICK records, list : records = stored[d].records /\ list = changes[t]
        OBVIOUS
      <4>3. Replayed(records, d, Append(list, e)) = ReplayOn(Replayed(records, d, list), d, e)
        BY <2>4, <3>2, <4>2, ReplayedAppend
      <4>4. Replayed(records, d, list) = View(t, d).records
        BY <2>1, <4>1, <4>2 DEF ChangesSound
      <4>5. Replayed(stored'[d].records, d, changes'[t]) = Replayed(records, d, Append(list, e))
        BY <1>1, <3>3, <4>2
      <4>6. CASE d # c
        <5>1. ReplayOn(View(t, d).records, d, e) = View(t, d).records
          BY <3>2, <4>6 DEF ReplayOn
        <5>2. (\A n \in 1 .. Len(changes'[t]) : changes'[t][n].coll # d) =>
                (\A n \in 1 .. Len(changes[t]) : changes[t][n].coll # d)
          <6>1. \A n \in 1 .. m : n \in 1 .. m + 1
            OBVIOUS
          <6> QED
            BY <3>4, <6>1
        <5>3. (\A n \in 1 .. Len(changes[t]) : changes[t][n].coll # d) =>
                /\ View(t, d).records = stored[d].records
                /\ View(t, d).order = stored[d].order
          BY <2>1, <4>1 DEF ChangesSound
        <5> QED
          BY <1>1, <2>3, <4>3, <4>4, <4>5, <4>6, <5>1, <5>2, <5>3
      <4>7. CASE d = c
        <5>1. ReplayOn(seen.records, c, e) = write.coll.records
          BY <2>2, <2>6, <3>2 DEF ReplayOn, TellsAll
        <5>2. m + 1 \in 1 .. Len(changes'[t]) /\ changes'[t][m + 1].coll = d
          BY <3>2, <3>4, <4>7
        <5> QED
          BY <1>0, <2>3, <4>3, <4>4, <4>5, <4>7, <5>1, <5>2
      <4> QED
        BY <4>6, <4>7
    <3> QED
      BY <1>5, <3>6, <3>7 DEF ChangesSound
  <2> QED
    BY <2>5, <2>6
<1> QED
  BY <1>4, <1>5

(* Ending leaves nothing, and keeps the others. *)
LEMMA EndKeepsSound ==
  ASSUME ChangesInv, TransactionInv', NEW t \in Txns, NEW how, End(t, how),
         \A c \in Collections :
           \/ stored'[c] = stored[c] /\ collRevision'[c] = collRevision[c]
           \/ collRevision'[c] = revision + 1,
         NEW u \in Txns
  PROVE  ChangesSound(u)'
<1>1. TransactionInv /\ ChangesSound(u)
  BY DEF ChangesInv
<1>2. CASE u = t
  <2>1. base'[u] = Untold /\ working'[u] = NoCopies /\ changes'[u] = <<>>
    BY <1>1, <1>2 DEF End, TransactionInv, TypeOK
  <2>2. Len(changes'[u]) = 0
    BY <2>1
  <2>3. ASSUME NEW c \in Collections
        PROVE  /\ View(u, c)' = stored'[c]
               /\ Replayed(stored'[c].records, c, changes'[u]) = stored'[c].records
    <3>1. View(u, c)' = stored'[c]
      BY <2>1 DEF View, NoCopies
    <3>2. PICK records, list : records = stored'[c].records /\ list = changes'[u]
      OBVIOUS
    <3>3. records \in Records /\ list \in Lists
      BY <3>2 DEF TransactionInv, TypeOK, CollectionType, Records, Lists
    <3>4. \A n \in 1 .. Len(list) : list[n].coll # c
      BY <2>2, <3>2
    <3>5. Replayed(records, c, list) = records
      BY <3>3, <3>4, ReplayedElsewhere
    <3> QED
      BY <3>1, <3>2, <3>5
  <2> QED
    BY <2>2, <2>3 DEF ChangesSound
<1>3. CASE u # t
  <2>1. base'[u] = base[u] /\ working'[u] = working[u] /\ changes'[u] = changes[u]
    BY <1>1, <1>3 DEF End, TransactionInv, TypeOK
  <2> QED
    BY <1>1, <2>1, OthersKeepSound
<1> QED
  BY <1>2, <1>3

(* No step breaks it. *)
LEMMA ChangesStep == ChangesInv /\ [Next]_vars => ChangesInv'
<1> SUFFICES ASSUME ChangesInv, [Next]_vars PROVE ChangesInv'
  OBVIOUS
<1>1. TransactionInv /\ TransactionInv' /\ \A t \in Txns : ChangesSound(t)
  BY NextSound DEF ChangesInv
<1>2. ASSUME NEW u \in Txns PROVE ChangesSound(u)'
  <2>1. ASSUME NEW t \in Txns, NEW call \in GetCalls \cup FindCalls, Look(t, call.coll)
        PROVE  ChangesSound(u)'
    <3>1. call.coll \in Collections
      BY DEF GetCalls, FindCalls
    <3> QED
      BY <1>1, <2>1, <3>1, LookKeepsSound
  <2>2. ASSUME NEW t \in Txns, NEW call \in WriteCalls, Write(t, call)
        PROVE  ChangesSound(u)'
    BY <1>1, <2>2, WriteKeepsSound
  <2>3. ASSUME NEW t \in Txns, Rollback(t) \/ RefuseCommit(t) \/ CommitUnchanged(t)
        PROVE  ChangesSound(u)'
    <3>1. PICK how : End(t, how)
      BY <2>3 DEF Rollback, RefuseCommit, CommitUnchanged
    <3>2. stored' = stored /\ collRevision' = collRevision
      BY <2>3 DEF Rollback, RefuseCommit, CommitUnchanged, root
    <3> QED
      BY <1>1, <3>1, <3>2, EndKeepsSound
  <2>4. ASSUME NEW t \in Txns, Publish(t) PROVE ChangesSound(u)'
    <3>1. ASSUME NEW c \in Collections
          PROVE  \/ stored'[c] = stored[c] /\ collRevision'[c] = collRevision[c]
                 \/ collRevision'[c] = revision + 1
      BY <2>4 DEF Publish, View
    <3>2. End(t, "committed")
      BY <2>4 DEF Publish
    <3> QED
      BY <1>1, <3>1, <3>2, EndKeepsSound
  <2>5. ASSUME UNCHANGED <<stored, collRevision, base, working, changes>>
        PROVE  ChangesSound(u)'
    BY <1>1, <2>5, OthersKeepSound
  <2>6. ASSUME NEW t \in Txns, BeginTransaction(t) \/ ExceedLimit(t) \/ Expire(t)
        PROVE  ChangesSound(u)'
    BY <2>5, <2>6 DEF BeginTransaction, ExceedLimit, Expire, root, private
  <2>7. CASE ChangeLifecycle \/ UNCHANGED vars
    BY <2>5, <2>7 DEF ChangeLifecycle, vars, root, private
  <2> QED
    BY <2>1, <2>2, <2>3, <2>4, <2>6, <2>7 DEF Next, Get, Find
<1> QED
  BY <1>1, <1>2 DEF ChangesInv

LEMMA ChangesInit == Init => ChangesInv
<1> SUFFICES ASSUME Init PROVE ChangesInv
  OBVIOUS
<1>1. TransactionInv
  BY InitSound
<1>2. ASSUME NEW t \in Txns PROVE ChangesSound(t)
  <2>1. base[t] = Untold /\ working[t] = NoCopies /\ changes[t] = <<>>
    BY DEF Init
  <2> QED
    BY <1>1, <2>1, FreshSound
<1> QED
  BY <1>1, <1>2 DEF ChangesInv

(* The change list of a publication is the whole difference it makes:      *)
(* replayed over the documents it replaces, every before-image matching,   *)
(* it gives the new ones, and other collections keep documents and order.  *)
THEOREM ChangeListsTellAll == Spec => ChangesTellAll
<1>1. ChangesInv /\ [Next]_vars =>
        [\A t \in Txns : Publish(t) =>
           \A c \in Collections :
             /\ stored'[c].records = Replayed(stored[c].records, c, changes[t])
             /\ (\A n \in 1 .. Len(changes[t]) : changes[t][n].coll # c)
                  => stored'[c].order = stored[c].order]_vars
  <2> SUFFICES ASSUME ChangesInv, NEW t \in Txns, Publish(t), NEW c \in Collections
               PROVE  /\ stored'[c].records = Replayed(stored[c].records, c, changes[t])
                      /\ (\A n \in 1 .. Len(changes[t]) : changes[t][n].coll # c)
                           => stored'[c].order = stored[c].order
    OBVIOUS
  <2>1. stored'[c] = View(t, c) /\ Conflicts(t) = {}
    BY DEF Publish
  <2> QED
    BY <2>1 DEF ChangesInv, ChangesSound
<1> QED
  BY <1>1, ChangesInit, ChangesStep, PTL DEF Spec, ChangesTellAll
=============================================================================
