------------------------------ MODULE Schema ------------------------------
(***************************************************************************)
(* What the engine is told about the data it keeps: the collections, their *)
(* keys and documents, the schema of a collection, and the calls a         *)
(* transaction makes.  Every collection has the same schema here.          *)
(***************************************************************************)
EXTENDS Integers, Sequences, FiniteSets, SequencesExt

CONSTANTS
  Collections,    \* names of the collections
  Keys,           \* encoded primary keys
  Docs,           \* document contents
  ValidDocs,      \* the documents schema.validate accepts
  Patches,        \* patches given to update
  PatchOf,        \* PatchOf[d, p]: mergeDocument(d, p), or Invalid
  Indexes,        \* names of the secondary indexes
  UniqueIndexes,  \* those declared unique
  IndexKeys,      \* encoded index values
  IndexKeyOf,     \* IndexKeyOf[i][d]: where index i files document d
  Conditions,     \* the conditions of find: each the set of documents it accepts
  Ceilings,       \* the maximal numbers of candidates, results and matches to
                  \* sort: any, where the code has one constant for each
  Absent,         \* no document under this key
  Invalid,        \* a patch whose outcome is refused before the indexes change
  Unindexed,      \* the index path is missing from the document
  Unindexable     \* the index path leads to an object or an array

ASSUME CollectionAssumption ==
  /\ ValidDocs \subseteq Docs
  /\ UniqueIndexes \subseteq Indexes
  /\ Absent \notin Docs
  /\ Invalid \notin Docs
  /\ PatchOf \in [Docs \X Patches -> Docs \cup {Invalid}]
  /\ IndexKeyOf \in [Indexes -> [Docs -> IndexKeys \cup {Unindexed, Unindexable}]]
  /\ Unindexed \notin IndexKeys
  /\ Unindexable \notin IndexKeys
  /\ Unindexed # Unindexable
  /\ Conditions \subseteq SUBSET Docs
  /\ Ceilings \subseteq [candidates : Nat \ {0}, results : Nat, sorted : Nat]

(* A call on a collection of a transaction: the methods of TransactionCollection *)
GetCalls    == [kind : {"get"}, coll : Collections, key : Keys]
FindCalls   ==
  [kind : {"find"}, coll : Collections, condition : Conditions, ceiling : Ceilings]
InsertCalls == [kind : {"insert"}, coll : Collections, key : Keys, doc : Docs]
UpsertCalls == [kind : {"upsert"}, coll : Collections, key : Keys, doc : Docs]
UpdateCalls == [kind : {"update"}, coll : Collections, key : Keys, patch : Patches]
DeleteCalls == [kind : {"delete"}, coll : Collections, key : Keys]

WriteCalls == InsertCalls \cup UpsertCalls \cup UpdateCalls \cup DeleteCalls
Calls      == GetCalls \cup FindCalls \cup WriteCalls

(* What is left of a sequence when only the chosen elements are kept *)
Picked(s, chosen) ==
  FoldLeft(LAMBDA found, x : IF x \in chosen THEN Append(found, x) ELSE found, <<>>, s)

Refusals == {"invalid", "duplicateKey", "notFound", "indexRefused"}

(* What is told instead of the keys found when there are too many *)
TooMany == {<<"CANDIDATE_LIMIT">>, <<"RESULT_LIMIT">>}

(* What a call may answer: a document, the keys found, or how a write ended *)
Answers(call) ==
  CASE call.kind = "get"  -> Docs \cup {Absent}
    [] call.kind = "find" -> {s \in Seq(Keys) :
                                \A m, n \in 1 .. Len(s) : s[m] = s[n] => m = n} \cup TooMany
    [] OTHER              -> Refusals \cup {"ok"}
=============================================================================
