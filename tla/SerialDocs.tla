----------------------------- MODULE SerialDocs -----------------------------
(***************************************************************************)
(* What the calls of a transaction mean on the simplest possible           *)
(* collection: the sequence of its documents [key, doc] in insertion       *)
(* order.  The reference that module Collection is compared with.          *)
(***************************************************************************)
EXTENDS Schema

Entries == [key : Keys, doc : Docs]

Lookup(docs, k) ==
  IF \E n \in 1 .. Len(docs) : docs[n].key = k
  THEN docs[CHOOSE n \in 1 .. Len(docs) : docs[n].key = k].doc
  ELSE Absent

(* d can be filed under k beside the other documents *)
Admissible(docs, k, d) ==
  \A i \in Indexes :
    /\ IndexKeyOf[i][d] # Unindexable
    /\ (i \in UniqueIndexes /\ IndexKeyOf[i][d] # Unindexed) =>
         \A n \in 1 .. Len(docs) :
           docs[n].key # k => IndexKeyOf[i][docs[n].doc] # IndexKeyOf[i][d]

Put(docs, k, d) ==
  IF Lookup(docs, k) = Absent
  THEN Append(docs, [key |-> k, doc |-> d])
  ELSE [n \in 1 .. Len(docs) |-> IF docs[n].key = k THEN [key |-> k, doc |-> d] ELSE docs[n]]

Drop(docs, k) == Picked(docs, {e \in Entries : e.key # k})

(* The document a write would leave under its key, or why it is refused *)
WriteVerdict(docs, call) ==
  LET before == Lookup(docs, call.key)
      Filing(d) == IF d \notin ValidDocs THEN "invalid"
                   ELSE IF call.kind = "insert" /\ before # Absent THEN "duplicateKey"
                   ELSE IF ~Admissible(docs, call.key, d) THEN "indexRefused"
                   ELSE "ok"
  IN  IF call.kind \in {"insert", "upsert"} THEN Filing(call.doc)
      ELSE IF before = Absent THEN "notFound"
      ELSE IF call.kind = "update" THEN Filing(PatchOf[before, call.patch])
      ELSE "ok"

Answer(docs, call) ==
  CASE call.kind = "get"  -> Lookup(docs, call.key)
    [] call.kind = "find" ->
         LET found == Picked(docs, {e \in Entries : e.doc \in call.condition})
         IN  IF Len(docs) > call.ceiling.candidates THEN <<"CANDIDATE_LIMIT">>
             ELSE IF Len(found) > call.ceiling.results THEN <<"RESULT_LIMIT">>
             ELSE [n \in 1 .. Len(found) |-> found[n].key]
    [] OTHER -> WriteVerdict(docs, call)

After(docs, call) ==
  IF call.kind \in {"get", "find"} \/ WriteVerdict(docs, call) # "ok" THEN docs
  ELSE CASE call.kind \in {"insert", "upsert"} -> Put(docs, call.key, call.doc)
         [] call.kind = "update" ->
              Put(docs, call.key, PatchOf[Lookup(docs, call.key), call.patch])
         [] OTHER -> Drop(docs, call.key)

(* Run a script alone on a store: where it leads, and whether every answer *)
(* is the one the script recorded.                                         *)
RunAlone(s, steps) ==
  FoldLeft(LAMBDA run, step :
             LET docs == run.store[step.call.coll]
             IN  [store  |-> [run.store EXCEPT ![step.call.coll] = After(docs, step.call)],
                  agrees |-> run.agrees /\ Answer(docs, step.call) = step.answer],
           [store |-> s, agrees |-> TRUE], steps)
=============================================================================
