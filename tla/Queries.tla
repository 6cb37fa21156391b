------------------------------- MODULE Queries -------------------------------
(***************************************************************************)
(* Queries outside of transactions (Database._query in src/src/database.ts *)
(* and src/src/query.ts): the plan chosen for a condition, the candidates  *)
(* it yields from the published root, and filter, order and page.          *)
(* A value is a record of its JSON type and of its rank within that type;  *)
(* a document is opaque but for the values its paths lead to.              *)
(***************************************************************************)
EXTENDS Transactions

CONSTANTS
  PrimaryPath,   \* [schema.primaryKey]
  Paths,         \* all other property paths
  PathOf,        \* PathOf[i]: the path of index i
  ValueAt,       \* ValueAt[p][d]: what readPath finds in document d at p
  KeyValue,      \* KeyValue[k]: the primary key that encodeKey encodes as k
  Asked,         \* the conditions of the application, with their parts
  QueriesAsked,  \* the queries of the application
  NoLimit        \* a query without limit()

Types  == {"boolean", "number", "string", "object", "null", "undefined"}
Values ==
  {v \in [type : Types, rank : Nat] : v.type \in {"null", "undefined"} => v.rank = 0}

Primitive(v) == v.type \notin {"object", "undefined"}

(* encodeIndexValue: a tag tells the type, and null is its tag alone *)
EncodeIndexValue(v) ==
  CASE v.type = "null"    -> <<"z">>
    [] v.type = "boolean" -> <<"b", v.rank>>
    [] v.type = "string"  -> <<"s", v.rank>>
    [] v.type = "number"  -> <<"n", v.rank>>

(* indexValue: what module Collection takes as given *)
IndexValue(i, d) ==
  LET v == ValueAt[PathOf[i]][d]
  IN  IF v.type = "undefined" THEN Unindexed
      ELSE IF v.type = "object" THEN Unindexable ELSE EncodeIndexValue(v)

ASSUME QueriesAssumption ==
  /\ PrimaryPath \notin Paths
  /\ PathOf \in [Indexes -> Paths]
  /\ ValueAt \in [Paths -> [Docs -> Values]]
  /\ KeyValue \in [Keys -> {v \in Values : v.type \in {"number", "string"}}]
  /\ \A k, l \in Keys : KeyValue[k] = KeyValue[l] => k = l
  /\ \A i \in Indexes, d \in Docs : IndexKeyOf[i][d] = IndexValue(i, d)
  /\ \A condition \in Asked : condition.op = "eq" =>
       /\ condition.path \in Paths \cup {PrimaryPath}
       /\ condition.value \in Values /\ Primitive(condition.value)
       /\ EncodeIndexValue(condition.value) \notin {Unindexed, Unindexable}
  /\ NoLimit \notin Nat
  /\ QueriesAsked \subseteq
       [condition : Asked, offset : Nat, limit : Nat \cup {NoLimit},
        order : Seq([path : Paths \cup {PrimaryPath}, direction : {"asc", "desc"}])]

(* readPath of the document stored under k *)
ReadPath(coll, k, path) ==
  IF path = PrimaryPath THEN KeyValue[k] ELSE ValueAt[path][coll.records[k]]

-----------------------------------------------------------------------------
(* Conditions *)

(* orderedCompare: only numbers with numbers and strings with strings *)
OrderedCompare(op, source, value) ==
  /\ source.type \in {"number", "string"}
  /\ source.type = value.type
  /\ CASE op = "lt"  -> source.rank < value.rank
       [] op = "lte" -> source.rank <= value.rank
       [] op = "gt"  -> source.rank > value.rank
       [] op = "gte" -> source.rank >= value.rank

(* A comparison of compileWhere(...).test.  The text operators contains,    *)
(* startsWith and endsWith are functions of two strings and appear as the   *)
(* values they take.                                                        *)
Holds(coll, condition, k) ==
  LET source == ReadPath(coll, k, condition.path)
  IN  CASE condition.op \in {"in", "text"} -> source \in condition.values
        [] condition.op = "eq"            -> source = condition.value
        [] condition.op = "ne"            -> source # condition.value
        [] OTHER -> OrderedCompare(condition.op, source, condition.value)

(* compileWhere(...).test: a comparison, or one built of others *)
Accepts(coll, condition, k) ==
  LET accepts[c \in Asked] ==
        CASE c.op = "and" -> \A part \in c.conditions : accepts[part]
          [] c.op = "or"  -> \E part \in c.conditions : accepts[part]
          [] c.op = "not" -> ~accepts[c.condition]
          [] OTHER        -> Holds(coll, c, k)
  IN  IF condition.op \in {"and", "or", "not"} THEN accepts[condition]
      ELSE Holds(coll, condition, k)

Accepted(coll, condition) == {k \in Keys : Has(coll, k) /\ Accepts(coll, condition, k)}

-----------------------------------------------------------------------------
(* Plans *)

Scan == [strategy |-> "scan"]

IndexesAt(path) == {i \in Indexes : PathOf[i] = path}

(* choosePlan: an index serves nothing but one equality.  Indexes with the  *)
(* same path have the same buckets, so any of them stands for the first.    *)
ChoosePlan(condition) ==
  IF condition.op # "eq" THEN Scan
  ELSE IF condition.path = PrimaryPath THEN [strategy |-> "primary"]
  ELSE IF IndexesAt(condition.path) # {}
  THEN [strategy |-> "secondary", index |-> CHOOSE i \in IndexesAt(condition.path) : TRUE]
  ELSE Scan

(* Array.prototype.sort: the elements rearranged so that none stands before *)
(* one that comes before it                                                 *)
Sorted(s, before) ==
  LET places == 1 .. Len(s)
      from == CHOOSE p \in [places -> places] :
                /\ IsInjective(p)
                /\ \A m, n \in places : m < n => <<s[p[n]], s[p[m]]>> \notin before
  IN  [n \in places |-> s[from[n]]]

(* A broken variant: a bucket in the order of its keys *)
MutantBucketInOrder(coll, bucket) == SetToSeq(bucket)

BucketInOrder(coll, bucket) ==
  Sorted(SetToSeq(bucket),
         {kl \in bucket \X bucket : coll.positions[kl[1]] < coll.positions[kl[2]]})

(* The candidates of a plan.  A value that encodeKey refuses is no key, and *)
(* a key without a record falls out later.                                  *)
Candidates(coll, plan, condition) ==
  CASE plan.strategy = "primary" ->
         IF \E k \in Keys : KeyValue[k] = condition.value
         THEN <<CHOOSE k \in Keys : KeyValue[k] = condition.value>> ELSE <<>>
    [] plan.strategy = "secondary" ->
         LET x == EncodeIndexValue(condition.value)
         IN  IF x \in IndexKeys THEN BucketInOrder(coll, coll.buckets[plan.index][x])
             ELSE <<>>
    [] plan.strategy = "scan" -> coll.order

-----------------------------------------------------------------------------
(* Order *)

TypeOrder(type) ==
  CASE type = "boolean" -> 0 [] type = "number" -> 1
    [] type = "string"  -> 2 [] type = "object" -> 3

(* compareJson: what is missing comes last, null before it, then by type *)
CompareJson(left, right) ==
  IF left = right                  THEN 0
  ELSE IF left.type = "undefined"  THEN 1
  ELSE IF right.type = "undefined" THEN -1
  ELSE IF left.type = "null"       THEN 1
  ELSE IF right.type = "null"      THEN -1
  ELSE IF left.type # right.type   THEN TypeOrder(left.type) - TypeOrder(right.type)
  ELSE IF left.type = "object"     THEN 0
  ELSE left.rank - right.rank

CompareField(coll, field, k, l) ==
  CompareJson(ReadPath(coll, k, field.path), ReadPath(coll, l, field.path))

(* The comparison of sort: the first field that tells the two apart, in its *)
(* direction, else the primary keys                                         *)
SortsBefore(coll, order, k, l) ==
  LET telling == {n \in 1 .. Len(order) : CompareField(coll, order[n], k, l) # 0}
      first == CHOOSE n \in telling : \A m \in telling : n <= m
      compared == CompareField(coll, order[first], k, l)
  IN  IF telling = {} THEN CompareJson(KeyValue[k], KeyValue[l]) < 0
      ELSE IF order[first].direction = "asc" THEN compared < 0 ELSE compared > 0

-----------------------------------------------------------------------------
(* Database._query *)

Lesser(m, n) == IF m < n THEN m ELSE n

(* A broken variant: the end of a page does not move with its offset *)
MutantLastOfPage(query, total) ==
  IF query.limit = NoLimit THEN total ELSE Lesser(total, query.limit)

LastOfPage(query, total) ==
  IF query.limit = NoLimit THEN total ELSE Lesser(total, query.offset + query.limit)

(* The answer is the keys of the documents, or the limit that was exceeded. *)
Execute(coll, plan, query, ceiling) ==
  LET candidates == Candidates(coll, plan, query.condition)
      accepted == Accepted(coll, query.condition)
      matches == Picked(candidates, accepted)
      arranged == IF query.order = <<>> THEN matches
                  ELSE Sorted(matches, {kl \in accepted \X accepted :
                                          SortsBefore(coll, query.order, kl[1], kl[2])})
      page == SubSeq(arranged, query.offset + 1, LastOfPage(query, Len(arranged)))
  IN  IF query.limit = 0 THEN <<>>
      ELSE IF Len(candidates) > ceiling.candidates THEN <<"CANDIDATE_LIMIT">>
      ELSE IF query.order # <<>> /\ Len(matches) > ceiling.sorted THEN <<"SORT_LIMIT">>
      ELSE IF Len(page) > ceiling.results THEN <<"RESULT_LIMIT">>
      ELSE page

Ask(coll, query, ceiling) == Execute(coll, ChoosePlan(query.condition), query, ceiling)

-----------------------------------------------------------------------------
(* What the documents promise *)

(* Values in their order: booleans, numbers, strings, other values, null,  *)
(* missing ones; objects and arrays are not told apart.                    *)
Class(v) ==
  CASE v.type = "boolean" -> 1 [] v.type = "number" -> 2 [] v.type = "string" -> 3
    [] v.type = "object"  -> 4 [] v.type = "null"   -> 5 [] v.type = "undefined" -> 6

Below(v, w) ==
  \/ Class(v) < Class(w)
  \/ Class(v) = Class(w) /\ Class(v) \in 1 .. 3 /\ v.rank < w.rank

Ahead(coll, field, k, l) ==
  LET v == ReadPath(coll, k, field.path)
      w == ReadPath(coll, l, field.path)
  IN  IF field.direction = "asc" THEN Below(v, w) ELSE Below(w, v)

Alike(coll, field, k, l) == ~Ahead(coll, field, k, l) /\ ~Ahead(coll, field, l, k)

Precedes(coll, order, k, l) ==
  IF order = <<>> THEN IndexInOrder(coll.order, k) < IndexInOrder(coll.order, l)
  ELSE \/ \E n \in 1 .. Len(order) :
            /\ Ahead(coll, order[n], k, l)
            /\ \A m \in 1 .. n - 1 : Alike(coll, order[m], k, l)
       \/ /\ \A n \in 1 .. Len(order) : Alike(coll, order[n], k, l)
          /\ Below(KeyValue[k], KeyValue[l])

(* Each accepted document stands behind as many as precede it. *)
Promised(coll, query) ==
  LET accepted == Accepted(coll, query.condition)
      before(k) == Cardinality({l \in accepted : l # k /\ Precedes(coll, query.order, l, k)})
      onPage == {k \in accepted : /\ before(k) >= query.offset
                                  /\ query.limit # NoLimit =>
                                       before(k) < query.offset + query.limit}
  IN  [n \in 1 .. Cardinality(onPage) |->
         CHOOSE k \in onPage : before(k) = query.offset + n - 1]

(* A query runs in one call on the root; which transactions are open does   *)
(* not matter, so it is looked at when none is.                             *)
NoneOpen == \A t \in Txns : status[t] # "active"

(* What a query may answer: the page that is promised, unless a limit       *)
(* refuses it, and none that a limit has to refuse.  How many candidates    *)
(* there are is a matter of the plan.                                       *)
AnswersAsPromised(coll, query, ceiling) ==
  LET answer == Ask(coll, query, ceiling)
      page == Promised(coll, query)
      unsortable == /\ query.order # <<>>
                    /\ Cardinality(Accepted(coll, query.condition)) > ceiling.sorted
      tooLong == Len(page) > ceiling.results
  IN  \/ answer = page /\ (query.limit # 0 => ~unsortable /\ ~tooLong)
      \/ answer = <<"CANDIDATE_LIMIT">> /\ Len(coll.order) > ceiling.candidates
      \/ answer = <<"SORT_LIMIT">> /\ unsortable
      \/ answer = <<"RESULT_LIMIT">> /\ tooLong

(* Whatever was written, refused, deleted and inserted again before, a      *)
(* query answers with what its condition accepts, in insertion order or in  *)
(* the order asked for, page by page without gap or overlap; a refusal is   *)
(* true, and only an empty page escapes the limits of sorting and results.  *)
(* README.md:129, docs/decisions/0002:21, docs/queries.md:7                 *)
QueriesKeepPromise ==
  NoneOpen => \A c \in Collections, query \in QueriesAsked, ceiling \in Ceilings :
    AnswersAsPromised(stored[c], query, ceiling)

(* The plan is not visible in the answer: with an index a query answers as *)
(* a scan does, but where the scan would have had too many candidates.     *)
PlansAgree ==
  NoneOpen => \A c \in Collections, query \in QueriesAsked, ceiling \in Ceilings :
    LET scanned == Execute(stored[c], Scan, query, ceiling)
    IN  scanned = <<"CANDIDATE_LIMIT">> \/ Ask(stored[c], query, ceiling) = scanned
=============================================================================
