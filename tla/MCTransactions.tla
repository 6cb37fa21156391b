--------------------------- MODULE MCTransactions ---------------------------
(* One collection with two secondary indexes, for the run txn_structure. *)
EXTENDS Queries

CONSTANTS c1, k1, k2, d1, d2, d3, bad, id, tag, email, score, p1, p2, t1, t2

(* Indexes and paths have the same names.  A tag, indexed but not unique,  *)
(* is the number 1 or the string "1"; an e-mail is indexed and unique.  d1 *)
(* and d2 clash on the e-mail, d3 has none; bad has an object there, found *)
(* out after the tag was examined.  The score is not indexed.              *)
One     == [type |-> "number", rank |-> 1]
OneText == [type |-> "string", rank |-> 1]
Null    == [type |-> "null", rank |-> 0]
Missing == [type |-> "undefined", rank |-> 0]
Object  == [type |-> "object", rank |-> 0]

MCValueAt ==
  (tag   :> (d1 :> One @@ d2 :> OneText @@ d3 :> One @@ bad :> OneText) @@
   email :> (d1 :> OneText @@ d2 :> OneText @@ d3 :> Missing @@ bad :> Object) @@
   score :> (d1 :> Null @@ d2 :> [One EXCEPT !.rank = 2] @@ d3 :> Missing @@ bad :> Null))

MCPathOf   == (tag :> tag @@ email :> email)
MCKeyValue == (k1 :> OneText @@ k2 :> One)

MCIndexKeys  == {<<"n", 1>>, <<"s", 1>>}
MCIndexKeyOf == [i \in Indexes |-> [d \in Docs |-> IndexValue(i, d)]]

MCPatchOf ==
  [dp \in Docs \X Patches |->
     IF dp[2] = p1 THEN IF dp[1] = d3 THEN d1 ELSE d2
     ELSE IF dp[1] = d1 THEN bad ELSE Invalid]

MCSeeds == {<<[key |-> k1, doc |-> d1], [key |-> k2, doc |-> d3]>>, <<>>}

MCConditions == {{d1, d3}}

Symmetry == Permutations(Txns)

Is(path, value)    == [op |-> "eq", path |-> path, value |-> value]
IsNot(path, value) == [op |-> "ne", path |-> path, value |-> value]

MCTopConditions ==
  {Is(tag, One), Is(tag, OneText), Is(email, OneText), Is(email, Null), Is(score, Null),
   Is(id, One), Is(id, Null), IsNot(tag, One), IsNot(id, Null),
   [op |-> "in", path |-> tag, values |-> {One, Null}],
   [op |-> "lt", path |-> score, value |-> [One EXCEPT !.rank = 3]],
   [op |-> "and", conditions |-> {Is(tag, One), IsNot(email, OneText)}],
   [op |-> "or", conditions |-> {Is(tag, One), [op |-> "not", condition |-> Is(email, OneText)]}]}

MCAsked ==
  MCTopConditions \cup {IsNot(email, OneText), [op |-> "not", condition |-> Is(email, OneText)]}

By(path, direction) == [path |-> path, direction |-> direction]

MCQueries ==
  [condition : MCTopConditions, offset : {0, 1}, limit : {NoLimit, 0, 1},
   order : {<<>>, <<By(tag, "asc")>>, <<By(score, "desc")>>,
            <<By(tag, "desc"), By(score, "asc")>>}]

MCCeilings ==
  {[candidates |-> 2, results |-> 2, sorted |-> 2],
   [candidates |-> 2, results |-> 2, sorted |-> 1],
   [candidates |-> 2, results |-> 1, sorted |-> 2],
   [candidates |-> 1, results |-> 1, sorted |-> 1]}
=============================================================================
