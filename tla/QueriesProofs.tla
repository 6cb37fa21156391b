--------------------------- MODULE QueriesProofs ---------------------------
(***************************************************************************)
(* Theorems about Queries, for every schema, every set of conditions,      *)
(* orders and pages, and every ceiling.                                    *)
(*                                                                         *)
(* The argument: on a consistent collection every plan offers all that the *)
(* condition accepts, in insertion order; what is kept of it keeps that    *)
(* order, and sorting puts it in the order that is asked for, which is     *)
(* strict and total; in such a listing the place of a document is the      *)
(* number of those that precede it, so a page is the promised one.         *)
(***************************************************************************)
EXTENDS Queries, TransactionsProofs, FiniteSetTheorems

(* A strict total order of the elements of S, as a set of pairs *)
Orders(before, S) ==
  /\ \A x, y \in S : <<x, y>> \in before => <<y, x>> \notin before
  /\ \A x, y, z \in S : <<x, y>> \in before /\ <<y, z>> \in before => <<x, z>> \in before
  /\ \A x, y \in S : x # y => <<x, y>> \in before \/ <<y, x>> \in before

Ascends(s, before) == \A m, n \in 1 .. Len(s) : m < n => <<s[m], s[n]>> \in before

Distinct(s) == \A m, n \in 1 .. Len(s) : s[m] = s[n] => m = n

Elements(s) == {s[n] : n \in 1 .. Len(s)}

LEMMA SequenceByPlaces ==
  ASSUME NEW S, NEW s \in Seq(S)
  PROVE  s = [n \in 1 .. Len(s) |-> s[n]]
OBVIOUS

LEMMA SequenceOf ==
  ASSUME NEW S, NEW T, NEW s \in Seq(S), \A n \in 1 .. Len(s) : s[n] \in T
  PROVE  s \in Seq(T)
OBVIOUS

LEMMA PlacesCounted ==
  ASSUME NEW m \in Nat
  PROVE  IsFiniteSet(1 .. m) /\ Cardinality(1 .. m) = m
<1>1. 1 \in Int /\ m \in Int
  OBVIOUS
<1>2. IsFiniteSet(1 .. m) /\ Cardinality(1 .. m) = IF 1 > m THEN 0 ELSE m - 1 + 1
  BY <1>1, FS_Interval
<1>3. (IF 1 > m THEN 0 ELSE m - 1 + 1) = m
  OBVIOUS
<1> QED
  BY <1>2, <1>3

(* Between the positions of a sequence, a function to the same positions    *)
(* that never takes one value twice takes every value.                      *)
LEMMA Permutes ==
  ASSUME NEW m \in Nat, NEW f \in [1 .. m -> 1 .. m],
         \A i, j \in 1 .. m : f[i] = f[j] => i = j
  PROVE  \A n \in 1 .. m : \E i \in 1 .. m : f[i] = n
<1>1. IsFiniteSet(1 .. m)
  BY FS_Interval
<1>2. f \in Injection(1 .. m, 1 .. m)
  BY DEF Injection, IsInjective
<1>3. f \in Surjection(1 .. m, 1 .. m)
  BY <1>1, <1>2, FS_Injection
<1> QED
  BY <1>3 DEF Surjection

(* There is a way to sort, and sorting ascends. *)
LEMMA SortedAscends ==
  ASSUME NEW S, NEW s \in Seq(S), Distinct(s), NEW before, Orders(before, S)
  PROVE  /\ Sorted(s, before) \in Seq(S)
         /\ Len(Sorted(s, before)) = Len(s)
         /\ Elements(Sorted(s, before)) = Elements(s)
         /\ Ascends(Sorted(s, before), before)
<1> PICK m \in Nat : m = Len(s)
  OBVIOUS
<1>1. \A i \in 1 .. m : s[i] \in S
  OBVIOUS
<1> DEFINE Earlier(i) == {j \in 1 .. m : <<s[j], s[i]>> \in before}
           rank == [i \in 1 .. m |-> Cardinality(Earlier(i)) + 1]
<1>2. IsFiniteSet(1 .. m) /\ Cardinality(1 .. m) = m
  BY PlacesCounted
<1>3. ASSUME NEW i \in 1 .. m
      PROVE  IsFiniteSet(Earlier(i)) /\ Cardinality(Earlier(i)) \in 0 .. m - 1
  <2>1. i \notin Earlier(i)
    BY <1>1 DEF Orders
  <2>2. Earlier(i) \in SUBSET ((1 .. m) \ {i})
    BY <2>1
  <2>3. IsFiniteSet((1 .. m) \ {i}) /\ Cardinality((1 .. m) \ {i}) = m - 1
    BY <1>2, FS_RemoveElement
  <2> HIDE DEF Earlier
  <2>4. IsFiniteSet(Earlier(i)) /\ Cardinality(Earlier(i)) <= m - 1
    <3>1. Cardinality(Earlier(i)) <= Cardinality((1 .. m) \ {i})
      BY <2>2, <2>3, FS_Subset
    <3>2. IsFiniteSet(Earlier(i))
      BY <2>2, <2>3, FS_Subset
    <3> QED
      BY <2>3, <3>1, <3>2
  <2>5. Cardinality(Earlier(i)) \in Nat
    BY <2>4, FS_CardinalityType
  <2> QED
    BY <2>4, <2>5
<1>4. rank \in [1 .. m -> 1 .. m]
  <2>1. ASSUME NEW i \in 1 .. m PROVE Cardinality(Earlier(i)) + 1 \in 1 .. m
    <3> PICK n : n = Cardinality(Earlier(i))
      OBVIOUS
    <3>1. n \in 0 .. m - 1
      BY <1>3
    <3> QED
      BY <3>1
  <2> QED
    BY <2>1
<1>5. ASSUME NEW i \in 1 .. m, NEW j \in 1 .. m, <<s[j], s[i]>> \in before
      PROVE  rank[j] < rank[i]
  <2>1. j \in Earlier(i) /\ j \notin Earlier(j)
    BY <1>1, <1>5 DEF Orders
  <2>2. Earlier(j) \in SUBSET (Earlier(i) \ {j})
    <3> SUFFICES ASSUME NEW l \in Earlier(j) PROVE l \in Earlier(i) /\ l # j
      OBVIOUS
    <3>1. <<s[l], s[j]>> \in before /\ l \in 1 .. m
      OBVIOUS
    <3> QED
      BY <1>1, <1>5, <2>1, <3>1 DEF Orders
  <2> PICK later : later = Earlier(i)
    OBVIOUS
  <2> PICK sooner : sooner = Earlier(j)
    OBVIOUS
  <2>3. IsFiniteSet(later) /\ Cardinality(later) \in Nat /\ Cardinality(sooner) \in Nat
    <3>1. IsFiniteSet(Earlier(i)) /\ IsFiniteSet(Earlier(j))
      BY <1>3
    <3> QED
      BY <3>1, FS_CardinalityType
  <2>4. IsFiniteSet(later \ {j}) /\ Cardinality(later \ {j}) = Cardinality(later) - 1
    BY <2>1, <2>3, FS_RemoveElement
  <2>5. Cardinality(sooner) <= Cardinality(later \ {j})
    BY <2>2, <2>4, FS_Subset
  <2>6. rank[j] = Cardinality(sooner) + 1 /\ rank[i] = Cardinality(later) + 1
    OBVIOUS
  <2> QED
    BY <2>3, <2>4, <2>5, <2>6
<1> HIDE DEF rank
<1>6. ASSUME NEW i \in 1 .. m, NEW j \in 1 .. m, rank[i] = rank[j] PROVE i = j
  <2> SUFFICES ASSUME i # j PROVE FALSE
    OBVIOUS
  <2>1. s[i] # s[j]
    BY DEF Distinct
  <2>2. <<s[i], s[j]>> \in before \/ <<s[j], s[i]>> \in before
    BY <1>1, <2>1 DEF Orders
  <2>3. rank[i] < rank[j] \/ rank[j] < rank[i]
    BY <1>5, <2>2
  <2> QED
    BY <1>4, <1>6, <2>3
<1>7. \A n \in 1 .. m : \E i \in 1 .. m : rank[i] = n
  BY ZenonT(60), <1>4, <1>6, Permutes
<1> DEFINE Sorts(p) == /\ IsInjective(p)
                       /\ \A i, j \in 1 .. m : i < j => <<s[p[j]], s[p[i]]>> \notin before
           inverse == [n \in 1 .. m |-> CHOOSE i \in 1 .. m : rank[i] = n]
           from == CHOOSE p \in [1 .. m -> 1 .. m] : Sorts(p)
<1>8. \A n \in 1 .. m : inverse[n] \in 1 .. m /\ rank[inverse[n]] = n
  BY <1>7
<1>9. inverse \in [1 .. m -> 1 .. m]
  BY <1>7
<1> HIDE DEF inverse
<1>10. Sorts(inverse)
  <2>1. IsInjective(inverse)
    BY <1>8, <1>9 DEF IsInjective
  <2>2. ASSUME NEW i \in 1 .. m, NEW j \in 1 .. m, i < j
        PROVE  <<s[inverse[j]], s[inverse[i]]>> \notin before
    BY <1>5, <1>8, <2>2
  <2> QED
    BY <2>1, <2>2
<1>11. from \in [1 .. m -> 1 .. m] /\ Sorts(from)
  BY <1>9, <1>10
<1>12. Sorted(s, before) = [n \in 1 .. m |-> s[from[n]]]
  BY DEF Sorted
<1> HIDE DEF from
<1>13. \A i, j \in 1 .. m : from[i] = from[j] => i = j
  BY <1>11 DEF IsInjective
<1>14. \A n \in 1 .. m : \E i \in 1 .. m : from[i] = n
  <2>1. from \in [1 .. m -> 1 .. m]
    BY <1>11
  <2> QED
    BY ZenonT(60), <1>13, <2>1, Permutes
<1> PICK t : t = [n \in 1 .. m |-> s[from[n]]]
  OBVIOUS
<1>15. /\ t \in Seq(S) /\ Len(t) = m
       /\ \A n \in 1 .. m : t[n] = s[from[n]] /\ from[n] \in 1 .. m
  <2>1. from \in [1 .. m -> 1 .. m]
    BY <1>11
  <2>2. \A n \in 1 .. m : from[n] \in 1 .. m /\ s[from[n]] \in S
    BY <1>1, <2>1
  <2> QED
    BY <2>2
<1>16. Elements(t) = Elements(s)
  <2>1. ASSUME NEW x \in Elements(t) PROVE x \in Elements(s)
    BY <1>15 DEF Elements
  <2>2. ASSUME NEW x \in Elements(s) PROVE x \in Elements(t)
    <3>1. PICK n \in 1 .. m : x = s[n]
      BY DEF Elements
    <3>2. PICK i \in 1 .. m : from[i] = n
      BY <1>14
    <3>3. t[i] = x
      BY <1>15, <3>1, <3>2
    <3> QED
      BY <1>15, <3>3 DEF Elements
  <2> QED
    BY <2>1, <2>2
<1>17. Ascends(t, before)
  <2> SUFFICES ASSUME NEW i \in 1 .. m, NEW j \in 1 .. m, i < j PROVE <<t[i], t[j]>> \in before
    BY <1>15 DEF Ascends
  <2>1. <<s[from[j]], s[from[i]]>> \notin before
    BY <1>11
  <2>2. from[i] # from[j]
    BY <1>13
  <2>3. s[from[i]] # s[from[j]]
    BY <1>15, <2>2 DEF Distinct
  <2> QED
    BY <1>1, <1>15, <2>1, <2>3 DEF Orders
<1> QED
  BY <1>12, <1>15, <1>16, <1>17

(* The elements between two places of a sequence without repetitions *)
Stretch(t, lo, hi) == {t[n] : n \in lo + 1 .. hi}

LEMMA StretchCounted ==
  ASSUME NEW S, NEW t \in Seq(S), Distinct(t), NEW lo \in Nat, NEW hi \in Int,
         hi <= Len(t)
  PROVE  Cardinality(Stretch(t, lo, hi)) = IF lo <= hi THEN hi - lo ELSE 0
<1> PICK m \in Nat : m = Len(t)
  OBVIOUS
<1> DEFINE stretch == {t[n] : n \in lo + 1 .. hi}
<1>0. Stretch(t, lo, hi) = stretch
  BY DEF Stretch
<1>1. CASE lo <= hi
  <2> PICK size \in Nat : size = hi - lo
    BY <1>1
  <2> DEFINE f == [n \in 1 .. size |-> t[lo + n]]
  <2>1. \A n \in 1 .. size : lo + n \in lo + 1 .. hi /\ lo + n \in 1 .. m
    OBVIOUS
  <2>2. f \in [1 .. size -> stretch]
    BY <2>1
  <2>3. ASSUME NEW i \in 1 .. size, NEW j \in 1 .. size, f[i] = f[j] PROVE i = j
    <3>1. t[lo + i] = t[lo + j]
      BY <2>3
    <3>2. lo + i = lo + j
      BY <2>1, <3>1 DEF Distinct
    <3> QED
      BY <3>2
  <2>4. ASSUME NEW x \in stretch PROVE \E i \in 1 .. size : f[i] = x
    <3>1. PICK n \in lo + 1 .. hi : x = t[n]
      OBVIOUS
    <3>2. n - lo \in 1 .. size /\ lo + (n - lo) = n
      OBVIOUS
    <3> QED
      BY <3>1, <3>2
  <2>5. f \in Bijection(1 .. size, stretch)
    BY <2>2, <2>3, <2>4 DEF Bijection, Injection, Surjection, IsInjective
  <2> HIDE DEF f
  <2>6. ExistsBijection(1 .. size, stretch)
    BY <2>5 DEF ExistsBijection
  <2> HIDE DEF stretch
  <2>7. Cardinality(stretch) = size
    BY <2>6, FS_CountingElements
  <2>8. Cardinality(Stretch(t, lo, hi)) = size
    BY <1>0, <2>7
  <2> QED
    BY <1>1, <2>8
<1>2. CASE ~(lo <= hi)
  <2>1. stretch = {}
    BY <1>2
  <2> QED
    BY <1>0, <1>2, <2>1, FS_EmptySet
<1> QED
  BY <1>1, <1>2

(* In an ascending sequence every element has the place that the number of  *)
(* its predecessors gives it.                                               *)
LEMMA AscentIsDistinct ==
  ASSUME NEW S, NEW t \in Seq(S), NEW before, Orders(before, S), Ascends(t, before)
  PROVE  Distinct(t)
<1> SUFFICES ASSUME NEW m \in 1 .. Len(t), NEW n \in 1 .. Len(t), t[m] = t[n], m < n
             PROVE  FALSE
  BY DEF Distinct
<1>1. <<t[m], t[m]>> \in before /\ t[m] \in S
  BY DEF Ascends
<1> QED
  BY <1>1 DEF Orders

LEMMA PlaceTold ==
  ASSUME NEW S, NEW t \in Seq(S), NEW before, Orders(before, S), Ascends(t, before),
         NEW n \in 1 .. Len(t)
  PROVE  Cardinality({l \in Elements(t) : l # t[n] /\ <<l, t[n]>> \in before}) = n - 1
<1> PICK m \in Nat : m = Len(t)
  OBVIOUS
<1>1. \A i \in 1 .. m : t[i] \in S
  OBVIOUS
<1> DEFINE ahead == {l \in Elements(t) : l # t[n] /\ <<l, t[n]>> \in before}
           first == {t[i] : i \in 0 + 1 .. n - 1}
<1>2. ASSUME NEW l \in ahead PROVE l \in first
  <2>1. PICK i \in 1 .. m : l = t[i]
    BY DEF Elements
  <2>2. i # n /\ ~(n < i)
    BY <1>1, <2>1 DEF Ascends, Orders
  <2>3. i \in 0 + 1 .. n - 1
    BY <2>2
  <2> QED
    BY <2>1, <2>3
<1>3. ASSUME NEW l \in first PROVE l \in ahead
  <2>1. PICK i \in 0 + 1 .. n - 1 : l = t[i]
    OBVIOUS
  <2>2. i \in 1 .. m /\ i < n
    OBVIOUS
  <2>3. <<t[i], t[n]>> \in before
    BY <2>2 DEF Ascends
  <2>4. t[i] # t[n]
    BY <1>1, <2>2, <2>3 DEF Orders
  <2> QED
    BY <2>1, <2>2, <2>3, <2>4 DEF Elements
<1>4. ahead = first
  BY <1>2, <1>3
<1>5. Distinct(t) /\ 0 \in Nat /\ n - 1 \in Int /\ n - 1 <= Len(t)
  BY AscentIsDistinct
<1>6. Cardinality(first) = IF 0 <= n - 1 THEN n - 1 - 0 ELSE 0
  <2>1. first = Stretch(t, 0, n - 1)
    BY DEF Stretch
  <2>2. Cardinality(Stretch(t, 0, n - 1)) = IF 0 <= n - 1 THEN n - 1 - 0 ELSE 0
    BY <1>5, StretchCounted
  <2> QED
    BY <2>1, <2>2
<1>7. Cardinality(first) = n - 1
  BY <1>6
<1> QED
  BY <1>4, <1>7

-----------------------------------------------------------------------------
(* A page of the accepted documents in their order is what is promised. *)

(* The pairs of accepted documents that the order of the query tells apart *)
Promise(coll, query) ==
  {kl \in Accepted(coll, query.condition) \X Accepted(coll, query.condition) :
     Precedes(coll, query.order, kl[1], kl[2])}

(* The documents of a query, all and in order, however they were found *)
ListsAnswer(coll, query, t) ==
  /\ t \in Seq(Accepted(coll, query.condition))
  /\ Elements(t) = Accepted(coll, query.condition)
  /\ Ascends(t, Promise(coll, query))

LEMMA PageIsPromised ==
  ASSUME NEW coll, NEW query, query.offset \in Nat, query.limit \in Nat \cup {NoLimit},
         NoLimit \notin Nat, Orders(Promise(coll, query), Accepted(coll, query.condition)),
         NEW t, ListsAnswer(coll, query, t)
  PROVE  SubSeq(t, query.offset + 1, LastOfPage(query, Len(t))) = Promised(coll, query)
<1> PICK accepted : accepted = Accepted(coll, query.condition)
  OBVIOUS
<1> PICK before : before = Promise(coll, query)
  OBVIOUS
<1>1. /\ t \in Seq(accepted) /\ Elements(t) = accepted /\ Ascends(t, before)
      /\ Orders(before, accepted)
  BY DEF ListsAnswer
<1>2. \A k, l \in accepted : <<k, l>> \in before <=> Precedes(coll, query.order, k, l)
  BY DEF Promise
<1> DEFINE ahead(k) == Cardinality({l \in accepted : l # k /\ <<l, k>> \in before})
           Before(k) == Cardinality({l \in accepted : l # k /\ Precedes(coll, query.order, l, k)})
           onPage == {k \in accepted : /\ ahead(k) >= query.offset
                                       /\ query.limit # NoLimit =>
                                            ahead(k) < query.offset + query.limit}
           OnPage == {k \in accepted : /\ Before(k) >= query.offset
                                       /\ query.limit # NoLimit =>
                                            Before(k) < query.offset + query.limit}
<1>3. \A k \in accepted : ahead(k) = Before(k)
  <2> TAKE k \in accepted
  <2>1. {l \in accepted : l # k /\ <<l, k>> \in before}
          = {l \in accepted : l # k /\ Precedes(coll, query.order, l, k)}
    BY <1>2
  <2> QED
    BY <2>1
<1>4. Promised(coll, query) =
        [n \in 1 .. Cardinality(OnPage) |-> CHOOSE k \in OnPage : Before(k) = query.offset + n - 1]
  BY DEF Promised
<1> HIDE DEF ahead, Before
<1>5. onPage = OnPage
  BY <1>3
<1>6. \A n : (CHOOSE k \in OnPage : Before(k) = query.offset + n - 1)
              = (CHOOSE k \in onPage : ahead(k) = query.offset + n - 1)
  <2> TAKE n
  <2>1. \A k : (k \in OnPage /\ Before(k) = query.offset + n - 1)
               <=> (k \in onPage /\ ahead(k) = query.offset + n - 1)
    BY <1>3, <1>5
  <2> QED
    BY <2>1
<1>7. Promised(coll, query) =
        [n \in 1 .. Cardinality(onPage) |-> CHOOSE k \in onPage : ahead(k) = query.offset + n - 1]
  <2> HIDE DEF onPage, OnPage
  <2> QED
    BY <1>4, <1>5, <1>6
<1> PICK m \in Nat : m = Len(t)
  BY <1>1
<1> PICK lo \in Nat : lo = query.offset
  OBVIOUS
<1> PICK hi \in Nat : hi = LastOfPage(query, m)
  BY DEF LastOfPage, Lesser
<1>8. /\ hi <= m
      /\ query.limit # NoLimit => query.limit \in Nat /\ hi <= lo + query.limit
      /\ hi = m \/ (query.limit # NoLimit /\ hi = lo + query.limit)
  BY DEF LastOfPage, Lesser
<1>9. \A n \in 1 .. m : t[n] \in accepted /\ ahead(t[n]) = n - 1
  <2> TAKE n \in 1 .. m
  <2>1. Cardinality({l \in Elements(t) : l # t[n] /\ <<l, t[n]>> \in before}) = n - 1
    BY <1>1, PlaceTold
  <2>2. ahead(t[n]) = n - 1
    BY <1>1, <2>1 DEF ahead
  <2> QED
    BY <1>1, <2>2
<1>10. onPage = {t[n] : n \in lo + 1 .. hi}
  <2>1. ASSUME NEW k \in onPage PROVE \E n \in lo + 1 .. hi : k = t[n]
    <3>1. PICK n \in 1 .. m : k = t[n]
      BY <1>1 DEF Elements
    <3>2. ahead(k) = n - 1
      BY <1>9, <3>1
    <3>3. n - 1 >= lo /\ (query.limit # NoLimit => n - 1 < lo + query.limit)
      BY <3>2
    <3>4. n \in lo + 1 .. hi
      BY <1>8, <3>3
    <3> QED
      BY <3>1, <3>4
  <2>2. ASSUME NEW n \in lo + 1 .. hi PROVE t[n] \in onPage
    <3>1. n \in 1 .. m
      BY <1>8
    <3>2. t[n] \in accepted /\ ahead(t[n]) = n - 1
      BY <1>9, <3>1
    <3>3. n - 1 >= lo /\ (query.limit # NoLimit => n - 1 < lo + query.limit)
      BY <1>8
    <3> QED
      BY <3>2, <3>3
  <2> QED
    BY <2>1, <2>2
<1> PICK size \in Nat : size = IF lo <= hi THEN hi - lo ELSE 0
  OBVIOUS
<1>11. Cardinality(onPage) = size
  <2>1. Distinct(t)
    BY <1>1, AscentIsDistinct
  <2>2. hi \in Int /\ hi <= Len(t) /\ t \in Seq(accepted)
    BY <1>1, <1>8
  <2>3. onPage = Stretch(t, lo, hi)
    BY <1>10 DEF Stretch
  <2> HIDE DEF onPage
  <2>4. Cardinality(Stretch(t, lo, hi)) = IF lo <= hi THEN hi - lo ELSE 0
    BY <2>1, <2>2, StretchCounted
  <2> QED
    BY <2>3, <2>4
<1>12. ASSUME NEW n \in 1 .. size
       PROVE  (CHOOSE k \in onPage : ahead(k) = lo + n - 1) = t[lo + n]
  <2>1. lo + n \in lo + 1 .. hi /\ lo + n \in 1 .. m
    BY <1>8
  <2>2. t[lo + n] \in onPage
    BY <1>10, <2>1
  <2>3. ahead(t[lo + n]) = lo + n - 1
    BY <1>9, <2>1
  <2>4. ASSUME NEW k \in onPage, ahead(k) = lo + n - 1 PROVE k = t[lo + n]
    <3>1. PICK i \in lo + 1 .. hi : k = t[i]
      BY <1>10
    <3>2. i \in 1 .. m
      BY <1>8
    <3>3. i - 1 = lo + n - 1
      BY <1>9, <2>4, <3>1, <3>2
    <3>4. i = lo + n
      BY SMTT(30), <3>3
    <3> QED
      BY <3>1, <3>4
  <2> HIDE DEF onPage
  <2> QED
    BY <2>2, <2>3, <2>4
<1>13. SubSeq(t, lo + 1, hi) = [n \in 1 .. size |-> t[lo + n]]
  <2> PICK s : s = SubSeq(t, lo + 1, hi)
    OBVIOUS
  <2>1. lo + 1 \in 1 .. Len(t) + 1 \/ hi < lo + 1
    BY <1>8
  <2>2. s \in Seq(accepted) /\ Len(s) = size
    BY <1>1, <1>8
  <2>3. \A n \in 1 .. size : s[n] = t[lo + n]
    BY SMTT(30), <1>1, <1>8
  <2>4. s = [n \in 1 .. Len(s) |-> s[n]]
    BY <2>2, SequenceByPlaces
  <2>5. s = [n \in 1 .. size |-> s[n]]
    BY <2>2, <2>4
  <2> QED
    BY <2>3, <2>5
<1> HIDE DEF onPage, OnPage
<1> QED
  <2>1. LastOfPage(query, Len(t)) = hi
    OBVIOUS
  <2>2. Promised(coll, query) =
          [n \in 1 .. size |-> CHOOSE k \in onPage : ahead(k) = lo + n - 1]
    BY <1>7, <1>11
  <2>3. Promised(coll, query) = [n \in 1 .. size |-> t[lo + n]]
    BY <1>12, <2>2
  <2> QED
    BY <1>13, <2>1, <2>3

-----------------------------------------------------------------------------
(* The comparison of sort and the order that is promised *)

(* The class of a value tells its type. *)
ClassTells(v) ==
  /\ v.type \in Types /\ v.rank \in Nat /\ Class(v) \in 1 .. 6
  /\ (Class(v) = 1) <=> (v.type = "boolean")
  /\ (Class(v) = 2) <=> (v.type = "number")
  /\ (Class(v) = 3) <=> (v.type = "string")
  /\ (Class(v) = 4) <=> (v.type = "object")
  /\ (Class(v) = 5) <=> (v.type = "null")
  /\ (Class(v) = 6) <=> (v.type = "undefined")

LEMMA ClassesTold ==
  ASSUME NEW v \in Values
  PROVE  ClassTells(v)
BY DEF Values, Types, Class, ClassTells

(* Below orders values by their class, and by their rank where it counts. *)
LEMMA BelowIsWeakOrder ==
  ASSUME NEW u \in Values, NEW v \in Values, NEW w \in Values
  PROVE  /\ Below(u, v) => ~Below(v, u)
         /\ Below(u, v) /\ ~Below(w, v) => Below(u, w)
         /\ ~Below(v, u) /\ Below(v, w) => Below(u, w)
         /\ ~Below(u, v) /\ ~Below(v, w) => ~Below(u, w)
<1>1. /\ Class(u) \in 1 .. 6 /\ u.rank \in Nat
      /\ Class(v) \in 1 .. 6 /\ v.rank \in Nat
      /\ Class(w) \in 1 .. 6 /\ w.rank \in Nat
  BY ClassesTold DEF ClassTells
<1> QED
  BY <1>1 DEF Below

(* compareJson tells which of two values is below the other. *)
LEMMA ComparesByClass ==
  ASSUME NEW v \in Values, NEW w \in Values
  PROVE  /\ CompareJson(v, w) \in Int
         /\ CompareJson(v, w) < 0 <=> Below(v, w)
         /\ CompareJson(v, w) > 0 <=> Below(w, v)
<1>1. ClassTells(v) /\ ClassTells(w)
  BY ClassesTold
<1>3. CASE v = w
  BY <1>1, <1>3 DEF ClassTells, CompareJson, Below
<1>4. CASE v # w /\ v.type = w.type
  <2>1. v.type \notin {"null", "undefined"}
    <3>1. v = [type |-> v.type, rank |-> v.rank] /\ w = [type |-> w.type, rank |-> w.rank]
      BY DEF Values
    <3>2. v.rank # w.rank
      BY <1>4, <3>1
    <3> QED
      BY <1>4, <3>2 DEF Values
  <2>2. CompareJson(v, w) = IF v.type = "object" THEN 0 ELSE v.rank - w.rank
    BY <1>4, <2>1 DEF ClassTells, CompareJson
  <2>3. Class(v) = Class(w)
    BY <1>1, <1>4 DEF ClassTells, Types
  <2>4. Class(v) \in 1 .. 3 <=> v.type # "object"
    BY <1>1, <2>1 DEF ClassTells, Types
  <2> QED
    BY <1>1, <2>2, <2>3, <2>4 DEF ClassTells, Below
<1>5. CASE v.type # w.type
  <2>1. v # w /\ Class(v) # Class(w)
    BY <1>1, <1>5 DEF ClassTells, Types
  <2>2. Below(v, w) <=> Class(v) < Class(w)
    BY <1>1, <2>1 DEF ClassTells, Below
  <2>3. Below(w, v) <=> Class(w) < Class(v)
    BY <1>1, <2>1 DEF ClassTells, Below
  <2>4. CASE v.type = "undefined"
    BY <1>1, <2>1, <2>2, <2>3, <2>4 DEF ClassTells, CompareJson
  <2>5. CASE w.type = "undefined"
    BY <1>1, <1>5, <2>1, <2>2, <2>3, <2>5 DEF ClassTells, CompareJson
  <2>6. CASE v.type # "undefined" /\ w.type # "undefined" /\ v.type = "null"
    BY <1>1, <2>1, <2>2, <2>3, <2>6 DEF ClassTells, CompareJson
  <2>7. CASE v.type # "undefined" /\ w.type = "null"
    BY <1>1, <1>5, <2>1, <2>2, <2>3, <2>7 DEF ClassTells, CompareJson
  <2>8. CASE v.type \notin {"undefined", "null"} /\ w.type \notin {"undefined", "null"}
    <3>1. CompareJson(v, w) = TypeOrder(v.type) - TypeOrder(w.type)
      BY <1>5, <2>1, <2>8 DEF ClassTells, CompareJson
    <3>2. TypeOrder(v.type) = Class(v) - 1
      BY <1>1, <2>8 DEF ClassTells, TypeOrder, Types
    <3>3. TypeOrder(w.type) = Class(w) - 1
      BY <1>1, <2>8 DEF ClassTells, TypeOrder, Types
    <3> QED
      BY <1>1, <2>2, <2>3, <3>1, <3>2, <3>3 DEF ClassTells
  <2> QED
    BY <2>4, <2>5, <2>6, <2>7, <2>8
<1> QED
  BY <1>3, <1>4, <1>5

Fields == [path : Paths \cup {PrimaryPath}, direction : {"asc", "desc"}]

LEMMA ReadsValue ==
  ASSUME NEW coll \in CollectionType, NEW k \in Keys, Has(coll, k),
         NEW path \in Paths \cup {PrimaryPath}
  PROVE  ReadPath(coll, k, path) \in Values
<1>1. coll.records[k] \in Docs
  BY DEF CollectionType, Has
<1>2. KeyValue[k] \in Values
  BY QueriesAssumption DEF QueriesAssumption
<1>3. path \in Paths => ValueAt[path][coll.records[k]] \in Values
  BY <1>1, QueriesAssumption DEF QueriesAssumption
<1> QED
  BY <1>2, <1>3 DEF ReadPath

(* What one field of an order says of the stored documents *)
LEMMA AheadIsWeakOrder ==
  ASSUME NEW coll \in CollectionType, NEW field \in Fields,
         NEW j \in Keys, NEW k \in Keys, NEW l \in Keys,
         Has(coll, j), Has(coll, k), Has(coll, l)
  PROVE  /\ Ahead(coll, field, j, k) => ~Ahead(coll, field, k, j)
         /\ Ahead(coll, field, j, k) /\ ~Ahead(coll, field, l, k) => Ahead(coll, field, j, l)
         /\ ~Ahead(coll, field, k, j) /\ Ahead(coll, field, k, l) => Ahead(coll, field, j, l)
         /\ ~Ahead(coll, field, j, k) /\ ~Ahead(coll, field, k, l) => ~Ahead(coll, field, j, l)
<1>1. PICK u \in Values : u = ReadPath(coll, j, field.path)
  BY ReadsValue DEF Fields
<1>2. PICK v \in Values : v = ReadPath(coll, k, field.path)
  BY ReadsValue DEF Fields
<1>3. PICK w \in Values : w = ReadPath(coll, l, field.path)
  BY ReadsValue DEF Fields
<1>4. /\ Below(u, v) => ~Below(v, u)
      /\ Below(u, v) /\ ~Below(w, v) => Below(u, w)
      /\ ~Below(v, u) /\ Below(v, w) => Below(u, w)
      /\ ~Below(u, v) /\ ~Below(v, w) => ~Below(u, w)
  BY BelowIsWeakOrder
<1>5. /\ Below(v, u) => ~Below(u, v)
      /\ Below(w, v) /\ ~Below(u, v) => Below(w, u)
      /\ ~Below(v, w) /\ Below(v, u) => Below(w, u)
      /\ ~Below(w, v) /\ ~Below(v, u) => ~Below(w, u)
  BY BelowIsWeakOrder
<1>6. CASE field.direction = "asc"
  BY <1>1, <1>2, <1>3, <1>4, <1>6 DEF Ahead
<1>7. CASE field.direction # "asc"
  BY <1>1, <1>2, <1>3, <1>5, <1>7 DEF Ahead
<1> QED
  BY <1>6, <1>7

LEMMA FieldCompared ==
  ASSUME NEW coll \in CollectionType, NEW field \in Fields,
         NEW k \in Keys, NEW l \in Keys, Has(coll, k), Has(coll, l)
  PROVE  /\ CompareField(coll, field, k, l) \in Int
         /\ CompareField(coll, field, k, l) = 0 <=> Alike(coll, field, k, l)
         /\ Ahead(coll, field, k, l) <=>
              IF field.direction = "asc" THEN CompareField(coll, field, k, l) < 0
              ELSE CompareField(coll, field, k, l) > 0
<1>1. PICK v \in Values : v = ReadPath(coll, k, field.path)
  BY ReadsValue DEF Fields
<1>2. PICK w \in Values : w = ReadPath(coll, l, field.path)
  BY ReadsValue DEF Fields
<1>3. PICK compared : compared = CompareJson(v, w)
  OBVIOUS
<1>4. /\ compared \in Int
      /\ compared < 0 <=> Below(v, w)
      /\ compared > 0 <=> Below(w, v)
  BY <1>3, ComparesByClass
<1>5. CompareField(coll, field, k, l) = compared
  BY <1>1, <1>2, <1>3 DEF CompareField
<1> QED
  BY <1>1, <1>2, <1>4, <1>5 DEF Ahead, Alike

(* Two keys differ in their values, so the values order the keys. *)
LEMMA KeysOrdered ==
  ASSUME NEW j \in Keys, NEW k \in Keys, NEW l \in Keys
  PROVE  /\ Below(KeyValue[j], KeyValue[k]) => ~Below(KeyValue[k], KeyValue[j])
         /\ Below(KeyValue[j], KeyValue[k]) /\ Below(KeyValue[k], KeyValue[l])
              => Below(KeyValue[j], KeyValue[l])
         /\ j # k => Below(KeyValue[j], KeyValue[k]) \/ Below(KeyValue[k], KeyValue[j])
<1>1. PICK u \in Values : u = KeyValue[j] /\ u.type \in {"number", "string"}
  BY QueriesAssumption DEF QueriesAssumption
<1>2. PICK v \in Values : v = KeyValue[k] /\ v.type \in {"number", "string"}
  BY QueriesAssumption DEF QueriesAssumption
<1>3. PICK w \in Values : w = KeyValue[l]
  BY QueriesAssumption DEF QueriesAssumption
<1>4. /\ Below(u, v) => ~Below(v, u)
      /\ Below(u, v) /\ ~Below(w, v) => Below(u, w)
  BY BelowIsWeakOrder
<1>5. Below(v, w) => ~Below(w, v)
  BY BelowIsWeakOrder
<1>6. j # k => u # v
  BY <1>1, <1>2, QueriesAssumption DEF QueriesAssumption
<1>7. u # v => Below(u, v) \/ Below(v, u)
  <2>1. u = [type |-> u.type, rank |-> u.rank] /\ v = [type |-> v.type, rank |-> v.rank]
    BY DEF Values
  <2>2. ClassTells(u) /\ ClassTells(v)
    BY ClassesTold
  <2>3. CASE u.type = v.type
    <3>1. u # v => u.rank # v.rank
      BY <2>1, <2>3
    <3> QED
      BY <1>1, <2>2, <2>3, <3>1 DEF Below, ClassTells
  <2>4. CASE u.type # v.type
    BY <1>1, <1>2, <2>2, <2>4 DEF Below, ClassTells
  <2> QED
    BY <2>3, <2>4
<1> QED
  BY <1>1, <1>2, <1>3, <1>4, <1>5, <1>6, <1>7

(* Of some positions, one is the first. *)
LEMMA LeastExists ==
  ASSUME NEW S \in SUBSET Nat, S # {}
  PROVE  \E n \in S : \A m \in S : n <= m
<1>1. \E n \in S : \A m \in S : ~ (<<m, n>> \in OpToRel(<, Nat))
  BY NatLessThanWellFounded, WFMin
<1>2. PICK n \in S : \A m \in S : ~ (m < n)
  BY <1>1 DEF OpToRel
<1> QED
  BY <1>2

(* Where an order tells two documents apart, and where it does not *)
ToldAt(coll, order, n, k, l) ==
  /\ Ahead(coll, order[n], k, l)
  /\ \A m \in 1 .. n - 1 : Alike(coll, order[m], k, l)

AllAlike(coll, order, k, l) == \A n \in 1 .. Len(order) : Alike(coll, order[n], k, l)

LEMMA PrecedesByField ==
  ASSUME NEW coll, NEW order, order # <<>>, NEW k, NEW l
  PROVE  Precedes(coll, order, k, l) <=>
           \/ \E n \in 1 .. Len(order) : ToldAt(coll, order, n, k, l)
           \/ AllAlike(coll, order, k, l) /\ Below(KeyValue[k], KeyValue[l])
BY DEF Precedes, ToldAt, AllAlike

LEMMA AlikeIsEquivalence ==
  ASSUME NEW coll \in CollectionType, NEW field \in Fields,
         NEW j \in Keys, NEW k \in Keys, NEW l \in Keys,
         Has(coll, j), Has(coll, k), Has(coll, l)
  PROVE  /\ Alike(coll, field, j, k) => Alike(coll, field, k, j)
         /\ Alike(coll, field, j, k) /\ Alike(coll, field, k, l) => Alike(coll, field, j, l)
         /\ Alike(coll, field, j, k) /\ Ahead(coll, field, k, l) => Ahead(coll, field, j, l)
         /\ Ahead(coll, field, j, k) /\ Alike(coll, field, k, l) => Ahead(coll, field, j, l)
         /\ Ahead(coll, field, j, k) /\ Ahead(coll, field, k, l) => Ahead(coll, field, j, l)
<1>1. /\ Ahead(coll, field, j, k) => ~Ahead(coll, field, k, j)
      /\ Ahead(coll, field, j, k) /\ ~Ahead(coll, field, l, k) => Ahead(coll, field, j, l)
      /\ ~Ahead(coll, field, k, j) /\ Ahead(coll, field, k, l) => Ahead(coll, field, j, l)
      /\ ~Ahead(coll, field, j, k) /\ ~Ahead(coll, field, k, l) => ~Ahead(coll, field, j, l)
  BY AheadIsWeakOrder
<1>2. ~Ahead(coll, field, l, k) /\ ~Ahead(coll, field, k, j) => ~Ahead(coll, field, l, j)
  BY AheadIsWeakOrder
<1> QED
  BY <1>1, <1>2 DEF Alike

(* Two documents are alike in every field or told apart at the first where *)
(* they are not.                                                           *)
LEMMA AlikeOrTold ==
  ASSUME NEW coll, NEW order, Len(order) \in Nat, NEW k, NEW l,
         ~AllAlike(coll, order, k, l)
  PROVE  \E n \in 1 .. Len(order) :
           /\ ~Alike(coll, order[n], k, l)
           /\ \A m \in 1 .. n - 1 : Alike(coll, order[m], k, l)
<1> DEFINE apart == {n \in 1 .. Len(order) : ~Alike(coll, order[n], k, l)}
<1>1. apart \in SUBSET Nat /\ apart # {}
  BY DEF AllAlike
<1>2. PICK n \in apart : \A m \in apart : n <= m
  <2> HIDE DEF apart
  <2> QED
    BY <1>1, LeastExists
<1>3. n \in 1 .. Len(order) /\ ~Alike(coll, order[n], k, l)
  OBVIOUS
<1>4. ASSUME NEW m \in 1 .. n - 1 PROVE Alike(coll, order[m], k, l)
  <2>1. m \in 1 .. Len(order) /\ ~(n <= m)
    BY <1>3
  <2> QED
    BY <1>2, <2>1
<1> QED
  BY <1>3, <1>4

(* An order of fields, with the primary key at its end, is strict and total. *)
LEMMA FieldsOrder ==
  ASSUME NEW coll \in CollectionType, NEW order \in Seq(Fields), order # <<>>,
         NEW j \in Keys, NEW k \in Keys, NEW l \in Keys,
         Has(coll, j), Has(coll, k), Has(coll, l)
  PROVE  /\ Precedes(coll, order, j, k) => ~Precedes(coll, order, k, j)
         /\ Precedes(coll, order, j, k) /\ Precedes(coll, order, k, l)
              => Precedes(coll, order, j, l)
         /\ j # k => Precedes(coll, order, j, k) \/ Precedes(coll, order, k, j)
<1> DEFINE places == 1 .. Len(order)
           Told(n, x, y) == ToldAt(coll, order, n, x, y)
           Same(x, y) == AllAlike(coll, order, x, y)
           Lower(x, y) == Below(KeyValue[x], KeyValue[y])
<1>1. Len(order) \in Nat /\ \A n \in places : order[n] \in Fields
  OBVIOUS
<1>2. \A x, y : Precedes(coll, order, x, y) <=>
                  (\E n \in places : Told(n, x, y)) \/ (Same(x, y) /\ Lower(x, y))
  BY PrecedesByField
<1>3. ASSUME NEW n \in places, NEW m \in places, Told(n, j, k), Told(m, k, j) PROVE FALSE
  <2>1. Ahead(coll, order[n], j, k) => ~Ahead(coll, order[n], k, j)
    BY <1>1, AheadIsWeakOrder
  <2>2. n < m => Alike(coll, order[n], k, j)
    BY <1>3 DEF ToldAt
  <2>3. m < n => Alike(coll, order[m], j, k)
    BY <1>3 DEF ToldAt
  <2> QED
    BY <1>3, <2>1, <2>2, <2>3 DEF ToldAt, Alike
<1>4. ASSUME NEW n \in places, Told(n, j, k) PROVE ~Same(k, j)
  BY <1>4 DEF ToldAt, AllAlike, Alike
<1>5. ASSUME NEW n \in places, Told(n, k, j) PROVE ~Same(j, k)
  BY <1>5 DEF ToldAt, AllAlike, Alike
<1>6. Lower(j, k) => ~Lower(k, j)
  BY KeysOrdered
<1>7. Precedes(coll, order, j, k) => ~Precedes(coll, order, k, j)
  <2> HIDE DEF Told, Same, Lower
  <2> QED
    BY <1>2, <1>3, <1>4, <1>5, <1>6
<1>8. ASSUME NEW n \in places
      PROVE  /\ Alike(coll, order[n], j, k) /\ Alike(coll, order[n], k, l)
                  => Alike(coll, order[n], j, l)
             /\ Alike(coll, order[n], j, k) /\ Ahead(coll, order[n], k, l)
                  => Ahead(coll, order[n], j, l)
             /\ Ahead(coll, order[n], j, k) /\ Alike(coll, order[n], k, l)
                  => Ahead(coll, order[n], j, l)
             /\ Ahead(coll, order[n], j, k) /\ Ahead(coll, order[n], k, l)
                  => Ahead(coll, order[n], j, l)
  BY <1>1, AlikeIsEquivalence
<1>9. ASSUME NEW n \in places, NEW m \in places, Told(n, j, k), Told(m, k, l)
      PROVE  \E i \in places : Told(i, j, l)
  <2>1. CASE n < m
    <3>1. Ahead(coll, order[n], j, l)
      BY <1>8, <1>9, <2>1 DEF ToldAt
    <3>2. \A i \in 1 .. n - 1 : i \in places /\ i \in 1 .. m - 1
      BY <2>1
    <3>3. \A i \in 1 .. n - 1 : Alike(coll, order[i], j, l)
      BY <1>8, <1>9, <3>2 DEF ToldAt
    <3> QED
      BY <3>1, <3>3 DEF ToldAt
  <2>2. CASE ~(n < m)
    <3>1. Ahead(coll, order[m], j, l)
      <4>1. n = m \/ m \in 1 .. n - 1
        BY <2>2
      <4> QED
        BY <1>8, <1>9, <4>1 DEF ToldAt
    <3>2. \A i \in 1 .. m - 1 : i \in places /\ i \in 1 .. n - 1
      BY <2>2
    <3>3. \A i \in 1 .. m - 1 : Alike(coll, order[i], j, l)
      BY <1>8, <1>9, <3>2 DEF ToldAt
    <3> QED
      BY <3>1, <3>3 DEF ToldAt
  <2> QED
    BY <2>1, <2>2
<1>10. ASSUME NEW n \in places, Told(n, j, k), Same(k, l) PROVE Told(n, j, l)
  <2>1. \A i \in 1 .. n - 1 : i \in places
    OBVIOUS
  <2> QED
    BY <1>8, <1>10, <2>1 DEF ToldAt, AllAlike
<1>11. ASSUME NEW n \in places, Same(j, k), Told(n, k, l) PROVE Told(n, j, l)
  <2>1. \A i \in 1 .. n - 1 : i \in places
    OBVIOUS
  <2> QED
    BY <1>8, <1>11, <2>1 DEF ToldAt, AllAlike
<1>12. Same(j, k) /\ Same(k, l) => Same(j, l)
  BY <1>8 DEF AllAlike
<1>13. Lower(j, k) /\ Lower(k, l) => Lower(j, l)
  BY KeysOrdered
<1>14. Precedes(coll, order, j, k) /\ Precedes(coll, order, k, l) => Precedes(coll, order, j, l)
  <2> HIDE DEF Told, Same, Lower
  <2> QED
    BY <1>2, <1>9, <1>10, <1>11, <1>12, <1>13
<1>15. ASSUME j # k PROVE Precedes(coll, order, j, k) \/ Precedes(coll, order, k, j)
  <2>1. CASE Same(j, k)
    <3>1. Same(k, j)
      BY <2>1 DEF AllAlike, Alike
    <3>2. Lower(j, k) \/ Lower(k, j)
      BY <1>15, KeysOrdered
    <3> QED
      BY <1>2, <2>1, <3>1, <3>2
  <2>2. CASE ~Same(j, k)
    <3>1. PICK n \in places : /\ ~Alike(coll, order[n], j, k)
                             /\ \A m \in 1 .. n - 1 : Alike(coll, order[m], j, k)
      BY <1>1, <2>2, AlikeOrTold
    <3>2. Told(n, j, k) \/ Told(n, k, j)
      BY <3>1 DEF ToldAt, Alike
    <3> QED
      BY <1>2, <3>2
  <2> QED
    BY <2>1, <2>2
<1> QED
  BY <1>7, <1>14, <1>15

(* The comparison of sort is that order. *)
LEMMA SortsAsPromised ==
  ASSUME NEW coll \in CollectionType, NEW order \in Seq(Fields), order # <<>>,
         NEW k \in Keys, NEW l \in Keys, Has(coll, k), Has(coll, l)
  PROVE  SortsBefore(coll, order, k, l) <=> Precedes(coll, order, k, l)
<1> DEFINE places == 1 .. Len(order)
           compared(n) == CompareField(coll, order[n], k, l)
           telling == {n \in places : compared(n) # 0}
           first == CHOOSE n \in telling : \A m \in telling : n <= m
<1>1. Len(order) \in Nat /\ \A n \in places : order[n] \in Fields
  OBVIOUS
<1>2. \A n \in places :
        /\ compared(n) = 0 <=> Alike(coll, order[n], k, l)
        /\ Ahead(coll, order[n], k, l) <=>
             IF order[n].direction = "asc" THEN compared(n) < 0 ELSE compared(n) > 0
  BY <1>1, FieldCompared
<1>3. CompareJson(KeyValue[k], KeyValue[l]) < 0 <=> Below(KeyValue[k], KeyValue[l])
  <2>1. KeyValue[k] \in Values /\ KeyValue[l] \in Values
    BY QueriesAssumption DEF QueriesAssumption
  <2> QED
    BY <2>1, ComparesByClass
<1>4. SortsBefore(coll, order, k, l) <=>
        IF telling = {} THEN CompareJson(KeyValue[k], KeyValue[l]) < 0
        ELSE IF order[first].direction = "asc" THEN compared(first) < 0 ELSE compared(first) > 0
  BY DEF SortsBefore
<1> HIDE DEF compared
<1>5. CASE telling = {}
  <2>1. AllAlike(coll, order, k, l)
    BY <1>2, <1>5 DEF AllAlike
  <2>2. \A n \in places : ~ToldAt(coll, order, n, k, l)
    BY <2>1 DEF ToldAt, AllAlike, Alike
  <2>3. Precedes(coll, order, k, l) <=> Below(KeyValue[k], KeyValue[l])
    BY <2>1, <2>2, PrecedesByField
  <2>4. SortsBefore(coll, order, k, l) <=> CompareJson(KeyValue[k], KeyValue[l]) < 0
    BY <1>4, <1>5
  <2> QED
    BY <1>3, <2>3, <2>4
<1>6. CASE telling # {}
  <2>1. telling \in SUBSET Nat
    OBVIOUS
  <2>2. first \in telling /\ \A m \in telling : first <= m
    <3>1. \E n \in telling : \A m \in telling : n <= m
      <4> HIDE DEF telling
      <4> QED
        BY <1>6, <2>1, LeastExists
    <3> HIDE DEF telling
    <3> QED
      BY <3>1
  <2> PICK n : n = first
    OBVIOUS
  <2> HIDE DEF first
  <2>3. n \in places /\ ~Alike(coll, order[n], k, l)
    BY <1>2, <2>2
  <2>4. ASSUME NEW m \in 1 .. n - 1 PROVE Alike(coll, order[m], k, l)
    <3>1. m \in places /\ ~(n <= m)
      BY <2>3
    <3> QED
      BY <1>2, <2>2, <3>1
  <2>5. ~AllAlike(coll, order, k, l)
    BY <2>3 DEF AllAlike
  <2>6. \A i \in places : ToldAt(coll, order, i, k, l) => i = n
    <3> SUFFICES ASSUME NEW i \in places, ToldAt(coll, order, i, k, l) PROVE i = n
      OBVIOUS
    <3>1. ~(i < n)
      <4>1. i \in 1 .. n - 1 => Alike(coll, order[i], k, l)
        BY <2>4
      <4>2. Ahead(coll, order[i], k, l)
        BY DEF ToldAt
      <4>3. i \notin 1 .. n - 1
        BY <4>1, <4>2 DEF Alike
      <4> QED
        BY <2>3, <4>3
    <3>2. ~(n < i)
      BY <2>3 DEF ToldAt
    <3> QED
      BY <2>3, <3>1, <3>2
  <2>7. ToldAt(coll, order, n, k, l) <=> Ahead(coll, order[n], k, l)
    BY <2>4 DEF ToldAt
  <2>8. Precedes(coll, order, k, l) <=> Ahead(coll, order[n], k, l)
    BY <2>3, <2>5, <2>6, <2>7, PrecedesByField
  <2>9. SortsBefore(coll, order, k, l) <=>
          IF order[n].direction = "asc" THEN compared(n) < 0 ELSE compared(n) > 0
    BY <1>4, <1>6
  <2> QED
    BY <1>2, <2>3, <2>8, <2>9
<1> QED
  BY <1>5, <1>6

-----------------------------------------------------------------------------
(* What is kept of a sequence keeps its order. *)
Keeps(t, s, chosen) ==
  /\ Elements(t) = Elements(s) \cap chosen
  /\ \A i, j \in 1 .. Len(t) : i < j =>
       \E a, b \in 1 .. Len(s) : a < b /\ t[i] = s[a] /\ t[j] = s[b]

LEMMA PickedInOrder ==
  ASSUME NEW S, NEW s \in Seq(S), NEW chosen
  PROVE  Picked(s, chosen) \in Seq(S) /\ Keeps(Picked(s, chosen), s, chosen)
<1> PICK m \in Nat : m = Len(s)
  OBVIOUS
<1>1. \A i \in 1 .. m : s[i] \in S
  OBVIOUS
<1>2. PICK p \in [0 .. m -> Seq(S)] : PickTrace(p, s, chosen)
  BY PickedTrace
<1> DEFINE Kept(i) == \A x : (\E n \in 1 .. Len(p[i]) : p[i][n] = x)
                              <=> (x \in chosen /\ \E a \in 1 .. i : s[a] = x)
           Ordered(i) == \A n, k \in 1 .. Len(p[i]) : n < k =>
                           \E a, b \in 1 .. i : a < b /\ p[i][n] = s[a] /\ p[i][k] = s[b]
           Good == {i \in Nat : i <= m => Kept(i) /\ Ordered(i)}
<1>3. 0 \in Good
  <2>1. p[0] = <<>>
    BY <1>2 DEF PickTrace
  <2> QED
    BY <2>1
<1>4. ASSUME NEW i \in Nat, i \in Good PROVE i + 1 \in Good
  <2> SUFFICES ASSUME i + 1 <= m PROVE Kept(i + 1) /\ Ordered(i + 1)
    OBVIOUS
  <2>1. Kept(i) /\ Ordered(i)
    BY <1>4
  <2> HIDE DEF Good
  <2>2. i + 1 \in 1 .. m /\ (i + 1) - 1 = i /\ i \in 0 .. m
    OBVIOUS
  <2>3. p[i] \in Seq(S) /\ s[i + 1] \in S
    BY <1>1, <2>2
  <2>4. p[i + 1] = IF s[i + 1] \in chosen THEN Append(p[i], s[i + 1]) ELSE p[i]
    BY <1>2, <2>2 DEF PickTrace
  <2>5. \A a : a \in 1 .. i + 1 <=> (a \in 1 .. i \/ a = i + 1)
    OBVIOUS
  <2>6. CASE s[i + 1] \in chosen
    <3> PICK len \in Nat : len = Len(p[i])
      BY <2>3
    <3>1. /\ Len(p[i + 1]) = len + 1
          /\ \A n \in 1 .. len : p[i + 1][n] = p[i][n]
          /\ p[i + 1][len + 1] = s[i + 1]
      BY <2>3, <2>4, <2>6
    <3>2. \A n : n \in 1 .. len + 1 <=> (n \in 1 .. len \/ n = len + 1)
      OBVIOUS
    <3>3. Kept(i + 1)
      <4> TAKE x
      <4>1. (\E n \in 1 .. len + 1 : p[i + 1][n] = x)
              <=> ((\E n \in 1 .. len : p[i][n] = x) \/ s[i + 1] = x)
        BY <3>1, <3>2
      <4>2. (\E a \in 1 .. i + 1 : s[a] = x) <=> ((\E a \in 1 .. i : s[a] = x) \/ s[i + 1] = x)
        BY <2>5
      <4>3. (\E n \in 1 .. len : p[i][n] = x) <=> (x \in chosen /\ \E a \in 1 .. i : s[a] = x)
        BY <2>1
      <4> QED
        BY <2>6, <3>1, <4>1, <4>2, <4>3
    <3>4. ASSUME NEW n \in 1 .. len + 1, NEW k \in 1 .. len + 1, n < k
          PROVE  \E a, b \in 1 .. i + 1 : a < b /\ p[i + 1][n] = s[a] /\ p[i + 1][k] = s[b]
      <4>1. n \in 1 .. len
        BY <3>4
      <4>2. CASE k \in 1 .. len
        <5>1. PICK a \in 1 .. i, b \in 1 .. i : a < b /\ p[i][n] = s[a] /\ p[i][k] = s[b]
          BY <2>1, <3>4, <4>1, <4>2
        <5>2. a \in 1 .. i + 1 /\ b \in 1 .. i + 1
          OBVIOUS
        <5> QED
          BY <3>1, <4>1, <4>2, <5>1, <5>2
      <4>3. CASE k = len + 1
        <5>1. \E c \in 1 .. len : p[i][c] = p[i][n]
          BY <4>1
        <5>2. PICK a \in 1 .. i : s[a] = p[i][n]
          BY <2>1, <5>1
        <5>3. a \in 1 .. i + 1 /\ i + 1 \in 1 .. i + 1 /\ a < i + 1
          OBVIOUS
        <5> QED
          BY <3>1, <4>1, <4>3, <5>2, <5>3
      <4> QED
        BY <3>2, <4>2, <4>3
    <3> QED
      BY <3>1, <3>3, <3>4
  <2>7. CASE s[i + 1] \notin chosen
    <3>1. p[i + 1] = p[i] /\ 1 .. i \subseteq 1 .. i + 1
      BY <2>4, <2>7
    <3>2. Kept(i + 1)
      BY <2>1, <2>5, <2>7, <3>1
    <3>3. Ordered(i + 1)
      BY <2>1, <3>1
    <3> QED
      BY <3>2, <3>3
  <2> QED
    BY <2>6, <2>7
<1> HIDE DEF Good
<1>5. m \in Good
  BY <1>3, <1>4, SetInduction
<1>6. p[m] = Picked(s, chosen) /\ p[m] \in Seq(S)
  BY <1>2 DEF PickTrace
<1>7. Kept(m) /\ Ordered(m)
  <2> HIDE DEF Kept, Ordered
  <2> QED
    BY <1>5 DEF Good
<1>8. Elements(p[m]) = Elements(s) \cap chosen
  <2>1. \A x : x \in Elements(p[m]) <=> \E n \in 1 .. Len(p[m]) : p[m][n] = x
    BY DEF Elements
  <2>2. \A x : x \in Elements(s) <=> \E n \in 1 .. m : s[n] = x
    BY DEF Elements
  <2> QED
    BY <1>7, <2>1, <2>2
<1>9. \A i, j \in 1 .. Len(p[m]) : i < j =>
        \E a, b \in 1 .. Len(s) : a < b /\ p[m][i] = s[a] /\ p[m][j] = s[b]
  BY <1>7
<1> HIDE DEF Kept, Ordered
<1> PICK picked : picked = p[m]
  OBVIOUS
<1> QED
  BY <1>6, <1>8, <1>9 DEF Keeps

(* The keys of a consistent collection, by their places in the order *)
LEMMA PlacesInOrder ==
  ASSUME NEW coll \in CollectionType, OrderListsRecords(coll)
  PROVE  /\ coll.order \in Seq(Keys) /\ Len(coll.order) \in Nat
         /\ Elements(coll.order) = {k \in Keys : Has(coll, k)}
         /\ \A n \in 1 .. Len(coll.order) : IndexInOrder(coll.order, coll.order[n]) = n
         /\ \A k \in Keys : Has(coll, k) =>
              /\ IndexInOrder(coll.order, k) \in 1 .. Len(coll.order)
              /\ coll.order[IndexInOrder(coll.order, k)] = k
<1>1. coll.order \in Seq(Keys) /\ Len(coll.order) \in Nat
  BY DEF CollectionType
<1>2. \A n \in 1 .. Len(coll.order) : coll.order[n] \in Keys
  BY <1>1
<1>3. ASSUME NEW k \in Keys, Has(coll, k)
      PROVE  /\ IndexInOrder(coll.order, k) \in 1 .. Len(coll.order)
             /\ coll.order[IndexInOrder(coll.order, k)] = k
  <2>1. \E n \in 1 .. Len(coll.order) : coll.order[n] = k
    BY <1>3 DEF OrderListsRecords
  <2> QED
    BY <2>1 DEF IndexInOrder
<1>4. ASSUME NEW n \in 1 .. Len(coll.order) PROVE Has(coll, coll.order[n])
  BY <1>2 DEF OrderListsRecords
<1>5. ASSUME NEW n \in 1 .. Len(coll.order)
      PROVE  IndexInOrder(coll.order, coll.order[n]) = n
  BY <1>2, <1>3, <1>4 DEF OrderListsRecords
<1>6. Elements(coll.order) = {k \in Keys : Has(coll, k)}
  BY <1>2, <1>4 DEF Elements, OrderListsRecords
<1> QED
  BY <1>1, <1>3, <1>5, <1>6

-----------------------------------------------------------------------------
(* Every plan offers what the condition accepts, in insertion order. *)
Offers(coll, condition, s) ==
  /\ s \in Seq(Keys)
  /\ Accepted(coll, condition) \subseteq Elements(s)
  /\ \A m, n \in 1 .. Len(s) :
       m < n /\ s[m] \in Accepted(coll, condition) /\ s[n] \in Accepted(coll, condition) =>
         IndexInOrder(coll.order, s[m]) < IndexInOrder(coll.order, s[n])
  /\ Len(s) <= Len(coll.order) \/ Len(s) <= 1

(* An equality accepts the documents whose value it names. *)
LEMMA EqualityAccepts ==
  ASSUME NEW coll, NEW condition, condition.op = "eq", NEW k
  PROVE  Accepts(coll, condition, k) <=> ReadPath(coll, k, condition.path) = condition.value
<1>1. Accepts(coll, condition, k) = Holds(coll, condition, k)
  BY DEF Accepts
<1>2. Holds(coll, condition, k) = (ReadPath(coll, k, condition.path) = condition.value)
  BY DEF Holds
<1> QED
  BY <1>1, <1>2

LEMMA ScanOffers ==
  ASSUME NEW coll \in CollectionType, OrderListsRecords(coll), NEW condition
  PROVE  Offers(coll, condition, coll.order)
<1>1. /\ coll.order \in Seq(Keys) /\ Len(coll.order) \in Nat
      /\ Elements(coll.order) = {k \in Keys : Has(coll, k)}
      /\ \A n \in 1 .. Len(coll.order) : IndexInOrder(coll.order, coll.order[n]) = n
  BY PlacesInOrder
<1>2. Accepted(coll, condition) \subseteq {k \in Keys : Has(coll, k)}
  BY DEF Accepted
<1> QED
  BY <1>1, <1>2 DEF Offers

LEMMA KeyOffers ==
  ASSUME NEW coll, Len(coll.order) \in Nat, NEW condition, condition.op = "eq",
         condition.path = PrimaryPath
  PROVE  Offers(coll, condition, Candidates(coll, [strategy |-> "primary"], condition))
<1> DEFINE named == CHOOSE k \in Keys : KeyValue[k] = condition.value
<1>1. ASSUME NEW k \in Accepted(coll, condition) PROVE k \in Keys /\ KeyValue[k] = condition.value
  BY EqualityAccepts DEF Accepted, ReadPath
<1>2. Candidates(coll, [strategy |-> "primary"], condition)
        = IF \E k \in Keys : KeyValue[k] = condition.value THEN <<named>> ELSE <<>>
  BY DEF Candidates
<1>3. CASE \E k \in Keys : KeyValue[k] = condition.value
  <2>1. named \in Keys /\ KeyValue[named] = condition.value
    BY <1>3
  <2>2. \A k \in Accepted(coll, condition) : k = named
    BY <1>1, <2>1, QueriesAssumption DEF QueriesAssumption
  <2> HIDE DEF named
  <2> PICK s : s = <<named>>
    OBVIOUS
  <2>3. s \in Seq(Keys) /\ Len(s) = 1 /\ s[1] = named
    BY <2>1
  <2>4. \A n \in 1 .. Len(s) : n = 1
    BY <2>3
  <2>5. named \in Elements(s)
    BY <2>3 DEF Elements
  <2>6. Offers(coll, condition, s)
    BY <2>2, <2>3, <2>4, <2>5 DEF Offers
  <2> QED
    BY <1>2, <1>3, <2>6
<1>4. CASE ~ \E k \in Keys : KeyValue[k] = condition.value
  <2>1. Accepted(coll, condition) = {}
    BY <1>1, <1>4
  <2> PICK s : s = <<>>
    OBVIOUS
  <2>2. s \in Seq(Keys) /\ Len(s) = 0
    OBVIOUS
  <2>3. Offers(coll, condition, s)
    BY <2>1, <2>2 DEF Offers
  <2> QED
    BY <1>2, <1>4, <2>3
<1> QED
  BY <1>3, <1>4

(* A set of listed keys can be listed, each once. *)
LEMMA ListsSet ==
  ASSUME NEW T, NEW t \in Seq(T), NEW S \in SUBSET Elements(t)
  PROVE  /\ SetToSeq(S) \in Seq(S) /\ Distinct(SetToSeq(S))
         /\ Elements(SetToSeq(S)) = S
         /\ Len(SetToSeq(S)) <= Len(t)
<1> PICK m \in Nat : m = Len(t)
  OBVIOUS
<1> DEFINE f == [n \in 1 .. m |-> t[n]]
<1>1. f \in Surjection(1 .. m, Elements(t))
  BY DEF Surjection, Elements
<1> HIDE DEF f
<1>2. IsFiniteSet(1 .. m) /\ Cardinality(1 .. m) = m
  BY PlacesCounted
<1>3. IsFiniteSet(Elements(t)) /\ Cardinality(Elements(t)) <= m
  BY <1>1, <1>2, FS_Surjection
<1>4. IsFiniteSet(S) /\ Cardinality(S) <= Cardinality(Elements(t))
  BY <1>3, FS_Subset
<1>5. /\ Cardinality(S) \in Nat /\ Cardinality(Elements(t)) \in Nat
      /\ ExistsBijection(1 .. Cardinality(S), S)
  BY <1>3, <1>4, FS_CardinalityType
<1> PICK size \in Nat : size = Cardinality(S)
  BY <1>5
<1>6. \E g \in [1 .. size -> S] : IsInjective(g)
  BY <1>5 DEF ExistsBijection, Bijection, Injection
<1>7. SetToSeq(S) \in [1 .. size -> S] /\ IsInjective(SetToSeq(S))
  BY <1>6 DEF SetToSeq
<1> PICK s : s = SetToSeq(S)
  OBVIOUS
<1>8. s \in Seq(S) /\ Len(s) = size
  BY <1>7
<1>9. Distinct(s)
  BY <1>7, <1>8 DEF IsInjective, Distinct
<1>10. IsFiniteSet(1 .. size) /\ Cardinality(1 .. size) = size
  BY PlacesCounted
<1>11. s \in Injection(1 .. size, S)
  BY <1>7 DEF Injection
<1>12. s \in Surjection(1 .. size, S)
  BY <1>4, <1>10, <1>11, FS_Injection
<1>13. Elements(s) = S
  BY <1>8, <1>12 DEF Elements, Surjection
<1>14. size <= m
  BY <1>3, <1>4, <1>5
<1> QED
  BY <1>8, <1>9, <1>13, <1>14

(* A bucket, sorted by the positions of its keys, is in insertion order. *)
LEMMA BucketSorted ==
  ASSUME NEW coll \in CollectionType, OrderListsRecords(coll), PositionsRankOrder(coll),
         NEW bucket \in SUBSET {k \in Keys : Has(coll, k)}
  PROVE  /\ BucketInOrder(coll, bucket) \in Seq(bucket)
         /\ Elements(BucketInOrder(coll, bucket)) = bucket
         /\ Len(BucketInOrder(coll, bucket)) <= Len(coll.order)
         /\ \A m, n \in 1 .. Len(BucketInOrder(coll, bucket)) : m < n =>
              IndexInOrder(coll.order, BucketInOrder(coll, bucket)[m])
                < IndexInOrder(coll.order, BucketInOrder(coll, bucket)[n])
<1> DEFINE before == {kl \in bucket \X bucket : coll.positions[kl[1]] < coll.positions[kl[2]]}
           at(k) == IndexInOrder(coll.order, k)
<1>1. /\ coll.order \in Seq(Keys) /\ Len(coll.order) \in Nat
      /\ Elements(coll.order) = {k \in Keys : Has(coll, k)}
      /\ \A k \in bucket : at(k) \in 1 .. Len(coll.order) /\ coll.order[at(k)] = k
  BY PlacesInOrder
<1>2. /\ SetToSeq(bucket) \in Seq(bucket) /\ Distinct(SetToSeq(bucket))
      /\ Elements(SetToSeq(bucket)) = bucket
      /\ Len(SetToSeq(bucket)) <= Len(coll.order)
  BY <1>1, ListsSet
<1> HIDE DEF at
<1>3. \A k, l \in bucket : <<k, l>> \in before <=> at(k) < at(l)
  <2> SUFFICES ASSUME NEW k \in bucket, NEW l \in bucket
               PROVE  coll.positions[k] < coll.positions[l] <=> at(k) < at(l)
    OBVIOUS
  <2>1. /\ at(k) \in 1 .. Len(coll.order) /\ coll.order[at(k)] = k
        /\ at(l) \in 1 .. Len(coll.order) /\ coll.order[at(l)] = l
    BY <1>1
  <2>2. coll.positions[k] \in Int /\ coll.positions[l] \in Int
    BY DEF CollectionType, NoPosition
  <2>3. at(k) < at(l) => coll.positions[k] < coll.positions[l]
    BY <2>1 DEF PositionsRankOrder
  <2>4. at(l) < at(k) => coll.positions[l] < coll.positions[k]
    BY <2>1 DEF PositionsRankOrder
  <2>5. at(k) = at(l) => k = l
    BY <2>1
  <2> QED
    BY <2>1, <2>2, <2>3, <2>4, <2>5
<1>4. Orders(before, bucket)
  <2>1. \A k, l \in bucket : k # l => at(k) # at(l)
    BY <1>1
  <2>2. \A k \in bucket : at(k) \in Nat
    BY <1>1
  <2> HIDE DEF before
  <2> QED
    BY <1>3, <2>1, <2>2 DEF Orders
<1> HIDE DEF before
<1> PICK s : s = Sorted(SetToSeq(bucket), before)
  OBVIOUS
<1>5. /\ s \in Seq(bucket) /\ Len(s) = Len(SetToSeq(bucket))
      /\ Elements(s) = Elements(SetToSeq(bucket)) /\ Ascends(s, before)
  BY <1>2, <1>4, SortedAscends
<1>6. \A m, n \in 1 .. Len(s) : m < n => at(s[m]) < at(s[n])
  <2>1. \A n \in 1 .. Len(s) : s[n] \in bucket
    BY <1>5
  <2> QED
    BY <1>3, <1>5, <2>1 DEF Ascends
<1>7. BucketInOrder(coll, bucket) = s
  BY DEF BucketInOrder, before
<1> QED
  BY <1>2, <1>5, <1>6, <1>7 DEF at

LEMMA IndexOffers ==
  ASSUME NEW coll \in CollectionType, Consistent(coll),
         NEW condition \in Asked, condition.op = "eq",
         NEW i \in Indexes, PathOf[i] = condition.path
  PROVE  Offers(coll, condition,
                Candidates(coll, [strategy |-> "secondary", index |-> i], condition))
<1> DEFINE plan == [strategy |-> "secondary", index |-> i]
<1> PICK x : x = EncodeIndexValue(condition.value)
  OBVIOUS
<1>1. Candidates(coll, plan, condition)
        = IF x \in IndexKeys THEN BucketInOrder(coll, coll.buckets[i][x]) ELSE <<>>
  BY DEF Candidates
<1>2. /\ condition.value \in Values /\ Primitive(condition.value)
      /\ x \notin {Unindexed, Unindexable}
      /\ condition.path \in Paths /\ condition.path # PrimaryPath
  BY QueriesAssumption DEF QueriesAssumption
<1>3. ASSUME NEW k \in Accepted(coll, condition)
      PROVE  k \in Keys /\ Has(coll, k) /\ IndexKeyOf[i][coll.records[k]] = x
                 /\ x \in IndexKeys
  <2>1. k \in Keys /\ Has(coll, k) /\ ReadPath(coll, k, condition.path) = condition.value
    BY EqualityAccepts DEF Accepted
  <2>2. coll.records[k] \in Docs
    BY <2>1 DEF CollectionType, Has
  <2>3. ValueAt[PathOf[i]][coll.records[k]] = condition.value
    BY <1>2, <2>1 DEF ReadPath
  <2>4. IndexValue(i, coll.records[k]) = x
    BY <1>2, <2>3 DEF IndexValue, Primitive
  <2>5. IndexKeyOf[i][coll.records[k]] = x
    BY <2>2, <2>4, QueriesAssumption DEF QueriesAssumption
  <2>6. IndexKeyOf[i][coll.records[k]] \in IndexKeys \cup {Unindexed, Unindexable}
    BY <2>2, CollectionAssumption DEF CollectionAssumption
  <2> QED
    BY <1>2, <2>1, <2>5, <2>6
<1>4. CASE x \in IndexKeys
  <2> PICK bucket : bucket = coll.buckets[i][x]
    OBVIOUS
  <2>1. bucket = {k \in Keys : Has(coll, k) /\ IndexKeyOf[i][coll.records[k]] = x}
    BY <1>4 DEF Consistent, BucketsIndexRecords
  <2>2. bucket \in SUBSET {k \in Keys : Has(coll, k)}
    BY <2>1
  <2>3. Accepted(coll, condition) \subseteq bucket
    BY <1>3, <2>1
  <2> PICK s : s = BucketInOrder(coll, bucket)
    OBVIOUS
  <2>4. /\ s \in Seq(bucket) /\ Elements(s) = bucket /\ Len(s) <= Len(coll.order)
        /\ \A m, n \in 1 .. Len(s) : m < n =>
             IndexInOrder(coll.order, s[m]) < IndexInOrder(coll.order, s[n])
    BY <2>2, BucketSorted DEF Consistent
  <2>5. s \in Seq(Keys)
    BY <2>2, <2>4
  <2>6. Offers(coll, condition, s)
    BY <2>3, <2>4, <2>5 DEF Offers
  <2> QED
    BY <1>1, <1>4, <2>6
<1>5. CASE x \notin IndexKeys
  <2>1. Accepted(coll, condition) = {}
    BY <1>3, <1>5
  <2> PICK s : s = <<>>
    OBVIOUS
  <2>2. s \in Seq(Keys) /\ Len(s) = 0
    OBVIOUS
  <2>3. Offers(coll, condition, s)
    BY <2>1, <2>2 DEF Offers
  <2> QED
    BY <1>1, <1>5, <2>3
<1> QED
  BY <1>4, <1>5

LEMMA PlanOffers ==
  ASSUME NEW coll \in CollectionType, Consistent(coll), NEW condition \in Asked,
         NEW plan \in {Scan, ChoosePlan(condition)}
  PROVE  Offers(coll, condition, Candidates(coll, plan, condition))
<1>1. CASE plan = Scan
  <2>1. Candidates(coll, plan, condition) = coll.order
    BY <1>1 DEF Candidates, Scan
  <2> QED
    BY <2>1, ScanOffers DEF Consistent
<1>2. CASE plan # Scan
  <2>1. plan = ChoosePlan(condition) /\ condition.op = "eq"
    BY <1>2 DEF ChoosePlan
  <2>2. CASE condition.path = PrimaryPath
    <3>1. plan = [strategy |-> "primary"]
      BY <2>1, <2>2 DEF ChoosePlan
    <3>2. Len(coll.order) \in Nat
      BY DEF CollectionType
    <3> QED
      BY <2>1, <2>2, <3>1, <3>2, KeyOffers
  <2>3. CASE condition.path # PrimaryPath
    <3> DEFINE i == CHOOSE j \in IndexesAt(condition.path) : TRUE
    <3>1. IndexesAt(condition.path) # {} /\ plan = [strategy |-> "secondary", index |-> i]
      BY <1>2, <2>1, <2>3 DEF ChoosePlan
    <3>2. i \in Indexes /\ PathOf[i] = condition.path
      BY <3>1 DEF IndexesAt
    <3> HIDE DEF i
    <3> QED
      BY <2>1, <3>1, <3>2, IndexOffers
  <2> QED
    BY <2>2, <2>3
<1> QED
  BY <1>1, <1>2

-----------------------------------------------------------------------------
(* What _query computes, whatever the plan *)
Matches(coll, plan, query) ==
  Picked(Candidates(coll, plan, query.condition), Accepted(coll, query.condition))

Arranged(coll, plan, query) ==
  LET accepted == Accepted(coll, query.condition)
  IN  IF query.order = <<>> THEN Matches(coll, plan, query)
      ELSE Sorted(Matches(coll, plan, query),
                  {kl \in accepted \X accepted : SortsBefore(coll, query.order, kl[1], kl[2])})

LEMMA PromiseOrders ==
  ASSUME NEW coll \in CollectionType, OrderListsRecords(coll), NEW query \in QueriesAsked
  PROVE  Orders(Promise(coll, query), Accepted(coll, query.condition))
<1> PICK accepted : accepted = Accepted(coll, query.condition)
  OBVIOUS
<1> PICK before : before = Promise(coll, query)
  OBVIOUS
<1>1. \A k, l \in accepted : <<k, l>> \in before <=> Precedes(coll, query.order, k, l)
  BY DEF Promise
<1>2. \A k \in accepted : k \in Keys /\ Has(coll, k)
  BY DEF Accepted
<1>3. CASE query.order = <<>>
  <2> DEFINE at(k) == IndexInOrder(coll.order, k)
  <2>1. \A k \in accepted : at(k) \in 1 .. Len(coll.order) /\ coll.order[at(k)] = k
    BY <1>2, PlacesInOrder
  <2>2. \A k \in accepted : at(k) \in Nat
    BY <2>1, PlacesInOrder
  <2>3. \A k, l \in accepted : k # l => at(k) # at(l)
    BY <2>1
  <2>4. \A k, l \in accepted : <<k, l>> \in before <=> at(k) < at(l)
    BY <1>1, <1>3 DEF Precedes
  <2> HIDE DEF at
  <2>5. Orders(before, accepted)
    BY <2>2, <2>3, <2>4 DEF Orders
  <2> QED
    BY <2>5
<1>4. CASE query.order # <<>>
  <2>1. query.order \in Seq(Fields)
    BY QueriesAssumption DEF QueriesAssumption, Fields
  <2>2. ASSUME NEW j \in accepted, NEW k \in accepted, NEW l \in accepted
        PROVE  /\ Precedes(coll, query.order, j, k) => ~Precedes(coll, query.order, k, j)
               /\ Precedes(coll, query.order, j, k) /\ Precedes(coll, query.order, k, l)
                    => Precedes(coll, query.order, j, l)
               /\ j # k => Precedes(coll, query.order, j, k) \/ Precedes(coll, query.order, k, j)
    BY <1>2, <1>4, <2>1, FieldsOrder
  <2>3. Orders(before, accepted)
    BY <1>1, <2>2 DEF Orders
  <2> QED
    BY <2>3
<1> QED
  BY <1>3, <1>4

LEMMA ArrangedLists ==
  ASSUME NEW coll \in CollectionType, Consistent(coll), NEW query \in QueriesAsked,
         NEW plan \in {Scan, ChoosePlan(query.condition)}
  PROVE  /\ ListsAnswer(coll, query, Arranged(coll, plan, query))
         /\ Len(Arranged(coll, plan, query)) = Len(Matches(coll, plan, query))
<1> PICK accepted : accepted = Accepted(coll, query.condition)
  OBVIOUS
<1> PICK before : before = Promise(coll, query)
  OBVIOUS
<1> PICK s : s = Candidates(coll, plan, query.condition)
  OBVIOUS
<1> PICK picked : picked = Picked(s, accepted)
  OBVIOUS
<1>1. query.condition \in Asked /\ query.order \in Seq(Fields)
  BY QueriesAssumption DEF QueriesAssumption, Fields
<1>2. Offers(coll, query.condition, s)
  BY <1>1, PlanOffers
<1>3. \A k, l \in accepted : <<k, l>> \in before <=> Precedes(coll, query.order, k, l)
  BY DEF Promise
<1>4. \A k \in accepted : k \in Keys /\ Has(coll, k)
  BY DEF Accepted
<1>5. Orders(before, accepted)
  BY PromiseOrders DEF Consistent
<1>6. s \in Seq(Keys)
  BY <1>2 DEF Offers
<1>7. picked \in Seq(Keys) /\ Keeps(picked, s, accepted)
  BY <1>6, PickedInOrder
<1>8. Elements(picked) = accepted
  BY <1>2, <1>7 DEF Offers, Keeps
<1>9. \A n \in 1 .. Len(picked) : picked[n] \in accepted
  BY <1>8 DEF Elements
<1>10. picked \in Seq(accepted)
  BY <1>7, <1>9, SequenceOf
<1>11. ASSUME NEW i \in 1 .. Len(picked), NEW j \in 1 .. Len(picked), i < j
       PROVE  IndexInOrder(coll.order, picked[i]) < IndexInOrder(coll.order, picked[j])
  <2>1. PICK a \in 1 .. Len(s), b \in 1 .. Len(s) : a < b /\ picked[i] = s[a] /\ picked[j] = s[b]
    BY <1>7, <1>11 DEF Keeps
  <2>2. s[a] \in accepted /\ s[b] \in accepted
    BY <1>9, <2>1
  <2> QED
    BY <1>2, <2>1, <2>2 DEF Offers
<1>12. Matches(coll, plan, query) = picked
  BY DEF Matches
<1>13. CASE query.order = <<>>
  <2>1. Arranged(coll, plan, query) = picked
    BY <1>12, <1>13 DEF Arranged
  <2>2. Ascends(picked, before)
    BY <1>3, <1>9, <1>11, <1>13 DEF Ascends, Precedes
  <2>3. ListsAnswer(coll, query, picked)
    BY <1>8, <1>10, <2>2 DEF ListsAnswer
  <2> QED
    BY <1>12, <2>1, <2>3
<1>14. CASE query.order # <<>>
  <2> DEFINE sorting == {kl \in accepted \X accepted :
                           SortsBefore(coll, query.order, kl[1], kl[2])}
  <2>1. sorting = before
    <3>1. before = {kl \in accepted \X accepted : Precedes(coll, query.order, kl[1], kl[2])}
      BY DEF Promise
    <3>2. \A kl \in accepted \X accepted :
            SortsBefore(coll, query.order, kl[1], kl[2]) <=> Precedes(coll, query.order, kl[1], kl[2])
      BY <1>1, <1>4, <1>14, SortsAsPromised
    <3> QED
      BY <3>1, <3>2
  <2>2. Arranged(coll, plan, query) = Sorted(picked, sorting)
    BY <1>12, <1>14 DEF Arranged
  <2>3. Distinct(picked)
    <3> SUFFICES ASSUME NEW i \in 1 .. Len(picked), NEW j \in 1 .. Len(picked),
                        picked[i] = picked[j], i < j
                 PROVE  FALSE
      BY <1>7 DEF Distinct
    <3>1. IndexInOrder(coll.order, picked[i]) < IndexInOrder(coll.order, picked[j])
      BY <1>11
    <3>2. IndexInOrder(coll.order, picked[i]) \in Nat
      BY <1>4, <1>9, PlacesInOrder DEF Consistent
    <3> QED
      BY <3>1, <3>2
  <2> PICK t : t = Sorted(picked, before)
    OBVIOUS
  <2>4. /\ t \in Seq(accepted) /\ Len(t) = Len(picked) /\ Elements(t) = Elements(picked)
        /\ Ascends(t, before)
    BY <1>5, <1>10, <2>3, SortedAscends
  <2>5. ListsAnswer(coll, query, t)
    BY <1>8, <2>4 DEF ListsAnswer
  <2> QED
    BY <1>12, <2>1, <2>2, <2>4, <2>5
<1> QED
  BY <1>13, <1>14

(* How a query ends when its plan offers so many candidates *)
Verdict(coll, query, ceiling, offered) ==
  IF query.limit = 0 THEN Promised(coll, query)
  ELSE IF offered > ceiling.candidates THEN <<"CANDIDATE_LIMIT">>
  ELSE IF query.order # <<>> /\ Cardinality(Accepted(coll, query.condition)) > ceiling.sorted
       THEN <<"SORT_LIMIT">>
  ELSE IF Len(Promised(coll, query)) > ceiling.results THEN <<"RESULT_LIMIT">>
  ELSE Promised(coll, query)

LEMMA Executed ==
  ASSUME NEW coll \in CollectionType, Consistent(coll), NEW query \in QueriesAsked,
         NEW ceiling, NEW plan \in {Scan, ChoosePlan(query.condition)}
  PROVE  Execute(coll, plan, query, ceiling) =
           Verdict(coll, query, ceiling, Len(Candidates(coll, plan, query.condition)))
<1> PICK accepted : accepted = Accepted(coll, query.condition)
  OBVIOUS
<1> PICK t : t = Arranged(coll, plan, query)
  OBVIOUS
<1>1. ListsAnswer(coll, query, t) /\ Len(t) = Len(Matches(coll, plan, query))
  BY ArrangedLists
<1>2. Orders(Promise(coll, query), accepted)
  BY PromiseOrders DEF Consistent
<1>3. query.offset \in Nat /\ query.limit \in Nat \cup {NoLimit} /\ NoLimit \notin Nat
  BY QueriesAssumption DEF QueriesAssumption
<1>4. SubSeq(t, query.offset + 1, LastOfPage(query, Len(t))) = Promised(coll, query)
  BY <1>1, <1>2, <1>3, PageIsPromised
<1>5. /\ t \in Seq(accepted) /\ Elements(t) = accepted /\ Ascends(t, Promise(coll, query))
  BY <1>1 DEF ListsAnswer
<1>6. Len(t) = Cardinality(accepted)
  <2>1. Distinct(t)
    BY <1>2, <1>5, AscentIsDistinct
  <2>2. 0 \in Nat /\ Len(t) \in Int /\ Len(t) <= Len(t)
    BY <1>5
  <2>3. Cardinality(Stretch(t, 0, Len(t))) = IF 0 <= Len(t) THEN Len(t) - 0 ELSE 0
    BY <1>5, <2>1, <2>2, StretchCounted
  <2>4. Stretch(t, 0, Len(t)) = accepted
    BY <1>5 DEF Stretch, Elements
  <2>5. Len(t) \in Nat
    BY <1>5
  <2> QED
    BY <2>3, <2>4, <2>5
<1>7. query.limit = 0 => Promised(coll, query) = <<>>
  <2> SUFFICES ASSUME query.limit = 0
               PROVE  SubSeq(t, query.offset + 1, LastOfPage(query, Len(t))) = <<>>
    BY <1>4
  <2>1. query.limit # NoLimit /\ Len(t) \in Nat
    BY <1>3, <1>5
  <2>2. LastOfPage(query, Len(t)) \in Int /\ LastOfPage(query, Len(t)) < query.offset + 1
    BY <1>3, <2>1 DEF LastOfPage, Lesser
  <2>3. query.offset + 1 \in Int
    BY <1>3
  <2> QED
    BY <2>2, <2>3, SubSeqEmpty
<1>8. Execute(coll, plan, query, ceiling) =
        IF query.limit = 0 THEN <<>>
        ELSE IF Len(Candidates(coll, plan, query.condition)) > ceiling.candidates
        THEN <<"CANDIDATE_LIMIT">>
        ELSE IF query.order # <<>> /\ Len(Matches(coll, plan, query)) > ceiling.sorted
        THEN <<"SORT_LIMIT">>
        ELSE IF Len(SubSeq(t, query.offset + 1, LastOfPage(query, Len(t)))) > ceiling.results
        THEN <<"RESULT_LIMIT">>
        ELSE SubSeq(t, query.offset + 1, LastOfPage(query, Len(t)))
  BY DEF Execute, Arranged, Matches
<1> QED
  BY <1>1, <1>4, <1>6, <1>7, <1>8 DEF Verdict

-----------------------------------------------------------------------------
(* The collections of the root are those queries run on. *)
LEMMA RootServes ==
  ASSUME TypeOK, RootConsistent, NEW c \in Collections
  PROVE  stored[c] \in CollectionType /\ Consistent(stored[c])
BY DEF TypeOK, RootConsistent

(* A plan offers too many candidates only where a scan does. *)
LEMMA OfferBounded ==
  ASSUME NEW coll \in CollectionType, Consistent(coll), NEW query \in QueriesAsked,
         NEW ceiling \in Ceilings,
         Len(Candidates(coll, ChoosePlan(query.condition), query.condition))
           > ceiling.candidates
  PROVE  Len(coll.order) > ceiling.candidates
<1> PICK s : s = Candidates(coll, ChoosePlan(query.condition), query.condition)
  OBVIOUS
<1>1. query.condition \in Asked /\ ceiling.candidates \in Nat \ {0}
  BY QueriesAssumption, CollectionAssumption
<1>2. Offers(coll, query.condition, s)
  BY <1>1, PlanOffers
<1>3. Len(s) \in Nat /\ (Len(s) <= Len(coll.order) \/ Len(s) <= 1)
  BY <1>2 DEF Offers
<1>4. Len(coll.order) \in Nat
  BY DEF CollectionType
<1> QED
  BY <1>1, <1>3, <1>4

LEMMA PromiseHolds ==
  ASSUME NEW coll \in CollectionType, Consistent(coll), NEW query \in QueriesAsked,
         NEW ceiling \in Ceilings
  PROVE  AnswersAsPromised(coll, query, ceiling)
<1> PICK plan : plan = ChoosePlan(query.condition)
  OBVIOUS
<1> PICK offered : offered = Len(Candidates(coll, plan, query.condition))
  OBVIOUS
<1>1. Ask(coll, query, ceiling) = Verdict(coll, query, ceiling, offered)
  BY Executed DEF Ask
<1>2. offered > ceiling.candidates => Len(coll.order) > ceiling.candidates
  BY OfferBounded
<1> QED
  BY <1>1, <1>2 DEF Verdict, AnswersAsPromised

LEMMA PlansAlike ==
  ASSUME NEW coll \in CollectionType, Consistent(coll), NEW query \in QueriesAsked,
         NEW ceiling \in Ceilings
  PROVE  LET scanned == Execute(coll, Scan, query, ceiling)
         IN  scanned = <<"CANDIDATE_LIMIT">> \/ Ask(coll, query, ceiling) = scanned
<1> PICK plan : plan = ChoosePlan(query.condition)
  OBVIOUS
<1> PICK offered : offered = Len(Candidates(coll, plan, query.condition))
  OBVIOUS
<1>1. Ask(coll, query, ceiling) = Verdict(coll, query, ceiling, offered)
  BY Executed DEF Ask
<1>2. Execute(coll, Scan, query, ceiling) = Verdict(coll, query, ceiling, Len(coll.order))
  <2>1. Candidates(coll, Scan, query.condition) = coll.order
    BY DEF Candidates, Scan
  <2> QED
    BY <2>1, Executed
<1>3. offered > ceiling.candidates => Len(coll.order) > ceiling.candidates
  BY OfferBounded
<1> QED
  BY <1>1, <1>2, <1>3 DEF Verdict

(* Every query that runs is answered with what its condition accepts, in    *)
(* the order asked for, page by page; it is refused for a limit exactly if  *)
(* that is exceeded (_query).                                               *)
THEOREM QueriesAnswerAsPromised == Spec => []QueriesKeepPromise
<1>1. TypeOK /\ RootConsistent => QueriesKeepPromise
  <2> SUFFICES ASSUME TypeOK, RootConsistent, NEW c \in Collections,
                      NEW query \in QueriesAsked, NEW ceiling \in Ceilings
               PROVE  AnswersAsPromised(stored[c], query, ceiling)
    BY DEF QueriesKeepPromise
  <2> PICK coll : coll = stored[c]
    OBVIOUS
  <2>1. coll \in CollectionType /\ Consistent(coll)
    BY RootServes
  <2> QED
    BY <2>1, PromiseHolds
<1> QED
  BY <1>1, TypeCorrect, RootStaysConsistent, PTL

(* The answer does not depend on the plan, but for the number of candidates *)
(* a scan may have too many of (choosePlan).                                *)
THEOREM PlansNeverShow == Spec => []PlansAgree
<1>1. TypeOK /\ RootConsistent => PlansAgree
  <2> SUFFICES ASSUME TypeOK, RootConsistent, NEW c \in Collections,
                      NEW query \in QueriesAsked, NEW ceiling \in Ceilings
               PROVE  LET scanned == Execute(stored[c], Scan, query, ceiling)
                      IN  \/ scanned = <<"CANDIDATE_LIMIT">>
                          \/ Ask(stored[c], query, ceiling) = scanned
    BY DEF PlansAgree
  <2> PICK coll : coll = stored[c]
    OBVIOUS
  <2>1. coll \in CollectionType /\ Consistent(coll)
    BY RootServes
  <2> QED
    BY <2>1, PlansAlike
<1> QED
  BY <1>1, TypeCorrect, RootStaysConsistent, PTL
=============================================================================
