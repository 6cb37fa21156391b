----------------------------- MODULE FoldProofs -----------------------------
(***************************************************************************)
(* Lemmas about FoldLeft, which the library defines by a recursive         *)
(* function over sets of positions: the function exists, and what a fold   *)
(* yields is the end of a trace, one value per position.  A step is        *)
(* given as a function, so that a use only has to unfold its own FoldLeft. *)
(***************************************************************************)
EXTENDS Integers, Sequences, SequencesExt, WellFoundedInduction, TLAPS

(* Induction over the natural numbers, for a set instead of a predicate *)
LEMMA SetInduction ==
  ASSUME NEW S, 0 \in S, \A n \in Nat : n \in S => n + 1 \in S
  PROVE  Nat \subseteq S
<1> DEFINE T == Nat \ S
<1> SUFFICES ASSUME T # {} PROVE FALSE
  OBVIOUS
<1>1. \E x \in T : \A y \in T : ~ (<<y, x>> \in OpToRel(<, Nat))
  BY NatLessThanWellFounded, WFMin
<1>2. PICK x \in T : \A y \in T : ~ (y < x)
  BY <1>1 DEF OpToRel
<1>3. x \in Nat /\ x # 0 /\ x - 1 \in Nat /\ x - 1 < x
  BY <1>2
<1>4. x - 1 \in S
  BY <1>2, <1>3
<1> QED
  BY <1>2, <1>3, <1>4

(* A set of numbers up to a bound has a greatest one. *)
LEMMA MaxBounds ==
  ASSUME NEW m \in Nat, NEW s \in SUBSET (1 .. m), s # {}
  PROVE  Max(s) \in s /\ \A y \in s : Max(s) >= y
<1> DEFINE HasMax(n) == \A r \in SUBSET (1 .. n) : r # {} => \E x \in r : \A y \in r : x >= y
           Good == {n \in Nat : HasMax(n)}
<1>1. 0 \in Good
  <2>1. \A r \in SUBSET (1 .. 0) : r = {}
    OBVIOUS
  <2> QED
    BY <2>1
<1>2. ASSUME NEW n \in Nat, n \in Good PROVE n + 1 \in Good
  <2> SUFFICES ASSUME NEW r \in SUBSET (1 .. n + 1), r # {}
               PROVE  \E x \in r : \A y \in r : x >= y
    OBVIOUS
  <2>1. CASE n + 1 \in r
    BY <2>1
  <2>2. CASE n + 1 \notin r
    <3>1. r \in SUBSET (1 .. n)
      BY <2>2
    <3> QED
      BY <1>2, <3>1
  <2> QED
    BY <2>1, <2>2
<1> HIDE DEF Good
<1>3. Nat \subseteq Good
  BY <1>1, <1>2, SetInduction
<1>4. \E x \in s : \A y \in s : x >= y
  BY <1>3 DEF Good
<1> QED
  BY <1>4 DEF Max

(* g folds the first m positions: the step of a position is st[position]. *)
Folds(g, m, st, base) ==
  \A s \in SUBSET (1 .. m) : g[s] = IF s = {} THEN base ELSE st[Max(s)][g[s \ {Max(s)}]]

CanFold(A, m, st, base) == \E g \in [SUBSET (1 .. m) -> A] : Folds(g, m, st, base)

(* There is a function that does. *)
LEMMA FoldsExist ==
  ASSUME NEW A, NEW base \in A, NEW m \in Nat, NEW st \in [1 .. m -> [A -> A]]
  PROVE  CanFold(A, m, st, base)
<1> DEFINE Good == {n \in Nat : n <= m => CanFold(A, n, st, base)}
<1>1. 0 \in Good
  <2> DEFINE g == [s \in SUBSET (1 .. 0) |-> base]
  <2>1. \A s \in SUBSET (1 .. 0) : s = {}
    OBVIOUS
  <2>2. g \in [SUBSET (1 .. 0) -> A] /\ Folds(g, 0, st, base)
    BY <2>1 DEF Folds
  <2>3. CanFold(A, 0, st, base)
    BY <2>2 DEF CanFold
  <2> QED
    BY <2>3
<1>2. ASSUME NEW n \in Nat, n \in Good PROVE n + 1 \in Good
  <2> SUFFICES ASSUME n + 1 <= m PROVE CanFold(A, n + 1, st, base)
    OBVIOUS
  <2>0. CanFold(A, n, st, base)
    BY <1>2
  <2>1. PICK g \in [SUBSET (1 .. n) -> A] : Folds(g, n, st, base)
    BY <2>0 DEF CanFold
  <2> HIDE DEF Good
  <2> DEFINE h == [s \in SUBSET (1 .. n + 1) |->
                     IF s \in SUBSET (1 .. n) THEN g[s] ELSE st[n + 1][g[s \ {n + 1}]]]
  <2>2. SUBSET (1 .. n) \subseteq SUBSET (1 .. n + 1) /\ n + 1 \in 1 .. m /\ n + 1 \in Nat
    OBVIOUS
  <2>3. \A s \in SUBSET (1 .. n + 1) : s \ {n + 1} \in SUBSET (1 .. n)
    OBVIOUS
  <2>4. h \in [SUBSET (1 .. n + 1) -> A]
    <3>1. st[n + 1] \in [A -> A]
      BY <2>2
    <3> QED
      BY <2>1, <2>3, <3>1
  <2>5. ASSUME NEW s \in SUBSET (1 .. n + 1)
        PROVE  h[s] = IF s = {} THEN base ELSE st[Max(s)][h[s \ {Max(s)}]]
    <3>1. CASE s \in SUBSET (1 .. n)
      <4>1. s \ {Max(s)} \in SUBSET (1 .. n) /\ s \ {Max(s)} \in SUBSET (1 .. n + 1)
        BY <3>1, <2>2
      <4>2. h[s] = g[s] /\ h[s \ {Max(s)}] = g[s \ {Max(s)}]
        BY <3>1, <4>1
      <4>3. g[s] = IF s = {} THEN base ELSE st[Max(s)][g[s \ {Max(s)}]]
        <5> HIDE DEF h
        <5> QED
          BY <2>1, <3>1 DEF Folds
      <4> QED
        BY <4>2, <4>3
    <3>2. CASE s \notin SUBSET (1 .. n)
      <4>1. n + 1 \in s
        <5> HIDE DEF h
        <5> QED
          BY <3>2
      <4>2. Max(s) = n + 1
        <5> HIDE DEF h
        <5>1. Max(s) \in s /\ Max(s) >= n + 1
          BY <2>2, <4>1, MaxBounds
        <5>2. Max(s) \in 1 .. n + 1
          BY <5>1
        <5> QED
          BY <5>1, <5>2
      <4>3. s \ {n + 1} \in SUBSET (1 .. n) /\ s \ {n + 1} \in SUBSET (1 .. n + 1)
        BY <2>2, <2>3
      <4>4. h[s] = st[n + 1][g[s \ {n + 1}]] /\ h[s \ {n + 1}] = g[s \ {n + 1}]
        BY <3>2, <4>3
      <4> HIDE DEF h
      <4> QED
        BY <4>1, <4>2, <4>4
    <3> QED
      BY <3>1, <3>2
  <2> HIDE DEF h
  <2> QED
    BY <2>4, <2>5 DEF Folds, CanFold
<1> HIDE DEF Good
<1>3. m \in Good
  BY <1>1, <1>2, SetInduction
<1> QED
  BY <1>3 DEF Good

(* Two functions that are equal wherever they were equal one position       *)
(* earlier are equal.                                                       *)
LEMMA SameFolds ==
  ASSUME NEW m \in Nat, NEW f, NEW g, f[{}] = g[{}],
         \A s \in SUBSET (1 .. m) :
           s # {} /\ f[s \ {Max(s)}] = g[s \ {Max(s)}] => f[s] = g[s]
  PROVE  f[1 .. m] = g[1 .. m]
<1> DEFINE Good == {k \in Nat : k <= m => \A s \in SUBSET (1 .. k) : f[s] = g[s]}
<1>1. 0 \in Good
  <2>1. \A s \in SUBSET (1 .. 0) : s = {}
    OBVIOUS
  <2> QED
    BY <2>1
<1>2. ASSUME NEW k \in Nat, k \in Good PROVE k + 1 \in Good
  <2> SUFFICES ASSUME k + 1 <= m, NEW s \in SUBSET (1 .. k + 1), s # {} PROVE f[s] = g[s]
    OBVIOUS
  <2>1. \A r \in SUBSET (1 .. k) : f[r] = g[r]
    BY <1>2
  <2> HIDE DEF Good
  <2>2. k + 1 \in Nat /\ s \in SUBSET (1 .. m)
    OBVIOUS
  <2>3. Max(s) \in s /\ (\A y \in s : Max(s) >= y) /\ Max(s) \in 1 .. k + 1
    BY <2>2, MaxBounds
  <2>4. s \ {Max(s)} \in SUBSET (1 .. k)
    <3> SUFFICES ASSUME NEW y \in s \ {Max(s)} PROVE y \in 1 .. k
      OBVIOUS
    <3>1. y \in 1 .. k + 1 /\ y # Max(s) /\ Max(s) >= y
      BY <2>3
    <3> QED
      BY <2>3, <3>1
  <2> QED
    BY <2>1, <2>2, <2>4
<1> HIDE DEF Good
<1>3. m \in Good /\ 1 .. m \in SUBSET (1 .. m)
  BY <1>1, <1>2, SetInduction
<1> QED
  BY <1>3 DEF Good

(* What a fold passes through, position by position *)
Trace(p, m, st, base) ==
  /\ p[0] = base
  /\ \A i \in 1 .. m : p[i] = st[i][p[i - 1]]

Traced(A, m, st, base, last) ==
  \E p \in [0 .. m -> A] : Trace(p, m, st, base) /\ p[m] = last

LEMMA FoldTrace ==
  ASSUME NEW A, NEW base \in A, NEW m \in Nat, NEW st \in [1 .. m -> [A -> A]],
         NEW g \in [SUBSET (1 .. m) -> A], Folds(g, m, st, base)
  PROVE  Traced(A, m, st, base, g[1 .. m])
<1> DEFINE p == [i \in 0 .. m |-> g[1 .. i]]
<1>1. \A i \in 0 .. m : 1 .. i \in SUBSET (1 .. m)
  OBVIOUS
<1>2. p \in [0 .. m -> A]
  BY <1>1
<1>3. p[0] = base
  <2>1. 1 .. 0 = {} /\ {} \in SUBSET (1 .. m) /\ p[0] = g[1 .. 0]
    OBVIOUS
  <2> QED
    BY <2>1 DEF Folds
<1>4. ASSUME NEW i \in 1 .. m PROVE p[i] = st[i][p[i - 1]]
  <2>1. /\ p[i] = g[1 .. i] /\ p[i - 1] = g[1 .. i - 1]
    OBVIOUS
  <2> HIDE DEF p
  <2>2. i \in 1 .. i /\ i \in Nat /\ (1 .. i) \ {i} = 1 .. i - 1 /\ 1 .. i # {}
    BY SMTT(30)
  <2>3. Max(1 .. i) \in 1 .. i /\ Max(1 .. i) >= i
    BY <2>2, MaxBounds
  <2>4. Max(1 .. i) = i
    BY <2>3
  <2>5. 1 .. i \in SUBSET (1 .. m)
    BY <1>1
  <2>6. g[1 .. i] = IF 1 .. i = {} THEN base
                    ELSE st[Max(1 .. i)][g[(1 .. i) \ {Max(1 .. i)}]]
    BY <2>5 DEF Folds
  <2>7. g[1 .. i] = st[i][g[1 .. i - 1]]
    BY <2>2, <2>4, <2>6
  <2> QED
    BY <2>1, <2>7
<1> HIDE DEF p
<1>5. p[m] = g[1 .. m]
  BY DEF p
<1> QED
  BY <1>2, <1>3, <1>4, <1>5 DEF Trace, Traced

(* Two traces that take the same steps pass through the same values. *)
LEMMA TracesAgree ==
  ASSUME NEW m \in Nat, NEW base, NEW p, NEW q, NEW st, NEW st2,
         Trace(p, m, st, base), Trace(q, m, st2, base),
         \A i \in 1 .. m : st[i] = st2[i]
  PROVE  p[m] = q[m]
<1> DEFINE Good == {i \in Nat : i <= m => p[i] = q[i]}
<1>1. 0 \in Good
  BY DEF Trace
<1>2. ASSUME NEW i \in Nat, i \in Good PROVE i + 1 \in Good
  <2> SUFFICES ASSUME i + 1 <= m PROVE p[i + 1] = q[i + 1]
    OBVIOUS
  <2>1. p[i] = q[i]
    BY <1>2
  <2> HIDE DEF Good
  <2>2. i + 1 \in 1 .. m /\ (i + 1) - 1 = i
    OBVIOUS
  <2>3. p[i + 1] = st[i + 1][p[i]] /\ q[i + 1] = st2[i + 1][q[i]]
    BY <2>2 DEF Trace
  <2> QED
    BY <2>1, <2>2, <2>3
<1> HIDE DEF Good
<1>3. m \in Good
  BY <1>1, <1>2, SetInduction
<1> QED
  BY <1>3 DEF Good

(* One more position takes one more step. *)
LEMMA TraceAppend ==
  ASSUME NEW A, NEW m \in Nat, NEW base, NEW st, NEW st2, NEW x, NEW y,
         Traced(A, m, st, base, x), Traced(A, m + 1, st2, base, y),
         \A i \in 1 .. m : st[i] = st2[i]
  PROVE  y = st2[m + 1][x]
<1>1. PICK p \in [0 .. m -> A] : Trace(p, m, st, base) /\ p[m] = x
  BY DEF Traced
<1>2. PICK q \in [0 .. m + 1 -> A] : Trace(q, m + 1, st2, base) /\ q[m + 1] = y
  BY DEF Traced
<1>3. Trace(q, m, st2, base)
  BY <1>2 DEF Trace
<1>4. p[m] = q[m]
  BY <1>1, <1>3, TracesAgree
<1>5. q[m + 1] = st2[m + 1][q[m]]
  <2>1. m + 1 \in 1 .. m + 1 /\ (m + 1) - 1 = m
    OBVIOUS
  <2> QED
    BY <1>2, <2>1 DEF Trace
<1> QED
  BY <1>1, <1>2, <1>4, <1>5
=============================================================================
