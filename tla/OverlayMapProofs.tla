--------------------------- MODULE OverlayMapProofs ---------------------------
(***************************************************************************)
(* Theorems about OverlayMap, for any keys, values, transactions, depth    *)
(* and threshold.  The argument: only a copy that is not sealed is written *)
(* and it lies under no other map, so a look-up that does not start at the *)
(* copy meets the layers it met before.                                    *)
(***************************************************************************)
EXTENDS OverlayMap, FiniteSetTheorems, FoldProofs

(* Where the look-up of k in h ends *)
Ends(h, k) == \E n \in Deciding(h, k) : \A m \in Deciding(h, k) : n >= m

ChainSound(h) ==
  /\ Len(heap[h].chain) >= 1
  /\ heap[h].chain[Len(heap[h].chain)] = h
  /\ \A i \in 1 .. Len(heap[h].chain) : heap[h].chain[i] \in Live
  /\ \A i \in 1 .. Len(heap[h].chain) - 1 : heap[heap[h].chain[i]].sealed = TRUE
  /\ \A k \in Keys : Ends(h, k)

ChainsSound == \A h \in Live : ChainSound(h)

CopiesSound ==
  /\ heap[root].sealed = TRUE
  /\ \A t \in Txns : copies[t] # None =>
       /\ copies[t] \in Live
       /\ heap[copies[t]].sealed = FALSE
       /\ Len(heap[copies[t]].chain) >= 2
  /\ \A t, u \in Txns : copies[t] # None /\ copies[t] = copies[u] => t = u

(* The chain of a map begins with the chain of each map on it. *)
Nests(h) ==
  \A i \in 1 .. Len(heap[h].chain) :
    /\ Len(heap[heap[h].chain[i]].chain) = i
    /\ \A j \in 1 .. i : heap[heap[h].chain[i]].chain[j] = heap[h].chain[j]

ChainsNest == \A h \in Live : Nests(h)

OverlayInv ==
  /\ TypeOK
  /\ ChainsSound
  /\ ChainsNest
  /\ CopiesSound
  /\ DepthBounded
  /\ SizesCorrect

-----------------------------------------------------------------------------
(* Looking up *)

(* A look-up that ends, ends at the topmost layer that decides. *)
LEMMA MaxEnds ==
  ASSUME NEW h, NEW k, Ends(h, k)
  PROVE  /\ Max(Deciding(h, k)) \in Deciding(h, k)
         /\ \A m \in Deciding(h, k) : Max(Deciding(h, k)) >= m
BY DEF Ends, Max

(* The fields of a map that was created. *)
LEMMA LiveTyped ==
  ASSUME TypeOK
  PROVE  /\ allocated \in Nat /\ allocated <= MaxHandles /\ MaxHandles \in Nat
         /\ \A h \in Live :
              /\ h \in Handles /\ heap[h] \in Layer
              /\ heap[h].chain \in Seq(Handles) /\ Len(heap[h].chain) \in Nat
              /\ heap[h].updates \in [Keys -> Values \cup {Absent}]
              /\ heap[h].deletions \in SUBSET Keys /\ heap[h].size \in Nat
              /\ heap[h].sealed \in BOOLEAN
<1>1. allocated \in Handles /\ MaxHandles \in Nat /\ heap \in [Handles -> Layer]
  BY OverlayAssumption DEF TypeOK
<1>2. Live \subseteq Handles
  BY <1>1 DEF Live, Handles
<1>3. \A h \in Live : heap[h] \in Layer
  BY <1>1, <1>2
<1> QED
  BY <1>1, <1>2, <1>3 DEF Layer, Handles

(* Where a look-up of h ends is a place on the chain of h. *)
LEMMA EndOnChain ==
  ASSUME TypeOK, NEW h \in Live, ChainSound(h), NEW k \in Keys
  PROVE  /\ Max(Deciding(h, k)) \in 1 .. Len(heap[h].chain)
         /\ heap[h].chain[Max(Deciding(h, k))] \in Live
<1>1. heap[h].chain \in Seq(Handles) /\ Len(heap[h].chain) \in Nat
  BY LiveTyped
<1>2. Deciding(h, k) \subseteq 1 .. Len(heap[h].chain)
  BY <1>1 DEF Deciding, ChainSound
<1> QED
  BY <1>2, MaxEnds DEF ChainSound

(* A look-up gives what it gave when the layers it meets decide as before. *)
LEMMA SameLook ==
  ASSUME TypeOK, NEW h \in Live, ChainSound(h), NEW k \in Keys,
         heap'[h].chain = heap[h].chain,
         \A i \in 1 .. Len(heap[h].chain) :
           /\ heap'[heap[h].chain[i]].updates[k] = heap[heap[h].chain[i]].updates[k]
           /\ k \in heap'[heap[h].chain[i]].deletions <=> k \in heap[heap[h].chain[i]].deletions
  PROVE  Get(h, k)' = Get(h, k) /\ Ends(h, k)'
<1>1. Deciding(h, k)' = Deciding(h, k)
  BY DEF Deciding, Decides
<1>2. Get(h, k)' = Get(h, k)
  BY <1>1, EndOnChain DEF Get
<1>3. Ends(h, k)'
  BY <1>1 DEF ChainSound, Ends
<1> QED
  BY <1>2, <1>3

(* The copy h is written at k: it alone changes, and at k alone. *)
Written(h, k) ==
  /\ \A g \in Live : g # h => heap'[g] = heap[g]
  /\ heap'[h].chain = heap[h].chain
  /\ \A j \in Keys \ {k} :
       /\ heap'[h].updates[j] = heap[h].updates[j]
       /\ j \in heap'[h].deletions <=> j \in heap[h].deletions
  /\ heap'[h].updates[k] # Absent \/ k \in heap'[h].deletions

(* A write to a copy is seen at the copy and nowhere else. *)
LEMMA WriteSeenOnce ==
  ASSUME TypeOK, ChainsSound, NEW h \in Live, heap[h].sealed = FALSE, NEW k \in Keys,
         Written(h, k)
  PROVE  \A g \in Live, j \in Keys :
           /\ Get(g, j)' = IF g = h /\ j = k THEN heap'[h].updates[k] ELSE Get(g, j)
           /\ Ends(g, j)'
<1> TAKE g \in Live, j \in Keys
<1>a. /\ heap[g].chain \in Seq(Handles) /\ Len(heap[g].chain) \in Nat /\ Len(heap[g].chain) >= 1
      /\ ChainSound(g) /\ heap[g].chain[Len(heap[g].chain)] = g
  BY LiveTyped DEF ChainsSound, ChainSound
<1>1. \A i \in 1 .. Len(heap[g].chain) : heap[g].chain[i] \in Live
                                       /\ (heap[g].chain[i] = h => g = h)
  <2> TAKE i \in 1 .. Len(heap[g].chain)
  <2>1. CASE i = Len(heap[g].chain)
    BY <1>a, <2>1 DEF ChainSound
  <2>2. CASE i \in 1 .. Len(heap[g].chain) - 1
    BY <1>a, <2>2 DEF ChainSound
  <2> QED
    BY <1>a, <2>1, <2>2
<1>2. heap'[g].chain = heap[g].chain
  BY DEF Written
<1>3. CASE ~(g = h /\ j = k)
  <2>1. \A i \in 1 .. Len(heap[g].chain) :
          /\ heap'[heap[g].chain[i]].updates[j] = heap[heap[g].chain[i]].updates[j]
          /\ j \in heap'[heap[g].chain[i]].deletions <=> j \in heap[heap[g].chain[i]].deletions
    BY <1>1, <1>3 DEF Written
  <2> QED
    BY <1>a, <1>2, <1>3, <2>1, SameLook
<1>4. CASE g = h /\ j = k
  <2> DEFINE top == Len(heap[h].chain)
  <2>1. /\ top \in Deciding(h, k)' /\ \A m \in Deciding(h, k)' : top >= m
    BY <1>a, <1>2, <1>4 DEF Deciding, Decides, Written
  <2>2. Ends(h, k)'
    BY <2>1 DEF Ends
  <2>3. Max(Deciding(h, k)') = top
    <3>1. /\ Max(Deciding(h, k)') \in Deciding(h, k)'
          /\ \A m \in Deciding(h, k)' : Max(Deciding(h, k)') >= m
      BY <2>1 DEF Max
    <3>2. \A m \in Deciding(h, k)' : m \in Nat
      BY <1>a, <1>2, <1>4 DEF Deciding
    <3> QED
      BY <2>1, <3>1, <3>2
  <2>4. heap'[h].chain[top] = h
    BY <1>a, <1>2, <1>4
  <2>5. Get(h, k)' = heap'[h].updates[k]
    BY <2>3, <2>4 DEF Get
  <2> QED
    BY <1>4, <2>2, <2>5
<1> QED
  BY <1>3, <1>4

(* What a step adds or seals is not seen in the maps that are there. *)
LEMMA OldMapsKept ==
  ASSUME TypeOK, ChainsSound,
         \A g \in Live : /\ heap'[g].chain = heap[g].chain
                        /\ heap'[g].updates = heap[g].updates
                        /\ heap'[g].deletions = heap[g].deletions
  PROVE  \A g \in Live, j \in Keys : Get(g, j)' = Get(g, j) /\ Ends(g, j)'
<1> TAKE g \in Live, j \in Keys
<1>1. \A i \in 1 .. Len(heap[g].chain) : heap[g].chain[i] \in Live
  BY DEF ChainsSound, ChainSound
<1> QED
  BY <1>1, SameLook DEF ChainsSound

(* Contents are equal when look-ups are. *)
LEMMA SameContent ==
  ASSUME NEW h, \A k \in Keys : Get(h, k)' = Get(h, k)
  PROVE  Content(h)' = Content(h)
BY DEF Content

-----------------------------------------------------------------------------
(* Iteration *)

(* What an iteration yields: entries, a key and a value each *)
Item == Keys \X Values

(* Appending to a sequence without repetitions what is not in it *)
LEMMA AppendDistinct ==
  ASSUME NEW E, NEW s \in Seq(E), IsInjective(s), NEW k \in E, k \notin ToSet(s)
  PROVE  /\ Append(s, k) \in Seq(E) /\ IsInjective(Append(s, k))
         /\ ToSet(Append(s, k)) = ToSet(s) \cup {k}
<1> PICK r : r = Append(s, k)
  OBVIOUS
<1>1. /\ r \in Seq(E) /\ Len(s) \in Nat
      /\ DOMAIN s = 1 .. Len(s) /\ DOMAIN r = 1 .. Len(s) + 1
      /\ \A i \in 1 .. Len(s) : r[i] = s[i]
      /\ r[Len(s) + 1] = k
  OBVIOUS
<1>2. 1 .. Len(s) + 1 = (1 .. Len(s)) \cup {Len(s) + 1}
  BY <1>1
<1>3. \A i \in 1 .. Len(s) : s[i] # k
  BY <1>1 DEF ToSet
<1> QED
  BY <1>1, <1>2, <1>3 DEF IsInjective, ToSet

(* The concatenation of two sequences without repetitions and without a     *)
(* common element                                                           *)
LEMMA ConcatDistinct ==
  ASSUME NEW E, NEW s \in Seq(E), NEW r \in Seq(E), IsInjective(s), IsInjective(r),
         ToSet(s) \cap ToSet(r) = {}
  PROVE  /\ s \o r \in Seq(E) /\ IsInjective(s \o r)
         /\ ToSet(s \o r) = ToSet(s) \cup ToSet(r)
<1> PICK q : q = s \o r
  OBVIOUS
<1>1. /\ q \in Seq(E) /\ Len(s) \in Nat /\ Len(r) \in Nat
      /\ DOMAIN s = 1 .. Len(s) /\ DOMAIN r = 1 .. Len(r) /\ DOMAIN q = 1 .. Len(s) + Len(r)
      /\ \A i \in 1 .. Len(s) : q[i] = s[i]
      /\ \A i \in 1 .. Len(r) : q[Len(s) + i] = r[i]
  OBVIOUS
<1>2. \A i \in 1 .. Len(s), j \in 1 .. Len(r) : s[i] # r[j]
  BY <1>1 DEF ToSet
<1>3. \A i \in 1 .. Len(s) + Len(r) :
        i \in 1 .. Len(s) \/ \E j \in 1 .. Len(r) : i = Len(s) + j
  <2> TAKE i \in 1 .. Len(s) + Len(r)
  <2>1. CASE i <= Len(s)
    BY <1>1, <2>1
  <2>2. CASE i > Len(s)
    <3>1. i - Len(s) \in 1 .. Len(r) /\ i = Len(s) + (i - Len(s))
      BY <1>1, <2>2
    <3> QED
      BY <3>1
  <2> QED
    BY <1>1, <2>1, <2>2
<1>4. IsInjective(q)
  <2> SUFFICES ASSUME NEW i \in 1 .. Len(s) + Len(r), NEW j \in 1 .. Len(s) + Len(r), q[i] = q[j]
               PROVE  i = j
    BY <1>1 DEF IsInjective
  <2>1. CASE i \in 1 .. Len(s) /\ j \in 1 .. Len(s)
    BY <1>1, <2>1 DEF IsInjective
  <2>2. ASSUME NEW a \in 1 .. Len(r), NEW b \in 1 .. Len(r), i = Len(s) + a, j = Len(s) + b
        PROVE  i = j
    <3>1. r[a] = r[b]
      BY <1>1, <2>2
    <3>2. a = b
      BY <1>1, <3>1 DEF IsInjective
    <3> QED
      BY <2>2, <3>2
  <2>3. ASSUME NEW a \in 1 .. Len(r), i = Len(s) + a, j \in 1 .. Len(s) PROVE FALSE
    BY <1>1, <1>2, <2>3
  <2>4. ASSUME NEW a \in 1 .. Len(r), j = Len(s) + a, i \in 1 .. Len(s) PROVE FALSE
    BY <1>1, <1>2, <2>4
  <2>5. CASE i \in 1 .. Len(s)
    <3>1. j \in 1 .. Len(s) \/ \E b \in 1 .. Len(r) : j = Len(s) + b
      BY <1>3
    <3> QED
      BY <2>1, <2>4, <2>5, <3>1
  <2>6. CASE \E a \in 1 .. Len(r) : i = Len(s) + a
    <3>1. j \in 1 .. Len(s) \/ \E b \in 1 .. Len(r) : j = Len(s) + b
      BY <1>3
    <3> QED
      BY <2>2, <2>3, <2>6, <3>1
  <2>7. i \in 1 .. Len(s) \/ \E a \in 1 .. Len(r) : i = Len(s) + a
    BY <1>3
  <2> QED
    BY <2>5, <2>6, <2>7
<1>5. ToSet(q) = ToSet(s) \cup ToSet(r)
  <2>1. ASSUME NEW k \in ToSet(q) PROVE k \in ToSet(s) \cup ToSet(r)
    BY SMTT(30), <1>1, <1>3 DEF ToSet
  <2>2. ToSet(s) \subseteq ToSet(q)
    <3>1. \A i \in 1 .. Len(s) : i \in 1 .. Len(s) + Len(r)
      BY <1>1
    <3> QED
      BY <1>1, <3>1 DEF ToSet
  <2>3. ToSet(r) \subseteq ToSet(q)
    <3>1. \A i \in 1 .. Len(r) : Len(s) + i \in 1 .. Len(s) + Len(r)
      BY <1>1
    <3> QED
      BY ZenonT(60), <1>1, <3>1 DEF ToSet
  <2> QED
    BY <2>1, <2>2, <2>3
<1> QED
  BY <1>1, <1>4, <1>5

(* SetToSeq lists a finite set, each element once. *)
LEMMA Listing ==
  ASSUME NEW S, IsFiniteSet(S)
  PROVE  /\ SetToSeq(S) \in Seq(S) /\ IsInjective(SetToSeq(S))
         /\ ToSet(SetToSeq(S)) = S
<1> PICK n : n = Cardinality(S)
  OBVIOUS
<1> PICK s : s = SetToSeq(S)
  OBVIOUS
<1>1. n \in Nat /\ ExistsBijection(1 .. n, S)
  BY FS_CardinalityType
<1>2. \E f \in [1 .. n -> S] : IsInjective(f)
  BY <1>1 DEF ExistsBijection, Bijection, Injection, IsInjective
<1>3. s \in [1 .. n -> S] /\ IsInjective(s)
  BY <1>2 DEF SetToSeq
<1>4. IsFiniteSet(1 .. n) /\ Cardinality(1 .. n) = n
  BY <1>1, FS_Interval
<1>5. s \in Injection(1 .. n, S)
  BY <1>3 DEF Injection, IsInjective
<1>6. s \in Surjection(1 .. n, S)
  BY <1>4, <1>5, FS_Injection
<1>7. ToSet(s) = S
  BY <1>3, <1>6 DEF Surjection, ToSet
<1>8. s \in Seq(S)
  BY <1>1, <1>3
<1> QED
  BY <1>3, <1>7, <1>8

(* An entry overlaid by a layer keeps its key. *)
LEMMA OverlaidTyped ==
  ASSUME OverlayInv, NEW g \in Live, NEW e \in Item
  PROVE  Overlaid(e, g) \in Item /\ Overlaid(e, g)[1] = e[1]
<1>1. heap[g].updates \in [Keys -> Values \cup {Absent}]
  BY LiveTyped DEF OverlayInv
<1>2. e[1] \in Keys /\ e[2] \in Values
  BY DEF Item
<1>3. heap[g].updates[e[1]] \in Values \cup {Absent}
  BY <1>1, <1>2
<1> QED
  BY <1>2, <1>3 DEF Overlaid, Item

(* The entries that a layer leaves: they keep their order, and those of the *)
(* keys it deletes are missing.                                             *)
LEMMA KeptTrace ==
  ASSUME OverlayInv, NEW h \in Live, NEW entries \in Seq(Item)
  PROVE  \E p \in [0 .. Len(entries) -> Seq(Item)] :
           /\ p[0] = <<>>
           /\ \A i \in 1 .. Len(entries) :
                p[i] = IF entries[i][1] \in heap[h].deletions THEN p[i - 1]
                       ELSE Append(p[i - 1], Overlaid(entries[i], h))
           /\ p[Len(entries)] = KeptEntries(entries, h)
<1> DEFINE m == Len(entries)
           A == Seq(Item)
           st == [i \in 1 .. m |->
                    [a \in A |-> IF entries[i][1] \in heap[h].deletions THEN a ELSE Append(a, Overlaid(entries[i], h))]]
           f == CHOOSE c : c = [s \in SUBSET (1 .. m) |->
                  IF s = {} THEN <<>>
                  ELSE IF entries[Max(s)][1] \in heap[h].deletions THEN c[s \ {Max(s)}]
                  ELSE Append(c[s \ {Max(s)}], Overlaid(entries[Max(s)], h))]
<1>1. m \in Nat /\ DOMAIN entries = 1 .. m /\ <<>> \in A /\ \A i \in 1 .. m : entries[i] \in Item
  OBVIOUS
<1>2. KeptEntries(entries, h) = f[1 .. m]
  BY <1>1 DEF KeptEntries, FoldLeft, MapThenFoldSet
<1>3. st \in [1 .. m -> [A -> A]]
  <2> SUFFICES ASSUME NEW i \in 1 .. m, NEW a \in A
               PROVE  Append(a, Overlaid(entries[i], h)) \in A
    OBVIOUS
  <2>1. Overlaid(entries[i], h) \in Item
    BY <1>1, OverlaidTyped
  <2> HIDE DEF st, f
  <2> QED
    BY <2>1
<1>4. \A i \in 1 .. m, a \in A :
        st[i][a] = IF entries[i][1] \in heap[h].deletions THEN a ELSE Append(a, Overlaid(entries[i], h))
  OBVIOUS
<1> HIDE DEF st, m, A
<1>5. PICK g \in [SUBSET (1 .. m) -> A] : Folds(g, m, st, <<>>)
  BY <1>1, <1>3, FoldsExist DEF CanFold
<1>6. ASSUME NEW s \in SUBSET (1 .. m)
      PROVE  g[s] = IF s = {} THEN <<>>
                    ELSE IF entries[Max(s)][1] \in heap[h].deletions THEN g[s \ {Max(s)}]
                    ELSE Append(g[s \ {Max(s)}], Overlaid(entries[Max(s)], h))
  <2>1. CASE s = {}
    BY <1>5, <2>1 DEF Folds
  <2>2. CASE s # {}
    <3>1. Max(s) \in 1 .. m /\ s \ {Max(s)} \in SUBSET (1 .. m)
      BY <1>1, <2>2, MaxBounds
    <3>2. g[s \ {Max(s)}] \in A
      BY <3>1
    <3>3. g[s] = st[Max(s)][g[s \ {Max(s)}]]
      BY <1>5, <2>2 DEF Folds
    <3> QED
      BY <1>4, <2>2, <3>1, <3>2, <3>3
  <2> QED
    BY <2>1, <2>2
<1>7. f = [s \in SUBSET (1 .. m) |->
             IF s = {} THEN <<>>
             ELSE IF entries[Max(s)][1] \in heap[h].deletions THEN f[s \ {Max(s)}]
             ELSE Append(f[s \ {Max(s)}], Overlaid(entries[Max(s)], h))]
  <2>1. g = [s \in SUBSET (1 .. m) |->
               IF s = {} THEN <<>>
               ELSE IF entries[Max(s)][1] \in heap[h].deletions THEN g[s \ {Max(s)}]
               ELSE Append(g[s \ {Max(s)}], Overlaid(entries[Max(s)], h))]
    BY <1>6
  <2> QED
    BY <2>1
<1> HIDE DEF f
<1>8. f[1 .. m] = g[1 .. m]
  <2>1. {} \in SUBSET (1 .. m)
    OBVIOUS
  <2>2. f[{}] = g[{}]
    BY <1>6, <1>7, <2>1
  <2>3. ASSUME NEW s \in SUBSET (1 .. m), s # {}, f[s \ {Max(s)}] = g[s \ {Max(s)}]
        PROVE  f[s] = g[s]
    BY <1>6, <1>7, <2>3
  <2> QED
    BY <1>1, <2>2, <2>3, SameFolds
<1>9. m \in Nat /\ <<>> \in A
  BY <1>1
<1>10. g \in [SUBSET (1 .. m) -> A] /\ Folds(g, m, st, <<>>)
  BY <1>5
<1>11. Traced(A, m, st, <<>>, g[1 .. m])
  BY <1>9, <1>3, <1>10, FoldTrace
<1>12. PICK p \in [0 .. m -> A] : Trace(p, m, st, <<>>) /\ p[m] = g[1 .. m]
  BY <1>11 DEF Traced
<1>13. ASSUME NEW i \in 1 .. m
      PROVE  p[i] = IF entries[i][1] \in heap[h].deletions THEN p[i - 1] ELSE Append(p[i - 1], Overlaid(entries[i], h))
  <2>1. i - 1 \in 0 .. m
    BY <1>1
  <2>2. p[i - 1] \in A
    BY <2>1
  <2> QED
    BY <1>4, <1>12, <2>2 DEF Trace
<1>14. p[0] = <<>> /\ p[m] = KeptEntries(entries, h)
  BY <1>2, <1>8, <1>12 DEF Trace
<1> QED
  BY <1>13, <1>14 DEF m, A

(* What a layer leaves of entries with different keys: those whose keys it  *)
(* does not delete, overlaid                                                *)
LEMMA KeptYields ==
  ASSUME OverlayInv, NEW h \in Live, NEW entries \in Seq(Item), IsInjective(entries),
         \A e, d \in ToSet(entries) : e[1] = d[1] => e = d
  PROVE  /\ KeptEntries(entries, h) \in Seq(Item) /\ IsInjective(KeptEntries(entries, h))
         /\ ToSet(KeptEntries(entries, h)) =
              {Overlaid(e, h) : e \in {d \in ToSet(entries) : d[1] \notin heap[h].deletions}}
<1> PICK m : m = Len(entries)
  OBVIOUS
<1> PICK D : D = heap[h].deletions
  OBVIOUS
<1>1. PICK p \in [0 .. m -> Seq(Item)] :
        /\ p[0] = <<>>
        /\ \A i \in 1 .. m : p[i] = IF entries[i][1] \in D THEN p[i - 1]
                                     ELSE Append(p[i - 1], Overlaid(entries[i], h))
        /\ p[m] = KeptEntries(entries, h)
  BY KeptTrace
<1>2. /\ m \in Nat /\ DOMAIN entries = 1 .. m
      /\ \A i \in 1 .. m : entries[i] \in Item /\ entries[i] \in ToSet(entries)
  BY DEF ToSet
<1>3. \A i, j \in 1 .. m : entries[i][1] = entries[j][1] => i = j
  BY <1>2 DEF IsInjective
<1>4. \A i \in 1 .. m : Overlaid(entries[i], h) \in Item
                        /\ Overlaid(entries[i], h)[1] = entries[i][1]
  BY <1>2, OverlaidTyped
<1> DEFINE Left(i) == {j \in 1 .. i : entries[j][1] \notin D}
           Upto(i) == {Overlaid(entries[j], h) : j \in Left(i)}
           Good == {i \in Nat : i <= m => IsInjective(p[i]) /\ ToSet(p[i]) = Upto(i)}
<1>5. 0 \in Good
  <2>1. IsInjective(<<>>) /\ ToSet(<<>>) = {}
    BY DEF IsInjective, ToSet
  <2>2. Upto(0) = {}
    OBVIOUS
  <2> QED
    BY <1>1, <2>1, <2>2
<1>6. ASSUME NEW i \in Nat, i \in Good PROVE i + 1 \in Good
  <2> SUFFICES ASSUME i + 1 <= m
               PROVE  IsInjective(p[i + 1]) /\ ToSet(p[i + 1]) = Upto(i + 1)
    OBVIOUS
  <2>1. IsInjective(p[i]) /\ ToSet(p[i]) = Upto(i)
    BY <1>2, <1>6
  <2>2. 1 .. i + 1 = (1 .. i) \cup {i + 1} /\ i + 1 \in 1 .. m /\ 1 .. i \subseteq 1 .. m
    BY <1>2
  <2>3. /\ p[i + 1] = IF entries[i + 1][1] \in D THEN p[i]
                      ELSE Append(p[i], Overlaid(entries[i + 1], h))
        /\ p[i] \in Seq(Item)
    <3>1. i \in 0 .. m /\ (i + 1) - 1 = i
      BY <1>2
    <3> QED
      BY <1>1, <2>2, <3>1
  <2>4. CASE entries[i + 1][1] \in D
    <3>1. Left(i + 1) = Left(i)
      BY <2>2, <2>4
    <3> HIDE DEF Left, Good
    <3> QED
      BY <2>1, <2>3, <2>4, <3>1
  <2>5. CASE entries[i + 1][1] \notin D
    <3>1. Left(i + 1) = Left(i) \cup {i + 1}
      BY <2>2, <2>5
    <3>2. Upto(i + 1) = Upto(i) \cup {Overlaid(entries[i + 1], h)}
      <4> HIDE DEF Left, Good
      <4> QED
        BY <3>1
    <3>3. Overlaid(entries[i + 1], h) \notin Upto(i)
      <4> SUFFICES ASSUME NEW j \in 1 .. i, Overlaid(entries[i + 1], h) = Overlaid(entries[j], h)
                   PROVE  FALSE
        BY DEF Left, Upto
      <4>1. j \in 1 .. m /\ entries[j][1] = entries[i + 1][1]
        BY <1>4, <2>2
      <4>2. j = i + 1
        BY <1>3, <2>2, <4>1
      <4> QED
        BY <4>2
    <3> HIDE DEF Left, Upto, Good
    <3>4. /\ Overlaid(entries[i + 1], h) \in Item
          /\ Overlaid(entries[i + 1], h) \notin ToSet(p[i])
          /\ p[i] \in Seq(Item) /\ IsInjective(p[i])
      BY <1>4, <2>1, <2>2, <2>3, <3>3
    <3>5. /\ IsInjective(Append(p[i], Overlaid(entries[i + 1], h)))
          /\ ToSet(Append(p[i], Overlaid(entries[i + 1], h)))
               = ToSet(p[i]) \cup {Overlaid(entries[i + 1], h)}
      BY <3>4, AppendDistinct
    <3> QED
      BY <2>1, <2>3, <2>5, <3>2, <3>5
  <2> QED
    BY <2>4, <2>5
<1> HIDE DEF Good
<1>7. m \in Good
  BY <1>2, <1>5, <1>6, SetInduction
<1>8. IsInjective(p[m]) /\ ToSet(p[m]) = Upto(m)
  BY <1>2, <1>7 DEF Good
<1>9. Upto(m) = {Overlaid(e, h) : e \in {d \in ToSet(entries) : d[1] \notin D}}
  <2>1. ToSet(entries) = {entries[j] : j \in 1 .. m}
    BY <1>2 DEF ToSet
  <2>2. {d \in ToSet(entries) : d[1] \notin D} = {entries[j] : j \in Left(m)}
    BY <2>1
  <2> PICK kept : kept = Left(m)
    OBVIOUS
  <2>3. {Overlaid(e, h) : e \in {entries[j] : j \in kept}} = {Overlaid(entries[j], h) : j \in kept}
    OBVIOUS
  <2> QED
    BY <2>2, <2>3
<1>10. p[m] \in Seq(Item)
  BY <1>1, <1>2
<1> QED
  BY <1>1, <1>8, <1>9, <1>10

(* What lies below a map of the chain *)
LEMMA BaseOnChain ==
  ASSUME OverlayInv, NEW h \in Live, NEW c, c = heap[h].chain,
         NEW i \in 1 .. Len(c)
  PROVE  /\ i = 1 => Depth(c[i]) = 0
         /\ i # 1 => Base(c[i]) = c[i - 1] /\ Depth(c[i]) # 0
<1>1. Nests(h) /\ Len(c) \in Nat
  BY LiveTyped DEF OverlayInv, ChainsNest
<1>2. Len(heap[c[i]].chain) = i /\ \A j \in 1 .. i : heap[c[i]].chain[j] = c[j]
  BY <1>1 DEF Nests
<1>3. CASE i = 1
  BY <1>2, <1>3 DEF Depth
<1>4. CASE i # 1
  <2>1. i - 1 \in 1 .. i /\ Depth(c[i]) = i - 1
    BY <1>1, <1>2, <1>4 DEF Depth
  <2> QED
    BY <1>2, <1>4, <2>1 DEF Base
<1> QED
  BY <1>3, <1>4

(* What a layer adds: an entry for each of its new keys, each once *)
LEMMA NewEntriesListed ==
  ASSUME OverlayInv, NEW g \in Live
  PROVE  /\ NewEntries(g) \in Seq(Item) /\ IsInjective(NewEntries(g))
         /\ ToSet(NewEntries(g)) = {<<k, heap[g].updates[k]>> : k \in NewKeys(g)}
<1>1. NewKeys(g) \subseteq Updated(g) /\ Updated(g) \subseteq Keys
  BY DEF NewKeys, Updated, Present
<1>2. IsFiniteSet(NewKeys(g))
  BY <1>1, OverlayAssumption, FS_Subset
<1>3. \A k \in NewKeys(g) : k \in Keys /\ heap[g].updates[k] \in Values
  <2>1. heap[g].updates \in [Keys -> Values \cup {Absent}]
    BY LiveTyped DEF OverlayInv
  <2> QED
    BY <1>1, <2>1 DEF Updated, Present
<1> PICK s : s = SetToSeq(NewKeys(g))
  OBVIOUS
<1> PICK n : n = Len(s)
  OBVIOUS
<1>4. s \in Seq(NewKeys(g)) /\ IsInjective(s) /\ ToSet(s) = NewKeys(g)
  BY <1>2, Listing
<1>5. n \in Nat /\ DOMAIN s = 1 .. n /\ \A i \in 1 .. n : s[i] \in NewKeys(g)
  BY <1>4
<1> PICK r : r = NewEntries(g)
  OBVIOUS
<1>6. r = [i \in 1 .. n |-> <<s[i], heap[g].updates[s[i]]>>]
  BY <1>5 DEF NewEntries
<1> HIDE DEF NewKeys, NewEntries
<1>7. r \in Seq(Item)
  <2>1. r \in [1 .. n -> Item]
    BY <1>3, <1>5, <1>6 DEF Item
  <2> QED
    BY <1>5, <2>1
<1>8. IsInjective(r)
  BY <1>4, <1>5, <1>6 DEF IsInjective
<1>9. ToSet(r) = {<<k, heap[g].updates[k]>> : k \in NewKeys(g)}
  <2> PICK u : u = heap[g].updates
    OBVIOUS
  <2>1. ToSet(r) = {<<s[i], u[s[i]]>> : i \in 1 .. n}
    <3>1. DOMAIN r = 1 .. n /\ \A i \in 1 .. n : r[i] = <<s[i], u[s[i]]>>
      BY <1>6
    <3>2. ToSet(r) = {r[i] : i \in 1 .. n}
      BY <3>1 DEF ToSet
    <3>3. {r[i] : i \in 1 .. n} \subseteq {<<s[i], u[s[i]]>> : i \in 1 .. n}
      <4> SUFFICES ASSUME NEW i \in 1 .. n PROVE r[i] \in {<<s[j], u[s[j]]>> : j \in 1 .. n}
        OBVIOUS
      <4> QED
        BY <3>1
    <3>4. {<<s[i], u[s[i]]>> : i \in 1 .. n} \subseteq {r[i] : i \in 1 .. n}
      <4> SUFFICES ASSUME NEW i \in 1 .. n PROVE <<s[i], u[s[i]]>> \in {r[j] : j \in 1 .. n}
        BY ZenonT(60)
      <4> QED
        BY <3>1
    <3> QED
      BY <3>2, <3>3, <3>4
  <2>2. NewKeys(g) = {s[i] : i \in 1 .. n}
    BY <1>4, <1>5 DEF ToSet
  <2>3. {<<k, u[k]>> : k \in {s[i] : i \in 1 .. n}} = {<<s[i], u[s[i]]>> : i \in 1 .. n}
    OBVIOUS
  <2> QED
    BY <2>1, <2>2, <2>3
<1> QED
  BY <1>7, <1>8, <1>9

(* What a layer answers, in terms of its base: what it updates, and what    *)
(* the base answers for keys that it does not delete.                       *)
LEMMA LayerGets ==
  ASSUME OverlayInv, NEW h \in Live, NEW c, c = heap[h].chain,
         NEW i \in 1 .. Len(c), NEW k \in Keys
  PROVE  /\ i = 1 => Get(c[i], k) = heap[c[i]].updates[k]
         /\ i # 1 => Get(c[i], k) =
                       IF heap[c[i]].updates[k] # Absent THEN heap[c[i]].updates[k]
                       ELSE IF k \in heap[c[i]].deletions THEN Absent
                       ELSE Get(c[i - 1], k)
<1> PICK g : g = c[i]
  OBVIOUS
<1>1. /\ TypeOK /\ ChainsSound /\ Nests(h) /\ Len(c) \in Nat
      /\ \A j \in 1 .. Len(c) : c[j] \in Live
  BY LiveTyped DEF OverlayInv, ChainsSound, ChainSound, ChainsNest
<1>2. /\ g \in Live /\ Ends(g, k)
      /\ Len(heap[g].chain) = i /\ \A j \in 1 .. i : heap[g].chain[j] = c[j]
  BY <1>1 DEF Nests, ChainsSound, ChainSound
<1>3. Deciding(g, k) = {1} \cup {n \in 1 .. i : Decides(c[n], k)}
  BY <1>2 DEF Deciding
<1>4. /\ Max(Deciding(g, k)) \in Deciding(g, k)
      /\ \A m \in Deciding(g, k) : Max(Deciding(g, k)) >= m
      /\ Deciding(g, k) \subseteq 1 .. i
      /\ Get(g, k) = heap[c[Max(Deciding(g, k))]].updates[k]
  <2>1. Deciding(g, k) \subseteq 1 .. i
    BY <1>1, <1>3
  <2>2. /\ Max(Deciding(g, k)) \in Deciding(g, k)
        /\ \A m \in Deciding(g, k) : Max(Deciding(g, k)) >= m
    BY <1>2, MaxEnds
  <2> QED
    BY <1>2, <2>1, <2>2 DEF Get
<1>5. i \in Deciding(g, k) => Max(Deciding(g, k)) = i
  BY <1>1, <1>4
<1>8. CASE i = 1
  BY <1>3, <1>4, <1>5, <1>8
<1>9. CASE i # 1
  <2> PICK b : b = c[i - 1]
    OBVIOUS
  <2>1. i - 1 \in 1 .. Len(c) /\ i - 1 \in Nat /\ i \in Nat
    BY <1>1, <1>9
  <2>3. /\ b \in Live /\ Ends(b, k)
        /\ Len(heap[b].chain) = i - 1 /\ \A j \in 1 .. i - 1 : heap[b].chain[j] = c[j]
    BY <1>1, <2>1 DEF Nests, ChainsSound, ChainSound
  <2>4. CASE Decides(g, k)
    <3>1. i \in Deciding(g, k)
      BY <1>3, <2>4
    <3>2. Get(g, k) = heap[g].updates[k]
      BY <1>4, <1>5, <3>1
    <3> QED
      BY <1>9, <2>4, <3>2 DEF Decides
  <2>5. CASE ~Decides(g, k)
    <3>1. Deciding(b, k) = {1} \cup {n \in 1 .. i - 1 : Decides(c[n], k)}
      BY <2>3 DEF Deciding
    <3>2. Deciding(g, k) = Deciding(b, k)
      BY <1>3, <2>1, <2>5, <3>1
    <3>3. Max(Deciding(b, k)) \in 1 .. i - 1
      <4>1. Deciding(b, k) \subseteq 1 .. i - 1
        BY <1>9, <2>1, <3>1
      <4> QED
        BY <2>3, <4>1, MaxEnds
    <3>4. Get(b, k) = heap[c[Max(Deciding(b, k))]].updates[k]
      BY <2>3, <3>3 DEF Get
    <3>5. Get(g, k) = Get(b, k)
      BY <1>4, <3>2, <3>4
    <3> QED
      BY <1>9, <2>5, <3>5 DEF Decides
  <2> QED
    BY <2>4, <2>5
<1> QED
  BY <1>8, <1>9

(* The iteration, layer by layer from the plain map up *)
LEMMA IterateTrace ==
  ASSUME OverlayInv, NEW h \in Live
  PROVE  \E p \in [0 .. Len(heap[h].chain) -> Seq(Item)] :
           /\ p[0] = <<>>
           /\ \A i \in 1 .. Len(heap[h].chain) :
                p[i] = KeptEntries(p[i - 1], heap[h].chain[i]) \o NewEntries(heap[h].chain[i])
           /\ p[Len(heap[h].chain)] = Iterate(h)
<1> PICK c : c = heap[h].chain
  OBVIOUS
<1> DEFINE m == Len(c)
           A == Seq(Item)
           st == [i \in 1 .. m |->
                    [a \in A |-> KeptEntries(a, c[i]) \o NewEntries(c[i])]]
           f == CHOOSE r : r = [s \in SUBSET (1 .. m) |->
                  IF s = {} THEN <<>>
                  ELSE KeptEntries(r[s \ {Max(s)}], c[Max(s)]) \o NewEntries(c[Max(s)])]
<1>1. m \in Nat /\ DOMAIN c = 1 .. m /\ <<>> \in A
  <2>1. c \in Seq(Handles)
    BY LiveTyped DEF OverlayInv
  <2> QED
    BY <2>1
<1>2. Iterate(h) = f[1 .. m]
  BY <1>1 DEF Iterate, FoldLeft, MapThenFoldSet
<1>3. st \in [1 .. m -> [A -> A]]
  <2> SUFFICES ASSUME NEW i \in 1 .. m, NEW a \in A
               PROVE  KeptEntries(a, c[i]) \o NewEntries(c[i]) \in A
    OBVIOUS
  <2>0. c[i] \in Live
    BY DEF OverlayInv, ChainsSound, ChainSound
  <2>1. KeptEntries(a, c[i]) \in Seq(Item)
    <3>1. Len(a) \in 0 .. Len(a)
      OBVIOUS
    <3> QED
      BY <2>0, <3>1, KeptTrace
  <2>2. NewEntries(c[i]) \in Seq(Item)
    BY <2>0, NewEntriesListed
  <2> HIDE DEF st, f
  <2> QED
    BY <2>1, <2>2
<1>4. \A i \in 1 .. m, a \in A :
        st[i][a] = KeptEntries(a, c[i]) \o NewEntries(c[i])
  OBVIOUS
<1> HIDE DEF st, m, A
<1>5. CanFold(A, m, st, <<>>)
  BY <1>1, <1>3, FoldsExist
<1>6. PICK g \in [SUBSET (1 .. m) -> A] : Folds(g, m, st, <<>>)
  BY <1>5 DEF CanFold
<1>7. ASSUME NEW s \in SUBSET (1 .. m)
      PROVE  g[s] = IF s = {} THEN <<>>
                    ELSE KeptEntries(g[s \ {Max(s)}], c[Max(s)]) \o NewEntries(c[Max(s)])
  <2>1. CASE s = {}
    BY <1>6, <2>1 DEF Folds
  <2>2. CASE s # {}
    <3>1. Max(s) \in 1 .. m /\ s \ {Max(s)} \in SUBSET (1 .. m)
      BY <1>1, <2>2, MaxBounds
    <3>2. g[s \ {Max(s)}] \in A
      BY <3>1
    <3>3. g[s] = st[Max(s)][g[s \ {Max(s)}]]
      BY <1>6, <2>2 DEF Folds
    <3> QED
      BY <1>4, <2>2, <3>1, <3>2, <3>3
  <2> QED
    BY <2>1, <2>2
<1>8. f = [s \in SUBSET (1 .. m) |->
             IF s = {} THEN <<>>
             ELSE KeptEntries(f[s \ {Max(s)}], c[Max(s)]) \o NewEntries(c[Max(s)])]
  <2>1. g = [s \in SUBSET (1 .. m) |->
               IF s = {} THEN <<>>
               ELSE KeptEntries(g[s \ {Max(s)}], c[Max(s)]) \o NewEntries(c[Max(s)])]
    BY <1>7
  <2> QED
    BY <2>1
<1> HIDE DEF f
<1>9. f[1 .. m] = g[1 .. m]
  <2>1. {} \in SUBSET (1 .. m)
    OBVIOUS
  <2>2. f[{}] = g[{}]
    BY <1>7, <1>8, <2>1
  <2>3. ASSUME NEW s \in SUBSET (1 .. m), s # {}, f[s \ {Max(s)}] = g[s \ {Max(s)}]
        PROVE  f[s] = g[s]
    BY ZenonT(60), <1>7, <1>8, <2>3
  <2> QED
    BY <1>1, <2>2, <2>3, SameFolds
<1>10. m \in Nat /\ <<>> \in A
  BY <1>1
<1>11. Traced(A, m, st, <<>>, g[1 .. m])
  BY <1>10, <1>3, <1>6, FoldTrace
<1>12. PICK p \in [0 .. m -> A] : Trace(p, m, st, <<>>) /\ p[m] = g[1 .. m]
  BY <1>11 DEF Traced
<1>13. ASSUME NEW i \in 1 .. m
       PROVE  p[i] = KeptEntries(p[i - 1], c[i]) \o NewEntries(c[i])
  <2>1. i - 1 \in 0 .. m
    BY <1>1
  <2>2. p[i - 1] \in A
    BY <2>1
  <2> QED
    BY <1>4, <1>12, <2>2 DEF Trace
<1>14. p[0] = <<>> /\ p[m] = Iterate(h)
  BY <1>2, <1>9, <1>12 DEF Trace
<1> QED
  BY <1>13, <1>14 DEF m, A

(* A layer makes of the entries of its base those of its own answers. *)
LEMMA LayerYields ==
  ASSUME OverlayInv, NEW h \in Live, NEW c, c = heap[h].chain, NEW i \in 1 .. Len(c),
         NEW below \in Seq(Item), IsInjective(below),
         i = 1 => ToSet(below) = {},
         i # 1 => ToSet(below) = Entries(Content(c[i - 1]))
  PROVE  /\ IsInjective(KeptEntries(below, c[i]) \o NewEntries(c[i]))
         /\ ToSet(KeptEntries(below, c[i]) \o NewEntries(c[i])) = Entries(Content(c[i]))
<1> PICK g : g = c[i]
  OBVIOUS
<1> PICK D : D = heap[g].deletions
  OBVIOUS
<1> PICK u : u = heap[g].updates
  OBVIOUS
<1> PICK b : b = IF i = 1 THEN [k \in Keys |-> Absent] ELSE Content(c[i - 1])
  OBVIOUS
<1> PICK s : s = KeptEntries(below, g)
  OBVIOUS
<1> PICK r : r = NewEntries(g)
  OBVIOUS
<1>1. g \in Live /\ i \in Nat /\ Len(c) \in Nat
  BY LiveTyped DEF OverlayInv, ChainsSound, ChainSound
<1>2. /\ D \subseteq Keys /\ u \in [Keys -> Values \cup {Absent}] /\ Absent \notin Values
      /\ Updated(g) = {k \in Keys : u[k] # Absent} /\ Updated(g) \cap D = {}
  BY <1>1, LiveTyped, OverlayAssumption DEF OverlayInv, TypeOK, Updated, Present
<1>3. ToSet(below) = {<<k, b[k]>> : k \in {j \in Keys : b[j] # Absent}}
  <2>1. CASE i = 1
    <3>1. {j \in Keys : b[j] # Absent} = {} /\ ToSet(below) = {}
      BY <2>1
    <3> QED
      BY <3>1
  <2>2. CASE i # 1
    BY <2>2 DEF Entries, Present
  <2> QED
    BY <2>1, <2>2
<1>4. \A k \in Keys : Content(g)[k] = IF u[k] # Absent THEN u[k]
                                     ELSE IF k \in D THEN Absent ELSE b[k]
  <2> SUFFICES ASSUME NEW k \in Keys
               PROVE  Content(g)[k] = IF u[k] # Absent THEN u[k]
                                      ELSE IF k \in D THEN Absent ELSE b[k]
    OBVIOUS
  <2>1. /\ i = 1 => Get(g, k) = u[k]
        /\ i # 1 => Get(g, k) = IF u[k] # Absent THEN u[k]
                               ELSE IF k \in D THEN Absent ELSE Get(c[i - 1], k)
    BY LayerGets
  <2>2. /\ Content(g)[k] = Get(g, k)
        /\ i = 1 => b[k] = Absent
        /\ i # 1 => b[k] = Get(c[i - 1], k)
    BY DEF Content
  <2> QED
    BY <2>1, <2>2
<1>5. NewKeys(g) = {k \in Keys : u[k] # Absent /\ b[k] = Absent}
  <2>1. CASE i = 1
    <3>1. Depth(g) = 0 /\ \A k \in Keys : b[k] = Absent
      BY <2>1, BaseOnChain
    <3> QED
      BY <1>2, <3>1 DEF NewKeys
  <2>2. CASE i # 1
    <3>1. Depth(g) # 0 /\ Base(g) = c[i - 1]
      BY <2>2, BaseOnChain
    <3>2. \A k \in Keys : Has(c[i - 1], k) <=> b[k] # Absent
      BY <2>2 DEF Has, Content
    <3> QED
      BY <1>2, <3>1, <3>2 DEF NewKeys
  <2> QED
    BY <2>1, <2>2
<1>6. \A e, d \in ToSet(below) : e[1] = d[1] => e = d
  BY <1>3
<1>7. /\ s \in Seq(Item) /\ IsInjective(s)
      /\ ToSet(s) = {Overlaid(e, g) : e \in {d \in ToSet(below) : d[1] \notin D}}
  BY <1>1, <1>6, KeptYields
<1>8. /\ r \in Seq(Item) /\ IsInjective(r)
      /\ ToSet(r) = {<<k, u[k]>> : k \in NewKeys(g)}
  BY <1>1, NewEntriesListed
<1>9. ToSet(s) = {<<k, IF u[k] # Absent THEN u[k] ELSE b[k]>> :
                    k \in {j \in Keys : b[j] # Absent /\ j \notin D}}
  <2>1. \A k \in Keys : /\ <<k, b[k]>>[1] = k
                        /\ Overlaid(<<k, b[k]>>, g)
                             = <<k, IF u[k] # Absent THEN u[k] ELSE b[k]>>
    BY DEF Overlaid
  <2>2. {d \in ToSet(below) : d[1] \notin D}
          = {<<k, b[k]>> : k \in {j \in Keys : b[j] # Absent /\ j \notin D}}
    BY <1>3, <2>1
  <2> PICK kept : kept = {j \in Keys : b[j] # Absent /\ j \notin D}
    OBVIOUS
  <2>3. ToSet(s) = {Overlaid(e, g) : e \in {<<k, b[k]>> : k \in kept}}
    BY <1>7, <2>2
  <2>4. {Overlaid(e, g) : e \in {<<k, b[k]>> : k \in kept}} = {Overlaid(<<k, b[k]>>, g) : k \in kept}
    OBVIOUS
  <2>5. {Overlaid(<<k, b[k]>>, g) : k \in kept}
          = {<<k, IF u[k] # Absent THEN u[k] ELSE b[k]>> : k \in kept}
    <3> PICK o : o = [k \in Keys |-> IF u[k] # Absent THEN u[k] ELSE b[k]]
      OBVIOUS
    <3>1. \A k \in kept : /\ Overlaid(<<k, b[k]>>, g) = <<k, o[k]>>
                          /\ o[k] = IF u[k] # Absent THEN u[k] ELSE b[k]
      BY <2>1
    <3>2. ASSUME NEW e \in {Overlaid(<<k, b[k]>>, g) : k \in kept}
          PROVE  e \in {<<k, o[k]>> : k \in kept}
      <4>1. PICK k \in kept : e = Overlaid(<<k, b[k]>>, g)
        OBVIOUS
      <4> QED
        BY <3>1, <4>1
    <3>3. {<<k, o[k]>> : k \in kept} \subseteq {Overlaid(<<k, b[k]>>, g) : k \in kept}
      <4> SUFFICES ASSUME NEW k \in kept PROVE <<k, o[k]>> \in {Overlaid(<<j, b[j]>>, g) : j \in kept}
        OBVIOUS
      <4> QED
        BY <3>1
    <3>4. {<<k, IF u[k] # Absent THEN u[k] ELSE b[k]>> : k \in kept} = {<<k, o[k]>> : k \in kept}
      BY <3>1
    <3> QED
      BY <3>2, <3>3, <3>4
  <2> QED
    BY <2>3, <2>4, <2>5
<1>10. ToSet(s) \cap ToSet(r) = {}
  <2>1. ASSUME NEW e \in ToSet(s) PROVE b[e[1]] # Absent
    BY <1>9, <2>1
  <2>2. ASSUME NEW e \in ToSet(r) PROVE e[1] \in NewKeys(g)
    BY <1>8, <2>2
  <2> QED
    BY <1>5, <2>1, <2>2
<1>11. Entries(Content(g)) = ToSet(s) \cup ToSet(r)
  <2>1. Entries(Content(g)) = {<<k, Content(g)[k]>> : k \in {j \in Keys : Content(g)[j] # Absent}}
    BY DEF Entries, Present
  <2>2. \A k \in Keys :
          /\ b[k] # Absent /\ k \notin D =>
               Content(g)[k] # Absent /\ Content(g)[k] = IF u[k] # Absent THEN u[k] ELSE b[k]
          /\ k \in NewKeys(g) => Content(g)[k] # Absent /\ Content(g)[k] = u[k]
          /\ Content(g)[k] # Absent => (b[k] # Absent /\ k \notin D) \/ k \in NewKeys(g)
    BY <1>2, <1>4, <1>5
  <2>3. NewKeys(g) \subseteq Keys
    BY <1>5
  <2>4. Entries(Content(g)) \subseteq ToSet(s) \cup ToSet(r)
    BY <1>8, <1>9, <2>1, <2>2
  <2>5. ToSet(s) \subseteq Entries(Content(g))
    BY <1>9, <2>1, <2>2
  <2>6. ToSet(r) \subseteq Entries(Content(g))
    BY <1>8, <2>1, <2>2, <2>3
  <2> QED
    BY <2>4, <2>5, <2>6
<1>12. IsInjective(s \o r) /\ ToSet(s \o r) = ToSet(s) \cup ToSet(r)
  <2>1. /\ s \in Seq(Item) /\ r \in Seq(Item) /\ IsInjective(s) /\ IsInjective(r)
        /\ ToSet(s) \cap ToSet(r) = {}
    BY <1>7, <1>8, <1>10
  <2> QED
    BY <2>1, ConcatDistinct
<1> QED
  BY <1>11, <1>12

(* What the iteration of a map yields: the answers of its look-up, each once *)
LEMMA IterateYields ==
  ASSUME OverlayInv, NEW h \in Live
  PROVE  IsInjective(Iterate(h)) /\ ToSet(Iterate(h)) = Entries(Content(h))
<1> PICK c : c = heap[h].chain
  OBVIOUS
<1> PICK m : m = Len(c)
  OBVIOUS
<1>1. PICK p \in [0 .. m -> Seq(Item)] :
        /\ p[0] = <<>>
        /\ \A i \in 1 .. m : p[i] = KeptEntries(p[i - 1], c[i]) \o NewEntries(c[i])
        /\ p[m] = Iterate(h)
  BY IterateTrace
<1>2. m \in Nat /\ m >= 1 /\ c[m] = h
  BY LiveTyped DEF OverlayInv, ChainsSound, ChainSound
<1> DEFINE Good == {i \in Nat : i + 1 <= m =>
                      IsInjective(p[i + 1]) /\ ToSet(p[i + 1]) = Entries(Content(c[i + 1]))}
<1>3. ASSUME NEW i \in 1 .. m, IsInjective(p[i - 1]), i = 1 => ToSet(p[i - 1]) = {},
             i # 1 => ToSet(p[i - 1]) = Entries(Content(c[i - 1]))
      PROVE  IsInjective(p[i]) /\ ToSet(p[i]) = Entries(Content(c[i]))
  <2>1. /\ p[i - 1] \in Seq(Item) /\ p[i] = KeptEntries(p[i - 1], c[i]) \o NewEntries(c[i])
        /\ i \in 1 .. Len(c)
    <3>1. i - 1 \in 0 .. m
      BY <1>2
    <3> QED
      BY <1>1, <3>1
  <2>2. /\ IsInjective(KeptEntries(p[i - 1], c[i]) \o NewEntries(c[i]))
        /\ ToSet(KeptEntries(p[i - 1], c[i]) \o NewEntries(c[i])) = Entries(Content(c[i]))
    BY <1>3, <2>1, LayerYields
  <2> QED
    BY <2>1, <2>2
<1>4. 0 \in Good
  <2>1. 1 \in 1 .. m /\ IsInjective(p[0]) /\ ToSet(p[0]) = {}
    BY <1>1, <1>2 DEF IsInjective, ToSet
  <2>2. IsInjective(p[1]) /\ ToSet(p[1]) = Entries(Content(c[1]))
    BY <1>3, <2>1
  <2> QED
    BY <2>2
<1>5. ASSUME NEW n \in Nat, n \in Good PROVE n + 1 \in Good
  <2> SUFFICES ASSUME (n + 1) + 1 <= m
               PROVE  /\ IsInjective(p[(n + 1) + 1])
                      /\ ToSet(p[(n + 1) + 1]) = Entries(Content(c[(n + 1) + 1]))
    OBVIOUS
  <2>1. IsInjective(p[n + 1]) /\ ToSet(p[n + 1]) = Entries(Content(c[n + 1]))
    BY <1>2, <1>5
  <2>2. (n + 1) + 1 \in 1 .. m /\ ((n + 1) + 1) - 1 = n + 1 /\ (n + 1) + 1 # 1
    BY <1>2
  <2> HIDE DEF Good
  <2> QED
    BY <1>3, <2>1, <2>2
<1> HIDE DEF Good
<1>6. m - 1 \in Good
  <2>1. \A n \in Nat : n \in Good => n + 1 \in Good
    BY <1>5
  <2>2. Nat \subseteq Good
    BY <1>4, <2>1, SetInduction
  <2> QED
    BY <1>2, <2>2
<1>7. IsInjective(p[m]) /\ ToSet(p[m]) = Entries(Content(c[m]))
  <2>1. m - 1 \in Nat /\ (m - 1) + 1 = m
    BY <1>2
  <2> QED
    BY <1>6, <2>1 DEF Good
<1> QED
  BY <1>1, <1>2, <1>7

(* The keys of a map are finitely many, and it answers with values. *)
LEMMA ContentTyped ==
  ASSUME OverlayInv, NEW h \in Live
  PROVE  /\ Content(h) \in [Keys -> Values \cup {Absent}]
         /\ IsFiniteSet(Present(Content(h))) /\ Cardinality(Present(Content(h))) \in Nat
<1>1. Content(h) \in [Keys -> Values \cup {Absent}]
  <2> SUFFICES ASSUME NEW k \in Keys PROVE Get(h, k) \in Values \cup {Absent}
    BY DEF Content
  <2>1. heap[h].chain[Max(Deciding(h, k))] \in Live
    BY EndOnChain DEF OverlayInv, ChainsSound
  <2>2. heap[heap[h].chain[Max(Deciding(h, k))]].updates \in [Keys -> Values \cup {Absent}]
    BY <2>1, LiveTyped DEF OverlayInv
  <2> QED
    BY <2>2 DEF Get
<1>2. Present(Content(h)) \subseteq Keys
  BY DEF Present
<1> QED
  BY <1>1, <1>2, OverlayAssumption, FS_Subset, FS_CardinalityType

(* A compaction copies the content that is visible. *)
LEMMA CompactedIsContent ==
  ASSUME OverlayInv, NEW h \in Live
  PROVE  Compacted(h) = Content(h)
<1>1. ToSet(Iterate(h)) = {<<k, Content(h)[k]>> : k \in {j \in Keys : Content(h)[j] # Absent}}
  BY IterateYields DEF Entries, Present
<1>2. Content(h) \in [Keys -> Values \cup {Absent}] /\ Absent \notin Values
  BY ContentTyped, OverlayAssumption
<1> PICK entries : entries = ToSet(Iterate(h))
  OBVIOUS
<1>3. \A k \in Keys, v \in Values : <<k, v>> \in entries <=> Content(h)[k] = v
  BY <1>1, <1>2
<1>4. ASSUME NEW k \in Keys
      PROVE  (IF \E v \in Values : <<k, v>> \in entries
              THEN CHOOSE v \in Values : <<k, v>> \in entries ELSE Absent) = Content(h)[k]
  BY <1>2, <1>3
<1>5. Compacted(h) = [k \in Keys |-> Content(h)[k]]
  BY <1>4 DEF Compacted
<1> QED
  BY <1>2, <1>5

-----------------------------------------------------------------------------
(* What each action does to the maps *)

(* The kinds of a step on the maps: nothing that was there reads otherwise, *)
(* or a copy is written at one key.                                         *)
LEMMA CopyEffect ==
  ASSUME OverlayInv, NEW t \in Txns, Copy(t), NEW new, new = allocated + 1
  PROVE  /\ new \in Handles /\ new \notin Live
         /\ Live' = Live \cup {new}
         /\ \A g \in Live : heap'[g] = heap[g]
         /\ heap'[new] =
              [chain |-> Append(heap[root].chain, new), updates |-> NoUpdates,
               deletions |-> {}, size |-> heap[root].size, sealed |-> FALSE]
         /\ \A k \in Keys : /\ Get(new, k)' = Get(root, k)
                            /\ Ends(new, k)'
<1>0. PICK c : c = heap[root].chain
  OBVIOUS
<1>1. /\ allocated \in Nat /\ MaxHandles \in Nat /\ allocated < MaxHandles /\ root \in Live
      /\ allocated' = new /\ heap \in [Handles -> Layer]
  BY LiveTyped DEF OverlayInv, TypeOK, Copy
<1>2. new \in Handles /\ new \notin Live /\ Live' = Live \cup {new}
  BY <1>1 DEF Handles, Live
<1>3. /\ \A g \in Live : heap'[g] = heap[g]
      /\ heap'[new] = [chain |-> Append(c, new), updates |-> NoUpdates,
                       deletions |-> {}, size |-> heap[root].size, sealed |-> FALSE]
  <2>1. \A g \in Live : g # new /\ g \in Handles
    BY <1>2, LiveTyped DEF OverlayInv
  <2> QED
    BY <1>0, <1>1, <1>2, <2>1 DEF Copy
<1>4. ASSUME NEW k \in Keys
      PROVE  Get(new, k)' = Get(root, k) /\ Ends(new, k)'
  <2>1. /\ c \in Seq(Handles) /\ Len(c) \in Nat /\ Len(c) >= 1
        /\ \A i \in 1 .. Len(c) : c[i] \in Live
        /\ Ends(root, k) /\ ChainSound(root)
    BY <1>0, <1>1, LiveTyped, <1>4 DEF OverlayInv, ChainsSound, ChainSound
  <2>2. /\ Len(Append(c, new)) = Len(c) + 1
        /\ \A i \in 1 .. Len(c) : Append(c, new)[i] = c[i]
        /\ Append(c, new)[Len(c) + 1] = new
    BY <2>1, <1>2
  <2>3. Deciding(new, k)' = Deciding(root, k)
    <3>1. ~Decides(new, k)'
      BY <1>3, <1>4 DEF Decides, NoUpdates
    <3>2. \A i \in 1 .. Len(c) : Decides(c[i], k)' <=> Decides(c[i], k)
      BY <1>3, <2>1 DEF Decides
    <3>3. Deciding(new, k)' = {1} \cup {n \in 1 .. Len(c) + 1 : Decides(Append(c, new)[n], k)'}
      BY <1>3, <2>2 DEF Deciding
    <3>4. {n \in 1 .. Len(c) + 1 : Decides(Append(c, new)[n], k)'}
            = {n \in 1 .. Len(c) : Decides(c[n], k)}
      BY <2>1, <2>2, <3>1, <3>2
    <3> QED
      BY <1>0, <3>3, <3>4 DEF Deciding
  <2>4. Ends(new, k)'
    BY <2>1, <2>3 DEF Ends
  <2>5. /\ Max(Deciding(root, k)) \in 1 .. Len(c) /\ c[Max(Deciding(root, k))] \in Live
    BY <1>0, <1>1, <2>1, EndOnChain, <1>4 DEF OverlayInv
  <2>6. Get(new, k)' = heap'[Append(c, new)[Max(Deciding(root, k))]].updates[k]
    <3>1. heap'[new].chain = Append(c, new)
      BY <1>3
    <3> QED
      BY <2>3, <3>1 DEF Get
  <2>7. Get(root, k) = heap[c[Max(Deciding(root, k))]].updates[k]
    BY <1>0 DEF Get
  <2> QED
    BY <2>2, <2>4, <2>5, <2>6, <2>7, <1>3
<1> QED
  BY <1>0, <1>2, <1>3, <1>4

(* The copy h is written at k with v, or with Absent for a deletion. *)
Rewritten(h, k, v, size) ==
  /\ heap' = [heap EXCEPT ![h] = heap'[h]]
  /\ heap'[h] = [chain |-> heap[h].chain, updates |-> [heap[h].updates EXCEPT ![k] = v],
                 deletions |-> IF v = Absent THEN heap[h].deletions \cup {k}
                                            ELSE heap[h].deletions \ {k},
                 size |-> size, sealed |-> FALSE]

(* Storing in a copy is a write to it, and so is deleting from it. *)
LEMMA SetEffect ==
  ASSUME OverlayInv, NEW t \in Txns, NEW k \in Keys, NEW v \in Values, Set(t, k, v),
         NEW h, h = copies[t]
  PROVE  /\ h \in Live /\ heap[h].sealed = FALSE
         /\ Written(h, k) /\ heap'[h].updates[k] = v
         /\ Rewritten(h, k, v, IF Has(h, k) THEN heap[h].size ELSE heap[h].size + 1)
<1>1. /\ h \in Live /\ h \in Handles /\ heap[h].sealed = FALSE /\ heap \in [Handles -> Layer]
      /\ heap[h] \in Layer /\ heap[h].updates \in [Keys -> Values \cup {Absent}]
  BY LiveTyped DEF OverlayInv, TypeOK, CopiesSound, Set
<1>2. /\ heap'[h] = [heap[h] EXCEPT
                 !.updates = [@ EXCEPT ![k] = v], !.deletions = @ \ {k},
                 !.size = IF Has(h, k) THEN @ ELSE @ + 1]
      /\ \A g \in Handles : g # h => heap'[g] = heap[g]
  BY <1>1 DEF Set
<1>3. heap'[h] = [chain |-> heap[h].chain, updates |-> [heap[h].updates EXCEPT ![k] = v],
                   deletions |-> heap[h].deletions \ {k},
                   size |-> IF Has(h, k) THEN heap[h].size ELSE heap[h].size + 1,
                   sealed |-> FALSE]
  BY <1>1, <1>2 DEF Layer
<1>4. \A g \in Live : g \in Handles
  BY LiveTyped DEF OverlayInv
<1>5. v # Absent
  BY OverlayAssumption
<1>6. heap' = [heap EXCEPT ![h] = heap'[h]]
  BY <1>1, <1>2 DEF Set
<1> QED
  BY <1>1, <1>2, <1>3, <1>4, <1>5, <1>6 DEF Written, Rewritten

(* What a deletion does: the copy hides the key, and its size follows. *)
LEMMA DeleteEffect ==
  ASSUME OverlayInv, NEW t \in Txns, NEW k \in Keys, Delete(t, k), NEW h, h = copies[t]
  PROVE  /\ h \in Live /\ heap[h].sealed = FALSE
         /\ Written(h, k) /\ heap'[h].updates[k] = Absent
         /\ Rewritten(h, k, Absent, heap[h].size - 1)
<1>1. /\ h \in Live /\ h \in Handles /\ heap[h].sealed = FALSE /\ heap \in [Handles -> Layer]
      /\ heap[h] \in Layer /\ heap[h].updates \in [Keys -> Values \cup {Absent}]
  BY LiveTyped DEF OverlayInv, TypeOK, CopiesSound, Delete
<1>2. /\ heap'[h] = [heap[h] EXCEPT
                 !.updates = [@ EXCEPT ![k] = Absent], !.deletions = @ \cup {k},
                 !.size = @ - 1]
      /\ \A g \in Handles : g # h => heap'[g] = heap[g]
  BY <1>1 DEF Delete
<1>3. heap'[h] = [chain |-> heap[h].chain, updates |-> [heap[h].updates EXCEPT ![k] = Absent],
                   deletions |-> heap[h].deletions \cup {k},
                   size |-> heap[h].size - 1,
                   sealed |-> FALSE]
  BY <1>1, <1>2 DEF Layer
<1>4. \A g \in Live : g \in Handles
  BY LiveTyped DEF OverlayInv
<1>6. heap' = [heap EXCEPT ![h] = heap'[h]]
  BY <1>1, <1>2 DEF Delete
<1> QED
  BY <1>1, <1>2, <1>3, <1>4, <1>6 DEF Written, Rewritten

(* The map h is sealed, and no other changes. *)
SealedAt(h) ==
  /\ heap'[h] = [heap[h] EXCEPT !.sealed = TRUE]
  /\ \A g \in Live : g # h => heap'[g] = heap[g]

(* A commit seals the copy, and may add one plain map that answers as the   *)
(* copy does.                                                               *)
LEMMA CommitSeals ==
  ASSUME OverlayInv, NEW t \in Txns, Commit(t), NEW h, h = copies[t]
  PROVE  /\ h \in Live /\ h # root
         /\ Live \subseteq Live' /\ root' \in Live'
         /\ heap' \in [Handles -> Layer]
         /\ SealedAt(h)
         /\ heap'[root'].sealed = TRUE
         /\ \/ ~Compacts(h) /\ root' = h /\ Live' = Live /\ allocated' = allocated
            \/ /\ allocated' = allocated + 1 /\ root' = allocated + 1
               /\ allocated + 1 \in Handles /\ allocated + 1 \notin Live
               /\ Live' = Live \cup {allocated + 1}
               /\ heap'[allocated + 1] = PlainMap(allocated + 1, Content(h))
<1>1. /\ h \in Live /\ h \in Handles /\ heap[h].sealed = FALSE /\ heap \in [Handles -> Layer]
      /\ heap[root].sealed = TRUE /\ allocated \in Nat /\ MaxHandles \in Nat
      /\ \A g \in Live : g \in Handles /\ heap[g] \in Layer
  BY LiveTyped DEF OverlayInv, TypeOK, CopiesSound, Commit
<1>2. Sealed(h) = [heap EXCEPT ![h] = [heap[h] EXCEPT !.sealed = TRUE]]
  BY DEF Sealed
<1>3. /\ Sealed(h) \in [Handles -> Layer]
      /\ Sealed(h)[h] = [heap[h] EXCEPT !.sealed = TRUE]
      /\ \A g \in Live : g # h => Sealed(h)[g] = heap[g]
  <2>1. [heap[h] EXCEPT !.sealed = TRUE] \in Layer
    BY <1>1 DEF Layer
  <2> QED
    BY <1>1, <1>2, <2>1
<1>4. CASE ~Compacts(h) /\ heap' = Sealed(h) /\ root' = h /\ allocated' = allocated
  BY <1>1, <1>2, <1>3, <1>4 DEF Live, SealedAt
<1>5. CASE /\ allocated < MaxHandles
           /\ heap' = [Sealed(h) EXCEPT ![allocated + 1] = PlainMap(allocated + 1, Compacted(h))]
           /\ root' = allocated + 1 /\ allocated' = allocated + 1
  <2>1. /\ allocated + 1 \in Handles /\ allocated + 1 \notin Live
        /\ Live' = Live \cup {allocated + 1}
    BY <1>1, <1>5 DEF Handles, Live
  <2>2. PlainMap(allocated + 1, Content(h)) \in Layer
    <3>1. Content(h) \in [Keys -> Values \cup {Absent}]
      <4> SUFFICES ASSUME NEW k \in Keys PROVE Get(h, k) \in Values \cup {Absent}
        BY DEF Content
      <4>1. heap[h].chain[Max(Deciding(h, k))] \in Live
        BY <1>1, EndOnChain DEF OverlayInv, ChainsSound
      <4>2. heap[heap[h].chain[Max(Deciding(h, k))]].updates \in [Keys -> Values \cup {Absent}]
        BY <4>1, LiveTyped DEF OverlayInv
      <4> QED
        BY <4>2 DEF Get
    <3>2. Cardinality(Present(Content(h))) \in Nat
      <4>1. Present(Content(h)) \subseteq Keys
        BY DEF Present
      <4> QED
        BY <4>1, OverlayAssumption, FS_Subset, FS_CardinalityType
    <3> QED
      BY <2>1, <3>1, <3>2 DEF PlainMap, Layer
  <2>3. heap' \in [Handles -> Layer] /\ heap'[allocated + 1] = PlainMap(allocated + 1, Content(h))
    BY <1>1, <1>3, <1>5, <2>1, <2>2, CompactedIsContent
  <2>4. \A g \in Live : g # allocated + 1 /\ heap'[g] = Sealed(h)[g]
    BY <1>1, <1>3, <1>5, <2>1
  <2> QED
    BY <1>1, <1>3, <1>5, <2>1, <2>3, <2>4 DEF PlainMap, SealedAt
<1> QED
  BY <1>4, <1>5 DEF Commit

(* What is published answers as the copy did, and so does every other map.  *)
LEMMA CommitEffect ==
  ASSUME OverlayInv, NEW t \in Txns, Commit(t), NEW h, h = copies[t], NEW r, r = root'
  PROVE  /\ \A g \in Live, j \in Keys : Get(g, j)' = Get(g, j) /\ Ends(g, j)'
         /\ \A j \in Keys : Get(r, j)' = Get(h, j) /\ Ends(r, j)'
         /\ r \notin Live => heap'[r] = PlainMap(r, Content(h)) /\ Live' = Live \cup {r}
<1>1. \A g \in Live, j \in Keys : Get(g, j)' = Get(g, j) /\ Ends(g, j)'
  <2>2. \A g \in Live : /\ heap'[g].chain = heap[g].chain
                        /\ heap'[g].updates = heap[g].updates
                        /\ heap'[g].deletions = heap[g].deletions
    <3>0. h \in Live /\ SealedAt(h)
      BY CommitSeals
    <3>1. /\ h \in Live /\ heap'[h] = [heap[h] EXCEPT !.sealed = TRUE]
          /\ \A g \in Live : g # h => heap'[g] = heap[g]
      BY <3>0 DEF SealedAt
    <3>2. heap[h] \in Layer
      BY <3>1, LiveTyped DEF OverlayInv
    <3>3. /\ heap'[h].chain = heap[h].chain
          /\ heap'[h].updates = heap[h].updates
          /\ heap'[h].deletions = heap[h].deletions
      BY <3>1, <3>2 DEF Layer
    <3> QED
      BY <3>1, <3>3
  <2> QED
    BY <2>2, OldMapsKept DEF OverlayInv
<1>2. CASE r \in Live
  BY <1>1, <1>2, CommitSeals
<1>3. CASE r \notin Live
  <2>1. heap'[r] = PlainMap(r, Content(h)) /\ Live' = Live \cup {r}
    BY <1>3, CommitSeals
  <2>2. heap'[r].chain = <<r>> /\ heap'[r].updates = Content(h)
    BY <2>1 DEF PlainMap
  <2>3. \A j \in Keys : Deciding(r, j)' = {1}
    BY <2>2 DEF Deciding
  <2>4. \A j \in Keys : Ends(r, j)' /\ Max(Deciding(r, j)') = 1
    BY <2>3 DEF Ends, Max
  <2>5. \A j \in Keys : Get(r, j)' = Content(h)[j]
    BY <2>2, <2>4 DEF Get
  <2> QED
    BY <1>1, <1>3, <2>1, <2>4, <2>5 DEF Content
<1> QED
  BY <1>1, <1>2, <1>3

(* Chains are never written again. *)
LEMMA OldChainsNest ==
  ASSUME ChainsSound, ChainsNest, NEW h \in Live, \A g \in Live : heap'[g].chain = heap[g].chain
  PROVE  Nests(h)'
<1>1. \A i \in 1 .. Len(heap[h].chain) : heap[h].chain[i] \in Live
  BY DEF ChainsSound, ChainSound
<1>2. Nests(h) /\ heap'[h].chain = heap[h].chain
  BY DEF ChainsNest
<1> QED
  BY <1>1, <1>2 DEF Nests

(* Every step keeps chains nested. *)
LEMMA NestStep == OverlayInv /\ [Next]_vars => ChainsNest'
<1> SUFFICES ASSUME OverlayInv, [Next]_vars PROVE ChainsNest'
  OBVIOUS
<1>0. ChainsSound /\ TypeOK /\ ChainsNest
  BY DEF OverlayInv
<1>1. CASE heap' = heap /\ allocated' = allocated
  BY <1>0, <1>1 DEF ChainsNest, Nests, Live
<1>2. ASSUME NEW t \in Txns, Copy(t) PROVE ChainsNest'
  <2> PICK new : new = allocated + 1
    OBVIOUS
  <2> PICK c : c = heap[root].chain
    OBVIOUS
  <2>1. /\ new \notin Live /\ Live' = Live \cup {new} /\ new \in Handles
        /\ \A g \in Live : heap'[g] = heap[g]
        /\ heap'[new].chain = Append(c, new)
    <3>1. /\ new \notin Live /\ Live' = Live \cup {new} /\ new \in Handles
          /\ \A g \in Live : heap'[g] = heap[g]
          /\ heap'[new] =
               [chain |-> Append(heap[root].chain, new), updates |-> NoUpdates,
                deletions |-> {}, size |-> heap[root].size, sealed |-> FALSE]
      BY <1>2, CopyEffect
    <3> QED
      BY <3>1
  <2>2. /\ root \in Live /\ c \in Seq(Handles) /\ Len(c) \in Nat
        /\ \A i \in 1 .. Len(c) : c[i] \in Live
    BY <1>0, LiveTyped DEF TypeOK, ChainsSound, ChainSound
  <2>3. /\ Len(Append(c, new)) = Len(c) + 1
        /\ \A i \in 1 .. Len(c) : Append(c, new)[i] = c[i]
        /\ Append(c, new)[Len(c) + 1] = new
    BY <2>1, <2>2
  <2>4. Nests(root)
    BY <1>0, <2>2 DEF ChainsNest
  <2>5. ASSUME NEW i \in 1 .. Len(c) + 1
        PROVE  /\ Len(heap'[Append(c, new)[i]].chain) = i
               /\ \A j \in 1 .. i : heap'[Append(c, new)[i]].chain[j] = Append(c, new)[j]
    <3>1. CASE i = Len(c) + 1
      BY <2>1, <2>3, <3>1
    <3>2. CASE i \in 1 .. Len(c)
      <4>1. /\ Append(c, new)[i] = c[i] /\ heap'[c[i]] = heap[c[i]]
            /\ \A j \in 1 .. i : Append(c, new)[j] = c[j]
        BY <2>1, <2>2, <2>3, <3>2
      <4>2. Len(heap[c[i]].chain) = i /\ \A j \in 1 .. i : heap[c[i]].chain[j] = c[j]
        BY <2>4, <3>2 DEF Nests
      <4> QED
        BY <4>1, <4>2
    <3> QED
      BY <2>2, <3>1, <3>2
  <2>6. Nests(new)'
    <3> PICK q : q = Append(c, new)
      OBVIOUS
    <3>1. heap'[new].chain = q /\ Len(q) = Len(c) + 1
      BY <2>1, <2>3
    <3>2. \A i \in 1 .. Len(q) :
            /\ Len(heap'[q[i]].chain) = i
            /\ \A j \in 1 .. i : heap'[q[i]].chain[j] = q[j]
      BY <2>5, <3>1
    <3>3. \A i \in 1 .. Len(heap'[new].chain) :
            /\ Len(heap'[heap'[new].chain[i]].chain) = i
            /\ \A j \in 1 .. i : heap'[heap'[new].chain[i]].chain[j] = heap'[new].chain[j]
      BY <3>1, <3>2
    <3> QED
      BY <3>3 DEF Nests
  <2>7. \A h \in Live : Nests(h)'
    BY <1>0, <2>1, OldChainsNest
  <2> QED
    BY <2>1, <2>6, <2>7 DEF ChainsNest
<1>3. ASSUME NEW t \in Txns, NEW k \in Keys, NEW v \in Values, Set(t, k, v) PROVE ChainsNest'
  <2> PICK h : h = copies[t]
    OBVIOUS
  <2>1. Written(h, k) /\ allocated' = allocated
    BY <1>3, SetEffect DEF Set
  <2>2. \A g \in Live : heap'[g].chain = heap[g].chain
    BY <2>1 DEF Written
  <2> QED
    BY <1>0, <2>1, <2>2, OldChainsNest DEF ChainsNest, Live
<1>4. ASSUME NEW t \in Txns, NEW k \in Keys, Delete(t, k) PROVE ChainsNest'
  <2> PICK h : h = copies[t]
    OBVIOUS
  <2>1. Written(h, k) /\ allocated' = allocated
    BY <1>4, DeleteEffect DEF Delete
  <2>2. \A g \in Live : heap'[g].chain = heap[g].chain
    BY <2>1 DEF Written
  <2> QED
    BY <1>0, <2>1, <2>2, OldChainsNest DEF ChainsNest, Live
<1>5. ASSUME NEW t \in Txns, Commit(t) PROVE ChainsNest'
  <2> PICK h : h = copies[t]
    OBVIOUS
  <2> PICK new : new = allocated + 1
    OBVIOUS
  <2>1. /\ h \in Live /\ SealedAt(h)
        /\ \/ Live' = Live
           \/ Live' = Live \cup {new} /\ heap'[new] = PlainMap(new, Content(h))
    BY <1>5, CommitSeals
  <2>2. \A g \in Live : heap'[g].chain = heap[g].chain
    <3>1. heap[h] \in Layer
      BY <1>0, <2>1, LiveTyped
    <3> QED
      BY <2>1, <3>1 DEF SealedAt, Layer
  <2>3. \A g \in Live : Nests(g)'
    BY <1>0, <2>2, OldChainsNest
  <2>4. ASSUME heap'[new] = PlainMap(new, Content(h)) PROVE Nests(new)'
    <3>1. heap'[new].chain = <<new>>
      BY <2>4 DEF PlainMap
    <3>2. /\ 1 .. Len(heap'[new].chain) = {1} /\ heap'[new].chain[1] = new
          /\ Len(heap'[new].chain) = 1
      BY <3>1
    <3> QED
      BY <3>2 DEF Nests
  <2> QED
    BY <2>1, <2>3, <2>4 DEF ChainsNest
<1>6. ASSUME NEW t \in Txns, Discard(t) PROVE ChainsNest'
  BY <1>1, <1>6 DEF Discard
<1>7. CASE UNCHANGED vars
  BY <1>1, <1>7 DEF vars
<1> QED
  BY <1>2, <1>3, <1>4, <1>5, <1>6, <1>7 DEF Next

(* In the beginning there is one map, with itself for a chain. *)
LEMMA NestInit == Init => ChainsNest
<1> SUFFICES ASSUME Init PROVE ChainsNest
  OBVIOUS
<1>1. 1 \in Handles /\ Live = {1}
  BY OverlayAssumption DEF Init, Live, Handles
<1>2. heap[1].chain = <<1>>
  BY <1>1 DEF Init, PlainMap
<1>3. Nests(1)
  <2>1. 1 .. Len(heap[1].chain) = {1} /\ heap[1].chain[1] = 1 /\ Len(heap[1].chain) = 1
    BY <1>2
  <2> QED
    BY <2>1 DEF Nests
<1> QED
  BY <1>1, <1>3 DEF ChainsNest

-----------------------------------------------------------------------------
(* The invariant *)

LEMMA InitInv == Init => OverlayInv
<1> SUFFICES ASSUME Init PROVE OverlayInv
  OBVIOUS
<1>1. PICK content \in Seeds :
        heap = [h \in Handles |-> IF h = 1 THEN PlainMap(1, content) ELSE Unused]
  BY DEF Init
<1>2. /\ content \in [Keys -> Values \cup {Absent}] /\ 1 \in Handles
      /\ Live = {1} /\ root = 1 /\ copies = [t \in Txns |-> None]
      /\ heap[1] = PlainMap(1, content)
  BY <1>1, OverlayAssumption DEF Init, Live, Handles
<1>3. \A map : Cardinality(Present(map)) \in Nat
  <2>1. \A map : Present(map) \subseteq Keys
    BY DEF Present
  <2> QED
    BY <2>1, OverlayAssumption, FS_Subset, FS_CardinalityType
<1>4. /\ heap[1].chain = <<1>> /\ heap[1].updates = content /\ heap[1].deletions = {}
      /\ heap[1].size = Cardinality(Present(content)) /\ heap[1].sealed = TRUE
  BY <1>2 DEF PlainMap
<1>5. TypeOK
  <2>1. PlainMap(1, content) \in Layer
    BY <1>2, <1>3 DEF PlainMap, Layer
  <2>2. Unused \in Layer
    BY DEF Unused, Layer, NoUpdates
  <2>3. heap \in [Handles -> Layer]
    BY <1>1, <2>1, <2>2
  <2> QED
    BY <1>2, <1>4, <2>3 DEF TypeOK, Init
<1>6. \A k \in Keys : Deciding(1, k) = {1}
  BY <1>4 DEF Deciding
<1>7. \A k \in Keys : Ends(1, k) /\ Get(1, k) = content[k]
  BY <1>4, <1>6 DEF Ends, Max, Get
<1>8. ChainsSound
  <2>1. Len(heap[1].chain) = 1 /\ heap[1].chain[1] = 1
    BY <1>4
  <2>2. ChainSound(1)
    <3>1. 1 .. Len(heap[1].chain) = {1} /\ 1 .. Len(heap[1].chain) - 1 = {}
      BY <2>1
    <3> QED
      BY <1>2, <1>7, <2>1, <3>1 DEF ChainSound
  <2> QED
    BY <1>2, <2>2 DEF ChainsSound
<1>9. CopiesSound
  BY <1>2, <1>4 DEF CopiesSound
<1>10. DepthBounded
  <2>1. Depth(1) = 0
    BY <1>4 DEF Depth
  <2>2. MaxDepth \in Nat /\ MaxDepth > 0
    BY OverlayAssumption
  <2> QED
    BY <1>2, <2>1, <2>2 DEF DepthBounded
<1>11. SizesCorrect
  <2>1. Content(1) = content
    BY <1>2, <1>7 DEF Content
  <2> QED
    BY <1>2, <1>4, <2>1 DEF SizesCorrect
<1> QED
  BY <1>5, <1>8, <1>9, <1>10, <1>11, NestInit DEF OverlayInv

(* A new copy of the published map keeps the invariant. *)
LEMMA CopyKeeps ==
  ASSUME OverlayInv, NEW t \in Txns, Copy(t)
  PROVE  OverlayInv'
<1> PICK new : new = allocated + 1
  OBVIOUS
<1>1. /\ new \in Handles /\ new \notin Live /\ Live' = Live \cup {new}
      /\ \A g \in Live : heap'[g] = heap[g]
      /\ heap'[new] = [chain |-> Append(heap[root].chain, new), updates |-> NoUpdates,
                       deletions |-> {}, size |-> heap[root].size, sealed |-> FALSE]
      /\ \A k \in Keys : Get(new, k)' = Get(root, k) /\ Ends(new, k)'
  BY CopyEffect
<1>2. /\ root \in Live /\ root' = root /\ copies' = [copies EXCEPT ![t] = new]
      /\ copies \in [Txns -> Live \cup {None}] /\ allocated' = new /\ allocated \in Nat
      /\ heap \in [Handles -> Layer] /\ \A g \in Live : heap[g] \in Layer
      /\ heap[root].sealed = TRUE
  BY LiveTyped DEF OverlayInv, TypeOK, Copy, CopiesSound, Handles
<1>3. /\ heap[root].chain \in Seq(Handles) /\ Len(heap[root].chain) \in Nat
      /\ Len(heap[root].chain) >= 1 /\ heap[root].size \in Nat
  BY <1>2, LiveTyped DEF OverlayInv, ChainsSound, ChainSound
<1>4. /\ heap'[new].chain = Append(heap[root].chain, new)
      /\ Len(heap'[new].chain) = Len(heap[root].chain) + 1
      /\ \A i \in 1 .. Len(heap[root].chain) : heap'[new].chain[i] = heap[root].chain[i]
      /\ heap'[new].chain[Len(heap[root].chain) + 1] = new
      /\ heap'[new].sealed = FALSE /\ heap'[new].size = heap[root].size
      /\ heap'[new].updates = NoUpdates /\ heap'[new].deletions = {}
  BY <1>1, <1>3
<1>5. \A g \in Live, j \in Keys : Get(g, j)' = Get(g, j) /\ Ends(g, j)'
  BY <1>1, OldMapsKept DEF OverlayInv
<1>6. TypeOK'
  <2>1. heap'[new] \in Layer
    BY <1>1, <1>3 DEF Layer, NoUpdates
  <2>2. heap' \in [Handles -> Layer]
    <3>1. heap' = [heap EXCEPT ![new] = heap'[new]]
      BY <1>1, <1>2 DEF Copy
    <3> QED
      BY <1>2, <2>1, <3>1
  <2>3. \A h \in Live' : Updated(h)' \cap heap'[h].deletions = {}
    <3>1. \A h \in Live : Updated(h)' \cap heap'[h].deletions = {}
      BY <1>1 DEF Updated, OverlayInv, TypeOK
    <3> QED
      BY <1>1, <1>4, <3>1
  <2>4. allocated' \in Handles /\ root' \in Live' /\ copies' \in [Txns -> Live' \cup {None}]
    BY <1>1, <1>2
  <2> QED
    BY <2>2, <2>3, <2>4 DEF TypeOK
<1>7. ChainsSound'
  <2>1. \A g \in Live : ChainSound(g)'
    <3> SUFFICES ASSUME NEW g \in Live PROVE ChainSound(g)'
      OBVIOUS
    <3>1. /\ ChainSound(g) /\ heap'[g].chain = heap[g].chain
          /\ heap[g].chain \in Seq(Handles) /\ Len(heap[g].chain) \in Nat
      BY <1>1, LiveTyped DEF OverlayInv, ChainsSound
    <3>2. /\ \A i \in 1 .. Len(heap[g].chain) : heap[g].chain[i] \in Live
          /\ \A i \in 1 .. Len(heap[g].chain) - 1 : heap'[heap[g].chain[i]].sealed = TRUE
      BY <1>1, <3>1 DEF ChainSound
    <3> QED
      BY <1>1, <1>5, <3>1, <3>2 DEF ChainSound
  <2>2. ChainSound(new)'
    <3>1. \A i \in 1 .. Len(heap[root].chain) :
            heap[root].chain[i] \in Live /\ heap[heap[root].chain[i]].sealed = TRUE
      <4>1. /\ \A i \in 1 .. Len(heap[root].chain) : heap[root].chain[i] \in Live
            /\ \A i \in 1 .. Len(heap[root].chain) - 1 : heap[heap[root].chain[i]].sealed = TRUE
            /\ heap[root].chain[Len(heap[root].chain)] = root
        BY <1>2 DEF OverlayInv, ChainsSound, ChainSound
      <4> QED
        BY <1>2, <1>3, <4>1
    <3>2. Len(heap'[new].chain) >= 1 /\ heap'[new].chain[Len(heap'[new].chain)] = new
      BY <1>3, <1>4
    <3>3. \A i \in 1 .. Len(heap'[new].chain) : heap'[new].chain[i] \in Live'
      BY <1>1, <1>3, <1>4, <3>1
    <3>4. \A i \in 1 .. Len(heap'[new].chain) - 1 : heap'[heap'[new].chain[i]].sealed = TRUE
      BY <1>1, <1>3, <1>4, <3>1
    <3> QED
      BY <1>1, <3>2, <3>3, <3>4 DEF ChainSound
  <2> QED
    BY <1>1, <2>1, <2>2 DEF ChainsSound
<1>8. CopiesSound'
  <2>1. heap'[root'].sealed = TRUE
    BY <1>1, <1>2
  <2>2. \A u \in Txns : copies'[u] = IF u = t THEN new ELSE copies[u]
    BY <1>2
  <2>3. \A u \in Txns : copies'[u] # None =>
          /\ copies'[u] \in Live' /\ heap'[copies'[u]].sealed = FALSE
          /\ Len(heap'[copies'[u]].chain) >= 2
    BY <1>1, <1>3, <1>4, <2>2 DEF OverlayInv, CopiesSound
  <2>4. \A u, w \in Txns : copies'[u] # None /\ copies'[u] = copies'[w] => u = w
    BY <1>1, <2>2 DEF OverlayInv, CopiesSound
  <2> QED
    BY <2>1, <2>3, <2>4 DEF CopiesSound
<1>9. DepthBounded'
  <2>1. \A h \in Live : Depth(h)' <= MaxDepth
    BY <1>1 DEF OverlayInv, DepthBounded, Depth
  <2>2. Depth(new)' <= MaxDepth /\ Depth(root)' < MaxDepth
    BY <1>1, <1>2, <1>3, <1>4, OverlayAssumption DEF OverlayInv, DepthBounded, Depth
  <2> QED
    BY <1>1, <1>2, <2>1, <2>2 DEF DepthBounded
<1>10. SizesCorrect'
  <2>1. \A h \in Live : heap'[h].size = Cardinality(Present(Content(h)'))
    BY <1>1, <1>5, SameContent DEF OverlayInv, SizesCorrect
  <2>2. Content(new)' = Content(root)
    BY <1>1 DEF Content
  <2>3. heap'[new].size = Cardinality(Present(Content(new)'))
    BY <1>2, <1>4, <2>2 DEF OverlayInv, SizesCorrect
  <2> QED
    BY <1>1, <2>1, <2>3 DEF SizesCorrect, Present
<1>11. ChainsNest'
  BY NestStep DEF Next
<1> QED
  BY <1>6, <1>7, <1>8, <1>9, <1>10, <1>11 DEF OverlayInv

(* The copy answers for the key it is written at with what was written. *)
LEMMA WrittenContent ==
  ASSUME OverlayInv, NEW h \in Live, heap[h].sealed = FALSE, NEW k \in Keys, Written(h, k)
  PROVE  /\ Content(h)' = [Content(h) EXCEPT ![k] = heap'[h].updates[k]]
         /\ \A g \in Live : g # h => Content(g)' = Content(g)
<1>1. \A g \in Live, j \in Keys :
        Get(g, j)' = IF g = h /\ j = k THEN heap'[h].updates[k] ELSE Get(g, j)
  <2>1. \A g \in Live, j \in Keys :
          /\ Get(g, j)' = IF g = h /\ j = k THEN heap'[h].updates[k] ELSE Get(g, j)
          /\ Ends(g, j)'
    BY WriteSeenOnce DEF OverlayInv
  <2> QED
    BY <2>1
<1>2. Content(h)' = [j \in Keys |-> Get(h, j)']
  BY DEF Content
<1>3. Content(h)' = [j \in Keys |-> IF j = k THEN heap'[h].updates[k] ELSE Get(h, j)]
  BY <1>1, <1>2
<1>4. \A g \in Live : g # h => Content(g)' = Content(g)
  BY <1>1, SameContent
<1> QED
  BY <1>3, <1>4 DEF Content

(* A write to a copy that counts its size right keeps the invariant. *)
LEMMA WriteKeeps ==
  ASSUME OverlayInv, NEW h \in Live, heap[h].sealed = FALSE, NEW k \in Keys, Written(h, k),
         heap' \in [Handles -> Layer], heap'[h].sealed = FALSE,
         Updated(h)' \cap heap'[h].deletions = {},
         heap'[h].size = Cardinality(Present([Content(h) EXCEPT ![k] = heap'[h].updates[k]])),
         UNCHANGED <<allocated, root, copies>>
  PROVE  OverlayInv'
<1>1. /\ \A g \in Live : g # h => heap'[g] = heap[g]
      /\ heap'[h].chain = heap[h].chain
      /\ Live' = Live /\ root' = root /\ copies' = copies /\ allocated' = allocated
  BY DEF Written, Live
<1>2. \A g \in Live : heap'[g].chain = heap[g].chain /\ heap'[g].sealed = heap[g].sealed
  BY <1>1
<1>3. /\ allocated \in Handles /\ root \in Live /\ copies \in [Txns -> Live \cup {None}]
      /\ ChainsSound /\ CopiesSound /\ DepthBounded /\ SizesCorrect /\ TypeOK
      /\ \A g \in Live : heap[g].chain \in Seq(Handles) /\ Len(heap[g].chain) \in Nat
  BY LiveTyped DEF OverlayInv, TypeOK
<1>4. \A g \in Live : Updated(g)' \cap heap'[g].deletions = {}
  BY <1>1, <1>3 DEF TypeOK, Updated
<1>5. TypeOK'
  BY <1>1, <1>3, <1>4 DEF TypeOK
<1>6. ChainsSound'
  <2> SUFFICES ASSUME NEW g \in Live PROVE ChainSound(g)'
    BY <1>1 DEF ChainsSound
  <2>1. /\ ChainSound(g) /\ heap'[g].chain = heap[g].chain
        /\ heap[g].chain \in Seq(Handles) /\ Len(heap[g].chain) \in Nat
    BY <1>2, <1>3 DEF ChainsSound
  <2>2. /\ \A i \in 1 .. Len(heap[g].chain) : heap[g].chain[i] \in Live
        /\ \A i \in 1 .. Len(heap[g].chain) - 1 : heap'[heap[g].chain[i]].sealed = TRUE
    BY <1>2, <2>1 DEF ChainSound
  <2>3. \A j \in Keys : Ends(g, j)'
    BY <1>3, WriteSeenOnce
  <2> QED
    BY <1>1, <2>1, <2>2, <2>3 DEF ChainSound
<1>7. CopiesSound'
  BY <1>1, <1>2, <1>3 DEF CopiesSound
<1>8. DepthBounded'
  BY <1>1, <1>2, <1>3 DEF DepthBounded, Depth
<1>9. SizesCorrect'
  <2>1. /\ Content(h)' = [Content(h) EXCEPT ![k] = heap'[h].updates[k]]
        /\ \A g \in Live : g # h => Content(g)' = Content(g)
    BY WrittenContent
  <2>2. \A g \in Live : heap'[g].size = Cardinality(Present(Content(g)'))
    BY <1>1, <1>3, <2>1 DEF SizesCorrect
  <2> QED
    BY <1>1, <2>2 DEF SizesCorrect, Present
<1>10. ChainsNest'
  <2>1. ChainsNest
    BY DEF OverlayInv
  <2>2. \A g \in Live : Nests(g)'
    BY <1>2, <1>3, <2>1, OldChainsNest
  <2> QED
    BY <1>1, <2>2 DEF ChainsNest
<1> QED
  BY <1>5, <1>6, <1>7, <1>8, <1>9, <1>10 DEF OverlayInv

(* Storing a value counts the key once. *)
LEMMA SetKeeps ==
  ASSUME OverlayInv, NEW t \in Txns, NEW k \in Keys, NEW v \in Values, Set(t, k, v)
  PROVE  OverlayInv'
<1> PICK h : h = copies[t]
  OBVIOUS
<1>0. /\ h \in Live /\ heap[h].sealed = FALSE /\ Written(h, k) /\ heap'[h].updates[k] = v
      /\ Rewritten(h, k, v, IF Has(h, k) THEN heap[h].size ELSE heap[h].size + 1)
  BY SetEffect
<1>1. /\ h \in Live /\ heap[h].sealed = FALSE /\ Written(h, k) /\ heap'[h].updates[k] = v
      /\ heap' = [heap EXCEPT ![h] = heap'[h]]
      /\ heap'[h] = [chain |-> heap[h].chain, updates |-> [heap[h].updates EXCEPT ![k] = v],
                     deletions |-> heap[h].deletions \ {k},
                     size |-> IF Has(h, k) THEN heap[h].size ELSE heap[h].size + 1,
                     sealed |-> FALSE]
  BY <1>0, OverlayAssumption DEF Rewritten
<1>2. /\ heap[h] \in Layer /\ heap[h].size \in Nat /\ h \in Handles
      /\ heap[h].updates \in [Keys -> Values \cup {Absent}]
      /\ heap[h].deletions \in SUBSET Keys /\ heap \in [Handles -> Layer]
      /\ Updated(h) \cap heap[h].deletions = {} /\ v # Absent
      /\ heap[h].size = Cardinality(Present(Content(h)))
  BY <1>1, LiveTyped, OverlayAssumption DEF OverlayInv, TypeOK, SizesCorrect
<1>3. /\ heap'[h].updates = [heap[h].updates EXCEPT ![k] = v]
      /\ heap'[h].deletions = heap[h].deletions \ {k}
      /\ heap'[h].size = IF Has(h, k) THEN heap[h].size ELSE heap[h].size + 1
      /\ heap'[h].sealed = FALSE
  BY <1>1
<1>4. heap' \in [Handles -> Layer]
  <2>1. heap'[h] \in Layer
    BY <1>1, <1>2, <1>3 DEF Layer
  <2> QED
    BY <1>1, <1>2, <2>1
<1>5. Updated(h)' \cap heap'[h].deletions = {}
  BY <1>2, <1>3 DEF Updated, Present
<1>6. heap'[h].size = Cardinality(Present([Content(h) EXCEPT ![k] = v]))
  <2>1. /\ Content(h)[k] = Get(h, k) /\ IsFiniteSet(Present(Content(h)))
        /\ Content(h) \in [Keys -> Values \cup {Absent}]
    BY <1>1, ContentTyped DEF Content
  <2>2. Present([Content(h) EXCEPT ![k] = v]) = Present(Content(h)) \cup {k}
    BY <1>2, <2>1 DEF Present
  <2>3. Has(h, k) <=> k \in Present(Content(h))
    BY <2>1 DEF Has, Present
  <2> QED
    BY <1>2, <1>3, <2>1, <2>2, <2>3, FS_AddElement
<1> QED
  BY <1>1, <1>3, <1>4, <1>5, <1>6, WriteKeeps DEF Set

(* Deleting a key the map has takes it from the size. *)
LEMMA DeleteKeeps ==
  ASSUME OverlayInv, NEW t \in Txns, NEW k \in Keys, Delete(t, k)
  PROVE  OverlayInv'
<1> PICK h : h = copies[t]
  OBVIOUS
<1>0. /\ h \in Live /\ heap[h].sealed = FALSE /\ Written(h, k) /\ heap'[h].updates[k] = Absent
      /\ Rewritten(h, k, Absent, heap[h].size - 1)
  BY DeleteEffect
<1>1. /\ h \in Live /\ heap[h].sealed = FALSE /\ Written(h, k) /\ heap'[h].updates[k] = Absent
      /\ heap' = [heap EXCEPT ![h] = heap'[h]]
      /\ heap'[h] = [chain |-> heap[h].chain, updates |-> [heap[h].updates EXCEPT ![k] = Absent],
                     deletions |-> heap[h].deletions \cup {k},
                     size |-> heap[h].size - 1,
                     sealed |-> FALSE]
  BY <1>0, OverlayAssumption DEF Rewritten
<1>2. /\ heap[h] \in Layer /\ heap[h].size \in Nat /\ h \in Handles
      /\ heap[h].updates \in [Keys -> Values \cup {Absent}]
      /\ heap[h].deletions \in SUBSET Keys /\ heap \in [Handles -> Layer]
      /\ Updated(h) \cap heap[h].deletions = {} /\ Has(h, k)
      /\ heap[h].size = Cardinality(Present(Content(h)))
  BY <1>1, LiveTyped DEF OverlayInv, TypeOK, SizesCorrect, Delete
<1>3. /\ heap'[h].updates = [heap[h].updates EXCEPT ![k] = Absent]
      /\ heap'[h].deletions = heap[h].deletions \cup {k}
      /\ heap'[h].size = heap[h].size - 1
      /\ heap'[h].sealed = FALSE
  BY <1>1
<1>6. /\ heap'[h].size = Cardinality(Present([Content(h) EXCEPT ![k] = Absent]))
      /\ heap[h].size - 1 \in Nat
  <2>1. /\ Content(h)[k] = Get(h, k) /\ IsFiniteSet(Present(Content(h)))
        /\ Content(h) \in [Keys -> Values \cup {Absent}]
    BY <1>1, ContentTyped DEF Content
  <2>2. Present([Content(h) EXCEPT ![k] = Absent]) = Present(Content(h)) \ {k}
    BY <1>2, <2>1 DEF Present
  <2>3. k \in Present(Content(h))
    BY <1>2, <2>1 DEF Has, Present
  <2>4. Cardinality(Present(Content(h)) \ {k}) = Cardinality(Present(Content(h))) - 1
    BY <2>1, <2>3, FS_RemoveElement
  <2>5. Cardinality(Present(Content(h)) \ {k}) \in Nat
    BY <2>1, FS_Subset, FS_CardinalityType
  <2> QED
    BY <1>2, <1>3, <2>2, <2>4, <2>5
<1>4. heap' \in [Handles -> Layer]
  <2>1. heap'[h] \in Layer
    BY <1>1, <1>2, <1>3, <1>6 DEF Layer
  <2> QED
    BY <1>1, <1>2, <2>1
<1>5. Updated(h)' \cap heap'[h].deletions = {}
  BY <1>2, <1>3 DEF Updated, Present
<1> QED
  BY <1>1, <1>3, <1>4, <1>5, <1>6, WriteKeeps DEF Delete

(* Sealing a copy and publishing it, or a plain map, keeps the invariant. *)
LEMMA CommitKeeps ==
  ASSUME OverlayInv, NEW t \in Txns, Commit(t)
  PROVE  OverlayInv'
<1> PICK h : h = copies[t]
  OBVIOUS
<1> PICK r : r = root'
  OBVIOUS
<1>1. /\ h \in Live /\ Live \subseteq Live' /\ r \in Live' /\ heap' \in [Handles -> Layer]
      /\ SealedAt(h) /\ heap'[r].sealed = TRUE
      /\ \/ ~Compacts(h) /\ r = h /\ Live' = Live /\ allocated' = allocated
         \/ /\ allocated' = allocated + 1 /\ r = allocated + 1
            /\ r \in Handles /\ r \notin Live /\ Live' = Live \cup {r}
            /\ heap'[r] = PlainMap(r, Content(h))
  BY CommitSeals
<1>2. /\ \A g \in Live, j \in Keys : Get(g, j)' = Get(g, j) /\ Ends(g, j)'
      /\ \A j \in Keys : Get(r, j)' = Get(h, j) /\ Ends(r, j)'
  BY CommitEffect
<1>3. \A g \in Live :
        /\ heap[g].chain \in Seq(Handles) /\ Len(heap[g].chain) \in Nat
        /\ g \in Handles /\ heap[g] \in Layer /\ ChainSound(g) /\ Depth(g) <= MaxDepth
        /\ Updated(g) \cap heap[g].deletions = {}
        /\ heap[g].size = Cardinality(Present(Content(g)))
  BY LiveTyped DEF OverlayInv, ChainsSound, DepthBounded, SizesCorrect, TypeOK
<1>4. /\ heap'[h].chain = heap[h].chain /\ heap'[h].updates = heap[h].updates
      /\ heap'[h].deletions = heap[h].deletions /\ heap'[h].size = heap[h].size
      /\ heap'[h].sealed = TRUE
  BY <1>1, <1>3 DEF SealedAt, Layer
<1>5. \A g \in Live :
        /\ heap'[g].chain = heap[g].chain /\ heap'[g].updates = heap[g].updates
        /\ heap'[g].deletions = heap[g].deletions /\ heap'[g].size = heap[g].size
        /\ heap[g].sealed = TRUE => heap'[g].sealed = TRUE
        /\ g # h => heap'[g] = heap[g]
  BY <1>1, <1>4 DEF SealedAt
<1>6. r \notin Live =>
        /\ heap'[r].chain = <<r>> /\ Len(heap'[r].chain) = 1
        /\ heap'[r].updates = Content(h) /\ heap'[r].deletions = {}
        /\ heap'[r].size = Cardinality(Present(Content(h)))
  BY <1>1 DEF PlainMap
<1>7. copies \in [Txns -> Live \cup {None}] /\ copies' = [copies EXCEPT ![t] = None]
  BY DEF OverlayInv, TypeOK, Commit
<1>8. Live' = Live \cup {r} /\ r \in Handles
  BY <1>1, <1>3
<1>9. TypeOK'
  <2>1. allocated' \in Handles /\ root' \in Live'
    BY <1>1 DEF OverlayInv, TypeOK
  <2>2. copies' \in [Txns -> Live' \cup {None}]
    BY <1>1, <1>7
  <2>3. \A g \in Live' : Updated(g)' \cap heap'[g].deletions = {}
    BY <1>3, <1>5, <1>6, <1>8 DEF Updated
  <2> QED
    BY <1>1, <2>1, <2>2, <2>3 DEF TypeOK
<1>10. ChainsSound'
  <2>1. ASSUME NEW g \in Live PROVE ChainSound(g)'
    <3>1. /\ \A i \in 1 .. Len(heap[g].chain) : heap[g].chain[i] \in Live'
          /\ \A i \in 1 .. Len(heap[g].chain) - 1 : heap'[heap[g].chain[i]].sealed = TRUE
          /\ Len(heap[g].chain) >= 1 /\ heap[g].chain[Len(heap[g].chain)] = g
      BY <1>1, <1>3, <1>5 DEF ChainSound
    <3> QED
      BY <1>2, <1>5, <3>1 DEF ChainSound
  <2>2. ASSUME r \notin Live PROVE ChainSound(r)'
    <3>2. heap'[r].chain[1] = r /\ Len(heap'[r].chain) = 1
      BY <1>6, <2>2
    <3>1. 1 .. Len(heap'[r].chain) = {1} /\ 1 .. Len(heap'[r].chain) - 1 = {}
      BY <3>2
    <3> QED
      BY <1>2, <1>8, <3>1, <3>2 DEF ChainSound
  <2> QED
    BY <1>8, <2>1, <2>2 DEF ChainsSound
<1>11. CopiesSound'
  <2>1. heap'[root'].sealed = TRUE
    BY <1>1
  <2>2. \A u \in Txns : copies'[u] = IF u = t THEN None ELSE copies[u]
    BY <1>7
  <2>3. \A u \in Txns : copies'[u] # None => copies'[u] = copies[u] /\ copies[u] # h
    BY <2>2 DEF OverlayInv, CopiesSound
  <2>4. \A u \in Txns : copies'[u] # None =>
          /\ copies'[u] \in Live' /\ heap'[copies'[u]].sealed = FALSE
          /\ Len(heap'[copies'[u]].chain) >= 2
    BY <1>5, <1>8, <2>3 DEF OverlayInv, CopiesSound
  <2>5. \A u, w \in Txns : copies'[u] # None /\ copies'[u] = copies'[w] => u = w
    BY <2>2 DEF OverlayInv, CopiesSound
  <2> QED
    BY <2>1, <2>4, <2>5 DEF CopiesSound
<1>12. DepthBounded'
  <2>1. \A g \in Live : Depth(g)' = Depth(g) /\ Depth(g) \in Int
    BY <1>3, <1>5 DEF Depth
  <2>2. r \notin Live => Depth(r)' = 0
    BY <1>6 DEF Depth
  <2>3. MaxDepth \in Nat /\ MaxDepth > 0
    BY OverlayAssumption
  <2>4. r \in Live => Depth(r)' < MaxDepth
    BY <1>1, <2>1, <2>3 DEF Compacts
  <2>5. Depth(r)' < MaxDepth /\ \A g \in Live' : Depth(g)' <= MaxDepth
    BY <1>3, <1>8, <2>1, <2>2, <2>3, <2>4
  <2>6. Depth(root)' = Depth(r)'
    BY DEF Depth
  <2> QED
    BY <2>5, <2>6 DEF DepthBounded
<1>13. SizesCorrect'
  <2>1. \A g \in Live : Content(g)' = Content(g)
    BY <1>2, SameContent
  <2>2. Content(r)' = Content(h)
    BY <1>2 DEF Content
  <2>3. \A g \in Live' : heap'[g].size = Cardinality(Present(Content(g)'))
    BY <1>1, <1>3, <1>5, <1>6, <1>8, <2>1, <2>2
  <2> QED
    BY <2>3 DEF SizesCorrect, Present
<1>14. ChainsNest'
  BY NestStep DEF Next
<1> QED
  BY <1>9, <1>10, <1>11, <1>12, <1>13, <1>14 DEF OverlayInv

(* Maps that are not written stay as they were. *)
LEMMA SameMaps ==
  ASSUME OverlayInv, heap' = heap, allocated' = allocated, root' = root
  PROVE  ChainsSound' /\ DepthBounded' /\ SizesCorrect'
<1>1. Live' = Live /\ \A h, k : Deciding(h, k)' = Deciding(h, k)
  BY DEF Live, Deciding, Decides
<1>2. \A h, k : Get(h, k)' = Get(h, k) /\ (Ends(h, k)' <=> Ends(h, k))
  BY <1>1 DEF Get, Ends
<1>3. \A h : Content(h)' = Content(h) /\ (ChainSound(h)' <=> ChainSound(h))
  BY <1>1, <1>2 DEF Content, ChainSound
<1>4. ChainsSound' /\ DepthBounded'
  BY <1>1, <1>3 DEF OverlayInv, ChainsSound, DepthBounded, Depth
<1>5. \A h \in Live : heap'[h].size = Cardinality(Present(Content(h)'))
  BY <1>3 DEF OverlayInv, SizesCorrect
<1> QED
  BY <1>1, <1>4, <1>5 DEF SizesCorrect, Present

(* Giving a copy up writes no map. *)
LEMMA DiscardKeeps ==
  ASSUME OverlayInv, NEW t \in Txns, Discard(t)
  PROVE  OverlayInv'
<1>1. heap' = heap /\ allocated' = allocated /\ root' = root
      /\ copies' = [copies EXCEPT ![t] = None] /\ copies \in [Txns -> Live \cup {None}]
  BY DEF Discard, OverlayInv, TypeOK
<1>2. TypeOK'
  BY <1>1 DEF OverlayInv, TypeOK, Live, Updated, Present
<1>3. ChainsSound' /\ DepthBounded' /\ SizesCorrect'
  BY <1>1, SameMaps
<1>4. CopiesSound'
  BY <1>1 DEF OverlayInv, CopiesSound, Live
<1>5. ChainsNest'
  BY NestStep DEF Next
<1> QED
  BY <1>2, <1>3, <1>4, <1>5 DEF OverlayInv

(* Every step preserves the invariant of the layers. *)
LEMMA NextKeeps == OverlayInv /\ [Next]_vars => OverlayInv'
<1> SUFFICES ASSUME OverlayInv, [Next]_vars PROVE OverlayInv'
  OBVIOUS
<1>1. CASE UNCHANGED vars
  <2>1. heap' = heap /\ allocated' = allocated /\ root' = root /\ copies' = copies
    BY <1>1 DEF vars
  <2>2. TypeOK' /\ CopiesSound'
    BY <2>1 DEF OverlayInv, TypeOK, CopiesSound, Live, Updated, Present
  <2> QED
    BY <2>1, <2>2, SameMaps, NestStep DEF OverlayInv
<1>2. CASE Next
  BY <1>2, CopyKeeps, SetKeeps, DeleteKeeps, CommitKeeps, DiscardKeeps DEF Next
<1> QED
  BY <1>1, <1>2

-----------------------------------------------------------------------------
(* The theorems *)

(* The invariant of the maps holds in every state. *)
THEOREM OverlayInvHolds == Spec => []OverlayInv
<1>1. OverlayInv /\ [Next]_vars => OverlayInv'
  BY NextKeeps
<1> QED
  BY InitInv, <1>1, PTL DEF Spec

(* Types hold, and no layer both updates and deletes a key. *)
THEOREM OverlayTypesHold == Spec => []TypeOK
<1>1. OverlayInv => TypeOK
  BY DEF OverlayInv
<1> QED
  BY OverlayInvHolds, <1>1, PTL

(* The depth that seal looks at before a layer is published bounds every    *)
(* look-up, whatever sequence of transactions led there.                    *)
THEOREM LookUpsAreBounded == Spec => []DepthBounded
<1>1. OverlayInv => DepthBounded
  BY DEF OverlayInv
<1> QED
  BY OverlayInvHolds, <1>1, PTL

(* The counted size is the number of keys through all layers.               *)
THEOREM SizesAreRight == Spec => []SizesCorrect
<1>1. OverlayInv => SizesCorrect
  BY DEF OverlayInv
<1> QED
  BY OverlayInvHolds, <1>1, PTL

(* Iterating over a map yields the keys its look-up answers for, each once  *)
(* and with the value the look-up gives.                                    *)
THEOREM IterationMatchesLookUps == Spec => []IterationAgrees
<1>1. OverlayInv => IterationAgrees
  BY IterateYields DEF IterationAgrees
<1> QED
  BY OverlayInvHolds, <1>1, PTL

(* What a step does to the maps that are there: nothing, or one copy that   *)
(* is not sealed and not published changes.                                 *)
LEMMA StepContent ==
  ASSUME OverlayInv, [Next]_vars, NEW h \in Live, Content(h)' # Content(h)
  PROVE  /\ \E t \in Txns : copies[t] = h
         /\ ~heap[h].sealed /\ h # root
<1>1. CASE UNCHANGED vars
  BY <1>1 DEF vars, Content, Get, Deciding, Decides
<1>2. ASSUME NEW t \in Txns, Copy(t) PROVE FALSE
  <2> PICK new : new = allocated + 1
    OBVIOUS
  <2>1. \A g \in Live : heap'[g] = heap[g]
    BY <1>2, CopyEffect
  <2> QED
    BY <2>1, OldMapsKept, SameContent DEF OverlayInv
<1>3. ASSUME NEW t \in Txns, NEW k \in Keys, NEW v \in Values, Set(t, k, v)
      PROVE  copies[t] = h
  <2> PICK g : g = copies[t]
    OBVIOUS
  <2>1. g \in Live /\ heap[g].sealed = FALSE /\ Written(g, k)
    BY <1>3, SetEffect
  <2> QED
    BY <2>1, WrittenContent
<1>4. ASSUME NEW t \in Txns, NEW k \in Keys, Delete(t, k)
      PROVE  copies[t] = h
  <2> PICK g : g = copies[t]
    OBVIOUS
  <2>1. g \in Live /\ heap[g].sealed = FALSE /\ Written(g, k)
    BY <1>4, DeleteEffect
  <2> QED
    BY <2>1, WrittenContent
<1>5. ASSUME NEW t \in Txns, Commit(t) PROVE FALSE
  <2> PICK g : g = copies[t]
    OBVIOUS
  <2> PICK r : r = root'
    OBVIOUS
  <2>1. \A j \in Keys : Get(h, j)' = Get(h, j)
    BY <1>5, CommitEffect
  <2> QED
    BY <2>1, SameContent
<1>6. ASSUME NEW t \in Txns, Discard(t) PROVE FALSE
  BY <1>6 DEF Discard, Content, Get, Deciding, Decides
<1>7. \E t \in Txns : copies[t] = h
  BY <1>1, <1>2, <1>3, <1>4, <1>5, <1>6 DEF Next
<1>8. heap[h].sealed = FALSE /\ heap[root].sealed = TRUE
  <2>1. h # None
    BY LiveTyped, OverlayAssumption DEF OverlayInv, Handles
  <2> QED
    BY <1>7, <2>1 DEF OverlayInv, CopiesSound
<1> QED
  BY <1>7, <1>8

(* Maps that are published, or lie under the copies of open transactions,   *)
(* read the same for ever.                                                  *)
THEOREM SharedMapsNeverChange == Spec => OnlyCopiesChange
<1>1. OverlayInv /\ [Next]_vars =>
        \A h \in Live : Content(h)' # Content(h) =>
          /\ \E t \in Txns : copies[t] = h
          /\ ~heap[h].sealed /\ h # root
  BY StepContent
<1> QED
  BY OverlayInvHolds, <1>1, PTL DEF Spec, OnlyCopiesChange

-----------------------------------------------------------------------------
(* The refinement: the maps as PlainMaps sees them *)

Private == [t \in Txns |-> IF copies[t] = None THEN None ELSE Content(copies[t])]
Stale   == {t \in Txns : copies[t] # None /\ Base(copies[t]) # root}

(* Handles and contents are told apart from no map. *)
LEMMA NoneApart ==
  ASSUME OverlayInv
  PROVE  /\ None \notin Live /\ \A h \in Live : Content(h) # None
         /\ \A t \in Txns : Private[t] = None <=> copies[t] = None
<1>1. None \notin Live
  BY LiveTyped, OverlayAssumption DEF OverlayInv, Handles
<1>2. \A h \in Live : Content(h) # None
  BY ContentTyped, OverlayAssumption
<1>3. \A t \in Txns : copies[t] \in Live \cup {None}
  BY DEF OverlayInv, TypeOK
<1> QED
  BY <1>1, <1>2, <1>3 DEF Private

(* The map below a copy is sealed. *)
LEMMA BaseSealed ==
  ASSUME OverlayInv, NEW t \in Txns, copies[t] # None
  PROVE  /\ Base(copies[t]) \in Live /\ heap[Base(copies[t])].sealed = TRUE
         /\ Base(copies[t]) = heap[copies[t]].chain[Len(heap[copies[t]].chain) - 1]
<1>1. /\ copies[t] \in Live /\ Len(heap[copies[t]].chain) >= 2
      /\ heap[copies[t]].chain \in Seq(Handles) /\ Len(heap[copies[t]].chain) \in Nat
      /\ ChainSound(copies[t])
  BY LiveTyped DEF OverlayInv, CopiesSound, ChainsSound
<1>2. /\ Len(heap[copies[t]].chain) - 1 \in 1 .. Len(heap[copies[t]].chain) - 1
      /\ Len(heap[copies[t]].chain) - 1 \in 1 .. Len(heap[copies[t]].chain)
  BY <1>1
<1>3. Base(copies[t]) = heap[copies[t]].chain[Len(heap[copies[t]].chain) - 1]
  BY DEF Base, Depth
<1> QED
  BY <1>1, <1>2, <1>3 DEF ChainSound

(* A copy of the published map is a copy of what is published. *)
LEMMA CopyIsCopy ==
  ASSUME OverlayInv, NEW t \in Txns, Copy(t)
  PROVE  Maps!Copy(t)
<1> PICK new : new = allocated + 1
  OBVIOUS
<1>1. /\ new \notin Live /\ Live' = Live \cup {new} /\ new \in Handles
      /\ \A g \in Live : heap'[g] = heap[g]
      /\ heap'[new].chain = Append(heap[root].chain, new)
      /\ \A k \in Keys : Get(new, k)' = Get(root, k)
  <2>1. heap'[new] =
          [chain |-> Append(heap[root].chain, new), updates |-> NoUpdates,
           deletions |-> {}, size |-> heap[root].size, sealed |-> FALSE]
    BY CopyEffect
  <2>2. heap'[new].chain = Append(heap[root].chain, new)
    BY <2>1
  <2> QED
    BY <2>2, CopyEffect
<1>2. /\ root' = root /\ root \in Live /\ copies[t] = None
      /\ copies \in [Txns -> Live \cup {None}] /\ copies' = [copies EXCEPT ![t] = new]
  BY DEF OverlayInv, TypeOK, Copy
<1>3. \A g \in Live : Content(g)' = Content(g)
  BY <1>1, OldMapsKept, SameContent DEF OverlayInv
<1>4. Content(new)' = Content(root)
  BY <1>1 DEF Content
<1>5. \A u \in Txns : copies'[u] = IF u = t THEN new ELSE copies[u]
  BY <1>2
<1>6. Private' = [Private EXCEPT ![t] = Content(root)]
  <2>2. \A u \in Txns \ {t} : Private'[u] = Private[u]
    <3> SUFFICES ASSUME NEW u \in Txns \ {t} PROVE Private'[u] = Private[u]
      OBVIOUS
    <3> PICK h : h = copies[u]
      OBVIOUS
    <3>1. copies'[u] = h /\ Private'[u] = IF h = None THEN None ELSE Content(h)'
      BY <1>5 DEF Private
    <3> QED
      BY <1>2, <1>3, <3>1 DEF Private
  <2>3. Private'[t] = Content(root)
    <3>1. copies'[t] = new /\ new # None
      BY <1>1, <1>5, OverlayAssumption DEF Handles
    <3> QED
      BY <1>4, <3>1 DEF Private
  <2> QED
    BY <2>2, <2>3 DEF Private
<1>7. Stale' = Stale
  <2>1. Base(new)' = root
    <3>1. /\ heap[root].chain \in Seq(Handles) /\ Len(heap[root].chain) \in Nat
          /\ Len(heap[root].chain) >= 1 /\ heap[root].chain[Len(heap[root].chain)] = root
      BY <1>2, LiveTyped DEF OverlayInv, ChainsSound, ChainSound
    <3> QED
      BY <1>1, <3>1 DEF Base, Depth
  <2>2. \A g \in Live : Base(g)' = Base(g)
    BY <1>1 DEF Base, Depth
  <2>3. \A u \in Txns : u \in Stale' <=> u \in Stale
    <3> SUFFICES ASSUME NEW u \in Txns PROVE u \in Stale' <=> u \in Stale
      OBVIOUS
    <3> PICK h : h = copies'[u]
      OBVIOUS
    <3>1. u \in Stale' <=> h # None /\ Base(h)' # root
      BY <1>2 DEF Stale
    <3>2. CASE u = t
      BY <1>2, <1>5, <2>1, <3>1, <3>2 DEF Stale
    <3>3. CASE u # t
      BY <1>2, <1>5, <2>2, <3>1, <3>3 DEF Stale
    <3> QED
      BY <3>2, <3>3
  <2> QED
    BY <2>3 DEF Stale
<1>8. Content(root)' = Content(root)
  <2> PICK r : r = root
    OBVIOUS
  <2>1. Content(r)' = Content(r) /\ root' = r
    BY <1>2, <1>3
  <2> QED
    BY <2>1 DEF Content
<1>9. Private[t] = None
  BY <1>2 DEF Private
<1> QED
  BY <1>6, <1>7, <1>8, <1>9 DEF Maps!Copy, Private, Stale

(* A write to a copy of transaction t: the private map of t gets the value, *)
(* and nothing else is seen.                                                *)
LEMMA WriteIsStore ==
  ASSUME OverlayInv, NEW t \in Txns, NEW k \in Keys, NEW h \in Live, h = copies[t],
         heap[h].sealed = FALSE, Written(h, k), UNCHANGED <<allocated, root, copies>>
  PROVE  /\ Private[t] # None
         /\ Private' = [Private EXCEPT ![t] = [@ EXCEPT ![k] = heap'[h].updates[k]]]
         /\ Stale' = Stale /\ Content(root)' = Content(root)
<1>1. /\ Content(h)' = [Content(h) EXCEPT ![k] = heap'[h].updates[k]]
      /\ \A g \in Live : g # h => Content(g)' = Content(g)
  BY WrittenContent
<1>2. /\ copies' = copies /\ root' = root /\ root \in Live /\ None \notin Live
      /\ copies \in [Txns -> Live \cup {None}] /\ h # root
      /\ \A u \in Txns : u # t /\ copies[u] # None => copies[u] # h
  BY NoneApart DEF OverlayInv, TypeOK, CopiesSound
<1>3. \A u \in Txns \ {t} : Private'[u] = Private[u]
  <2> SUFFICES ASSUME NEW u \in Txns \ {t} PROVE Private'[u] = Private[u]
    OBVIOUS
  <2> PICK g : g = copies[u]
    OBVIOUS
  <2>1. copies'[u] = g /\ Private'[u] = IF g = None THEN None ELSE Content(g)'
    BY <1>2 DEF Private
  <2> QED
    BY <1>1, <1>2, <2>1 DEF Private
<1>4. Private[t] = Content(h) /\ Private'[t] = Content(h)'
  <2>1. copies'[t] = h /\ h # None
    BY <1>2
  <2> QED
    BY <2>1 DEF Private
<1>5. Private' = [Private EXCEPT ![t] = [@ EXCEPT ![k] = heap'[h].updates[k]]]
  BY <1>1, <1>3, <1>4 DEF Private
<1>6. \A g \in Live : Base(g)' = Base(g)
  BY DEF Written, Base, Depth
<1>7. Stale' = Stale
  <2> SUFFICES ASSUME NEW u \in Txns PROVE u \in Stale' <=> u \in Stale
    BY DEF Stale
  <2> PICK g : g = copies[u]
    OBVIOUS
  <2>1. u \in Stale' <=> g # None /\ Base(g)' # root
    BY <1>2 DEF Stale
  <2> QED
    BY <1>2, <1>6, <2>1 DEF Stale
<1>8. Content(root)' = Content(root)
  <2> PICK r : r = root
    OBVIOUS
  <2>1. Content(r)' = Content(r) /\ root' = r
    BY <1>1, <1>2
  <2> QED
    BY <2>1 DEF Content
<1>9. Private[t] # None
  BY <1>2, NoneApart
<1> QED
  BY <1>5, <1>7, <1>8, <1>9

(* A commit publishes the private map of the transaction, which was taken   *)
(* from the published one, and leaves every other copy stale.               *)
LEMMA CommitIsInstall ==
  ASSUME OverlayInv, NEW t \in Txns, Commit(t)
  PROVE  Maps!Install(t)
<1> PICK h : h = copies[t]
  OBVIOUS
<1> PICK r : r = root'
  OBVIOUS
<1>1. /\ \A g \in Live, j \in Keys : Get(g, j)' = Get(g, j) /\ Ends(g, j)'
      /\ \A j \in Keys : Get(r, j)' = Get(h, j) /\ Ends(r, j)'
  BY CommitEffect
<1>2. h \in Live /\ SealedAt(h) /\ (r = h \/ r \notin Live)
  BY CommitSeals
<1>3. /\ copies' = [copies EXCEPT ![t] = None] /\ copies \in [Txns -> Live \cup {None}]
      /\ h # None /\ Base(h) = root /\ None \notin Live /\ heap[h].sealed = FALSE
      /\ \A u \in Txns : u # t /\ copies[u] # None => copies[u] # h
  BY NoneApart DEF OverlayInv, TypeOK, CopiesSound, Commit
<1>4. \A u \in Txns : copies'[u] = IF u = t THEN None ELSE copies[u]
  BY <1>3
<1>5. Content(root)' = Private[t]
  <2>1. Content(r)' = Content(h)
    BY <1>1 DEF Content
  <2>2. Content(root)' = Content(r)'
    BY DEF Content
  <2> QED
    BY <1>3, <2>1, <2>2 DEF Private
<1>6. Private' = [Private EXCEPT ![t] = None]
  <2>1. \A u \in Txns \ {t} : Private'[u] = Private[u]
    <3> SUFFICES ASSUME NEW u \in Txns \ {t} PROVE Private'[u] = Private[u]
      OBVIOUS
    <3> PICK g : g = copies[u]
      OBVIOUS
    <3>1. copies'[u] = g /\ Private'[u] = IF g = None THEN None ELSE Content(g)'
      BY <1>4 DEF Private
    <3>2. g \in Live => Content(g)' = Content(g)
      BY <1>1, SameContent
    <3> QED
      BY <1>3, <3>1, <3>2 DEF Private
  <2>2. Private'[t] = None
    BY <1>4 DEF Private
  <2> QED
    BY <2>1, <2>2 DEF Private
<1>7. t \notin Stale
  BY <1>3 DEF Stale
<1>8. Stale' = {u \in Txns \ {t} : Private[u] # None}
  <2> SUFFICES ASSUME NEW u \in Txns
                PROVE u \in Stale' <=> u # t /\ Private[u] # None
    BY DEF Stale
  <2> PICK g : g = copies'[u]
    OBVIOUS
  <2>1. u \in Stale' <=> g # None /\ Base(g)' # r
    BY DEF Stale
  <2>2. CASE u = t \/ copies[u] = None
    BY <1>4, <2>1, <2>2, NoneApart
  <2>3. CASE u # t /\ copies[u] # None
    <3>1. g = copies[u] /\ g # h /\ g \in Live /\ g # None
      BY <1>3, <1>4, <2>3
    <3>2. heap'[g] = heap[g]
      BY <1>2, <3>1 DEF SealedAt
    <3>3. Base(g)' = Base(g)
      BY <3>2 DEF Base, Depth
    <3>4. Base(g) \in Live /\ heap[Base(g)].sealed = TRUE
      BY <2>3, <3>1, BaseSealed
    <3>5. Base(g) # r
      BY <1>2, <1>3, <3>4
    <3> QED
      BY <2>1, <2>3, <3>1, <3>3, <3>5, NoneApart
  <2> QED
    BY <2>2, <2>3
<1>9. Private[t] # None
  BY <1>3, NoneApart
<1> QED
  BY <1>5, <1>6, <1>7, <1>8, <1>9 DEF Maps!Install, Private, Stale

(* Discarding a copy drops the plain map of its transaction. *)
LEMMA DiscardIsDrop ==
  ASSUME OverlayInv, NEW t \in Txns, Discard(t)
  PROVE  Maps!Drop(t)
<1>1. /\ heap' = heap /\ root' = root /\ copies[t] # None
      /\ copies' = [copies EXCEPT ![t] = None] /\ copies \in [Txns -> Live \cup {None}]
  BY DEF OverlayInv, TypeOK, Discard
<1>2. \A g : Content(g)' = Content(g) /\ Base(g)' = Base(g)
  BY <1>1 DEF Content, Get, Deciding, Decides, Base, Depth
<1>3. \A u \in Txns : copies'[u] = IF u = t THEN None ELSE copies[u]
  BY <1>1
<1>4. Content(root)' = Content(root)
  BY <1>1 DEF Content, Get, Deciding, Decides
<1>5. Private' = [Private EXCEPT ![t] = None]
  <2>1. \A u \in Txns \ {t} : Private'[u] = Private[u]
    <3> SUFFICES ASSUME NEW u \in Txns \ {t} PROVE Private'[u] = Private[u]
      OBVIOUS
    <3> PICK g : g = copies[u]
      OBVIOUS
    <3>1. copies'[u] = g /\ Private'[u] = IF g = None THEN None ELSE Content(g)'
      BY <1>3 DEF Private
    <3> QED
      BY <1>2, <3>1 DEF Private
  <2>2. Private'[t] = None
    BY <1>3 DEF Private
  <2> QED
    BY <2>1, <2>2 DEF Private
<1>6. Stale' = Stale \ {t}
  <2> SUFFICES ASSUME NEW u \in Txns
                PROVE u \in Stale' <=> u \in Stale /\ u # t
    BY DEF Stale
  <2> PICK g : g = copies'[u]
    OBVIOUS
  <2>1. u \in Stale' <=> g # None /\ Base(g)' # root
    BY <1>1 DEF Stale
  <2> QED
    BY <1>2, <1>3, <2>1 DEF Stale
<1>7. Private[t] # None
  BY <1>1, NoneApart
<1> QED
  BY <1>4, <1>5, <1>6, <1>7 DEF Maps!Drop, Private, Stale

(* Every step of the layers is a step of the plain maps, or none. *)
LEMMA StepIsMapsStep ==
  ASSUME OverlayInv, [Next]_vars
  PROVE  [Maps!Next]_(Maps!vars)
<1>1. CASE UNCHANGED vars
  <2>1. Private' = Private /\ Stale' = Stale /\ Content(root)' = Content(root)
    BY <1>1 DEF vars, Private, Stale, Content, Get, Deciding, Decides, Base, Depth
  <2> QED
    BY <2>1 DEF Maps!vars, Private, Stale
<1>2. ASSUME NEW t \in Txns, Copy(t) PROVE Maps!Next
  BY <1>2, CopyIsCopy DEF Maps!Next
<1>3. ASSUME NEW t \in Txns, NEW k \in Keys, NEW v \in Values, Set(t, k, v) PROVE Maps!Next
  <2> PICK h : h = copies[t]
    OBVIOUS
  <2>1. /\ h \in Live /\ heap[h].sealed = FALSE /\ Written(h, k) /\ heap'[h].updates[k] = v
        /\ Rewritten(h, k, v, IF Has(h, k) THEN heap[h].size ELSE heap[h].size + 1)
    BY <1>3, SetEffect
  <2>2. UNCHANGED <<allocated, root, copies>>
    BY <1>3 DEF Set
  <2>3. /\ Private[t] # None /\ Private' = [Private EXCEPT ![t] = [@ EXCEPT ![k] = v]]
        /\ Stale' = Stale /\ Content(root)' = Content(root)
    BY <2>1, <2>2, WriteIsStore
  <2>4. Maps!Store(t, k, v)
    BY <2>3 DEF Maps!Store, Private, Stale
  <2> QED
    BY <2>4 DEF Maps!Next
<1>4. ASSUME NEW t \in Txns, NEW k \in Keys, Delete(t, k) PROVE Maps!Next
  <2> PICK h : h = copies[t]
    OBVIOUS
  <2>1. h \in Live /\ heap[h].sealed = FALSE /\ Written(h, k) /\ heap'[h].updates[k] = Absent
    BY <1>4, DeleteEffect
  <2>2. UNCHANGED <<allocated, root, copies>>
    BY <1>4 DEF Delete
  <2>3. /\ Private[t] # None /\ Private' = [Private EXCEPT ![t] = [@ EXCEPT ![k] = Absent]]
        /\ Stale' = Stale /\ Content(root)' = Content(root)
    BY <2>1, <2>2, WriteIsStore
  <2>4. Maps!Store(t, k, Absent)
    BY <2>3 DEF Maps!Store, Private, Stale
  <2> QED
    BY <2>4 DEF Maps!Next
<1>5. ASSUME NEW t \in Txns, Commit(t) PROVE Maps!Next
  BY <1>5, CommitIsInstall DEF Maps!Next
<1>6. ASSUME NEW t \in Txns, Discard(t) PROVE Maps!Next
  BY <1>6, DiscardIsDrop DEF Maps!Next
<1> QED
  BY <1>1, <1>2, <1>3, <1>4, <1>5, <1>6 DEF Next

(* The first layer answers as a plain map. *)
LEMMA InitIsMapsInit == Init => Maps!Init
<1> SUFFICES ASSUME Init PROVE Maps!Init
  OBVIOUS
<1>1. PICK content \in Seeds :
        heap = [h \in Handles |-> IF h = 1 THEN PlainMap(1, content) ELSE Unused]
  BY DEF Init
<1>2. /\ content \in [Keys -> Values \cup {Absent}] /\ 1 \in Handles
      /\ root = 1 /\ copies = [t \in Txns |-> None] /\ heap[1] = PlainMap(1, content)
  BY <1>1, OverlayAssumption DEF Init, Handles
<1>3. heap[1].chain = <<1>> /\ heap[1].updates = content
  BY <1>2 DEF PlainMap
<1>4. \A k \in Keys : Deciding(1, k) = {1}
  BY <1>3, <1>2 DEF Deciding, Decides, PlainMap
<1>5. \A k \in Keys : Get(1, k) = content[k]
  BY <1>3, <1>4 DEF Max, Get
<1>6. Content(root) = content
  BY <1>2, <1>5 DEF Content
<1>7. Private = [t \in Txns |-> None] /\ Stale = {}
  BY <1>2 DEF Private, Stale
<1> QED
  BY <1>1, <1>6, <1>7 DEF Maps!Init, Private, Stale

(* The layered, shared and compacted maps implement plain ones: every step  *)
(* is a step of PlainMaps or leaves what it sees alone.                     *)
THEOREM LayersArePlainMaps == Spec => RefinesPlainMaps
<1>1. OverlayInv /\ [Next]_vars => [Maps!Next]_(Maps!vars)
  BY StepIsMapsStep
<1> QED
  BY OverlayInvHolds, InitIsMapsInit, <1>1, PTL DEF Spec, RefinesPlainMaps, Maps!Spec
=============================================================================
