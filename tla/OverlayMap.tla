------------------------------ MODULE OverlayMap ------------------------------
(***************************************************************************)
(* The maps of a collection (src/src/overlay-map.ts): the working copy of  *)
(* a transaction is a thin layer of updates and deletions over the map it  *)
(* was taken from.  A commit seals the layer and publishes it, so layers   *)
(* pile up and the root shares them with the copies of open transactions;  *)
(* from time to time a commit copies all of them into one plain map.       *)
(* Maps are objects: a layer refers to those below it by their handles.    *)
(***************************************************************************)
EXTENDS Integers, Sequences, FiniteSets, SequencesExt

CONSTANTS
  Keys, Values,
  Seeds,           \* the maps a collection may be loaded with
  Absent,          \* undefined: no value
  Txns,            \* open transactions
  None,            \* a transaction without a working copy
  MaxDepth,        \* the 32 of seal
  CompactChanges,  \* the 256 of seal
  MaxHandles       \* bound of the model: maps ever created

ASSUME OverlayAssumption ==
  /\ Absent \notin Values
  /\ {MaxDepth, CompactChanges, MaxHandles} \subseteq Nat \ {0}
  /\ None \notin 1 .. MaxHandles /\ None \notin [Keys -> Values \cup {Absent}]
  /\ IsFiniteSet(Keys)
  /\ Seeds \subseteq [Keys -> Values \cup {Absent}]

Handles == 1 .. MaxHandles

VARIABLES
  heap,       \* the fields of each map
  allocated,  \* how many maps were created
  root,       \* the published map
  copies      \* the working copy of each transaction

vars == <<heap, allocated, root, copies>>

(* The handles of #base, of its #base and so on end with the plain map at   *)
(* the bottom; chain lists them from there up to the map itself.            *)
Layer ==
  [chain : Seq(Handles), updates : [Keys -> Values \cup {Absent}],
   deletions : SUBSET Keys, size : Nat, sealed : BOOLEAN]

Live == 1 .. allocated

Depth(h) == Len(heap[h].chain) - 1
Base(h)  == heap[h].chain[Depth(h)]

Present(map) == {k \in Keys : map[k] # Absent}
Updated(h)   == Present(heap[h].updates)

NoUpdates == [k \in Keys |-> Absent]

(* A Map of JavaScript: nothing below it, and no code writes it again *)
PlainMap(h, content) ==
  [chain |-> <<h>>, updates |-> content, deletions |-> {},
   size |-> Cardinality(Present(content)), sealed |-> TRUE]

Unused == [chain |-> <<>>, updates |-> NoUpdates, deletions |-> {}, size |-> 0, sealed |-> TRUE]

-----------------------------------------------------------------------------
(* Reading *)

(* The look-up of k ends in layer g, with an update or with a deletion *)
Decides(g, k) == heap[g].updates[k] # Absent \/ k \in heap[g].deletions

(* Where on its chain the look-up of k in h may end: the plain map at the   *)
(* bottom, or a layer that decides                                          *)
Deciding(h, k) ==
  {1} \cup {n \in 1 .. Len(heap[h].chain) : Decides(heap[h].chain[n], k)}

(* get: the first of them from the top *)
Get(h, k) == heap[heap[h].chain[Max(Deciding(h, k))]].updates[k]

Has(h, k) == Get(h, k) # Absent

Content(h) == [k \in Keys |-> Get(h, k)]

(* The keys of a layer that are not in its base *)
NewKeys(h) ==
  IF Depth(h) = 0 THEN Updated(h) ELSE {k \in Updated(h) : ~Has(Base(h), k)}

(* What a layer yields for them, last, in an order that is left open *)
NewEntries(h) ==
  LET keys == SetToSeq(NewKeys(h))
  IN  [i \in DOMAIN keys |-> <<keys[i], heap[h].updates[keys[i]]>>]

(* A broken variant: the older value is yielded *)
MutantOverlaid(entry, h) == entry

(* An entry of the base, with the value of the layer if that has one *)
Overlaid(entry, h) ==
  <<entry[1], IF heap[h].updates[entry[1]] # Absent THEN heap[h].updates[entry[1]] ELSE entry[2]>>

(* What a layer yields of the entries of its base: its deletions are skipped *)
KeptEntries(entries, h) ==
  FoldLeft(LAMBDA kept, entry : IF entry[1] \in heap[h].deletions THEN kept
                                ELSE Append(kept, Overlaid(entry, h)),
           <<>>, entries)

(* #iterateEntries, which iterates over the base first *)
Iterate(h) ==
  FoldLeft(LAMBDA entries, g : KeptEntries(entries, g) \o NewEntries(g), <<>>, heap[h].chain)

-----------------------------------------------------------------------------
(* Writing *)

Init ==
  /\ \E content \in Seeds :
       heap = [h \in Handles |-> IF h = 1 THEN PlainMap(1, content) ELSE Unused]
  /\ allocated = 1
  /\ root = 1
  /\ copies = [t \in Txns |-> None]

(* #writable: new OverlayMap(base) *)
Copy(t) ==
  LET h == allocated + 1
  IN  /\ copies[t] = None
      /\ allocated < MaxHandles
      /\ allocated' = h
      /\ heap' = [heap EXCEPT ![h] =
                    [chain |-> Append(heap[root].chain, h), updates |-> NoUpdates,
                     deletions |-> {}, size |-> heap[root].size, sealed |-> FALSE]]
      /\ copies' = [copies EXCEPT ![t] = h]
      /\ UNCHANGED root

(* Broken variants of set: the size counts an update of an older value, and *)
(* a deletion is kept.                                                      *)
MutantSetSize(t, k, v) ==
  LET h == copies[t]
  IN  /\ h # None /\ ~heap[h].sealed
      /\ heap' = [heap EXCEPT
            ![h].updates[k] = v,
            ![h].deletions = @ \ {k},
            ![h].size = IF k \in Updated(h) THEN @ ELSE @ + 1]
      /\ UNCHANGED <<allocated, root, copies>>

MutantSetDeletion(t, k, v) ==
  LET h == copies[t]
  IN  /\ h # None /\ ~heap[h].sealed
      /\ heap' = [heap EXCEPT
            ![h].updates[k] = v,
            ![h].size = IF Has(h, k) THEN @ ELSE @ + 1]
      /\ UNCHANGED <<allocated, root, copies>>

Set(t, k, v) ==
  LET h == copies[t]
  IN  /\ h # None /\ ~heap[h].sealed
      /\ heap' = [heap EXCEPT
            ![h].updates[k] = v,
            ![h].deletions = @ \ {k},
            ![h].size = IF Has(h, k) THEN @ ELSE @ + 1]
      /\ UNCHANGED <<allocated, root, copies>>

(* delete of a key the map has; of any other it does nothing *)
Delete(t, k) ==
  LET h == copies[t]
  IN  /\ h # None /\ ~heap[h].sealed
      /\ Has(h, k)
      /\ heap' = [heap EXCEPT
            ![h].updates[k] = Absent,
            ![h].deletions = @ \cup {k},
            ![h].size = @ - 1]
      /\ UNCHANGED <<allocated, root, copies>>

ChangedCount(h) == Cardinality(heap[h].deletions) + Cardinality(Updated(h))

CompactThreshold(h) ==
  LET quarter == (heap[Base(h)].size + 3) \div 4
  IN  IF quarter > CompactChanges THEN quarter ELSE CompactChanges

(* A broken variant: the depth is never looked at *)
MutantCompacts(h) == ChangedCount(h) >= CompactThreshold(h)

Compacts(h) == Depth(h) >= MaxDepth \/ ChangedCount(h) >= CompactThreshold(h)

Sealed(h) == [heap EXCEPT ![h].sealed = TRUE]

(* A broken variant: the top layer alone is copied *)
MutantCompacted(h) == heap[h].updates

(* new Map(this): the entries that the iteration yields *)
Compacted(h) ==
  LET entries == ToSet(Iterate(h))
  IN  [k \in Keys |-> IF \E v \in Values : <<k, v>> \in entries
                      THEN CHOOSE v \in Values : <<k, v>> \in entries
                      ELSE Absent]

(* A broken variant: the map below is published, and changed to what the    *)
(* layer says                                                               *)
MutantCommit(t) ==
  LET h == copies[t]
  IN  /\ h # None /\ Base(h) = root
      /\ heap' = [heap EXCEPT ![root].updates = Content(h)]
      /\ copies' = [copies EXCEPT ![t] = None]
      /\ UNCHANGED <<allocated, root>>

(* _commit of a transaction whose base is still the published map: seal,    *)
(* which makes this layer or a compacted copy of all the new root           *)
Commit(t) ==
  LET h == copies[t]
      new == allocated + 1
  IN  /\ h # None /\ Base(h) = root
      /\ \/ /\ ~Compacts(h)
            /\ heap' = Sealed(h)
            /\ root' = h
            /\ UNCHANGED allocated
         \/ /\ Compacts(h)
            /\ allocated < MaxHandles
            /\ heap' = [Sealed(h) EXCEPT ![new] = PlainMap(new, Compacted(h))]
            /\ root' = new
            /\ allocated' = new
      /\ copies' = [copies EXCEPT ![t] = None]

(* Rolled back, refused for a conflict, or committed without a change *)
Discard(t) ==
  /\ copies[t] # None
  /\ copies' = [copies EXCEPT ![t] = None]
  /\ UNCHANGED <<heap, allocated, root>>

Next ==
  \E t \in Txns :
    \/ Copy(t)
    \/ \E k \in Keys, v \in Values : Set(t, k, v)
    \/ \E k \in Keys : Delete(t, k)
    \/ Commit(t)
    \/ Discard(t)

Spec == Init /\ [][Next]_vars

-----------------------------------------------------------------------------
(* Properties *)

(* Types; and a key is never both updated and deleted in one layer. *)
TypeOK ==
  /\ heap \in [Handles -> Layer]
  /\ allocated \in Handles /\ root \in Live
  /\ copies \in [Txns -> Live \cup {None}]
  /\ \A h \in Live : Updated(h) \cap heap[h].deletions = {}

(* The size that is counted along is the number of keys the map answers     *)
(* for, through all its layers: assertCollectionInvariant and every check   *)
(* of an empty bucket rely on it.                                           *)
SizesCorrect == \A h \in Live : heap[h].size = Cardinality(Present(Content(h)))

(* Iterating yields each key the map has once, with the value get answers,  *)
(* and no other.                                                            *)
Entries(map) == {<<k, map[k]>> : k \in Present(map)}

IterationAgrees ==
  \A h \in Live : IsInjective(Iterate(h)) /\ ToSet(Iterate(h)) = Entries(Content(h))

(* No look-up passes more layers than the limit, and the root stays below it. *)
DepthBounded ==
  /\ \A h \in Live : Depth(h) <= MaxDepth
  /\ Depth(root) < MaxDepth

(* A step changes the content of no map but the copy of one transaction:    *)
(* what is published or lies under other copies reads the same for ever.    *)
OnlyCopiesChange ==
  [][\A h \in Live : Content(h)' # Content(h) =>
       /\ \E t \in Txns : copies[t] = h
       /\ ~heap[h].sealed /\ h # root]_vars

(* The layered maps behave as plain ones that are copied and replaced. *)
Maps == INSTANCE PlainMaps WITH
  NoMap     <- None,
  published <- Content(root),
  private   <- [t \in Txns |-> IF copies[t] = None THEN None ELSE Content(copies[t])],
  stale     <- {t \in Txns : copies[t] # None /\ Base(copies[t]) # root}

RefinesPlainMaps == Maps!Spec
=============================================================================
