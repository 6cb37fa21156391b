---------------------- MODULE TransactionHistoryProofs ----------------------
(***************************************************************************)
(* Theorems about TransactionHistory, for every set of transactions, every *)
(* length of a script and every limit: what a transaction was told stays   *)
(* true until it is in conflict, and the engine implements SerialStore.    *)
(***************************************************************************)
EXTENDS TransactionHistory, TransactionsProofs

(* What a transaction was told stays true as long as the revision check    *)
(* would let it commit.  The argument: a collection of the root changes    *)
(* only in a publication that stamps it with a revision above everything   *)
(* recorded before, so whoever was told about it earlier is in conflict    *)
(* from then on.                                                           *)

(* What one step of a history says of a collection. *)
Told(coll, step) ==
  /\ step.call.kind = "get"  => step.answer = coll.records[step.call.key]
  /\ step.call.kind = "find" =>
       step.answer = FindDocs(coll, step.call.condition, step.call.ceiling)

(* The entry n of the history of t is about a collection t has touched, and *)
(* true of the root if that collection has not moved since.                 *)
EntrySound(t, n) ==
  LET step == script[t][n]
      c    == step.call.coll
  IN  /\ c \in Collections
      /\ base[t][c] # Untouched
      /\ base[t][c] = collRevision[c] /\ ~step.own => Told(stored[c], step)

HistoryInv ==
  /\ TransactionInv
  /\ \E steps : script \in [Txns -> Seq(steps)]
  /\ \A t \in Txns : \A n \in 1 .. Len(script[t]) : EntrySound(t, n)

-----------------------------------------------------------------------------
(* Every step with history is a step of the engine. *)
LEMMA HistoryNextIsNext == [HistoryNext]_historyVars => [Next]_vars
BY DEF HistoryNext, Next, historyVars, vars

(* A recorded call is appended to one history. *)
LEMMA RecordAppends ==
  ASSUME NEW steps, script \in [Txns -> Seq(steps)],
         NEW t \in Txns, NEW call, NEW answer, Record(t, call, answer)
  PROVE  LET step == [call |-> call, answer |-> answer, own |-> working[t][call.coll] # NoCopy]
         IN  /\ script' \in [Txns -> Seq(steps \cup {step})]
             /\ Len(script'[t]) = Len(script[t]) + 1
             /\ \A n \in 1 .. Len(script[t]) : script'[t][n] = script[t][n]
             /\ script'[t][Len(script[t]) + 1] = step
             /\ \A u \in Txns : u # t => script'[u] = script[u]
<1> DEFINE step == [call |-> call, answer |-> answer, own |-> working[t][call.coll] # NoCopy]
<1>1. script' = [script EXCEPT ![t] = Append(@, step)]
  BY DEF Record
<1> HIDE DEF step
<1>2. \A u \in Txns : script[u] \in Seq(steps \cup {step})
  BY SMTT(20)
<1>3. /\ Append(script[t], step) \in Seq(steps \cup {step})
      /\ Len(Append(script[t], step)) = Len(script[t]) + 1
      /\ \A n \in 1 .. Len(script[t]) : Append(script[t], step)[n] = script[t][n]
      /\ Append(script[t], step)[Len(script[t]) + 1] = step
  <2> DEFINE S == steps \cup {step}
             before == script[t]
  <2>1. before \in Seq(S) /\ step \in S
    BY <1>2
  <2> HIDE DEF S, before
  <2>2. /\ Append(before, step) \in Seq(S)
        /\ Len(Append(before, step)) = Len(before) + 1
        /\ \A n \in 1 .. Len(before) : Append(before, step)[n] = before[n]
        /\ Append(before, step)[Len(before) + 1] = step
    BY <2>1
  <2> QED BY <2>2 DEF S, before
<1>4. /\ script'[t] = Append(script[t], step)
      /\ \A u \in Txns : u # t => script'[u] = script[u]
      /\ script' \in [Txns -> Seq(steps \cup {step})]
  BY <1>1, <1>2, <1>3
<1> QED
  BY <1>3, <1>4 DEF step

(* A call that leaves the root alone keeps what was told before. *)
LEMMA EntriesStay ==
  ASSUME TransactionInv, UNCHANGED <<stored, collRevision>>,
         NEW t \in Txns, NEW c \in Collections, Touch(t, c),
         NEW u \in Txns, NEW n, EntrySound(u, n), script'[u][n] = script[u][n]
  PROVE  EntrySound(u, n)'
<1> DEFINE d == script[u][n].call.coll
<1>1. d \in Collections /\ base[u][d] # Untouched
  BY DEF EntrySound
<1>2. base'[u][d] = base[u][d]
  <2> HIDE DEF d
  <2> QED BY <1>1, TouchSound
<1>3. base[u][d] = collRevision[d] /\ ~script[u][n].own => Told(stored[d], script[u][n])
  BY DEF EntrySound
<1> QED
  BY <1>1, <1>2, <1>3 DEF EntrySound

(* A recorded call keeps the invariant, provided what it answers is true of *)
(* the root unless it ran on a working copy.                                *)
LEMMA RecordKeeps ==
  ASSUME HistoryInv, TransactionInv', UNCHANGED <<stored, collRevision>>,
         NEW t \in Txns, NEW call \in Calls, NEW answer, Touch(t, call.coll),
         Record(t, call, answer),
         working[t][call.coll] = NoCopy =>
           /\ call.kind = "get"  => answer = stored[call.coll].records[call.key]
           /\ call.kind = "find" =>
                answer = FindDocs(stored[call.coll], call.condition, call.ceiling)
  PROVE  HistoryInv'
<1> DEFINE step == [call |-> call, answer |-> answer, own |-> working[t][call.coll] # NoCopy]
<1>1. PICK steps : script \in [Txns -> Seq(steps)]
  BY DEF HistoryInv
<1>2. /\ script' \in [Txns -> Seq(steps \cup {step})]
      /\ Len(script'[t]) = Len(script[t]) + 1
      /\ \A n \in 1 .. Len(script[t]) : script'[t][n] = script[t][n]
      /\ script'[t][Len(script[t]) + 1] = step
      /\ \A u \in Txns : u # t => script'[u] = script[u]
  <2> HIDE DEF step
  <2> QED BY <1>1, RecordAppends DEF step
<1>3. call.coll \in Collections
  BY DEF Calls, GetCalls, FindCalls, WriteCalls, InsertCalls, UpsertCalls, UpdateCalls, DeleteCalls
<1>4. Len(script[t]) \in Nat
  BY <1>1
<1>5. ASSUME NEW u \in Txns, NEW n \in 1 .. Len(script'[u])
      PROVE  EntrySound(u, n)'
  <2>1. CASE u = t /\ n = Len(script[t]) + 1
    <3>1. /\ step.call = call /\ step.answer = answer
          /\ step.own = (working[t][call.coll] # NoCopy)
      OBVIOUS
    <3>2. script'[u][n] = step /\ base'[t][call.coll] # Untouched
      BY <1>2, <1>3, <2>1, TouchSound DEF HistoryInv
    <3>3. ~step.own => Told(stored[call.coll], step)
      <4> HIDE DEF step
      <4> QED BY <3>1 DEF Told
    <3> HIDE DEF step
    <3> QED BY <1>3, <2>1, <3>1, <3>2, <3>3 DEF EntrySound
  <2>2. CASE ~(u = t /\ n = Len(script[t]) + 1)
    <3>1. n \in 1 .. Len(script[u]) /\ script'[u][n] = script[u][n]
      <4> HIDE DEF step
      <4> QED BY <1>2, <1>4, <2>2
    <3>2. EntrySound(u, n)
      BY <3>1 DEF HistoryInv
    <3> QED
      BY <1>3, <3>1, <3>2, EntriesStay DEF HistoryInv
  <2> QED BY <2>1, <2>2
<1>6. \E all : script' \in [Txns -> Seq(all)]
  BY <1>2
<1> QED
  BY <1>5, <1>6 DEF HistoryInv

(* A transaction that ends is forgotten; the others keep theirs, and where *)
(* the root moved they are in conflict.                                    *)
LEMMA ForgetKeeps ==
  ASSUME HistoryInv, TransactionInv', NEW t \in Txns, Forget(t),
         NEW how \in {"committed", "rolledBack"}, End(t, how),
         \A c \in Collections :
           \/ stored'[c] = stored[c] /\ collRevision'[c] = collRevision[c]
           \/ collRevision'[c] = revision + 1
  PROVE  HistoryInv'
<1>1. PICK steps : script \in [Txns -> Seq(steps)]
  BY DEF HistoryInv
<1>2. /\ script' \in [Txns -> Seq(steps)]
      /\ script'[t] = <<>>
      /\ \A u \in Txns : u # t => script'[u] = script[u]
  BY <1>1 DEF Forget
<1>3. ASSUME NEW u \in Txns, NEW n \in 1 .. Len(script'[u])
      PROVE  EntrySound(u, n)'
  <2>1. u # t /\ script'[u] = script[u]
    BY <1>2
  <2>2. EntrySound(u, n)
    BY <2>1 DEF HistoryInv
  <2> DEFINE c == script[u][n].call.coll
  <2>3. c \in Collections /\ base[u][c] # Untouched
    BY <2>2 DEF EntrySound
  <2>4. base[u][c] = collRevision[c] /\ ~script[u][n].own => Told(stored[c], script[u][n])
    BY <2>2 DEF EntrySound
  <2>5. /\ base[u][c] \in Nat \cup {Untouched} /\ collRevision[c] \in Nat /\ revision \in Nat
        /\ base[u][c] <= collRevision[c] /\ collRevision[c] <= revision
    <3> HIDE DEF c
    <3> QED BY <2>3 DEF HistoryInv, TransactionInv, TypeOK, RevisionsGrow
  <2>6. base'[u][c] = base[u][c]
    <3> HIDE DEF c
    <3>1. TypeOK
      BY DEF HistoryInv, TransactionInv
    <3> QED BY <2>1, <2>3, <3>1, EndSound
  <2>7. base[u][c] = collRevision'[c] => stored'[c] = stored[c] /\ collRevision'[c] = collRevision[c]
    <3> HIDE DEF c
    <3> QED BY <2>3, <2>5
  <2> QED
    BY <2>1, <2>3, <2>4, <2>6, <2>7 DEF EntrySound
<1>4. \E all : script' \in [Txns -> Seq(all)]
  BY <1>2
<1> QED
  BY <1>3, <1>4 DEF HistoryInv

(* No step breaks the invariant. *)
LEMMA HistoryNextSound == HistoryInv /\ [HistoryNext]_historyVars => HistoryInv'
<1> SUFFICES ASSUME HistoryInv, [HistoryNext]_historyVars PROVE HistoryInv'
  OBVIOUS
<1>1. TransactionInv'
  BY HistoryNextIsNext, NextSound DEF HistoryInv
<1>2. ASSUME NEW t \in Txns, NEW call \in GetCalls \cup FindCalls, Look(t, call.coll),
             Record(t, call, Looking(t, call))
      PROVE  HistoryInv'
  <2>1. /\ UNCHANGED <<stored, collRevision>> /\ Touch(t, call.coll) /\ call \in Calls
        /\ call \in GetCalls => call.kind = "get"
        /\ call \in FindCalls => call.kind = "find"
    BY <1>2 DEF Look, root, Calls, GetCalls, FindCalls
  <2>2. working[t][call.coll] = NoCopy =>
          Looking(t, call) = LookAnswer(stored[call.coll], call)
    BY DEF Looking, View
  <2>3. working[t][call.coll] = NoCopy =>
          /\ call.kind = "get"  => Looking(t, call) = stored[call.coll].records[call.key]
          /\ call.kind = "find" =>
               Looking(t, call) = FindDocs(stored[call.coll], call.condition, call.ceiling)
    BY <2>1, <2>2 DEF LookAnswer
  <2> QED BY <1>1, <1>2, <2>1, <2>3, RecordKeeps
<1>3. ASSUME NEW t \in Txns, NEW call \in WriteCalls, Write(t, call),
             Record(t, call, Writing(t, call))
      PROVE  HistoryInv'
  <2>1. /\ UNCHANGED <<stored, collRevision>> /\ Touch(t, call.coll) /\ call \in Calls
    BY <1>3 DEF Write, root, Calls
  <2>2. call.kind # "get" /\ call.kind # "find"
    BY DEF WriteCalls, InsertCalls, UpsertCalls, UpdateCalls, DeleteCalls
  <2> QED BY <1>1, <1>3, <2>1, <2>2, RecordKeeps
<1>4. ASSUME NEW t \in Txns, Rollback(t) \/ RefuseCommit(t) \/ CommitUnchanged(t), Forget(t)
      PROVE  HistoryInv'
  <2>1. \E how \in {"committed", "rolledBack"} : End(t, how)
    BY <1>4 DEF Rollback, RefuseCommit, CommitUnchanged
  <2>2. UNCHANGED <<stored, collRevision>>
    BY <1>4 DEF Rollback, RefuseCommit, CommitUnchanged, root
  <2> QED BY <1>1, <1>4, <2>1, <2>2, ForgetKeeps
<1>5. ASSUME NEW t \in Txns, Publish(t), Forget(t)
      PROVE  HistoryInv'
  <2>1. ASSUME NEW c \in Collections
        PROVE  \/ stored'[c] = stored[c] /\ collRevision'[c] = collRevision[c]
               \/ collRevision'[c] = revision + 1
    BY <1>5 DEF Publish, View
  <2>2. End(t, "committed")
    BY <1>5 DEF Publish
  <2> QED BY <1>1, <1>5, <2>1, <2>2, ForgetKeeps
<1>6. ASSUME UNCHANGED <<stored, collRevision, base, script>>
      PROVE  HistoryInv'
  BY <1>1, <1>6 DEF HistoryInv, EntrySound
<1>7. ASSUME NEW t \in Txns, BeginTransaction(t) \/ ExceedLimit(t) \/ Expire(t), UNCHANGED script
      PROVE  HistoryInv'
  BY <1>6, <1>7 DEF BeginTransaction, ExceedLimit, Expire, root, private
<1>8. ASSUME (ChangeLifecycle /\ UNCHANGED script) \/ UNCHANGED historyVars
      PROVE  HistoryInv'
  BY <1>6, <1>8 DEF ChangeLifecycle, historyVars, vars, root, private
<1> QED
  BY <1>2, <1>3, <1>4, <1>5, <1>7, <1>8 DEF HistoryNext, Get, Find

LEMMA HistoryInitSound == HistoryInit => HistoryInv
<1> SUFFICES ASSUME HistoryInit PROVE HistoryInv
  OBVIOUS
<1>1. TransactionInv
  BY InitSound DEF HistoryInit
<1>2. \A t \in Txns : script[t] = <<>>
  BY DEF HistoryInit
<1>3. script \in [Txns -> Seq({})]
  BY DEF HistoryInit
<1> QED
  BY <1>1, <1>2, <1>3 DEF HistoryInv

(* Whatever a transaction read from the shared root is still true of it in  *)
(* every state in which the revision check of _commit would let it commit: *)
(* reads of different moments never combine into something that never was.  *)
THEOREM ReadsStayCurrent == HistorySpec => []ReadsCurrent
<1>1. HistoryInv => ReadsCurrent
  BY DEF HistoryInv, EntrySound, Told, ReadsCurrent, Conflicts, Touched
<1> QED
  BY <1>1, HistoryInitSound, HistoryNextSound, PTL DEF HistorySpec

-----------------------------------------------------------------------------
(* The refinement of SerialStore.  A script run alone, first its own words: *)
(* SerialStore speaks of the documents as module SerialDocs does, whose     *)
(* operators Collection is compared with under the name Ideal.              *)

Stores == [Collections -> Seq(Ideal!Entries)]
Runs   == [store : Stores, agrees : BOOLEAN]

StepOn(run, step) ==
  LET docs == run.store[step.call.coll]
  IN  [store  |-> [run.store EXCEPT ![step.call.coll] = Serial!After(docs, step.call)],
       agrees |-> run.agrees /\ Serial!Answer(docs, step.call) = step.answer]

RunSteps(steps) == [i \in 1 .. Len(steps) |-> [run \in Runs |-> StepOn(run, steps[i])]]

LEMMA SameMeaning ==
  ASSUME NEW docs, NEW call
  PROVE  /\ Serial!Answer(docs, call) = Ideal!Answer(docs, call)
         /\ Serial!After(docs, call) = Ideal!After(docs, call)
<1>1. \A s, chosen : Serial!Picked(s, chosen) = Ideal!Picked(s, chosen)
  BY DEF Serial!Picked, Ideal!Picked, Serial!FoldLeft, Ideal!FoldLeft,
         Serial!MapThenFoldSet, Ideal!MapThenFoldSet, Serial!Max, Ideal!Max
<1>2. \A k : Serial!Lookup(docs, k) = Ideal!Lookup(docs, k)
  BY DEF Serial!Lookup, Ideal!Lookup
<1>3. Serial!WriteVerdict(docs, call) = Ideal!WriteVerdict(docs, call)
  BY DEF Serial!WriteVerdict, Ideal!WriteVerdict, Serial!Lookup, Ideal!Lookup,
         Serial!Admissible, Ideal!Admissible
<1>4. Serial!Answer(docs, call) = Ideal!Answer(docs, call)
  BY <1>1, <1>2, <1>3 DEF Serial!Answer, Ideal!Answer, Serial!Entries, Ideal!Entries
<1>5. /\ \A k, d : Serial!Put(docs, k, d) = Ideal!Put(docs, k, d)
      /\ \A k : Serial!Drop(docs, k) = Ideal!Drop(docs, k)
  BY <1>1, <1>2 DEF Serial!Put, Ideal!Put, Serial!Drop, Ideal!Drop, Serial!Entries, Ideal!Entries
<1>6. Serial!After(docs, call) = Ideal!After(docs, call)
  BY <1>2, <1>3, <1>5 DEF Serial!After, Ideal!After
<1> QED
  BY <1>4, <1>6

LEMMA CallOnCollection ==
  ASSUME NEW call \in Calls
  PROVE  call.coll \in Collections
BY DEF Calls, GetCalls, FindCalls, WriteCalls, InsertCalls, UpsertCalls, UpdateCalls, DeleteCalls

LEMMA StepTyped ==
  ASSUME NEW run \in Runs, NEW step, step.call \in Calls
  PROVE  StepOn(run, step) \in Runs
<1>1. PICK c \in Collections : c = step.call.coll
  BY CallOnCollection
<1>2. PICK docs \in Seq(Ideal!Entries) : docs = run.store[c]
  BY DEF Runs, Stores
<1>3. Serial!After(docs, step.call) \in Seq(Ideal!Entries)
  BY AfterTyped, SameMeaning
<1>4. run.store \in Stores /\ run.agrees \in BOOLEAN
  BY DEF Runs
<1>5. PICK after \in Seq(Ideal!Entries) : after = Serial!After(docs, step.call)
  BY <1>3
<1>6. [run.store EXCEPT ![c] = after] \in Stores
  BY <1>4 DEF Stores
<1>7. (run.agrees /\ Serial!Answer(docs, step.call) = step.answer) \in BOOLEAN
  OBVIOUS
<1> QED
  BY <1>1, <1>2, <1>5, <1>6, <1>7 DEF StepOn, Runs

(* Running a script passes through its calls one by one. *)
LEMMA RunTrace ==
  ASSUME NEW s \in Stores, NEW S, NEW steps \in Seq(S),
         \A i \in 1 .. Len(steps) : steps[i].call \in Calls
  PROVE  /\ RunSteps(steps) \in [1 .. Len(steps) -> [Runs -> Runs]]
         /\ Traced(Runs, Len(steps), RunSteps(steps), [store |-> s, agrees |-> TRUE],
                   Serial!RunAlone(s, steps))
<1> DEFINE m == Len(steps)
           st == RunSteps(steps)
           start == [store |-> s, agrees |-> TRUE]
           f == CHOOSE h : h = [x \in SUBSET (1 .. m) |->
                  IF x = {} THEN start
                  ELSE LET docs == h[x \ {Max(x)}].store[steps[Max(x)].call.coll]
                       IN  [store  |-> [h[x \ {Max(x)}].store EXCEPT
                                          ![steps[Max(x)].call.coll] =
                                            Serial!After(docs, steps[Max(x)].call)],
                            agrees |-> /\ h[x \ {Max(x)}].agrees
                                       /\ Serial!Answer(docs, steps[Max(x)].call)
                                            = steps[Max(x)].answer]]
<1>1. m \in Nat /\ DOMAIN steps = 1 .. m
  OBVIOUS
<1>2. Serial!RunAlone(s, steps) = f[1 .. m]
  BY <1>1 DEF Serial!RunAlone, Serial!FoldLeft, Serial!MapThenFoldSet, Serial!Max, Max
<1>3. st \in [1 .. m -> [Runs -> Runs]]
  BY StepTyped DEF RunSteps
<1>4. \A i \in 1 .. m, run \in Runs : st[i][run] = StepOn(run, steps[i])
  BY DEF RunSteps
<1>0. start \in Runs
  BY DEF Runs
<1> HIDE DEF st, m, start
<1>5. PICK g \in [SUBSET (1 .. m) -> Runs] : Folds(g, m, st, start)
  BY <1>0, <1>1, <1>3, FoldsExist DEF CanFold
<1>6. ASSUME NEW x \in SUBSET (1 .. m)
      PROVE  g[x] = IF x = {} THEN start ELSE StepOn(g[x \ {Max(x)}], steps[Max(x)])
  <2>1. CASE x = {}
    BY <1>5, <2>1 DEF Folds
  <2>2. CASE x # {}
    <3>1. Max(x) \in 1 .. m /\ x \ {Max(x)} \in SUBSET (1 .. m)
      BY <1>1, <2>2, MaxBounds
    <3>2. g[x \ {Max(x)}] \in Runs
      BY <3>1
    <3>3. g[x] = st[Max(x)][g[x \ {Max(x)}]]
      BY <1>5, <2>2 DEF Folds
    <3> QED
      BY <1>4, <2>2, <3>1, <3>2, <3>3
  <2> QED
    BY <2>1, <2>2
<1>7. f = [x \in SUBSET (1 .. m) |->
             IF x = {} THEN start ELSE StepOn(f[x \ {Max(x)}], steps[Max(x)])]
  <2>1. g = [x \in SUBSET (1 .. m) |->
               IF x = {} THEN start ELSE StepOn(g[x \ {Max(x)}], steps[Max(x)])]
    BY <1>6
  <2> QED
    BY <2>1 DEF StepOn
<1> HIDE DEF f
<1>8. f[1 .. m] = g[1 .. m]
  <2>1. {} \in SUBSET (1 .. m)
    OBVIOUS
  <2>2. f[{}] = g[{}]
    BY <1>6, <1>7, <2>1
  <2>3. ASSUME NEW x \in SUBSET (1 .. m), x # {}, f[x \ {Max(x)}] = g[x \ {Max(x)}]
        PROVE  f[x] = g[x]
    BY <1>6, <1>7, <2>3
  <2> QED
    BY <1>1, <2>2, <2>3, SameFolds
<1>9. m \in Nat
  BY <1>1
<1>10. g \in [SUBSET (1 .. m) -> Runs] /\ Folds(g, m, st, start)
  BY <1>5
<1>11. Traced(Runs, m, st, start, g[1 .. m])
  BY <1>0, <1>9, <1>3, <1>10, FoldTrace
<1> QED
  BY <1>2, <1>3, <1>8, <1>11 DEF st, m, start

(* Nothing called, nothing changed. *)
LEMMA RunEmpty ==
  ASSUME NEW s \in Stores
  PROVE  Serial!RunAlone(s, <<>>) = [store |-> s, agrees |-> TRUE]
<1>1. <<>> \in Seq({}) /\ Len(<<>>) = 0
  OBVIOUS
<1>2. PICK steps : steps = <<>>
  OBVIOUS
<1>3. steps \in Seq({}) /\ Len(steps) = 0 /\ \A i \in 1 .. Len(steps) : steps[i].call \in Calls
  BY <1>1, <1>2
<1>4. Traced(Runs, 0, RunSteps(steps), [store |-> s, agrees |-> TRUE], Serial!RunAlone(s, steps))
  BY <1>3, RunTrace
<1> QED
  BY <1>2, <1>4 DEF Traced, Trace

(* One more call runs after the others. *)
LEMMA RunAppend ==
  ASSUME NEW s \in Stores, NEW S, NEW steps \in Seq(S), NEW step \in S, step.call \in Calls,
         \A i \in 1 .. Len(steps) : steps[i].call \in Calls
  PROVE  /\ Serial!RunAlone(s, steps) \in Runs
         /\ Serial!RunAlone(s, Append(steps, step)) = StepOn(Serial!RunAlone(s, steps), step)
<1>0. PICK m \in Nat : m = Len(steps)
  <2>1. Len(steps) \in Nat
    OBVIOUS
  <2> QED
    BY <2>1
<1>1. PICK longer :
        /\ longer = Append(steps, step)
        /\ longer \in Seq(S) /\ Len(longer) = m + 1 /\ longer[m + 1] = step
        /\ \A i \in 1 .. m : longer[i] = steps[i]
  <2>1. /\ Len(steps) \in Nat /\ Append(steps, step) \in Seq(S)
        /\ Len(Append(steps, step)) = Len(steps) + 1
        /\ Append(steps, step)[Len(steps) + 1] = step
        /\ \A i \in 1 .. Len(steps) : Append(steps, step)[i] = steps[i]
    OBVIOUS
  <2> QED
    BY <1>0, <2>1
<1>2. PICK x, y : x = Serial!RunAlone(s, steps) /\ y = Serial!RunAlone(s, longer)
  OBVIOUS
<1>3. PICK start : start = [store |-> s, agrees |-> TRUE]
  OBVIOUS
<1>4. \A i \in 1 .. m + 1 : i \in 1 .. m \/ i = m + 1
  OBVIOUS
<1>5. \A i \in 1 .. Len(longer) : longer[i].call \in Calls
  BY <1>1, <1>4
<1>6. /\ Traced(Runs, m, RunSteps(steps), start, x)
      /\ Traced(Runs, m + 1, RunSteps(longer), start, y)
  BY <1>0, <1>1, <1>2, <1>3, <1>5, RunTrace
<1>7. x \in Runs
  BY <1>6 DEF Traced
<1>8. \A i \in 1 .. m : RunSteps(steps)[i] = RunSteps(longer)[i]
  BY <1>1 DEF RunSteps
<1>9. y = RunSteps(longer)[m + 1][x]
  BY <1>6, <1>8, TraceAppend
<1>10. RunSteps(longer)[m + 1][x] = StepOn(x, step)
  BY <1>1, <1>7 DEF RunSteps
<1> QED
  BY <1>1, <1>2, <1>7, <1>9, <1>10
-----------------------------------------------------------------------------
(* What makes a commit a step of SerialStore: as long as no collection the  *)
(* transaction touched has moved, running its script alone, on any store    *)
(* that has the committed documents of those collections, gives the answers *)
(* it was given and leaves what it sees.                                    *)

(* What the store s would become if t committed *)
Left(t, s) == [c \in Collections |-> IF c \in Touched(t) THEN DocsOf(View(t, c)) ELSE s[c]]

(* s has the documents of the root where t has looked *)
Offers(s, t) == \A c \in Touched(t) : s[c] = DocsOf(stored[c])

Serializes(t) ==
  Conflicts(t) = {} =>
    \A s \in Stores :
      Offers(s, t) => Serial!RunAlone(s, ScriptOf(t)) = [store |-> Left(t, s), agrees |-> TRUE]

CallsRecorded(t) == \A n \in 1 .. Len(script[t]) : script[t][n].call \in Calls

SerialInv ==
  /\ HistoryInv
  /\ ChangesInv
  /\ \A t \in Txns : CallsRecorded(t) /\ Serializes(t)

(* The script of a transaction, without what the engine did for each call *)
LEMMA ScriptListed ==
  ASSUME NEW steps, script \in [Txns -> Seq(steps)], NEW t \in Txns
  PROVE  /\ ScriptOf(t) \in Seq({[call |-> x.call, answer |-> x.answer] : x \in steps})
         /\ Len(ScriptOf(t)) = Len(script[t])
         /\ \A n \in 1 .. Len(script[t]) :
              /\ ScriptOf(t)[n] = [call |-> script[t][n].call, answer |-> script[t][n].answer]
              /\ ScriptOf(t)[n].call = script[t][n].call
<1>1. PICK list : list = script[t]
  OBVIOUS
<1>2. Len(list) \in Nat /\ \A n \in 1 .. Len(list) : list[n] \in steps
  BY <1>1
<1>3. PICK S : S = {[call |-> x.call, answer |-> x.answer] : x \in steps}
  OBVIOUS
<1>4. \A n \in 1 .. Len(list) : [call |-> list[n].call, answer |-> list[n].answer] \in S
  BY <1>2, <1>3
<1>5. PICK words : words = [n \in 1 .. Len(list) |-> [call |-> list[n].call, answer |-> list[n].answer]]
  OBVIOUS
<1>6. /\ words \in Seq(S) /\ Len(words) = Len(list)
      /\ \A n \in 1 .. Len(list) :
           words[n] = [call |-> list[n].call, answer |-> list[n].answer]
  BY <1>2, <1>4, <1>5
<1>7. ASSUME NEW n \in 1 .. Len(list) PROVE words[n].call = list[n].call
  <2>1. words[n] = [call |-> list[n].call, answer |-> list[n].answer]
    BY <1>6
  <2> QED
    BY <2>1
<1> QED
  BY <1>1, <1>3, <1>5, <1>6, <1>7 DEF ScriptOf

(* A recorded call is the last of the script. *)
LEMMA ScriptAppends ==
  ASSUME NEW steps, script \in [Txns -> Seq(steps)],
         NEW t \in Txns, NEW call, NEW answer, Record(t, call, answer)
  PROVE  /\ ScriptOf(t)' = Append(ScriptOf(t), [call |-> call, answer |-> answer])
         /\ \A u \in Txns : u # t => ScriptOf(u)' = ScriptOf(u)
<1> DEFINE e == [call |-> call, answer |-> answer, own |-> working[t][call.coll] # NoCopy]
<1>0. /\ script' \in [Txns -> Seq(steps \cup {e})]
      /\ Len(script'[t]) = Len(script[t]) + 1
      /\ \A n \in 1 .. Len(script[t]) : script'[t][n] = script[t][n]
      /\ script'[t][Len(script[t]) + 1] = e
      /\ \A u \in Txns : u # t => script'[u] = script[u]
  <2> HIDE DEF e
  <2> QED
    BY RecordAppends DEF e
<1>10. e.call = call /\ e.answer = answer
  OBVIOUS
<1> HIDE DEF e
<1>1. PICK before, after : before = script[t] /\ after = script'[t]
  OBVIOUS
<1>2. /\ Len(after) = Len(before) + 1 /\ after[Len(before) + 1] = e
      /\ \A n \in 1 .. Len(before) : after[n] = before[n]
      /\ \A u \in Txns : u # t => script'[u] = script[u]
  BY <1>0, <1>1
<1>3. Len(before) \in Nat
  BY <1>1
<1>4. PICK m \in Nat : m = Len(before)
  BY <1>3
<1>5. PICK words, step : words = ScriptOf(t) /\ step = [call |-> call, answer |-> answer]
  OBVIOUS
<1>6. /\ Len(words) = m
      /\ words \in Seq({[call |-> x.call, answer |-> x.answer] : x \in steps})
      /\ \A n \in 1 .. m : words[n] = [call |-> before[n].call, answer |-> before[n].answer]
  BY <1>1, <1>4, <1>5, ScriptListed
<1>7. PICK longer : longer = [n \in 1 .. m + 1 |-> [call |-> after[n].call, answer |-> after[n].answer]]
  OBVIOUS
<1>8. ScriptOf(t)' = longer
  BY <1>1, <1>2, <1>4, <1>7 DEF ScriptOf
<1>9. \A n \in 1 .. m + 1 : n \in 1 .. m \/ n = m + 1
  OBVIOUS
<1>11. /\ \A n \in 1 .. m : longer[n] = words[n]
       /\ longer[m + 1] = step
  <2>1. ASSUME NEW n \in 1 .. m PROVE longer[n] = words[n]
    <3>1. n \in 1 .. m + 1
      OBVIOUS
    <3> QED
      BY <1>2, <1>4, <1>6, <1>7, <3>1
  <2>2. m + 1 \in 1 .. m + 1
    OBVIOUS
  <2> QED
    BY <1>2, <1>4, <1>5, <1>7, <1>10, <2>1, <2>2
<1>12. Append(words, step) = longer
  <2>1. PICK S : words \in Seq(S) /\ step \in S
    <3>1. PICK R : R = {[call |-> x.call, answer |-> x.answer] : x \in steps}
      OBVIOUS
    <3>2. words \in Seq(R \cup {step})
      BY <1>6, <3>1
    <3> QED
      BY <3>2
  <2>2. /\ Append(words, step) \in Seq(S) /\ Len(Append(words, step)) = m + 1
        /\ \A n \in 1 .. m : Append(words, step)[n] = words[n]
        /\ Append(words, step)[m + 1] = step
    BY <1>6, <2>1
  <2>3. longer \in Seq(S) /\ Len(longer) = m + 1
    <3>1. \A n \in 1 .. m + 1 : longer[n] \in S
      BY <1>6, <1>9, <1>11, <2>1
    <3>2. m + 1 \in Nat /\ longer \in [1 .. m + 1 -> S]
      BY <1>7, <3>1
    <3> QED
      BY <3>2
  <2>4. \A n \in 1 .. m + 1 : Append(words, step)[n] = longer[n]
    BY <1>9, <1>11, <2>2
  <2> QED
    BY <2>2, <2>3, <2>4, SeqEqual
<1> QED
  BY <1>2, <1>5, <1>8, <1>12 DEF ScriptOf

(* Before its first call a transaction has an empty script and no touches. *)
LEMMA FreshSerializes ==
  ASSUME NEW t \in Txns, base[t] = Untold, script[t] = <<>>
  PROVE  CallsRecorded(t) /\ Serializes(t)
<1>1. Touched(t) = {}
  BY DEF Touched, Untold
<1>2. ScriptOf(t) = <<>> /\ Len(script[t]) = 0
  BY DEF ScriptOf
<1>3. ASSUME NEW s \in Stores
      PROVE  Serial!RunAlone(s, ScriptOf(t)) = [store |-> Left(t, s), agrees |-> TRUE]
  <2>1. Left(t, s) = s
    BY <1>1 DEF Left, Stores
  <2> QED
    BY <1>2, <2>1, RunEmpty
<1> QED
  BY <1>2, <1>3 DEF CallsRecorded, Serializes

(* What others do keeps it: where the root moved under a transaction, the  *)
(* transaction is in conflict or has never looked.                         *)
LEMMA OthersKeepSerial ==
  ASSUME SerialInv, NEW t \in Txns,
         base'[t] = base[t], working'[t] = working[t], script'[t] = script[t],
         \A c \in Collections :
           \/ stored'[c] = stored[c] /\ collRevision'[c] = collRevision[c]
           \/ collRevision'[c] = revision + 1
  PROVE  CallsRecorded(t)' /\ Serializes(t)'
<1>1. TransactionInv /\ CallsRecorded(t) /\ Serializes(t)
  BY DEF SerialInv, ChangesInv
<1>2. Touched(t)' = Touched(t)
  BY DEF Touched
<1>3. ScriptOf(t)' = ScriptOf(t)
  BY DEF ScriptOf
<1>4. CallsRecorded(t)'
  BY <1>1 DEF CallsRecorded
<1>5. ASSUME Conflicts(t)' = {}, NEW s \in Stores, Offers(s, t)'
      PROVE  (Serial!RunAlone(s, ScriptOf(t)) = [store |-> Left(t, s), agrees |-> TRUE])'
  <2>1. ASSUME NEW c \in Touched(t)
        PROVE  stored'[c] = stored[c] /\ collRevision'[c] = collRevision[c]
    <3>1. c \in Collections /\ base[t][c] = collRevision'[c]
      BY <1>2, <1>5 DEF Conflicts, Touched
    <3> QED
      BY <1>1, <3>1, FieldTypes DEF Touched, Untouched
  <2>2. Conflicts(t) = {}
    BY <1>2, <1>5, <2>1 DEF Conflicts
  <2>3. Offers(s, t)
    BY <1>2, <1>5, <2>1 DEF Offers
  <2>4. \A c \in Touched(t) : View(t, c)' = View(t, c)
    BY <2>1 DEF View
  <2>5. Left(t, s)' = Left(t, s)
    BY <1>2, <2>4 DEF Left
  <2>6. Serial!RunAlone(s, ScriptOf(t)) = [store |-> Left(t, s), agrees |-> TRUE]
    BY <1>1, <2>2, <2>3 DEF Serializes
  <2> QED
    BY <1>3, <2>5, <2>6
<1> QED
  BY <1>4, <1>5 DEF Serializes

(* Only the last call is new. *)
LEMMA LastRecorded ==
  ASSUME NEW steps, script \in [Txns -> Seq(steps)],
         NEW t \in Txns, NEW call, NEW answer, Record(t, call, answer)
  PROVE  /\ Len(script'[t]) = Len(script[t]) + 1
         /\ \A n \in 1 .. Len(script[t]) : script'[t][n] = script[t][n]
         /\ script'[t][Len(script[t]) + 1].call = call
<1> DEFINE e == [call |-> call, answer |-> answer, own |-> working[t][call.coll] # NoCopy]
<1>1. /\ script' \in [Txns -> Seq(steps \cup {e})]
      /\ Len(script'[t]) = Len(script[t]) + 1
      /\ \A n \in 1 .. Len(script[t]) : script'[t][n] = script[t][n]
      /\ script'[t][Len(script[t]) + 1] = e
      /\ \A u \in Txns : u # t => script'[u] = script[u]
  <2> HIDE DEF e
  <2> QED
    BY RecordAppends DEF e
<1>2. e.call = call
  OBVIOUS
<1> HIDE DEF e
<1> QED
  BY <1>1, <1>2

(* A call that answers as the plain documents do, and leaves what they     *)
(* become, is one more step of the script.                                 *)
LEMMA CallKeepsSerial ==
  ASSUME SerialInv, NEW t \in Txns, NEW call \in Calls, NEW answer,
         Touch(t, call.coll), Record(t, call, answer), UNCHANGED <<stored, collRevision>>,
         \A d \in Collections : d # call.coll => View(t, d)' = View(t, d),
         Ideal!Answer(DocsOf(View(t, call.coll)), call) = answer,
         Ideal!After(DocsOf(View(t, call.coll)), call) = DocsOf(View(t, call.coll)')
  PROVE  CallsRecorded(t)' /\ Serializes(t)'
<1>0. PICK c \in Collections : c = call.coll
  BY CallOnCollection
<1>1. /\ TransactionInv /\ CallsRecorded(t) /\ Serializes(t)
      /\ Touched(t)' = Touched(t) \cup {c} /\ Conflicts(t)' = Conflicts(t)
  BY <1>0, TouchConflicts DEF SerialInv, ChangesInv
<1>2. PICK steps : script \in [Txns -> Seq(steps)]
  BY DEF SerialInv, HistoryInv
<1>3. PICK step : step = [call |-> call, answer |-> answer]
  OBVIOUS
<1>4. step.call = call /\ step.answer = answer
  BY <1>3
<1>5. PICK words : words = ScriptOf(t)
  OBVIOUS
<1>6. PICK S : /\ words \in Seq(S) /\ step \in S
               /\ \A n \in 1 .. Len(words) : words[n].call \in Calls
  <2>1. PICK R : R = {[call |-> x.call, answer |-> x.answer] : x \in steps}
    OBVIOUS
  <2>2. /\ words \in Seq(R)
        /\ \A n \in 1 .. Len(words) : words[n].call \in Calls
    BY <1>1, <1>2, <1>5, <2>1, ScriptListed DEF CallsRecorded
  <2>3. words \in Seq(R \cup {step})
    BY <2>2
  <2> QED
    BY <2>2, <2>3
<1>7. ScriptOf(t)' = Append(words, step)
  BY <1>2, <1>3, <1>5, ScriptAppends
<1>8. CallsRecorded(t)'
  <2>1. /\ Len(script'[t]) = Len(script[t]) + 1
        /\ \A n \in 1 .. Len(script[t]) : script'[t][n] = script[t][n]
        /\ script'[t][Len(script[t]) + 1].call = call
    BY <1>2, LastRecorded
  <2>2. PICK m \in Nat : m = Len(script[t])
    BY <1>2
  <2>3. \A n \in 1 .. m + 1 : n \in 1 .. m \/ n = m + 1
    OBVIOUS
  <2> QED
    BY <1>1, <2>1, <2>2, <2>3 DEF CallsRecorded
<1>9. ASSUME Conflicts(t)' = {}, NEW s \in Stores, Offers(s, t)'
      PROVE  (Serial!RunAlone(s, ScriptOf(t)) = [store |-> Left(t, s), agrees |-> TRUE])'
  <2>1. Conflicts(t) = {} /\ Offers(s, t)
    BY <1>1, <1>9 DEF Offers
  <2>2. Serial!RunAlone(s, words) = [store |-> Left(t, s), agrees |-> TRUE]
    BY <1>1, <1>5, <2>1 DEF Serializes
  <2>3. PICK run : run = Serial!RunAlone(s, words)
    OBVIOUS
  <2>4. run \in Runs /\ Serial!RunAlone(s, Append(words, step)) = StepOn(run, step)
    BY <1>4, <1>6, <2>3, RunAppend
  <2>5. PICK docs : docs = DocsOf(View(t, c))
    OBVIOUS
  <2>6. run.store = Left(t, s) /\ run.agrees = TRUE
    BY <2>2, <2>3
  <2>7. Left(t, s)[c] = docs
    <3>1. CASE c \in Touched(t)
      BY <2>5, <3>1 DEF Left
    <3>2. CASE c \notin Touched(t)
      <4>1. working[t][c] = NoCopy
        BY <1>1, <3>2, FieldTypes
      <4>2. s[c] = DocsOf(stored[c])
        BY <1>1, <1>9 DEF Offers
      <4> QED
        BY <2>5, <3>2, <4>1, <4>2 DEF Left, View
    <3> QED
      BY <3>1, <3>2
  <2>8. Serial!Answer(docs, call) = answer /\ Serial!After(docs, call) = DocsOf(View(t, c)')
    BY <1>0, <2>5, SameMeaning
  <2>9. StepOn(run, step) = [store  |-> [run.store EXCEPT ![c] = Serial!After(docs, call)],
                             agrees |-> TRUE]
    BY <1>0, <1>4, <2>6, <2>7, <2>8 DEF StepOn
  <2>10. [Left(t, s) EXCEPT ![c] = DocsOf(View(t, c)')] = Left(t, s)'
    <3>1. ASSUME NEW d \in Collections
          PROVE  [Left(t, s) EXCEPT ![c] = DocsOf(View(t, c)')][d] = Left(t, s)'[d]
      <4>1. CASE d = c
        BY <1>1, <4>1 DEF Left
      <4>2. CASE d # c
        <5>1. View(t, d)' = View(t, d)
          BY <1>0, <4>2
        <5> QED
          BY <1>1, <4>2, <5>1 DEF Left
      <4> QED
        BY <4>1, <4>2
    <3> QED
      BY <3>1 DEF Left
  <2> QED
    BY <1>7, <2>4, <2>6, <2>8, <2>9, <2>10
<1> QED
  BY <1>8, <1>9 DEF Serializes

(* A look answers from what the transaction sees and leaves it. *)
LEMMA LookKeepsSerial ==
  ASSUME SerialInv, NEW t \in Txns, NEW call \in GetCalls \cup FindCalls, Look(t, call.coll),
         Record(t, call, Looking(t, call)), NEW u \in Txns
  PROVE  CallsRecorded(u)' /\ Serializes(u)'
<1>0. PICK c \in Collections : c = call.coll
  BY CallOnCollection DEF Calls
<1>1. /\ TransactionInv /\ call \in Calls
      /\ Touch(t, c) /\ UNCHANGED <<stored, collRevision, working>>
  BY <1>0 DEF SerialInv, ChangesInv, Look, root, Calls
<1>2. CASE u # t
  <2>1. base'[u] = base[u] /\ script'[u] = script[u]
    BY <1>1, <1>2 DEF Touch, TransactionInv, TypeOK, Record, SerialInv, HistoryInv
  <2> QED
    BY <1>1, <2>1, OthersKeepSerial
<1>3. CASE u = t
  <2>1. \A d \in Collections : View(t, d)' = View(t, d)
    BY <1>1 DEF View
  <2>2. PICK coll : coll = View(t, c)
    OBVIOUS
  <2>3. coll \in CollectionType /\ Consistent(coll)
    BY <1>1, <2>2, ViewSound
  <2>4. /\ Ideal!Answer(DocsOf(coll), call) = LookAnswer(coll, call)
        /\ Ideal!After(DocsOf(coll), call) = DocsOf(coll)
    BY <1>1, <2>3, CallsMatch
  <2>5. PICK answer : answer = Looking(t, call)
    OBVIOUS
  <2>6. answer = LookAnswer(coll, call)
    BY <1>0, <2>2, <2>5 DEF Looking
  <2>7. View(t, c)' = coll
    BY <2>1, <2>2
  <2> QED
    BY <1>0, <1>1, <1>3, <2>1, <2>2, <2>4, <2>5, <2>6, <2>7, CallKeepsSerial
<1> QED
  BY <1>2, <1>3

(* A write answers what it comes to and leaves the copy it made. *)
LEMMA WriteKeepsSerial ==
  ASSUME SerialInv, NEW t \in Txns, NEW call \in WriteCalls, Write(t, call),
         Record(t, call, Writing(t, call)), NEW u \in Txns
  PROVE  CallsRecorded(u)' /\ Serializes(u)'
<1>0. PICK c \in Collections : c = call.coll
  BY CallOnCollection DEF Calls
<1>1. /\ TransactionInv /\ call \in Calls
      /\ Touch(t, c) /\ UNCHANGED <<stored, collRevision>>
  BY <1>0 DEF SerialInv, ChangesInv, Write, root, Calls
<1>2. PICK coll, write : coll = View(t, c) /\ write = WriteOutcome(coll, call)
  OBVIOUS
<1>3. Writable(t, c).coll = coll
  BY <1>2 DEF Writable, View
<1>4. working' = [working EXCEPT ![t][c] = [Writable(t, c) EXCEPT !.coll = write.coll]]
  BY <1>0, <1>2, <1>3 DEF Write
<1>5. CASE u # t
  <2>1. base'[u] = base[u] /\ working'[u] = working[u] /\ script'[u] = script[u]
    BY <1>1, <1>4, <1>5 DEF Touch, TransactionInv, TypeOK, Record, SerialInv, HistoryInv
  <2> QED
    BY <1>1, <2>1, OthersKeepSerial
<1>6. CASE u = t
  <2>1. coll \in CollectionType /\ Consistent(coll)
    BY <1>1, <1>2, ViewSound
  <2>2. /\ Ideal!Answer(DocsOf(coll), call) = write.result
        /\ Ideal!After(DocsOf(coll), call) = DocsOf(write.coll)
    BY <1>1, <1>2, <2>1, CallsMatch
  <2>3. View(t, c)' = write.coll /\ \A d \in Collections : d # c => View(t, d)' = View(t, d)
    <3>1. write.coll \in CollectionType
      BY <1>2, <2>1, WriteOutcomeTyped DEF WriteTyped, Consistent
    <3> QED
      BY <1>1, <1>4, <3>1, WriteShows
  <2>4. PICK answer : answer = Writing(t, call)
    OBVIOUS
  <2>5. answer = write.result
    BY <1>0, <1>2, <1>3, <2>4 DEF Writing
  <2> QED
    BY <1>0, <1>1, <1>2, <1>6, <2>2, <2>3, <2>4, <2>5, CallKeepsSerial
<1> QED
  BY <1>5, <1>6

(* Ending leaves nothing, and keeps the others. *)
LEMMA ForgetKeepsSerial ==
  ASSUME SerialInv, NEW t \in Txns, NEW how, End(t, how), Forget(t),
         \A c \in Collections :
           \/ stored'[c] = stored[c] /\ collRevision'[c] = collRevision[c]
           \/ collRevision'[c] = revision + 1,
         NEW u \in Txns
  PROVE  CallsRecorded(u)' /\ Serializes(u)'
<1>1. TransactionInv /\ \E steps : script \in [Txns -> Seq(steps)]
  BY DEF SerialInv, ChangesInv, HistoryInv
<1>2. CASE u = t
  <2>1. base'[u] = Untold /\ script'[u] = <<>>
    BY <1>1, <1>2 DEF End, Forget, TransactionInv, TypeOK
  <2>2. Touched(u)' = {}
    BY <2>1 DEF Touched, Untold
  <2>3. ScriptOf(u)' = <<>> /\ Len(script'[u]) = 0
    BY <2>1 DEF ScriptOf
  <2>4. ASSUME NEW s \in Stores
        PROVE  Serial!RunAlone(s, ScriptOf(u)') = [store |-> Left(u, s)', agrees |-> TRUE]
    <3>1. Left(u, s)' = s
      BY <2>2 DEF Left, Stores
    <3> QED
      BY <2>3, <3>1, RunEmpty
  <2> QED
    BY <2>3, <2>4 DEF CallsRecorded, Serializes
<1>3. CASE u # t
  <2>1. base'[u] = base[u] /\ working'[u] = working[u] /\ script'[u] = script[u]
    BY <1>1, <1>3 DEF End, Forget, TransactionInv, TypeOK
  <2> QED
    BY <2>1, OthersKeepSerial
<1> QED
  BY <1>2, <1>3

(* No step breaks it. *)
LEMMA SerialStep == SerialInv /\ [HistoryNext]_historyVars => SerialInv'
<1> SUFFICES ASSUME SerialInv, [HistoryNext]_historyVars PROVE SerialInv'
  OBVIOUS
<1>1. HistoryInv' /\ ChangesInv'
  BY HistoryNextIsNext, HistoryNextSound, ChangesStep DEF SerialInv
<1>2. ASSUME NEW u \in Txns PROVE CallsRecorded(u)' /\ Serializes(u)'
  <2>1. ASSUME NEW t \in Txns, NEW call \in GetCalls \cup FindCalls, Look(t, call.coll),
               Record(t, call, Looking(t, call))
        PROVE  CallsRecorded(u)' /\ Serializes(u)'
    BY <2>1, LookKeepsSerial
  <2>2. ASSUME NEW t \in Txns, NEW call \in WriteCalls, Write(t, call),
               Record(t, call, Writing(t, call))
        PROVE  CallsRecorded(u)' /\ Serializes(u)'
    BY <2>2, WriteKeepsSerial
  <2>3. ASSUME NEW t \in Txns, Rollback(t) \/ RefuseCommit(t) \/ CommitUnchanged(t), Forget(t)
        PROVE  CallsRecorded(u)' /\ Serializes(u)'
    <3>1. PICK how : End(t, how)
      BY <2>3 DEF Rollback, RefuseCommit, CommitUnchanged
    <3>2. stored' = stored /\ collRevision' = collRevision
      BY <2>3 DEF Rollback, RefuseCommit, CommitUnchanged, root
    <3> QED
      BY <2>3, <3>1, <3>2, ForgetKeepsSerial
  <2>4. ASSUME NEW t \in Txns, Publish(t), Forget(t)
        PROVE  CallsRecorded(u)' /\ Serializes(u)'
    <3>1. ASSUME NEW c \in Collections
          PROVE  \/ stored'[c] = stored[c] /\ collRevision'[c] = collRevision[c]
                 \/ collRevision'[c] = revision + 1
      BY <2>4 DEF Publish, View
    <3>2. End(t, "committed")
      BY <2>4 DEF Publish
    <3> QED
      BY <2>4, <3>1, <3>2, ForgetKeepsSerial
  <2>5. ASSUME UNCHANGED <<stored, collRevision, base, working, script>>
        PROVE  CallsRecorded(u)' /\ Serializes(u)'
    BY <2>5, OthersKeepSerial
  <2>6. ASSUME NEW t \in Txns, BeginTransaction(t) \/ ExceedLimit(t) \/ Expire(t), UNCHANGED script
        PROVE  CallsRecorded(u)' /\ Serializes(u)'
    BY <2>5, <2>6 DEF BeginTransaction, ExceedLimit, Expire, root, private
  <2>7. CASE (ChangeLifecycle /\ UNCHANGED script) \/ UNCHANGED historyVars
    BY <2>5, <2>7 DEF ChangeLifecycle, historyVars, vars, root, private
  <2> QED
    BY <2>1, <2>2, <2>3, <2>4, <2>6, <2>7 DEF HistoryNext, Get, Find
<1> QED
  BY <1>1, <1>2 DEF SerialInv

LEMMA SerialStart == HistoryInit => SerialInv
<1> SUFFICES ASSUME HistoryInit PROVE SerialInv
  OBVIOUS
<1>1. HistoryInv /\ ChangesInv
  BY HistoryInitSound, ChangesInit DEF HistoryInit
<1>2. ASSUME NEW t \in Txns PROVE CallsRecorded(t) /\ Serializes(t)
  <2>1. base[t] = Untold /\ script[t] = <<>>
    BY DEF HistoryInit, Init
  <2> QED
    BY <2>1, FreshSerializes
<1> QED
  BY <1>1, <1>2 DEF SerialInv

-----------------------------------------------------------------------------
(* The steps of SerialStore *)

StoreNow   == [c \in Collections |-> DocsOf(stored[c])]
OutcomeNow == [t \in Txns |-> CASE status[t] = "committed" -> "committed"
                                [] status[t] = "rolledBack" -> "aborted"
                                [] OTHER -> "pending"]
ScriptsNow == [t \in Txns |-> ScriptOf(t)]

(* A call is answered. *)
LEMMA CallIsReply ==
  ASSUME SerialInv, NEW t \in Txns, NEW call \in Calls, NEW answer \in Answers(call),
         Record(t, call, answer), CanCall(t), UNCHANGED <<stored, status>>
  PROVE  Serial!Reply(t)
<1>1. PICK steps : script \in [Txns -> Seq(steps)]
  BY DEF SerialInv, HistoryInv
<1>2. PICK step : step = [call |-> call, answer |-> answer]
  OBVIOUS
<1>3. step.call = call /\ step.answer = answer
  BY <1>2
<1>4. PICK words : words = ScriptOf(t)
  OBVIOUS
<1>5. /\ ScriptOf(t)' = Append(words, step)
      /\ \A u \in Txns : u # t => ScriptOf(u)' = ScriptOf(u)
  BY <1>1, <1>2, <1>4, ScriptAppends
<1>6. PICK S : words \in Seq(S) /\ step \in S
  <2>1. PICK R : R = {[call |-> x.call, answer |-> x.answer] : x \in steps}
    OBVIOUS
  <2>2. words \in Seq(R)
    BY <1>1, <1>4, <2>1, ScriptListed
  <2>3. words \in Seq(R \cup {step})
    BY <2>2
  <2> QED
    BY <2>3
<1>7. /\ Len(Append(words, step)) = Len(words) + 1
      /\ Append(words, step)[Len(words) + 1] = step
  BY <1>6
<1>8. PICK now, next : now = ScriptsNow /\ next = ScriptsNow'
  OBVIOUS
<1>9. now[t] = words /\ next[t] = Append(words, step)
  BY <1>4, <1>5, <1>8 DEF ScriptsNow
<1>10. next = [now EXCEPT ![t] = Append(@, step)]
  BY <1>5, <1>8, <1>9 DEF ScriptsNow
<1>11. Serial!Last(next[t]) = step
  BY <1>7, <1>9 DEF Serial!Last
<1>12. step.call \in Serial!Calls /\ step.answer \in Serial!Answers(step.call)
  <2>1. Serial!Calls = Calls
    BY DEF Serial!Calls, Serial!GetCalls, Serial!FindCalls, Serial!WriteCalls, Serial!InsertCalls,
           Serial!UpsertCalls, Serial!UpdateCalls, Serial!DeleteCalls, Calls, GetCalls, FindCalls,
           WriteCalls, InsertCalls, UpsertCalls, UpdateCalls, DeleteCalls
  <2>2. Serial!Answers(call) = Answers(call)
    BY DEF Serial!Answers, Answers, Serial!Refusals, Refusals
  <2> QED
    BY <1>3, <2>1, <2>2
<1>13. StoreNow' = StoreNow /\ OutcomeNow' = OutcomeNow
  BY DEF StoreNow, OutcomeNow
<1>14. OutcomeNow[t] = "pending"
  BY DEF OutcomeNow, CanCall
<1> QED
  BY <1>7, <1>8, <1>9, <1>10, <1>11, <1>12, <1>13, <1>14
     DEF Serial!Reply, StoreNow, OutcomeNow, ScriptsNow

(* A transaction ends. *)
LEMMA EndShows ==
  ASSUME SerialInv, NEW t \in Txns, status[t] = "active",
         NEW how \in {"committed", "rolledBack"}, End(t, how), Forget(t)
  PROVE  /\ OutcomeNow[t] = "pending"
         /\ OutcomeNow' = [OutcomeNow EXCEPT ![t] =
                             IF how = "committed" THEN "committed" ELSE "aborted"]
         /\ ScriptsNow' = [ScriptsNow EXCEPT ![t] = <<>>]
<1>1. TypeOK /\ \E steps : script \in [Txns -> Seq(steps)]
  BY DEF SerialInv, HistoryInv, TransactionInv
<1>2. /\ status'[t] = how /\ script'[t] = <<>>
      /\ \A u \in Txns : u # t => status'[u] = status[u] /\ script'[u] = script[u]
  BY <1>1 DEF End, Forget, TypeOK
<1>3. OutcomeNow[t] = "pending"
  BY DEF OutcomeNow
<1>4. OutcomeNow' = [OutcomeNow EXCEPT ![t] =
                       IF how = "committed" THEN "committed" ELSE "aborted"]
  BY <1>2 DEF OutcomeNow
<1>5. ScriptOf(t)' = <<>> /\ \A u \in Txns : u # t => ScriptOf(u)' = ScriptOf(u)
  BY <1>2 DEF ScriptOf
<1>6. ScriptsNow' = [ScriptsNow EXCEPT ![t] = <<>>]
  BY <1>5 DEF ScriptsNow
<1> QED
  BY <1>3, <1>4, <1>6

(* A commit that passes the revision check is the whole script at once. *)
LEMMA CommitIsSettle ==
  ASSUME SerialInv, NEW t \in Txns, status[t] = "active", Conflicts(t) = {},
         End(t, "committed"), Forget(t),
         \A c \in Collections : DocsOf(stored[c])' = DocsOf(View(t, c))
  PROVE  Serial!Settle(t)
<1>1. PICK s : s = StoreNow
  OBVIOUS
<1>2. TransactionInv /\ Serializes(t)
  BY DEF SerialInv, ChangesInv
<1>3. s \in Stores
  <2>1. ASSUME NEW c \in Collections PROVE DocsOf(stored[c]) \in Seq(Ideal!Entries)
    <3>1. PICK coll : coll = stored[c]
      OBVIOUS
    <3>2. coll \in CollectionType /\ OrderListsRecords(coll)
      BY <1>2, <3>1 DEF TransactionInv, TypeOK, RootConsistent, Consistent
    <3> QED
      BY <3>1, <3>2, DocsListed
  <2> QED
    BY <1>1, <2>1 DEF StoreNow, Stores
<1>4. Offers(s, t)
  BY <1>1 DEF Offers, StoreNow, Touched
<1>5. Serial!RunAlone(s, ScriptOf(t)) = [store |-> Left(t, s), agrees |-> TRUE]
  BY <1>2, <1>3, <1>4 DEF Serializes
<1>6. Left(t, s) = StoreNow'
  <2>1. ASSUME NEW c \in Collections
        PROVE  (IF c \in Touched(t) THEN DocsOf(View(t, c)) ELSE s[c]) = DocsOf(stored[c])'
    <3>1. CASE c \in Touched(t)
      BY <3>1
    <3>2. CASE c \notin Touched(t)
      <4>1. working[t][c] = NoCopy
        BY <1>2, <3>2, FieldTypes
      <4> QED
        BY <1>1, <3>2, <4>1 DEF StoreNow, View
    <3> QED
      BY <3>1, <3>2
  <2> QED
    BY <2>1 DEF Left, StoreNow
<1>7. PICK run : run = Serial!RunAlone(s, ScriptOf(t))
  OBVIOUS
<1>8. run.agrees /\ StoreNow' = run.store
  BY <1>5, <1>6, <1>7
<1>9. run = Serial!RunAlone(StoreNow, ScriptsNow[t])
  BY <1>1, <1>7 DEF ScriptsNow
<1> QED
  BY <1>8, <1>9, EndShows DEF Serial!Settle, StoreNow, OutcomeNow, ScriptsNow

(* Every step of the engine is a step of SerialStore or leaves it alone. *)
LEMMA StepIsSerialStep == SerialInv /\ [HistoryNext]_historyVars => [Serial!SerialNext]_(Serial!serialVars)
<1> SUFFICES ASSUME SerialInv, [HistoryNext]_historyVars
             PROVE  Serial!SerialNext \/ UNCHANGED Serial!serialVars
  OBVIOUS
<1>1. TransactionInv /\ \A t \in Txns : ChangesSound(t)
  BY DEF SerialInv, ChangesInv
<1>2. ASSUME NEW t \in Txns, NEW call \in GetCalls \cup FindCalls, Look(t, call.coll),
             Record(t, call, Looking(t, call))
      PROVE  Serial!SerialNext
  <2>1. call \in Calls /\ call.coll \in Collections
    BY CallOnCollection DEF Calls
  <2>2. Looking(t, call) \in Answers(call)
    BY <1>1, <2>1, ViewSound, AnswersTyped DEF Looking
  <2>3. CanCall(t) /\ UNCHANGED <<stored, status>>
    BY <1>2 DEF Look, root
  <2> QED
    BY <1>2, <2>1, <2>2, <2>3, CallIsReply DEF Serial!SerialNext
<1>3. ASSUME NEW t \in Txns, NEW call \in WriteCalls, Write(t, call),
             Record(t, call, Writing(t, call))
      PROVE  Serial!SerialNext
  <2>1. call \in Calls /\ call.coll \in Collections
    BY CallOnCollection DEF Calls
  <2>2. Writable(t, call.coll).coll = View(t, call.coll)
    BY DEF Writable, View
  <2>3. Writing(t, call) \in Answers(call)
    BY <1>1, <2>1, <2>2, ViewSound, AnswersTyped DEF Writing
  <2>4. CanCall(t) /\ UNCHANGED <<stored, status>>
    BY <1>3 DEF Write, root
  <2> QED
    BY <1>3, <2>1, <2>3, <2>4, CallIsReply DEF Serial!SerialNext
<1>4. ASSUME NEW t \in Txns, Rollback(t) \/ RefuseCommit(t), Forget(t)
      PROVE  Serial!SerialNext
  <2>1. status[t] = "active" /\ End(t, "rolledBack") /\ UNCHANGED stored
    BY <1>4 DEF Rollback, RefuseCommit, CanCall, root
  <2>2. StoreNow' = StoreNow
    BY <2>1 DEF StoreNow
  <2>3. /\ OutcomeNow[t] = "pending" /\ OutcomeNow' = [OutcomeNow EXCEPT ![t] = "aborted"]
        /\ ScriptsNow' = [ScriptsNow EXCEPT ![t] = <<>>]
    BY <1>4, <2>1, EndShows
  <2>4. Serial!Abort(t)
    BY <2>2, <2>3 DEF Serial!Abort, StoreNow, OutcomeNow, ScriptsNow
  <2> QED
    BY <2>4 DEF Serial!SerialNext
<1>5. ASSUME NEW t \in Txns, CommitUnchanged(t), Forget(t)
      PROVE  Serial!SerialNext
  <2>1. /\ status[t] = "active" /\ Conflicts(t) = {} /\ changes[t] = <<>>
        /\ End(t, "committed") /\ stored' = stored
    BY <1>5 DEF CommitUnchanged, CanCall, root
  <2>2. ASSUME NEW c \in Collections PROVE DocsOf(stored[c])' = DocsOf(View(t, c))
    <3>1. View(t, c).records = stored[c].records /\ View(t, c).order = stored[c].order
      BY <1>1, <2>1 DEF ChangesSound
    <3> QED
      BY <2>1, <3>1 DEF DocsOf
  <2> QED
    BY <1>5, <2>1, <2>2, CommitIsSettle DEF Serial!SerialNext
<1>6. ASSUME NEW t \in Txns, Publish(t), Forget(t)
      PROVE  Serial!SerialNext
  <2>1. /\ status[t] = "active" /\ Conflicts(t) = {} /\ End(t, "committed")
        /\ \A c \in Collections : stored'[c] = View(t, c)
    BY <1>6 DEF Publish, CanCall
  <2>2. \A c \in Collections : DocsOf(stored[c])' = DocsOf(View(t, c))
    BY <2>1
  <2> QED
    BY <1>6, <2>1, <2>2, CommitIsSettle DEF Serial!SerialNext
<1>7. ASSUME UNCHANGED <<stored, script>>, OutcomeNow' = OutcomeNow
      PROVE  UNCHANGED Serial!serialVars
  <2>1. StoreNow' = StoreNow /\ ScriptsNow' = ScriptsNow
    BY <1>7 DEF StoreNow, ScriptsNow, ScriptOf
  <2> QED
    BY <1>7, <2>1 DEF Serial!serialVars, StoreNow, OutcomeNow, ScriptsNow
<1>8. ASSUME NEW t \in Txns, BeginTransaction(t), UNCHANGED script
      PROVE  UNCHANGED Serial!serialVars
  <2>1. status[t] = "unborn" /\ status' = [status EXCEPT ![t] = "active"] /\ UNCHANGED stored
    BY <1>8 DEF BeginTransaction, root
  <2>2. \A u \in Txns : status'[u] = status[u] \/ (status[u] = "unborn" /\ status'[u] = "active")
    BY <1>1, <2>1 DEF TransactionInv, TypeOK
  <2>3. OutcomeNow' = OutcomeNow
    BY <2>2 DEF OutcomeNow
  <2> QED
    BY <1>7, <1>8, <2>1, <2>3
<1>9. ASSUME UNCHANGED <<stored, status, script>>
      PROVE  UNCHANGED Serial!serialVars
  <2>1. OutcomeNow' = OutcomeNow
    BY <1>9 DEF OutcomeNow
  <2> QED
    BY <1>7, <1>9, <2>1
<1>10. ASSUME NEW t \in Txns, ExceedLimit(t) \/ Expire(t), UNCHANGED script
       PROVE  UNCHANGED Serial!serialVars
  <2>1. UNCHANGED <<stored, status, script>>
    BY <1>10 DEF ExceedLimit, Expire, root
  <2> QED
    BY <1>9, <2>1
<1>11. CASE (ChangeLifecycle /\ UNCHANGED script) \/ UNCHANGED historyVars
  BY <1>9, <1>11 DEF ChangeLifecycle, historyVars, vars, root
<1> QED
  BY <1>2, <1>3, <1>4, <1>5, <1>6, <1>8, <1>10, <1>11 DEF HistoryNext, Get, Find

LEMMA InitIsSerialInit == HistoryInit => Serial!SerialInit
<1> SUFFICES ASSUME HistoryInit PROVE Serial!SerialInit
  OBVIOUS
<1>1. PICK seed \in [Collections -> Seeds] :
        stored = [c \in Collections |-> CreateCollection(seed[c])]
  BY DEF HistoryInit, Init
<1>2. ASSUME NEW c \in Collections PROVE DocsOf(stored[c]) = seed[c]
  <2>1. PICK docs : docs = seed[c]
    OBVIOUS
  <2>2. docs \in Seq([key : Keys, doc : Docs]) /\ Loadable(docs)
    BY <2>1, TransactionsAssumption
  <2>3. DocsOf(CreateCollection(docs)) = docs
    BY <2>2, CreatedDocs
  <2> QED
    BY <1>1, <2>1, <2>3
<1>3. StoreNow \in [Collections -> Seeds]
  BY <1>2 DEF StoreNow
<1>4. OutcomeNow = [t \in Txns |-> "pending"]
  BY DEF HistoryInit, Init, OutcomeNow
<1>5. ScriptsNow = [t \in Txns |-> <<>>]
  <2>1. \A t \in Txns : ScriptOf(t) = <<>>
    BY DEF HistoryInit, ScriptOf
  <2> QED
    BY <2>1 DEF ScriptsNow
<1> QED
  BY <1>3, <1>4, <1>5 DEF Serial!SerialInit, StoreNow, OutcomeNow, ScriptsNow

(* Serializability, in commit order: the engine with its indexes, copies,  *)
(* positions and revisions implements SerialStore, where a transaction     *)
(* commits only by running all its calls at once with the same answers.    *)
THEOREM TransactionsSerialize == HistorySpec => RefinesSerialStore
BY SerialStart, SerialStep, StepIsSerialStep, InitIsSerialInit, PTL
   DEF HistorySpec, RefinesSerialStore, Serial!SerialSpec
=============================================================================
