----------------------------- MODULE EventsProofs -----------------------------
(***************************************************************************)
(* Theorems about Events, for every size of the queue, every number of     *)
(* listeners and every depth of hooks.  The argument: revisions rise from  *)
(* what was heard over the batch in delivery to what is queued, whoever    *)
(* has to hear a batch has heard it or is among the rest, and microtasks   *)
(* run first in first out.                                                 *)
(***************************************************************************)
EXTENDS Events, FoldProofs

RestHasBatch == rest # {} => current # NoBatch

QueueRises ==
  /\ \A i \in 1 .. Len(eventQueue) :
       /\ eventQueue[i].revision <= revision
       /\ current # NoBatch => current.revision < eventQueue[i].revision
  /\ \A i, j \in 1 .. Len(eventQueue) :
       i < j => eventQueue[i].revision < eventQueue[j].revision
  /\ current # NoBatch => current.revision <= revision

HeardBefore ==
  \A l \in Ids : \A n \in 1 .. Len(received[l]) :
    /\ received[l][n] <= revision
    /\ \A i \in 1 .. Len(eventQueue) : received[l][n] < eventQueue[i].revision
    /\ l \in rest => received[l][n] < current.revision

(* Who has heard revision n, or will before the next batch is taken *)
Served(n) ==
  {l \in Ids : \/ n \in ToSet(received[l])
               \/ current # NoBatch /\ current.revision = n /\ l \in rest}

AudienceKnown == \A n \in Revisions : Served(n) = audience[n]

(* A batch from before close() is queued *)
OldQueued == \E i \in 1 .. Len(eventQueue) : eventQueue[i].revision <= closedAt

(* What empties the queue comes before each continuation of #performClose. *)
CloseOrder ==
  /\ closing = "none" => closedAt = MaxCommits
  /\ closing # "none" => closedAt <= revision
  /\ \A p \in 1 .. Len(microtasks) : microtasks[p] # "dispatch" =>
       /\ closing # "none"
       /\ OldQueued => dispatching \/ \E d \in 1 .. p - 1 : microtasks[d] = "dispatch"

EventsInv ==
  /\ TypeOK
  /\ RestHasBatch
  /\ QueueRises
  /\ HeardBefore
  /\ ReceivedInOrder
  /\ NoSilentGap
  /\ AudienceKnown
  /\ NoStrandedBatch
  /\ CloseOrder
  /\ CloseDropsOnlyLate

-----------------------------------------------------------------------------
(* Sequences and their ranges *)

(* Appending adds one element to the range of a sequence. *)
LEMMA AppendRange ==
  ASSUME NEW S, NEW s \in Seq(S), NEW x \in S
  PROVE  ToSet(Append(s, x)) = ToSet(s) \cup {x}
<1>1. /\ DOMAIN s = 1 .. Len(s) /\ Len(s) \in Nat
      /\ DOMAIN Append(s, x) = 1 .. Len(s) + 1
      /\ \A i \in 1 .. Len(s) : Append(s, x)[i] = s[i]
      /\ Append(s, x)[Len(s) + 1] = x
  OBVIOUS
<1>2. 1 .. Len(s) + 1 = (1 .. Len(s)) \cup {Len(s) + 1}
  BY <1>1
<1> QED
  BY <1>1, <1>2 DEF ToSet

(* The tail of a sequence is the sequence from its second element on. *)
LEMMA TailShifts ==
  ASSUME NEW S, NEW s \in Seq(S), s # <<>>
  PROVE  /\ Head(s) = s[1] /\ Head(s) \in S
         /\ Tail(s) \in Seq(S) /\ Len(Tail(s)) = Len(s) - 1 /\ Len(s) \in Nat \ {0}
         /\ \A i \in 1 .. Len(s) - 1 : Tail(s)[i] = s[i + 1]
         /\ \A i \in 2 .. Len(s) : i - 1 \in 1 .. Len(Tail(s)) /\ Tail(s)[i - 1] = s[i]
OBVIOUS

(* An element other than the head is in the tail. *)
LEMMA TailRange ==
  ASSUME NEW S, NEW s \in Seq(S), s # <<>>, NEW x \in ToSet(s), x # Head(s)
  PROVE  x \in ToSet(Tail(s))
<1>1. PICK i \in 1 .. Len(s) : s[i] = x
  BY DEF ToSet
<1>2. i \in 2 .. Len(s)
  BY <1>1, TailShifts
<1>3. i - 1 \in DOMAIN Tail(s) /\ Tail(s)[i - 1] = x
  BY <1>1, <1>2, TailShifts
<1> QED
  BY <1>3 DEF ToSet

(* A batch has a revision and a number of changes, and is not NoBatch. *)
LEMMA BatchFacts ==
  \A b \in Batch : b # NoBatch /\ b.revision \in Revisions /\ b.revision \in Nat /\ b.changes \in Nat
<1> TAKE b \in Batch
<1>1. b.revision \in 1 .. MaxCommits /\ b.changes \in Nat /\ MaxCommits \in Nat
  BY EventsAssumption DEF Batch, Revisions
<1>2. b.revision \in Nat
  BY <1>1
<1>3. b \in [revision : Nat, changes : Nat]
  BY <1>1, <1>2 DEF Batch, Revisions
<1> QED
  BY <1>1, <1>2, <1>3, EventsAssumption DEF Revisions

(* What a commit does, whether there is room in the queue or not. *)
LEMMA CommitParts ==
  ASSUME TypeOK, NEW changes \in BatchSizes, Commit(changes),
         NEW batch, batch = [revision |-> revision + 1, changes |-> changes]
  PROVE  /\ batch \in Batch /\ batch.changes \in Nat
         /\ batch.revision = revision + 1 /\ revision + 1 \in Revisions
         /\ revision' = revision + 1 /\ revision \in Nat
         /\ Overflow(batch) \/ (Push(batch) /\ UNCHANGED <<hooks, overflowed>>)
         /\ UNCHANGED <<state, closing, listeners, listenerId, dispatching, current, rest,
                        speaking, received, since, audience, dropped, closedAt>>
BY EventsAssumption DEF TypeOK, Commit, Revisions, Batch, listenVars, delivery

-----------------------------------------------------------------------------
(* Types *)

(* The types in three groups: a step is checked against one at a time. *)
FlagTypes ==
  /\ state \in {"open", "degraded", "closing", "closed"}
  /\ closing \in {"none", "flushing", "flushed", "releasing", "released", "closed"}
  /\ revision \in 0 .. MaxCommits /\ closedAt \in 0 .. MaxCommits
  /\ dispatchScheduled \in BOOLEAN /\ dispatching \in BOOLEAN
  /\ listenerId \in 0 .. MaxSubscriptions /\ listeners \subseteq 1 .. listenerId
  /\ speaking \in Ids \cup {0} /\ hooks \in 0 .. MaxHookDepth

QueueTypes ==
  /\ eventQueue \in Seq(Batch) /\ eventQueueChanges \in Int
  /\ microtasks \in Seq({"dispatch", "flushed", "released"})
  /\ current \in Batch \cup {NoBatch} /\ rest \subseteq Ids

HistoryTypes ==
  /\ received \in [Ids -> Seq(Revisions)] /\ since \in [Ids -> 0 .. MaxCommits]
  /\ audience \in [Revisions -> SUBSET Ids]
  /\ overflowed \subseteq Revisions /\ dropped \subseteq Batch

(* The groups make up the type invariant. *)
LEMMA TypeGroups == TypeOK <=> FlagTypes /\ QueueTypes /\ HistoryTypes
BY DEF TypeOK, FlagTypes, QueueTypes, HistoryTypes

(* Every step preserves the types of flags, counters and listeners. *)
LEMMA FlagStep == FlagTypes /\ [Next]_vars => FlagTypes'
<1> SUFFICES ASSUME FlagTypes, [Next]_vars PROVE FlagTypes'
  OBVIOUS
<1> USE EventsAssumption DEF FlagTypes
<1>1. CASE Subscribe
  BY <1>1 DEF Subscribe, queueVars, delivery
<1>2. ASSUME NEW l \in Ids, Unsubscribe(l) PROVE FlagTypes'
  BY <1>2 DEF Unsubscribe, queueVars, delivery, history
<1>3. ASSUME NEW changes \in BatchSizes, Commit(changes) PROVE FlagTypes'
  <2> DEFINE batch == [revision |-> revision + 1, changes |-> changes]
  <2> HIDE DEF batch
  <2>1. /\ Overflow(batch) \/ (Push(batch) /\ UNCHANGED hooks)
        /\ revision < MaxCommits /\ revision' = revision + 1
        /\ UNCHANGED <<state, closing, closedAt, listeners, listenerId, dispatching, speaking>>
    BY <1>3 DEF Commit, listenVars, delivery, batch
  <2>2. CASE Overflow(batch)
    BY <2>1, <2>2 DEF Overflow, queueVars
  <2>3. CASE Push(batch) /\ UNCHANGED hooks
    BY <2>1, <2>3 DEF Push
  <2> QED
    BY <2>1, <2>2, <2>3
<1>4. CASE Close
  BY <1>4 DEF Close, queueVars, listenVars, delivery
<1>5. CASE HookEnds
  BY <1>5 DEF HookEnds, queueVars, listenVars, delivery, history
<1>6. CASE RunDispatch \/ EndDispatch
  BY <1>6 DEF RunDispatch, EndDispatch, queueVars, listenVars, delivery, history
<1>7. CASE TakeBatch
  BY <1>7 DEF TakeBatch, listenVars
<1>8. CASE ListenerEnds
  BY <1>8 DEF ListenerEnds, queueVars, listenVars, history
<1>9. ASSUME NEW l \in Ids, CallListener(l) PROVE FlagTypes'
  BY <1>9 DEF CallListener, queueVars, listenVars
<1>10. CASE FlushSettles \/ ReleaseSettles \/ RunFlushed
  BY <1>10 DEF FlushSettles, ReleaseSettles, RunFlushed, queueVars, listenVars, delivery, history
<1>11. CASE FinishClose
  BY <1>11 DEF FinishClose, delivery
<1>12. CASE Degrade
  BY <1>12 DEF Degrade, queueVars, listenVars, delivery, history
<1>13. CASE UNCHANGED vars
  BY <1>13 DEF vars, queueVars, listenVars, delivery, history
<1> QED
  BY <1>1, <1>2, <1>3, <1>4, <1>5, <1>6, <1>7, <1>8, <1>9, <1>10, <1>11, <1>12, <1>13 DEF Next

(* Every step preserves the types of the queue and of what is in delivery. *)
LEMMA QueueStep ==
  TypeOK /\ RestHasBatch /\ [Next]_vars => QueueTypes' /\ RestHasBatch'
<1> SUFFICES ASSUME TypeOK, RestHasBatch, [Next]_vars
             PROVE  QueueTypes' /\ RestHasBatch'
  OBVIOUS
<1>t. QueueTypes /\ listeners \subseteq Ids
  BY EventsAssumption, TypeGroups DEF FlagTypes, Ids
<1> USE DEF QueueTypes, RestHasBatch
<1>1. CASE UNCHANGED <<eventQueue, eventQueueChanges, microtasks, current, rest>>
  BY <1>t, <1>1
<1>2. ASSUME NEW changes \in BatchSizes, Commit(changes) PROVE QueueTypes' /\ RestHasBatch'
  <2> DEFINE batch == [revision |-> revision + 1, changes |-> changes]
  <2>1. /\ batch \in Batch /\ batch.changes \in Nat
        /\ Overflow(batch) \/ Push(batch)
        /\ UNCHANGED <<current, rest>>
    BY <1>2, CommitParts
  <2> HIDE DEF batch
  <2>2. CASE Overflow(batch)
    BY <2>1, <2>2, <1>1 DEF Overflow, queueVars
  <2>3. CASE Push(batch)
    <3>1. eventQueue' \in Seq(Batch) /\ eventQueueChanges' \in Int
      BY <1>t, <2>1, <2>3 DEF Push
    <3>2. microtasks' \in Seq({"dispatch", "flushed", "released"})
      BY <1>t, <2>3 DEF Push
    <3> QED
      BY <1>t, <2>1, <3>1, <3>2
  <2> QED
    BY <2>1, <2>2, <2>3
<1>3. ASSUME microtasks # <<>>, microtasks' = Tail(microtasks),
             UNCHANGED <<eventQueue, eventQueueChanges, current, rest>>
      PROVE  QueueTypes' /\ RestHasBatch'
  BY <1>t, <1>3, TailShifts
<1>4. ASSUME NEW x \in {"flushed", "released"}, microtasks' = Append(microtasks, x),
             UNCHANGED <<eventQueue, eventQueueChanges, current, rest>>
      PROVE  QueueTypes' /\ RestHasBatch'
  BY <1>t, <1>4
<1>5. CASE RunDispatch \/ RunFlushed
  BY <1>5, <1>3 DEF RunDispatch, RunFlushed, queueVars, delivery
<1>6. CASE FlushSettles \/ ReleaseSettles
  BY <1>6, <1>4 DEF FlushSettles, ReleaseSettles, queueVars, delivery
<1>7. CASE TakeBatch
  <2>1. Head(eventQueue) \in Batch /\ Tail(eventQueue) \in Seq(Batch)
    BY <1>t, <1>7, TailShifts DEF TakeBatch
  <2>2. eventQueueChanges' \in Int /\ current' # NoBatch
    BY <1>t, <1>7, <2>1, BatchFacts DEF TakeBatch
  <2> QED
    BY <1>t, <1>7, <2>1, <2>2 DEF TakeBatch
<1>8. ASSUME NEW l \in Ids, CallListener(l) PROVE QueueTypes' /\ RestHasBatch'
  BY <1>t, <1>8 DEF CallListener, queueVars
<1>9. CASE EndDispatch
  BY <1>t, <1>9 DEF EndDispatch, BetweenBatches
<1>10. CASE FinishClose
  <2>1. /\ <<>> \in Seq(Batch)
        /\ Tail(microtasks) \in Seq({"dispatch", "flushed", "released"})
    BY <1>t, <1>10, TailShifts DEF FinishClose
  <2> QED
    BY <1>t, <1>10, <2>1 DEF FinishClose, delivery
<1>11. CASE Subscribe \/ (\E l \in Ids : Unsubscribe(l)) \/ Close \/ HookEnds \/ ListenerEnds
            \/ Degrade \/ UNCHANGED vars
  BY <1>11, <1>1 DEF Subscribe, Unsubscribe, Close, HookEnds, ListenerEnds, Degrade,
     vars, queueVars, delivery
<1> QED
  BY <1>2, <1>5, <1>6, <1>7, <1>8, <1>9, <1>10, <1>11 DEF Next

(* Every step preserves the types of the history. *)
LEMMA HistoryStep == TypeOK /\ RestHasBatch /\ [Next]_vars => HistoryTypes'
<1> SUFFICES ASSUME TypeOK, RestHasBatch, [Next]_vars PROVE HistoryTypes'
  OBVIOUS
<1>t. /\ HistoryTypes /\ listeners \subseteq Ids /\ revision \in 0 .. MaxCommits
      /\ eventQueue \in Seq(Batch)
      /\ current # NoBatch => current.revision \in Revisions
  BY EventsAssumption, TypeGroups, BatchFacts DEF FlagTypes, QueueTypes, Ids
<1> USE DEF HistoryTypes
<1>1. CASE UNCHANGED <<received, since, audience, overflowed, dropped>>
  BY <1>t, <1>1
<1>2. CASE Subscribe
  BY <1>t, <1>2 DEF Subscribe
<1>3. ASSUME NEW changes \in BatchSizes, Commit(changes) PROVE HistoryTypes'
  <2> DEFINE batch == [revision |-> revision + 1, changes |-> changes]
  <2>1. /\ batch.revision \in Revisions
        /\ Overflow(batch) \/ UNCHANGED overflowed
        /\ UNCHANGED <<received, since, audience, dropped>>
    BY <1>3, CommitParts
  <2> HIDE DEF batch
  <2> QED
    BY <1>t, <2>1 DEF Overflow
<1>4. CASE TakeBatch
  BY <1>t, <1>4 DEF TakeBatch
<1>5. ASSUME NEW l \in Ids, CallListener(l) PROVE HistoryTypes'
  <2>1. current.revision \in Revisions
    BY <1>t, <1>5 DEF CallListener, RestHasBatch
  <2>2. received' \in [Ids -> Seq(Revisions)]
    BY <1>t, <1>5, <2>1 DEF CallListener
  <2> QED
    BY <1>t, <1>5, <2>2 DEF CallListener
<1>6. CASE FinishClose
  <2>1. ToSet(eventQueue) \subseteq Batch
    BY <1>t DEF ToSet
  <2> QED
    BY <1>t, <1>6, <2>1 DEF FinishClose
<1>7. CASE (\E l \in Ids : Unsubscribe(l)) \/ Close \/ HookEnds \/ RunDispatch
           \/ ListenerEnds \/ EndDispatch \/ FlushSettles \/ RunFlushed \/ ReleaseSettles
           \/ Degrade \/ UNCHANGED vars
  BY <1>7, <1>1 DEF Unsubscribe, Close, HookEnds, RunDispatch, ListenerEnds, EndDispatch,
     FlushSettles, RunFlushed, ReleaseSettles, Degrade, vars, history
<1> QED
  BY <1>2, <1>3, <1>4, <1>5, <1>6, <1>7 DEF Next

(* Together: every step preserves the types. *)
LEMMA TypeStep == TypeOK /\ RestHasBatch /\ [Next]_vars => TypeOK' /\ RestHasBatch'
<1>1. FlagTypes' /\ QueueTypes' /\ HistoryTypes' => TypeOK'
  BY DEF TypeOK, FlagTypes, QueueTypes, HistoryTypes
<1> QED
  BY <1>1, TypeGroups, FlagStep, QueueStep, HistoryStep

-----------------------------------------------------------------------------
(* The microtask *)

LEMMA StrandedStep == TypeOK /\ NoStrandedBatch /\ [Next]_vars => NoStrandedBatch'
<1> SUFFICES ASSUME TypeOK, NoStrandedBatch, [Next]_vars
             PROVE  NoStrandedBatch'
  OBVIOUS
<1> USE DEF NoStrandedBatch
<1> DEFINE kept == UNCHANGED <<eventQueue, dispatchScheduled, dispatching>>
<1>a. microtasks \in Seq({"dispatch", "flushed", "released"}) /\ eventQueue \in Seq(Batch)
  BY DEF TypeOK
<1>1. CASE kept /\ UNCHANGED microtasks
  BY <1>1
<1>2. ASSUME kept, NEW x \in {"flushed", "released"}, microtasks' = Append(microtasks, x)
      PROVE  NoStrandedBatch'
  BY <1>2, <1>a, AppendRange
<1>4. ASSUME NEW changes \in BatchSizes, Commit(changes) PROVE NoStrandedBatch'
  <2> DEFINE batch == [revision |-> revision + 1, changes |-> changes]
  <2>1. /\ Overflow(batch) \/ Push(batch)
        /\ UNCHANGED dispatching
    BY <1>4 DEF Commit, delivery
  <2> HIDE DEF batch
  <2>2. CASE Push(batch)
    BY <2>1, <2>2, <1>a, AppendRange DEF Push
  <2> QED
    BY <2>1, <2>2, <1>1 DEF Overflow, queueVars
<1>5. CASE RunDispatch
  BY <1>5 DEF RunDispatch, queueVars
<1>6. CASE TakeBatch
  BY <1>6, <1>a DEF TakeBatch, BetweenBatches
<1>7. CASE EndDispatch
  BY <1>7 DEF EndDispatch
<1>8. CASE RunFlushed
  BY <1>8, <1>a, TailRange DEF RunFlushed, queueVars, delivery
<1>9. CASE FinishClose
  BY <1>9, <1>a, TailRange DEF FinishClose, delivery
<1>10. CASE FlushSettles \/ ReleaseSettles
  BY <1>10, <1>2 DEF FlushSettles, ReleaseSettles, queueVars, delivery
<1>11. CASE Subscribe \/ (\E l \in Ids : Unsubscribe(l)) \/ Close \/ HookEnds \/ ListenerEnds
            \/ (\E l \in Ids : CallListener(l)) \/ Degrade \/ UNCHANGED vars
  BY <1>11, <1>1 DEF Subscribe, Unsubscribe, Close, HookEnds, ListenerEnds, CallListener,
     Degrade, vars, queueVars, delivery
<1> QED
  BY <1>4, <1>5, <1>6, <1>7, <1>8, <1>9, <1>10, <1>11 DEF Next

-----------------------------------------------------------------------------
(* Order *)

Heard == <<revision, eventQueue, current, rest, received>>

Ordered == QueueRises /\ HeardBefore /\ ReceivedInOrder

(* Revisions rise from what was heard to what is queued. *)
LEMMA OrderStep == TypeOK /\ RestHasBatch /\ Ordered /\ [Next]_vars => Ordered'
<1> SUFFICES ASSUME TypeOK, RestHasBatch, Ordered, [Next]_vars
             PROVE  Ordered'
  OBVIOUS
<1> USE DEF Ordered
<1>a. /\ revision \in Nat
      /\ eventQueue \in Seq(Batch)
      /\ \A i \in 1 .. Len(eventQueue) : eventQueue[i] \in Batch /\ eventQueue[i].revision \in Nat
      /\ \A l \in Ids : /\ received[l] \in Seq(Revisions)
                       /\ \A n \in 1 .. Len(received[l]) : received[l][n] \in Nat
      /\ current # NoBatch => current \in Batch /\ current.revision \in Nat
      /\ received \in [Ids -> Seq(Revisions)]
      /\ rest \subseteq Ids
  <2>1. Revisions \subseteq Nat
    BY EventsAssumption DEF Revisions
  <2>2. /\ revision \in 0 .. MaxCommits /\ eventQueue \in Seq(Batch)
        /\ received \in [Ids -> Seq(Revisions)] /\ rest \subseteq Ids
        /\ current \in Batch \cup {NoBatch}
    BY DEF TypeOK
  <2>3. \A i \in 1 .. Len(eventQueue) : eventQueue[i] \in Batch
    BY <2>2
  <2>4. \A l \in Ids : /\ received[l] \in Seq(Revisions)
                     /\ \A n \in 1 .. Len(received[l]) : received[l][n] \in Revisions
    BY <2>2
  <2>5. revision \in Nat
    BY <2>2
  <2> QED
    BY <2>1, <2>2, <2>3, <2>4, <2>5, BatchFacts
<1>1. CASE UNCHANGED Heard
  <2>1. QueueRises'
    BY <1>1 DEF Heard, QueueRises
  <2>2. HeardBefore'
    BY <1>1 DEF Heard, HeardBefore
  <2> QED
    BY <1>1, <2>1, <2>2 DEF Heard, ReceivedInOrder
<1>2. ASSUME NEW changes \in BatchSizes, Commit(changes) PROVE Ordered'
  <2> DEFINE batch == [revision |-> revision + 1, changes |-> changes]
  <2>1. /\ batch \in Batch /\ batch.revision = revision + 1
        /\ revision' = revision + 1
        /\ Overflow(batch) \/ Push(batch)
        /\ UNCHANGED <<current, rest, received>>
    BY <1>2, CommitParts
  <2> HIDE DEF batch
  <2>2. CASE Overflow(batch)
    <3>1. UNCHANGED eventQueue
      BY <2>2 DEF Overflow, queueVars
    <3>2. QueueRises'
      BY <1>a, <2>1, <3>1 DEF QueueRises
    <3>3. HeardBefore'
      BY <1>a, <2>1, <3>1 DEF HeardBefore
    <3> QED
      BY <2>1, <3>2, <3>3 DEF ReceivedInOrder
  <2>3. CASE Push(batch)
    <3>1. /\ Len(eventQueue') = Len(eventQueue) + 1 /\ Len(eventQueue) \in Nat
          /\ \A i \in 1 .. Len(eventQueue) : eventQueue'[i] = eventQueue[i]
          /\ eventQueue'[Len(eventQueue) + 1].revision = revision + 1
      BY <1>a, <2>1, <2>3 DEF Push
    <3>2. \A i \in 1 .. Len(eventQueue') :
            eventQueue'[i].revision = IF i \in 1 .. Len(eventQueue) THEN eventQueue[i].revision
                                      ELSE revision + 1
      BY <3>1
    <3>3. \A i, k \in 1 .. Len(eventQueue') :
            i < k => i \in 1 .. Len(eventQueue)
      BY <3>1
    <3>4. QueueRises'
      <4>1. \A i \in 1 .. Len(eventQueue') :
              /\ eventQueue'[i].revision <= revision + 1
              /\ current # NoBatch => current.revision < eventQueue'[i].revision
        BY <1>a, <3>2 DEF QueueRises
      <4>2. \A i, k \in 1 .. Len(eventQueue') :
              i < k => eventQueue'[i].revision < eventQueue'[k].revision
        BY <1>a, <3>2, <3>3 DEF QueueRises
      <4> QED
        BY <1>a, <2>1, <4>1, <4>2 DEF QueueRises
    <3>5. HeardBefore'
      BY <1>a, <2>1, <3>1, <3>2 DEF HeardBefore
    <3> QED
      BY <2>1, <3>4, <3>5 DEF ReceivedInOrder
  <2> QED
    BY <2>1, <2>2, <2>3
<1>3. CASE TakeBatch
  <2>1. /\ current' = eventQueue[1] /\ eventQueue' = Tail(eventQueue)
        /\ eventQueue # <<>>
        /\ UNCHANGED <<revision, received>>
    BY <1>3, <1>a, TailShifts DEF TakeBatch
  <2>2. /\ Len(eventQueue') = Len(eventQueue) - 1 /\ Len(eventQueue) \in Nat \ {0}
        /\ \A i \in 1 .. Len(eventQueue') : eventQueue'[i] = eventQueue[i + 1]
    BY <1>a, <2>1, TailShifts
  <2>3. \A i \in 1 .. Len(eventQueue') : i + 1 \in 1 .. Len(eventQueue) /\ 1 < i + 1
    BY <2>2
  <2>4. QueueRises'
    BY <1>a, <2>1, <2>2, <2>3 DEF QueueRises
  <2>5. HeardBefore'
    BY <1>a, <2>1, <2>2, <2>3 DEF HeardBefore
  <2> QED
    BY <2>1, <2>4, <2>5 DEF ReceivedInOrder
<1>4. ASSUME NEW l \in Ids, CallListener(l) PROVE Ordered'
  <2>1. /\ received' = [received EXCEPT ![l] = Append(@, current.revision)]
        /\ rest' = rest \ {l} /\ l \in rest
        /\ UNCHANGED <<revision, eventQueue, current>>
    BY <1>4 DEF CallListener, queueVars
  <2>2. /\ current # NoBatch /\ current \in Batch /\ current.revision \in Nat
        /\ current.revision \in Revisions
    BY <1>a, <2>1, BatchFacts DEF RestHasBatch
  <2>3. /\ \A m \in Ids : m # l => received'[m] = received[m]
        /\ Len(received'[l]) = Len(received[l]) + 1 /\ Len(received[l]) \in Nat
        /\ \A n \in 1 .. Len(received[l]) : received'[l][n] = received[l][n]
        /\ received'[l][Len(received[l]) + 1] = current.revision
    BY <1>a, <2>1, <2>2
  <2>4. QueueRises'
    BY <2>1 DEF QueueRises
  <2>5. HeardBefore'
    <3> SUFFICES ASSUME NEW m \in Ids, NEW n \in 1 .. Len(received'[m])
                 PROVE  /\ received'[m][n] <= revision
                        /\ \A i \in 1 .. Len(eventQueue) : received'[m][n] < eventQueue[i].revision
                        /\ m \in rest' => received'[m][n] < current.revision
      BY <2>1 DEF HeardBefore
    <3>1. CASE m # l
      BY <2>1, <2>3, <3>1 DEF HeardBefore
    <3>2. CASE m = l /\ n \in 1 .. Len(received[l])
      BY <2>1, <2>3, <3>2 DEF HeardBefore
    <3>3. CASE m = l /\ n = Len(received[l]) + 1
      BY <2>1, <2>2, <2>3, <3>3 DEF QueueRises
    <3> QED
      BY <2>3, <3>1, <3>2, <3>3
  <2>6. ReceivedInOrder'
    <3> SUFFICES ASSUME NEW m \in Ids, NEW n \in 2 .. Len(received'[m])
                 PROVE  received'[m][n - 1] < received'[m][n]
      BY DEF ReceivedInOrder
    <3>1. CASE m # l
      BY <2>3, <3>1 DEF ReceivedInOrder
    <3>2. CASE m = l /\ n \in 2 .. Len(received[l])
      <4>1. n - 1 \in 1 .. Len(received[l]) /\ n \in 1 .. Len(received[l])
        BY <2>3, <3>2
      <4> QED
        BY <2>3, <3>2, <4>1 DEF ReceivedInOrder
    <3>3. CASE m = l /\ n = Len(received[l]) + 1
      <4>1. n - 1 = Len(received[l]) /\ n - 1 \in 1 .. Len(received[l])
        BY <2>3, <3>3
      <4> QED
        BY <2>1, <2>3, <3>3, <4>1 DEF HeardBefore
    <3> QED
      BY <2>3, <3>1, <3>2, <3>3
  <2> QED
    BY <2>4, <2>5, <2>6
<1>5. CASE EndDispatch
  <2>1. rest' = {} /\ current' = NoBatch /\ UNCHANGED <<revision, eventQueue, received>>
    BY <1>5 DEF EndDispatch, BetweenBatches, history
  <2> QED
    BY <2>1 DEF QueueRises, HeardBefore, ReceivedInOrder
<1>6. CASE FinishClose
  <2>1. eventQueue' = <<>> /\ UNCHANGED <<revision, current, rest, received>>
    BY <1>6 DEF FinishClose, delivery
  <2> QED
    BY <2>1 DEF QueueRises, HeardBefore, ReceivedInOrder
<1>7. CASE Subscribe \/ (\E l \in Ids : Unsubscribe(l)) \/ Close \/ HookEnds \/ RunDispatch
           \/ ListenerEnds
  BY <1>1, <1>7 DEF Heard, Subscribe, Unsubscribe, Close, HookEnds, RunDispatch, ListenerEnds,
     queueVars, delivery, history
<1>8. CASE FlushSettles \/ RunFlushed \/ ReleaseSettles \/ Degrade \/ UNCHANGED vars
  BY <1>1, <1>8 DEF Heard, FlushSettles, RunFlushed, ReleaseSettles, Degrade, vars,
     queueVars, delivery, history
<1> QED
  BY <1>2, <1>3, <1>4, <1>5, <1>6, <1>7, <1>8 DEF Next

-----------------------------------------------------------------------------
(* Who hears what *)

(* Queued(n) says that n is the revision of a batch of the queue. *)
LEMMA QueuedAfter ==
  ASSUME eventQueue \in Seq(Batch)
  PROVE  /\ \A batch \in Batch : eventQueue' = Append(eventQueue, batch) =>
              \A n : Queued(n)' <=> Queued(n) \/ n = batch.revision
         /\ eventQueue # <<>> /\ eventQueue' = Tail(eventQueue) =>
              \A n : Queued(n) => Queued(n)' \/ n = eventQueue[1].revision
<1>1. ASSUME NEW batch \in Batch, eventQueue' = Append(eventQueue, batch), NEW n
      PROVE  Queued(n)' <=> Queued(n) \/ n = batch.revision
  <2>1. /\ Len(eventQueue') = Len(eventQueue) + 1 /\ Len(eventQueue) \in Nat
        /\ \A i \in 1 .. Len(eventQueue) : eventQueue'[i] = eventQueue[i]
        /\ eventQueue'[Len(eventQueue) + 1] = batch
    BY <1>1
  <2> QED
    BY <2>1 DEF Queued
<1>2. ASSUME eventQueue # <<>>, eventQueue' = Tail(eventQueue), NEW n, Queued(n)
      PROVE  Queued(n)' \/ n = eventQueue[1].revision
  <2>1. PICK i \in 1 .. Len(eventQueue) : eventQueue[i].revision = n
    BY <1>2 DEF Queued
  <2>2. i = 1 \/ i \in 2 .. Len(eventQueue)
    BY <2>1
  <2>3. CASE i \in 2 .. Len(eventQueue)
    <3>1. i - 1 \in 1 .. Len(eventQueue') /\ eventQueue'[i - 1] = eventQueue[i]
      BY <1>2, <2>3, TailShifts
    <3> QED
      BY <2>1, <3>1 DEF Queued
  <2> QED
    BY <2>1, <2>2, <2>3
<1> QED
  BY <1>1, <1>2

(* A subscribed listener hears each later commit, will, or the hook did. *)
Told(l, n) ==
  \/ n \in ToSet(received[l])
  \/ n \in overflowed
  \/ Queued(n)
  \/ current # NoBatch /\ current.revision = n /\ l \in rest

(* Every step keeps listeners from missing a commit. *)
LEMMA GapStep == TypeOK /\ RestHasBatch /\ NoSilentGap /\ [Next]_vars => NoSilentGap'
<1> SUFFICES ASSUME TypeOK, RestHasBatch, NoSilentGap, [Next]_vars
             PROVE  NoSilentGap'
  OBVIOUS
<1>a. /\ eventQueue \in Seq(Batch) /\ revision \in Nat /\ listenerId \in Nat
      /\ listeners \subseteq Ids /\ listeners \subseteq 1 .. listenerId
      /\ received \in [Ids -> Seq(Revisions)] /\ rest \subseteq Ids
      /\ since \in [Ids -> 0 .. MaxCommits] /\ current \in Batch \cup {NoBatch}
  BY EventsAssumption DEF TypeOK, Ids
<1>b. \A l \in listeners : \A n \in since[l] + 1 .. revision : Told(l, n)
  BY DEF NoSilentGap, Told
<1>c. (\A l \in listeners' : \A n \in since'[l] + 1 .. revision' : Told(l, n)') => NoSilentGap'
  BY DEF NoSilentGap, Told
<1>1. ASSUME listeners' \subseteq listeners,
             UNCHANGED <<revision, eventQueue, current, rest, received, since, overflowed>>
      PROVE  NoSilentGap'
  BY <1>1, <1>b, <1>c DEF Told, Queued
<1>2. CASE Subscribe
  <2>1. /\ listeners' = listeners \cup {listenerId + 1} /\ listenerId + 1 \in Ids
        /\ since' = [since EXCEPT ![listenerId + 1] = revision]
        /\ UNCHANGED <<revision, eventQueue, current, rest, received, overflowed>>
    BY <1>2, <1>a, EventsAssumption DEF Subscribe, Ids, queueVars, delivery
  <2>2. /\ since'[listenerId + 1] = revision
        /\ \A l \in listeners : since'[l] = since[l]
    BY <1>a, <2>1
  <2>3. \A l \in listeners' : \A n \in since'[l] + 1 .. revision' : Told(l, n)
    BY <1>a, <1>b, <2>1, <2>2
  <2> QED
    BY <1>c, <2>1, <2>3 DEF Told, Queued
<1>3. ASSUME NEW changes \in BatchSizes, Commit(changes) PROVE NoSilentGap'
  <2> DEFINE batch == [revision |-> revision + 1, changes |-> changes]
  <2>1. /\ batch \in Batch /\ batch.revision = revision + 1
        /\ revision' = revision + 1
        /\ Overflow(batch) \/ (Push(batch) /\ UNCHANGED <<hooks, overflowed>>)
        /\ UNCHANGED <<listeners, since, current, rest, received>>
    BY <1>3, CommitParts
  <2> HIDE DEF batch
  <2>2. \A n : Queued(n) \/ n \in overflowed => Queued(n)' \/ n \in overflowed'
    BY <1>a, <2>1, QueuedAfter DEF Overflow, Push, queueVars, Queued
  <2>3. ASSUME NEW n, n = revision + 1 PROVE Queued(n)' \/ n \in overflowed'
    <3>1. CASE Push(batch)
      BY <1>a, <2>1, <2>3, <3>1, QueuedAfter DEF Push
    <3> QED
      BY <2>1, <2>3, <3>1 DEF Overflow
  <2>4. ASSUME NEW l \in listeners, NEW n \in since[l] + 1 .. revision + 1 PROVE Told(l, n)'
    <3>1. n = revision + 1 \/ n \in since[l] + 1 .. revision
      BY <1>a
    <3>2. CASE n = revision + 1
      BY <2>3, <3>2 DEF Told
    <3>3. CASE n \in since[l] + 1 .. revision
      BY <1>b, <2>1, <2>2, <3>3 DEF Told
    <3> QED
      BY <3>1, <3>2, <3>3
  <2> QED
    BY <1>c, <2>1, <2>4
<1>4. CASE TakeBatch
  <2>1. /\ rest = {} /\ eventQueue # <<>> /\ eventQueue' = Tail(eventQueue)
        /\ rest' = listeners /\ current' = eventQueue[1]
        /\ UNCHANGED <<revision, listeners, received, since, overflowed>>
    BY <1>4, <1>a, TailShifts DEF TakeBatch, BetweenBatches, listenVars
  <2>2. current' # NoBatch
    BY <1>a, <2>1, TailShifts, BatchFacts
  <2>3. \A n : Queued(n) => Queued(n)' \/ n = eventQueue[1].revision
    BY <1>a, <2>1, QueuedAfter
  <2> QED
    BY <1>b, <1>c, <2>1, <2>2, <2>3 DEF Told
<1>5. ASSUME NEW l \in Ids, CallListener(l) PROVE NoSilentGap'
  <2>1. /\ received' = [received EXCEPT ![l] = Append(@, current.revision)]
        /\ rest' = rest \ {l} /\ l \in rest
        /\ UNCHANGED <<revision, eventQueue, current, listeners, since, overflowed>>
    BY <1>5 DEF CallListener, queueVars, listenVars
  <2>2. current.revision \in Revisions
    BY <1>a, <2>1, BatchFacts DEF RestHasBatch
  <2>3. /\ \A m \in Ids : m # l => received'[m] = received[m]
        /\ ToSet(received'[l]) = ToSet(received[l]) \cup {current.revision}
    BY <1>a, <2>1, <2>2, AppendRange
  <2> QED
    BY <1>a, <1>b, <1>c, <2>1, <2>3 DEF Told, Queued
<1>6. CASE EndDispatch
  <2>1. rest = {} /\ UNCHANGED <<revision, eventQueue, rest, received, since, listeners, overflowed>>
    BY <1>6 DEF EndDispatch, BetweenBatches, history, listenVars
  <2> QED
    BY <1>b, <1>c, <2>1 DEF Told, Queued
<1>7. CASE FinishClose
  BY <1>7 DEF FinishClose, NoSilentGap
<1>8. CASE (\E l \in Ids : Unsubscribe(l)) \/ Close \/ HookEnds \/ RunDispatch \/ ListenerEnds
  BY <1>1, <1>8 DEF Unsubscribe, Close, HookEnds, RunDispatch, ListenerEnds,
     queueVars, listenVars, delivery, history
<1>9. CASE FlushSettles \/ RunFlushed \/ ReleaseSettles \/ Degrade \/ UNCHANGED vars
  BY <1>1, <1>9 DEF FlushSettles, RunFlushed, ReleaseSettles, Degrade, vars,
     queueVars, listenVars, delivery, history
<1> QED
  BY <1>2, <1>3, <1>4, <1>5, <1>6, <1>7, <1>8, <1>9 DEF Next

(* Whoever was subscribed when a batch was taken hears it, and nobody else. *)
LEMMA AudienceStep ==
  TypeOK /\ RestHasBatch /\ HeardBefore /\ AudienceKnown /\ [Next]_vars => AudienceKnown'
<1> SUFFICES ASSUME TypeOK, RestHasBatch, HeardBefore, AudienceKnown, [Next]_vars
             PROVE  AudienceKnown'
  OBVIOUS
<1>a. /\ eventQueue \in Seq(Batch) /\ listeners \subseteq Ids
      /\ received \in [Ids -> Seq(Revisions)] /\ rest \subseteq Ids
      /\ audience \in [Revisions -> SUBSET Ids] /\ current \in Batch \cup {NoBatch}
  BY EventsAssumption DEF TypeOK, Ids
<1>1. CASE UNCHANGED <<current, rest, received, audience>>
  BY <1>1 DEF AudienceKnown, Served
<1>2. CASE TakeBatch
  <2>1. /\ rest = {} /\ eventQueue # <<>>
        /\ rest' = listeners /\ current' = eventQueue[1]
        /\ audience' = [audience EXCEPT ![eventQueue[1].revision] = listeners]
        /\ UNCHANGED received
    BY <1>2, <1>a, TailShifts DEF TakeBatch, BetweenBatches
  <2>2. /\ current' # NoBatch /\ eventQueue[1].revision \in Revisions
        /\ eventQueue[1].revision \in Nat /\ 1 \in 1 .. Len(eventQueue)
    BY <1>a, <2>1, TailShifts, BatchFacts
  <2>3. ASSUME NEW l \in Ids PROVE eventQueue[1].revision \notin ToSet(received[l])
    <3> SUFFICES ASSUME NEW n \in 1 .. Len(received[l]), received[l][n] = eventQueue[1].revision
                 PROVE  FALSE
      BY SMTT(30), <1>a DEF ToSet
    <3> QED
      BY <2>2 DEF HeardBefore
  <2>4. \A n \in Revisions : Served(n)' = IF n = eventQueue[1].revision THEN listeners ELSE Served(n)
    BY <1>a, <2>1, <2>2, <2>3 DEF Served
  <2> QED
    BY <1>a, <2>1, <2>2, <2>4 DEF AudienceKnown
<1>3. ASSUME NEW l \in Ids, CallListener(l) PROVE AudienceKnown'
  <2>1. /\ received' = [received EXCEPT ![l] = Append(@, current.revision)]
        /\ rest' = rest \ {l} /\ l \in rest
        /\ UNCHANGED <<current, audience>>
    BY <1>3 DEF CallListener
  <2>2. current # NoBatch /\ current.revision \in Revisions
    BY <1>a, <2>1, BatchFacts DEF RestHasBatch
  <2>3. /\ \A m \in Ids : m # l => received'[m] = received[m]
        /\ ToSet(received'[l]) = ToSet(received[l]) \cup {current.revision}
    BY <1>a, <2>1, <2>2, AppendRange
  <2>4. \A n \in Revisions : Served(n)' = Served(n)
    BY <1>a, <2>1, <2>2, <2>3 DEF Served
  <2> QED
    BY <2>1, <2>4 DEF AudienceKnown
<1>4. CASE EndDispatch
  <2>1. rest = {} /\ UNCHANGED <<rest, received, audience>>
    BY <1>4 DEF EndDispatch, BetweenBatches, history
  <2> QED
    BY <2>1 DEF AudienceKnown, Served
<1>5. ASSUME NEW changes \in BatchSizes, Commit(changes) PROVE AudienceKnown'
  BY <1>1, <1>5 DEF Commit, delivery
<1>6. CASE Subscribe \/ (\E l \in Ids : Unsubscribe(l)) \/ Close \/ HookEnds \/ RunDispatch
           \/ ListenerEnds \/ FinishClose
  BY <1>1, <1>6 DEF Subscribe, Unsubscribe, Close, HookEnds, RunDispatch, ListenerEnds,
     FinishClose, delivery, history
<1>7. CASE FlushSettles \/ RunFlushed \/ ReleaseSettles \/ Degrade \/ UNCHANGED vars
  BY <1>1, <1>7 DEF FlushSettles, RunFlushed, ReleaseSettles, Degrade, vars, delivery, history
<1> QED
  BY <1>2, <1>3, <1>4, <1>5, <1>6, <1>7 DEF Next

-----------------------------------------------------------------------------
(* close() *)

(* The microtasks that empty the queue stay ahead of those of close().      *)
LEMMA CloseStep ==
  /\ TypeOK /\ QueueRises /\ NoStrandedBatch /\ CloseOrder /\ CloseDropsOnlyLate
  /\ [Next]_vars
  => CloseOrder' /\ CloseDropsOnlyLate'
<1> SUFFICES ASSUME TypeOK, QueueRises, NoStrandedBatch, CloseOrder, CloseDropsOnlyLate,
                    [Next]_vars
             PROVE  CloseOrder' /\ CloseDropsOnlyLate'
  OBVIOUS
<1> DEFINE Tasks == {"dispatch", "flushed", "released"}
<1>a. /\ microtasks \in Seq(Tasks) /\ eventQueue \in Seq(Batch)
      /\ \A i \in 1 .. Len(eventQueue) : eventQueue[i].revision \in Nat
      /\ revision \in Nat /\ revision <= MaxCommits /\ closedAt \in Nat /\ MaxCommits \in Nat
  <2>1. \A i \in 1 .. Len(eventQueue) : eventQueue[i] \in Batch
    BY DEF TypeOK
  <2> QED
    BY <2>1, BatchFacts, EventsAssumption DEF TypeOK
<1>1. CASE UNCHANGED <<closing, closedAt, revision, eventQueue, microtasks, dispatching, dropped>>
  BY <1>1 DEF CloseOrder, CloseDropsOnlyLate, OldQueued
<1>2. ASSUME NEW changes \in BatchSizes, Commit(changes)
      PROVE  CloseOrder' /\ CloseDropsOnlyLate'
  <2> DEFINE batch == [revision |-> revision + 1, changes |-> changes]
  <2>1. /\ batch \in Batch /\ batch.revision = revision + 1
        /\ revision' = revision + 1
        /\ Overflow(batch) \/ Push(batch)
        /\ UNCHANGED <<closing, closedAt, dispatching, dropped>>
    BY <1>2, CommitParts
  <2> HIDE DEF batch
  <2>2. CloseDropsOnlyLate'
    BY <2>1 DEF CloseDropsOnlyLate
  <2>3. CASE Overflow(batch)
    BY <1>a, <2>1, <2>2, <2>3 DEF Overflow, CloseOrder, OldQueued, queueVars
  <2>4. CASE Push(batch)
    <3>1. closing # "none" => (OldQueued' => OldQueued)
      <4>1. /\ Len(eventQueue') = Len(eventQueue) + 1 /\ Len(eventQueue) \in Nat
            /\ \A i \in 1 .. Len(eventQueue) : eventQueue'[i] = eventQueue[i]
            /\ eventQueue'[Len(eventQueue) + 1].revision = revision + 1
        BY <1>a, <2>1, <2>4 DEF Push
      <4>2. \A i \in 1 .. Len(eventQueue') : i \in 1 .. Len(eventQueue) \/ i = Len(eventQueue) + 1
        BY <4>1
      <4> QED
        BY <1>a, <2>1, <4>1, <4>2 DEF OldQueued, CloseOrder
    <3>2. ASSUME NEW p \in 1 .. Len(microtasks'), microtasks'[p] # "dispatch"
          PROVE  /\ p \in 1 .. Len(microtasks) /\ microtasks[p] # "dispatch"
                 /\ \A d \in 1 .. p - 1 : microtasks'[d] = microtasks[d]
      <4>1. microtasks' = microtasks \/ microtasks' = Append(microtasks, "dispatch")
        BY <2>4 DEF Push
      <4>2. CASE microtasks' = Append(microtasks, "dispatch")
        <5>1. /\ Len(microtasks') = Len(microtasks) + 1 /\ Len(microtasks) \in Nat
              /\ \A d \in 1 .. Len(microtasks) : microtasks'[d] = microtasks[d]
              /\ microtasks'[Len(microtasks) + 1] = "dispatch"
          BY <1>a, <4>2
        <5> QED
          BY <3>2, <5>1
      <4> QED
        BY <3>2, <4>1, <4>2
    <3>3. \A p \in 1 .. Len(microtasks') : microtasks'[p] # "dispatch" =>
            /\ closing # "none"
            /\ OldQueued' => dispatching \/ \E d \in 1 .. p - 1 : microtasks'[d] = "dispatch"
      BY <3>1, <3>2 DEF CloseOrder
    <3> QED
      BY <1>a, <2>1, <2>2, <3>3 DEF CloseOrder
  <2> QED
    BY <2>1, <2>3, <2>4
<1>3. CASE Close
  <2>1. /\ closing = "none" /\ closing' = "flushing" /\ closedAt' = revision
        /\ UNCHANGED <<revision, eventQueue, microtasks, dispatching, dropped>>
    BY <1>3 DEF Close, queueVars, delivery
  <2>2. \A batch \in dropped : batch.revision \in 1 .. MaxCommits
    BY BatchFacts DEF TypeOK, Revisions
  <2>3. dropped = {}
    BY <1>a, <2>1, <2>2 DEF CloseOrder, CloseDropsOnlyLate
  <2> QED
    BY <1>a, <2>1, <2>3 DEF CloseOrder, CloseDropsOnlyLate
<1>4. CASE RunDispatch
  <2>1. /\ microtasks # <<>> /\ microtasks' = Tail(microtasks) /\ dispatching'
        /\ UNCHANGED <<closing, closedAt, revision, eventQueue, dropped>>
    BY <1>4 DEF RunDispatch, queueVars, history
  <2>2. \A p \in 1 .. Len(microtasks') : p + 1 \in 1 .. Len(microtasks)
                                         /\ microtasks'[p] = microtasks[p + 1]
    BY <1>a, <2>1, TailShifts
  <2> QED
    BY <1>a, <2>1, <2>2 DEF CloseOrder, CloseDropsOnlyLate
<1>5. CASE TakeBatch
  <2>1. /\ eventQueue # <<>> /\ eventQueue' = Tail(eventQueue) /\ dispatching /\ dispatching'
        /\ UNCHANGED <<closing, closedAt, revision, microtasks, dropped>>
    BY <1>5 DEF TakeBatch, BetweenBatches
  <2> QED
    BY <2>1 DEF CloseOrder, CloseDropsOnlyLate
<1>6. CASE EndDispatch
  <2>1. /\ eventQueue = <<>>
        /\ UNCHANGED <<closing, closedAt, revision, eventQueue, microtasks, dropped>>
    BY <1>6 DEF EndDispatch, history
  <2> QED
    BY <2>1 DEF CloseOrder, CloseDropsOnlyLate, OldQueued
<1>7. ASSUME NEW x \in Tasks, microtasks' = Append(microtasks, x),
             closing # "none", closing' # "none",
             UNCHANGED <<closedAt, revision, eventQueue, dispatchScheduled, dispatching, dropped>>
      PROVE  CloseOrder' /\ CloseDropsOnlyLate'
  <2>1. /\ Len(microtasks') = Len(microtasks) + 1 /\ Len(microtasks) \in Nat
        /\ \A d \in 1 .. Len(microtasks) : microtasks'[d] = microtasks[d]
    BY <1>a, <1>7
  <2>2. OldQueued => dispatching \/ \E d \in 1 .. Len(microtasks) : microtasks[d] = "dispatch"
    BY <1>a DEF NoStrandedBatch, OldQueued, ToSet
  <2>3. OldQueued' <=> OldQueued
    BY <1>7 DEF OldQueued
  <2>4. ASSUME NEW p \in 1 .. Len(microtasks'), microtasks'[p] # "dispatch", OldQueued
        PROVE  dispatching \/ \E d \in 1 .. p - 1 : microtasks'[d] = "dispatch"
    <3>1. CASE p \in 1 .. Len(microtasks)
      BY <2>1, <2>4, <3>1 DEF CloseOrder
    <3>2. CASE p = Len(microtasks) + 1
      BY <2>1, <2>2, <2>4, <3>2
    <3> QED
      BY <2>1, <3>1, <3>2
  <2> QED
    BY <1>7, <2>3, <2>4 DEF CloseOrder, CloseDropsOnlyLate
<1>8. ASSUME microtasks # <<>>, Head(microtasks) # "dispatch", microtasks' = Tail(microtasks),
             ~dispatching
      PROVE  /\ closing # "none" /\ ~OldQueued
             /\ \A p \in 1 .. Len(microtasks') : p + 1 \in 1 .. Len(microtasks)
                                              /\ microtasks'[p] = microtasks[p + 1]
  <2>1. 1 \in 1 .. Len(microtasks) /\ microtasks[1] # "dispatch"
    BY <1>a, <1>8, TailShifts
  <2>2. \A d \in 1 .. 1 - 1 : FALSE
    OBVIOUS
  <2>3. closing # "none" /\ ~OldQueued
    BY <1>8, <2>1, <2>2 DEF CloseOrder
  <2> QED
    BY <1>a, <1>8, <2>3, TailShifts
<1>9. CASE RunFlushed
  <2>1. /\ microtasks # <<>> /\ Head(microtasks) = "flushed" /\ microtasks' = Tail(microtasks)
        /\ ~dispatching /\ closing' = "releasing"
        /\ UNCHANGED <<closedAt, revision, eventQueue, dropped>>
    BY <1>9 DEF RunFlushed, StackEmpty, queueVars, history
  <2> QED
    BY <1>8, <2>1 DEF CloseOrder, CloseDropsOnlyLate, OldQueued
<1>10. CASE FinishClose
  <2>1. /\ microtasks # <<>> /\ Head(microtasks) = "released" /\ microtasks' = Tail(microtasks)
        /\ ~dispatching /\ closing' = "closed" /\ eventQueue' = <<>>
        /\ dropped' = dropped \cup ToSet(eventQueue)
        /\ UNCHANGED <<closedAt, revision>>
    BY <1>10 DEF FinishClose, StackEmpty
  <2>2. /\ closing # "none" /\ ~OldQueued
        /\ \A p \in 1 .. Len(microtasks') : p + 1 \in 1 .. Len(microtasks)
                                         /\ microtasks'[p] = microtasks[p + 1]
    BY <1>8, <2>1
  <2>3. ~OldQueued'
    BY <2>1 DEF OldQueued
  <2>4. \A batch \in ToSet(eventQueue) : batch.revision > closedAt
    BY <1>a, <2>2 DEF OldQueued, ToSet
  <2> QED
    BY <2>1, <2>2, <2>3, <2>4 DEF CloseOrder, CloseDropsOnlyLate
<1>11. CASE FlushSettles \/ ReleaseSettles
  BY <1>7, <1>11 DEF FlushSettles, ReleaseSettles, queueVars, delivery, history
<1>12. CASE Subscribe \/ (\E l \in Ids : Unsubscribe(l)) \/ HookEnds \/ ListenerEnds
            \/ (\E l \in Ids : CallListener(l)) \/ Degrade \/ UNCHANGED vars
  BY <1>1, <1>12 DEF Subscribe, Unsubscribe, HookEnds, ListenerEnds, CallListener, Degrade,
     vars, queueVars, delivery, history
<1> QED
  BY <1>2, <1>3, <1>4, <1>5, <1>6, <1>9, <1>10, <1>11, <1>12 DEF Next

-----------------------------------------------------------------------------
(* Sums over a sequence *)

(* What the batches of q hold together, as QueueWithinLimits says it *)
Counted(q) == FoldLeft(LAMBDA sum, batch : sum + batch.changes, 0, q)

(* g is the function FoldLeft defines over the first m batches of q *)
Sums(g, m, q) ==
  g = [s \in SUBSET (1 .. m) |->
         IF s = {} THEN 0 ELSE g[s \ {Max(s)}] + q[Max(s)].changes]

(* There is such a function. *)
LEMMA SumsExist ==
  ASSUME NEW q, NEW m \in Nat
  PROVE  \E g : Sums(g, m, q)
<1> DEFINE Good == {n \in Nat : \E g : Sums(g, n, q)}
<1>1. 0 \in Good
  <2> DEFINE g == [s \in SUBSET (1 .. 0) |-> 0]
  <2>1. \A s \in SUBSET (1 .. 0) : s = {}
    OBVIOUS
  <2>2. Sums(g, 0, q)
    BY <2>1 DEF Sums
  <2> QED
    BY <2>2
<1>2. ASSUME NEW n \in Nat, n \in Good PROVE n + 1 \in Good
  <2>1. PICK g : Sums(g, n, q)
    BY <1>2
  <2> DEFINE h == [s \in SUBSET (1 .. n + 1) |->
                     IF s \in SUBSET (1 .. n) THEN g[s]
                     ELSE g[s \ {n + 1}] + q[n + 1].changes]
  <2> HIDE DEF Good
  <2>0. SUBSET (1 .. n) \subseteq SUBSET (1 .. n + 1)
    OBVIOUS
  <2>2. ASSUME NEW s \in SUBSET (1 .. n + 1)
        PROVE  h[s] = IF s = {} THEN 0 ELSE h[s \ {Max(s)}] + q[Max(s)].changes
    <3>1. CASE s \in SUBSET (1 .. n)
      <4>1. s \ {Max(s)} \in SUBSET (1 .. n) /\ s \ {Max(s)} \in SUBSET (1 .. n + 1)
        BY <3>1, <2>0
      <4>2. h[s] = g[s] /\ h[s \ {Max(s)}] = g[s \ {Max(s)}]
        BY <3>1, <4>1
      <4>3. g[s] = IF s = {} THEN 0 ELSE g[s \ {Max(s)}] + q[Max(s)].changes
        <5> HIDE DEF h
        <5> QED
          BY <2>1, <3>1 DEF Sums
      <4> QED
        BY <4>2, <4>3
    <3>2. CASE s \notin SUBSET (1 .. n)
      <4>1. n + 1 \in s /\ s \ {n + 1} \in SUBSET (1 .. n)
        <5> HIDE DEF h
        <5> QED
          BY <3>2
      <4>2. Max(s) = n + 1
        <5> HIDE DEF h
        <5>1. n + 1 \in Nat /\ s # {}
          BY <4>1
        <5>2. Max(s) \in s /\ Max(s) >= n + 1
          BY <4>1, <5>1, MaxBounds
        <5>3. Max(s) \in 1 .. n + 1
          BY <5>2
        <5> QED
          BY <5>2, <5>3
      <4>3. s \ {n + 1} \in SUBSET (1 .. n + 1)
        OBVIOUS
      <4>4. h[s] = g[s \ {n + 1}] + q[n + 1].changes /\ h[s \ {n + 1}] = g[s \ {n + 1}]
        BY <3>2, <4>1, <4>3
      <4> HIDE DEF h
      <4> QED
        BY <4>1, <4>2, <4>4
    <3> QED
      BY <3>1, <3>2
  <2>3. Sums(h, n + 1, q)
    <3> HIDE DEF h
    <3>1. h = [s \in SUBSET (1 .. n + 1) |-> h[s]]
      BY DEF h
    <3> QED
      BY <2>2, <3>1 DEF Sums
  <2> QED
    BY <2>3 DEF Good
<1> HIDE DEF Good
<1>3. Nat \subseteq Good
  BY <1>1, <1>2, SetInduction
<1> QED
  BY <1>3 DEF Good

(* It depends on the first m batches only. *)
LEMMA SumsAgree ==
  ASSUME NEW q, NEW r, NEW m \in Nat, NEW n \in Nat, m <= n,
         \A i \in 1 .. m : q[i] = r[i],
         NEW g, Sums(g, m, q), NEW h, Sums(h, n, r)
  PROVE  g[1 .. m] = h[1 .. m]
<1> DEFINE Good == {k \in Nat : k <= m => \A s \in SUBSET (1 .. k) : g[s] = h[s]}
<1>1. 0 \in Good
  <2>1. \A s \in SUBSET (1 .. 0) : s = {} /\ s \in SUBSET (1 .. m) /\ s \in SUBSET (1 .. n)
    OBVIOUS
  <2> QED
    BY <2>1 DEF Sums
<1>2. ASSUME NEW k \in Nat, k \in Good PROVE k + 1 \in Good
  <2> SUFFICES ASSUME k + 1 <= m, NEW s \in SUBSET (1 .. k + 1) PROVE g[s] = h[s]
    OBVIOUS
  <2>1. \A t \in SUBSET (1 .. k) : g[t] = h[t]
    BY <1>2
  <2> HIDE DEF Good
  <2>2. CASE s = {}
    <3>1. s \in SUBSET (1 .. k)
      BY <2>2
    <3> QED
      BY <2>1, <3>1
  <2>3. CASE s # {}
    <3>0. k + 1 \in Nat
      OBVIOUS
    <3>1. Max(s) \in s /\ (\A y \in s : Max(s) >= y) /\ Max(s) \in 1 .. k + 1
      BY <2>3, <3>0, MaxBounds
    <3>2. s \ {Max(s)} \in SUBSET (1 .. k)
      <4> SUFFICES ASSUME NEW y \in s \ {Max(s)} PROVE y \in 1 .. k
        OBVIOUS
      <4>1. y \in 1 .. k + 1 /\ y # Max(s) /\ Max(s) >= y
        BY <3>1
      <4> QED
        BY <3>1, <4>1
    <3>3. g[s \ {Max(s)}] = h[s \ {Max(s)}]
      BY <2>1, <3>2
    <3>4. s \in SUBSET (1 .. m) /\ s \in SUBSET (1 .. n) /\ q[Max(s)] = r[Max(s)]
      BY <3>1
    <3>5. /\ g[s] = g[s \ {Max(s)}] + q[Max(s)].changes
          /\ h[s] = h[s \ {Max(s)}] + r[Max(s)].changes
      BY <2>3, <3>4 DEF Sums
    <3> QED
      BY <3>3, <3>4, <3>5
  <2> QED
    BY <2>2, <2>3
<1> HIDE DEF Good
<1>3. Nat \subseteq Good
  BY <1>1, <1>2, SetInduction
<1>4. m \in Good /\ 1 .. m \in SUBSET (1 .. m)
  BY <1>3
<1> QED
  BY <1>4 DEF Good

(* The fold is the value of that function. *)
LEMMA CountedIs ==
  ASSUME NEW q \in Seq(Batch)
  PROVE  \E g : Sums(g, Len(q), q) /\ Counted(q) = g[1 .. Len(q)]
<1> DEFINE g == CHOOSE f : f = [s \in SUBSET (1 .. Len(q)) |->
                  IF s = {} THEN 0 ELSE f[s \ {Max(s)}] + q[Max(s)].changes]
<1>1. DOMAIN q = 1 .. Len(q) /\ Len(q) \in Nat
  OBVIOUS
<1>2. Sums(g, Len(q), q)
  BY <1>1, SumsExist DEF Sums
<1>3. Counted(q) = g[1 .. Len(q)]
  BY <1>1 DEF Counted, FoldLeft, MapThenFoldSet
<1> QED
  BY <1>2, <1>3

(* The empty queue holds nothing, and one more batch counts as what it holds. *)
LEMMA CountedEmpty == Counted(<<>>) = 0
<1>0. <<>> \in Seq(Batch) /\ Len(<<>>) = 0
  OBVIOUS
<1>1. PICK g : Sums(g, 0, <<>>) /\ Counted(<<>>) = g[1 .. 0]
  BY <1>0, CountedIs
<1>2. 1 .. 0 = {}
  OBVIOUS
<1> QED
  BY <1>1, <1>2 DEF Sums

LEMMA CountedAppend ==
  ASSUME NEW q \in Seq(Batch), NEW b \in Batch
  PROVE  Counted(Append(q, b)) = Counted(q) + b.changes
<1> DEFINE n == Len(q)
           r == Append(q, b)
<1>1. /\ r \in Seq(Batch) /\ Len(r) = n + 1 /\ n \in Nat
      /\ \A i \in 1 .. n : q[i] = r[i]
      /\ r[n + 1] = b
  OBVIOUS
<1>2. PICK g : Sums(g, n, q) /\ Counted(q) = g[1 .. n]
  BY CountedIs
<1>3. PICK h : Sums(h, n + 1, r) /\ Counted(r) = h[1 .. n + 1]
  BY <1>1, CountedIs
<1> HIDE DEF n, r
<1>4. n + 1 \in Nat /\ n <= n + 1
  BY <1>1
<1>5. g[1 .. n] = h[1 .. n]
  BY <1>1, <1>2, <1>3, <1>4, SumsAgree
<1>6. Max(1 .. n + 1) = n + 1
  <2>1. n + 1 \in 1 .. n + 1 /\ 1 .. n + 1 # {}
    BY <1>1
  <2>2. Max(1 .. n + 1) \in 1 .. n + 1 /\ Max(1 .. n + 1) >= n + 1
    BY <1>4, <2>1, MaxBounds
  <2> QED
    BY <1>1, <2>2
<1>7. /\ (1 .. n + 1) \ {n + 1} = 1 .. n /\ 1 .. n + 1 # {}
  <2>1. n \in Nat
    BY <1>1
  <2> QED
    BY <2>1
<1>8. h[1 .. n + 1] = h[1 .. n] + r[n + 1].changes
  BY <1>3, <1>6, <1>7 DEF Sums
<1> QED
  BY <1>1, <1>2, <1>3, <1>5, <1>8 DEF r

(* What is left when the first batch is taken *)
LEMMA CountedTail ==
  ASSUME NEW q \in Seq(Batch), q # <<>>
  PROVE  Counted(q) \in Nat /\ Counted(Tail(q)) = Counted(q) - Head(q).changes
<1> DEFINE Splits(p) == Counted(p) \in Nat
                         /\ (p # <<>> => Counted(Tail(p)) = Counted(p) - Head(p).changes)
           Good == {n \in Nat : \A p \in Seq(Batch) : Len(p) = n => Splits(p)}
<1>1. 0 \in Good
  <2>1. \A p \in Seq(Batch) : Len(p) = 0 => p = <<>>
    OBVIOUS
  <2> QED
    BY <2>1, CountedEmpty
<1>2. ASSUME NEW n \in Nat, n \in Good PROVE n + 1 \in Good
  <2> SUFFICES ASSUME NEW p \in Seq(Batch), Len(p) = n + 1 PROVE Splits(p)
    OBVIOUS
  <2> DEFINE front == SubSeq(p, 1, n)
             last == p[n + 1]
  <2>1. /\ front \in Seq(Batch) /\ Len(front) = n /\ last \in Batch
        /\ p = Append(front, last)
    OBVIOUS
  <2> HIDE DEF front, last
  <2>2. Counted(p) = Counted(front) + last.changes /\ Counted(front) \in Nat
        /\ last.changes \in Nat
    BY <1>2, <2>1, CountedAppend, BatchFacts
  <2>3. CASE n = 0
    <3>1. front = <<>> /\ Tail(p) = <<>> /\ Head(p) = last
      BY <2>1, <2>3
    <3>2. Counted(front) = 0 /\ Counted(Tail(p)) = 0
      BY <3>1, CountedEmpty
    <3> HIDE DEF Good
    <3>3. Counted(p) = last.changes /\ Head(p).changes = last.changes
      BY <2>2, <3>1, <3>2
    <3>4. Counted(p) \in Nat /\ Counted(Tail(p)) = Counted(p) - Head(p).changes
      BY <2>2, <3>2, <3>3
    <3> QED
      BY <3>4
  <2>4. CASE n # 0
    <3>1. /\ front # <<>> /\ Tail(front) \in Seq(Batch) /\ Head(p) = Head(front)
          /\ Tail(p) = Append(Tail(front), last)
      BY <2>1, <2>4
    <3>2. Counted(Tail(front)) = Counted(front) - Head(front).changes
      BY <1>2, <2>1, <3>1
    <3> HIDE DEF Good
    <3>3. Counted(Tail(p)) = Counted(Tail(front)) + last.changes
      BY <2>1, <3>1, CountedAppend
    <3>4. Head(front).changes \in Nat
      BY <2>1, <3>1, BatchFacts
    <3> QED
      BY <2>2, <3>1, <3>2, <3>3, <3>4
  <2> QED
    BY <2>3, <2>4
<1> HIDE DEF Good
<1>3. Nat \subseteq Good
  BY <1>1, <1>2, SetInduction
<1>4. Len(q) \in Good
  BY <1>3
<1> QED
  BY <1>4 DEF Good

(* The count of queued changes in terms of Counted *)
Counts == dropped = {} => eventQueueChanges = Counted(eventQueue)

Bounded ==
  /\ Len(eventQueue) <= MaxQueuedBatches
  /\ eventQueueChanges <= MaxQueuedChanges

LEMMA LimitParts == QueueWithinLimits <=> Counts /\ Bounded
  BY DEF QueueWithinLimits, Counts, Bounded, Counted

(* Every step keeps the count and the limits: what is pushed fits, what is  *)
(* taken is subtracted, and the end of close() keeps nothing to count.      *)
LEMMA LimitsStep == TypeOK /\ Counts /\ Bounded /\ [Next]_vars => Counts' /\ Bounded'
<1> SUFFICES ASSUME TypeOK, Counts, Bounded, [Next]_vars PROVE Counts' /\ Bounded'
  OBVIOUS
<1>1. /\ eventQueue \in Seq(Batch) /\ Len(eventQueue) \in Nat /\ eventQueueChanges \in Int
      /\ MaxQueuedBatches \in Nat /\ MaxQueuedChanges \in Nat
  BY EventsAssumption DEF TypeOK
<1>2. ASSUME NEW changes \in BatchSizes, Commit(changes) PROVE Counts' /\ Bounded'
  <2> DEFINE batch == [revision |-> revision + 1, changes |-> changes]
  <2>1. /\ batch \in Batch /\ batch.changes = changes
        /\ dropped' = dropped
        /\ \/ UNCHANGED <<eventQueue, eventQueueChanges>>
           \/ ~QueueFull(changes) /\ Push(batch)
    BY <1>2, CommitParts DEF Commit, Overflow, queueVars
  <2> HIDE DEF batch
  <2>2. CASE UNCHANGED <<eventQueue, eventQueueChanges>>
    BY <2>1, <2>2 DEF Counts, Bounded
  <2>3. CASE ~QueueFull(changes) /\ Push(batch)
    <3>1. /\ eventQueue' = Append(eventQueue, batch)
          /\ eventQueueChanges' = eventQueueChanges + changes
          /\ batch.changes = changes /\ changes \in Nat
          /\ Len(eventQueue) < MaxQueuedBatches
          /\ eventQueueChanges + changes <= MaxQueuedChanges
      BY <1>1, <2>1, <2>3, EventsAssumption DEF Push, QueueFull
    <3>2. Len(eventQueue') = Len(eventQueue) + 1
      BY <1>1, <3>1
    <3>3. Counted(eventQueue') = Counted(eventQueue) + changes
      BY <1>1, <2>1, <3>1, CountedAppend
    <3>4. Bounded'
      BY <1>1, <3>1, <3>2 DEF Bounded
    <3> QED
      BY <2>1, <3>1, <3>3, <3>4 DEF Counts
  <2> QED
    BY <2>1, <2>2, <2>3
<1>3. CASE TakeBatch
  <2>1. /\ eventQueue # <<>> /\ eventQueue' = Tail(eventQueue) /\ dropped' = dropped
        /\ eventQueueChanges' = eventQueueChanges - Head(eventQueue).changes
    BY <1>3 DEF TakeBatch
  <2>2. /\ Head(eventQueue) \in Batch /\ Len(Tail(eventQueue)) = Len(eventQueue) - 1
    BY <1>1, <2>1, TailShifts
  <2>3. Head(eventQueue).changes \in Nat
    BY <2>2, BatchFacts
  <2>4. Counted(eventQueue') = Counted(eventQueue) - Head(eventQueue).changes
    BY <1>1, <2>1, CountedTail
  <2>5. Bounded'
    BY <1>1, <2>1, <2>2, <2>3 DEF Bounded
  <2> QED
    BY <2>1, <2>4, <2>5 DEF Counts
<1>4. CASE FinishClose
  <2>1. /\ eventQueue' = <<>> /\ eventQueueChanges' = eventQueueChanges
        /\ dropped' = dropped \cup ToSet(eventQueue)
    BY <1>4 DEF FinishClose
  <2>2. Bounded'
    BY <1>1, <2>1 DEF Bounded
  <2>3. ASSUME dropped' = {} PROVE eventQueueChanges' = Counted(eventQueue')
    <3>1. dropped = {} /\ ToSet(eventQueue) = {}
      BY <2>1, <2>3
    <3>2. eventQueue = <<>>
      <4> SUFFICES ASSUME eventQueue # <<>> PROVE FALSE
        OBVIOUS
      <4>1. 1 \in DOMAIN eventQueue
        BY <1>1
      <4> QED
        BY <3>1, <4>1 DEF ToSet
    <3> QED
      BY <2>1, <3>1, <3>2 DEF Counts
  <2> QED
    BY <2>2, <2>3 DEF Counts
<1>5. CASE UNCHANGED <<eventQueue, eventQueueChanges, dropped>>
  BY <1>5 DEF Counts, Bounded
<1>6. CASE Subscribe \/ (\E l \in Ids : Unsubscribe(l)) \/ HookEnds \/ ListenerEnds
           \/ (\E l \in Ids : CallListener(l)) \/ Degrade \/ UNCHANGED vars
  BY <1>5, <1>6 DEF Subscribe, Unsubscribe, HookEnds, ListenerEnds, CallListener, Degrade,
     vars, queueVars, history
<1>7. CASE Close \/ RunDispatch \/ EndDispatch
           \/ FlushSettles \/ RunFlushed \/ ReleaseSettles
  BY <1>5, <1>7 DEF Close, RunDispatch, EndDispatch, FlushSettles, RunFlushed,
     ReleaseSettles, queueVars, history
<1> QED
  BY <1>2, <1>3, <1>4, <1>6, <1>7 DEF Next

-----------------------------------------------------------------------------
(* Theorems *)

(* Types, order, audience and microtasks together survive every step: the   *)
(* invariant of the queue of #enqueue and of its microtask.                 *)
THEOREM EventsInvHolds == Spec => []EventsInv
<1>1. Init => EventsInv
  <2> SUFFICES ASSUME Init PROVE EventsInv
    OBVIOUS
  <2>1. TypeOK
    <3>1. <<>> \in Seq(Batch) /\ <<>> \in Seq(Revisions)
          /\ <<>> \in Seq({"dispatch", "flushed", "released"})
      OBVIOUS
    <3>2. MaxCommits \in Nat /\ MaxSubscriptions \in Nat /\ MaxHookDepth \in Nat
      BY EventsAssumption
    <3>3. /\ received \in [Ids -> Seq(Revisions)] /\ since \in [Ids -> 0 .. MaxCommits]
          /\ audience \in [Revisions -> SUBSET Ids]
      BY <3>1, <3>2 DEF Init
    <3>4. /\ state \in {"open", "degraded", "closing", "closed"}
          /\ closing \in {"none", "flushing", "flushed", "releasing", "released", "closed"}
          /\ revision \in 0 .. MaxCommits /\ eventQueue \in Seq(Batch) /\ eventQueueChanges \in Int
          /\ listenerId \in 0 .. MaxSubscriptions /\ listeners \subseteq 1 .. listenerId
          /\ microtasks \in Seq({"dispatch", "flushed", "released"})
      BY <3>1, <3>2 DEF Init
    <3>5. /\ dispatchScheduled \in BOOLEAN /\ dispatching \in BOOLEAN
          /\ current \in Batch \cup {NoBatch} /\ rest \subseteq Ids
      BY DEF Init
    <3>6. /\ speaking \in Ids \cup {0} /\ hooks \in 0 .. MaxHookDepth
          /\ overflowed \subseteq Revisions /\ dropped \subseteq Batch
          /\ closedAt \in 0 .. MaxCommits
      BY <3>2 DEF Init
    <3> QED
      BY <3>3, <3>4, <3>5, <3>6 DEF TypeOK
  <2>2. RestHasBatch /\ QueueRises /\ HeardBefore /\ ReceivedInOrder /\ NoSilentGap
    BY DEF Init, RestHasBatch, QueueRises, HeardBefore, ReceivedInOrder, NoSilentGap
  <2>3. AudienceKnown
    BY DEF Init, AudienceKnown, Served, ToSet
  <2>4. NoStrandedBatch /\ CloseOrder /\ CloseDropsOnlyLate
    BY DEF Init, NoStrandedBatch, CloseOrder, CloseDropsOnlyLate
  <2> QED
    BY <2>1, <2>2, <2>3, <2>4 DEF EventsInv
<1>2. EventsInv /\ [Next]_vars => EventsInv'
  BY TypeStep, StrandedStep, OrderStep, GapStep, AudienceStep, CloseStep DEF EventsInv, Ordered
<1> QED
  BY <1>1, <1>2, PTL DEF Spec

(* Every field of the event queue keeps its type. *)
THEOREM EventTypesHold == Spec => []TypeOK
<1>1. EventsInv => TypeOK
  BY DEF EventsInv
<1> QED
  BY <1>1, EventsInvHolds, PTL

(* Each listener is called with rising revisions, whatever listeners and    *)
(* hooks do while they run.                                                 *)
THEOREM ListenersHearInOrder == Spec => []ReceivedInOrder
<1>1. EventsInv => ReceivedInOrder
  BY DEF EventsInv
<1> QED
  BY <1>1, EventsInvHolds, PTL

(* A subscribed listener misses no commit but those that found the queue    *)
(* full, which are the ones the overflow hook is given where there is one.  *)
THEOREM NoGapIsSilent == Spec => []NoSilentGap
<1>1. EventsInv => NoSilentGap
  BY DEF EventsInv
<1> QED
  BY <1>1, EventsInvHolds, PTL

(* A batch goes to exactly the listeners of the moment it was taken. *)
THEOREM AudienceIsServed == Spec => []AudienceServed
<1>1. EventsInv => AudienceServed
  BY DEF EventsInv, AudienceKnown, Served, AudienceServed
<1> QED
  BY <1>1, EventsInvHolds, PTL

(* Whenever a batch is queued a microtask is running or due that takes it.  *)
THEOREM NoBatchIsStranded == Spec => []NoStrandedBatch
<1>1. EventsInv => NoStrandedBatch
  BY DEF EventsInv
<1> QED
  BY <1>1, EventsInvHolds, PTL

(* close() throws away no batch that was committed before it was called. *)
THEOREM CloseKeepsEarlyBatches == Spec => []CloseDropsOnlyLate
<1>1. EventsInv => CloseDropsOnlyLate
  BY DEF EventsInv
<1> QED
  BY <1>1, EventsInvHolds, PTL

(* The queue keeps both limits, and the count of its changes is what its    *)
(* batches hold until close() throws one away.                              *)
THEOREM QueueStaysWithinLimits == Spec => []QueueWithinLimits
<1>1. Init => Counts /\ Bounded
  <2>1. MaxQueuedBatches \in Nat /\ MaxQueuedChanges \in Nat
    BY EventsAssumption
  <2> QED
    BY <2>1, CountedEmpty DEF Init, Counts, Bounded
<1>2. EventsInv => TypeOK
  BY DEF EventsInv
<1> QED
  BY <1>1, <1>2, LimitsStep, LimitParts, EventsInvHolds, PTL DEF Spec
=============================================================================
