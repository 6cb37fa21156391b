-------------------------------- MODULE Events --------------------------------
(***************************************************************************)
(* Change events of a Database (src/src/database.ts): each commit enqueues *)
(* a batch, a full queue hands it to onEventOverflow instead, and one      *)
(* microtask empties the queue, batch by batch, listener by listener.      *)
(* Listeners and hooks are application code: while one runs it may commit, *)
(* subscribe, unsubscribe and close.  Microtasks run first in first out,   *)
(* each to its end, when no other code runs; calls of the application come *)
(* between any two of them.                                                *)
(***************************************************************************)
EXTENDS Integers, Sequences, FiniteSets, SequencesExt

CONSTANTS
  MaxQueuedBatches,  \* eventLimits.maxQueuedBatches
  MaxQueuedChanges,  \* eventLimits.maxQueuedChanges
  NoBatch,           \* no batch is being delivered
  BatchSizes,        \* how many changes a commit may hold
  MaxCommits,        \* bound of the model: commits
  MaxSubscriptions,  \* bound of the model: calls of subscribe
  MaxHookDepth       \* bound of the model: overflow hooks within each other

ASSUME EventsAssumption ==
  /\ {MaxQueuedBatches, MaxQueuedChanges} \subseteq Nat \ {0}
  /\ BatchSizes \subseteq Nat \ {0}
  /\ {MaxCommits, MaxSubscriptions, MaxHookDepth} \subseteq Nat
  /\ NoBatch \notin [revision : Nat, changes : Nat]

VARIABLES
  state,              \* Database.#state, as far as it admits calls
  closing,            \* how far #performClose has come
  revision,           \* Database.#revision
  eventQueue,         \* Database.#eventQueue
  eventQueueChanges,  \* Database.#eventQueueChanges
  dispatchScheduled,  \* Database.#dispatchScheduled
  listeners,          \* the ids in Database.#listeners; a Map keeps them in order
  listenerId,         \* Database.#listenerId
  microtasks,         \* the runtime's queue, as far as this code fills it
  dispatching,        \* the microtask of #enqueue is running
  current,            \* the batch in delivery
  rest,               \* the listeners that are still to be called with it
  speaking,           \* the listener that is running, or 0
  hooks,              \* how many onEventOverflow are running, within each other
  received,           \* history: the revisions each listener was called with
  since,              \* history: the revision at which a listener subscribed
  audience,           \* history: who was subscribed when a batch was taken
  overflowed,         \* history: the revisions given to onEventOverflow
  dropped,            \* history: the batches close() threw away
  closedAt            \* history: the revision at which close() was called

queueVars == <<eventQueue, eventQueueChanges, dispatchScheduled>>
listenVars == <<listeners, listenerId>>
delivery  == <<dispatching, current, rest, speaking>>
history   == <<received, since, audience, overflowed, dropped, closedAt>>
vars == <<state, closing, revision, queueVars, listenVars, microtasks, delivery,
          hooks, history>>

Revisions == 1 .. MaxCommits
Ids       == 1 .. MaxSubscriptions
Batch     == [revision : Revisions, changes : BatchSizes]

Init ==
  /\ state = "open" /\ closing = "none" /\ revision = 0
  /\ eventQueue = <<>> /\ eventQueueChanges = 0 /\ dispatchScheduled = FALSE
  /\ listeners = {} /\ listenerId = 0
  /\ microtasks = <<>>
  /\ dispatching = FALSE /\ current = NoBatch /\ rest = {} /\ speaking = 0
  /\ hooks = 0
  /\ received = [l \in Ids |-> <<>>]
  /\ since = [l \in Ids |-> 0]
  /\ audience = [n \in Revisions |-> {}]
  /\ overflowed = {} /\ dropped = {} /\ closedAt = MaxCommits

(* Application code can call: a listener or a hook is running, or nothing is. *)
ApplicationRuns == dispatching => speaking # 0

(* The stack is empty, so the runtime may start the next microtask. *)
StackEmpty == ~dispatching /\ hooks = 0

AssertOpen == state \in {"open", "degraded"}

-----------------------------------------------------------------------------
(* Calls of the application *)

(* A broken variant: the first listener gets number 0 *)
MutantSubscribe ==
  /\ ApplicationRuns
  /\ AssertOpen
  /\ listenerId < MaxSubscriptions
  /\ listenerId' = listenerId + 1
  /\ listeners' = listeners \cup {listenerId}
  /\ UNCHANGED <<state, closing, revision, queueVars, microtasks, delivery, hooks, history>>

(* subscribe *)
Subscribe ==
  /\ ApplicationRuns
  /\ AssertOpen
  /\ listenerId < MaxSubscriptions
  /\ listenerId' = listenerId + 1
  /\ listeners' = listeners \cup {listenerId + 1}
  /\ since' = [since EXCEPT ![listenerId + 1] = revision]
  /\ UNCHANGED <<state, closing, revision, queueVars, microtasks, delivery, hooks,
                 received, audience, overflowed, dropped, closedAt>>

(* the function subscribe returned *)
Unsubscribe(l) ==
  /\ ApplicationRuns
  /\ l \in listeners
  /\ listeners' = listeners \ {l}
  /\ UNCHANGED <<state, closing, revision, queueVars, listenerId, microtasks,
                 delivery, hooks, history>>

QueueFull(changes) ==
  \/ Len(eventQueue) >= MaxQueuedBatches
  \/ eventQueueChanges + changes > MaxQueuedChanges

(* A broken variant: the newest batch first *)
MutantPush(batch) ==
  /\ eventQueue' = <<batch>> \o eventQueue
  /\ eventQueueChanges' = eventQueueChanges + batch.changes
  /\ dispatchScheduled' = TRUE
  /\ microtasks' = IF dispatchScheduled THEN microtasks ELSE Append(microtasks, "dispatch")

(* #enqueue when there is room: one microtask serves all that is queued *)
Push(batch) ==
  /\ eventQueue' = Append(eventQueue, batch)
  /\ eventQueueChanges' = eventQueueChanges + batch.changes
  /\ dispatchScheduled' = TRUE
  /\ microtasks' = IF dispatchScheduled THEN microtasks ELSE Append(microtasks, "dispatch")

(* A broken variant: a batch that does not fit is dropped without a word *)
MutantOverflow(batch) ==
  /\ hooks < MaxHookDepth
  /\ UNCHANGED <<hooks, overflowed, queueVars, microtasks>>

(* #enqueue when there is none: the hook runs before _commit returns.  The  *)
(* hook is optional; without one the database does what it does with a hook *)
(* that returns at once, and "overflowed" only tells what did not fit.      *)
Overflow(batch) ==
  /\ hooks < MaxHookDepth
  /\ hooks' = hooks + 1
  /\ overflowed' = overflowed \cup {batch.revision}
  /\ UNCHANGED <<queueVars, microtasks>>

(* _commit with changes: published first, then enqueued *)
Commit(changes) ==
  LET batch == [revision |-> revision + 1, changes |-> changes]
  IN  /\ ApplicationRuns
      /\ AssertOpen
      /\ revision < MaxCommits
      /\ revision' = revision + 1
      /\ \/ /\ QueueFull(changes)
            /\ Overflow(batch)
         \/ /\ ~QueueFull(changes)
            /\ Push(batch)
            /\ UNCHANGED <<hooks, overflowed>>
      /\ UNCHANGED <<state, closing, listenVars, delivery,
                     received, since, audience, dropped, closedAt>>

(* A broken variant: with nothing to flush the database is closed at once *)
MutantClose ==
  /\ ApplicationRuns
  /\ closing = "none"
  /\ closing' = "closed" /\ state' = "closed"
  /\ closedAt' = revision
  /\ listeners' = {} /\ eventQueue' = <<>>
  /\ dropped' = dropped \cup ToSet(eventQueue)
  /\ UNCHANGED <<revision, eventQueueChanges, dispatchScheduled, listenerId, microtasks,
                 delivery, hooks, received, since, audience, overflowed>>

(* close(): performClose runs up to its first await *)
Close ==
  /\ ApplicationRuns
  /\ closing = "none"
  /\ closing' = "flushing"
  /\ state' = "closing"
  /\ closedAt' = revision
  /\ UNCHANGED <<revision, queueVars, listenVars, microtasks, delivery, hooks,
                 received, since, audience, overflowed, dropped>>

(* onEventOverflow returns; what it throws is caught by #enqueue *)
HookEnds ==
  /\ hooks > 0
  /\ hooks' = hooks - 1
  /\ UNCHANGED <<state, closing, revision, queueVars, listenVars, microtasks,
                 delivery, history>>

-----------------------------------------------------------------------------
(* The microtask of #enqueue *)

RunDispatch ==
  /\ StackEmpty
  /\ microtasks # <<>> /\ Head(microtasks) = "dispatch"
  /\ microtasks' = Tail(microtasks)
  /\ dispatching' = TRUE
  /\ UNCHANGED <<state, closing, revision, queueVars, listenVars, current, rest,
                 speaking, hooks, history>>

(* Between two batches: every listener was called with the last one *)
BetweenBatches == dispatching /\ speaking = 0 /\ rest = {}

(* A broken variant: the changes of a batch are counted until it is delivered *)
MutantTakeBatch ==
  /\ BetweenBatches
  /\ eventQueue # <<>>
  /\ current' = Head(eventQueue)
  /\ eventQueue' = Tail(eventQueue)
  /\ rest' = listeners
  /\ audience' = [audience EXCEPT ![Head(eventQueue).revision] = listeners]
  /\ UNCHANGED <<eventQueueChanges, dispatchScheduled>>
  /\ UNCHANGED <<state, closing, revision, listenVars, microtasks, dispatching,
                 speaking, hooks, received, since, overflowed, dropped, closedAt>>

(* The next batch leaves the queue, and the listeners of this moment are noted. *)
TakeBatch ==
  /\ BetweenBatches
  /\ eventQueue # <<>>
  /\ current' = Head(eventQueue)
  /\ eventQueue' = Tail(eventQueue)
  /\ eventQueueChanges' = eventQueueChanges - Head(eventQueue).changes
  /\ rest' = listeners
  /\ audience' = [audience EXCEPT ![Head(eventQueue).revision] = listeners]
  /\ UNCHANGED dispatchScheduled
  /\ UNCHANGED <<state, closing, revision, listenVars, microtasks, dispatching,
                 speaking, hooks, received, since, overflowed, dropped, closedAt>>

(* A broken variant: a listener that was removed meanwhile is passed over *)
MutantCallListener(l) ==
  /\ dispatching /\ speaking = 0
  /\ l \in rest /\ \A m \in rest : l <= m
  /\ rest' = rest \ {l}
  /\ IF l \in listeners
     THEN /\ speaking' = l
          /\ received' = [received EXCEPT ![l] = Append(@, current.revision)]
     ELSE UNCHANGED <<speaking, received>>
  /\ UNCHANGED <<state, closing, revision, queueVars, listenVars, microtasks,
                 dispatching, current, hooks, since, audience, overflowed, dropped,
                 closedAt>>

(* Listeners are called in the order in which they subscribed. *)
CallListener(l) ==
  /\ dispatching /\ speaking = 0
  /\ l \in rest /\ \A m \in rest : l <= m
  /\ speaking' = l
  /\ rest' = rest \ {l}
  /\ received' = [received EXCEPT ![l] = Append(@, current.revision)]
  /\ UNCHANGED <<state, closing, revision, queueVars, listenVars, microtasks,
                 dispatching, current, hooks, since, audience, overflowed, dropped,
                 closedAt>>

(* A broken variant: an exception ends the microtask, whose finally clears *)
(* the flag and leaves the queue as it is.                                 *)
MutantListenerEnds ==
  /\ speaking # 0 /\ hooks = 0
  /\ speaking' = 0 /\ rest' = {} /\ dispatching' = FALSE /\ current' = NoBatch
  /\ dispatchScheduled' = FALSE
  /\ UNCHANGED <<state, closing, revision, eventQueue, eventQueueChanges, listenVars,
                 microtasks, hooks, history>>

(* The listener returns, or throws and #reportListenerError isolates what it *)
(* threw: either way the next listener is called.                            *)
ListenerEnds ==
  /\ speaking # 0 /\ hooks = 0
  /\ speaking' = 0
  /\ UNCHANGED <<state, closing, revision, queueVars, listenVars, microtasks,
                 dispatching, current, rest, hooks, history>>

EndDispatch ==
  /\ BetweenBatches
  /\ eventQueue = <<>>
  /\ dispatching' = FALSE
  /\ dispatchScheduled' = FALSE
  /\ current' = NoBatch
  /\ UNCHANGED <<state, closing, revision, eventQueue, eventQueueChanges, listenVars,
                 microtasks, rest, speaking, hooks, history>>

-----------------------------------------------------------------------------
(* #performClose *)

(* The flush, then the adapter's close, is answered, at once or much later:  *)
(* the continuation of #performClose becomes a microtask.                    *)
FlushSettles ==
  /\ closing = "flushing"
  /\ closing' = "flushed"
  /\ microtasks' = Append(microtasks, "flushed")
  /\ UNCHANGED <<state, revision, queueVars, listenVars, delivery, hooks, history>>

RunFlushed ==
  /\ StackEmpty
  /\ microtasks # <<>> /\ Head(microtasks) = "flushed"
  /\ microtasks' = Tail(microtasks)
  /\ closing' = "releasing"
  /\ UNCHANGED <<state, revision, queueVars, listenVars, delivery, hooks, history>>

ReleaseSettles ==
  /\ closing = "releasing"
  /\ closing' = "released"
  /\ microtasks' = Append(microtasks, "released")
  /\ UNCHANGED <<state, revision, queueVars, listenVars, delivery, hooks, history>>

(* A store that fails, or a full queue, makes a closing or closed database *)
(* degraded again (module Durability), and calls are admitted again.       *)
Degrade ==
  /\ state \in {"closing", "closed"}
  /\ state' = "degraded"
  /\ UNCHANGED <<closing, revision, queueVars, listenVars, microtasks, delivery,
                 hooks, history>>

(* The end of #performClose: listeners and queue are emptied, the count of *)
(* queued changes is not.                                                  *)
FinishClose ==
  /\ StackEmpty
  /\ microtasks # <<>> /\ Head(microtasks) = "released"
  /\ microtasks' = Tail(microtasks)
  /\ listeners' = {}
  /\ eventQueue' = <<>>
  /\ state' = "closed"
  /\ closing' = "closed"
  /\ dropped' = dropped \cup ToSet(eventQueue)
  /\ UNCHANGED <<revision, eventQueueChanges, dispatchScheduled, listenerId,
                 delivery, hooks, received, since, audience, overflowed, closedAt>>

Next ==
  \/ Subscribe
  \/ \E l \in Ids : Unsubscribe(l)
  \/ \E changes \in BatchSizes : Commit(changes)
  \/ Close
  \/ HookEnds
  \/ RunDispatch \/ TakeBatch \/ ListenerEnds \/ EndDispatch
  \/ \E l \in Ids : CallListener(l)
  \/ FlushSettles \/ RunFlushed \/ ReleaseSettles \/ FinishClose
  \/ Degrade

Spec == Init /\ [][Next]_vars

(* The runtime runs its microtasks, and callbacks come to an end. *)
Runtime ==
  \/ RunDispatch \/ TakeBatch \/ ListenerEnds \/ EndDispatch
  \/ \E l \in Ids : CallListener(l)
  \/ HookEnds \/ RunFlushed \/ FinishClose

FairSpec == Spec /\ WF_vars(Runtime)

-----------------------------------------------------------------------------
(* Properties *)

Queued(n) == \E i \in 1 .. Len(eventQueue) : eventQueue[i].revision = n

(* Types; listeners have numbers that were given out. *)
TypeOK ==
  /\ state \in {"open", "degraded", "closing", "closed"}
  /\ closing \in {"none", "flushing", "flushed", "releasing", "released", "closed"}
  /\ revision \in 0 .. MaxCommits
  /\ eventQueue \in Seq(Batch) /\ eventQueueChanges \in Int
  /\ dispatchScheduled \in BOOLEAN /\ dispatching \in BOOLEAN
  /\ listenerId \in 0 .. MaxSubscriptions /\ listeners \subseteq 1 .. listenerId
  /\ microtasks \in Seq({"dispatch", "flushed", "released"})
  /\ current \in Batch \cup {NoBatch} /\ rest \subseteq Ids
  /\ speaking \in Ids \cup {0} /\ hooks \in 0 .. MaxHookDepth
  /\ received \in [Ids -> Seq(Revisions)] /\ since \in [Ids -> 0 .. MaxCommits]
  /\ audience \in [Revisions -> SUBSET Ids]
  /\ overflowed \subseteq Revisions /\ dropped \subseteq Batch
  /\ closedAt \in 0 .. MaxCommits

(* The count of queued changes is what the queued batches hold, however     *)
(* commits, deliveries, listeners and hooks mix, and both limits are kept.  *)
(* Only what close() threw away stays counted for ever.                     *)
QueueWithinLimits ==
  /\ dropped = {} =>
       eventQueueChanges = FoldLeft(LAMBDA sum, batch : sum + batch.changes, 0, eventQueue)
  /\ Len(eventQueue) <= MaxQueuedBatches
  /\ eventQueueChanges <= MaxQueuedChanges

(* Each listener is called with rising revisions, so with none twice and    *)
(* none late, also when listeners and hooks commit in the middle.           *)
(* docs/transactions-and-events.md:9.                                       *)
ReceivedInOrder ==
  \A l \in Ids : \A n \in 2 .. Len(received[l]) : received[l][n - 1] < received[l][n]

(* A subscribed listener misses no commit that followed its subscription:   *)
(* it was called with it, will be, or the overflow hook was.  Where no hook *)
(* is configured the last case is a batch that is dropped unannounced.      *)
NoSilentGap ==
  \A l \in listeners : \A n \in since[l] + 1 .. revision :
    \/ n \in ToSet(received[l])
    \/ n \in overflowed
    \/ Queued(n)
    \/ current # NoBatch /\ current.revision = n /\ l \in rest

(* A batch goes to exactly those who were subscribed when it was taken from *)
(* the queue: the calls of one listener decide nothing for the others.      *)
AudienceServed ==
  \A n \in Revisions :
    (current # NoBatch /\ current.revision = n /\ rest # {})
      \/ {l \in Ids : n \in ToSet(received[l])} = audience[n]

(* A queued batch has a microtask that will take it: the flag never says    *)
(* that one is scheduled when none is.                                      *)
NoStrandedBatch ==
  /\ eventQueue # <<>> => dispatchScheduled
  /\ dispatchScheduled => dispatching \/ "dispatch" \in ToSet(microtasks)

(* close() throws away no batch that was committed before it was called:    *)
(* the microtask of the queue is always ahead of the end of #performClose.  *)
CloseDropsOnlyLate == \A batch \in dropped : batch.revision > closedAt

(* Every queued batch leaves the queue. *)
BatchesLeave == \A n \in Revisions : Queued(n) ~> ~Queued(n)
=============================================================================
