---------------------------- MODULE SerialStore ----------------------------
(***************************************************************************)
(* What the engine promises its transactions, without indexes, positions,  *)
(* revisions or working copies: a collection is the sequence of its        *)
(* documents in insertion order, and a transaction is a script of calls    *)
(* with the answers its client was given.  Until it commits a transaction  *)
(* may have been told anything; it commits only in a step at which running *)
(* its whole script alone, on the store as it is, gives the same answers,  *)
(* and the store becomes what that run leaves.  Hence the committed        *)
(* transactions are serializable, in commit order, whatever interleaves.   *)
(***************************************************************************)
EXTENDS SerialDocs

CONSTANTS
  Txns,     \* transactions
  Seeds     \* what a collection may hold to begin with

VARIABLES
  store,    \* store[c]: the documents of c, a sequence of [key, doc]
  outcome,  \* outcome[t]: pending, committed or aborted
  script    \* script[t]: the calls and answers of t so far

serialVars == <<store, outcome, script>>

-----------------------------------------------------------------------------
SerialInit ==
  /\ store \in [Collections -> Seeds]
  /\ outcome = [t \in Txns |-> "pending"]
  /\ script = [t \in Txns |-> <<>>]

(* One more call, with any answer of its kind *)
Reply(t) ==
  /\ outcome[t] = "pending"
  /\ Len(script'[t]) = Len(script[t]) + 1
  /\ LET last == Last(script'[t])
     IN  /\ last.call \in Calls
         /\ last.answer \in Answers(last.call)
         /\ script' = [script EXCEPT ![t] = Append(@, last)]
  /\ UNCHANGED <<store, outcome>>

Settle(t) ==
  /\ outcome[t] = "pending"
  /\ outcome' = [outcome EXCEPT ![t] = "committed"]
  /\ LET run == RunAlone(store, script[t])
     IN  run.agrees /\ store' = run.store
  /\ script' = [script EXCEPT ![t] = <<>>]

Abort(t) ==
  /\ outcome[t] = "pending"
  /\ outcome' = [outcome EXCEPT ![t] = "aborted"]
  /\ script' = [script EXCEPT ![t] = <<>>]
  /\ UNCHANGED store

SerialNext == \E t \in Txns : Reply(t) \/ Settle(t) \/ Abort(t)

SerialSpec == SerialInit /\ [][SerialNext]_serialVars
=============================================================================
