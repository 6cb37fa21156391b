------------------------- MODULE TransactionHistory -------------------------
(***************************************************************************)
(* Transactions with one history variable: what each open transaction has  *)
(* called and been answered.  It reads the engine's state and never        *)
(* influences it; the properties about answers and the refinement of       *)
(* SerialStore are stated with it.                                         *)
(***************************************************************************)
EXTENDS Transactions

CONSTANT
  MaxScript   \* bound of the model: calls answered within one transaction

ASSUME HistoryAssumption == MaxScript \in Nat

VARIABLE
  script      \* script[t]: the sequence of [call, answer, own], where own says
              \* that the call ran on a working copy

historyVars == <<vars, script>>

Record(t, call, answer) ==
  /\ Len(script[t]) < MaxScript
  /\ script' = [script EXCEPT ![t] =
                  Append(@, [call   |-> call,
                             answer |-> answer,
                             own    |-> working[t][call.coll] # NoCopy])]

Forget(t) == script' = [script EXCEPT ![t] = <<>>]

HistoryInit == Init /\ script = [t \in Txns |-> <<>>]

(* What a call answers: a look from what the transaction sees, a write from *)
(* the working copy it is applied to.                                       *)
Looking(t, call) == LookAnswer(View(t, call.coll), call)
Writing(t, call) == WriteOutcome(Writable(t, call.coll).coll, call).result

HistoryNext ==
  \/ \E t \in Txns :
       \/ \E call \in GetCalls : Get(t, call) /\ Record(t, call, Looking(t, call))
       \/ \E call \in FindCalls : Find(t, call) /\ Record(t, call, Looking(t, call))
       \/ \E call \in WriteCalls : Write(t, call) /\ Record(t, call, Writing(t, call))
       \/ Rollback(t) /\ Forget(t)
       \/ RefuseCommit(t) /\ Forget(t)
       \/ CommitUnchanged(t) /\ Forget(t)
       \/ Publish(t) /\ Forget(t)
       \/ (BeginTransaction(t) \/ ExceedLimit(t) \/ Expire(t)) /\ UNCHANGED script
  \/ ChangeLifecycle /\ UNCHANGED script

HistorySpec == HistoryInit /\ [][HistoryNext]_historyVars

-----------------------------------------------------------------------------
(* Properties *)

(* As long as no touched collection has moved, everything the transaction  *)
(* was told from the shared root is still what the root would answer.      *)
(* Reads are not taken from a snapshot, so this is what makes the revision *)
(* check of _commit sufficient against stale reads, phantoms and skew.     *)
ReadsCurrent ==
  \A t \in Txns : \A n \in 1 .. Len(script[t]) :
    LET step == script[t][n]
        now  == stored[step.call.coll]
    IN  step.call.coll \notin Conflicts(t) /\ ~step.own =>
          /\ step.call.kind = "get"  => step.answer = now.records[step.call.key]
          /\ step.call.kind = "find" =>
               step.answer = FindDocs(now, step.call.condition, step.call.ceiling)

(* The abstract store: documents in order, outcomes and scripts. *)
ScriptOf(t) ==
  [n \in 1 .. Len(script[t]) |->
     [call |-> script[t][n].call, answer |-> script[t][n].answer]]

Serial == INSTANCE SerialStore WITH
            store   <- [c \in Collections |-> DocsOf(stored[c])],
            outcome <- [t \in Txns |-> CASE status[t] = "committed" -> "committed"
                                         [] status[t] = "rolledBack" -> "aborted"
                                         [] OTHER -> "pending"],
            script  <- [t \in Txns |-> ScriptOf(t)]

(* Serializability: every committed transaction, with all the answers it   *)
(* was given, refusals included, is one atomic step of SerialStore.        *)
RefinesSerialStore == Serial!SerialSpec
=============================================================================
