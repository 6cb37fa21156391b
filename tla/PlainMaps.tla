------------------------------ MODULE PlainMaps ------------------------------
(***************************************************************************)
(* What the maps of a collection promise: the published map is replaced as *)
(* a whole, each open transaction has a copy of its own, and a copy of a   *)
(* map that was replaced since is never published.                         *)
(***************************************************************************)
CONSTANTS Keys, Values, Seeds, Absent, Txns, NoMap

VARIABLES
  published,  \* the map in the root
  private,    \* the copy of each transaction
  stale       \* the transactions whose copy is of a replaced map

vars == <<published, private, stale>>

Init ==
  /\ published \in Seeds
  /\ private = [t \in Txns |-> NoMap]
  /\ stale = {}

Copy(t) ==
  /\ private[t] = NoMap
  /\ private' = [private EXCEPT ![t] = published]
  /\ UNCHANGED <<published, stale>>

Store(t, k, v) ==
  /\ private[t] # NoMap
  /\ private' = [private EXCEPT ![t] = [@ EXCEPT ![k] = v]]
  /\ UNCHANGED <<published, stale>>

Install(t) ==
  /\ private[t] # NoMap
  /\ t \notin stale
  /\ published' = private[t]
  /\ private' = [private EXCEPT ![t] = NoMap]
  /\ stale' = {u \in Txns \ {t} : private[u] # NoMap}

Drop(t) ==
  /\ private[t] # NoMap
  /\ private' = [private EXCEPT ![t] = NoMap]
  /\ stale' = stale \ {t}
  /\ UNCHANGED published

Next ==
  \E t \in Txns :
    \/ Copy(t)
    \/ \E k \in Keys, v \in Values \cup {Absent} : Store(t, k, v)
    \/ Install(t)
    \/ Drop(t)

Spec == Init /\ [][Next]_vars
=============================================================================
