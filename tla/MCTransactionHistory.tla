------------------------ MODULE MCTransactionHistory ------------------------
(* Two collections of plain documents, for the run txn_serial: every way   *)
(* two transactions can read and write across them.  There are no patches: *)
(* an update is a read and an upsert of what it gives.                     *)
EXTENDS TransactionHistory

CONSTANTS c1, c2, k1, d1, d2, t1, t2

MCPatchOf    == [dp \in Docs \X Patches |-> dp[1]]
MCIndexKeyOf == [i \in Indexes |-> [d \in Docs |-> Unindexed]]
MCSeeds      == {<<[key |-> k1, doc |-> d1]>>}
MCConditions == {{d1}}
MCCeilings   == {[candidates |-> 1, results |-> n, sorted |-> 1] : n \in {0, 1}}

Symmetry == Permutations(Txns) \cup Permutations(Collections)
=============================================================================
