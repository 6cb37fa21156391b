----------------------------- MODULE MCJsonFile -----------------------------
(* JsonFile with interchangeable processes. *)
EXTENDS JsonFile, TLC

CONSTANTS a, b

Symmetry == Permutations(Processes)

Setting(overlapping, permit, hasty) ==
  [overlapping |-> overlapping, permit |-> permit, hasty |-> hasty]

(* The lock is contended, or an adapter closed in haste, only while nobody *)
(* may recover from the backup.  Without any of the three a process does   *)
(* nothing that one in haste could not do; what the backup holds is asked  *)
(* where it may be used.                                                   *)
SafeSettings ==
  {Setting(FALSE, TRUE, FALSE), Setting(TRUE, FALSE, FALSE), Setting(FALSE, FALSE, TRUE)}

ContendedSettings == {Setting(overlapping, permit, FALSE) : overlapping, permit \in BOOLEAN}

RecoverySettings == {Setting(FALSE, TRUE, FALSE)}
=============================================================================
