----------------------------- MODULE MCOverlayMap -----------------------------
(* OverlayMap over a plain map with one of two keys. *)
EXTENDS OverlayMap, TLC

CONSTANTS k1, k2, v1, v2, t1, t2

OneKey == {[k \in Keys |-> IF k = k1 THEN v1 ELSE Absent]}

Symmetry == Permutations(Txns)
=============================================================================
