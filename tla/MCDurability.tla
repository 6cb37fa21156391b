---------------------------- MODULE MCDurability ----------------------------
(* Durability with two interchangeable clients. *)
EXTENDS Durability, TLC

CONSTANTS c1, c2

Symmetry == Permutations(Clients)
=============================================================================
