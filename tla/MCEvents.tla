------------------------------- MODULE MCEvents -------------------------------
(* Events with commits of one or two changes. *)
EXTENDS Events

Sizes == {1, 2}
=============================================================================
