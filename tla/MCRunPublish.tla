----------------------------- MODULE MCRunPublish -----------------------------
(* Bounds for TLC: two databases and one run, or two runs of one database. *)
EXTENDS RunPublish, TLC

Symmetry == Permutations(Databases)
=============================================================================
