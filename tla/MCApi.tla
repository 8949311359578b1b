------------------------------- MODULE MCApi --------------------------------
(* Small instances of Api for TLC. *)
EXTENDS Api, TLC

Symmetry == Permutations(Workers) \cup Permutations(Keys)
=============================================================================
