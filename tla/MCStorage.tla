------------------------------- MODULE MCStorage -------------------------------
(* Storage with the ids of new layouts interchangeable. *)
EXTENDS Storage, TLC

Symmetry == Permutations(Ids)
=============================================================================
