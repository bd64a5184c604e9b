------------------------------- MODULE MCNetwork -------------------------------
(* Network with the pairing attempts interchangeable. *)
EXTENDS Network, TLC

Symmetry == Permutations(Attempts)
=============================================================================
