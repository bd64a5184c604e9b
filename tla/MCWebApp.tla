------------------------------- MODULE MCWebApp -------------------------------
(* The dashboard with interchangeable fingers. *)
EXTENDS WebApp, TLC

Symmetry == Permutations(Fingers)
=============================================================================
