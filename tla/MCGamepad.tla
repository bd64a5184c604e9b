------------------------------ MODULE MCGamepad ------------------------------
(* The gamepad with interchangeable pointers. *)
EXTENDS Gamepad, TLC

Symmetry == Permutations(Pointers)
=============================================================================
