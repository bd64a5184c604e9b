------------------------------ MODULE MCContext ------------------------------
(* Small instances of Smart Context. *)
EXTENDS Context, TLC

CONSTANTS game, desk, gamepad, trackpad, tv

\* The game's profile asks for the gamepad, the desktop has no profile.
MCMatch == game :> gamepad @@ desk :> None
=============================================================================
