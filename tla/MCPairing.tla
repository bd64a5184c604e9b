------------------------------ MODULE MCPairing ------------------------------
(* Small instances of pairing: interchangeable nonces, clients and sessions. *)
EXTENDS Pairing, TLC

Symmetry == Permutations(Nonces) \cup Permutations(Clients)
              \cup Permutations(Sids) \cup Permutations(Requests)
=============================================================================
