----------------------------- MODULE NonceManager -----------------------------
(***************************************************************************)
(* The host's pairing nonces: one is drawn for every QR code or pairing    *)
(* link and may be consumed once, within its time to live.  The table is   *)
(* behind one lock, so each operation is a step.                           *)
(***************************************************************************)
EXTENDS Naturals

CONSTANTS
  Nonces,  \* 256-bit random values: none is ever drawn twice
  Ttl      \* time to live, 60 s, in ticks

ASSUME TtlAssumption == Ttl \in Nat

VARIABLES
  issued,  \* nonces drawn so far
  table,   \* nonces in the map
  age      \* per nonce, ticks since it was drawn, saturating past Ttl

nonceVars == <<issued, table, age>>

NonceTypeOK ==
  /\ issued \subseteq Nonces
  /\ table \subseteq issued
  /\ age \in [Nonces -> 0 .. Ttl + 1]

NonceInit ==
  /\ issued = {}
  /\ table = {}
  /\ age = [n \in Nonces |-> 0]

Expired(n) == age[n] > Ttl

\* Nonces that validate_and_consume would accept now.
Redeemable == {n \in table : ~Expired(n)}

\* generate_nonce
Generate(n) ==
  /\ n \notin issued
  /\ issued' = issued \cup {n}
  /\ table' = table \cup {n}
  /\ UNCHANGED age

\* Mutant: validates and does not consume.
ConsumeNothing(n) == UNCHANGED nonceVars

\* validate_and_consume: the entry is gone whether or not it had expired.
Consume(n) ==
  /\ table' = table \ {n}
  /\ UNCHANGED <<issued, age>>

\* cleanup_expired, which only the tests call.
CleanupExpired ==
  /\ table' = Redeemable
  /\ UNCHANGED <<issued, age>>

NonceTick ==
  /\ age' = [n \in Nonces |-> IF n \in issued /\ ~Expired(n) THEN age[n] + 1 ELSE age[n]]
  /\ UNCHANGED <<issued, table>>

NonceNext ==
  \/ \E n \in Nonces : Generate(n) \/ Consume(n)
  \/ CleanupExpired
  \/ NonceTick

NonceSpec == NonceInit /\ [][NonceNext]_nonceVars

=============================================================================
