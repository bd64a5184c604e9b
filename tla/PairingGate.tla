------------------------------ MODULE PairingGate ------------------------------
(***************************************************************************)
(* What pairing promises, whatever table, clock and lock implement it: a   *)
(* token is offered once; at most one request takes it; a request is       *)
(* admitted only with a token it took, and takes no other.                 *)
(***************************************************************************)
CONSTANTS Tokens, Requests

VARIABLES
  minted,   \* tokens ever offered
  offered,  \* tokens a request may still take
  taken,    \* pairs of a request and the token it took
  admitted  \* requests that were given a session

gateVars == <<minted, offered, taken, admitted>>

Init ==
  /\ minted = {}
  /\ offered = {}
  /\ taken = {}
  /\ admitted = {}

Offer(n) ==
  /\ n \notin minted
  /\ minted' = minted \cup {n}
  /\ offered' = offered \cup {n}
  /\ UNCHANGED <<taken, admitted>>

\* Tokens expire, or are spoilt by a request that fails.
Withdraw(S) ==
  /\ offered' = offered \ S
  /\ UNCHANGED <<minted, taken, admitted>>

Take(r, n) ==
  /\ n \in offered
  /\ \A m \in Tokens : <<r, m>> \notin taken
  /\ offered' = offered \ {n}
  /\ taken' = taken \cup {<<r, n>>}
  /\ UNCHANGED <<minted, admitted>>

Admit(r) ==
  /\ \E n \in Tokens : <<r, n>> \in taken
  /\ r \notin admitted
  /\ admitted' = admitted \cup {r}
  /\ UNCHANGED <<minted, offered, taken>>

Next ==
  \/ \E n \in Tokens : Offer(n)
  \/ \E S \in SUBSET Tokens : Withdraw(S)
  \/ \E r \in Requests, n \in Tokens : Take(r, n)
  \/ \E r \in Requests : Admit(r)

Spec == Init /\ [][Next]_gateVars

=============================================================================
