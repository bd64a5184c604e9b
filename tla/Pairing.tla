------------------------------- MODULE Pairing -------------------------------
(***************************************************************************)
(* Pairing end to end: the host shows nonces, phones post pairing requests *)
(* that run concurrently through pair_handler, and slots are allocated,    *)
(* abandoned and reset.  It composes NonceManager and SlotManager; a       *)
(* handler's step is what it does between two awaits, on one lock.         *)
(***************************************************************************)
EXTENDS NonceManager, SlotManager

CONSTANTS
  Requests,   \* POST /api/pair calls, each made once
  NoSession   \* Rust's None in AppState::session

VARIABLES
  request,             \* per request, what it posted and how far it got
  session,             \* the legacy session of slot 0: its session id
  resetting            \* reset_slots_handler is between its two locks


vars == <<issued, table, age, slots, used, request, session, resetting>>

(***************************************************************************)
(* A request that has passed validate_and_consume and the HMAC proof is in *)
(* one of the phases of HoldsNonce: waiting for a slot, refused for want   *)
(* of one, about to store the legacy session, or answered.                 *)
(***************************************************************************)
HoldingPhases == {"allocate", "full", "store", "paired"}
Phases == {"new", "posted", "rejected"} \cup HoldingPhases

RequestRecord ==
  [phase : Phases, client : Clients, nonce : Nonces, proof : BOOLEAN, sid : Sids \cup {NoSession}]

Holds(r) == request[r].phase \in HoldingPhases

\* A session exists: a slot was allocated for it.
Admitted(r) == request[r].phase \in {"store", "paired"}

TypeOK ==
  /\ NonceTypeOK
  /\ SlotTypeOK
  /\ request \in [Requests -> RequestRecord]
  /\ session \in Sids \cup {NoSession}
  /\ resetting \in BOOLEAN

Init ==
  /\ NonceInit
  /\ SlotInit
  /\ request \in [Requests -> {q \in RequestRecord : q.phase = "new" /\ q.sid = NoSession}]
  /\ session = NoSession
  /\ resetting = FALSE

-----------------------------------------------------------------------------

\* GET /api/pair-token and GET /qr, and the QR code in the terminal at start.
ShowNonce(n) ==
  /\ Generate(n)
  /\ UNCHANGED <<slotVars, request, session, resetting>>

Enter(r, phase) == request' = [request EXCEPT ![r].phase = phase]

\* A phone posts a nonce it was shown; it may be anyone's, and stale.
Post(r) ==
  /\ request[r].phase = "new"
  /\ request[r].nonce \in issued
  /\ Enter(r, "posted")
  /\ UNCHANGED <<nonceVars, slotVars, session, resetting>>

\* Mutant: expiry is not checked.
RedeemExpired(r) ==
  /\ request[r].phase = "posted"
  /\ Consume(request[r].nonce)
  /\ Enter(r, IF request[r].nonce \in table /\ request[r].proof
              THEN "allocate" ELSE "rejected")
  /\ UNCHANGED <<slotVars, session, resetting>>

\* pair_handler up to its first await: the nonce is consumed first, then the proof
\* is verified, so a wrong proof spoils the nonce.
Redeem(r) ==
  /\ request[r].phase = "posted"
  /\ Consume(request[r].nonce)
  /\ Enter(r, IF request[r].nonce \in Redeemable /\ request[r].proof
              THEN "allocate" ELSE "rejected")
  /\ UNCHANGED <<slotVars, session, resetting>>

\* Under the slots' lock; slot 0 goes on to store the legacy session.
Allocate(r) ==
  /\ request[r].phase = "allocate"
  /\ \E s \in Slots, sid \in Sids :
       /\ AllocateSlot(request[r].client, s, sid)
       /\ request' = [request EXCEPT ![r].phase = IF s = 0 THEN "store" ELSE "paired",
                                     ![r].sid = sid]
  /\ UNCHANGED <<nonceVars, session, resetting>>

\* 409 Conflict: the nonce is gone all the same.
Refuse(r) ==
  /\ request[r].phase = "allocate"
  /\ RefuseSlot(request[r].client)
  /\ Enter(r, "full")
  /\ UNCHANGED <<nonceVars, session, resetting>>

StoreSession(r) ==
  /\ request[r].phase = "store"
  /\ session' = request[r].sid
  /\ Enter(r, "paired")
  /\ UNCHANGED <<nonceVars, slotVars, resetting>>

\* POST /api/reset-slots: first the slots, then the legacy session.
ResetSlots ==
  /\ ~resetting
  /\ ResetAll
  /\ resetting' = TRUE
  /\ UNCHANGED <<nonceVars, request, session>>

ResetSession ==
  /\ resetting
  /\ session' = NoSession
  /\ resetting' = FALSE
  /\ UNCHANGED <<nonceVars, slotVars, request>>

\* A peer's data channel opens or closes, its packets arrive, its socket ends.
PeerActivity ==
  /\ \/ \E s \in Slots :
          \/ \E state \in {"connected", "closed"} : SetSlotState(s, state)
          \/ FeedSlot(s)
     \/ \E sid \in used : FreeSession(sid)
  /\ UNCHANGED <<nonceVars, request, session, resetting>>

Tick ==
  /\ NonceTick
  /\ SlotTick
  /\ UNCHANGED <<request, session, resetting>>

Handler(r) == Redeem(r) \/ Allocate(r) \/ Refuse(r) \/ StoreSession(r)

Next ==
  \/ Tick
  \/ \E n \in Nonces : ShowNonce(n)
  \/ \E r \in Requests : Post(r) \/ Handler(r)
  \/ ResetSlots
  \/ ResetSession
  \/ PeerActivity

Spec == Init /\ [][Next]_vars

\* No paired phone has connected yet.
UnconnectedSpec == Init /\ [][Next /\ ~PeerActivity]_vars

\* Time goes on.
FairSpec == Spec /\ WF_vars(Tick)

-----------------------------------------------------------------------------
(* Properties *)

\* SECURITY.md: single-use pairing nonce.  No two requests get past the check with
\* the same nonce, however their handlers interleave.
SingleUse ==
  \A r, q \in Requests :
    Holds(r) /\ Holds(q) /\ request[r].nonce = request[q].nonce => r = q

\* Pairing implements the gate: a nonce is on offer while it is redeemable, and
\* taken by the request that holds it.
TakenNonces == {<<r, request[r].nonce>> : r \in {q \in Requests : Holds(q)}}
AdmittedRequests == {r \in Requests : Admitted(r)}

Gate == INSTANCE PairingGate WITH
  Tokens <- Nonces,
  minted <- issued,
  offered <- Redeemable,
  taken <- TakenNonces,
  admitted <- AdmittedRequests

ImplementsGate == Gate!Spec

\* SECURITY.md: a nonce is held in host memory for at most its time to live.
NoncesAreForgotten ==
  \A n \in Nonces : (n \in table /\ Expired(n)) ~> n \notin table

\* AppState::session is the session of slot 0.  Between requests, it names whoever
\* is in slot 0.
SessionIsSlotZeros ==
  (\A r \in Requests : request[r].phase # "store") /\ ~resetting /\ session # NoSession
    => slots[0] # Empty /\ slots[0].sid = session

=============================================================================
