---------------------------- MODULE PairingProofs ----------------------------
(***************************************************************************)
(* For any number of nonces, requests, clients, sessions and slots: no two *)
(* requests redeem one nonce, and pairing implements the gate of module    *)
(* PairingGate.                                                            *)
(***************************************************************************)
EXTENDS Pairing, TLAPS

(***************************************************************************)
(* The inductive invariant.  A nonce is redeemed by leaving the table; no  *)
(* nonce re-enters it, because a fresh one was never issued before and     *)
(* every request names an issued one.                                      *)
(***************************************************************************)
Types ==
  /\ NonceTypeOK
  /\ request \in [Requests -> RequestRecord]

NoncesGone ==
  \A r \in Requests :
    /\ request[r].phase # "new" => request[r].nonce \in issued
    /\ Holds(r) => request[r].nonce \notin table

FreshAge == \A n \in Nonces \ issued : age[n] = 0

IInv == Types /\ NoncesGone /\ FreshAge /\ SingleUse

-----------------------------------------------------------------------------

LEMMA InitIInv == Init => IInv
  <1> SUFFICES ASSUME Init PROVE IInv
    OBVIOUS
  <1> USE TtlAssumption DEF Init
  <1>1. \A r \in Requests : request[r] \in RequestRecord /\ request[r].phase = "new"
    OBVIOUS
  <1>2. \A r \in Requests : ~Holds(r)
    BY <1>1 DEF Holds, HoldingPhases
  <1>3. Types
    BY <1>1 DEF Types, NonceTypeOK, NonceInit
  <1>4. NoncesGone /\ SingleUse
    BY <1>1, <1>2 DEF NoncesGone, SingleUse
  <1>5. FreshAge
    BY DEF FreshAge, NonceInit
  <1>. QED
    BY <1>3, <1>4, <1>5 DEF IInv

\* Steps that change no request, and of the nonces only take some out of the table
\* or make issued ones older, keep the invariant.
LEMMA RequestsAloneIInv ==
  ASSUME IInv, UNCHANGED request, UNCHANGED issued, table' \subseteq table,
         age' \in [Nonces -> 0 .. Ttl + 1],
         \A n \in Nonces \ issued : age'[n] = age[n]
  PROVE  IInv'
  <1> USE DEF IInv
  <1>1. Types'
    BY DEF Types, NonceTypeOK
  <1>2. NoncesGone' /\ SingleUse'
    BY DEF NoncesGone, SingleUse, Holds
  <1>3. FreshAge'
    BY DEF FreshAge
  <1>. QED
    BY <1>1, <1>2, <1>3

LEMMA ShowNonceIInv == ASSUME IInv, NEW n \in Nonces, ShowNonce(n) PROVE IInv'
  <1> USE DEF IInv, ShowNonce, Generate, slotVars
  <1>1. Types'
    BY DEF Types, NonceTypeOK
  <1>2. NoncesGone'
    BY DEF NoncesGone, Types, Holds, RequestRecord, HoldingPhases
  <1>3. SingleUse'
    BY DEF SingleUse, Holds
  <1>4. FreshAge'
    BY DEF FreshAge
  <1>. QED
    BY <1>1, <1>2, <1>3, <1>4

\* A request that moves on, keeping what it posted.
LEMMA EnterFacts ==
  ASSUME Types, NEW r \in Requests, NEW phase \in Phases, Enter(r, phase)
  PROVE  /\ request' \in [Requests -> RequestRecord]
         /\ request'[r].phase = phase
         /\ \A q \in Requests :
              /\ q # r => request'[q] = request[q]
              /\ request'[q].nonce = request[q].nonce
              /\ request'[q].sid = request[q].sid
  BY DEF Types, Enter, RequestRecord

LEMMA PostIInv == ASSUME IInv, NEW r \in Requests, Post(r) PROVE IInv'
  <1> USE DEF IInv
  <1>1. /\ "posted" \in Phases /\ Enter(r, "posted")
        /\ UNCHANGED <<issued, table, age>>
    BY DEF Phases, Post, nonceVars
  <1>2. Types' /\ FreshAge'
    BY <1>1, EnterFacts DEF Types, FreshAge, NonceTypeOK
  <1>3. \A q \in Requests : Holds(q)' <=> Holds(q)
    BY <1>1, EnterFacts DEF Holds, HoldingPhases, Post
  <1>4. NoncesGone'
    BY <1>1, <1>3, EnterFacts DEF NoncesGone, Post
  <1>5. SingleUse'
    BY <1>1, <1>3, EnterFacts DEF SingleUse
  <1>. QED
    BY <1>2, <1>4, <1>5

\* The heart of single use: who redeems a nonce finds it in the table, so nobody
\* holds it yet, and takes it out.
LEMMA RedeemIInv == ASSUME IInv, NEW r \in Requests, Redeem(r) PROVE IInv'
  <1> USE DEF IInv
  <1> DEFINE n == request[r].nonce
             phase == IF n \in Redeemable /\ request[r].proof
                      THEN "allocate" ELSE "rejected"
  <1>1. /\ request[r].phase = "posted" /\ phase \in Phases /\ Enter(r, phase)
        /\ table' = table \ {n} /\ UNCHANGED <<issued, age>>
    BY DEF Phases, HoldingPhases, Redeem, Consume
  <1>2. Types' /\ FreshAge'
    BY <1>1, EnterFacts DEF Types, FreshAge, NonceTypeOK
  <1>3. \A q \in Requests \ {r} : Holds(q)' <=> Holds(q)
    BY <1>1, EnterFacts DEF Holds
  <1>4. Holds(r)' => n \in table
    BY <1>1, EnterFacts DEF Holds, HoldingPhases, Redeemable
  <1>5. \A q \in Requests \ {r} : Holds(r)' /\ Holds(q)' => request[q].nonce # n
    BY <1>3, <1>4 DEF NoncesGone
  <1>6. NoncesGone'
    BY <1>1, <1>3, EnterFacts DEF NoncesGone
  <1>7. SingleUse'
    BY <1>1, <1>3, <1>5, EnterFacts DEF SingleUse
  <1>. QED
    BY <1>2, <1>6, <1>7

\* Who is given a slot held its nonce already.
LEMMA AllocateIInv == ASSUME IInv, NEW r \in Requests, Allocate(r) PROVE IInv'
  <1> USE DEF IInv
  <1>1. PICK s \in Slots, sid \in Sids :
          /\ AllocateSlot(request[r].client, s, sid)
          /\ request' = [request EXCEPT ![r].phase = IF s = 0 THEN "store" ELSE "paired",
                                        ![r].sid = sid]
    BY DEF Allocate
  <1>2. UNCHANGED <<issued, table, age>> /\ request[r].phase = "allocate"
    BY DEF Allocate, nonceVars
  <1>3. /\ request' \in [Requests -> RequestRecord]
        /\ request'[r].phase \in {"store", "paired"} /\ request'[r].sid = sid
        /\ \A q \in Requests : /\ q # r => request'[q] = request[q]
                               /\ request'[q].nonce = request[q].nonce
    BY <1>1 DEF Types, RequestRecord, Phases, HoldingPhases
  <1>4. Types' /\ FreshAge'
    BY <1>2, <1>3 DEF Types, FreshAge, NonceTypeOK
  <1>5. \A q \in Requests : Holds(q)' <=> Holds(q)
    BY <1>2, <1>3 DEF Holds, HoldingPhases
  <1>6. NoncesGone' /\ SingleUse'
    BY <1>2, <1>3, <1>5 DEF NoncesGone, SingleUse
  <1>. QED
    BY <1>4, <1>6

\* Being refused or storing the legacy session takes nothing and gives nothing new.
LEMMA LateStepIInv ==
  ASSUME IInv, NEW r \in Requests, Refuse(r) \/ StoreSession(r)
  PROVE  IInv'
  <1> USE DEF IInv
  <1>1. PICK phase \in {"full", "paired"} :
          /\ Enter(r, phase)
          /\ \/ phase = "full" /\ request[r].phase = "allocate"
             \/ phase = "paired" /\ request[r].phase = "store"
    BY DEF Refuse, StoreSession
  <1>2. UNCHANGED <<issued, table, age>>
    BY DEF Refuse, StoreSession, nonceVars
  <1>3. phase \in Phases
    BY DEF Phases, HoldingPhases
  <1>4. \A q \in Requests : Holds(q)' <=> Holds(q)
    BY <1>1, <1>3, EnterFacts DEF Holds, HoldingPhases
  <1>5. Types' /\ FreshAge'
    BY <1>1, <1>2, <1>3, EnterFacts DEF Types, FreshAge, NonceTypeOK
  <1>6. NoncesGone' /\ SingleUse'
    <2>1. request[r].phase # "new"
      BY <1>1
    <2>2. NoncesGone'
      BY <1>1, <1>2, <1>3, <1>4, <2>1, EnterFacts DEF NoncesGone
    <2>. QED
      BY <1>1, <1>2, <1>3, <1>4, <2>2, EnterFacts DEF SingleUse
  <1>. QED
    BY <1>5, <1>6

\* Time makes issued nonces older, and nothing else here.
LEMMA TickFacts ==
  ASSUME Types, NonceTick
  PROVE  /\ age' \in [Nonces -> 0 .. Ttl + 1]
         /\ \A n \in Nonces \ issued : age'[n] = age[n]
         /\ \A n \in Nonces : Expired(n) => Expired(n)'
  BY TtlAssumption DEF Types, NonceTypeOK, NonceTick, Expired

LEMMA OtherStepIInv ==
  ASSUME IInv, Tick \/ ResetSlots \/ ResetSession \/ PeerActivity \/ UNCHANGED vars
  PROVE  IInv'
  <1>1. age \in [Nonces -> 0 .. Ttl + 1]
    BY DEF IInv, Types, NonceTypeOK
  <1>2. CASE Tick
    <2>1. UNCHANGED <<request, issued, table>>
      BY <1>2 DEF Tick, NonceTick, SlotTick
    <2>. QED
      BY <1>2, <2>1, TickFacts, RequestsAloneIInv DEF Tick, IInv
  <1>3. CASE ResetSlots
    BY <1>1, <1>3, RequestsAloneIInv DEF ResetSlots, ResetAll, nonceVars
  <1>4. CASE ResetSession
    BY <1>1, <1>4, RequestsAloneIInv DEF ResetSession, nonceVars, slotVars
  <1>5. CASE PeerActivity
    BY <1>1, <1>5, RequestsAloneIInv
    DEF PeerActivity, SetSlotState, FeedSlot, FreeSession, nonceVars
  <1>6. CASE UNCHANGED vars
    BY <1>1, <1>6, RequestsAloneIInv DEF vars
  <1>. QED
    BY <1>2, <1>3, <1>4, <1>5, <1>6

LEMMA NextIInv == ASSUME IInv, [Next]_vars PROVE IInv'
  <1>1. ASSUME NEW n \in Nonces, ShowNonce(n) PROVE IInv'
    BY <1>1, ShowNonceIInv
  <1>2. ASSUME NEW r \in Requests, Post(r) \/ Handler(r) PROVE IInv'
    BY <1>2, PostIInv, RedeemIInv, AllocateIInv, LateStepIInv DEF Handler
  <1>. QED
    BY <1>1, <1>2, OtherStepIInv DEF Next

LEMMA InductiveInvariant == Spec => []IInv
  BY InitIInv, NextIInv, PTL DEF Spec

\* Single use: no two pairing requests get past the check with the same nonce.
THEOREM NoncesUsedOnce == Spec => []SingleUse
  BY InductiveInvariant, PTL DEF IInv

-----------------------------------------------------------------------------
(* Pairing implements the gate *)

\* While no request changes its standing, what is taken and admitted stays.
LEMMA StandingKept ==
  ASSUME \A q \in Requests : /\ Holds(q)' <=> Holds(q)
                             /\ Admitted(q)' <=> Admitted(q)
                             /\ request'[q].nonce = request[q].nonce
  PROVE  TakenNonces' = TakenNonces /\ AdmittedRequests' = AdmittedRequests
  BY DEF TakenNonces, AdmittedRequests

\* Nonces only leave the offer: the gate withdraws them.
LEMMA WithdrawStep ==
  ASSUME Redeemable' \subseteq Redeemable, UNCHANGED issued,
         TakenNonces' = TakenNonces, AdmittedRequests' = AdmittedRequests,
         Redeemable \subseteq Nonces
  PROVE  Gate!Next
  <1> DEFINE S == Redeemable \ Redeemable'
  <1>1. S \in SUBSET Nonces /\ Redeemable' = Redeemable \ S
    OBVIOUS
  <1>2. Gate!Withdraw(S)
    BY <1>1 DEF Gate!Withdraw
  <1>. QED
    BY <1>1, <1>2 DEF Gate!Next

LEMMA RedeemGate == ASSUME IInv, NEW r \in Requests, Redeem(r) PROVE Gate!Next
  <1> DEFINE n == request[r].nonce
             passes == n \in Redeemable /\ request[r].proof
             phase == IF passes THEN "allocate" ELSE "rejected"
  <1>1. /\ request[r].phase = "posted" /\ phase \in Phases /\ Enter(r, phase)
        /\ table' = table \ {n} /\ UNCHANGED <<issued, age>>
    BY DEF Phases, HoldingPhases, Redeem, Consume
  <1>2. Types
    BY DEF IInv
  <1>3. Redeemable' = Redeemable \ {n}
    BY <1>1 DEF Redeemable, Expired
  <1>4. Redeemable \subseteq Nonces /\ n \in Nonces
    BY <1>2 DEF Types, Redeemable, NonceTypeOK, RequestRecord
  <1>5. \A q \in Requests :
          /\ Admitted(q)' <=> Admitted(q)
          /\ q # r => (Holds(q)' <=> Holds(q))
          /\ request'[q].nonce = request[q].nonce
    BY <1>1, <1>2, EnterFacts DEF Admitted, Holds
  <1>6. ~Holds(r) /\ (Holds(r)' <=> passes)
    BY <1>1, <1>2, EnterFacts DEF Holds, HoldingPhases
  <1>7. AdmittedRequests' = AdmittedRequests
    BY <1>5 DEF AdmittedRequests
  <1>8. CASE passes
    <2>1. TakenNonces' = TakenNonces \cup {<<r, n>>}
      BY <1>5, <1>6, <1>8 DEF TakenNonces
    <2>2. \A m \in Nonces : <<r, m>> \notin TakenNonces
      BY <1>6 DEF TakenNonces
    <2>3. Gate!Take(r, n)
      BY <1>1, <1>3, <1>7, <1>8, <2>1, <2>2 DEF Gate!Take
    <2>. QED
      BY <1>4, <2>3 DEF Gate!Next
  <1>9. CASE ~passes
    BY <1>1, <1>3, <1>4, <1>5, <1>6, <1>7, <1>9, StandingKept, WithdrawStep
  <1>. QED
    BY <1>8, <1>9

LEMMA AllocateGate == ASSUME IInv, NEW r \in Requests, Allocate(r) PROVE Gate!Next
  <1>1. PICK s \in Slots, sid \in Sids :
          request' = [request EXCEPT ![r].phase = IF s = 0 THEN "store" ELSE "paired",
                                     ![r].sid = sid]
    BY DEF Allocate
  <1>2. request[r].phase = "allocate" /\ UNCHANGED <<issued, table, age>>
    BY DEF Allocate, nonceVars
  <1>3. /\ request'[r].phase \in {"store", "paired"}
        /\ \A q \in Requests : /\ q # r => request'[q] = request[q]
                               /\ request'[q].nonce = request[q].nonce
    BY <1>1 DEF IInv, Types, RequestRecord
  <1>4. \A q \in Requests : Holds(q)' <=> Holds(q)
    BY <1>2, <1>3 DEF Holds, HoldingPhases
  <1>5. \A q \in Requests : Admitted(q)' <=> Admitted(q) \/ q = r
    BY <1>3 DEF Admitted
  <1>6. TakenNonces' = TakenNonces
    BY <1>3, <1>4 DEF TakenNonces
  <1>7. AdmittedRequests' = AdmittedRequests \cup {r} /\ r \notin AdmittedRequests
    BY <1>2, <1>5 DEF AdmittedRequests, Admitted
  <1>8. \E n \in Nonces : <<r, n>> \in TakenNonces
    <2>1. Holds(r) /\ request[r].nonce \in Nonces
      BY <1>2 DEF Holds, HoldingPhases, IInv, Types, RequestRecord
    <2>. QED
      BY <2>1 DEF TakenNonces
  <1>9. Redeemable' = Redeemable
    BY <1>2 DEF Redeemable, Expired
  <1>10. Gate!Admit(r)
    BY <1>2, <1>6, <1>7, <1>8, <1>9 DEF Gate!Admit
  <1>. QED
    BY <1>10 DEF Gate!Next

LEMMA ShowNonceGate == ASSUME IInv, NEW n \in Nonces, ShowNonce(n) PROVE Gate!Next
  <1>1. /\ n \notin issued /\ issued' = issued \cup {n} /\ table' = table \cup {n}
        /\ UNCHANGED <<age, request>>
    BY DEF ShowNonce, Generate
  <1>2. ~Expired(n)
    BY <1>1, TtlAssumption DEF IInv, FreshAge, Expired
  <1>3. Redeemable' = Redeemable \cup {n}
    BY <1>1, <1>2 DEF Redeemable, Expired
  <1>4. TakenNonces' = TakenNonces /\ AdmittedRequests' = AdmittedRequests
    BY <1>1, StandingKept DEF Holds, Admitted
  <1>5. Gate!Offer(n)
    BY <1>1, <1>3, <1>4 DEF Gate!Offer
  <1>. QED
    BY <1>5 DEF Gate!Next

\* The remaining steps leave every request's standing alone; only time takes nonces
\* off the offer.
LEMMA QuietGate ==
  ASSUME IInv, UNCHANGED <<issued, table>>,
         \A q \in Requests : /\ Holds(q)' <=> Holds(q)
                             /\ Admitted(q)' <=> Admitted(q)
                             /\ request'[q].nonce = request[q].nonce,
         UNCHANGED age \/ NonceTick
  PROVE  Gate!Next
  <1>1. Redeemable \subseteq Nonces /\ table \subseteq Nonces
    BY DEF IInv, Types, NonceTypeOK, Redeemable
  <1>2. Redeemable' \subseteq Redeemable
    <2>1. CASE UNCHANGED age
      BY <2>1 DEF Redeemable, Expired
    <2>2. CASE NonceTick
      BY <1>1, <2>2, TickFacts DEF Redeemable, IInv
    <2>. QED
      BY <2>1, <2>2
  <1>. QED
    BY <1>1, <1>2, StandingKept, WithdrawStep

LEMMA NextGate == ASSUME IInv, [Next]_vars PROVE [Gate!Next]_(Gate!gateVars)
  <1>1. ASSUME UNCHANGED <<issued, table, request>>, UNCHANGED age \/ NonceTick
        PROVE  Gate!Next
    BY <1>1, QuietGate DEF Holds, Admitted
  <1>2. ASSUME NEW r \in Requests, NEW phase \in {"posted", "full", "paired"}, Enter(r, phase),
               \/ phase = "posted" /\ request[r].phase = "new"
               \/ phase = "full" /\ request[r].phase = "allocate"
               \/ phase = "paired" /\ request[r].phase = "store",
               UNCHANGED <<issued, table, age>>
        PROVE  Gate!Next
    <2>1. phase \in Phases /\ Types
      BY DEF Phases, HoldingPhases, IInv
    <2>. QED
      BY <1>2, <2>1, EnterFacts, QuietGate DEF Holds, Admitted, HoldingPhases
  <1>3. ASSUME NEW r \in Requests, Post(r) \/ Refuse(r) \/ StoreSession(r) PROVE Gate!Next
    BY <1>2, <1>3 DEF Post, Refuse, StoreSession, nonceVars
  <1>4. CASE Tick
    BY <1>1, <1>4 DEF Tick, NonceTick
  <1>5. CASE ResetSlots \/ ResetSession \/ PeerActivity \/ UNCHANGED vars
    BY <1>1, <1>5 DEF ResetSlots, ResetSession, PeerActivity, vars, nonceVars
  <1>. QED
    BY <1>3, <1>4, <1>5, RedeemGate, AllocateGate, ShowNonceGate DEF Next, Handler

LEMMA InitGate == Init => Gate!Init
  <1> SUFFICES ASSUME Init PROVE Gate!Init
    OBVIOUS
  <1>1. \A r \in Requests : ~Holds(r) /\ ~Admitted(r)
    BY DEF Init, Holds, HoldingPhases, Admitted
  <1>2. issued = {} /\ Redeemable = {}
    BY DEF Init, NonceInit, Redeemable
  <1>. QED
    BY <1>1, <1>2 DEF Gate!Init, TakenNonces, AdmittedRequests

\* Pairing implements the gate: whatever the handlers, the clock, the slots and the
\* resets do, tokens are offered once, taken once, and admit only their taker.
THEOREM PairingIsAGate == Spec => ImplementsGate
  <1>1. Init => Gate!Init
    BY InitGate
  <1>2. IInv /\ [Next]_vars => [Gate!Next]_(Gate!gateVars)
    BY NextGate
  <1>. QED
    BY <1>1, <1>2, InductiveInvariant, PTL DEF Spec, ImplementsGate, Gate!Spec

-----------------------------------------------------------------------------
(* The slots *)

LEMMA StepOfSlots == ASSUME IInv, used \subseteq Sids, [Next]_vars PROVE [SlotNext]_slotVars
  <1> USE DEF SlotNext
  <1>1. CASE Tick \/ ResetSlots
    BY <1>1 DEF Tick, ResetSlots
  <1>2. CASE PeerActivity
    BY <1>2 DEF PeerActivity
  <1>3. ASSUME NEW r \in Requests, Allocate(r) \/ Refuse(r) PROVE [SlotNext]_slotVars
    <2>1. request[r].client \in Clients
      BY DEF IInv, Types, RequestRecord
    <2>. QED
      BY <1>3, <2>1 DEF Allocate, Refuse
  <1>4. ASSUME NEW r \in Requests, Post(r) \/ Redeem(r) \/ StoreSession(r)
        PROVE  UNCHANGED slotVars
    BY <1>4 DEF Post, Redeem, StoreSession
  <1>5. CASE ResetSession \/ \E n \in Nonces : ShowNonce(n)
    BY <1>5 DEF ResetSession, ShowNonce
  <1>6. CASE UNCHANGED vars
    BY <1>6 DEF vars, slotVars
  <1>. QED
    BY <1>1, <1>2, <1>3, <1>4, <1>5, <1>6 DEF Next, Handler

LEMMA UsedAreSids == ASSUME used \subseteq Sids, [SlotNext]_slotVars PROVE used' \subseteq Sids
  BY DEF SlotNext, SlotTick, ResetAll, AllocateSlot, ReuseSlot, TakeSlot, RefuseSlot, SetSlotState,
         FeedSlot, FreeSession, slotVars

\* Pairing uses the slots as SlotManager's specification says, so what is proved of
\* that holds in it: no client and no session is in two slots.
THEOREM PairingImplementsSlots == Spec => SlotSpec
  <1>1. Init => SlotInit /\ used \subseteq Sids
    BY DEF Init, SlotInit
  <1>2. IInv /\ used \subseteq Sids /\ [Next]_vars => [SlotNext]_slotVars /\ (used \subseteq Sids)'
    BY StepOfSlots, UsedAreSids
  <1>. QED
    BY <1>1, <1>2, InductiveInvariant, PTL DEF Spec, SlotSpec

=============================================================================
