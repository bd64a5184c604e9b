--------------------------- MODULE SignalingProofs ---------------------------
(***************************************************************************)
(* For any number of slots, clients and session ids: the slots' types, no  *)
(* client or session in two slots, and what no operation may do to a slot. *)
(* For any number of sockets as well: a socket's slot is its session's for *)
(* as long as the session has one, and what SlotManager promises holds for *)
(* the daemon's use of it, because every step is one of its operations or  *)
(* leaves the slots alone.                                                 *)
(***************************************************************************)
EXTENDS Signaling, TLAPS

-----------------------------------------------------------------------------
(* The slots, whoever uses them *)

\* A session in a slot was handed out before: a fresh id collides with none.
HeldSidsUsed == \A s \in Slots : Occupied(s) => slots[s].sid \in used

IInv == SlotTypeOK /\ HeldSidsUsed /\ DistinctOccupants

\* Emptying slots and updating the occupants in place, keeping client and session,
\* keeps the invariant.
LEMMA InPlaceIInv ==
  ASSUME IInv, slots' \in [Slots -> PeerSlot \cup {Empty}], used' = used,
         \A s \in Slots : slots'[s] # Empty =>
           Occupied(s) /\ slots'[s].client = slots[s].client /\ slots'[s].sid = slots[s].sid
  PROVE  IInv'
  <1>1. SlotTypeOK'
    BY DEF IInv, SlotTypeOK
  <1>2. HeldSidsUsed' /\ DistinctOccupants'
    BY DEF IInv, HeldSidsUsed, DistinctOccupants, Occupied
  <1>. QED
    BY <1>1, <1>2 DEF IInv

\* What a slot holds after reclaiming is what it held, or nothing.
LEMMA ReclaimedType ==
  ASSUME SlotTypeOK
  PROVE  /\ Reclaimed \in [Slots -> PeerSlot \cup {Empty}]
         /\ \A s \in Slots : Reclaimed[s] # Empty => Occupied(s) /\ Reclaimed[s] = slots[s]
  BY DEF SlotTypeOK, Reclaimed, Occupied

LEMMA NewSlotType ==
  ASSUME NEW client \in Clients, NEW sid \in Sids
  PROVE  /\ NewSlot(client, sid) \in PeerSlot
         /\ NewSlot(client, sid) # Empty
         /\ NewSlot(client, sid).client = client
         /\ NewSlot(client, sid).sid = sid
         /\ NewSlot(client, sid).state = "pairing"
  BY LimitsAssumption, EmptyAssumption DEF NewSlot, PeerSlot, SlotStates

\* Giving a slot to a client that is in no other slot, with a fresh session.
LEMMA PlaceIInv ==
  ASSUME IInv, NEW client \in Clients, NEW sid \in Sids \ used, NEW s \in Slots, NEW old,
         old \in [Slots -> PeerSlot \cup {Empty}],
         \A u \in Slots : old[u] # Empty => Occupied(u) /\ old[u] = slots[u],
         \A u \in Slots \ {s} : Occupied(u) => slots[u].client # client,
         slots' = [old EXCEPT ![s] = NewSlot(client, sid)],
         used' = used \cup {sid}
  PROVE  IInv'
  <1>1. SlotTypeOK'
    BY NewSlotType DEF IInv, SlotTypeOK
  <1>2. slots'[s] = NewSlot(client, sid) /\ \A u \in Slots \ {s} : slots'[u] = old[u]
    OBVIOUS
  <1>3. \A u \in Slots \ {s} : slots'[u] # Empty =>
          /\ Occupied(u) /\ slots'[u] = slots[u]
          /\ slots[u].sid \in used /\ slots[u].client # client
    BY <1>2 DEF IInv, HeldSidsUsed
  <1>4. HeldSidsUsed'
    BY <1>2, <1>3, NewSlotType DEF HeldSidsUsed, Occupied
  <1>5. DistinctOccupants'
    BY <1>2, <1>3, NewSlotType DEF IInv, DistinctOccupants, Occupied
  <1>. QED
    BY <1>1, <1>4, <1>5 DEF IInv

LEMMA AllocateIInv ==
  ASSUME IInv, NEW client \in Clients, NEW s \in Slots, NEW sid \in Sids,
         AllocateSlot(client, s, sid)
  PROVE  IInv'
  <1>1. CASE ReuseSlot(client, s, sid)
    <2>1. Occupied(s) /\ slots[s].client = client
      BY <1>1 DEF ReuseSlot, IsLowest, SlotsOf
    <2>2. \A u \in Slots \ {s} : Occupied(u) => slots[u].client # client
      BY <2>1 DEF IInv, DistinctOccupants
    <2>3. slots \in [Slots -> PeerSlot \cup {Empty}]
      BY DEF IInv, SlotTypeOK
    <2>. QED
      BY <1>1, <2>2, <2>3, PlaceIInv DEF ReuseSlot, Occupied
  <1>2. CASE TakeSlot(client, s, sid)
    <2>1. \A u \in Slots \ {s} : Occupied(u) => slots[u].client # client
      BY <1>2 DEF TakeSlot, SlotsOf
    <2>. QED
      BY <1>2, <2>1, ReclaimedType, PlaceIInv DEF TakeSlot, IInv
  <1>. QED
    BY <1>1, <1>2 DEF AllocateSlot

\* Every other operation leaves the occupants in place or removes them.
LEMMA SetSlotStateIInv ==
  ASSUME IInv, NEW s \in Slots, NEW state \in SlotStates, SetSlotState(s, state)
  PROVE  IInv'
  <1> USE DEF SetSlotState, IInv, SlotTypeOK, Occupied
  <1>1. CASE Occupied(s)
    <2>1. [slots[s] EXCEPT !.state = state] \in PeerSlot
      BY <1>1 DEF PeerSlot
    <2>2. slots' = [slots EXCEPT ![s] = [slots[s] EXCEPT !.state = state]]
      BY <1>1
    <2>3. /\ [slots[s] EXCEPT !.state = state].client = slots[s].client
          /\ [slots[s] EXCEPT !.state = state].sid = slots[s].sid
      BY <1>1 DEF PeerSlot
    <2>. QED
      BY <1>1, <2>1, <2>2, <2>3, InPlaceIInv
  <1>2. CASE ~Occupied(s)
    BY <1>2, InPlaceIInv
  <1>. QED
    BY <1>1, <1>2

LEMMA FeedSlotIInv == ASSUME IInv, NEW s \in Slots, FeedSlot(s) PROVE IInv'
  <1> USE DEF FeedSlot, IInv, SlotTypeOK, Occupied
  <1>1. CASE Occupied(s)
    <2>1. [slots[s] EXCEPT !.silence = 0] \in PeerSlot
      BY <1>1, LimitsAssumption DEF PeerSlot
    <2>2. slots' = [slots EXCEPT ![s] = [slots[s] EXCEPT !.silence = 0]]
      BY <1>1
    <2>3. /\ [slots[s] EXCEPT !.silence = 0].client = slots[s].client
          /\ [slots[s] EXCEPT !.silence = 0].sid = slots[s].sid
      BY <1>1 DEF PeerSlot
    <2>. QED
      BY <1>1, <2>1, <2>2, <2>3, InPlaceIInv
  <1>2. CASE ~Occupied(s)
    BY <1>2, InPlaceIInv
  <1>. QED
    BY <1>1, <1>2

\* A peer that has grown older: same client, same session, same state.
LEMMA OlderType ==
  ASSUME NEW p \in PeerSlot
  PROVE  LET q == [p EXCEPT !.age = Older(@, PairingLimit), !.silence = Older(@, IdleLimit)]
         IN q \in PeerSlot /\ q.client = p.client /\ q.sid = p.sid /\ q.state = p.state
  <1>1. ASSUME NEW limit \in Nat, NEW a \in 0 .. limit + 1
        PROVE  Older(a, limit) \in 0 .. limit + 1
    BY <1>1 DEF Older
  <1>2. Older(p.age, PairingLimit) \in 0 .. PairingLimit + 1
    BY <1>1, LimitsAssumption DEF PeerSlot
  <1>3. Older(p.silence, IdleLimit) \in 0 .. IdleLimit + 1
    BY <1>1, LimitsAssumption DEF PeerSlot
  <1>. QED
    BY <1>2, <1>3 DEF PeerSlot

LEMMA TickIInv == ASSUME IInv, SlotTick PROVE IInv'
  <1> USE DEF IInv, SlotTypeOK, Occupied
  <1>1. ASSUME NEW s \in Slots, Occupied(s)
        PROVE  /\ slots'[s] \in PeerSlot
               /\ slots'[s].client = slots[s].client /\ slots'[s].sid = slots[s].sid
    <2>1. slots[s] \in PeerSlot
      BY <1>1
    <2>2. slots'[s] = [slots[s] EXCEPT !.age = Older(@, PairingLimit),
                                       !.silence = Older(@, IdleLimit)]
      BY <1>1 DEF SlotTick
    <2>. QED
      BY <2>1, <2>2, OlderType
  <1>2. ASSUME NEW s \in Slots, ~Occupied(s) PROVE slots'[s] = Empty
    BY <1>2 DEF SlotTick
  <1>3. slots' = [s \in Slots |-> slots'[s]]
    BY DEF SlotTick
  <1>. QED
    BY <1>1, <1>2, <1>3, InPlaceIInv DEF SlotTick

LEMMA ResetAllIInv == ASSUME IInv, ResetAll PROVE IInv'
  BY InPlaceIInv DEF ResetAll

LEMMA FreeSessionIInv == ASSUME IInv, NEW sid, FreeSession(sid) PROVE IInv'
  BY InPlaceIInv DEF FreeSession, IInv, SlotTypeOK, Occupied

-----------------------------------------------------------------------------

LEMMA InitIInv == SlotInit => IInv
  BY DEF SlotInit, IInv, SlotTypeOK, HeldSidsUsed, DistinctOccupants, Occupied

LEMMA NextIInv == ASSUME IInv, [SlotNext]_slotVars PROVE IInv'
  <1>1. ASSUME NEW client \in Clients, NEW s \in Slots, NEW sid \in Sids,
               AllocateSlot(client, s, sid)
        PROVE  IInv'
    BY <1>1, AllocateIInv
  <1>2. ASSUME NEW client \in Clients, RefuseSlot(client) PROVE IInv'
    BY <1>2, InPlaceIInv DEF RefuseSlot, slotVars, IInv, SlotTypeOK, Occupied
  <1>3. CASE UNCHANGED slotVars
    BY <1>3, InPlaceIInv DEF slotVars, IInv, SlotTypeOK, Occupied
  <1>4. ASSUME NEW s \in Slots, NEW state \in {"connected", "closed"}, SetSlotState(s, state)
        PROVE  IInv'
    BY <1>4, SetSlotStateIInv DEF SlotStates
  <1>. QED
    BY <1>1, <1>2, <1>3, <1>4, FeedSlotIInv, TickIInv, ResetAllIInv, FreeSessionIInv DEF SlotNext

LEMMA InductiveInvariant == SlotSpec => []IInv
  BY InitIInv, NextIInv, PTL DEF SlotSpec

\* No client and no session is ever in two slots: the lookups by key and by session
\* id have at most one answer.
THEOREM OccupantsDistinct == SlotSpec => []DistinctOccupants
  BY InductiveInvariant, PTL DEF IInv

-----------------------------------------------------------------------------
(* What a step may do to a slot, the bodies of LivePeerKept and SessionStaysPut *)

Kept(s) ==
  (Occupied(s) /\ slots[s].state = "connected" /\ slots[s].silence <= IdleLimit
     /\ slots'[s] # Empty)
    => slots'[s].client = slots[s].client

Put(s) ==
  (slots'[s] # Empty /\ slots'[s].sid \in used)
    => Occupied(s) /\ slots[s].sid = slots'[s].sid

\* No operation gives the slot of a live peer to another client.
LEMMA LiveKeptStep == ASSUME IInv, SlotNext, NEW s \in Slots PROVE Kept(s)
  <1> USE DEF Kept
  <1>1. ASSUME NEW client \in Clients, NEW u \in Slots, NEW sid \in Sids,
               ReuseSlot(client, u, sid)
        PROVE  Kept(s)
    BY <1>1, NewSlotType DEF ReuseSlot, IsLowest, SlotsOf, IInv, SlotTypeOK
  <1>2. ASSUME NEW client \in Clients, NEW u \in Slots, NEW sid \in Sids,
               TakeSlot(client, u, sid), Occupied(s), slots[s].state = "connected",
               slots[s].silence <= IdleLimit
        PROVE  slots'[s].client = slots[s].client
    <2>1. slots[s] \in PeerSlot /\ slots[s].silence \in Nat
      BY <1>2, LimitsAssumption DEF IInv, SlotTypeOK, PeerSlot, Occupied
    <2>2. ~Abandoned(slots[s])
      BY <1>2, <2>1, LimitsAssumption DEF Abandoned
    <2>3. Reclaimed[s] = slots[s] /\ u # s
      BY <1>2, <2>2 DEF Reclaimed, TakeSlot, IsLowest, Occupied
    <2>. QED
      BY <1>2, <2>3, ReclaimedType DEF TakeSlot, IInv
  <1>3. ASSUME NEW client \in Clients, RefuseSlot(client) PROVE Kept(s)
    BY <1>3 DEF RefuseSlot, slotVars
  <1>4. CASE SlotTick
    BY <1>4, OlderType DEF SlotTick, IInv, SlotTypeOK, Occupied
  <1>5. CASE ResetAll
    BY <1>5 DEF ResetAll
  <1>6. ASSUME NEW u \in Slots, NEW state, SetSlotState(u, state) PROVE Kept(s)
    BY <1>6 DEF SetSlotState, IInv, SlotTypeOK, PeerSlot, Occupied
  <1>7. ASSUME NEW u \in Slots, FeedSlot(u) PROVE Kept(s)
    BY <1>7 DEF FeedSlot, IInv, SlotTypeOK, PeerSlot, Occupied
  <1>8. ASSUME NEW sid, FreeSession(sid) PROVE Kept(s)
    BY <1>8 DEF FreeSession, IInv, SlotTypeOK
  <1>. QED
    BY <1>1, <1>2, <1>3, <1>4, <1>5, <1>6, <1>7, <1>8 DEF SlotNext, AllocateSlot

\* A connected peer that is heard of in time loses its slot to no other client.
THEOREM LivePeersKept == SlotSpec => LivePeerKept
  <1>1. IInv /\ [SlotNext]_slotVars => [\A s \in Slots : Kept(s)]_slotVars
    BY LiveKeptStep
  <1>. QED
    BY <1>1, InductiveInvariant, PTL DEF SlotSpec, LivePeerKept, Kept

\* No operation puts a session that was handed out before into a slot anew.
LEMMA StaysPutStep == ASSUME IInv, SlotNext, NEW s \in Slots PROVE Put(s)
  <1> USE DEF Put
  <1>1. ASSUME NEW client \in Clients, NEW u \in Slots, NEW sid \in Sids,
               ReuseSlot(client, u, sid)
        PROVE  Put(s)
    BY <1>1, NewSlotType DEF ReuseSlot, Occupied, IInv, SlotTypeOK
  <1>2. ASSUME NEW client \in Clients, NEW u \in Slots, NEW sid \in Sids,
               TakeSlot(client, u, sid)
        PROVE  Put(s)
    BY <1>2, NewSlotType, ReclaimedType DEF TakeSlot, IInv
  <1>3. ASSUME NEW client \in Clients, RefuseSlot(client) PROVE Put(s)
    BY <1>3 DEF RefuseSlot, slotVars, Occupied
  <1>4. CASE SlotTick
    BY <1>4, OlderType DEF SlotTick, IInv, SlotTypeOK, Occupied
  <1>5. CASE ResetAll
    BY <1>5 DEF ResetAll
  <1>6. ASSUME NEW u \in Slots, NEW state, SetSlotState(u, state) PROVE Put(s)
    BY <1>6 DEF SetSlotState, IInv, SlotTypeOK, PeerSlot, Occupied
  <1>7. ASSUME NEW u \in Slots, FeedSlot(u) PROVE Put(s)
    BY <1>7 DEF FeedSlot, IInv, SlotTypeOK, PeerSlot, Occupied
  <1>8. ASSUME NEW sid, FreeSession(sid) PROVE Put(s)
    BY <1>8 DEF FreeSession, IInv, SlotTypeOK, Occupied
  <1>. QED
    BY <1>1, <1>2, <1>3, <1>4, <1>5, <1>6, <1>7, <1>8 DEF SlotNext, AllocateSlot

\* A session id never moves to another slot and never returns to one it left.
THEOREM SessionsStayPut == SlotSpec => SessionStaysPut
  <1>1. IInv /\ [SlotNext]_slotVars => [\A s \in Slots : Put(s)]_slotVars
    BY StaysPutStep
  <1>. QED
    BY <1>1, InductiveInvariant, PTL DEF SlotSpec, SessionStaysPut, Put

-----------------------------------------------------------------------------
(* The sockets *)

\* Session ids that clients or sockets know were handed out before, so no slot
\* takes one of them anew.
KnownSidsUsed ==
  /\ \A c \in Clients : grant[c] # None => grant[c].sid \in used
  /\ \A k \in Sockets : ~In(k, "new") => socket[k].sid \in used

SocketIInv == TypeOK /\ IInv /\ KnownSidsUsed /\ BoundToOwnSlot

-----------------------------------------------------------------------------
(* The slots *)

\* Handed out session ids are never forgotten.
LEMMA UsedGrows == ASSUME [SlotNext]_slotVars PROVE used \subseteq used'
  BY DEF SlotNext, slotVars, SlotTick, ResetAll, AllocateSlot, ReuseSlot, TakeSlot, RefuseSlot,
         SetSlotState, FeedSlot, FreeSession

\* A slot that has a known session after a step had it before.
LEMMA HeldBefore ==
  ASSUME IInv, [SlotNext]_slotVars, NEW s \in Slots, NEW sid \in used, Holds(s, sid)'
  PROVE  Holds(s, sid)
  <1>1. CASE SlotNext
    BY <1>1, StaysPutStep DEF Put, Holds, Occupied
  <1>2. CASE UNCHANGED slotVars
    BY <1>2 DEF slotVars, Holds, Occupied
  <1>. QED
    BY <1>1, <1>2

\* Every step of the daemon is an operation of SlotManager or leaves the slots alone.
LEMMA StepOfSlots == ASSUME TypeOK, KnownSidsUsed, [Next]_vars PROVE [SlotNext]_slotVars
  <1> USE DEF SlotNext
  <1>1. \A k \in Sockets : socket[k].slot \in Slots
    BY DEF TypeOK, SocketRecord
  <1>2. ASSUME NEW c \in Clients, Pair(c) \/ PairRefused(c) PROVE [SlotNext]_slotVars
    BY <1>2 DEF Pair, PairRefused
  <1>3. CASE Tick \/ ResetSlots
    BY <1>3 DEF Tick, ResetSlots
  <1>4. ASSUME NEW k \in Sockets, SocketFrame(k) \/ ChannelFrame(k) PROVE [SlotNext]_slotVars
    BY <1>1, <1>4 DEF SocketFrame, ChannelFrame
  <1>5. ASSUME NEW k \in Sockets, ChannelOpens(k) \/ ChannelCloses(k) PROVE [SlotNext]_slotVars
    BY <1>1, <1>5 DEF ChannelOpens, ChannelCloses
  <1>6. ASSUME NEW k \in Sockets, ReleaseSession(k) PROVE [SlotNext]_slotVars
    <2>1. socket[k].sid \in Sids
      BY <1>6 DEF ReleaseSession, In, KnownSidsUsed, TypeOK, SlotTypeOK
    <2>. QED
      BY <1>6, <2>1 DEF ReleaseSession
  <1>7. ASSUME NEW k \in Sockets,
               \/ \E c \in Clients : Connect(k, c)
               \/ ListPc(k) \/ PcFails(k) \/ SocketEnds(k) \/ UnlistPc(k) \/ Neutralize(k)
        PROVE  UNCHANGED slotVars
    BY <1>7 DEF Connect, ListPc, PcFails, SocketEnds, UnlistPc, Neutralize
  <1>8. CASE UNCHANGED vars
    BY <1>8 DEF vars, slotVars
  <1>. QED
    BY <1>2, <1>3, <1>4, <1>5, <1>6, <1>7, <1>8 DEF Next, Cleanup

-----------------------------------------------------------------------------
(* The inductive invariant *)

LEMMA InitSocketIInv == Init => SocketIInv /\ SlotInit
  <1> SUFFICES ASSUME Init PROVE SocketIInv
    BY DEF Init
  <1>1. IInv
    BY InitIInv DEF Init
  <1>2. 0 \in Slots
    BY SlotsAssumption DEF Slots
  <1>3. TypeOK
    BY <1>1, <1>2 DEF Init, TypeOK, IInv, SocketRecord, Phases
  <1>. QED
    BY <1>1, <1>3 DEF Init, SocketIInv, KnownSidsUsed, BoundToOwnSlot, In

\* A step that opens no socket keeps what is said of sockets.
LEMMA SocketsKept ==
  ASSUME SocketIInv, [SlotNext]_slotVars, TypeOK',
         \A c \in Clients : grant'[c] # None => grant'[c] = grant[c] \/ grant'[c].sid \in used',
         \A k \in Sockets : ~In(k, "new")' =>
           /\ ~In(k, "new")
           /\ socket'[k].sid = socket[k].sid
           /\ socket'[k].slot = socket[k].slot
  PROVE  SocketIInv'
  <1>1. IInv'
    BY NextIInv DEF SocketIInv
  <1>2. used \subseteq used'
    BY UsedGrows
  <1>3. KnownSidsUsed'
    BY <1>2 DEF SocketIInv, KnownSidsUsed
  <1>4. ASSUME NEW k \in Sockets, NEW s \in Slots, ~In(k, "new")', Holds(s, socket[k].sid)'
        PROVE  Holds(s, socket[k].sid)
    BY <1>4, HeldBefore DEF SocketIInv, KnownSidsUsed
  <1>5. BoundToOwnSlot'
    BY <1>4 DEF SocketIInv, BoundToOwnSlot, Holds, Occupied
  <1>. QED
    BY <1>1, <1>3, <1>5 DEF SocketIInv

\* A phone pairs: what it is told is a session just handed out.
LEMMA PairIInv == ASSUME SocketIInv, NEW c \in Clients, Pair(c) PROVE SocketIInv'
  <1>1. PICK s \in Slots, sid \in Sids :
          /\ AllocateSlot(c, s, sid)
          /\ grant' = [grant EXCEPT ![c] = [sid |-> sid, slot |-> s]]
    BY DEF Pair
  <1>2. [SlotNext]_slotVars
    BY StepOfSlots DEF SocketIInv, Next
  <1>3. sid \in used'
    BY <1>1 DEF AllocateSlot, ReuseSlot, TakeSlot
  <1>4. UNCHANGED <<socket, pcs, channel>>
    BY DEF Pair
  <1>5. TypeOK'
    BY <1>1, <1>2, <1>4, NextIInv DEF SocketIInv, IInv, TypeOK
  <1>6. \A d \in Clients : grant'[d] # None => grant'[d] = grant[d] \/ grant'[d].sid \in used'
    BY <1>1, <1>3 DEF SocketIInv, TypeOK
  <1>. QED
    BY <1>2, <1>4, <1>5, <1>6, SocketsKept DEF In

\* A socket opens: its session has the slot it resolves to, or none at all.
LEMMA ConnectIInv ==
  ASSUME SocketIInv, NEW k \in Sockets, NEW c \in Clients, Connect(k, c)
  PROVE  SocketIInv'
  <1> DEFINE sid == grant[c].sid
             slot == SlotFor(sid)
  <1>1. grant[c] # None /\ sid \in used /\ sid \in Sids
    BY DEF Connect, SocketIInv, KnownSidsUsed, TypeOK
  <1>2. slot \in Slots /\ \A s \in Slots : Holds(s, sid) => s = slot
    <2>1. 0 \in Slots
      BY SlotsAssumption DEF Slots
    <2>. QED
      BY <2>1 DEF SlotFor, Holds, SocketIInv, IInv, DistinctOccupants
  <1>3. /\ UNCHANGED <<slots, used, grant, pcs, channel>>
        /\ socket' = [socket EXCEPT ![k] =
                        [phase |-> "resolved", client |-> c, sid |-> sid, slot |-> slot]]
    BY DEF Connect, slotVars
  <1>. HIDE DEF sid, slot
  <1>4. TypeOK' /\ IInv'
    <2>1. [phase |-> "resolved", client |-> c, sid |-> sid, slot |-> slot] \in SocketRecord
      BY <1>1, <1>2 DEF SocketRecord, Phases
    <2>. QED
      BY <1>3, <2>1 DEF SocketIInv, TypeOK, IInv, SlotTypeOK, HeldSidsUsed, DistinctOccupants, Occupied
  <1>5. \A m \in Sockets : m # k => socket'[m] = socket[m]
    BY <1>3 DEF SocketIInv, TypeOK
  <1>6. /\ socket'[k].phase = "resolved"
        /\ socket'[k].sid = sid
        /\ socket'[k].slot = slot
    BY <1>3 DEF SocketIInv, TypeOK
  <1>7. KnownSidsUsed'
    BY <1>1, <1>3, <1>5, <1>6 DEF SocketIInv, KnownSidsUsed, In
  <1>8. BoundToOwnSlot'
    BY <1>2, <1>3, <1>5, <1>6 DEF SocketIInv, BoundToOwnSlot, In, Holds, Occupied
  <1>. QED
    BY <1>4, <1>7, <1>8 DEF SocketIInv

\* A socket moves on to another phase; the slots and the grants stay as they are.
LEMMA EnterIInv ==
  ASSUME SocketIInv, [SlotNext]_slotVars, UNCHANGED grant,
         pcs' \in [Slots -> Sockets \cup {None}], UNCHANGED channel,
         NEW k \in Sockets, ~In(k, "new"), NEW phase \in Phases, phase # "new", Enter(k, phase)
  PROVE  SocketIInv'
  <1>1. TypeOK'
    BY NextIInv DEF SocketIInv, IInv, TypeOK, Enter, SocketRecord
  <1>2. \A m \in Sockets : m # k => socket'[m] = socket[m]
    BY DEF Enter, SocketIInv, TypeOK
  <1>3. /\ socket'[k].phase = phase
        /\ socket'[k].sid = socket[k].sid
        /\ socket'[k].slot = socket[k].slot
    BY DEF Enter, SocketIInv, TypeOK, SocketRecord
  <1>. QED
    BY <1>1, <1>2, <1>3, SocketsKept DEF In

\* The steps of a socket's life after it was resolved.
LEMMA SocketStepIInv ==
  ASSUME SocketIInv, NEW k \in Sockets,
         ListPc(k) \/ PcFails(k) \/ SocketEnds(k) \/ Cleanup(k)
  PROVE  SocketIInv'
  <1>1. [SlotNext]_slotVars
    BY StepOfSlots DEF SocketIInv, Next
  <1>2. pcs \in [Slots -> Sockets \cup {None}]
    BY DEF SocketIInv, TypeOK
  <1>3. ASSUME ListPc(k) PROVE SocketIInv'
    BY <1>1, <1>2, <1>3, EnterIInv DEF ListPc, In, Phases
  <1>4. ASSUME PcFails(k) \/ SocketEnds(k) PROVE SocketIInv'
    BY <1>1, <1>2, <1>4, EnterIInv DEF PcFails, SocketEnds, In, Phases
  <1>5. ASSUME UnlistPc(k) PROVE SocketIInv'
    BY <1>1, <1>2, <1>5, EnterIInv DEF UnlistPc, In, Phases
  <1>6. ASSUME ReleaseSession(k) PROVE SocketIInv'
    BY <1>1, <1>2, <1>6, EnterIInv DEF ReleaseSession, In, Phases
  <1>7. ASSUME Neutralize(k) PROVE SocketIInv'
    BY <1>1, <1>2, <1>7, EnterIInv DEF Neutralize, In, Phases
  <1>. QED
    BY <1>3, <1>4, <1>5, <1>6, <1>7 DEF Cleanup

\* Frames, channel callbacks, resets, refusals and time leave the sockets alone.
LEMMA QuietIInv ==
  ASSUME SocketIInv, [SlotNext]_slotVars, UNCHANGED <<grant, socket, pcs>>,
         channel' \in [Sockets -> {"none", "open", "closed"}]
  PROVE  SocketIInv'
  <1>1. TypeOK'
    BY NextIInv DEF SocketIInv, IInv, TypeOK
  <1>. QED
    BY <1>1, SocketsKept DEF In

LEMMA NextSocketIInv == ASSUME SocketIInv, [Next]_vars PROVE SocketIInv'
  <1>1. [SlotNext]_slotVars
    BY StepOfSlots DEF SocketIInv
  <1>2. channel \in [Sockets -> {"none", "open", "closed"}]
    BY DEF SocketIInv, TypeOK
  <1>3. ASSUME NEW c \in Clients, PairRefused(c) PROVE SocketIInv'
    BY <1>1, <1>2, <1>3, QuietIInv DEF PairRefused
  <1>4. CASE Tick \/ ResetSlots
    BY <1>1, <1>2, <1>4, QuietIInv DEF Tick, ResetSlots
  <1>5. ASSUME NEW k \in Sockets,
               SocketFrame(k) \/ ChannelFrame(k) \/ ChannelOpens(k) \/ ChannelCloses(k)
        PROVE  SocketIInv'
    BY <1>1, <1>2, <1>5, QuietIInv DEF SocketFrame, ChannelFrame, ChannelOpens, ChannelCloses
  <1>6. CASE UNCHANGED vars
    BY <1>1, <1>2, <1>6, QuietIInv DEF vars
  <1>. QED
    BY <1>3, <1>4, <1>5, <1>6, PairIInv, ConnectIInv, SocketStepIInv DEF Next

LEMMA SocketInductiveInvariant == Spec => []SocketIInv
  BY InitSocketIInv, NextSocketIInv, PTL DEF Spec

-----------------------------------------------------------------------------
(* The theorems *)

\* Sockets, slots and data channels keep their types: a resolved socket always has a
\* slot, and ages stay within their limits.
THEOREM SignalingTypeCorrect == Spec => []TypeOK
  BY SocketInductiveInvariant, PTL DEF SocketIInv

\* A socket resolved its slot once; no allocation, reclaiming, reset or
\* reconnection gives its session another slot.
THEOREM SocketsStayBound == Spec => []BoundToOwnSlot
  BY SocketInductiveInvariant, PTL DEF SocketIInv

\* The daemon uses the slots as SlotManager's specification says.
THEOREM SignalingImplementsSlots == Spec => SlotSpec
  <1>1. SocketIInv /\ [Next]_vars => [SlotNext]_slotVars
    BY StepOfSlots DEF SocketIInv
  <1>. QED
    BY <1>1, InitSocketIInv, SocketInductiveInvariant, PTL DEF Spec, SlotSpec

\* What is proved of the slots alone holds of them under sockets and data channels.
THEOREM DaemonKeepsSlots == Spec => []DistinctOccupants /\ LivePeerKept /\ SessionStaysPut
  BY SignalingImplementsSlots, OccupantsDistinct, LivePeersKept, SessionsStayPut, PTL

=============================================================================
