----------------------------- MODULE SlotManager -----------------------------
(***************************************************************************)
(* MultiPeerSessionManager: the player slots of the host daemon.  Every    *)
(* operation runs under one write lock, so each is one step.  Ages are     *)
(* counted in ticks and saturate one past their limit, because the code    *)
(* only asks whether an age is greater than its limit.                     *)
(***************************************************************************)
EXTENDS Naturals

CONSTANTS
  N,             \* MAX_PEERS
  Clients,       \* client public keys
  Sids,          \* session ids; drawn at random, so never twice the same
  Empty,         \* a slot without a peer
  PairingLimit,  \* age past which a slot still Pairing is abandoned, 10 s
  IdleLimit      \* silence past which any slot is abandoned, 30 s

ASSUME SlotsAssumption == N \in Nat \ {0}
ASSUME LimitsAssumption == PairingLimit \in Nat /\ IdleLimit \in Nat

Slots == 0 .. N - 1

SlotStates == {"pairing", "connected", "closed"}

PeerSlot == [client : Clients, sid : Sids, state : SlotStates,
             age : 0 .. PairingLimit + 1,   \* since connected_at
             silence : 0 .. IdleLimit + 1]  \* since last_seen

ASSUME EmptyAssumption == Empty \notin PeerSlot

VARIABLES
  slots,  \* per slot, its PeerSlot or Empty
  used    \* session ids handed out so far

slotVars == <<slots, used>>

Occupied(s) == slots[s] # Empty

SlotTypeOK ==
  /\ slots \in [Slots -> PeerSlot \cup {Empty}]
  /\ used \subseteq Sids

SlotInit ==
  /\ slots = [s \in Slots |-> Empty]
  /\ used = {}

-----------------------------------------------------------------------------
(* allocate_slot *)

NewSlot(client, sid) ==
  [client |-> client, sid |-> sid, state |-> "pairing", age |-> 0, silence |-> 0]

\* Mutant: a client whose channel has closed is not recognised.
SlotsOfOpen(client) ==
  {s \in Slots : Occupied(s) /\ slots[s].client = client /\ slots[s].state # "closed"}

\* Slots the client already has.
SlotsOf(client) == {s \in Slots : Occupied(s) /\ slots[s].client = client}

\* Mutants: the state is not asked; silence is not asked.
AbandonedByAge(p) == p.age > PairingLimit \/ p.silence > IdleLimit
AbandonedPairing(p) == p.state = "pairing" /\ p.age > PairingLimit

Abandoned(p) ==
  \/ p.state = "pairing" /\ p.age > PairingLimit
  \/ p.silence > IdleLimit

Reclaimed ==
  [s \in Slots |-> IF Occupied(s) /\ Abandoned(slots[s]) THEN Empty ELSE slots[s]]

IsLowest(s, S) == s \in S /\ \A u \in S : s <= u

\* The client has a slot: it keeps it, with a new session.
ReuseSlot(client, s, sid) ==
  /\ IsLowest(s, SlotsOf(client))
  /\ sid \notin used
  /\ slots' = [slots EXCEPT ![s] = NewSlot(client, sid)]
  /\ used' = used \cup {sid}

\* Mutant: the session id may be one that was handed out before.
TakeSlotStaleId(client, s, sid) ==
  /\ SlotsOf(client) = {}
  /\ IsLowest(s, {u \in Slots : Reclaimed[u] = Empty})
  /\ slots' = [Reclaimed EXCEPT ![s] = NewSlot(client, sid)]
  /\ used' = used \cup {sid}

\* It has none: abandoned slots are reclaimed and the lowest free one is taken.
TakeSlot(client, s, sid) ==
  /\ SlotsOf(client) = {}
  /\ IsLowest(s, {u \in Slots : Reclaimed[u] = Empty})
  /\ sid \notin used
  /\ slots' = [Reclaimed EXCEPT ![s] = NewSlot(client, sid)]
  /\ used' = used \cup {sid}

AllocateSlot(client, s, sid) == ReuseSlot(client, s, sid) \/ TakeSlot(client, s, sid)

\* MaxCapacityReached: nothing was abandoned either, so nothing changes.
RefuseSlot(client) ==
  /\ SlotsOf(client) = {}
  /\ \A s \in Slots : Reclaimed[s] # Empty
  /\ UNCHANGED slotVars

-----------------------------------------------------------------------------
(* The other operations *)

ResetAll ==
  /\ slots' = [s \in Slots |-> Empty]
  /\ UNCHANGED used

SetSlotState(s, state) ==
  /\ slots' = IF Occupied(s) THEN [slots EXCEPT ![s].state = state] ELSE slots
  /\ UNCHANGED used

\* feed_slot_packet and update_telemetry both renew last_seen.
FeedSlot(s) ==
  /\ slots' = IF Occupied(s) THEN [slots EXCEPT ![s].silence = 0] ELSE slots
  /\ UNCHANGED used

FreeSession(sid) ==
  /\ slots' = [s \in Slots |-> IF Occupied(s) /\ slots[s].sid = sid THEN Empty ELSE slots[s]]
  /\ UNCHANGED used

OlderForever(a, limit) == a + 1  \* mutant: the age does not saturate
Older(a, limit) == IF a > limit THEN a ELSE a + 1

SlotTick ==
  /\ slots' = [s \in Slots |->
       IF Occupied(s)
       THEN [slots[s] EXCEPT !.age = Older(@, PairingLimit), !.silence = Older(@, IdleLimit)]
       ELSE Empty]
  /\ UNCHANGED used

SlotNext ==
  \/ SlotTick
  \/ ResetAll
  \/ \E client \in Clients :
       \/ \E s \in Slots, sid \in Sids : AllocateSlot(client, s, sid)
       \/ RefuseSlot(client)
  \/ \E s \in Slots :
       \/ \E state \in {"connected", "closed"} : SetSlotState(s, state)
       \/ FeedSlot(s)
  \/ \E sid \in Sids : FreeSession(sid)

SlotSpec == SlotInit /\ [][SlotNext]_slotVars

-----------------------------------------------------------------------------
(* Properties *)

\* No client and no session is in two slots: position-based lookups by key and by
\* session id (allocate_slot, find_slot_by_session_id, free_session) find the one.
DistinctOccupants ==
  \A s, u \in Slots :
    Occupied(s) /\ Occupied(u) /\ (slots[s].client = slots[u].client \/ slots[s].sid = slots[u].sid)
      => s = u

\* A connected peer heard of within the idle limit loses its slot to nobody else:
\* only a peer of the same key replaces it, whatever is reclaimed meanwhile.
LivePeerKept ==
  [][\A s \in Slots :
       (Occupied(s) /\ slots[s].state = "connected" /\ slots[s].silence <= IdleLimit
          /\ slots'[s] # Empty)
         => slots'[s].client = slots[s].client]_slotVars

\* A session id stays with its slot: once handed out it never shows up in a slot
\* that did not already hold it.  A socket resolves its slot once, when it opens.
SessionStaysPut ==
  [][\A s \in Slots :
       (slots'[s] # Empty /\ slots'[s].sid \in used)
         => Occupied(s) /\ slots[s].sid = slots'[s].sid]_slotVars

=============================================================================
