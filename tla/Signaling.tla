------------------------------ MODULE Signaling ------------------------------
(***************************************************************************)
(* Player slots and the connections bound to them.  A paired phone opens a *)
(* signaling socket with its session id; the host resolves the slot once,  *)
(* creates a peer connection, and cleans up when the socket ends.  The     *)
(* phone's data channel and the socket's binary frames feed the slot.      *)
(* Meanwhile slots are allocated, reclaimed and reset.  It composes        *)
(* SlotManager; a step is what a handler does between two awaits.          *)
(***************************************************************************)
EXTENDS SlotManager

CONSTANTS
  Sockets,  \* signaling connections, each opened once
  None      \* no client, no session id, no grant

VARIABLES
  grant,        \* per client, the session and slot its last pairing told it
  socket,       \* per socket, who opened it, where it was bound, its phase
  pcs,          \* peer_connections: the socket whose connection a slot lists
  channel       \* the data channel of each socket's peer connection


vars == <<slots, used, grant, socket, pcs, channel>>

ASSUME NoneAssumption == None \notin Clients /\ None \notin Sids /\ None \notin Sockets

(***************************************************************************)
(* "resolved": the slot is known, the peer connection is being created;    *)
(* "open": frames are being read; then the cleanup, one lock at a time:    *)
(* "ending", "unlisted" (peer_connections cleared), "freed" (free_session),*)
(* "closed" (slot neutralized).  "failed": no peer connection came about.  *)
(***************************************************************************)
Phases == {"new", "resolved", "open", "ending", "unlisted", "freed", "closed", "failed"}

SocketRecord ==
  [phase : Phases, client : Clients \cup {None}, sid : Sids \cup {None}, slot : Slots]

TypeOK ==
  /\ SlotTypeOK
  /\ grant \in [Clients -> [sid : Sids, slot : Slots] \cup {None}]
  /\ socket \in [Sockets -> SocketRecord]
  /\ pcs \in [Slots -> Sockets \cup {None}]
  /\ channel \in [Sockets -> {"none", "open", "closed"}]

Init ==
  /\ SlotInit
  /\ grant = [c \in Clients |-> None]
  /\ socket = [k \in Sockets |-> [phase |-> "new", client |-> None, sid |-> None, slot |-> 0]]
  /\ pcs = [s \in Slots |-> None]
  /\ channel = [k \in Sockets |-> "none"]

In(k, phase) == socket[k].phase = phase
Enter(k, phase) == socket' = [socket EXCEPT ![k].phase = phase]

-----------------------------------------------------------------------------
(* Slots change hands *)

\* pair_handler allocates a slot and answers with the session id and the index.
Pair(c) ==
  /\ \E s \in Slots, sid \in Sids :
       /\ AllocateSlot(c, s, sid)
       /\ grant' = [grant EXCEPT ![c] = [sid |-> sid, slot |-> s]]
  /\ UNCHANGED <<socket, pcs, channel>>

PairRefused(c) ==
  /\ RefuseSlot(c)
  /\ UNCHANGED <<grant, socket, pcs, channel>>

\* POST /api/reset-slots: sockets and channels are left as they are.
ResetSlots ==
  /\ ResetAll
  /\ UNCHANGED <<grant, socket, pcs, channel>>

Tick ==
  /\ SlotTick
  /\ UNCHANGED <<grant, socket, pcs, channel>>

-----------------------------------------------------------------------------
(* handle_signaling_socket *)

\* Mutant: every socket gets slot 0.
SlotForAnyone(sid) == 0

\* find_slot_by_session_id, slot 0 for an id that no slot has.
SlotFor(sid) ==
  IF \E s \in Slots : Occupied(s) /\ slots[s].sid = sid
  THEN CHOOSE s \in Slots : Occupied(s) /\ slots[s].sid = sid
  ELSE 0

\* A paired phone connects, or reconnects with the session id it has.
Connect(k, c) ==
  /\ In(k, "new")
  /\ grant[c] # None
  /\ socket' = [socket EXCEPT ![k] = [phase |-> "resolved", client |-> c,
                                      sid |-> grant[c].sid, slot |-> SlotFor(grant[c].sid)]]
  /\ UNCHANGED <<slotVars, grant, pcs, channel>>

\* create_peer_connection succeeds: the slot lists the new connection.
ListPc(k) ==
  /\ In(k, "resolved")
  /\ pcs' = [pcs EXCEPT ![socket[k].slot] = k]
  /\ Enter(k, "open")
  /\ UNCHANGED <<slotVars, grant, channel>>

\* It fails: the handler returns before there is anything to clean up.
PcFails(k) ==
  /\ In(k, "resolved")
  /\ Enter(k, "failed")
  /\ UNCHANGED <<slotVars, grant, pcs, channel>>

\* A frame on the socket: the fallback path of handle_raw_slot_packet, which
\* feeds the slot unless the slots' lock is taken just then (try_write).
SocketFrame(k) ==
  /\ In(k, "open")
  /\ FeedSlot(socket[k].slot) \/ UNCHANGED slotVars
  /\ UNCHANGED <<grant, socket, pcs, channel>>

\* Close frame, error or end of stream; the peer connection lives on.
SocketEnds(k) ==
  /\ In(k, "open")
  /\ Enter(k, "ending")
  /\ UNCHANGED <<slotVars, grant, pcs, channel>>

UnlistPc(k) ==
  /\ In(k, "ending")
  /\ pcs' = [pcs EXCEPT ![socket[k].slot] = None]
  /\ Enter(k, "unlisted")
  /\ UNCHANGED <<slotVars, grant, channel>>

ReleaseSession(k) ==
  /\ In(k, "unlisted")
  /\ FreeSession(socket[k].sid)
  /\ Enter(k, "freed")
  /\ UNCHANGED <<grant, pcs, channel>>

\* neutralize_slot, see InputRouter.
Neutralize(k) ==
  /\ In(k, "freed")
  /\ Enter(k, "closed")
  /\ UNCHANGED <<slotVars, grant, pcs, channel>>

Cleanup(k) == UnlistPc(k) \/ ReleaseSession(k) \/ Neutralize(k)

-----------------------------------------------------------------------------
(* Data channel callbacks *)

\* on_open and on_close set the slot's state, unless try_write finds it locked.  The
\* peer connection outlives its socket and the cleanup: a channel may open after them.
\* Bound: a peer connection has one channel.
ChannelOpens(k) ==
  /\ socket[k].phase \in {"open", "ending", "unlisted", "freed", "closed"}
  /\ channel[k] = "none"
  /\ channel' = [channel EXCEPT ![k] = "open"]
  /\ SetSlotState(socket[k].slot, "connected") \/ UNCHANGED slotVars
  /\ UNCHANGED <<grant, socket, pcs>>

ChannelCloses(k) ==
  /\ channel[k] = "open"
  /\ channel' = [channel EXCEPT ![k] = "closed"]
  /\ SetSlotState(socket[k].slot, "closed") \/ UNCHANGED slotVars
  /\ UNCHANGED <<grant, socket, pcs>>

ChannelFrame(k) ==
  /\ channel[k] = "open"
  /\ FeedSlot(socket[k].slot) \/ UNCHANGED slotVars
  /\ UNCHANGED <<grant, socket, pcs, channel>>

-----------------------------------------------------------------------------

Next ==
  \/ Tick
  \/ ResetSlots
  \/ \E c \in Clients : Pair(c) \/ PairRefused(c) \/ \E k \in Sockets : Connect(k, c)
  \/ \E k \in Sockets :
       \/ ListPc(k) \/ PcFails(k) \/ SocketFrame(k) \/ SocketEnds(k) \/ Cleanup(k)
       \/ ChannelOpens(k) \/ ChannelCloses(k) \/ ChannelFrame(k)

Spec == Init /\ [][Next]_vars

\* Nobody resets the slots.
UnresetSpec == Init /\ [][Next /\ ~ResetSlots]_vars

\* Time goes on and a socket's cleanup, once begun, waits only for locks.
FairSpec ==
  /\ Spec
  /\ WF_vars(Tick)
  /\ \A k \in Sockets : WF_vars(Cleanup(k))

-----------------------------------------------------------------------------
(* Properties *)

\* Input of k's phone is being accepted.
Live(k) == In(k, "open") \/ channel[k] = "open"

Holds(s, sid) == Occupied(s) /\ slots[s].sid = sid

\* A socket resolved its slot once, long before its last frame.  As long as its
\* session has a slot at all, that is the slot its frames go to.
BoundToOwnSlot ==
  \A k \in Sockets, s \in Slots :
    ~In(k, "new") /\ Holds(s, socket[k].sid) => socket[k].slot = s

\* Nobody is left who could feed slot s.
Deserted(s) == \A k \in Sockets : Live(k) => socket[k].slot # s

\* multi_peer.rs: abandoned slots are reclaimed.  A deserted slot becomes free for
\* the next pairing, also when its peer never connected or its peer connection
\* could not be created.
DesertedIsReclaimable ==
  \A s \in Slots :
    Deserted(s) ~> \/ ~Occupied(s)
                   \/ Abandoned(slots[s])
                   \/ ~Deserted(s)

\* ROADMAP: slot-isolated WebSockets.  Two live phones never feed one slot.
OnePlayerPerSlot ==
  \A k, m \in Sockets :
    Live(k) /\ Live(m) /\ socket[k].slot = socket[m].slot
      => socket[k].client = socket[m].client

\* FAILURE_RECOVERY sections 2 and 3, phone sleeps: a phone that reconnects resumes,
\* in the slot its pairing told it.
ReconnectKeepsSlot ==
  \A k \in Sockets, c \in Clients :
    In(k, "open") /\ socket[k].client = c /\ grant[c] # None /\ socket[k].sid = grant[c].sid
      => socket[k].slot = grant[c].slot

\* multi_peer.rs: allocation reclaims abandoned or timed-out slots, so not the slot
\* of a phone that is connected and was heard of in this very tick.
StreamingPeerKept ==
  [][\A k \in Sockets :
       LET s == socket[k].slot
       IN Live(k) /\ Holds(s, socket[k].sid) /\ slots[s].silence = 0 /\ slots'[s] # Empty
            => slots'[s].client = slots[s].client]_vars

\* state.rs:33: peer_connections lists the active connections by slot, also while the
\* cleanup of a slot's former socket is under way.
LiveSlotIsListed ==
  \A k \in Sockets : In(k, "open") => pcs[socket[k].slot] # None

=============================================================================
