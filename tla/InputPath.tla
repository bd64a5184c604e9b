------------------------------ MODULE InputPath ------------------------------
(***************************************************************************)
(* The host's input pipeline, end to end: packets arrive on data channels  *)
(* and on signaling sockets (the client's fallback), feed the one shared   *)
(* watchdog, go through a bounded queue to the dispatcher task and reach   *)
(* the virtual drivers; channels close, phones fall asleep, packets get    *)
(* lost, and the watchdog's monitor neutralizes everything.  It composes   *)
(* Watchdog and InputRouter.                                               *)
(***************************************************************************)
EXTENDS InputRouter, Watchdog, Sequences

CONSTANTS
  Channels,   \* data channels and fallback sockets, each used once
  Fallback,   \* those of Channels that are signaling sockets
  Peers,      \* peer connections of the host
  SlotOf,     \* the slot each channel was bound to
  Packets,    \* packets the clients may send in this instance
  QueueCap,   \* capacity of the event channel, 1024 in the daemon
  MonitorTask \* the watchdog's monitor, as a thread that neutralizes

VARIABLES
  life,      \* per channel: "new", "open", "closing", "closed"
  peer,      \* per peer connection: "up" until its callback has been told that
             \* it is "failed" or "closed"
  handling,  \* per channel, the packet being handled
  queue,     \* the mpsc channel of decoded events
  asleep,    \* phones that went silent without closing anything
  finger     \* per channel, the keys its user holds on the phone

channelVars == <<life, peer, handling, queue>>
phoneVars == <<asleep, finger>>
vars == <<routerVars, watchdogVars, channelVars, phoneVars>>

\* A GamepadFull carries the slot its sender claims; a Keyboard its key and
\* state; a Touchpad its button mask and tap bit; a Heartbeat nothing routed; a
\* "reset" is the heartbeat with the EMERGENCY_RESET flag of the phone's kill button.
AllPackets ==
  [kind : {"pad"}, slot : Slots, report : Reports]
    \cup [kind : {"key"}, key : Keys, state : {"down", "up"}]
    \cup [kind : {"touch"}, mask : SUBSET Buttons, tap : BOOLEAN]
    \cup [kind : {"heartbeat", "reset"}]

NoPacket == [kind |-> "none"]

ASSUME ChannelsAssumption ==
  /\ MonitorTask \notin Channels
  /\ Callers = Channels \cup Peers
  /\ Channels \cap Peers = {}
  /\ Threads = Channels \cup {MonitorTask}
  /\ Fallback \subseteq Channels
  /\ SlotOf \in [Channels -> Slots]
ASSUME PacketsAssumption == Packets \subseteq AllPackets
ASSUME QueueAssumption == QueueCap \in Nat \ {0}

TypeOK ==
  /\ RouterTypeOK
  /\ WatchdogTypeOK
  /\ life \in [Channels -> {"new", "open", "closing", "closed"}]
  /\ peer \in [Peers -> {"up", "failed", "closed"}]
  /\ handling \in [Channels -> AllPackets \cup {NoPacket}]
  /\ queue \in Seq(AllPackets)
  /\ Len(queue) <= QueueCap
  /\ asleep \subseteq Channels
  /\ finger \in [Channels -> SUBSET Keys]

Init ==
  /\ RouterInit
  /\ WatchdogInit
  /\ life = [c \in Channels |-> "new"]
  /\ peer = [q \in Peers |-> "up"]
  /\ handling = [c \in Channels |-> NoPacket]
  /\ queue = <<>>
  /\ asleep = {}
  /\ finger = [c \in Channels |-> {}]

Idle(c) == call[c] = "idle" /\ handling[c] = NoPacket /\ ~Sweeping(c)

-----------------------------------------------------------------------------
(* The phones *)

\* A phone sleeps, locks or loses its network: nothing more is heard from it.
PhoneSleeps(c) ==
  /\ life[c] = "open"
  /\ asleep' = asleep \cup {c}
  /\ UNCHANGED <<routerVars, watchdogVars, channelVars, finger>>

\* What a packet says of the user's fingers.
Fingers(c, p) ==
  CASE p.kind = "key" /\ p.state = "down" -> finger[c] \cup {p.key}
    [] p.kind = "key" /\ p.state = "up" -> finger[c] \ {p.key}
    [] OTHER -> finger[c]

\* The data channel is unordered and never retransmits: a packet may vanish.
PacketLost(c, p) ==
  /\ life[c] = "open"
  /\ c \notin asleep
  /\ c \notin Fallback
  /\ p.kind # "heartbeat"
  /\ finger' = [finger EXCEPT ![c] = Fingers(c, p)]
  /\ UNCHANGED <<routerVars, watchdogVars, channelVars, asleep>>

-----------------------------------------------------------------------------
(* Channel callbacks *)

\* Mutant: on_open feeds the watchdog and does not arm it.
OpenUnarmed(c) ==
  /\ life[c] = "new"
  /\ life' = [life EXCEPT ![c] = "open"]
  /\ IF c \in Fallback THEN UNCHANGED watchdogVars ELSE Feed(c)
  /\ UNCHANGED <<routerVars, peer, handling, queue, phoneVars>>

\* on_open of a data channel arms the watchdog; a socket has no such callback.
Open(c) ==
  /\ life[c] = "new"
  /\ life' = [life EXCEPT ![c] = "open"]
  /\ IF c \in Fallback THEN UNCHANGED watchdogVars ELSE Arm(c)
  /\ UNCHANGED <<routerVars, peer, handling, queue, phoneVars>>

\* feed, arm or disarm goes on with its next store.
ContinueCall(c) ==
  /\ Finish(c)
  /\ UNCHANGED <<routerVars, channelVars, phoneVars>>

\* handle_raw_slot_packet: a decoded packet feeds the watchdog first ...
Packet(c, p) ==
  /\ life[c] = "open"
  /\ c \notin asleep
  /\ Idle(c)
  /\ Feed(c)
  /\ handling' = [handling EXCEPT ![c] = p]
  /\ finger' = [finger EXCEPT ![c] = Fingers(c, p)]
  /\ UNCHANGED <<routerVars, life, peer, queue, asleep>>

\* Mutant: the claimed slot is trusted.
EventAsClaimed(c, p) == p

\* The packet as it is queued: a gamepad report belongs to the channel's slot,
\* whatever slot it claims.
Event(c, p) == IF p.kind = "pad" THEN [p EXCEPT !.slot = SlotOf[c]] ELSE p

\* Mutant: the queue takes one event more than it has room for.
EnqueueOneMore(c) ==
  /\ handling[c] # NoPacket
  /\ call[c] = "idle"
  /\ queue' = IF Len(queue) <= QueueCap
              THEN Append(queue, Event(c, handling[c]))
              ELSE queue
  /\ handling' = [handling EXCEPT ![c] = NoPacket]
  /\ UNCHANGED <<routerVars, watchdogVars, life, peer, phoneVars>>

\* ... and is then offered to the queue, which drops it when full.
Enqueue(c) ==
  /\ handling[c] # NoPacket
  /\ call[c] = "idle"
  /\ queue' = IF Len(queue) < QueueCap
              THEN Append(queue, Event(c, handling[c]))
              ELSE queue
  /\ handling' = [handling EXCEPT ![c] = NoPacket]
  /\ UNCHANGED <<routerVars, watchdogVars, life, peer, phoneVars>>

\* on_peer_connection_state_change(Failed or Closed) disarms the shared watchdog, in a
\* task of its own: before the data channel opens, while it streams or after it closed.
\* A peer connection that has failed may recover and fail again.
PeerEnds(q, state) ==
  /\ peer[q] # "closed"
  /\ peer' = [peer EXCEPT ![q] = state]
  /\ Disarm(q)
  /\ UNCHANGED <<routerVars, life, handling, queue, phoneVars>>

\* on_close of a data channel disarms first; both kinds then neutralize the slot.
Close(c) ==
  /\ life[c] = "open"
  /\ Idle(c)
  /\ life' = [life EXCEPT ![c] = "closing"]
  /\ IF c \in Fallback THEN UNCHANGED watchdogVars ELSE Disarm(c)
  /\ UNCHANGED <<routerVars, peer, handling, queue, phoneVars>>

NeutralizeSlot(c) ==
  /\ life[c] = "closing"
  /\ call[c] = "idle"
  /\ life' = [life EXCEPT ![c] = "closed"]
  /\ BeginNeutralizeSlot(c, SlotOf[c])
  /\ UNCHANGED <<watchdogVars, peer, handling, queue, phoneVars>>

CloseSweep(c) ==
  /\ SweepStep(c)
  /\ UNCHANGED <<watchdogVars, channelVars, phoneVars>>

-----------------------------------------------------------------------------
(* The dispatcher task *)

\* from_payload looks at the payload alone, so a "reset" is routed as a heartbeat and
\* no packet becomes the router's EmergencyReset.
Routed(e) ==
  CASE e.kind = "pad" -> RouteGamepad(e.slot, e.report)
    [] e.kind = "key" -> RouteKeyboard(e.key, e.state)
    [] e.kind = "touch" -> RouteTouchpad(e.mask, e.tap)
    [] e.kind \in {"heartbeat", "reset"} -> RouteMomentary

Dispatch ==
  /\ queue # <<>>
  /\ Routed(Head(queue))
  /\ queue' = Tail(queue)
  /\ UNCHANGED <<watchdogVars, life, peer, handling, phoneVars>>

DispatchDriver ==
  /\ WriteGamepad
  /\ UNCHANGED <<watchdogVars, channelVars, phoneVars>>

Dispatcher == Dispatch \/ DispatchDriver

-----------------------------------------------------------------------------
(* Time and the watchdog's monitor *)

Tick == WatchdogTick /\ UNCHANGED <<routerVars, channelVars, phoneVars>>

MonitorSample == (SampleArmed \/ SampleFeed) /\ UNCHANGED <<routerVars, channelVars, phoneVars>>

\* Mutant: the emergency neutralizes nothing.
MonitorSwapOnly ==
  /\ Swap
  /\ UNCHANGED routerVars
  /\ UNCHANGED <<channelVars, phoneVars>>

\* The swap that finds triggered clear runs on_emergency: router.neutralize().
MonitorSwap ==
  /\ Swap
  /\ IF triggered THEN UNCHANGED routerVars ELSE BeginNeutralize(MonitorTask)
  /\ UNCHANGED <<channelVars, phoneVars>>

MonitorSweep ==
  /\ SweepStep(MonitorTask)
  /\ UNCHANGED <<watchdogVars, channelVars, phoneVars>>

MonitorFired ==
  /\ ~Sweeping(MonitorTask)
  /\ Fired
  /\ UNCHANGED <<routerVars, channelVars, phoneVars>>

Monitor == MonitorSample \/ MonitorSwap \/ MonitorSweep \/ MonitorFired

-----------------------------------------------------------------------------

Callback(c) == ContinueCall(c) \/ Enqueue(c) \/ NeutralizeSlot(c) \/ CloseSweep(c)

PeerCallback(q) == ContinueCall(q) \/ \E state \in {"failed", "closed"} : PeerEnds(q, state)

Next ==
  \/ Tick
  \/ Monitor
  \/ Dispatcher
  \/ \E c \in Channels :
       \/ PhoneSleeps(c)
       \/ Open(c)
       \/ Close(c)
       \/ Callback(c)
       \/ \E p \in Packets : Packet(c, p) \/ PacketLost(c, p)
  \/ \E q \in Peers : PeerCallback(q)

Spec == Init /\ [][Next]_vars

\* Callbacks, the dispatcher and the monitor are tasks of the runtime: each one
\* that can go on does.  Phones, the network and the users owe nothing.
Fairness ==
  /\ WF_vars(Tick)
  /\ WF_vars(Monitor)
  /\ WF_vars(Dispatcher)
  /\ \A c \in Channels : WF_vars(Callback(c))
  /\ \A q \in Peers : WF_vars(ContinueCall(q))

FairSpec == Spec /\ Fairness

\* The client's heartbeat timer runs as long as its transport is connected.
SendsHeartbeat(c) == \E p \in Packets : p.kind = "heartbeat" /\ Packet(c, p)

StreamingSpec == FairSpec /\ \A c \in Channels : WF_vars(SendsHeartbeat(c))

-----------------------------------------------------------------------------
(* Properties *)

\* A virtual gamepad shows something only if a channel of its own slot was
\* opened: no player moves the pad of another, whatever slot the packets claim
\* and however events, closings and emergencies interleave.
PadsOfOpenedSlots ==
  \A s \in Slots :
    pad[s] # Neutral => \E c \in Channels : SlotOf[c] = s /\ life[c] # "new"

\* An armed watchdog whose flag is down and whose feeders have been silent past
\* the timeout gets every held key and gamepad released, unless somebody feeds
\* or disarms it first.
Interrupted == ~Stale \/ ~armed
ArmedSilenceReleases ==
  /\ \A k \in Keys :
       (armed /\ Stale /\ ~triggered /\ k \in keyboard)
         ~> (k \notin keyboard \/ Interrupted)
  /\ \A s \in Slots :
       (armed /\ Stale /\ ~triggered /\ pad[s] # Neutral)
         ~> (pad[s] = Neutral \/ Interrupted)

NothingHeld == keyboard = {} /\ mouse = {} /\ \A s \in Slots : pad[s] = Neutral

\* Every channel is closed and every task has finished its work.
AllGone ==
  /\ \A c \in Channels : life[c] \in {"new", "closed"} /\ Idle(c)
  /\ ~Sweeping(MonitorTask) /\ monitor = "asleep"
  /\ queue = <<>> /\ ~Routing

\* FAILURE_RECOVERY section 1: an unexpected client disconnection never leaves
\* virtual inputs stuck in a pressed state.
DisconnectReleases == AllGone => NothingHeld

\* FAILURE_RECOVERY section 2, browser tab closed: the host resets the virtual
\* devices.  Here the gamepads alone, which on_close does neutralize.
ClosedPadsNeutral == AllGone => \A s \in Slots : pad[s] = Neutral

\* FAILURE_RECOVERY section 1: a packet gap never leaves inputs stuck; here the
\* gap is the loss of a key-up while the connected phone keeps sending.
LiftedKeysReleased ==
  \A k \in Keys :
    []([](\A c \in Channels : life[c] = "open" /\ c \notin asleep /\ k \notin finger[c])
         => <>(k \notin keyboard))

\* header.rs: the flag indicates an emergency reset.  A key that is held when the
\* dispatcher takes the phone's emergency reset is released, unless the session ends.
ResetReleases ==
  \A k \in Keys :
    (queue # <<>> /\ Head(queue).kind = "reset" /\ k \in keyboard) ~> (k \notin keyboard \/ ~armed)

\* FAILURE_RECOVERY section 1: more than the timeout without a packet releases
\* every held input of an armed session.
SilenceReleases ==
  []([](armed /\ \A c \in Channels : life[c] = "open" => c \in asleep)
       => <>NothingHeld)

\* FAILURE_RECOVERY section 2, phone sleeps: the watchdog fires and releases what
\* the phone held, also when it is not the only player.
SleepingPhoneFires ==
  \A c \in Channels :
    []([](armed /\ ~triggered /\ c \in asleep /\ pad[SlotOf[c]] # Neutral)
         => <>(monitor = "firing"))

\* The same promise for a phone whose input came over the signaling socket.
SleepingSocketReleases ==
  []([](\A c \in Channels : life[c] = "open" /\ c \in asleep) => <>NothingHeld)

\* watchdog.rs: armed is set while there is an active session.  Between its
\* callbacks, a data channel that is open keeps the shared watchdog armed.  The end
\* of another player's channel or peer connection breaks it.
ArmedWhileStreaming ==
  \A c \in Channels \ Fallback :
    life[c] = "open" /\ call[c] = "idle" => armed

\* No data channel has closed and no peer connection has failed or closed yet.
NoneEnded ==
  /\ \A c \in Channels \ Fallback : life[c] \in {"new", "open"}
  /\ \A q \in Peers : peer[q] = "up"

\* Until the first end, nothing that any number of players do in any order, stores
\* of feed and arm, packets, emergencies and closing sockets, disarms a player.
ArmedUntilOneEnds == NoneEnded => ArmedWhileStreaming

=============================================================================
