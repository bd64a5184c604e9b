------------------------------ MODULE Transport ------------------------------
(***************************************************************************)
(* The phone's connection to the host: WebRtcTransport, the SignalingClient *)
(* it owns, and the heartbeat of useWebRtc.  The page runs one callback at *)
(* a time; a step here is one callback with the continuations it resolves. *)
(* An asynchronous function is thus a chain of steps, and in between       *)
(* sockets drop, timers that nobody cancels fire, and the user disconnects. *)
(*                                                                         *)
(* Closing a peer connection ends its callbacks and leaves the functions   *)
(* that await one of its operations suspended for good, as WebRTC          *)
(* specifies.  So only the newest peer connection matters, and an offer or *)
(* an answer is either the newest one's or stale.                          *)
(***************************************************************************)
EXTENDS Naturals, Sequences

CONSTANTS
  MaxReconnectAttempts, \* of the peer connection, 5 in the code
  MaxSocketAttempts,    \* of the signaling socket, 5 in the code
  MaxTimers             \* bound: reconnect timers pending at the same time

ASSUME AttemptsAssumption ==
  /\ MaxReconnectAttempts \in Nat
  /\ MaxSocketAttempts \in Nat
  /\ MaxTimers \in Nat

VARIABLES
  state,          \* _state
  closed,         \* isExplicitlyClosed, of the transport and its signaling client
  isReconnecting, \* isReconnecting
  attempts,       \* reconnectAttempts of the transport
  timers,         \* schedulePeerReconnect timers not yet fired
  peer,           \* pc and dataChannel
  call,           \* where the one call of connect() is
  heartbeat,      \* heartbeatTimerRef is set
  socket,         \* readyState of the signaling WebSocket
  socketAttempts, \* reconnectAttempts of the signaling client
  socketTimer,    \* its scheduleReconnect timer is pending
  outbox,         \* its messageQueue
  up, down        \* offers and answers under way on the open socket

recoveryVars == <<isReconnecting, attempts, timers>>
callVars == <<call, heartbeat>>
socketVars == <<socket, socketAttempts, socketTimer>>
wireVars == <<outbox, up, down>>
vars == <<state, closed, recoveryVars, peer, callVars, socketVars, wireVars>>

States == {"disconnected", "connecting", "connected", "reconnecting", "failed"}
Labels == {"current", "stale"}

(***************************************************************************)
(* by: who awaits recreatePeerConnection; step: its offer is being made, is *)
(* the local description, or failed; remote: whose answer is applied.      *)
(***************************************************************************)
PeerRecords ==
  [by : {"connect", "timer", "status"},
   step : {"offering", "offered", "failed"},
   remote : {"none", "own", "stale"},
   channel : {"connecting", "open", "closed"}]

NoPeer == [by |-> "none", step |-> "none", remote |-> "none", channel |-> "none"]

NewPeer(by) ==
  [by |-> by, step |-> "offering", remote |-> "none", channel |-> "connecting"]

TypeOK ==
  /\ state \in States
  /\ closed \in BOOLEAN
  /\ isReconnecting \in BOOLEAN
  /\ attempts \in 0 .. MaxReconnectAttempts
  /\ timers \in 0 .. MaxTimers
  /\ peer \in PeerRecords \cup {NoPeer}
  /\ call \in {"idle", "signaling", "peer", "done", "failed"}
  /\ heartbeat \in BOOLEAN
  /\ socket \in {"none", "connecting", "open", "closed", "aborting"}
  /\ socketAttempts \in 0 .. MaxSocketAttempts
  /\ socketTimer \in BOOLEAN
  /\ outbox \in Seq(Labels) /\ up \in Seq(Labels) /\ down \in Seq(Labels)

Init ==
  /\ state = "disconnected"
  /\ closed = FALSE
  /\ isReconnecting = FALSE /\ attempts = 0 /\ timers = 0
  /\ peer = NoPeer
  /\ call = "idle" /\ heartbeat = FALSE
  /\ socket = "none" /\ socketAttempts = 0 /\ socketTimer = FALSE
  /\ outbox = <<>> /\ up = <<>> /\ down = <<>>

-----------------------------------------------------------------------------
(* Recreating the peer connection and scheduling it *)

Stale(messages) == [i \in DOMAIN messages |-> "stale"]

\* recreatePeerConnection up to its first await; the socket is as it was.
Recreate(by) ==
  /\ peer' = NewPeer(by)
  /\ outbox' = Stale(outbox)
  /\ up' = Stale(up)
  /\ down' = Stale(down)

\* Mutant: gives up one attempt early.
ScheduleEarlier(running) ==
  IF running \/ closed
  THEN UNCHANGED <<state, recoveryVars>>
  ELSE IF attempts + 1 >= MaxReconnectAttempts
       THEN /\ state' = "failed"
            /\ isReconnecting' = FALSE
            /\ UNCHANGED <<attempts, timers>>
       ELSE /\ state' = "reconnecting"
            /\ isReconnecting' = TRUE
            /\ attempts' = attempts + 1
            /\ timers' = timers + 1

\* Mutant: no limit.
ScheduleForever(running) ==
  IF running \/ closed
  THEN UNCHANGED <<state, recoveryVars>>
  ELSE /\ state' = "reconnecting"
       /\ isReconnecting' = TRUE
       /\ attempts' = attempts + 1
       /\ timers' = timers + 1

\* schedulePeerReconnect, when isReconnecting has the value of running.
SchedulePeerReconnect(running) ==
  IF running \/ closed
  THEN UNCHANGED <<state, recoveryVars>>
  ELSE IF attempts >= MaxReconnectAttempts
       THEN /\ state' = "failed"
            /\ isReconnecting' = FALSE
            /\ UNCHANGED <<attempts, timers>>
       ELSE /\ state' = "reconnecting"
            /\ isReconnecting' = TRUE
            /\ attempts' = attempts + 1
            /\ timers' = timers + 1

\* Mutant: the transport was closed, and the timer recreates all the same.
TimerFiresClosed ==
  /\ timers > 0
  /\ timers' = timers - 1
  /\ Recreate("timer")
  /\ UNCHANGED <<state, closed, isReconnecting, attempts, callVars, socketVars>>

TimerFires ==
  /\ timers > 0
  /\ timers' = timers - 1
  /\ IF closed
     THEN isReconnecting' = FALSE /\ UNCHANGED <<peer, wireVars>>
     ELSE UNCHANGED isReconnecting /\ Recreate("timer")
  /\ UNCHANGED <<state, closed, attempts, callVars, socketVars>>

\* createOffer and setLocalDescription are through: the offer is sent, or queued while
\* the socket is not open, and whoever awaited the recreation goes on.
OfferReady ==
  /\ peer.step = "offering"
  /\ peer' = [peer EXCEPT !.step = "offered"]
  /\ IF socket = "open"
     THEN up' = Append(up, "current") /\ UNCHANGED outbox
     ELSE outbox' = Append(outbox, "current") /\ UNCHANGED up
  /\ isReconnecting' = (isReconnecting /\ peer.by # "timer")
  /\ IF peer.by = "connect"
     THEN call' = "done" /\ heartbeat' = TRUE
     ELSE UNCHANGED callVars
  /\ UNCHANGED <<state, closed, attempts, timers, down, socketVars>>

\* One of them fails: a timer's attempt is scheduled again, connect() fails, and
\* the status handler only logs.
OfferFails ==
  /\ peer.step = "offering"
  /\ timers < MaxTimers
  /\ peer' = [peer EXCEPT !.step = "failed"]
  /\ CASE peer.by = "timer" -> SchedulePeerReconnect(FALSE) /\ UNCHANGED call
       [] peer.by = "connect" ->
            state' = "failed" /\ call' = "failed" /\ UNCHANGED recoveryVars
       [] peer.by = "status" -> UNCHANGED <<state, recoveryVars, call>>
  /\ UNCHANGED <<closed, heartbeat, socketVars, wireVars>>

-----------------------------------------------------------------------------
(* The user *)

\* useWebRtc's connect makes the transport and calls its connect().
Connect ==
  /\ call = "idle"
  /\ ~closed
  /\ call' = "signaling"
  /\ state' = "connecting"
  /\ socket' = "connecting"
  /\ UNCHANGED <<closed, recoveryVars, peer, heartbeat, socketAttempts, socketTimer, wireVars>>

\* disconnect() of the hook and of the transport.  A socket that is still connecting
\* for connect() will report its failure later.
Disconnect ==
  /\ call # "idle"
  /\ ~closed
  /\ closed' = TRUE
  /\ state' = "disconnected"
  /\ isReconnecting' = FALSE /\ attempts' = 0 /\ UNCHANGED timers
  /\ peer' = NoPeer
  /\ heartbeat' = FALSE
  /\ socket' = IF call = "signaling" THEN "aborting" ELSE "none"
  /\ outbox' = <<>> /\ up' = <<>> /\ down' = <<>>
  /\ UNCHANGED <<call, socketAttempts, socketTimer>>

-----------------------------------------------------------------------------
(* The signaling client *)

\* onopen of the first socket: the status handler recreates the peer connection, and
\* connect(), resumed right after it, recreates it again.
FirstSocketOpens ==
  /\ socket = "connecting"
  /\ call = "signaling"
  /\ socket' = "open"
  /\ socketAttempts' = 0
  /\ state' = "reconnecting"
  /\ call' = "peer"
  /\ peer' = NewPeer("connect")
  /\ UNCHANGED <<closed, recoveryVars, heartbeat, socketTimer, wireVars>>

\* Mutant: the signaling socket comes back and the peer connection is not recreated.
SocketReopensAlone ==
  /\ socket = "connecting"
  /\ call # "signaling"
  /\ socket' = "open"
  /\ socketAttempts' = 0
  /\ outbox' = <<>>
  /\ up' = outbox
  /\ UNCHANGED <<state, closed, recoveryVars, peer, callVars, socketTimer, down>>

\* onopen of a later socket: the status handler first, then the queue is flushed,
\* with whatever it holds from before.
SocketReopens ==
  /\ socket = "connecting"
  /\ call # "signaling"
  /\ socket' = "open"
  /\ socketAttempts' = 0
  /\ outbox' = <<>>
  /\ IF state = "connected"
     THEN up' = outbox /\ UNCHANGED <<state, peer>>
     ELSE up' = Stale(outbox) /\ state' = "reconnecting" /\ peer' = NewPeer("status")
  /\ UNCHANGED <<closed, recoveryVars, callVars, socketTimer, down>>

\* onclose: scheduleReconnect, unless its attempts are used up.
SocketLost ==
  /\ socket' = "closed"
  /\ up' = <<>> /\ down' = <<>>
  /\ IF socketAttempts < MaxSocketAttempts
     THEN socketAttempts' = socketAttempts + 1 /\ socketTimer' = TRUE
     ELSE UNCHANGED <<socketAttempts, socketTimer>>
  /\ UNCHANGED <<closed, recoveryVars, peer, heartbeat, outbox>>

SocketDrops ==
  /\ socket = "open"
  /\ SocketLost
  /\ UNCHANGED <<state, call>>

\* onerror rejects the promise that connect() awaits, or a retry's that only logs.
SocketFails ==
  /\ socket = "connecting"
  /\ SocketLost
  /\ IF call = "signaling"
     THEN state' = "failed" /\ call' = "failed"
     ELSE UNCHANGED <<state, call>>

\* The socket that disconnect() closed while connect() was awaiting it.
SocketAborts ==
  /\ socket = "aborting"
  /\ socket' = "none"
  /\ state' = "failed"
  /\ call' = "failed"
  /\ UNCHANGED <<closed, recoveryVars, peer, heartbeat, socketAttempts, socketTimer, wireVars>>

SocketTimerFires ==
  /\ socketTimer
  /\ socketTimer' = FALSE
  /\ socket' = IF closed THEN socket ELSE "connecting"
  /\ UNCHANGED <<state, closed, recoveryVars, peer, callVars, socketAttempts, wireVars>>

-----------------------------------------------------------------------------
(* The host's side of the negotiation *)

\* The host answers every offer that reaches its socket.
HostAnswers ==
  /\ up # <<>>
  /\ up' = Tail(up)
  /\ down' = Append(down, Head(up))
  /\ UNCHANGED <<state, closed, recoveryVars, peer, callVars, socketVars, outbox>>

\* An answer is applied to the peer connection of the moment, which takes the first
\* one that comes after its offer and refuses the others.
AnswerArrives ==
  /\ down # <<>>
  /\ down' = Tail(down)
  /\ peer' = IF peer.step = "offered" /\ peer.remote = "none"
             THEN [peer EXCEPT !.remote = IF Head(down) = "current" THEN "own" ELSE "stale"]
             ELSE peer
  /\ UNCHANGED <<state, closed, recoveryVars, callVars, socketVars, outbox, up>>

-----------------------------------------------------------------------------
(* The data channel *)

ChannelOpens ==
  /\ peer.remote = "own"
  /\ peer.channel = "connecting"
  /\ peer' = [peer EXCEPT !.channel = "open"]
  /\ state' = "connected"
  /\ isReconnecting' = FALSE /\ attempts' = 0 /\ UNCHANGED timers
  /\ UNCHANGED <<closed, callVars, socketVars, wireVars>>

\* Mutant: the state tells of a new attempt that nobody makes.
LinkTroubleUnscheduled ==
  IF state = "connected"
  THEN state' = "reconnecting" /\ UNCHANGED recoveryVars
  ELSE UNCHANGED <<state, recoveryVars>>

\* What onclose and oniceconnectionstatechange do with bad news: nothing, unless
\* the transport believes it is connected.
LinkTrouble ==
  IF state = "connected"
  THEN SchedulePeerReconnect(isReconnecting)
  ELSE UNCHANGED <<state, recoveryVars>>

ChannelCloses ==
  /\ peer.channel = "open"
  /\ timers < MaxTimers
  /\ peer' = [peer EXCEPT !.channel = "closed"]
  /\ LinkTrouble
  /\ UNCHANGED <<closed, callVars, socketVars, wireVars>>

\* ICE reports disconnected, and the channel may outlive it.
IceDisconnects ==
  /\ peer.channel = "open"
  /\ timers < MaxTimers
  /\ LinkTrouble
  /\ UNCHANGED <<closed, peer, callVars, socketVars, wireVars>>

\* ICE reports that the peers cannot reach each other.
NegotiationFails ==
  /\ peer.channel = "connecting"
  /\ peer.step = "offered"
  /\ timers < MaxTimers
  /\ peer' = [peer EXCEPT !.channel = "closed"]
  /\ LinkTrouble
  /\ UNCHANGED <<closed, callVars, socketVars, wireVars>>

-----------------------------------------------------------------------------

User == Connect \/ Disconnect

\* What the browser and the host do in time.
Runtime ==
  \/ OfferReady \/ TimerFires \/ SocketTimerFires \/ SocketAborts
  \/ HostAnswers \/ AnswerArrives \/ ChannelOpens

Network ==
  \/ FirstSocketOpens \/ SocketReopens \/ SocketDrops \/ SocketFails
  \/ OfferFails \/ ChannelCloses \/ IceDisconnects \/ NegotiationFails

Next == User \/ Runtime \/ Network

Spec == Init /\ [][Next]_vars

\* Timers fire, promises settle, an answered offer leads to a connection unless the
\* network says otherwise.  The network and the user owe nothing.
Fairness ==
  /\ WF_vars(OfferReady) /\ WF_vars(TimerFires) /\ WF_vars(SocketTimerFires)
  /\ WF_vars(HostAnswers) /\ WF_vars(AnswerArrives) /\ WF_vars(ChannelOpens)

FairSpec == Spec /\ Fairness

-----------------------------------------------------------------------------
(* Properties *)

\* After disconnect() no timer, retry or late promise brings a peer connection, a
\* heartbeat or a socket back.
ClosedForGood == closed => peer = NoPeer /\ ~heartbeat /\ socket \in {"none", "aborting"}

\* The transport gives up when connect() failed or every attempt was used, not before.
GivesUpLate == state = "failed" => call = "failed" \/ attempts = MaxReconnectAttempts

\* A data channel is never open behind a state that stops the heartbeat, unless a
\* timer is about to replace it or the transport has given up.
OpenIsUsed ==
  peer.channel = "open" =>
    \/ state \in {"connected", "failed"}
    \/ state = "reconnecting" /\ timers > 0

\* The newest attempt can still succeed: its signaling socket is open, nothing failed,
\* and no message of an older attempt is on its way.
Promising ==
  /\ socket = "open"
  /\ peer.step # "failed"
  /\ peer.channel = "closed" => timers > 0
  /\ peer.remote # "stale"
  /\ up = SelectSeq(up, LAMBDA m : m = "current")
  /\ down = SelectSeq(down, LAMBDA m : m = "current")

\* A transport that is reconnecting with an attempt that can succeed gets its
\* channel back, or the attempt stops being one.
ChannelComesBack == (state = "reconnecting" /\ Promising) ~> (state # "reconnecting" \/ ~Promising)

\* useWebRtc.ts: an 80 ms heartbeat keeps the host's watchdog fed.  A connected
\* transport has its heartbeat.
ConnectedHasHeartbeat == state = "connected" => heartbeat

\* ARCHITECTURE_TARGET, WebRTC: no concurrent reconnect.  A reconnection that is still
\* pending never tears down the channel that another one has opened.
OpenChannelKept ==
  [][state = "connected" /\ peer.channel = "open" => peer'.channel # "connecting"]_vars

\* ARCHITECTURE_TARGET, WebRTC: no stale-session reconnect.  An answer is applied to
\* the peer connection whose offer it answers.
AnswersItsOffer == peer.remote # "stale"

\* WebRtcTransport.ts: automated recovery, bounded backoff.  A recovery attempt that
\* failed is followed by another one, until the transport gives up.
FailedAttemptIsRetried ==
  (state = "reconnecting" /\ peer.channel = "closed")
    ~> (state # "reconnecting" \/ peer.channel # "closed")

\* webrtcReliability.test.ts: disconnects cleanly.
DisconnectedStays == closed => state = "disconnected"

=============================================================================
