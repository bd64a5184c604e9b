--------------------------- MODULE TransportProofs ---------------------------
(***************************************************************************)
(* For any limits on attempts and timers: the transport's state keeps its  *)
(* types, nothing survives the user's disconnect, attempts are used up     *)
(* before the transport gives up, and an open channel is used.             *)
(***************************************************************************)
EXTENDS Transport, TLAPS

\* How far a peer connection can be, and who awaits it.
PeerShape ==
  /\ peer.step = "offering" => peer.remote = "none" /\ peer.channel = "connecting"
  /\ peer.remote \in {"own", "stale"} => peer.step = "offered"
  /\ peer.channel \in {"open", "closed"} => peer.step = "offered"
  /\ peer.step = "offering" /\ peer.by = "connect" => call = "peer"

\* Before connect() has its socket there is no peer connection and no timer.
Beginning ==
  /\ call \in {"idle", "signaling"} => peer = NoPeer /\ timers = 0
  /\ call = "idle" => socket = "none" /\ ~socketTimer /\ ~closed
  /\ socket = "aborting" => call = "signaling"

IInv == TypeOK /\ PeerShape /\ Beginning /\ ClosedForGood /\ GivesUpLate /\ OpenIsUsed

-----------------------------------------------------------------------------
(* Types: flags, peer connection, numbers and messages *)

FlagTypes ==
  /\ closed \in BOOLEAN /\ isReconnecting \in BOOLEAN
  /\ heartbeat \in BOOLEAN /\ socketTimer \in BOOLEAN

PeerType == peer \in PeerRecords \cup {NoPeer}

OtherTypes ==
  /\ state \in States
  /\ attempts \in 0 .. MaxReconnectAttempts
  /\ timers \in 0 .. MaxTimers
  /\ call \in {"idle", "signaling", "peer", "done", "failed"}
  /\ socket \in {"none", "connecting", "open", "closed", "aborting"}
  /\ socketAttempts \in 0 .. MaxSocketAttempts
  /\ outbox \in Seq(Labels) /\ up \in Seq(Labels) /\ down \in Seq(Labels)

LEMMA TypesSplit == TypeOK <=> FlagTypes /\ PeerType /\ OtherTypes
  BY Zenon DEF TypeOK, FlagTypes, PeerType, OtherTypes

LEMMA StaleType == ASSUME NEW messages \in Seq(Labels) PROVE Stale(messages) \in Seq(Labels)
  BY DEF Stale, Labels

\* Whatever has a step or a channel is a peer connection.
LEMMA APeer ==
  ASSUME PeerType, peer.step # "none" \/ peer.remote # "none" \/ peer.channel # "none"
  PROVE  peer \in PeerRecords
  BY DEF PeerType, NoPeer

LEMMA PeerUpdates ==
  ASSUME NEW p \in PeerRecords,
         NEW step \in {"offered", "failed"}, NEW remote \in {"own", "stale"},
         NEW channel \in {"open", "closed"}
  PROVE  /\ [p EXCEPT !.step = step] \in PeerRecords
         /\ [p EXCEPT !.remote = remote] \in PeerRecords
         /\ [p EXCEPT !.channel = channel] \in PeerRecords
  BY DEF PeerRecords

LEMMA ScheduleFlags ==
  ASSUME isReconnecting \in BOOLEAN, NEW running \in BOOLEAN, SchedulePeerReconnect(running)
  PROVE  isReconnecting' \in BOOLEAN
  BY Zenon DEF SchedulePeerReconnect, recoveryVars

LEMMA TroubleFlags ==
  ASSUME isReconnecting \in BOOLEAN, LinkTrouble
  PROVE  isReconnecting' \in BOOLEAN
  BY ScheduleFlags, Zenon DEF LinkTrouble, recoveryVars

LEMMA NextFlagTypes == ASSUME FlagTypes, PeerType, [Next]_vars PROVE FlagTypes'
  <1> USE DEF FlagTypes, callVars, recoveryVars, socketVars
  <1>1. CASE User \/ SocketTimerFires \/ SocketAborts \/ HostAnswers \/ AnswerArrives \/ ChannelOpens
    BY <1>1, Zenon
    DEF User, Connect, Disconnect, SocketTimerFires, SocketAborts, HostAnswers, AnswerArrives,
        ChannelOpens
  <1>2. CASE OfferReady \/ TimerFires
    BY <1>2, Zenon DEF OfferReady, TimerFires
  <1>3. CASE FirstSocketOpens \/ SocketReopens \/ SocketDrops \/ SocketFails
    BY <1>3, Zenon DEF FirstSocketOpens, SocketReopens, SocketDrops, SocketFails, SocketLost
  <1>4. CASE OfferFails
    <2>1. peer.by \in {"connect", "timer", "status"}
      <3>1. peer \in PeerRecords
        BY <1>4, APeer DEF OfferFails
      <3>. QED
        BY <3>1 DEF PeerRecords
    <2>2. isReconnecting' \in BOOLEAN
      <3>1. CASE peer.by = "timer"
        BY <1>4, <3>1, ScheduleFlags DEF OfferFails
      <3>2. CASE peer.by \in {"connect", "status"}
        BY <1>4, <3>2 DEF OfferFails
      <3>. QED
        BY <2>1, <3>1, <3>2
    <2>. QED
      BY <1>4, <2>2, Zenon DEF OfferFails
  <1>5. CASE ChannelCloses \/ IceDisconnects \/ NegotiationFails
    BY <1>5, TroubleFlags, Zenon DEF ChannelCloses, IceDisconnects, NegotiationFails
  <1>6. CASE UNCHANGED vars
    BY <1>6, Zenon DEF vars
  <1>. QED
    BY <1>1, <1>2, <1>3, <1>4, <1>5, <1>6, Zenon DEF Next, Runtime, Network

LEMMA NextPeerType == ASSUME PeerType, [Next]_vars PROVE PeerType'
  <1>1. CASE Disconnect
    BY <1>1 DEF Disconnect, PeerType
  <1>2. CASE OfferReady \/ OfferFails
    <2>1. peer \in PeerRecords
      BY <1>2, APeer DEF OfferReady, OfferFails
    <2>. QED
      BY <1>2, <2>1, PeerUpdates DEF OfferReady, OfferFails, PeerType
  <1>3. CASE AnswerArrives
    <2>1. CASE peer.step = "offered"
      <3>1. peer \in PeerRecords
        BY <2>1, APeer
      <3>. QED
        BY <1>3, <3>1, PeerUpdates DEF AnswerArrives, PeerType
    <2>2. CASE peer.step # "offered"
      BY <1>3, <2>2 DEF AnswerArrives, PeerType
    <2>. QED
      BY <2>1, <2>2
  <1>4. CASE ChannelOpens \/ ChannelCloses \/ NegotiationFails
    <2>1. peer \in PeerRecords
      BY <1>4, APeer DEF ChannelOpens, ChannelCloses, NegotiationFails
    <2>. QED
      BY <1>4, <2>1, PeerUpdates DEF ChannelOpens, ChannelCloses, NegotiationFails, PeerType
  <1>5. CASE TimerFires \/ FirstSocketOpens \/ SocketReopens
    <2>1. \A by \in {"connect", "timer", "status"} : NewPeer(by) \in PeerRecords
      BY DEF NewPeer, PeerRecords
    <2>. QED
      BY <1>5, <2>1 DEF TimerFires, Recreate, FirstSocketOpens, SocketReopens, PeerType
  <1>6. CASE \/ Connect \/ SocketTimerFires \/ SocketAborts \/ HostAnswers
             \/ SocketDrops \/ SocketFails \/ IceDisconnects \/ UNCHANGED vars
    <2>1. peer' = peer
      BY <1>6, Zenon
      DEF Connect, SocketTimerFires, SocketAborts, HostAnswers, SocketDrops, SocketFails, SocketLost,
          IceDisconnects, vars
    <2>. QED
      BY <2>1 DEF PeerType
  <1>. QED
    BY <1>1, <1>2, <1>3, <1>4, <1>5, <1>6, Zenon DEF Next, User, Runtime, Network

LEMMA ScheduleNumbers ==
  ASSUME OtherTypes, timers < MaxTimers, NEW running, SchedulePeerReconnect(running)
  PROVE  /\ state' \in States
         /\ attempts' \in 0 .. MaxReconnectAttempts
         /\ timers' \in 0 .. MaxTimers
  <1>1. CASE running \/ closed
    BY <1>1 DEF SchedulePeerReconnect, recoveryVars, OtherTypes
  <1>2. CASE ~(running \/ closed) /\ attempts >= MaxReconnectAttempts
    BY <1>2 DEF SchedulePeerReconnect, OtherTypes, States
  <1>3. CASE ~(running \/ closed) /\ ~(attempts >= MaxReconnectAttempts)
    BY <1>3, AttemptsAssumption DEF SchedulePeerReconnect, OtherTypes, States
  <1>. QED
    BY <1>1, <1>2, <1>3

LEMMA TroubleNumbers ==
  ASSUME OtherTypes, timers < MaxTimers, LinkTrouble
  PROVE  /\ state' \in States
         /\ attempts' \in 0 .. MaxReconnectAttempts
         /\ timers' \in 0 .. MaxTimers
  BY ScheduleNumbers DEF LinkTrouble, recoveryVars, OtherTypes

LEMMA NextOtherTypes == ASSUME PeerType, OtherTypes, [Next]_vars PROVE OtherTypes'
  <1> USE AttemptsAssumption
  <1>1. CASE Connect
    BY <1>1 DEF Connect, OtherTypes, States, recoveryVars, wireVars
  <1>2. CASE Disconnect
    BY <1>2 DEF Disconnect, OtherTypes, States
  <1>3. CASE OfferReady
    <2>1. /\ outbox' = outbox \/ outbox' = Append(outbox, "current")
          /\ up' = up \/ up' = Append(up, "current")
          /\ call' = call \/ call' = "done"
          /\ UNCHANGED <<state, attempts, timers, down, socket, socketAttempts>>
      BY <1>3, Zenon DEF OfferReady, callVars, socketVars
    <2>. QED
      <3>1. Append(outbox, "current") \in Seq(Labels) /\ Append(up, "current") \in Seq(Labels)
        BY DEF OtherTypes, Labels
      <3>. QED
        BY <2>1, <3>1, Zenon DEF OtherTypes
  <1>4. CASE TimerFires
    <2>1. CASE closed
      BY <1>4, <2>1 DEF TimerFires, OtherTypes, callVars, socketVars, wireVars
    <2>2. CASE ~closed
      BY <1>4, <2>2, StaleType DEF TimerFires, Recreate, OtherTypes, callVars, socketVars
    <2>. QED
      BY <2>1, <2>2
  <1>5. CASE SocketTimerFires \/ SocketAborts
    BY <1>5 DEF SocketTimerFires, SocketAborts, OtherTypes, States, recoveryVars, callVars, wireVars
  <1>6. CASE HostAnswers
    <2>1. Tail(up) \in Seq(Labels) /\ Head(up) \in Labels
      BY <1>6 DEF HostAnswers, OtherTypes
    <2>. QED
      BY <1>6, <2>1 DEF HostAnswers, OtherTypes, recoveryVars, callVars, socketVars
  <1>7. CASE AnswerArrives
    <2>1. Tail(down) \in Seq(Labels)
      BY <1>7 DEF AnswerArrives, OtherTypes
    <2>. QED
      BY <1>7, <2>1 DEF AnswerArrives, OtherTypes, recoveryVars, callVars, socketVars
  <1>8. CASE ChannelOpens
    BY <1>8 DEF ChannelOpens, OtherTypes, States, callVars, socketVars, wireVars
  <1>9. CASE FirstSocketOpens
    <2>1. /\ socket' = "open" /\ socketAttempts' = 0 /\ state' = "reconnecting" /\ call' = "peer"
          /\ UNCHANGED <<attempts, timers, outbox, up, down>>
      BY <1>9, Zenon DEF FirstSocketOpens, recoveryVars, wireVars
    <2>. QED
      BY <2>1 DEF OtherTypes, States
  <1>10. CASE SocketReopens
    <2>1. /\ socket' = "open" /\ socketAttempts' = 0 /\ outbox' = <<>>
          /\ up' = outbox \/ up' = Stale(outbox)
          /\ state' = state \/ state' = "reconnecting"
          /\ UNCHANGED <<attempts, timers, call, down>>
      BY <1>10, Zenon DEF SocketReopens, recoveryVars, callVars
    <2>. QED
      BY <2>1, StaleType DEF OtherTypes, States
  <1>11. CASE SocketDrops \/ SocketFails
    <2>1. /\ socket' = "closed" /\ up' = <<>> /\ down' = <<>> /\ outbox' = outbox
          /\ \/ socketAttempts < MaxSocketAttempts /\ socketAttempts' = socketAttempts + 1
             \/ socketAttempts' = socketAttempts
          /\ state' = state \/ state' = "failed"
          /\ call' = call \/ call' = "failed"
          /\ UNCHANGED <<attempts, timers>>
      BY <1>11, Zenon DEF SocketDrops, SocketFails, SocketLost, recoveryVars
    <2>. QED
      BY <2>1 DEF OtherTypes, States
  <1>12. CASE OfferFails
    <2>1. peer.by \in {"connect", "timer", "status"}
      <3>1. peer \in PeerRecords
        BY <1>12, APeer DEF OfferFails
      <3>. QED
        BY <3>1 DEF PeerRecords
    <2>2. CASE peer.by = "timer"
      BY <1>12, <2>2, ScheduleNumbers DEF OfferFails, OtherTypes, socketVars, wireVars
    <2>3. CASE peer.by = "connect"
      BY <1>12, <2>3 DEF OfferFails, OtherTypes, States, recoveryVars, socketVars, wireVars
    <2>4. CASE peer.by = "status"
      BY <1>12, <2>4 DEF OfferFails, OtherTypes, recoveryVars, socketVars, wireVars
    <2>. QED
      BY <2>1, <2>2, <2>3, <2>4
  <1>13. CASE ChannelCloses \/ IceDisconnects \/ NegotiationFails
    BY <1>13, TroubleNumbers
    DEF ChannelCloses, IceDisconnects, NegotiationFails, OtherTypes, callVars, socketVars, wireVars
  <1>14. CASE UNCHANGED vars
    BY <1>14 DEF vars, recoveryVars, callVars, socketVars, wireVars, OtherTypes
  <1>. QED
    BY <1>1, <1>2, <1>3, <1>4, <1>5, <1>6, <1>7, <1>8, <1>9, <1>10, <1>11, <1>12, <1>13, <1>14,
       Zenon DEF Next, User, Runtime, Network

LEMMA NextTypeOK == ASSUME TypeOK, [Next]_vars PROVE TypeOK'
  BY TypesSplit, NextFlagTypes, NextPeerType, NextOtherTypes, PTL

-----------------------------------------------------------------------------
(* The rest of the invariant *)

LEMMA InitIInv == Init => IInv
  <1> SUFFICES ASSUME Init PROVE IInv
    OBVIOUS
  <1>1. FlagTypes
    BY Zenon DEF Init, FlagTypes
  <1>2. PeerType
    BY DEF Init, PeerType
  <1>3. OtherTypes
    BY AttemptsAssumption DEF Init, OtherTypes, States
  <1>4. PeerShape /\ OpenIsUsed
    BY DEF Init, PeerShape, OpenIsUsed, NoPeer
  <1>5. Beginning
    BY Zenon DEF Init, Beginning
  <1>6. ClosedForGood
    BY Zenon DEF Init, ClosedForGood
  <1>7. GivesUpLate
    BY DEF Init, GivesUpLate
  <1>. QED
    BY <1>1, <1>2, <1>3, <1>4, <1>5, <1>6, <1>7, TypesSplit, Zenon DEF IInv

LEMMA NextPeerShape == ASSUME TypeOK, PeerShape, Beginning, [Next]_vars PROVE PeerShape'
  <1>a. PeerType
    BY TypesSplit
  <1>1. CASE Disconnect
    BY <1>1 DEF Disconnect, PeerShape, NoPeer
  <1>2. CASE OfferReady \/ OfferFails
    <2>1. peer \in PeerRecords
      BY <1>a, <1>2, APeer DEF OfferReady, OfferFails
    <2>2. /\ peer.step = "offering"
          /\ peer' = [peer EXCEPT !.step = "offered"] \/ peer' = [peer EXCEPT !.step = "failed"]
      BY <1>2, Zenon DEF OfferReady, OfferFails
    <2>. QED
      BY <2>1, <2>2 DEF PeerShape, PeerRecords
  <1>3. CASE AnswerArrives
    <2>1. call' = call
      BY <1>3 DEF AnswerArrives, callVars
    <2>2. CASE peer.step = "offered" /\ peer.remote = "none"
      <3>1. peer \in PeerRecords
        BY <1>a, <2>2, APeer
      <3>. QED
        BY <1>3, <2>2, <3>1 DEF AnswerArrives, PeerShape, PeerRecords
    <2>3. CASE ~(peer.step = "offered" /\ peer.remote = "none")
      BY <1>3, <2>1, <2>3 DEF AnswerArrives, PeerShape
    <2>. QED
      BY <2>2, <2>3
  <1>4. CASE ChannelOpens \/ ChannelCloses \/ NegotiationFails
    <2>1. peer \in PeerRecords
      BY <1>a, <1>4, APeer DEF ChannelOpens, ChannelCloses, NegotiationFails
    <2>2. /\ peer.remote = "own" \/ peer.channel = "open" \/ peer.step = "offered"
          /\ peer' = [peer EXCEPT !.channel = "open"] \/ peer' = [peer EXCEPT !.channel = "closed"]
      BY <1>4, Zenon DEF ChannelOpens, ChannelCloses, NegotiationFails
    <2>. QED
      BY <2>1, <2>2 DEF PeerShape, PeerRecords
  <1>5. CASE FirstSocketOpens
    BY <1>5 DEF FirstSocketOpens, PeerShape, NewPeer
  <1>6. CASE TimerFires
    BY <1>6 DEF TimerFires, Recreate, PeerShape, NewPeer, callVars
  <1>7. CASE SocketReopens
    BY <1>7 DEF SocketReopens, PeerShape, NewPeer, callVars
  <1>8. CASE Connect \/ SocketAborts \/ SocketFails
    <2>1. peer' = peer
      BY <1>8, Zenon DEF Connect, SocketAborts, SocketFails, SocketLost
    <2>2. call' = call \/ call \in {"idle", "signaling"}
      BY <1>8, Zenon DEF Connect, SocketAborts, SocketFails, Beginning
    <2>. QED
      BY <2>1, <2>2 DEF PeerShape, Beginning, NoPeer
  <1>9. CASE SocketTimerFires \/ HostAnswers \/ SocketDrops \/ IceDisconnects \/ UNCHANGED vars
    <2>1. peer' = peer /\ call' = call
      BY <1>9, Zenon
      DEF SocketTimerFires, HostAnswers, SocketDrops, SocketLost, IceDisconnects, vars, callVars
    <2>. QED
      BY <2>1 DEF PeerShape
  <1>. QED
    BY <1>1, <1>2, <1>3, <1>4, <1>5, <1>6, <1>7, <1>8, <1>9, Zenon
    DEF Next, User, Runtime, Network

LEMMA NextBeginning == ASSUME TypeOK, PeerShape, Beginning, [Next]_vars PROVE Beginning'
  <1> USE DEF Beginning
  <1>a. PeerType
    BY TypesSplit
  <1>b. timers \in Nat
    BY AttemptsAssumption DEF TypeOK
  <1>1. CASE Connect
    BY <1>1, Zenon DEF Connect, recoveryVars
  <1>2. CASE Disconnect
    BY <1>2, Zenon DEF Disconnect
  <1>3. CASE OfferReady \/ OfferFails
    <2>1. peer # NoPeer
      <3>1. peer.step = "offering"
        BY <1>3, Zenon DEF OfferReady, OfferFails
      <3>. QED
        BY <3>1 DEF NoPeer
    <2>2. call \notin {"idle", "signaling"} /\ socket # "aborting"
      BY <2>1
    <2>3. call' = call \/ call' \in {"done", "failed"}
      <3>1. CASE OfferReady
        BY <3>1, Zenon DEF OfferReady, callVars
      <3>2. CASE OfferFails
        <4>1. peer.by \in {"connect", "timer", "status"}
          BY <1>a, <3>2, APeer DEF OfferFails, PeerRecords
        <4>. QED
          BY <3>2, <4>1 DEF OfferFails
      <3>. QED
        BY <1>3, <3>1, <3>2
    <2>4. socket' = socket
      BY <1>3, Zenon DEF OfferReady, OfferFails, socketVars
    <2>. QED
      BY <2>2, <2>3, <2>4
  <1>4. CASE ChannelOpens \/ ChannelCloses \/ NegotiationFails \/ IceDisconnects
    <2>1. peer # NoPeer
      BY <1>4 DEF ChannelOpens, ChannelCloses, NegotiationFails, IceDisconnects, NoPeer
    <2>2. call \notin {"idle", "signaling"} /\ socket # "aborting"
      BY <2>1
    <2>3. call' = call /\ socket' = socket
      BY <1>4, Zenon
      DEF ChannelOpens, ChannelCloses, NegotiationFails, IceDisconnects, callVars, socketVars
    <2>. QED
      BY <2>2, <2>3
  <1>5. CASE AnswerArrives
    <2>1. UNCHANGED <<call, socket, socketTimer, closed, timers>>
      BY <1>5, Zenon DEF AnswerArrives, callVars, socketVars, recoveryVars
    <2>2. peer = NoPeer => peer' = NoPeer
      BY <1>5 DEF AnswerArrives, NoPeer
    <2>. QED
      BY <2>1, <2>2, Zenon
  <1>6. CASE TimerFires
    <2>1. call \notin {"idle", "signaling"}
      BY <1>6, <1>b DEF TimerFires
    <2>2. call' = call /\ socket' = socket
      BY <1>6, Zenon DEF TimerFires, callVars, socketVars
    <2>. QED
      BY <2>1, <2>2
  <1>7. CASE FirstSocketOpens
    BY <1>7 DEF FirstSocketOpens
  <1>8. CASE SocketReopens
    <2>1. call \notin {"idle", "signaling"}
      BY <1>8 DEF SocketReopens
    <2>2. call' = call /\ socket' = "open"
      BY <1>8, Zenon DEF SocketReopens, callVars
    <2>. QED
      BY <2>1, <2>2
  <1>9. CASE SocketDrops \/ SocketFails
    <2>1. /\ call # "idle"
          /\ socket' = "closed" /\ peer' = peer /\ timers' = timers
          /\ call' = call \/ call' = "failed"
      BY <1>9 DEF SocketDrops, SocketFails, SocketLost, recoveryVars
    <2>. QED
      BY <2>1
  <1>10. CASE SocketAborts
    <2>1. call' = "failed" /\ socket' = "none"
      BY <1>10, Zenon DEF SocketAborts
    <2>. QED
      BY <2>1
  <1>11. CASE SocketTimerFires
    <2>1. /\ call # "idle"
          /\ UNCHANGED <<call, peer, timers>>
          /\ socket' = socket \/ socket' = "connecting"
      BY <1>11, Zenon DEF SocketTimerFires, callVars, recoveryVars
    <2>. QED
      BY <2>1
  <1>12. CASE HostAnswers \/ UNCHANGED vars
    <2>1. UNCHANGED <<call, socket, socketTimer, closed, timers, peer>>
      BY <1>12, Zenon DEF HostAnswers, vars, callVars, socketVars, recoveryVars
    <2>. QED
      BY <2>1, Zenon
  <1>. QED
    BY <1>1, <1>2, <1>3, <1>4, <1>5, <1>6, <1>7, <1>8, <1>9, <1>10, <1>11, <1>12, Zenon
    DEF Next, User, Runtime, Network

LEMMA NextClosedForGood == ASSUME Beginning, ClosedForGood, [Next]_vars PROVE ClosedForGood'
  <1> USE DEF ClosedForGood
  <1>1. CASE Connect
    BY <1>1, Zenon DEF Connect
  <1>2. CASE Disconnect
    <2>1. peer' = NoPeer /\ heartbeat' = FALSE /\ socket' \in {"none", "aborting"}
      BY <1>2 DEF Disconnect
    <2>. QED
      BY <2>1, Zenon
  <1>3. CASE OfferReady \/ OfferFails
    <2>1. peer.step = "offering" /\ closed' = closed
      BY <1>3, Zenon DEF OfferReady, OfferFails
    <2>2. peer # NoPeer
      BY <2>1 DEF NoPeer
    <2>. QED
      BY <2>1, <2>2, Zenon
  <1>4. CASE ChannelOpens \/ ChannelCloses \/ NegotiationFails \/ IceDisconnects
    <2>1. /\ peer.channel = "connecting" \/ peer.channel = "open"
          /\ closed' = closed
      BY <1>4, Zenon DEF ChannelOpens, ChannelCloses, NegotiationFails, IceDisconnects
    <2>2. peer # NoPeer
      BY <2>1 DEF NoPeer
    <2>. QED
      BY <2>1, <2>2, Zenon
  <1>5. CASE AnswerArrives
    <2>1. UNCHANGED <<closed, heartbeat, socket>>
      BY <1>5, Zenon DEF AnswerArrives, callVars, socketVars
    <2>2. peer = NoPeer => peer' = NoPeer
      BY <1>5 DEF AnswerArrives, NoPeer
    <2>. QED
      BY <2>1, <2>2, Zenon
  <1>6. CASE TimerFires
    BY <1>6, Zenon DEF TimerFires, callVars, socketVars
  <1>7. CASE FirstSocketOpens \/ SocketReopens \/ SocketDrops \/ SocketFails
    <2>1. socket \in {"connecting", "open"} /\ closed' = closed
      BY <1>7, Zenon DEF FirstSocketOpens, SocketReopens, SocketDrops, SocketFails, SocketLost
    <2>2. socket \notin {"none", "aborting"}
      BY <2>1
    <2>. QED
      BY <2>1, <2>2, Zenon
  <1>8. CASE SocketAborts
    BY <1>8, Zenon DEF SocketAborts
  <1>9. CASE SocketTimerFires
    BY <1>9, Zenon DEF SocketTimerFires, callVars
  <1>10. CASE HostAnswers \/ UNCHANGED vars
    BY <1>10, Zenon DEF HostAnswers, vars, callVars, socketVars
  <1>. QED
    BY <1>1, <1>2, <1>3, <1>4, <1>5, <1>6, <1>7, <1>8, <1>9, <1>10, Zenon
    DEF Next, User, Runtime, Network

\* Scheduling fails when the attempts are used up; otherwise a timer is about to run.
LEMMA ScheduleOutcome ==
  ASSUME OtherTypes, NEW running, SchedulePeerReconnect(running)
  PROVE  \/ UNCHANGED <<state, attempts, timers>>
         \/ state' = "failed" /\ attempts' = attempts /\ attempts = MaxReconnectAttempts
         \/ state' = "reconnecting" /\ timers' > 0
  <1>1. CASE running \/ closed
    BY <1>1, Zenon DEF SchedulePeerReconnect, recoveryVars
  <1>2. CASE ~(running \/ closed) /\ attempts >= MaxReconnectAttempts
    <2>1. state' = "failed" /\ attempts' = attempts
      BY <1>2, Zenon DEF SchedulePeerReconnect
    <2>. QED
      BY <1>2, <2>1, AttemptsAssumption DEF OtherTypes
  <1>3. CASE ~(running \/ closed) /\ ~(attempts >= MaxReconnectAttempts)
    <2>1. state' = "reconnecting" /\ timers' = timers + 1
      BY <1>3, Zenon DEF SchedulePeerReconnect
    <2>. QED
      BY <2>1, AttemptsAssumption DEF OtherTypes
  <1>. QED
    BY <1>1, <1>2, <1>3, Zenon

LEMMA TroubleOutcome ==
  ASSUME OtherTypes, LinkTrouble
  PROVE  \/ UNCHANGED <<state, attempts, timers>>
         \/ state' = "failed" /\ attempts' = attempts /\ attempts = MaxReconnectAttempts
         \/ state' = "reconnecting" /\ timers' > 0
  BY ScheduleOutcome, Zenon DEF LinkTrouble, recoveryVars

LEMMA NextGivesUpLate ==
  ASSUME TypeOK, PeerShape, Beginning, GivesUpLate, [Next]_vars PROVE GivesUpLate'
  <1> USE DEF GivesUpLate
  <1>a. OtherTypes
    BY TypesSplit
  <1>1. CASE Connect \/ Disconnect \/ FirstSocketOpens \/ SocketAborts \/ ChannelOpens
    <2>1. state' # "failed" \/ call' = "failed"
      <3>1. \/ state' \in {"connecting", "disconnected", "reconnecting", "connected"}
            \/ call' = "failed"
        BY <1>1, Zenon DEF Connect, Disconnect, FirstSocketOpens, SocketAborts, ChannelOpens
      <3>. QED
        BY <3>1
    <2>. QED
      BY <2>1
  <1>2. CASE OfferReady
    <2>1. /\ UNCHANGED <<state, attempts>>
          /\ call' = call \/ (peer.by = "connect" /\ peer.step = "offering")
      BY <1>2, Zenon DEF OfferReady, callVars
    <2>. QED
      BY <2>1 DEF PeerShape
  <1>3. CASE OfferFails
    <2>1. peer.by \in {"connect", "timer", "status"}
      <3>1. peer \in PeerRecords
        BY <1>3, TypesSplit, APeer DEF OfferFails
      <3>. QED
        BY <3>1 DEF PeerRecords
    <2>2. CASE peer.by = "timer"
      <3>1. call' = call
        BY <1>3, <2>2 DEF OfferFails
      <3>2. \/ UNCHANGED <<state, attempts, timers>>
            \/ state' = "failed" /\ attempts' = attempts /\ attempts = MaxReconnectAttempts
            \/ state' = "reconnecting" /\ timers' > 0
        BY <1>3, <1>a, <2>2, ScheduleOutcome DEF OfferFails
      <3>. QED
        BY <3>1, <3>2
    <2>3. CASE peer.by = "connect"
      BY <1>3, <2>3 DEF OfferFails
    <2>4. CASE peer.by = "status"
      BY <1>3, <2>4 DEF OfferFails, recoveryVars
    <2>. QED
      BY <2>1, <2>2, <2>3, <2>4
  <1>4. CASE ChannelCloses \/ NegotiationFails \/ IceDisconnects
    <2>1. call' = call /\ LinkTrouble
      BY <1>4, Zenon DEF ChannelCloses, NegotiationFails, IceDisconnects, callVars
    <2>. QED
      BY <1>a, <2>1, TroubleOutcome
  <1>5. CASE SocketReopens \/ SocketDrops \/ SocketFails
    <2>1. /\ attempts' = attempts
          /\ \/ state' = "reconnecting"
             \/ state' = state /\ call' = call
             \/ call' = "failed"
      BY <1>5, Zenon
      DEF SocketReopens, SocketDrops, SocketFails, SocketLost, recoveryVars, callVars
    <2>. QED
      BY <2>1
  <1>6. CASE \/ TimerFires \/ SocketTimerFires \/ HostAnswers \/ AnswerArrives \/ UNCHANGED vars
    <2>1. UNCHANGED <<state, attempts, call>>
      BY <1>6, Zenon
      DEF TimerFires, SocketTimerFires, HostAnswers, AnswerArrives, vars, recoveryVars, callVars
    <2>. QED
      BY <2>1
  <1>. QED
    BY <1>1, <1>2, <1>3, <1>4, <1>5, <1>6, Zenon DEF Next, User, Runtime, Network

LEMMA NextOpenIsUsed ==
  ASSUME TypeOK, PeerShape, Beginning, ClosedForGood, OpenIsUsed, [Next]_vars PROVE OpenIsUsed'
  <1> USE DEF OpenIsUsed
  <1>a. PeerType /\ OtherTypes
    BY TypesSplit
  <1>1. CASE Connect
    <2>1. peer = NoPeer /\ peer' = peer
      BY <1>1, Zenon DEF Connect, Beginning
    <2>. QED
      BY <2>1 DEF NoPeer
  <1>2. CASE Disconnect
    <2>1. peer' = NoPeer
      BY <1>2, Zenon DEF Disconnect
    <2>. QED
      BY <2>1 DEF NoPeer
  <1>3. CASE OfferReady \/ OfferFails
    <2>1. peer \in PeerRecords
      BY <1>a, <1>3, APeer DEF OfferReady, OfferFails
    <2>2. /\ peer.step = "offering"
          /\ peer' = [peer EXCEPT !.step = "offered"] \/ peer' = [peer EXCEPT !.step = "failed"]
      BY <1>3, Zenon DEF OfferReady, OfferFails
    <2>3. peer'.channel = "connecting"
      BY <2>1, <2>2 DEF PeerShape, PeerRecords
    <2>. QED
      BY <2>3
  <1>4. CASE FirstSocketOpens
    <2>1. peer' = NewPeer("connect")
      BY <1>4, Zenon DEF FirstSocketOpens
    <2>. QED
      BY <2>1 DEF NewPeer
  <1>5. CASE SocketReopens
    <2>1. \/ UNCHANGED <<state, peer, timers>>
          \/ peer' = NewPeer("status")
      BY <1>5, Zenon DEF SocketReopens, recoveryVars
    <2>. QED
      BY <2>1 DEF NewPeer
  <1>6. CASE TimerFires
    <2>1. CASE closed
      <3>1. peer' = NoPeer
        BY <1>6, <2>1, Zenon DEF TimerFires, ClosedForGood
      <3>. QED
        BY <3>1 DEF NoPeer
    <2>2. CASE ~closed
      <3>1. peer' = NewPeer("timer")
        BY <1>6, <2>2, Zenon DEF TimerFires, Recreate
      <3>. QED
        BY <3>1 DEF NewPeer
    <2>. QED
      BY <2>1, <2>2, Zenon
  <1>7. CASE SocketFails
    <2>1. peer' = peer /\ timers' = timers /\ (state' = state \/ call = "signaling")
      BY <1>7, Zenon DEF SocketFails, SocketLost, recoveryVars
    <2>. QED
      BY <2>1 DEF Beginning, NoPeer
  <1>8. CASE SocketAborts
    BY <1>8 DEF SocketAborts
  <1>9. CASE ChannelOpens
    BY <1>9 DEF ChannelOpens
  <1>10. CASE ChannelCloses \/ NegotiationFails
    <2>1. peer \in PeerRecords
      BY <1>a, <1>10, APeer DEF ChannelCloses, NegotiationFails
    <2>2. peer' = [peer EXCEPT !.channel = "closed"]
      BY <1>10, Zenon DEF ChannelCloses, NegotiationFails
    <2>3. peer'.channel = "closed"
      BY <2>1, <2>2 DEF PeerRecords
    <2>. QED
      BY <2>3
  <1>11. CASE IceDisconnects
    <2>1. peer' = peer /\ LinkTrouble
      BY <1>11, Zenon DEF IceDisconnects
    <2>. QED
      BY <1>a, <2>1, TroubleOutcome
  <1>12. CASE AnswerArrives
    <2>1. UNCHANGED <<state, timers>>
      BY <1>12, Zenon DEF AnswerArrives, recoveryVars
    <2>2. CASE peer.step = "offered" /\ peer.remote = "none"
      <3>1. peer \in PeerRecords
        BY <1>a, <2>2, APeer
      <3>2. peer'.channel = peer.channel
        BY <1>12, <2>2, <3>1 DEF AnswerArrives, PeerRecords
      <3>. QED
        BY <2>1, <3>2
    <2>3. CASE ~(peer.step = "offered" /\ peer.remote = "none")
      <3>1. peer' = peer
        BY <1>12, <2>3, Zenon DEF AnswerArrives
      <3>. QED
        BY <2>1, <3>1
    <2>. QED
      BY <2>2, <2>3, Zenon
  <1>13. CASE SocketDrops \/ SocketTimerFires \/ HostAnswers \/ UNCHANGED vars
    <2>1. UNCHANGED <<state, peer, timers>>
      BY <1>13, Zenon
      DEF SocketDrops, SocketLost, SocketTimerFires, HostAnswers, vars, recoveryVars
    <2>. QED
      BY <2>1
  <1>. QED
    BY <1>1, <1>2, <1>3, <1>4, <1>5, <1>6, <1>7, <1>8, <1>9, <1>10, <1>11, <1>12, <1>13, Zenon
    DEF Next, User, Runtime, Network

LEMMA Invariance == Spec => []IInv
  <1>1. IInv /\ [Next]_vars => IInv'
    <2> SUFFICES ASSUME IInv, [Next]_vars PROVE IInv'
      OBVIOUS
    <2>1. TypeOK'
      BY NextTypeOK, Zenon DEF IInv
    <2>2. PeerShape' /\ Beginning'
      BY NextPeerShape, NextBeginning, Zenon DEF IInv
    <2>3. ClosedForGood'
      BY NextClosedForGood, Zenon DEF IInv
    <2>4. GivesUpLate' /\ OpenIsUsed'
      BY NextGivesUpLate, NextOpenIsUsed, Zenon DEF IInv
    <2>. QED
      BY <2>1, <2>2, <2>3, <2>4, Zenon DEF IInv
  <1>. QED
    BY <1>1, InitIInv, PTL DEF Spec

-----------------------------------------------------------------------------

\* The transport's attempt counters stay within their limits, a schedule is never made
\* beyond them, and a peer connection only takes the steps of a negotiation.
THEOREM TransportTypeCorrect == Spec => []TypeOK
  BY Invariance, PTL DEF IInv

\* disconnect() is final: no timer that is still pending, no promise that settles late
\* and no retry brings a peer connection, a heartbeat or an open socket back.
THEOREM NothingAfterDisconnect == Spec => []ClosedForGood
  BY Invariance, PTL DEF IInv

\* schedulePeerReconnect gives up only when its attempts are used up, whatever made it
\* run; else a failed transport is one whose connect() failed.
THEOREM AttemptsUsedUp == Spec => []GivesUpLate
  BY Invariance, PTL DEF IInv

\* ICE trouble, lost channels and recreated peer connections never leave an open data
\* channel behind a state in which nobody uses it, unless a timer will replace it.
THEOREM OpenChannelsUsed == Spec => []OpenIsUsed
  BY Invariance, PTL DEF IInv

=============================================================================
