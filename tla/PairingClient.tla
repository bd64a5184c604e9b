----------------------------- MODULE PairingClient -----------------------------
(***************************************************************************)
(* How the web client pairs and connects: the pairing screen with its QR   *)
(* scanner, PairingManager and usePairing, and useWebRtc.  An attempt is   *)
(* one call of pairWithParams and what follows it.  Nothing ends a         *)
(* handshake that is under way, so attempts overlap once the first is      *)
(* cancelled.  The transport's own states are the Transport module's; here *)
(* it reports any of them until it is closed.                              *)
(***************************************************************************)
EXTENDS Naturals

CONSTANTS
  Attempts,    \* pairing attempts
  MaxPrompts   \* bound on the camera prompts awaiting an answer, and on the streams:
               \* no more are asked for, or granted, beyond it

\* The first prompt is there when the app starts.
ASSUME PromptsAssumption == MaxPrompts \in Nat \ {0}

None == "none"

VARIABLES
  phase,     \* per attempt: "unused", "shaking", "opening", "up", "over"
  stage,     \* usePairing's stage
  session,   \* the attempt whose session the PairingManager keeps
  current,   \* the attempt whose transport transportRef holds
  live,      \* attempts whose transport has not been closed
  reported,  \* per attempt, the state of its transport
  conn,      \* useWebRtc's connection state
  timer,     \* heartbeatTimerRef is set
  beats,     \* heartbeat intervals that run
  tab,       \* the pairing screen's tab: "qr" or "manual"
  prompts,   \* camera prompts of the scanner awaiting an answer
  gone,      \* those of scanners that have been unmounted
  stream,    \* the scanner's streamRef is set
  streams,   \* cameras that are on
  detected,  \* isSuccessRef: a code was read less than 1.8 s ago
  awaited    \* what its view's going does not cancel: "no", "nonce" or "frame"

pairVars == <<phase, stage, session>>
linkVars == <<current, live, reported, conn, timer, beats>>
cameraVars == <<tab, prompts, gone, stream, streams, detected, awaited>>
clientVars == <<pairVars, linkVars, cameraVars>>

States == {"disconnected", "connecting", "connected", "reconnecting", "error"}

ClientTypeOK ==
  /\ phase \in [Attempts -> {"unused", "shaking", "opening", "up", "over"}]
  /\ stage \in {"idle", "handshaking", "success", "error"}
  /\ session \in Attempts \cup {None} /\ current \in Attempts \cup {None}
  /\ live \subseteq Attempts
  /\ reported \in [Attempts -> States] /\ conn \in States
  /\ timer \in BOOLEAN /\ beats \in Nat
  /\ tab \in {"qr", "manual"}
  /\ prompts \in Nat /\ gone \in Nat /\ prompts + gone <= MaxPrompts
  /\ streams \in 0 .. MaxPrompts /\ stream \in BOOLEAN /\ (stream => streams > 0)
  /\ detected \in BOOLEAN /\ awaited \in {"no", "nonce", "frame"}

\* The scanner is mounted with the screen and asks for the camera at once.
ClientInit ==
  /\ phase = [a \in Attempts |-> "unused"] /\ stage = "idle" /\ session = None
  /\ current = None /\ live = {} /\ conn = "disconnected"
  /\ reported = [a \in Attempts |-> "disconnected"]
  /\ timer = FALSE /\ beats = 0
  /\ tab = "qr" /\ prompts = 1 /\ gone = 0 /\ stream = FALSE /\ streams = 0
  /\ detected = FALSE /\ awaited = "no"

-----------------------------------------------------------------------------
(* The screens *)

\* The pairing screen is shown when reconnecting and after errors too.
Screen(c, s) == c \notin {"connected", "connecting"} /\ s # "handshaking"
PairingScreen == Screen(conn, stage)
Overlay == conn = "connecting" \/ stage = "handshaking"
Scanner == PairingScreen /\ tab = "qr"

\* stopScanning: the stream it knows of.  A prompt is not cancelled.
StopScanning ==
  /\ stream' = FALSE
  /\ streams' = IF stream THEN streams - 1 ELSE streams

\* The effect that starts the camera when the scanner is mounted, and whose cleanup
\* stops it.
Ask == prompts + gone < MaxPrompts /\ prompts' = prompts + 1 /\ detected' = FALSE

Mount == Ask /\ UNCHANGED <<gone, stream, streams>>

Unmount ==
  /\ StopScanning
  /\ gone' = gone + prompts /\ prompts' = 0
  /\ detected' = FALSE

\* The effect depends on handleScanQr, which is new at each render of App: cleanup and
\* start follow, in the same scanner.
Restart == StopScanning /\ Ask /\ UNCHANGED gone

\* What happens to the scanner, shown before or not, once the connection, the stage and
\* the tab are c, s and t.
Remount(scanner, c, s, t) ==
  LET then == Screen(c, s) /\ t = "qr" IN
  /\ tab' = t
  /\ CASE scanner /\ ~then -> Unmount
       [] ~scanner /\ then -> Mount
       [] scanner /\ then /\ (c # conn \/ s # stage) -> Restart
       [] OTHER -> UNCHANGED <<prompts, gone, stream, streams, detected>>

\* The scanner follows the connection and the pairing stage.
Follow == Remount(Scanner, conn', stage', tab)

SelectTab(t) ==
  /\ PairingScreen
  /\ Remount(Scanner, conn, stage, t)
  /\ UNCHANGED <<awaited, pairVars, linkVars>>

-----------------------------------------------------------------------------
(* The camera *)

\* App is rendered again for what the model leaves out: telemetry, a player's color,
\* another error text.  handleSwitchCamera and the camera that startCamera has found
\* run the effect as well.
Rerender ==
  /\ Scanner
  /\ Restart
  /\ UNCHANGED <<tab, awaited, pairVars, linkVars>>

\* getUserMedia's answer, which does not look whether the scanner has a stream by now:
\* that one stays on.  Denied, an error card is shown.
CameraAnswer(granted) ==
  /\ prompts > 0
  /\ prompts' = prompts - 1
  /\ IF granted
     THEN streams < MaxPrompts /\ streams' = streams + 1 /\ stream' = TRUE
     ELSE UNCHANGED <<stream, streams>>
  /\ UNCHANGED <<tab, gone, detected, awaited, pairVars, linkVars>>

\* The answer to a scanner that is no longer there, whose stream nothing stops.
OrphanAnswer(granted) ==
  /\ gone > 0
  /\ gone' = gone - 1
  /\ IF granted THEN streams < MaxPrompts /\ streams' = streams + 1 ELSE UNCHANGED streams
  /\ UNCHANGED <<tab, prompts, stream, detected, awaited, pairVars, linkVars>>

\* The timer that arms the detection again.
Rearm ==
  /\ detected
  /\ detected' = FALSE
  /\ UNCHANGED <<tab, prompts, gone, stream, streams, awaited, pairVars, linkVars>>

-----------------------------------------------------------------------------
(* Pairing *)

\* BarcodeDetector gets a frame, or ManualPairView fetches a nonce: neither answer looks
\* whether its view is still there.  Bound: one of them is awaited.
Await ==
  /\ PairingScreen /\ awaited = "no"
  /\ \/ tab = "manual" /\ awaited' = "nonce"
     \/ tab = "qr" /\ stream /\ awaited' = "frame"
  /\ UNCHANGED <<tab, prompts, gone, stream, streams, detected, pairVars, linkVars>>

\* pairWithParams, up to the answer of the host.
Handshake(a) ==
  /\ phase[a] = "unused"
  /\ phase' = [phase EXCEPT ![a] = "shaking"]
  /\ stage' = "handshaking"
  /\ UNCHANGED <<session, linkVars>>

\* handleDetectedCode, by the camera, the clipboard or the input below it, or with the
\* answer to a frame of a scanner that has gone.  A code that is not a pairing URI shows
\* an error; App, where nothing has changed, is not rendered again.
Detect(a, valid) ==
  /\ \/ Scanner /\ ~detected /\ UNCHANGED awaited
     \/ ~Scanner /\ awaited = "frame" /\ awaited' = "no"
  /\ IF valid THEN Handshake(a)
     ELSE stage' = "error" /\ UNCHANGED <<phase, session, linkVars>>
  /\ IF Scanner /\ stage' = stage
     THEN detected' = TRUE /\ UNCHANGED <<tab, prompts, gone, stream, streams>>
     ELSE Follow

\* ManualPairView: a pasted URI, or the nonce fetched from the host's address, which
\* pairs just the same after the view has gone.
ManualPair(a) ==
  /\ \/ PairingScreen /\ tab = "manual" /\ UNCHANGED awaited
     \/ awaited = "nonce" /\ awaited' = "no"
  /\ Handshake(a) /\ Follow

\* The URI in the address bar, when the app starts.
HashPair(a) ==
  /\ \A b \in Attempts : phase[b] = "unused"
  /\ stage = "idle" /\ Scanner
  /\ Handshake(a) /\ Follow /\ UNCHANGED awaited

\* The handshake of any attempt, cancelled or not, fails in plain sight.
HandshakeFails(a) ==
  /\ phase[a] = "shaking"
  /\ phase' = [phase EXCEPT ![a] = "over"]
  /\ stage' = "error"
  /\ UNCHANGED <<session, linkVars>>
  /\ Follow /\ UNCHANGED awaited

-----------------------------------------------------------------------------
(* The connection *)

\* Mutant: the heartbeat interval outlives its connection.
ClosedBeating(rest) ==
  /\ timer' = FALSE /\ beats' = beats
  /\ live' = (live \ {current}) \cup rest

\* disconnect of useWebRtc: the interval, the bridge and the transport.
Closed(rest) ==
  /\ timer' = FALSE
  /\ beats' = IF timer THEN beats - 1 ELSE beats
  /\ live' = (live \ {current}) \cup rest

\* handlePairingSuccess and connect: whatever was connected is closed first.
HandshakeSucceeds(a) ==
  /\ phase[a] = "shaking"
  /\ phase' = [phase EXCEPT ![a] = "opening"]
  /\ session' = a /\ stage' = "success"
  /\ Closed({a})
  /\ current' = a /\ conn' = "connecting"
  /\ reported' = [b \in Attempts |->
       IF b = a THEN "connecting" ELSE IF b = current THEN "disconnected" ELSE reported[b]]
  /\ Follow /\ UNCHANGED awaited

\* transport.connect has come back, and the heartbeat starts.  Once it is closed, it
\* fails or never comes back.
Opened(a) ==
  /\ phase[a] = "opening" /\ a \in live
  /\ phase' = [phase EXCEPT ![a] = "up"]
  /\ timer' = TRUE /\ beats' = beats + 1
  /\ UNCHANGED <<stage, session, current, live, reported, conn, cameraVars>>

\* Its failure is shown even if it is another transport that counts by now.
OpenFails(a) ==
  /\ phase[a] = "opening"
  /\ phase' = [phase EXCEPT ![a] = "over"]
  /\ conn' = "error" /\ reported' = [reported EXCEPT ![a] = "error"]
  /\ UNCHANGED <<stage, session, current, live, timer, beats>>
  /\ Follow /\ UNCHANGED awaited

\* onStateChange of a transport that is not closed; one that has failed to open
\* goes on trying over its signaling socket.
Reports(a, s) ==
  /\ a \in live /\ s # reported[a]
  /\ conn' = s /\ reported' = [reported EXCEPT ![a] = s]
  /\ UNCHANGED <<pairVars, current, live, timer, beats>>
  /\ Follow /\ UNCHANGED awaited

\* Mutant: the transport is closed, and the dashboard stays.
CancelSilently ==
  /\ Overlay \/ conn = "connected"
  /\ Closed({})
  /\ current' = None /\ UNCHANGED conn
  /\ reported' = [a \in Attempts |-> IF a = current THEN "disconnected" ELSE reported[a]]
  /\ session' = None /\ stage' = "idle"
  /\ UNCHANGED phase
  /\ Follow /\ UNCHANGED awaited

\* handleDisconnect: CANCELAR CONEXAO of the overlay and the dashboard's button.
CancelConnection ==
  /\ Overlay \/ conn = "connected"
  /\ Closed({})
  /\ current' = None /\ conn' = "disconnected"
  /\ reported' = [a \in Attempts |-> IF a = current THEN "disconnected" ELSE reported[a]]
  /\ session' = None /\ stage' = "idle"
  /\ UNCHANGED phase
  /\ Follow /\ UNCHANGED awaited

ClientStep ==
  \/ \E t \in {"qr", "manual"} : SelectTab(t)
  \/ \E granted \in BOOLEAN : CameraAnswer(granted) \/ OrphanAnswer(granted)
  \/ Rerender \/ Rearm \/ Await
  \/ CancelConnection
  \/ \E a \in Attempts :
       \/ \E valid \in BOOLEAN : Detect(a, valid)
       \/ ManualPair(a) \/ HashPair(a)
       \/ HandshakeFails(a) \/ HandshakeSucceeds(a) \/ Opened(a) \/ OpenFails(a)
       \/ \E s \in {"connected", "reconnecting", "error"} : Reports(a, s)

-----------------------------------------------------------------------------

\* The dashboard is shown over the transport that counts, and over an open one,
\* whatever attempts were cancelled, overtaken or late.
ConnectedIsLive ==
  conn = "connected" => current \in live /\ reported[current] = "connected"

\* No transport is open but the one the app can still close, and no more than one
\* heartbeat is sent over it.
OneLink == live \subseteq {current} /\ beats <= 1 /\ (beats = 1 => current \in live)

\* The camera is off when no scanner is shown.  The code violates this: a prompt that is
\* answered too late switches on a camera that nothing switches off.
CameraOffWithoutScanner == ~Scanner => streams = 0
=============================================================================
