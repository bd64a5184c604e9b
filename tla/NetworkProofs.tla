----------------------------- MODULE NetworkProofs -----------------------------
(***************************************************************************)
(* For any attempts, camera prompts and TVs, and with the pairing screen,  *)
(* the connection, the remote and the host's TV handlers interleaved       *)
(* freely: the dashboard has a live connection and one heartbeat.  The     *)
(* bounds of Network's Next are not used.                                  *)
(***************************************************************************)
EXTENDS Network, TLAPS

\* The interval runs over the connection that has come up, and over no other.
Beating == IF timer THEN beats = 1 /\ phase[current] = "up" ELSE beats = 0

ClientInv == ClientTypeOK /\ OneLink /\ ConnectedIsLive /\ Beating

NotMounted == ~remote => shown = Missing /\ fetch = "idle" /\ list = {}

TvInv == TvTypeOK /\ NotMounted

-----------------------------------------------------------------------------
(* The camera *)

ViewOK ==
  /\ tab \in {"qr", "manual"} /\ detected \in BOOLEAN
  /\ awaited \in {"no", "nonce", "frame"}

PromptsOK == prompts \in Nat /\ gone \in Nat /\ prompts + gone <= MaxPrompts

StreamsOK ==
  streams \in 0 .. MaxPrompts /\ stream \in BOOLEAN /\ (stream => streams > 0)

CameraInv == ViewOK /\ PromptsOK /\ StreamsOK

AwaitedOK == awaited \in {"no", "nonce", "frame"}

LEMMA StopScanningKeeps == ASSUME StreamsOK, StopScanning PROVE StreamsOK'
  <1>1. streams \in 0 .. MaxPrompts /\ MaxPrompts \in Nat /\ stream' = FALSE
    BY PromptsAssumption DEF StreamsOK, StopScanning
  <1>2. CASE stream
    <2>1. streams > 0 /\ streams' = streams - 1
      BY <1>2 DEF StreamsOK, StopScanning
    <2>2. streams - 1 \in 0 .. MaxPrompts
      BY <1>1, <2>1
    <2>3. streams' \in 0 .. MaxPrompts
      BY <2>1, <2>2
    <2>. QED
      BY <1>1, <2>3 DEF StreamsOK
  <1>3. CASE ~stream
    BY <1>1, <1>3 DEF StreamsOK, StopScanning
  <1>. QED
    BY <1>2, <1>3

\* A prompt is counted once, as the scanner's own or as that of one that has gone.
LEMMA AskKeeps == ASSUME PromptsOK, Ask, UNCHANGED gone PROVE PromptsOK'
  <1>1. prompts' = prompts + 1 /\ gone' = gone /\ prompts + gone < MaxPrompts
    BY DEF Ask
  <1>2. prompts \in Nat /\ gone \in Nat /\ MaxPrompts \in Nat
    BY PromptsAssumption DEF PromptsOK
  <1>3. prompts + 1 \in Nat /\ (prompts + 1) + gone <= MaxPrompts
    BY <1>1, <1>2
  <1>. QED
    BY <1>1, <1>2, <1>3 DEF PromptsOK

LEMMA UnmountKeeps == ASSUME PromptsOK, Unmount PROVE PromptsOK'
  <1>1. prompts' = 0 /\ gone' = gone + prompts
    BY DEF Unmount
  <1>2. 0 \in Nat /\ gone + prompts \in Nat /\ 0 + (gone + prompts) <= MaxPrompts
    BY PromptsAssumption DEF PromptsOK
  <1>. QED
    BY <1>1, <1>2 DEF PromptsOK

\* However the scanner comes and goes, its prompts stay counted, and it has a stream
\* only where a camera is on.
LEMMA RemountKeeps ==
  ASSUME CameraInv, NEW scanner, NEW c, NEW s, NEW t \in {"qr", "manual"},
         Remount(scanner, c, s, t), AwaitedOK'
  PROVE  CameraInv'
  <1>. DEFINE then == Screen(c, s) /\ t = "qr"
              new == c # conn \/ s # stage
  <1>. ViewOK /\ PromptsOK /\ StreamsOK
    BY DEF CameraInv
  <1>1. tab' \in {"qr", "manual"} /\ awaited' \in {"no", "nonce", "frame"}
    BY DEF Remount, AwaitedOK
  <1>2. CASE scanner /\ ~then
    <2>1. Unmount
      BY <1>2 DEF Remount
    <2>2. PromptsOK' /\ StreamsOK' /\ detected' = FALSE
      BY <2>1, UnmountKeeps, StopScanningKeeps DEF Unmount
    <2>. QED
      BY <1>1, <2>2 DEF CameraInv, ViewOK
  <1>3. CASE ~scanner /\ then
    <2>1. Ask /\ UNCHANGED <<gone, stream, streams>>
      BY <1>3 DEF Remount, Mount
    <2>2. PromptsOK' /\ detected' = FALSE
      BY <2>1, AskKeeps DEF Ask
    <2>3. StreamsOK'
      BY <2>1 DEF StreamsOK
    <2>. QED
      BY <1>1, <2>2, <2>3 DEF CameraInv, ViewOK
  <1>4. CASE scanner /\ then /\ new
    <2>1. Restart
      BY <1>4 DEF Remount
    <2>2. PromptsOK' /\ StreamsOK' /\ detected' = FALSE
      BY <2>1, AskKeeps, StopScanningKeeps DEF Restart, Ask
    <2>. QED
      BY <1>1, <2>2 DEF CameraInv, ViewOK
  <1>5. CASE ~(scanner /\ ~then) /\ ~(~scanner /\ then) /\ ~(scanner /\ then /\ new)
    <2>1. UNCHANGED <<prompts, gone, stream, streams, detected>>
      BY <1>5 DEF Remount
    <2>. QED
      BY <1>1, <2>1 DEF CameraInv, ViewOK, PromptsOK, StreamsOK
  <1>. QED
    BY <1>2, <1>3, <1>4, <1>5

LEMMA FollowKeeps == ASSUME CameraInv, Follow, AwaitedOK' PROVE CameraInv'
  <1>1. tab \in {"qr", "manual"}
    BY DEF CameraInv, ViewOK
  <1>. QED
    BY <1>1, RemountKeeps DEF Follow

LEMMA RerenderKeeps == ASSUME CameraInv, Rerender PROVE CameraInv'
  <1>1. PromptsOK' /\ StreamsOK'
    BY AskKeeps, StopScanningKeeps DEF CameraInv, Rerender, Restart
  <1>2. ViewOK'
    BY DEF CameraInv, ViewOK, Rerender, Restart, Ask
  <1>. QED
    BY <1>1, <1>2 DEF CameraInv

\* A stream granted is counted, whether a scanner keeps it or not.
LEMMA AnswersKeep ==
  ASSUME CameraInv, NEW granted \in BOOLEAN, CameraAnswer(granted) \/ OrphanAnswer(granted)
  PROVE  CameraInv'
  <1>1. ViewOK'
    BY DEF CameraInv, ViewOK, CameraAnswer, OrphanAnswer
  <1>2. PromptsOK'
    <2>1. /\ prompts \in Nat /\ gone \in Nat /\ prompts + gone <= MaxPrompts
          /\ MaxPrompts \in Nat
      BY PromptsAssumption DEF CameraInv, PromptsOK
    <2>2. CASE CameraAnswer(granted)
      <3>1. prompts > 0 /\ prompts' = prompts - 1 /\ gone' = gone
        BY <2>2 DEF CameraAnswer
      <3>. QED
        BY <2>1, <3>1 DEF PromptsOK
    <2>3. CASE OrphanAnswer(granted)
      <3>1. gone > 0 /\ gone' = gone - 1 /\ prompts' = prompts
        BY <2>3 DEF OrphanAnswer
      <3>. QED
        BY <2>1, <3>1 DEF PromptsOK
    <2>. QED
      BY <2>2, <2>3
  <1>3. StreamsOK'
    <2>1. streams \in 0 .. MaxPrompts /\ MaxPrompts \in Nat /\ stream \in BOOLEAN
      BY PromptsAssumption DEF CameraInv, StreamsOK
    <2>2. \/ UNCHANGED <<stream, streams>>
          \/ streams < MaxPrompts /\ streams' = streams + 1 /\ stream' \in {stream, TRUE}
      BY DEF CameraAnswer, OrphanAnswer
    <2>3. CASE UNCHANGED <<stream, streams>>
      BY <2>3 DEF CameraInv, StreamsOK
    <2>4. CASE streams < MaxPrompts /\ streams' = streams + 1 /\ stream' \in {stream, TRUE}
      <3>1. streams + 1 \in 0 .. MaxPrompts /\ streams + 1 > 0
        BY <2>1, <2>4
      <3>2. stream' \in BOOLEAN
        BY <2>1, <2>4
      <3>. QED
        BY <2>4, <3>1, <3>2 DEF StreamsOK
    <2>. QED
      BY <2>2, <2>3, <2>4
  <1>. QED
    BY <1>1, <1>2, <1>3 DEF CameraInv

-----------------------------------------------------------------------------
(* The connection *)

LinkTypeOK ==
  /\ phase \in [Attempts -> {"unused", "shaking", "opening", "up", "over"}]
  /\ stage \in {"idle", "handshaking", "success", "error"}
  /\ session \in Attempts \cup {None} /\ current \in Attempts \cup {None}
  /\ live \subseteq Attempts
  /\ reported \in [Attempts -> States] /\ conn \in States
  /\ timer \in BOOLEAN /\ beats \in Nat

LinkInv == LinkTypeOK /\ OneLink /\ ConnectedIsLive /\ Beating

LEMMA ClientInvParts == ClientInv <=> CameraInv /\ LinkInv
  BY DEF ClientInv, ClientTypeOK, CameraInv, ViewOK, PromptsOK, StreamsOK,
         LinkInv, LinkTypeOK

\* The attempt that counts is closed, whether its heartbeat had begun or not.
LEMMA ClosedKeeps ==
  ASSUME LinkInv, NEW rest, Closed(rest)
  PROVE  timer' = FALSE /\ beats' = 0 /\ live' = rest
  BY DEF LinkInv, OneLink, Beating, Closed

LEMMA HandshakeIInv ==
  ASSUME LinkInv, NEW a \in Attempts, Handshake(a)
  PROVE  LinkInv'
  <1>1. UNCHANGED <<session, linkVars>> /\ LinkTypeOK'
    BY DEF LinkInv, LinkTypeOK, Handshake, linkVars
  <1>2. Beating'
    <2>1. timer => current \in Attempts /\ current # a
      BY DEF LinkInv, LinkTypeOK, OneLink, Beating, Handshake
    <2>. QED
      BY <1>1, <2>1 DEF LinkInv, LinkTypeOK, Beating, Handshake, linkVars
  <1>. QED
    BY <1>1, <1>2 DEF LinkInv, OneLink, ConnectedIsLive, linkVars

LEMMA HandshakeFailsIInv ==
  ASSUME LinkInv, NEW a \in Attempts, HandshakeFails(a)
  PROVE  LinkInv'
  <1>1. UNCHANGED <<session, linkVars>> /\ LinkTypeOK'
    BY DEF LinkInv, LinkTypeOK, HandshakeFails, linkVars
  <1>2. Beating'
    <2>1. timer => current \in Attempts /\ current # a
      BY DEF LinkInv, LinkTypeOK, OneLink, Beating, HandshakeFails
    <2>. QED
      BY <1>1, <2>1 DEF LinkInv, LinkTypeOK, Beating, HandshakeFails, linkVars
  <1>. QED
    BY <1>1, <1>2 DEF LinkInv, OneLink, ConnectedIsLive, linkVars

LEMMA HandshakeSucceedsIInv ==
  ASSUME LinkInv, NEW a \in Attempts, HandshakeSucceeds(a)
  PROVE  LinkInv'
  <1>1. timer' = FALSE /\ beats' = 0 /\ live' = {a}
    BY ClosedKeeps DEF HandshakeSucceeds
  <1>2. reported' \in [Attempts -> States]
    BY DEF LinkInv, LinkTypeOK, HandshakeSucceeds, States
  <1>3. LinkTypeOK'
    BY <1>1, <1>2 DEF LinkInv, LinkTypeOK, HandshakeSucceeds, States
  <1>. QED
    BY <1>1, <1>3 DEF LinkInv, HandshakeSucceeds, OneLink, ConnectedIsLive, Beating

\* The interval begins once per attempt: its transport opens while no other counts.
LEMMA OpenedIInv == ASSUME LinkInv, NEW a \in Attempts, Opened(a) PROVE LinkInv'
  <1>1. a = current /\ ~timer /\ beats = 0
    BY DEF LinkInv, OneLink, Beating, Opened
  <1>2. phase' = [phase EXCEPT ![a] = "up"] /\ timer' = TRUE /\ beats' = 1
    BY <1>1 DEF Opened
  <1>3. LinkTypeOK'
    BY <1>2 DEF LinkInv, LinkTypeOK, Opened
  <1>4. Beating'
    BY <1>1, <1>2 DEF LinkInv, LinkTypeOK, Opened, Beating
  <1>. QED
    BY <1>1, <1>2, <1>3, <1>4 DEF LinkInv, OneLink, ConnectedIsLive, Opened

LEMMA OpenFailsIInv == ASSUME LinkInv, NEW a \in Attempts, OpenFails(a) PROVE LinkInv'
  <1>1. timer => current \in Attempts /\ current # a
    BY DEF LinkInv, LinkTypeOK, OneLink, Beating, OpenFails
  <1>2. LinkTypeOK'
    BY DEF LinkInv, LinkTypeOK, OpenFails, States
  <1>3. Beating'
    BY <1>1 DEF LinkInv, LinkTypeOK, Beating, OpenFails
  <1>. QED
    BY <1>2, <1>3 DEF LinkInv, OneLink, ConnectedIsLive, OpenFails

\* Only a live transport reports, and it is the one that counts.
LEMMA ReportsIInv ==
  ASSUME LinkInv, NEW a \in Attempts, NEW s \in {"connected", "reconnecting", "error"},
         Reports(a, s)
  PROVE  LinkInv'
  <1>1. a = current
    BY DEF LinkInv, OneLink, Reports
  <1>2. LinkTypeOK'
    BY DEF LinkInv, LinkTypeOK, Reports, States, pairVars
  <1>3. ConnectedIsLive'
    BY <1>1 DEF LinkInv, LinkTypeOK, ConnectedIsLive, Reports
  <1>. QED
    BY <1>2, <1>3 DEF LinkInv, OneLink, Beating, Reports, pairVars

LEMMA CancelIInv == ASSUME LinkInv, CancelConnection PROVE LinkInv'
  <1>1. timer' = FALSE /\ beats' = 0 /\ live' = {}
    BY ClosedKeeps DEF CancelConnection
  <1>2. reported' \in [Attempts -> States]
    BY DEF LinkInv, LinkTypeOK, CancelConnection, States
  <1>3. LinkTypeOK'
    BY <1>1, <1>2 DEF LinkInv, LinkTypeOK, CancelConnection, States
  <1>. QED
    BY <1>1, <1>3 DEF LinkInv, CancelConnection, OneLink, ConnectedIsLive, Beating

LEMMA LinkUntouched == ASSUME LinkInv, UNCHANGED <<pairVars, linkVars>> PROVE LinkInv'
  <1>1. LinkTypeOK'
    BY DEF LinkInv, LinkTypeOK, pairVars, linkVars
  <1>. QED
    BY <1>1 DEF LinkInv, OneLink, ConnectedIsLive, Beating, pairVars, linkVars

LEMMA DetectIInv ==
  ASSUME LinkInv, CameraInv, NEW a \in Attempts, NEW valid \in BOOLEAN, Detect(a, valid)
  PROVE  LinkInv' /\ CameraInv'
  <1>1. LinkInv'
    <2>1. CASE valid
      BY <2>1, HandshakeIInv DEF Detect
    <2>2. CASE ~valid
      <3>1. LinkTypeOK'
        BY <2>2 DEF LinkInv, LinkTypeOK, Detect, linkVars
      <3>. QED
        BY <2>2, <3>1 DEF LinkInv, OneLink, ConnectedIsLive, Beating, Detect, linkVars
    <2>. QED
      BY <2>1, <2>2
  <1>2. AwaitedOK'
    BY DEF CameraInv, ViewOK, AwaitedOK, Detect
  <1>3. CASE Scanner /\ stage' = stage
    <2>1. detected' = TRUE /\ UNCHANGED <<tab, prompts, gone, stream, streams>>
      BY <1>3 DEF Detect
    <2>. QED
      BY <1>1, <1>2, <2>1 DEF CameraInv, ViewOK, PromptsOK, StreamsOK, AwaitedOK
  <1>4. CASE ~(Scanner /\ stage' = stage)
    BY <1>1, <1>2, <1>4, FollowKeeps DEF Detect
  <1>. QED
    BY <1>3, <1>4

LEMMA ClientStepInv == ASSUME ClientInv, ClientStep PROVE ClientInv'
  <1>. CameraInv /\ LinkInv
    BY ClientInvParts
  <1>. SUFFICES CameraInv' /\ LinkInv'
    <2>1. (ClientInv <=> CameraInv /\ LinkInv)'
      BY ClientInvParts, PTL
    <2>. QED
      BY <2>1
  <1>. AwaitedOK
    BY DEF CameraInv, ViewOK, AwaitedOK
  <1>0. UNCHANGED awaited => AwaitedOK'
    BY DEF AwaitedOK
  <1>1. ASSUME NEW t \in {"qr", "manual"}, SelectTab(t) PROVE CameraInv' /\ LinkInv'
    BY <1>0, <1>1, RemountKeeps, LinkUntouched DEF SelectTab
  <1>2. ASSUME NEW granted \in BOOLEAN, CameraAnswer(granted) \/ OrphanAnswer(granted)
        PROVE  CameraInv' /\ LinkInv'
    BY <1>2, AnswersKeep, LinkUntouched DEF CameraAnswer, OrphanAnswer
  <1>3. CASE Rerender
    BY <1>3, RerenderKeeps, LinkUntouched DEF Rerender
  <1>4. CASE Rearm \/ Await
    <2>1. UNCHANGED <<tab, prompts, gone, stream, streams>>
      BY <1>4 DEF Rearm, Await
    <2>2. detected' \in BOOLEAN /\ awaited' \in {"no", "nonce", "frame"}
      BY <1>4 DEF CameraInv, ViewOK, Rearm, Await
    <2>3. CameraInv'
      BY <2>1, <2>2 DEF CameraInv, ViewOK, PromptsOK, StreamsOK
    <2>. QED
      BY <1>4, <2>3, LinkUntouched DEF Rearm, Await
  <1>5. CASE CancelConnection
    BY <1>0, <1>5, CancelIInv, FollowKeeps DEF CancelConnection
  <1>6. ASSUME NEW a \in Attempts, NEW valid \in BOOLEAN, Detect(a, valid)
        PROVE  CameraInv' /\ LinkInv'
    BY <1>6, DetectIInv
  <1>7. ASSUME NEW a \in Attempts,
               \/ ManualPair(a) \/ HashPair(a)
               \/ HandshakeFails(a) \/ HandshakeSucceeds(a) \/ OpenFails(a)
        PROVE  CameraInv' /\ LinkInv'
    <2>1. CASE ManualPair(a) \/ HashPair(a)
      <3>1. AwaitedOK'
        BY <2>1 DEF ManualPair, HashPair, AwaitedOK
      <3>. QED
        BY <2>1, <3>1, HandshakeIInv, FollowKeeps DEF ManualPair, HashPair
    <2>2. CASE HandshakeFails(a)
      BY <1>0, <2>2, HandshakeFailsIInv, FollowKeeps DEF HandshakeFails
    <2>3. CASE HandshakeSucceeds(a)
      BY <1>0, <2>3, HandshakeSucceedsIInv, FollowKeeps DEF HandshakeSucceeds
    <2>4. CASE OpenFails(a)
      BY <1>0, <2>4, OpenFailsIInv, FollowKeeps DEF OpenFails
    <2>. QED
      BY <1>7, <2>1, <2>2, <2>3, <2>4
  <1>8. ASSUME NEW a \in Attempts, Opened(a) PROVE CameraInv' /\ LinkInv'
    <2>1. CameraInv'
      BY <1>8 DEF CameraInv, ViewOK, PromptsOK, StreamsOK, Opened, cameraVars
    <2>. QED
      BY <1>8, <2>1, OpenedIInv
  <1>9. ASSUME NEW a \in Attempts, NEW s \in {"connected", "reconnecting", "error"},
               Reports(a, s)
        PROVE  CameraInv' /\ LinkInv'
    BY <1>0, <1>9, ReportsIInv, FollowKeeps DEF Reports
  <1>. QED
    BY <1>1, <1>2, <1>3, <1>4, <1>5, <1>6, <1>7, <1>8, <1>9 DEF ClientStep

LEMMA ClientUntouched == ASSUME ClientInv, UNCHANGED clientVars PROVE ClientInv'
  BY DEF ClientInv, ClientTypeOK, OneLink, ConnectedIsLive, Beating,
         clientVars, pairVars, linkVars, cameraVars
-----------------------------------------------------------------------------
(* The choice of a TV *)

LEMMA TvNames ==
  /\ Unset \notin AllTvs /\ Missing \notin AllTvs /\ "idle" \notin AllTvs /\ "asked" \notin AllTvs
  /\ Typed \in AllTvs /\ Tvs \subseteq AllTvs
  BY TvAssumption DEF AllTvs

LEMMA TvHostInv == ASSUME TvInv, TvHostStep PROVE TvInv'
  <1>1. ASSUME NEW found \in SUBSET AllTvs, NEW pruned \in SUBSET AllTvs,
               found \subseteq Tvs, Discover(found, pruned)
        PROVE  TvInv'
    BY <1>1, TvNames DEF TvInv, TvTypeOK, NotMounted, Discover, tvPhoneVars
  <1>2. ASSUME NEW tv \in AllTvs, Arrive(tv) PROVE TvInv'
    BY <1>2 DEF TvInv, TvTypeOK, NotMounted, Arrive
  <1>3. ASSUME NEW tv \in AllTvs, Joined(tv) PROVE TvInv'
    BY <1>3 DEF TvInv, TvTypeOK, NotMounted, Joined, tvPhoneVars
  <1>4. CASE ArriveTyped
    BY <1>4, TvNames DEF TvInv, TvTypeOK, NotMounted, ArriveTyped
  <1>5. CASE Lost
    BY <1>5 DEF TvInv, TvTypeOK, NotMounted, Lost, tvHostVars
  <1>. QED
    BY <1>1, <1>2, <1>3, <1>4, <1>5 DEF TvHostStep

LEMMA TvMountInv == ASSUME TvInv, TvMount \/ TvUnmount PROVE TvInv'
  BY DEF TvInv, TvTypeOK, NotMounted, TvMount, TvUnmount, tvHostVars

LEMMA TvPhoneInv == ASSUME TvInv, TvPhoneStep PROVE TvInv'
  <1>1. CASE Answer
    <2>1. fetch' \in AllTvs \cup {Missing}
      BY <1>1 DEF TvInv, TvTypeOK, Answer, Current
    <2>2. remote
      BY <1>1 DEF TvInv, NotMounted, Answer
    <2>. QED
      BY <1>1, <2>1, <2>2 DEF TvInv, TvTypeOK, NotMounted, Answer, tvHostVars
  <1>2. CASE Refresh
    BY <1>2 DEF TvInv, TvTypeOK, NotMounted, Refresh, tvHostVars
  <1>3. CASE AddManual \/ Added \/ ManualChosen
    BY <1>3, TvNames
    DEF TvInv, TvTypeOK, NotMounted, AddManual, Added, ManualChosen, tvHostVars
  <1>4. ASSUME NEW failed \in BOOLEAN, Shown(failed) PROVE TvInv'
    <2>1. remote
      BY <1>4 DEF TvInv, NotMounted, Shown
    <2>. QED
      BY <1>4, <2>1 DEF TvInv, TvTypeOK, NotMounted, Shown, tvHostVars
  <1>5. ASSUME NEW tv \in AllTvs, Pick(tv) PROVE TvInv'
    BY <1>5 DEF TvInv, TvTypeOK, NotMounted, Pick, tvHostVars
  <1>6. ASSUME NEW button \in Buttons, Command(button) PROVE TvInv'
    BY <1>6 DEF TvInv, TvTypeOK, NotMounted, Command, tvHostVars, tvPhoneVars
  <1>. QED
    BY <1>1, <1>2, <1>3, <1>4, <1>5, <1>6 DEF TvPhoneStep

LEMMA TvUntouched == ASSUME TvInv, UNCHANGED tvVars PROVE TvInv'
  BY DEF TvInv, TvTypeOK, NotMounted, tvVars, tvHostVars, tvPhoneVars

-----------------------------------------------------------------------------

LEMMA InitInv == Init => ClientInv /\ TvInv
  <1>. SUFFICES ASSUME Init PROVE ClientInv /\ TvInv
    OBVIOUS
  <1>1. ClientTypeOK
    <2>1. 0 \in 0 .. MaxPrompts /\ 1 + 0 <= MaxPrompts /\ 0 \in Nat /\ 1 \in Nat
      BY PromptsAssumption
    <2>. QED
      BY <2>1 DEF Init, ClientInit, ClientTypeOK, States
  <1>2. OneLink /\ ConnectedIsLive /\ Beating
    BY DEF Init, ClientInit, OneLink, ConnectedIsLive, Beating
  <1>3. TvInv
    BY DEF Init, TvInit, TvInv, TvTypeOK, NotMounted
  <1>. QED
    BY <1>1, <1>2, <1>3 DEF ClientInv

LEMMA StepInv == ASSUME ClientInv, TvInv, [Step]_vars PROVE ClientInv' /\ TvInv'
  <1>1. CASE UNCHANGED vars
    BY <1>1, ClientUntouched, TvUntouched DEF vars
  <1>2. CASE Client
    <2>1. TvMount \/ TvUnmount \/ UNCHANGED tvVars
      BY <1>2 DEF Client
    <2>. QED
      BY <1>2, <2>1, ClientStepInv, TvMountInv, TvUntouched DEF Client
  <1>3. CASE Leave \/ Enter
    BY <1>3, ClientUntouched, TvMountInv DEF Leave, Enter
  <1>4. CASE Tv
    BY <1>4, ClientUntouched, TvHostInv, TvPhoneInv DEF Tv
  <1>. QED
    BY <1>1, <1>2, <1>3, <1>4 DEF Step

LEMMA InductiveInvariant == UnboundedSpec => [](ClientInv /\ TvInv)
  BY InitInv, StepInv, PTL DEF UnboundedSpec

\* What is proved without Next's bounds holds with them.
THEOREM BoundsOnlyRestrict == Spec => UnboundedSpec
  <1>1. Next => Step
    BY DEF Next, Step
  <1>. QED
    BY <1>1, PTL DEF Spec, UnboundedSpec

-----------------------------------------------------------------------------

\* Attempts, transports, prompts, cameras and the requests about TVs keep their types.
THEOREM NetworkTypeCorrect == UnboundedSpec => []TypeOK
  <1>1. ClientInv /\ TvInv => TypeOK
    BY DEF ClientInv, TvInv, TypeOK
  <1>. QED
    BY <1>1, InductiveInvariant, PTL

\* The dashboard is never shown over a dead connection: the transport that counts is
\* open and says so, with any number of attempts cancelled, overtaken or late.
THEOREM DashboardIsLive == UnboundedSpec => []ConnectedIsLive
  <1>1. ClientInv => ConnectedIsLive
    BY DEF ClientInv
  <1>. QED
    BY <1>1, InductiveInvariant, PTL

\* No attempt leaves a transport open that nothing can close, and the heartbeat is
\* sent by one interval.
THEOREM LinkIsSingle == UnboundedSpec => []OneLink
  <1>1. ClientInv => OneLink
    BY DEF ClientInv
  <1>. QED
    BY <1>1, InductiveInvariant, PTL

=============================================================================
