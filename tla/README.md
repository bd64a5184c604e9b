# A verification project for Lookauniversalremote

TLA+ models of the concurrent core of the host daemon (`src/apps/host-daemon`) and of the
web client (`src/apps/web-client`), its connection, its views and what they send, checked with TLC on small instances, with theorems
about them checked by TLAPS. Paths below are relative to the repository; `host/` stands for
`src/apps/host-daemon/src/` and `web/` for `src/apps/web-client/src/`.

## 1. Inventory

A phone opens a page, scans a QR code, pairs, and then drives virtual gamepads, a mouse and a
keyboard of a computer over a WebRTC data channel, or over the signaling WebSocket when there is
no WebRTC. Up to four phones play at once. Everything in the daemon is Tokio tasks, callbacks of
the WebRTC stack and short critical sections of mutexes and atomics.

| Part | State | Operations | Talks to |
|---|---|---|---|
| Dead-man watchdog `host/input/watchdog.rs` | three atomics: last feed, armed, triggered | feed, arm, disarm, the monitor task | fed by every packet, armed and disarmed by channel callbacks; its emergency calls `neutralize` |
| Input router `host/input/router.rs` | a driver and the last report per slot, mouse, keyboard, touchpad bits; one mutex each | route an event, `neutralize_slot`, `neutralize` | called by the dispatcher, the monitor and the callbacks |
| Input pipeline `host/transport/packet_handler.rs`, `webrtc.rs`, `host/main.rs` | the bounded event queue, the channels' states | packet handling, channel callbacks, dispatcher task | joins the two above |
| Player slots `host/core/multi_peer.rs` | four optional peers under one `RwLock` | allocate, reclaim, set state, feed, free, reset | pairing, signaling, channel callbacks |
| Nonces `host/pairing/nonce.rs` | a table of nonces with their birth | generate, validate and consume, purge | pages that show a QR code, pairing |
| Pairing handshake `host/transport/signaling.rs` (`pair_handler`) | the legacy session of slot 0 | pair, reset | nonces, HMAC, slots |
| Signaling sockets `host/transport/signaling.rs` (`handle_signaling_socket`) | the peer connection listed per slot | connect, frames, cleanup | slots, router |
| Smart Context `host/context/` | arbitrator, debounce state, attached channel | poll, overrides, emergency, attach | dispatcher, tray, watchdog, data channel |
| Drivers `host/drivers/` | keys down, devices | events, neutralize | the OS |
| Motion processor | filter and sub-pixel remainders | process, neutralize | router |
| Wire protocol `packages/protocol*` | per-stream sequence tracker | encode, decode, accept | both ends |
| Smart TV `host/tv/` | device registry, active device, pairing tokens | discover, dispatch with priorities, adapters | router, the network |
| Client transport `web/transport/` | connection state, timers, backoff | connect, reconnect, fall back, send | signaling, data channel |
| Client pairing `web/features/pairing/`, `useWebRtc.ts` | stage, session, current transport, camera streams | scan, pair, cancel, connect, disconnect | HTTP to the daemon, transport |
| Dashboard `web/app/App.tsx`, `web/features/context/` | the view on the screen, settings | mode switches of the user and of the host | every view |
| Keyboard, trackpad, air mouse, media deck `web/features/` | sticky modifiers, tracked touches, drag locks, timers | pointer and touch events, timers | `ProtocolBridge` |
| Gamepad `web/features/gamepad/` | pointer captures, the state holder, the sampler | pointer events, sampling ticks, aim modes | `ProtocolBridge`, sensors |
| TV remote `web/features/tv/` | the TV shown, the list of TVs | fetch, pick, add by address, command | HTTP to the daemon, data channel |
| Layout studio `web/features/studio/` | the active layout, `localStorage` | edit, drag, copy, import, delete | gamepad |
| Gyroscope calibration `web/features/settings/`, `web/sensors/` | samples, bias, `localStorage` | permission prompt, calibrate, abort, clear | `devicemotion` |

What is hard here, and where it bites, is the list `hazards` of `PROJECT.json`. In short: one
watchdog is shared by all players while the slots are meant to be isolated; its atomics have no
lock; an event waits in a queue between the moment it is accepted and the moment it presses
something; sockets and channels remember a slot that may have changed hands; a handler takes its
locks one after the other; and several steps are best effort (`try_write`, `try_send`, `try_lock`, an
unreliable channel). In the client there is one thread, and what is hard is what outlives the callback that
began it: a timer that releases a key after its view has gone, a promise whose answer arrives when the
screen that asked has been left or has asked again, a finger whose control is rebuilt under it, and pressed
buttons that exist three times, on the glass, in the client's state and in the host. What makes each part correct is stated as properties below.

## 2. Modules

Each module is the specification of one component: constants with named assumptions, variables,
one action per operation, properties at the end. A composed module EXTENDS its parts, so that
their definitions, and the theorems about them, speak of the same variables. Definitions that
carry a comment "Mutant" are wrong versions of the definition that follows them; no specification
uses them, they are there to show that a property can fail (`mutants` in `PROJECT.json`).

| Module | Models | Composed of |
|---|---|---|
| `Watchdog` | `DeadManWatchdog`, one atomic access per step | |
| `InputRouter` | `InputRouter`, one lock per step | |
| `InputPath` | packets, watchdog, queue, dispatcher, channel callbacks | `Watchdog`, `InputRouter` |
| `SlotManager` | `MultiPeerSessionManager`, one write lock per step | |
| `NonceManager` | `NonceManager` | |
| `PairingGate` | abstract: what pairing promises | |
| `Pairing` | `pair_handler`, the pages that show nonces, `reset_slots_handler` | `NonceManager`, `SlotManager`; implements `PairingGate` |
| `Signaling` | `handle_signaling_socket`, data channel callbacks, as far as slots go | `SlotManager` |
| `Context` | `ContextArbitrator`, `ContextWatcher`, tray, mode switches | |
| `Transport` | the phone's `WebRtcTransport`, its `SignalingClient`, the heartbeat of `useWebRtc` | |
| `Told` | what the packets sent so far say is pressed, as the host has it | |
| `KeyboardDeck` | `KeyboardDeck.tsx`: keycaps, macros, typed text, sticky modifiers | `Told` |
| `Trackpad` | `GestureRecognizer`, `TrackpadSurface`, `TrackpadView` | `Told` |
| `AirMouse` | `AirMouseView` | `Told` |
| `MediaRemote` | `MediaRemoteView` | |
| `WebApp` | `App`, `useSmartContext`, the bars and settings that switch the views | the four above |
| `Gamepad` | the gamepad view, `useGamepadState`, `GamepadSampler`, `GyroAimController` | |
| `PairingClient` | pairing screen, scanner, `PairingManager`, `usePairing`, `useWebRtc` | |
| `TvRemote` | TV remote, target selector, the daemon's registry, selection handlers and dispatcher address | |
| `Network` | what awaits an answer of the network | `PairingClient`, `TvRemote` |
| `LayoutStudio` | `useCustomLayout`, `LayoutStorageManager` | |
| `GyroCalibration` | gyroscope settings, calibration dialog, `BiasCalibrator` | |
| `Storage` | what is kept in `localStorage` | `LayoutStudio`, `GyroCalibration` |
| `MCInputPath`, `MCPairing`, `MCContext`, `MCNetwork`, `MCStorage`, `MCWebApp`, `MCGamepad` | values for the constants of the runs, and their symmetries | |
| `InputPathProofs` | theorems about the router, the watchdog and the pipeline | `InputPath` |
| `SignalingProofs` | theorems about the slots and the sockets | `Signaling` |
| `PairingProofs` | theorems about nonces, slots and the gate | `Pairing` |
| `ContextProofs`, `TransportProofs`, `WebAppProofs`, `NetworkProofs` | theorems about the module they name | |
| `GamepadProofs` | theorems about the gamepad, its layouts and its gyroscope's bias | `Gamepad`, `Storage` |

How state and steps correspond to the code:

- **Watchdog.** `elapsed` is `elapsed_since_feed()`; it saturates one tick past `Timeout`, because
  the code only ever compares it. `feed` is two stores, `arm` is a feed and two stores, `disarm`
  two stores: `call[c]` is the program counter of a caller. The monitor's tick loads `armed` (`SampleArmed`), then
  the clock and the last feed (`SampleFeed`), swaps (`Swap`) and runs `on_emergency` (until `Fired`).
- **InputRouter.** `route` is the report that the dispatcher has written to
  `latest_gamepad_state` and not yet handed to the driver. `sweep[t]` is where a neutralizing
  thread is among the locks it takes in order. A report, a key and a button are members of small
  sets; Motion, Media, TV and Heartbeat events leave nothing held and are one action.
- **InputPath.** `life` is what the callbacks of a channel have reported, `peer` what the callback of
  a peer connection has, which disarms the watchdog whatever its channel is doing; `handling` is the packet
  whose feed is under way, `queue` the mpsc channel, which drops what does not fit. A phone may fall
  asleep without closing anything, and its packets may be lost; `finger` is what its user holds.
- **SlotManager.** Ages are ticks saturating one past their limit. Session ids are random and so
  never drawn twice: `used` remembers them.
- **Pairing.** A request is a handler that is suspended between its locks: consume and verify,
  allocate, store the legacy session. HMAC is a Boolean of the request: right or wrong.
- **Signaling.** A socket is resolved, listed, open, and then cleaned up lock by lock. Feeding and
  state changes from callbacks may be skipped, as `try_write` may fail. Its data channel lives on
  after the socket's end, as it does in the daemon.
- **Context.** `holder` is the arbitrator's async mutex where it is kept across an await. The profile
  matcher is a function of the window. `set_data_channel` spawns a task, so `spawned` is a set.
- **Transport.** JavaScript runs one callback at a time, so a step is one callback with the
  continuations it resolves; `call` is where the one call of `connect()` awaits. `peer` is the
  newest peer connection: closing one ends its callbacks, fires no close event for its channel and
  leaves the functions that await its operations suspended, as WebRTC specifies. An offer or an answer
  on the socket is the newest peer connection's or `"stale"`. `timers` counts the reconnect timers, which
  nothing cancels. The host answers every offer that reaches it; refusals and unreachable peers are
  `NegotiationFails`.
- **Told.** `keysTold` and `mouseTold` are what the host has heard is down, each key by its last packet: a touchpad
  packet replaces the whole mask, so `mouseTold` is the mask of the last one, and `mine` says whether the present view
  sent it. The host forgets nothing of either when a channel closes, and KILL INPUT is no action: what it sends is a flag
  that the host never reads (`ResetReleases`, below).
- **KeyboardDeck.** `ups[k]` counts the key-up timers of key `k`; nothing cancels them, so they survive the deck, and one
  that is due when the channel is gone leaves its key in `stranded`. `mods` is `activeMods`: a sticky modifier stays until
  it is toggled again, however many keys are tapped.
- **Trackpad.** `where` says what each finger is on, `tracked` is the recognizer's map of touches, which may differ: a
  touch that ends outside is told by `touchcancel`. `physical` is `activeButtonsMask`; `tapUps` and
  `rightUps` count the `setTimeout`s that release a click. Whether a touch was short and still enough is a choice.
- **AirMouse, MediaRemote.** The trigger, the drag lock and the pointer toggle are React state, `backUps` and
  `repeat` timers. Unmounting takes the state away, and with it whoever would have released.
- **WebApp.** `View` is what `App` renders: the mode's view while connected, else none. Both the user's buttons
  (each view's own bar) and the host's `ModeSwitch` change `mode` at any point between two callbacks. `strays` are the
  masks that timers of views no longer mounted have yet to send.
- **Gamepad.** A pointer is captured by a control (`finger`), the control has its own idea of it (`dpadBy`,
  `stickBy`, `triggerBy`), the holder has the buttons (`held`, `lt`), the host the last `report`. `activeMask` is the
  D-pad's React state: what is drawn, and the updaters that wait for a render, each of which reports its direction when
  it runs if it was not run at once. `Render` is any re-render of the view: `useGamepadState` returns a new object each
  time, so the sampler's effect is cleaned up and started anew.
- **PairingClient.** An attempt is one call of `pairWithParams` and the `connect` that may follow; `phase` says where it
  awaits. `live` are the transports that nobody has closed, `current` the one `transportRef` names, `beats` the
  heartbeat intervals. `prompts` and `streams` count `getUserMedia` calls and the cameras they turned on, `gone` the
  prompts of scanners that are no longer there; a render of `App` runs the scanner's effect again (`Restart`).
  `awaited` is an answer (a nonce, a frame) that its view's going does not cancel.
- **TvRemote.** `posts` and `typed` are requests on their way to the host, which may get lost (`Lost`); `joining` are
  handlers that await `connect_device`, after which `target` is set; `fetch` and `list` are answers on their way to the
  phone, `adding` the answer that the manual entry awaits. `Discover` prunes typed and selected TVs like any other.
- **LayoutStudio, GyroCalibration.** `saved`, `activeId`, `stored` are `localStorage`; the other variables are React
  state and refs. The content of a layout is the number of the edit that made it; a bias is a number, 0 none.
  `waiting` is an edit whose updater React runs at a later render; `refused` and `unsaved` say that a write was refused,
  of which the code tells nobody, and `outrun` that a waiting edit met another layout. `orphans` counts the prompts and
  calibrations whose tab has been closed.

## 3. Runs

| Run | Instance | Shows |
|---|---|---|
| `InputPathIsolation` | 2 players, 2 slots, both claiming slot 0, queue of 1 | `PadsOfOpenedSlots`, `LatestIsShown`, `ArmedUntilOneEnds` |
| `InputPathSilence` | 1 player who presses pads and keys, 1 peer connection that fails or closes | `SilenceFires`, `SweepReleasesKeys`, `ArmedSilenceReleases`, `ArmedUntilOneEnds` |
| `Pairing` | 3 requests, 2 nonces, 2 clients, 3 sessions, 1 slot | `SingleUse`, `ImplementsGate` |
| `Signaling` | 2 slots, 3 clients, 2 sockets, 2 sessions | `DistinctOccupants`, `LivePeerKept`, `SessionStaysPut`, `BoundToOwnSlot`, `DesertedIsReclaimable` |
| `Context` | 2 windows, 1 channel, debounce 2 | `PriorityHeld`, `AnnouncedIsInForce`, `ForegroundWins` |
| `Transport` | 2 attempts, 1 retry of the socket, 2 timers | `ClosedForGood`, `GivesUpLate`, `OpenIsUsed`, `ChannelComesBack` |
| `WebApp` | a key and a modifier, 2 pending key-ups of each, 2 fingers, 1 pending timer of each other kind | `ButtonsAreOwned`, `RepeatIsHeld`, `KeysComeUp` |
| `Gamepad` | 2 pointers, 2 face buttons, a direction, a waiting update of the D-pad, hold and toggle aiming | `HeldHasFinger`, `AimFollowsTrigger` |
| `Network` | 2 attempts, 2 camera prompts, a TV found and a TV typed in | `ConnectedIsLive`, `OneLink` |
| `Storage` | 1 preset, 2 layouts of the user, 2 edits, 2 samples, 2 prompts | `SavedAsShown`, `ActiveIsEdited`, `ProgressIsReal`, `BiasIsStored` |

`InputPathIsolation`, `Signaling`, `Transport` and `Gamepad` also check their type invariant. The other modules define
one (`TypeOK`, in `Watchdog` `WatchdogTypeOK`) that holds on the same instances.

Why the bounds are enough to meet the interesting cases:

- A timeout of one tick still separates "fed", "at the limit" and "stale"; a queue of one is full after one
  packet and non-empty during a sweep, the two states that matter. Two players are the least for which
  the shared watchdog and a claimed slot can go wrong; every property that speaks of two
  players has a mutant that breaks it within the instance.
- In `Pairing` the pairing limit is below the idle limit, as in the code (10 s and 30 s), three
  requests compete for two nonces, and one slot makes refusal and reclaiming both happen.
- In `Signaling` two sockets may belong to one phone (a reconnection) or to two, two sessions are enough for
  a slot to change hands under an open socket, and the third client is refused when both are taken.
- In `Context` a window with a profile and one without give every branch of `evaluate`, and the mode `tv`
  is one that only the client knows. One data channel is enough for the three properties; a second one matters only
  for `LoneChannelAttached` (below).
- In `Transport` two attempts give a first, a last and a refused one; one retry makes the socket come
  back once and then give up; two timers are the least for which two reconnections overlap. More of each
  (3, 2, 2) has been run for the invariants. Deadlock is not checked: a transport that was closed
  before anything was in flight, or that gave up, stops.
- `ArmedUntilOneEnds` is checked twice: in `InputPathIsolation` for two players, 1.9 million states, and in
  `InputPathSilence` for a peer connection that can end before, between and after the callbacks of a channel.
  In `InputPathSilence` the callbacks of the channel and of the peer connection are the two callers of
  the watchdog that an arm needs to meet a disarm between its stores; the packets only press, so that whatever is released
  was released by the host. 0.3 million states. `SilenceFires` has been run for two callers that both feed, arm and
  disarm as well (`Watchdog` alone, with the constants of `WatchdogLost`).
- In `WebApp` two fingers give a two-finger tap, a scroll, and a tap beside a held clicker; a second pending timer of a
  mask sends the same mask as the first, but two pending key-ups of one key let its taps overlap, and a key-up come
  between two presses. Fingers are symmetric. 2.1 million states.
- In `Gamepad` two pointers are the least for which one displaces another from a control and for which a finger slides
  onto a button another one holds; one move that waits for a render, and the
  release's own update beside it, let a late one run after an earlier one and after a release. The
  right side of the gamepad is the left one with other bits and is left out, as is the second trigger. Pointers are
  symmetric. 2.0 million states.
- In `Network` two attempts overlap whenever the first is cancelled; a third would meet a state that two reach as well,
  since an attempt that is over leaves only its transport. Two prompts are the least for which one scanner's prompt is
  answered beside another's. `Next` bounds the product by exploring the two parts in turn (`Pending`, `Quiet`): they share
  only whether the remote is mounted. `Step` has no such bound, and the theorems are about `Step`. Attempts are
  symmetric. 2.2 million states.
- In `Storage` the parts are explored in turn too (`StorageNext`): they share no variable, only the
  browser's storage, under different keys; the theorems let them interleave freely. Two edits separate "stored", "shown"
  and "older"; one waits at a time; one preset is enough, as presets differ in their pictures only; two samples separate
  an unfinished calibration from a finished one. The user's layouts are symmetric. 5.7 million states.
- The views and dialogs of the client may all be closed for good, so the runs about them do not check for deadlock;
  neither do those of the input pipeline, whose channels are used once and whose players owe nothing.

### Fairness

Safety properties are checked without fairness. `ArmedSilenceReleases`, `SweepReleasesKeys`,
`SilenceFires`, `DesertedIsReclaimable`, `ForegroundWins`, `ChannelComesBack` and `ReleasesAreReported`
assume only this:

- time goes on (`WF` of the tick);
- tasks of the Tokio runtime that can go on do (`WF` of the monitor, the dispatcher, the poll, a callback or
  cleanup that has begun): straight-line code that waits for nothing but a lock that is always
  released;
- a poll that finds the arbitrator's lock free again and again gets it (`SF` of
  `PollEvaluates`): Tokio's mutex is first come, first served;
- in the browser, timers fire and promises settle (`WF` of `OfferReady`, `TimerFires`, `SocketTimerFires`),
  a reachable host answers and an answered offer opens its channel unless the network says otherwise (`WF` of
  `HostAnswers`, `AnswerArrives`, `ChannelOpens`). What the network does instead, such as a dropped socket,
  ends the premise of `ChannelComesBack`;
- the sampler's interval runs while the gamepad view is mounted (`WF` of `Sample`, for `ReleasesAreReported`):
  `GamepadSampler` is a `setInterval` that only the unmounting clears.

No user or network owes the daemon anything, except in the configurations about heartbeats
(`StreamingSpec`): there the client's interval timer sends one as long as it is connected, as
`web/features/connection/useWebRtc.ts` means it to; `ConnectedHasHeartbeat` below shows when it does not.

### Where the code and its documents disagree

Two runs show a statement of a document that the code does not keep; each is in `findings` with the quotation.

| Run | Property | What happens |
|---|---|---|
| `InputPathDisconnect` | `DisconnectReleases` | keys and mouse buttons that are down when the data channel closes stay down: `on_close` disarms the watchdog and resets the one gamepad |
| `GamepadHeld` | `HeldUntilLifted` | a re-render of the gamepad view resets the state holder, and a button that a finger still holds is released |
Further disagreements have a property beside the runs. Each of these properties, a promise that a document, a comment or a test makes or a reader would expect, is
defined in a module and ends in a counterexample as the one property of the configuration named here
(`SPECIFICATION` and symmetry are those of the configuration, unless it says otherwise; the `MC` module is the run's):

| Module | Property | In the configuration | What happens |
|---|---|---|---|
| `Watchdog` | `EverySilenceFires` | `WatchdogLost` | a feed between the monitor's sample and its swap leaves `triggered` set, and the next silence fires nothing; `watchdog_tests.rs:76` has it fire "exactly once per stale cycle" |
| `Watchdog` | `FedIsNotTriggered` | `WatchdogLost` | the same feed leaves a live session marked triggered |
| `InputPath` | `ArmedWhileStreaming` | `InputPathIsolation` | the close of one player's channel, or the end of any peer connection, disarms the watchdog of the other player |
| `InputPath` | `SleepingPhoneFires` | `InputPathMasked` | another player's packets feed the shared watchdog, so a sleeping player's pad stays pressed |
| `InputPath` | `ClosedPadsNeutral` | `InputPathIsolation` | a report queued before the close presses the pad after `neutralize_slot` |
| `InputPath` | `SilenceReleases` | `InputPathSilence` | an event still queued is dispatched after the one emergency sweep of a silence |
| `InputPath` | `ResetReleases` | `InputPathReset` | the emergency flag of the phone's kill button is never read by the host |
| `InputPath` | `LiftedKeysReleased` | `InputPathReset` | a lost key-up leaves the key down while heartbeats keep the watchdog fed |
| `InputPath` | `SleepingSocketReleases` | `InputPathFallback` | input over the signaling socket never arms the watchdog |
| `InputRouter` | `MouseFollowsTouch` | `InputRouterTouch` | a touch between two locks of `neutralize` leaves a mouse button that the bookkeeping believes up |
| `Pairing` | `SessionIsSlotZeros` | `Pairing`, under `UnconnectedSpec` | a request stores its session after a reset has taken its slot back: the legacy session (`state.rs:27`: "Slot 0 for backwards compatibility") is in no slot |
| `Pairing` | `NoncesAreForgotten` | `Pairing`, under `FairSpec` and without symmetry | `cleanup_expired` has no caller, so a nonce nobody posts stays in memory |
| `Signaling` | `ReconnectKeepsSlot` | `Signaling`, under `UnresetSpec` | the cleanup of its old socket frees the session, so a phone that reconnects with it is served as slot 0; `FAILURE_RECOVERY.md:85-86` resumes the channel |
| `Signaling` | `LiveSlotIsListed` | `Signaling` | the cleanup of an old socket unlists the connection that replaced it |
| `Signaling` | `OnePlayerPerSlot` | `Signaling` | a socket whose session is gone falls into slot 0, which another phone may be using |
| `Signaling` | `StreamingPeerKept` | `Signaling` | a phone in fallback mode stays Pairing and loses its slot after ten seconds |
| `Context` | `PhoneFollowsHost` | `ContextPhone` | a tray override, or the mode that was settled before a phone connected, is never sent to it |
| `Context` | `LoneChannelAttached` | `Context`, with two channels | one player's close detaches the channel of the one who stays |
| `Context` | `EmergencyEnds` | `Context` | nothing clears the arbitrator's emergency |
| `Transport` | `ConnectedHasHeartbeat` | `Transport` | when connecting fails and a later attempt of the transport succeeds, the connection has no heartbeat |
| `Transport` | `AnswersItsOffer` | `Transport` | an answer to an earlier offer is applied to the peer connection that replaced it |
| `Transport` | `OpenChannelKept` | `Transport` | a reconnect timer that nobody cancelled tears down the channel another recreation has opened |
| `Transport` | `FailedAttemptIsRetried` | `Transport` | an attempt whose ICE fails is not followed by another: bad news counts only while connected |
| `Transport` | `DisconnectedStays` | `Transport` | the socket that `disconnect()` closes under `connect()` turns the state to failed |
| `WebApp` | `RightClickTakesTwo` | `WebApp` | a finger on a clicker counts among the touches, so a tap of one finger beside it is a right click |
| `Gamepad` | `DirectionHasFinger` | `Gamepad` | React runs the D-pad's updater after the pointer was lifted, and a direction stays held with no finger |
| `Network` | `CameraOffWithoutScanner` | `Network` | a camera prompt answered after the scanner was left, or after a render ran its effect again, turns on a camera that nothing turns off |
| `Network` | `CommandsReachSelected` | `Network`, without symmetry | two selections that overlap in their handlers leave one TV selected and another one commanded |
| `Storage` | `EditsAreStored` | `Storage` | a refused write is swallowed, and the studio shows what is not stored |

One more configuration passes: `GamepadReports` (one pointer, two directions) checks `ReleasesAreReported`, that the
sampler reports every release while the view stays.

### Behaviour of the client that the models show and no document speaks of

The models follow the code in these points, and the properties are stated around them:

- A gamepad view that goes away while a button is held leaves the host's last report pressed (hence `~shown` in
  `ReleasesAreReported`); a pending release of a stick click also ends a press of the same stick that began after it.
- From the gamepad, trackpad, keyboard and media views no button leads back to the TV remote or the air mouse.
- A handshake that was cancelled and succeeds all the same connects; a superseded `open` that fails late
  sets the state `error` over a connection that is up.
- TV remote: a late answer of `fetchCurrentTarget` replaces the TV the user has picked meanwhile; a selection that is
  lost or refused leaves the TV shown and another one commanded; the TV that is shown first need not be the
  address the dispatcher starts with. So no property says that the TV shown is the one commanded. A TV that was typed
  in becomes a generic one, and the 40 ms throttle of `TvCommandService` throttles nothing.
- Keyboard: a key-up that is due while there is no channel is never sent again, and the host keeps the key down
  (`stranded` in `KeysComeUp`; `DisconnectReleases` is the host's side of it).
- Studio: adding or removing an element of a preset stores the result under the preset's id, where it is never loaded;
  moving one is not stored at all; a copy is made of the list's, perhaps older, content; an edit whose updater waits
  may be stored after another layout has been put on the canvas (`outrun`).
- Calibration: a denied permission does not stop the calibration; one whose tab was closed stores its bias over a newer
  one (`overtaken`); `GyroAimController` asks a calibrator of its own that never calibrates.

## 4. Theorems

They hold for every value of the constants that satisfies the modules' assumptions. What is assumed: numbers (slots, limits,
times, bounds of pending timers and prompts) are naturals, positive where zero would mean none of something the
code always has; sets of names have the members the code refers to (`Neutral \in Reports`, `Left \in Buttons`,
the default mode and preset); values that stand for "nothing" are not in the sets they stand beside; and `Fingers` is
finite, because the trackpad counts them. No set but `Fingers` is bounded.

| Theorem | Of | Says |
|---|---|---|
| `InputPathProofs!TypeCorrect` | `RouterSpec` | `[]RouterTypeOK` |
| `InputPathProofs!RememberedIsShown` | `RouterSpec` | `[]LatestIsShown` |
| `InputPathProofs!PathImplementsRouter`, `PathImplementsWatchdog` | `Spec` | every step of the pipeline is a step of the part or leaves it alone |
| `InputPathProofs!PathRemembersShown` | `Spec` | `[]LatestIsShown`, inherited through the refinement |
| `InputPathProofs!PathTypeCorrect` | `Spec` | `[]TypeOK` |
| `InputPathProofs!PadsOnlyOfOpenedSlots` | `Spec` | `[]PadsOfOpenedSlots` |
| `InputPathProofs!StaysArmed` | `Spec` | `[]ArmedUntilOneEnds` |
| `InputPathProofs!UndisturbedSweepReleases` | `RouterSpec` | a neutralization of everything during which the dispatcher routes nothing leaves nothing pressed |
| `InputPathProofs!UndisturbedEmergencyReleases` | `Spec` | the same of the watchdog's emergency |
| `SignalingProofs!OccupantsDistinct` | `SlotSpec` | `[]DistinctOccupants` |
| `SignalingProofs!LivePeersKept` | `SlotSpec` | `LivePeerKept` |
| `SignalingProofs!SessionsStayPut` | `SlotSpec` | `SessionStaysPut` |
| `SignalingProofs!SignalingImplementsSlots` | `Spec` | sockets and callbacks use the slots as `SlotSpec` allows, so its theorems hold of them |
| `SignalingProofs!DaemonKeepsSlots` | `Spec` | `[]DistinctOccupants`, `LivePeerKept`, `SessionStaysPut`, inherited |
| `SignalingProofs!SignalingTypeCorrect` | `Spec` | `[]TypeOK` |
| `SignalingProofs!SocketsStayBound` | `Spec` | `[]BoundToOwnSlot` |
| `PairingProofs!NoncesUsedOnce` | `Spec` | `[]SingleUse` |
| `PairingProofs!PairingImplementsSlots` | `Spec` | requests, resets and peers use the slots as `SlotSpec` allows |
| `PairingProofs!PairingIsAGate` | `Spec` | `ImplementsGate`: every step is a step of `PairingGate` or a stutter |
| `ContextProofs!ContextTypeCorrect` | `Spec` | `[]TypeOK` |
| `ContextProofs!PrioritiesHold` | `Spec` | `[]PriorityHeld` |
| `ContextProofs!AnnouncementsAreTrue` | `Spec` | `[]AnnouncedIsInForce` |
| `TransportProofs!TransportTypeCorrect` | `Spec` | `[]TypeOK` |
| `TransportProofs!NothingAfterDisconnect` | `Spec` | `[]ClosedForGood` |
| `TransportProofs!AttemptsUsedUp` | `Spec` | `[]GivesUpLate` |
| `TransportProofs!OpenChannelsUsed` | `Spec` | `[]OpenIsUsed` |
| `WebAppProofs!WebAppTypeCorrect` | `Spec` | `[]TypeOK` |
| `WebAppProofs!KeysHaveTheirKeyUp` | `Spec` | `[]KeysComeUp` |
| `WebAppProofs!ButtonsHaveAnOwner` | `Spec` | `[]ButtonsAreOwned` |
| `WebAppProofs!VolumeStopsWithTheFinger` | `Spec` | `[]RepeatIsHeld` |
| `NetworkProofs!NetworkTypeCorrect` | `UnboundedSpec` | `[]TypeOK` |
| `NetworkProofs!DashboardIsLive` | `UnboundedSpec` | `[]ConnectedIsLive` |
| `NetworkProofs!LinkIsSingle` | `UnboundedSpec` | `[]OneLink` |
| `NetworkProofs!BoundsOnlyRestrict` | `Spec` | `UnboundedSpec`: the run explores behaviours the theorems speak of |
| `GamepadProofs!GamepadTypeCorrect` | `Spec` | `[]TypeOK` |
| `GamepadProofs!NothingHeldAlone` | `Spec` | `[]HeldHasFinger` |
| `GamepadProofs!AimIsTheTriggers` | `Spec` | `[]AimFollowsTrigger` |
| `GamepadProofs!StorageTypeCorrect` | `UnboundedStorageSpec` | `[]StorageTypeOK` |
| `GamepadProofs!ShownIsSaved` | `UnboundedStorageSpec` | `[]SavedAsShown` |
| `GamepadProofs!EditedIsActive` | `UnboundedStorageSpec` | `[]ActiveIsEdited` |
| `GamepadProofs!ProgressHasCause` | `UnboundedStorageSpec` | `[]ProgressIsReal` |
| `GamepadProofs!UsedBiasIsStored` | `UnboundedStorageSpec` | `[]BiasIsStored` |
| `GamepadProofs!StorageBoundsOnlyRestrict` | `StorageSpec` | `UnboundedStorageSpec` |

The inductive invariants, and why the properties are not inductive as they stand:

- **InputRouter.** `LatestIsShown` excuses a slot that is half swept or being routed. To keep it,
  one must know that a sweep in progress runs up to one of the ends the code gives it (a lone report step or
  the touchpad step), so that a driver step is always followed by the report step of the same slot, and
  that a pending report is the one remembered unless it was swept meanwhile. These are the parts
  `SweepShape` and `RouteShape` of `IInv`.
- **InputPath.** A pad is pressed long after its packet was accepted. `PadIInv` therefore speaks of every
  place a report passes through (the packet being handled, the queue, the report on its way to the driver):
  wherever it names a slot, a channel of that slot has been opened (`ReportsOfOpenedSlots`).
- **SlotManager.** `IInv` adds to the types that an occupant's session id is among the used
  ones: a new id is then in no slot, which gives distinctness, and an old one
  never moves. `LivePeerKept` follows step by step: only `TakeSlot` gives a slot to another client, and it
  takes slots that are empty or abandoned.
- **Signaling.** A socket's claim on its slot survives whatever others do because `SlotManager` never moves a
  session; to use that, `SocketIInv` adds that every session id that a phone or a socket knows has been
  used (`KnownSidsUsed`), so that no allocation draws it again.
- **Pairing.** `IInv` adds that a nonce which some request holds is out of the table but among
  the issued (so nobody can redeem it again), and that a nonce not yet drawn has age zero (so a new one can be
  redeemed). The refinement maps the nonces that can be redeemed now to the offer of
  the gate: a tick that lets some expire, and a request that fails, are both withdrawals.
- **Transport.** `PeerShape` says how far a peer connection is when it has a channel or an answer, which
  tells that a failing offer never belongs to an open channel. `Beginning` says that there is no peer connection and no
  timer before `connect()` has its socket, so that an early failure of the socket leaves nothing behind.
- **InputPath, the armed watchdog.** A channel opens by arming in three stores, and another's callback may come between
  them. `OpenArms` therefore says that an open channel has armed the watchdog or is between its stores, and it
  says so only while no data channel has closed and no peer connection has failed or closed: whoever ends disarms for
  all. That is the limit of the property, not of the proof: `ArmedWhileStreaming` fails (Section 3).
- **InputRouter, an undisturbed sweep.** `SilenceReleases` fails because a queued event may be dispatched during or after the
  one sweep of a silence. `UndisturbedSweepReleases` is what is left of it and says that nothing else is to blame: the
  invariant `Releasing` is that everything before the sweep's place is released (`SweptSoFar`) and that other sweeps
  press nothing, under the hypothesis `OnlyNeutralizing` in place of the dispatcher's steps.
- **Context.** A lock without a mode would let the next evaluation fall through to the profile (`LockedHasMode`), and
  an announcement stays true only because the poll keeps the arbitrator's lock while it sends (`SendsUnderLock`), so that
  no tray command is evaluated meanwhile.
- **WebApp.** The three properties are inductive together with the types, once the types count pending timers from
  zero. What needs the argument is the order in which a view is unmounted and its timers fire: a timer of a view that has
  gone sends a mask that is no longer the last one's own (`mine`).
- **Network.** The heartbeat runs once because its interval is started only over the transport that counts and stopped
  before another one counts (`Beating`). The scanner, its prompts and the remote only have to keep their types: they
  leave the link alone, which is what the lemmas about them say.
- **Gamepad.** The holder is separate from the controls, and the controls from the glass: `Captured` says that the pointer
  a control goes by is still on it, `TriggerInForce` that the aim controller knows of the trigger's finger and that an
  unmounted view has no fingers. A late update of the D-pad writes directions only, so it cannot hold anything else.
- **LayoutStudio, GyroCalibration.** `Listed` says that the layout being edited is on the list and that what the list has of
  the user's own is stored, `WaitsForShown` that an edit which waits is of the layout on the canvas until another one is
  put there. Both hold however many writes were refused. `Counting` says that a calibration which still listens has
  not had all its samples.

TLC found the properties to hold on the instances of Section 3 before they were proved.

Only model-checked: what must eventually happen (`SweepReleasesKeys`, `ArmedSilenceReleases`, `SilenceFires`,
`DesertedIsReclaimable`, `ForegroundWins`, `ChannelComesBack`, `ReleasesAreReported`), since fairness and ENABLED are out of the
prover's reach, and the disagreements of Section 3, which are counterexamples. Every invariant and every step
property that a passing run checks has a theorem. Nothing here is
recursive.

## 5. What is left out, and the plan

Left out of the modules above, on purpose or for now:

- packets overtaking each other inside the unordered channel (the host compares no sequence numbers);
- the router's `EmergencyReset` event, which nothing creates, and its RightStickAdditive motion mode, which nothing
  selects; errors of the drivers; the numbers in the motion filter;
- SDP, ICE and DTLS; the task that forwards ICE candidates; sockets that send no session id;
- ICE candidates of the client; a second transport that is made while the first is still connecting (`Transport`
  models one; `PairingClient` has several, each in any state); the state that a channel reports on its own after an
  explicit disconnect;
- in the client's views: pointer movement, scroll distances, stick positions between centre and edge, durations that
  decide whether a touch is a tap (each a choice), haptics, wake lock, battery telemetry, wording and layout;
- in the scanner: the torch, the list of cameras, redirects to the local address, key derivation;
- TV protocols of the adapters, a TV that changes its address, the timing of the discovery.

Not modelled: the drivers and the motion processor (the operating system and floating-point filters), the wire protocol,
and configuration, QR rendering and network interfaces, which keep no state between two calls.

Plan, in this order:

1. The safety half of what must eventually happen, as `UndisturbedSweepReleases` is for `ArmedSilenceReleases`: in
   `Context` that only the phone's absence or the lock keeps a settled window from being announced, in `Signaling` that
   nobody renews a deserted slot.
2. `Transport` with the daemon's sockets: the two ends composed, and an abstract connection they implement.
3. `Sequence`: the 16-bit sequence tracker of the protocol packages, in both languages, against a
   reference order on a small modulus; composed with `InputPath` for reordered packets.
4. The pressed keys of the keyboard driver and writes that fail, composed with `InputRouter`.
5. `Context` composed with the event queue: a send that never returns holds the arbitrator's lock, and the
   dispatcher waits for it.
