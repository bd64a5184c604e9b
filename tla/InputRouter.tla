----------------------------- MODULE InputRouter -----------------------------
(***************************************************************************)
(* The host daemon's input router: the dispatcher task routes one event at *)
(* a time to the virtual gamepads, the mouse and the keyboard, while other *)
(* threads (the watchdog monitor, the data channel callbacks, the          *)
(* signaling sockets) neutralize one slot or everything.  Each driver and  *)
(* each piece of bookkeeping has a mutex of its own, so a thread holds one *)
(* lock at a time and the threads interleave between locks: a step here is *)
(* what one lock protects.                                                 *)
(***************************************************************************)
EXTENDS Naturals

CONSTANTS
  N,          \* number of player slots, MAX_PEERS in the code
  Reports,    \* gamepad reports a client may send
  Neutral,    \* the report with every button up and every axis centred
  NoReport,   \* Rust's None in latest_gamepad_state
  Keys,       \* keyboard usage ids
  Buttons,    \* touchpad button bits 0x01, 0x02, 0x04
  Left,       \* the bit a tap clicks, 0x01
  Threads     \* threads that call neutralize or neutralize_slot

ASSUME NAssumption == N \in Nat \ {0}
ASSUME ReportsAssumption == Neutral \in Reports /\ NoReport \notin Reports
ASSUME LeftAssumption == Left \in Buttons

Slots == 0 .. N - 1

VARIABLES
  latest,     \* latest_gamepad_state: last report routed per slot
  pad,        \* the report each virtual gamepad shows to the OS
  mouse,      \* buttons the virtual mouse holds down
  lastTouch,  \* last_touchpad_buttons
  keyboard,   \* keys the virtual keyboard holds down
  route,      \* gamepad report recorded but not yet handed to its driver
  sweep       \* per thread, the next and the last step of a neutralization

routerVars == <<latest, pad, mouse, lastTouch, keyboard, route, sweep>>

(***************************************************************************)
(* neutralize() visits the slots in order, two locks each (driver, then    *)
(* latest_gamepad_state), then the mouse, the keyboard and the touchpad    *)
(* bookkeeping.  Step 2s+1 is the driver of slot s and 2s+2 its report.    *)
(***************************************************************************)
DriverStep(s) == 2 * s + 1
ReportStep(s) == 2 * s + 2
MouseStep == 2 * N + 1
KeyboardStepNever == 2 * N + 4  \* mutant: neutralize forgets the keyboard
KeyboardStep == 2 * N + 2
TouchStep == 2 * N + 3

NoSweep == [at |-> 1, last |-> 0]
Sweeping(t) == sweep[t].at <= sweep[t].last

NoRoute == [slot |-> 0, report |-> NoReport]
Routing == route # NoRoute

SweepRecords == [at : 1 .. TouchStep + 1, last : 0 .. TouchStep]

RouterTypeOK ==
  /\ latest \in [Slots -> Reports \cup {NoReport}]
  /\ pad \in [Slots -> Reports]
  /\ mouse \subseteq Buttons
  /\ lastTouch \subseteq Buttons
  /\ keyboard \subseteq Keys
  /\ route \in [slot : Slots, report : Reports \cup {NoReport}]
  /\ sweep \in [Threads -> SweepRecords]

RouterInit ==
  /\ latest = [s \in Slots |-> NoReport]
  /\ pad = [s \in Slots |-> Neutral]
  /\ mouse = {}
  /\ lastTouch = {}
  /\ keyboard = {}
  /\ route = NoRoute
  /\ sweep = [t \in Threads |-> NoSweep]

-----------------------------------------------------------------------------
(* The dispatcher task *)

\* route_slot_event, GamepadFull: remember the report, release that lock ...
RouteGamepad(s, r) ==
  /\ ~Routing
  /\ latest' = [latest EXCEPT ![s] = r]
  /\ route' = [slot |-> s, report |-> r]
  /\ UNCHANGED <<pad, mouse, lastTouch, keyboard, sweep>>

\* ... then take the driver's lock and write the report.
WriteGamepad ==
  /\ Routing
  /\ pad' = [pad EXCEPT ![route.slot] = route.report]
  /\ route' = NoRoute
  /\ UNCHANGED <<latest, mouse, lastTouch, keyboard, sweep>>

\* Touchpad: the mouse lock is held from the first transition to the update of
\* last_touchpad_buttons, so the event is one step.  Only transitions against
\* lastTouch reach the mouse; a tap presses and releases the left button.
RouteTouchpad(mask, tap) ==
  /\ ~Routing
  /\ LET moved == (mouse \cup (mask \ lastTouch)) \ (lastTouch \ mask)
     IN mouse' = IF tap THEN moved \ {Left} ELSE moved
  /\ lastTouch' = mask
  /\ UNCHANGED <<latest, pad, keyboard, route, sweep>>

\* Keyboard: a repeat (state 2) leaves the held keys as they are.
RouteKeyboard(k, state) ==
  /\ ~Routing
  /\ keyboard' = CASE state = "down" -> keyboard \cup {k}
                   [] state = "up" -> keyboard \ {k}
                   [] state = "repeat" -> keyboard
  /\ UNCHANGED <<latest, pad, mouse, lastTouch, route, sweep>>

\* Motion (Mouse mode), Media, Heartbeat, TvCommand and the other events: pulses
\* and relative motion, nothing stays held.
RouteMomentary ==
  /\ ~Routing
  /\ UNCHANGED routerVars

-----------------------------------------------------------------------------
(* The neutralizing threads *)

BeginNeutralize(t) ==
  /\ ~Sweeping(t)
  /\ sweep' = [sweep EXCEPT ![t] = [at |-> 1, last |-> TouchStep]]
  /\ UNCHANGED <<latest, pad, mouse, lastTouch, keyboard, route>>

\* Mutant: the driver is reset and the remembered report is not.
BeginNeutralizeDriver(t, s) ==
  /\ ~Sweeping(t)
  /\ sweep' = [sweep EXCEPT ![t] = [at |-> DriverStep(s), last |-> DriverStep(s)]]
  /\ UNCHANGED <<latest, pad, mouse, lastTouch, keyboard, route>>

BeginNeutralizeSlot(t, s) ==
  /\ ~Sweeping(t)
  /\ sweep' = [sweep EXCEPT ![t] = [at |-> DriverStep(s), last |-> ReportStep(s)]]
  /\ UNCHANGED <<latest, pad, mouse, lastTouch, keyboard, route>>

\* One lock of the neutralization in progress.
SweepStep(t) ==
  LET k == sweep[t].at
  IN /\ Sweeping(t)
     /\ sweep' = [sweep EXCEPT ![t].at = k + 1]
     /\ pad' = [s \in Slots |-> IF k = DriverStep(s) THEN Neutral ELSE pad[s]]
     /\ latest' = [s \in Slots |-> IF k = ReportStep(s) THEN NoReport ELSE latest[s]]
     /\ mouse' = IF k = MouseStep THEN {} ELSE mouse
     /\ keyboard' = IF k = KeyboardStep THEN {} ELSE keyboard
     /\ lastTouch' = IF k = TouchStep THEN {} ELSE lastTouch
     /\ UNCHANGED route

Route ==
  \/ \E s \in Slots, r \in Reports : RouteGamepad(s, r)
  \/ WriteGamepad
  \/ \E mask \in SUBSET Buttons, tap \in BOOLEAN : RouteTouchpad(mask, tap)
  \/ \E k \in Keys, state \in {"down", "up", "repeat"} : RouteKeyboard(k, state)
  \/ RouteMomentary

Neutralize(t) ==
  \/ BeginNeutralize(t)
  \/ \E s \in Slots : BeginNeutralizeSlot(t, s)
  \/ SweepStep(t)

RouterNext == Route \/ \E t \in Threads : Neutralize(t)

RouterSpec == RouterInit /\ [][RouterNext]_routerVars

\* A thread inside neutralize holds no lock between steps and never waits for
\* anything but a lock, so it finishes; likewise the dispatcher.
RouterFairSpec ==
  /\ RouterSpec
  /\ WF_routerVars(WriteGamepad)
  /\ \A t \in Threads : WF_routerVars(SweepStep(t))

-----------------------------------------------------------------------------
(* Properties *)

\* Some thread has neutralized the driver of s and not yet forgotten its report.
HalfSwept(s) == \E t \in Threads : Sweeping(t) /\ sweep[t].at = ReportStep(s)

\* What the router remembers of a slot is what the slot's gamepad shows, however
\* the dispatcher and the neutralizing threads interleave.  Motion aiming adds to
\* the remembered report, so a wrong one would be replayed on the pad.  It rests
\* on the opposite lock orders of routing (report, driver) and neutralize_slot
\* (driver, report).
LatestIsShown ==
  \A s \in Slots :
    latest[s] # NoReport => \/ pad[s] = latest[s]
                            \/ HalfSwept(s)
                            \/ route.slot = s /\ Routing

\* Every key held when neutralize() starts is released at some later moment.
SweepReleasesKeys ==
  \A t \in Threads, k \in Keys :
    (sweep[t] = [at |-> 1, last |-> TouchStep] /\ k \in keyboard) ~> (k \notin keyboard)

\* FAILURE_RECOVERY section 1: a packet gap never leaves an input stuck.  Once no
\* neutralization is running, the mouse holds no button that the last touchpad
\* event reported as up.
MouseFollowsTouch ==
  (\A t \in Threads : ~Sweeping(t)) => mouse \subseteq lastTouch

=============================================================================
