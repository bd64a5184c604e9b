-------------------------------- MODULE Gamepad --------------------------------
(***************************************************************************)
(* The gamepad view: its touch controls write the state of useGamepadState *)
(* (the holder), which a sampler reports to the host at its rate, and the  *)
(* left trigger drives gyro aiming.  The controls of the right side are    *)
(* those of the left one.                                                  *)
(***************************************************************************)
EXTENDS Naturals, Sequences, FiniteSetsExt

CONSTANTS
  Pointers,    \* pointers that touch the screen
  Face,        \* buttons of the action diamond in this instance
  Directions,  \* directions of the D-pad in this instance
  AimModes,    \* values of settings.gyroAimMode in this instance
  MaxClicks,   \* bound on the pending releases of stick clicks
  MaxWaiting   \* bound on the moves of the D-pad's pointer that wait for a render

\* Bits are South, East, West and North, drawn as A, B, X and Y.
ActionButtons == {"A", "B", "X", "Y"}

ASSUME FaceAssumption == Face \subseteq ActionButtons
ASSUME AimAssumption == AimModes \subseteq {"disabled", "always_on", "hold_lt", "toggle"}

None == "none"

ASSUME PadAssumption ==
  /\ None \notin Pointers
  /\ Directions \subseteq {"up", "down", "left", "right"}
  /\ MaxClicks \in Nat /\ MaxWaiting \in Nat

VARIABLES
  shown,     \* the view is mounted
  finger,    \* per pointer, the control that captured it and where it is on it
  dpadBy,    \* the D-pad's pointer
  activeMask, \* the direction it has drawn, and the updates that wait for a render
  stickBy,   \* the stick's pointer
  triggerBy, \* the trigger's pointer
  held,      \* the holder: buttons and stick
  lt,        \* the holder: left trigger
  clicked,   \* the stick was clicked once, and a second click may follow
  clickUps,  \* pending releases of stick clicks
  aimMode,   \* settings.gyroAimMode
  toggled,   \* isToggleActive
  ltHeld,    \* isLtHeld of the aim controller
  report     \* the last report: the buttons, and "LT" if the trigger was drawn

controlVars == <<finger, dpadBy, activeMask, stickBy, triggerBy>>
holderVars == <<held, lt>>
clickVars == <<clicked, clickUps>>
aimVars == <<aimMode, toggled, ltHeld>>
vars == <<shown, controlVars, holderVars, clickVars, aimVars, report>>

Bits == Face \cup Directions \cup {"stick", "LB", "L3"}
\* What getSnapshot reports.
Snapshot == held \cup (IF lt > 0 THEN {"LT"} ELSE {})

\* handleTriggerMove: 40 px of travel, never below a tenth, rounded half up.
TriggerValue(px) == LET left == IF px > 36 THEN 4 ELSE 40 - px IN (2 * 255 * left + 40) \div 80
Travels == {20, 60}
LtThreshold == 25

Masks == Directions \cup {None}
IdleMask == [drawn |-> None, waiting |-> <<>>]

TypeOK ==
  /\ shown \in BOOLEAN
  /\ finger \in [Pointers -> {"off", "gap", "dpad", "stick", "LB", "L3", "LT"} \cup Face]
  /\ {dpadBy, stickBy, triggerBy} \subseteq Pointers \cup {None}
  /\ activeMask \in [drawn : Masks, waiting : Seq([mask : Masks, late : BOOLEAN])]
  /\ Len(activeMask.waiting) <= MaxWaiting + 1
  /\ held \subseteq Bits
  /\ lt \in {0, 255} \cup {TriggerValue(px) : px \in Travels}
  /\ clicked \in BOOLEAN /\ clickUps \in 0 .. MaxClicks
  /\ aimMode \in AimModes /\ toggled \in BOOLEAN /\ ltHeld \in BOOLEAN
  /\ report \subseteq Bits \cup {"LT"}

ControlsInit ==
  /\ finger = [p \in Pointers |-> "off"]
  /\ dpadBy = None /\ activeMask = IdleMask /\ stickBy = None /\ triggerBy = None

Init ==
  /\ shown = FALSE
  /\ ControlsInit
  /\ held = {} /\ lt = 0
  /\ clicked = FALSE /\ clickUps = 0
  /\ aimMode \in AimModes /\ toggled = FALSE /\ ltHeld = FALSE
  /\ report = {}

Reachable(p) == shown /\ finger[p] = "off"
Put(p, place) == finger' = [finger EXCEPT ![p] = place]

-----------------------------------------------------------------------------
(* The action diamond: a finger may slide from button to button *)

Diamond == Face \cup {"gap"}
Bit(place) == {place} \cap Face

DiamondDown(p, place) ==
  /\ Reachable(p)
  /\ Put(p, place)
  /\ held' = held \cup Bit(place)
  /\ UNCHANGED <<dpadBy, activeMask, stickBy, triggerBy, lt, clickVars, aimVars>>

DiamondMove(p, place) ==
  /\ finger[p] \in Diamond \ {place}
  /\ Put(p, place)
  /\ held' = (held \ Bit(finger[p])) \cup Bit(place)
  /\ UNCHANGED <<dpadBy, activeMask, stickBy, triggerBy, lt, clickVars, aimVars>>

\* Mutant: the button the finger went down on is released, not the one it is on.
DiamondUpForgets(p) ==
  /\ finger[p] \in Diamond
  /\ Put(p, "off")
  /\ UNCHANGED <<held, dpadBy, activeMask, stickBy, triggerBy, lt, clickVars, aimVars>>

DiamondUp(p) ==
  /\ finger[p] \in Diamond
  /\ Put(p, "off")
  /\ held' = held \ Bit(finger[p])
  /\ UNCHANGED <<dpadBy, activeMask, stickBy, triggerBy, lt, clickVars, aimVars>>

-----------------------------------------------------------------------------
(* The D-pad: one pointer, and only a change of direction is reported.  It is *)
(* the updater of React's setActiveMask that reports it.                      *)

Report(d) == held' = (held \ Directions) \cup ({d} \cap Directions)
Wait(d, late) ==
  activeMask' = [drawn |-> activeMask.drawn,
                 waiting |-> Append(activeMask.waiting, [mask |-> d, late |-> late])]

\* updateDirection: React runs the updater at once, which it only does if nothing
\* waits for a render, or at that render.  Bound: MaxWaiting.
Direction(d) ==
  /\ Len(activeMask.waiting) < MaxWaiting
  /\ \/ /\ activeMask.waiting = <<>>
        /\ IF d = activeMask.drawn THEN UNCHANGED <<held, activeMask>> ELSE Report(d) /\ Wait(d, FALSE)
     \/ Wait(d, TRUE) /\ UNCHANGED held
  /\ UNCHANGED <<stickBy, triggerBy, lt, clickVars, aimVars>>

\* The mask before the i-th update that waits.
Before(i) == IF i = 1 THEN activeMask.drawn ELSE activeMask.waiting[i - 1].mask
Drawn == [drawn |-> Before(Len(activeMask.waiting) + 1), waiting |-> <<>>]

\* A render of the D-pad runs the updaters that wait.
DPadRender ==
  LET late == {i \in DOMAIN activeMask.waiting :
                 activeMask.waiting[i].late /\ activeMask.waiting[i].mask # Before(i)}
  IN /\ activeMask.waiting # <<>>
     /\ activeMask' = Drawn
     /\ IF late = {} THEN UNCHANGED held ELSE Report(activeMask.waiting[Max(late)].mask)
     /\ UNCHANGED <<finger, dpadBy, stickBy, triggerBy, lt, clickVars, aimVars>>

DPadDown(p, d) ==
  /\ Reachable(p) /\ dpadBy = None
  /\ Put(p, "dpad") /\ dpadBy' = p
  /\ Direction(d)

DPadMove(p, d) ==
  /\ dpadBy = p
  /\ Direction(d)
  /\ UNCHANGED <<finger, dpadBy>>

DPadUp(p) ==
  /\ dpadBy = p
  /\ Put(p, "off") /\ dpadBy' = None
  /\ IF activeMask = IdleMask THEN UNCHANGED activeMask ELSE Wait(None, FALSE)
  /\ Report(None)
  /\ UNCHANGED <<stickBy, triggerBy, lt, clickVars, aimVars>>

-----------------------------------------------------------------------------
(* The stick: its vector is outside the dead zone or it is not *)

Deflect(out) == IF out THEN held \cup {"stick"} ELSE held \ {"stick"}

\* Two presses within 280 ms click it: L3 goes down and up 80 ms later.
StickDown(p, out, soon) ==
  LET click == clicked /\ soon IN
  /\ Reachable(p) /\ stickBy = None
  /\ Put(p, "stick") /\ stickBy' = p
  /\ clicked' = ~click
  /\ IF click THEN clickUps < MaxClicks /\ clickUps' = clickUps + 1 ELSE UNCHANGED clickUps
  /\ held' = Deflect(out) \cup (IF click THEN {"L3"} ELSE {})
  /\ UNCHANGED <<dpadBy, activeMask, triggerBy, lt, aimVars>>

StickMove(p, out) ==
  /\ stickBy = p
  /\ held' = Deflect(out)
  /\ UNCHANGED <<controlVars, lt, clickVars, aimVars>>

StickUp(p) ==
  /\ stickBy = p
  /\ Put(p, "off") /\ stickBy' = None
  /\ held' = held \ {"stick"}
  /\ UNCHANGED <<dpadBy, activeMask, triggerBy, lt, clickVars, aimVars>>

\* Mutant: the timer of a click is never done.
ClickUpAgain ==
  /\ clickUps' = clickUps - 1
  /\ held' = held \ {"L3"}
  /\ UNCHANGED <<controlVars, lt, clicked, aimVars>>

\* It releases L3 also when the L3 button is held.
ClickUp ==
  /\ clickUps > 0
  /\ clickUps' = clickUps - 1
  /\ held' = held \ {"L3"}
  /\ UNCHANGED <<controlVars, lt, clicked, aimVars>>

-----------------------------------------------------------------------------
(* Bumper and system buttons track no pointer; the trigger tracks the last one *)

ButtonDown(p, b) ==
  /\ Reachable(p)
  /\ Put(p, b)
  /\ held' = held \cup {b}
  /\ UNCHANGED <<dpadBy, activeMask, stickBy, triggerBy, lt, clickVars, aimVars>>

ButtonUp(p, b) ==
  /\ finger[p] = b
  /\ Put(p, "off")
  /\ held' = held \ {b}
  /\ UNCHANGED <<dpadBy, activeMask, stickBy, triggerBy, lt, clickVars, aimVars>>

BumperDown(p) == ButtonDown(p, "LB")
BumperUp(p) == ButtonUp(p, "LB")
SystemDown(p) == ButtonDown(p, "L3")
SystemUp(p) == ButtonUp(p, "L3")

\* Mutant: the trigger may be drawn out to nothing.
TriggerAnyway(v) ==
  /\ lt' = v
  /\ ltHeld' = (v > 2 * LtThreshold)
  /\ UNCHANGED <<held, dpadBy, activeMask, stickBy, clickVars, aimMode, toggled>>

\* handleTriggerChange tells the holder and the aim controller.
Trigger(v) ==
  /\ lt' = v
  /\ ltHeld' = (v >= LtThreshold)
  /\ UNCHANGED <<held, dpadBy, activeMask, stickBy, clickVars, aimMode, toggled>>

TriggerDown(p) ==
  /\ Reachable(p)
  /\ Put(p, "LT") /\ triggerBy' = p
  /\ Trigger(255)

TriggerMove(p, px) ==
  /\ triggerBy = p
  /\ Trigger(TriggerValue(px))
  /\ UNCHANGED <<finger, triggerBy>>

\* A pointer that another one has displaced lets go unnoticed.
TriggerUp(p) ==
  /\ finger[p] = "LT"
  /\ Put(p, "off")
  /\ IF triggerBy = p
     THEN triggerBy' = None /\ Trigger(0)
     ELSE UNCHANGED <<triggerBy, held, lt, dpadBy, activeMask, stickBy, clickVars, aimVars>>

Touch ==
  \/ \E p \in Pointers :
       \/ \E place \in Diamond : DiamondDown(p, place) \/ DiamondMove(p, place)
       \/ DiamondUp(p)
       \/ \E d \in Directions \cup {None} : DPadDown(p, d) \/ DPadMove(p, d)
       \/ DPadUp(p)
       \/ \E out, soon \in BOOLEAN : StickDown(p, out, soon)
       \/ \E out \in BOOLEAN : StickMove(p, out)
       \/ StickUp(p)
       \/ BumperDown(p) \/ BumperUp(p) \/ SystemDown(p) \/ SystemUp(p)
       \/ TriggerDown(p) \/ TriggerUp(p)
       \/ \E px \in Travels : TriggerMove(p, px)
  \/ ClickUp \/ DPadRender

Controls == Touch /\ UNCHANGED <<shown, report>>

-----------------------------------------------------------------------------
(* The view *)

\* A new holder and a new aim controller.
Mount ==
  /\ ~shown
  /\ shown' = TRUE
  /\ toggled' = FALSE /\ ltHeld' = FALSE
  /\ UNCHANGED <<controlVars, holderVars, clickVars, aimMode, report>>

\* The samplers stop and nothing more is reported: the host keeps the last report.
Unmount ==
  /\ shown
  /\ shown' = FALSE
  /\ finger' = [p \in Pointers |-> "off"]
  /\ dpadBy' = None /\ activeMask' = IdleMask /\ stickBy' = None /\ triggerBy' = None
  /\ held' = {} /\ lt' = 0 /\ clicked' = FALSE /\ clickUps' = 0
  /\ toggled' = FALSE /\ ltHeld' = FALSE
  /\ UNCHANGED <<aimMode, report>>

\* resetAll: the controls keep their pointers.
ResetAll == held' = {} /\ lt' = 0

\* Every render, such as one for new telemetry, hands the effect a new gamepad
\* object: its cleanup resets the holder and the samplers are started anew.  What
\* waits in the D-pad is drawn with it, unless it is of a lower priority.
Render ==
  /\ shown
  /\ ResetAll
  /\ activeMask' \in {activeMask, Drawn}
  /\ UNCHANGED <<shown, finger, dpadBy, stickBy, triggerBy, clickVars, aimVars, report>>

\* RESET: the holder and, with the emergency flag, the host.
EmergencyReset ==
  /\ shown
  /\ ResetAll
  /\ report' = {}
  /\ UNCHANGED <<shown, controlVars, clickVars, aimVars>>

\* sampleOnce, every 8 ms at 120 Hz.
Sample ==
  /\ shown
  /\ report' = Snapshot
  /\ UNCHANGED <<shown, controlVars, holderVars, clickVars, aimVars>>

\* The aim toggle of the header, and the mode buttons of the gyroscope tab.
ToggleAim ==
  /\ shown /\ aimMode = "toggle"
  /\ toggled' = ~toggled
  /\ UNCHANGED <<shown, controlVars, holderVars, clickVars, aimMode, ltHeld, report>>

SelectAimMode(m) ==
  /\ aimMode' = m
  /\ UNCHANGED <<shown, controlVars, holderVars, clickVars, toggled, ltHeld, report>>

Next ==
  \/ Controls \/ Mount \/ Unmount \/ Render \/ EmergencyReset \/ Sample
  \/ ToggleAim \/ \E m \in AimModes : SelectAimMode(m)

Spec == Init /\ [][Next]_vars

\* The sampler's interval keeps running while the view is mounted.
FairSpec == Spec /\ WF_vars(Sample)

\* isAimActive; the view's own calibrator never calibrates.
AimActive ==
  /\ shown
  /\ \/ aimMode = "always_on"
     \/ aimMode = "hold_lt" /\ ltHeld
     \/ aimMode = "toggle" /\ toggled

-----------------------------------------------------------------------------
(* Properties *)

\* Nothing is pressed in the holder without a finger, or a click's release, that
\* will end it: slides, second pointers, displaced pointers and timers included.  The
\* D-pad's directions are not: see DirectionHasFinger.
HeldHasFinger ==
  /\ \A b \in held \cap Face : \E p \in Pointers : finger[p] = b
  /\ "stick" \in held => stickBy # None
  /\ "LB" \in held => \E p \in Pointers : finger[p] = "LB"
  /\ "L3" \in held => clickUps > 0 \/ \E p \in Pointers : finger[p] = "L3"
  /\ lt > 0 => triggerBy # None

\* A direction is held by the D-pad's pointer only.  An updater that React runs after
\* the pointer was lifted presses one without it.
DirectionHasFinger == held \cap Directions # {} => dpadBy # None

\* Hold-to-aim lasts exactly as long as the trigger's finger does, however far it is
\* drawn and through every reset of the holder.
AimFollowsTrigger == aimMode = "hold_lt" => (AimActive <=> triggerBy # None)

\* What is let go is reported, unless it is pressed again or the view goes away.
ReleasesAreReported ==
  \A b \in Bits :
    (shown /\ b \in report /\ b \notin held) ~> (b \notin report \/ b \in held \/ ~shown)

\* docs/ROADMAP.md:73 calls the state holder atomic and the sampler a "decoupled input
\* loop": while no finger moves, only RESET takes a button of the diamond from the holder.
HeldUntilLifted ==
  [][\A b \in Face : b \in held /\ b \notin held' => finger' # finger \/ EmergencyReset]_vars
=============================================================================
