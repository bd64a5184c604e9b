------------------------------- MODULE Trackpad -------------------------------
(***************************************************************************)
(* The trackpad: GestureRecognizer, which turns the touches of its surface *)
(* into masks, and the three clickers below it, whose mask the view adds.  *)
(* Durations and distances decide whether a touch counts as a tap; here    *)
(* that is a choice, as is everything a setting may switch off.            *)
(***************************************************************************)
EXTENDS Told, FiniteSets, Naturals

CONSTANTS
  Fingers,    \* touch identifiers, which a browser may reuse
  MaxClicks   \* bound on the pending releases of each kind of click

ASSUME FingersAssumption == IsFiniteSet(Fingers) /\ MaxClicks \in Nat

VARIABLES
  where,     \* per finger: "off", "pad", or the clicker it is on
  tracked,   \* identifiers in the recognizer's touches
  dragging,  \* isDragging
  tapped,    \* a tap has been recognized: lastTapTime is set
  physical,  \* activeButtonsMask
  tapUps,    \* pending releases of taps
  rightUps   \* pending releases of two-finger taps

padVars == <<where, tracked, dragging, tapped, physical, tapUps, rightUps>>
recognizerVars == <<tracked, dragging, tapped, tapUps, rightUps>>

PadTypeOK ==
  /\ where \in [Fingers -> {"off", "pad"} \cup Buttons]
  /\ tracked \subseteq Fingers
  /\ dragging \in BOOLEAN
  /\ tapped \in BOOLEAN
  /\ physical \subseteq Buttons
  /\ tapUps \in 0 .. MaxClicks
  /\ rightUps \in 0 .. MaxClicks

PadInit ==
  /\ where = [f \in Fingers |-> "off"]
  /\ tracked = {}
  /\ dragging = FALSE
  /\ tapped = FALSE
  /\ physical = {}
  /\ tapUps = 0
  /\ rightUps = 0

OnScreen == {f \in Fingers : where[f] # "off"}
OnPad == {f \in Fingers : where[f] = "pad"}

\* handleTrackpadOutput: the recognizer's mask and the clickers'.
Output(mask) == SendMask(mask \cup physical)

\* onTouchStart is given every touch of the screen, those on the clickers too.
\* One touch alone, soon after a tap and near it, begins a drag.
TouchStart(f, nearTap) ==
  /\ where[f] = "off"
  /\ where' = [where EXCEPT ![f] = "pad"]
  /\ tracked' = tracked \cup OnScreen \cup {f}
  /\ LET begins == nearTap /\ tapped /\ Cardinality(tracked') = 1 IN
       /\ dragging' = (dragging \/ begins)
       /\ IF begins THEN Output({"left"}) ELSE UNCHANGED toldVars
  /\ UNCHANGED <<tapped, physical, tapUps, rightUps>>

\* onTouchMove: one finger moves the pointer, two scroll with an empty mask; a
\* finger it does not track, and three of them, do nothing.
TouchMove ==
  /\ OnPad # {}
  /\ OnScreen \subseteq tracked
  /\ Cardinality(OnScreen) \in {1, 2}
  /\ Output(IF dragging /\ Cardinality(OnScreen) = 1 THEN {"left"} ELSE {})
  /\ UNCHANGED padVars

\* Mutant: the drag ends without a word to the host.
TouchEndSilent(lifted, quick) ==
  LET before == Cardinality(tracked)
      counted == quick \cap tracked
      taps == IF before = 1 /\ ~dragging THEN Cardinality(counted) ELSE 0
      rights == IF before = 2 THEN Cardinality(counted) ELSE 0
  IN
  /\ lifted # {} /\ lifted \subseteq OnPad
  /\ where' = [f \in Fingers |-> IF f \in lifted THEN "off" ELSE where[f]]
  /\ tracked' = tracked \ lifted
  /\ dragging' = FALSE
  /\ tapped' = (tapped \/ taps > 0)
  /\ tapUps + taps <= MaxClicks /\ tapUps' = tapUps + taps
  /\ rightUps + rights <= MaxClicks /\ rightUps' = rightUps + rights
  /\ CASE rights > 0 -> Output({"right"})
       [] rights = 0 /\ taps > 0 -> Output({"left"})
       [] OTHER -> UNCHANGED toldVars
  /\ UNCHANGED physical

\* onTouchEnd, and onTouchCancel, of the fingers lifted, of which quick were short
\* enough.  How many were tracked before decides what each of them was: the only
\* one is a tap, each of two is a right click.  A drag ends with the last touch
\* tracked, not with the last finger on the surface.
TouchEnd(lifted, quick) ==
  LET before == Cardinality(tracked)
      counted == quick \cap tracked
      taps == IF before = 1 /\ ~dragging THEN Cardinality(counted) ELSE 0
      rights == IF before = 2 THEN Cardinality(counted) ELSE 0
      ends == dragging /\ tracked' = {}
  IN
  /\ lifted # {} /\ lifted \subseteq OnPad
  /\ where' = [f \in Fingers |-> IF f \in lifted THEN "off" ELSE where[f]]
  /\ tracked' = tracked \ lifted
  /\ dragging' = (dragging /\ ~ends)
  /\ tapped' = (tapped \/ taps > 0)
  /\ tapUps + taps <= MaxClicks /\ tapUps' = tapUps + taps
  /\ rightUps + rights <= MaxClicks /\ rightUps' = rightUps + rights
  /\ CASE ends -> Output({})
       [] ~ends /\ rights > 0 -> Output({"right"})
       [] ~ends /\ taps > 0 -> Output({"left"})
       [] OTHER -> UNCHANGED toldVars
  /\ UNCHANGED physical

\* 35 ms after a tap: released, unless a drag has taken over.
TapUp ==
  /\ tapUps > 0
  /\ tapUps' = tapUps - 1
  /\ IF dragging THEN UNCHANGED toldVars ELSE Output({})
  /\ UNCHANGED <<where, tracked, dragging, tapped, physical, rightUps>>

\* 35 ms after a two-finger tap: everything is released, a drag included.
RightUp ==
  /\ rightUps > 0
  /\ rightUps' = rightUps - 1
  /\ Output({})
  /\ UNCHANGED <<where, tracked, dragging, tapped, physical, tapUps>>

\* The clickers send the clickers' mask alone.
ClickerDown(f, b) ==
  /\ where[f] = "off"
  /\ where' = [where EXCEPT ![f] = b]
  /\ physical' = physical \cup {b}
  /\ SendMask(physical')
  /\ UNCHANGED recognizerVars

ClickerUp(f) ==
  /\ where[f] \in Buttons
  /\ where' = [where EXCEPT ![f] = "off"]
  /\ physical' = physical \ {where[f]}
  /\ SendMask(physical')
  /\ UNCHANGED recognizerVars

PadTimer == TapUp \/ RightUp

PadStep ==
  \/ TouchMove
  \/ \E f \in Fingers :
       \/ \E nearTap \in BOOLEAN : TouchStart(f, nearTap)
       \/ \E b \in Buttons : ClickerDown(f, b)
       \/ ClickerUp(f)
  \/ \E lifted \in SUBSET Fingers : \E quick \in SUBSET lifted : TouchEnd(lifted, quick)
  \/ PadTimer

\* The masks its timers send once the view is gone: the last mask of its clickers,
\* and nothing for a tap that a drag had taken over.
PadStrays ==
  IF rightUps > 0 \/ (tapUps > 0 /\ ~dragging) THEN {physical} ELSE {}

PadUnmount ==
  /\ where' = [f \in Fingers |-> "off"]
  /\ tracked' = {} /\ dragging' = FALSE /\ tapped' = FALSE
  /\ physical' = {} /\ tapUps' = 0 /\ rightUps' = 0

\* A button that the trackpad has pressed and not released has a drag, a clicker or
\* a pending release that stands for it.
PadOwns(b) ==
  \/ b \in physical
  \/ b = "left" /\ (dragging \/ tapUps > 0)
  \/ b = "right" /\ rightUps > 0
=============================================================================
