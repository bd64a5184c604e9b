--------------------------------- MODULE Told ---------------------------------
(***************************************************************************)
(* What the packets sent so far say is pressed: the keys, each by its last *)
(* packet, and the mouse buttons, whose mask every touchpad packet         *)
(* replaces.  The host forgets nothing of it when a channel closes, and    *)
(* never looks at the EMERGENCY_RESET flag of KILL INPUT's heartbeat.  The *)
(* views of the web client write it through ProtocolBridge.                *)
(***************************************************************************)
CONSTANTS
  Keys,      \* HID usages this instance may send
  Modifiers, \* those of Keys that have a sticky keycap: Ctrl, Alt, Shift, Meta
  Buttons    \* bits of buttonsMask: "left", "right", "middle"

ASSUME ModifiersAssumption == Modifiers \subseteq Keys
ASSUME ButtonsAssumption == {"left", "right"} \subseteq Buttons

VARIABLES
  keysTold,
  mouseTold,
  mine       \* the mask was sent by the view that is on the screen now

toldVars == <<keysTold, mouseTold, mine>>

ToldTypeOK ==
  /\ keysTold \subseteq Keys
  /\ mouseTold \subseteq Buttons
  /\ mine \in BOOLEAN

\* sendTouchpad by the view on the screen.
SendMask(mask) ==
  /\ mouseTold' = mask
  /\ mine' = TRUE
  /\ UNCHANGED keysTold

SendKeys(down) == keysTold' = down /\ UNCHANGED <<mouseTold, mine>>
=============================================================================
