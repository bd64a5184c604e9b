-------------------------------- MODULE WebApp --------------------------------
(***************************************************************************)
(* The dashboard of the web client.  App shows one view at a time, and     *)
(* none unless the transport is connected; the user, or the host's Smart   *)
(* Context, switches between them at any moment, with fingers on the glass *)
(* and timers pending.  The views are KeyboardDeck, Trackpad, AirMouse and *)
(* MediaRemote; of the others only the presence matters here.              *)
(***************************************************************************)
EXTENDS KeyboardDeck, Trackpad, AirMouse, MediaRemote

Modes == {"tv", "airmouse", "gamepad", "trackpad", "keyboard", "media"}

(* The modes each view has a button for, and those of the settings. *)
TvBar == {"airmouse", "trackpad", "gamepad"}
AirMouseBar == {"tv", "airmouse", "gamepad", "trackpad", "keyboard"}
GamepadBar == {"gamepad", "trackpad", "keyboard", "media"}
TrackpadBar == {"gamepad", "trackpad", "keyboard", "media"}
KeyboardBar == {"gamepad", "trackpad", "keyboard", "media"}
MediaBar == {"gamepad", "trackpad", "keyboard", "media"}
SettingsGrid == {"gamepad", "trackpad", "keyboard", "media"}

VARIABLES
  connected,   \* connectionState is "connected"
  mode,        \* activeInputMode
  autoSwitch,  \* settings: autoSwitchEnabled is on and manualOverrideLock off
  strays       \* masks that timers of unmounted pointer views have yet to send

viewVars == <<deckVars, padVars, airVars, mediaVars>>
appVars == <<connected, mode, autoSwitch, strays>>
vars == <<toldVars, viewVars, appVars>>

\* The view App mounts.
View == IF connected THEN mode ELSE "none"

Offered ==
  SettingsGrid \cup
  CASE View = "tv" -> TvBar
    [] View = "airmouse" -> AirMouseBar
    [] View = "gamepad" -> GamepadBar
    [] View = "trackpad" -> TrackpadBar
    [] View = "keyboard" -> KeyboardBar
    [] View = "media" -> MediaBar
    [] View = "none" -> {}

TypeOK ==
  /\ ToldTypeOK /\ DeckTypeOK /\ PadTypeOK /\ AirTypeOK /\ MediaTypeOK
  /\ connected \in BOOLEAN
  /\ mode \in Modes
  /\ autoSwitch \in BOOLEAN
  /\ strays \subseteq SUBSET Buttons

Init ==
  /\ keysTold = {} /\ mouseTold = {} /\ mine = FALSE
  /\ DeckInit /\ PadInit /\ AirInit /\ MediaInit
  /\ connected = FALSE
  /\ mode = "tv"
  /\ autoSwitch \in BOOLEAN
  /\ strays = {}

-----------------------------------------------------------------------------
(* Mounting and unmounting *)

\* The view on the screen goes away; its pointer timers become strays.
Unmount ==
  /\ DeckUnmount
  /\ PadUnmount /\ AirUnmount /\ MediaUnmount
  /\ strays' = strays \cup PadStrays \cup AirStrays

\* Mutant: the deck cancels its timers when it goes away.
ShowCleared(m) ==
  /\ mode' = m
  /\ IF m = mode \/ ~connected
     THEN UNCHANGED <<viewVars, toldVars, strays>>
     ELSE /\ mods' = {} /\ ups' = NoTimers /\ UNCHANGED stranded
          /\ PadUnmount /\ AirUnmount /\ MediaUnmount /\ strays' = strays \cup PadStrays \cup AirStrays
          /\ mine' = FALSE /\ UNCHANGED <<keysTold, mouseTold>>

\* What was said to be pressed stays so, and no view on the screen has said it.
Forget == mine' = FALSE /\ UNCHANGED <<keysTold, mouseTold>>

\* Another mode: the old view is unmounted and the new one mounted.  It has sent
\* nothing yet.
Show(m) ==
  /\ mode' = m
  /\ IF m = mode \/ ~connected
     THEN UNCHANGED <<viewVars, toldVars, strays>>
     ELSE Unmount /\ Forget

-----------------------------------------------------------------------------
(* The connection *)

\* A new session after pairing, or the recovery of the old one.
Connected ==
  /\ ~connected
  /\ connected' = TRUE
  /\ UNCHANGED <<toldVars, viewVars, mode, autoSwitch, strays>>

\* Anything but connected takes the views away; the bridge stays, and so do the
\* timers that will use it.
Lost ==
  /\ connected
  /\ connected' = FALSE
  /\ Unmount /\ Forget
  /\ UNCHANGED <<mode, autoSwitch>>

\* handleDisconnect: the bridge is destroyed, its timers send nothing any more.
Disconnect ==
  /\ connected' = FALSE
  /\ mods' = {} /\ ups' = NoTimers
  /\ stranded' = stranded \cup {k \in Keys : ups[k] > 0}
  /\ PadUnmount /\ AirUnmount /\ MediaUnmount
  /\ strays' = {}
  /\ Forget
  /\ UNCHANGED <<mode, autoSwitch>>

-----------------------------------------------------------------------------
(* Smart Context and the mode buttons *)

\* selectMode, from the view's mode bar or the settings.
SelectMode(m) ==
  /\ m \in Offered
  /\ Show(m)
  /\ UNCHANGED <<connected, autoSwitch>>

\* A MODE_SWITCH packet: the host may enforce it; otherwise the settings decide.  The
\* toast that announces the switch is left out.
HostSwitch(m, enforced) ==
  /\ connected
  /\ enforced \/ autoSwitch
  /\ m # mode
  /\ Show(m)
  /\ UNCHANGED <<connected, autoSwitch>>

\* toggleManualLock and the switches of the settings tab.
Configure(on) ==
  /\ autoSwitch' = on
  /\ UNCHANGED <<toldVars, viewVars, connected, mode, strays>>

-----------------------------------------------------------------------------
(* The views, while they are on the screen, and their timers *)

Deck ==
  /\ View = "keyboard"
  /\ DeckStep
  /\ UNCHANGED <<padVars, airVars, mediaVars, appVars>>

Pad ==
  /\ View = "trackpad"
  /\ PadStep
  /\ UNCHANGED <<deckVars, airVars, mediaVars, appVars>>

Air ==
  /\ View = "airmouse"
  /\ AirStep
  /\ UNCHANGED <<deckVars, padVars, mediaVars, appVars>>

Media ==
  /\ View = "media"
  /\ MediaStep
  /\ UNCHANGED <<toldVars, deckVars, padVars, airVars, appVars>>

\* What a timer has to send is sent from any view; a connection that is not up may
\* have its channel open still, or have lost it.
DeckTimer ==
  /\ \E k \in Keys, open \in BOOLEAN : (connected => open) /\ KeyUp(k, open)
  /\ UNCHANGED <<padVars, airVars, mediaVars, appVars>>

\* A stray mask replaces whatever the view on the screen has told the host.
Stray(mask) ==
  /\ mask \in strays
  /\ strays' = strays \ {mask}
  /\ \/ mouseTold' = mask /\ mine' = FALSE
     \/ ~connected /\ UNCHANGED <<mouseTold, mine>>
  /\ UNCHANGED <<keysTold, viewVars, connected, mode, autoSwitch>>

Next ==
  \/ Connected \/ Lost \/ Disconnect
  \/ \E m \in Modes : SelectMode(m) \/ \E enforced \in BOOLEAN : HostSwitch(m, enforced)
  \/ \E on \in BOOLEAN : Configure(on)
  \/ Deck \/ Pad \/ Air \/ Media
  \/ DeckTimer
  \/ \E mask \in strays : Stray(mask)

Spec == Init /\ [][Next]_vars

-----------------------------------------------------------------------------
(* Properties *)

\* While its own packet is the last the host has, the trackpad or the air mouse
\* holds no button that it will not release: a drag, a clicker, a lock, a finger on
\* the trigger or a pending release stands for each.
ButtonsAreOwned ==
  mine => \A b \in mouseTold :
    \/ View = "trackpad" /\ PadOwns(b)
    \/ View = "airmouse" /\ AirOwns(b)

\* GestureRecognizer.ts: a right click is the tap of two fingers on the surface.
RightClickTakesTwo == [][rightUps' > rightUps => Cardinality(OnPad) >= 2]_vars
=============================================================================
