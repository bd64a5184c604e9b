----------------------------- MODULE KeyboardDeck -----------------------------
(***************************************************************************)
(* The keyboard deck of the web client.  A keycap, a macro or a typed      *)
(* character sends a key-down at once and its key-up from a timer (40 or   *)
(* 50 ms) that nothing cancels, the unmounting of the deck included, and   *)
(* that sends nothing if the channel is gone.  The modifier byte of the    *)
(* packets is left out: the keys themselves are what can stay down.        *)
(***************************************************************************)
EXTENDS Told, Naturals

CONSTANT MaxTaps   \* bound on the pending key-ups of one key

ASSUME TapsAssumption == MaxTaps \in Nat

VARIABLES
  mods,     \* sticky modifiers the deck shows as active
  ups,      \* per key, its pending key-up timers
  stranded  \* keys whose key-up could not be sent when it was due

deckVars == <<mods, ups, stranded>>

DeckTypeOK ==
  /\ mods \subseteq Modifiers
  /\ ups \in [Keys -> 0 .. MaxTaps]
  /\ stranded \subseteq Keys

NoTimers == [k \in Keys |-> 0]

DeckInit == mods = {} /\ ups = NoTimers /\ stranded = {}

\* sendKeyTap for every key of the bag taps, in one event.
Taps(taps) ==
  /\ \A k \in Keys : ups[k] + taps[k] <= MaxTaps
  /\ SendKeys(keysTold \cup {k \in Keys : taps[k] > 0})
  /\ ups' = [k \in Keys |-> ups[k] + taps[k]]
  /\ stranded' = {k \in stranded : taps[k] = 0}
  /\ UNCHANGED mods

Once(k) == [NoTimers EXCEPT ![k] = 1]

Keycaps ==
  {"F1", "F2", "F3", "F4", "F5", "F6", "F7", "F8", "F9", "F10", "F11", "F12",
   "ESCAPE", "TAB", "BACKSPACE", "DELETE", "SPACE", "ENTER",
   "ARROW_UP", "ARROW_LEFT", "ARROW_DOWN", "ARROW_RIGHT"}

\* A keycap, or a key of a hardware keyboard, whose modifier keys come here too.
Keycap(k) == k \in Keys \cap (Keycaps \cup Modifiers) /\ Taps(Once(k))

MacroKeys == {"C", "V", "Z", "Y", "TAB", "D", "A", "F4"}

\* sendMacro differs from a tap in its modifier bit and its 50 ms.
Macro(k) == k \in Keys \cap MacroKeys /\ Taps(Once(k))

\* handleInputCapture: a soft keyboard delivers several characters in one event,
\* the same one twice included.  Those charToHid does not know are skipped.
Type(taps) == Taps(taps)

\* The timer of a key-up, which is sent if the channel is open.
KeyUp(k, open) ==
  /\ ups[k] > 0
  /\ ups' = [ups EXCEPT ![k] = @ - 1]
  /\ IF open THEN SendKeys(keysTold \ {k}) /\ UNCHANGED stranded
             ELSE stranded' = stranded \cup {k} /\ UNCHANGED toldVars
  /\ UNCHANGED mods

Flip(m, set) == IF m \in set THEN set \ {m} ELSE set \cup {m}

\* toggleModifier presses or releases the modifier by what the deck shows.
ToggleModifier(m) ==
  /\ mods' = Flip(m, mods)
  /\ SendKeys(IF m \in mods THEN keysTold \ {m} ELSE keysTold \cup {m})
  /\ UNCHANGED <<ups, stranded>>

DeckStep ==
  \/ \E k \in Keys : Keycap(k) \/ Macro(k)
  \/ \E taps \in [Keys -> 0 .. MaxTaps] \ {NoTimers} : Type(taps)
  \/ \E m \in Modifiers : ToggleModifier(m)

\* The deck has no cleanup: its modifiers are forgotten, its timers live on.
DeckUnmount == mods' = {} /\ UNCHANGED <<ups, stranded>>

\* Every key said to be down has its key-up on the way, whatever view is shown by
\* then and however often it is tapped meanwhile, except a modifier, which is held
\* until it is toggled again, and a key whose key-up was due, since it was last
\* pressed, while there was no channel.
KeysComeUp == \A k \in keysTold \ Modifiers : ups[k] > 0 \/ k \in stranded
=============================================================================
