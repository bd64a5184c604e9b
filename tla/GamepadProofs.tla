----------------------------- MODULE GamepadProofs -----------------------------
(***************************************************************************)
(* The gamepad and what it takes from localStorage: its layouts and the    *)
(* bias of its gyroscope.  For any pointers, buttons, layouts, biases and  *)
(* lengths of a calibration, and with the studio and the calibration       *)
(* interleaved freely: Storage's bounds are not used.                      *)
(***************************************************************************)
EXTENDS Gamepad, Storage, TLAPS

\* A control's pointer is on the control.
Captured ==
  /\ dpadBy # None => finger[dpadBy] = "dpad"
  /\ stickBy # None => finger[stickBy] = "stick"
  /\ triggerBy # None => finger[triggerBy] = "LT"
  /\ dpadBy # None => Len(activeMask.waiting) <= MaxWaiting

\* The aim controller knows of the trigger's finger, and a view that is not shown
\* has no fingers.
TriggerInForce == IF shown THEN ltHeld <=> triggerBy # None ELSE ControlsInit

PadInv == TypeOK /\ HeldHasFinger /\ Captured /\ TriggerInForce

-----------------------------------------------------------------------------
(* The gamepad *)

\* Those 20 px and 60 px away are far and farther than the travel.
LEMMA TravelValues == TriggerValue(20) = 128 /\ TriggerValue(60) = 26
  BY DEF TriggerValue

LEMMA Places ==
  /\ \A b \in Face : b \notin {"off", "gap", "dpad", "stick", "LB", "L3", "LT"}
  /\ Directions \cap Face = {} /\ Directions \cap {"stick", "LB", "L3"} = {}
  BY FaceAssumption, PadAssumption DEF ActionButtons

PlaceNames == {"off", "gap", "dpad", "stick", "LB", "L3", "LT"} \cup Face

LEMMA PutType ==
  ASSUME TypeOK, NEW p \in Pointers, NEW place \in PlaceNames, Put(p, place)
  PROVE  /\ finger' \in [Pointers -> PlaceNames] /\ finger'[p] = place
         /\ \A q \in Pointers : q # p => finger'[q] = finger[q]
  BY DEF TypeOK, Put, PlaceNames

\* The D-pad's mask stays a mask when a move waits and when what waits is drawn.
LEMMA WaitType ==
  ASSUME TypeOK, NEW d \in Masks, NEW late \in BOOLEAN, Wait(d, late)
  PROVE  /\ activeMask' \in [drawn : Masks, waiting : Seq([mask : Masks, late : BOOLEAN])]
         /\ Len(activeMask'.waiting) = Len(activeMask.waiting) + 1
  <1>. DEFINE item == [mask |-> d, late |-> late]
              Items == [mask : Masks, late : BOOLEAN]
  <1>1. activeMask' = [drawn |-> activeMask.drawn, waiting |-> Append(activeMask.waiting, item)]
    BY DEF Wait
  <1>2. item \in Items
    OBVIOUS
  <1>3. activeMask.waiting \in Seq(Items) /\ activeMask.drawn \in Masks
    BY DEF TypeOK
  <1>. HIDE DEF item, Items
  <1>4. /\ Append(activeMask.waiting, item) \in Seq(Items)
        /\ Len(Append(activeMask.waiting, item)) = Len(activeMask.waiting) + 1
    BY <1>2, <1>3
  <1>. QED
    BY <1>1, <1>3, <1>4 DEF Items

LEMMA IdleType ==
  /\ IdleMask \in [drawn : Masks, waiting : Seq([mask : Masks, late : BOOLEAN])]
  /\ Len(IdleMask.waiting) <= MaxWaiting + 1
  <1>1. 0 <= MaxWaiting + 1
    BY PadAssumption
  <1>. QED
    BY <1>1 DEF IdleMask, Masks

LEMMA DrawnType ==
  ASSUME TypeOK
  PROVE  /\ Drawn \in [drawn : Masks, waiting : Seq([mask : Masks, late : BOOLEAN])]
         /\ Len(Drawn.waiting) = 0
  <1>. DEFINE n == Len(activeMask.waiting)
              Items == [mask : Masks, late : BOOLEAN]
  <1>1. activeMask.waiting \in Seq(Items) /\ activeMask.drawn \in Masks
    BY DEF TypeOK
  <1>2. n \in Nat /\ (n > 0 => activeMask.waiting[n].mask \in Masks)
    <2>. HIDE DEF Items
    <2>1. n \in Nat /\ (n > 0 => activeMask.waiting[n] \in Items)
      BY <1>1
    <2>. QED
      BY <2>1 DEF Items
  <1>3. Before(n + 1) \in Masks
    <2>1. CASE n = 0
      BY <1>1, <2>1 DEF Before
    <2>2. CASE n > 0
      <3>1. n + 1 # 1 /\ (n + 1) - 1 = n
        BY <1>2, <2>2
      <3>2. Before(n + 1) = activeMask.waiting[n].mask
        BY <3>1 DEF Before
      <3>. QED
        BY <1>2, <2>2, <3>2
    <2>. QED
      BY <1>2, <2>1, <2>2
  <1>4. Drawn = [drawn |-> Before(n + 1), waiting |-> <<>>]
    BY DEF Drawn
  <1>. HIDE DEF n
  <1>. QED
    BY <1>3, <1>4

\* A finger comes down on something, or slides, or is lifted: nobody else's control
\* loses its pointer.
LEMMA DiamondInv ==
  ASSUME PadInv, NEW p \in Pointers, UNCHANGED <<shown, report>>,
         \/ \E place \in Diamond : DiamondDown(p, place) \/ DiamondMove(p, place)
         \/ DiamondUp(p)
  PROVE  PadInv'
  <1>1. PICK place \in PlaceNames :
          /\ place \in Diamond \cup {"off"} /\ Put(p, place)
          /\ finger[p] \in Diamond \cup {"off"}
          /\ held' = (held \ Bit(finger[p])) \cup Bit(place)
          /\ UNCHANGED <<dpadBy, activeMask, stickBy, triggerBy, lt, clickVars, aimVars>>
          /\ finger[p] = "off" => shown
    <2>1. Bit("off") = {}
      BY Places DEF Bit
    <2>2. Diamond \cup {"off"} \subseteq PlaceNames
      BY DEF Diamond, PlaceNames
    <2>3. \A place \in Diamond : place # "off"
      BY Places DEF Diamond
    <2>4. CASE \E place \in Diamond : DiamondDown(p, place)
      <3>1. PICK place \in Diamond : DiamondDown(p, place)
        BY <2>4
      <3>2. held' = (held \ Bit(finger[p])) \cup Bit(place) /\ finger[p] = "off" /\ shown
        BY <2>1, <3>1 DEF DiamondDown, Reachable
      <3>. QED
        BY <2>2, <3>1, <3>2 DEF DiamondDown
    <2>5. CASE \E place \in Diamond : DiamondMove(p, place)
      BY <2>2, <2>3, <2>5 DEF DiamondMove
    <2>6. CASE DiamondUp(p)
      <3>1. held' = (held \ Bit(finger[p])) \cup Bit("off")
        BY <2>1, <2>6 DEF DiamondUp
      <3>. QED
        BY <2>2, <2>3, <2>6, <3>1 DEF DiamondUp
    <2>. QED
      BY <2>4, <2>5, <2>6
  <1>2. /\ finger' \in [Pointers -> PlaceNames] /\ finger'[p] = place
        /\ \A q \in Pointers : q # p => finger'[q] = finger[q]
    BY <1>1, PutType DEF PadInv
  <1>3. TypeOK'
    <2>1. held' \subseteq Bits
      BY <1>1 DEF PadInv, TypeOK, Bits, Bit
    <2>. QED
      BY <1>1, <1>2, <2>1 DEF PadInv, TypeOK, PlaceNames, clickVars, aimVars
  <1>4. \A q \in Pointers : finger[q] \in {"dpad", "stick", "LB", "L3", "LT"} =>
          finger'[q] = finger[q]
    BY <1>1, <1>2, Places DEF Diamond
  <1>5. HeldHasFinger'
    <2>1. ASSUME NEW b \in held' \cap Face PROVE \E q \in Pointers : finger'[q] = b
      <3>1. CASE b \in Bit(place)
        BY <1>2, <3>1 DEF Bit
      <3>2. CASE b \in held /\ b \notin Bit(finger[p])
        <4>1. b # finger[p]
          BY <2>1, <3>2 DEF Bit
        <4>. QED
          BY <1>2, <2>1, <3>2, <4>1 DEF PadInv, HeldHasFinger
      <3>. QED
        BY <1>1, <2>1, <3>1, <3>2
    <2>2. \A b \in held' : b \in held \/ b \in Face
      BY <1>1 DEF Bit
    <2>3. /\ "stick" \in held' => "stick" \in held
          /\ "LB" \in held' => "LB" \in held
          /\ "L3" \in held' => "L3" \in held
      BY <2>2, Places
    <2>. QED
      BY <1>1, <1>4, <2>1, <2>3 DEF PadInv, HeldHasFinger, clickVars
  <1>6. Captured'
    <2>1. {dpadBy, stickBy, triggerBy} \subseteq Pointers \cup {None}
      BY DEF PadInv, TypeOK
    <2>. QED
      BY <1>1, <1>4, <2>1 DEF PadInv, Captured
  <1>7. TriggerInForce'
    <2>1. shown
      <3>. SUFFICES ASSUME ~shown PROVE FALSE
        OBVIOUS
      <3>1. finger[p] = "off"
        BY DEF PadInv, TriggerInForce, ControlsInit
      <3>. QED
        BY <1>1, <3>1
    <2>. QED
      BY <1>1, <2>1 DEF PadInv, TriggerInForce, aimVars
  <1>. QED
    BY <1>3, <1>5, <1>6, <1>7 DEF PadInv

LEMMA PointersType ==
  ASSUME PadInv
  PROVE  dpadBy \in Pointers \cup {None} /\ stickBy \in Pointers \cup {None}
         /\ triggerBy \in Pointers \cup {None}
  BY DEF PadInv, TypeOK

\* On a view that is not shown nothing is under a finger.
LEMMA OffScreen ==
  ASSUME PadInv, ~shown
  PROVE  /\ \A p \in Pointers : finger[p] = "off"
         /\ dpadBy = None /\ stickBy = None /\ triggerBy = None
  BY DEF PadInv, TriggerInForce, ControlsInit

DPad(p, d) == DPadDown(p, d) \/ DPadMove(p, d)

LEMMA DPadInv ==
  ASSUME PadInv, NEW p \in Pointers, UNCHANGED <<shown, report>>,
         (\E d \in Directions \cup {None} : DPad(p, d)) \/ DPadUp(p)
  PROVE  PadInv'
  <1>1. UNCHANGED <<stickBy, triggerBy, lt, clickVars, aimVars>>
    BY DEF DPad, DPadDown, DPadMove, DPadUp, Direction
  <1>. DEFINE Mask == [drawn : Masks, waiting : Seq([mask : Masks, late : BOOLEAN])]
  <1>2. /\ activeMask' \in Mask
        /\ Len(activeMask'.waiting) <= MaxWaiting + 1
        /\ dpadBy' # None => Len(activeMask'.waiting) <= MaxWaiting
        /\ \E some \in SUBSET Directions : held' = held \/ held' = (held \ Directions) \cup some
    <2>1. /\ p # None /\ MaxWaiting \in Nat
          /\ activeMask \in Mask /\ Len(activeMask.waiting) \in Nat
          /\ Len(activeMask.waiting) <= MaxWaiting + 1
          /\ dpadBy # None => Len(activeMask.waiting) <= MaxWaiting
      BY PadAssumption DEF PadInv, Captured, TypeOK
    <2>2. ASSUME NEW d \in Directions \cup {None}, Direction(d)
          PROVE  /\ activeMask' \in Mask /\ Len(activeMask'.waiting) <= MaxWaiting
                 /\ held' = held \/ Report(d)
      <3>1. Len(activeMask.waiting) < MaxWaiting
        BY <2>2 DEF Direction
      <3>2. CASE UNCHANGED <<held, activeMask>>
        BY <2>1, <3>1, <3>2
      <3>3. CASE \E late \in BOOLEAN : Wait(d, late) /\ (held' = held \/ Report(d))
        <4>1. d \in Masks /\ TypeOK
          BY DEF PadInv, Masks
        <4>2. activeMask' \in Mask /\ Len(activeMask'.waiting) = Len(activeMask.waiting) + 1
          BY <3>3, <4>1, WaitType
        <4>. QED
          BY <2>1, <3>1, <3>3, <4>2
      <3>. QED
        BY <2>2, <3>2, <3>3 DEF Direction
    <2>3. CASE \E d \in Directions \cup {None} : DPad(p, d)
      <3>1. PICK d \in Directions \cup {None} : Direction(d)
        BY <2>3 DEF DPad, DPadDown, DPadMove
      <3>2. activeMask' \in Mask /\ Len(activeMask'.waiting) <= MaxWaiting /\ (held' = held \/ Report(d))
        BY <2>2, <3>1
      <3>3. Len(activeMask'.waiting) <= MaxWaiting + 1
        BY <2>1, <3>2
      <3>4. held' = held \/ held' = (held \ Directions) \cup ({d} \cap Directions)
        BY <3>2 DEF Report
      <3>. QED
        BY <3>2, <3>3, <3>4
    <2>4. CASE DPadUp(p)
      <3>1. dpadBy = p /\ dpadBy' = None /\ Report(None)
        BY <2>4 DEF DPadUp
      <3>2. activeMask' \in Mask /\ Len(activeMask'.waiting) <= MaxWaiting + 1
        <4>1. CASE UNCHANGED activeMask
          BY <2>1, <4>1
        <4>2. CASE Wait(None, FALSE)
          <5>1. None \in Masks /\ TypeOK
            BY DEF PadInv, Masks
          <5>2. activeMask' \in Mask /\ Len(activeMask'.waiting) = Len(activeMask.waiting) + 1
            BY <4>2, <5>1, WaitType
          <5>. QED
            BY <2>1, <3>1, <5>2
        <4>. QED
          BY <2>4, <4>1, <4>2 DEF DPadUp
      <3>3. held' = (held \ Directions) \cup {}
        BY <3>1, PadAssumption DEF Report, None
      <3>. QED
        BY <3>1, <3>2, <3>3
    <2>. QED
      BY <2>3, <2>4
  <1>3. /\ finger' \in [Pointers -> PlaceNames]
        /\ \A q \in Pointers : finger[q] \notin {"off", "dpad"} => finger'[q] = finger[q]
        /\ dpadBy' \in Pointers \cup {None} /\ (dpadBy' # None => finger'[dpadBy'] = "dpad")
        /\ shown
    <2>1. CASE \E d \in Directions \cup {None} : DPadDown(p, d)
      <3>1. Put(p, "dpad") /\ finger[p] = "off" /\ dpadBy' = p /\ shown
        BY <2>1 DEF DPadDown, Reachable
      <3>. QED
        BY <3>1, PutType DEF PlaceNames, PadInv
    <2>2. CASE \E d \in Directions \cup {None} : DPadMove(p, d)
      <3>1. dpadBy = p /\ UNCHANGED <<finger, dpadBy>> /\ p # None
        BY <2>2, PadAssumption DEF DPadMove
      <3>. QED
        BY <3>1, OffScreen DEF PadInv, TypeOK, Captured, PlaceNames
    <2>3. CASE DPadUp(p)
      <3>1. Put(p, "off") /\ dpadBy = p /\ dpadBy' = None /\ p # None
        BY <2>3, PadAssumption DEF DPadUp
      <3>2. finger[p] = "dpad" /\ shown
        BY <3>1, OffScreen DEF PadInv, Captured
      <3>. QED
        BY <3>1, <3>2, PutType DEF PlaceNames, PadInv
    <2>. QED
      BY <2>1, <2>2, <2>3 DEF DPad
  <1>4. TypeOK'
    <2>1. held' \subseteq Bits
      BY <1>2 DEF PadInv, TypeOK, Bits
    <2>. QED
      BY <1>1, <1>2, <1>3, <2>1 DEF PadInv, TypeOK, PlaceNames, clickVars, aimVars
  <1>5. HeldHasFinger'
    <2>1. \A b \in held' : b \in held \/ b \in Directions
      BY <1>2
    <2>2. \A b \in {"LB", "L3"} \cup Face : \A q \in Pointers : finger[q] = b => finger'[q] = b
      BY <1>3, Places
    <2>3. ASSUME NEW b \in held' \cap Face PROVE \E q \in Pointers : finger'[q] = b
      BY <2>1, <2>2, <2>3, Places DEF PadInv, HeldHasFinger
    <2>4. /\ "stick" \in held' => "stick" \in held
          /\ "LB" \in held' => "LB" \in held
          /\ "L3" \in held' => "L3" \in held
      BY <2>1, Places
    <2>. QED
      BY <1>1, <2>2, <2>3, <2>4 DEF PadInv, HeldHasFinger, clickVars
  <1>6. Captured'
    BY <1>1, <1>2, <1>3, PointersType DEF PadInv, Captured
  <1>7. TriggerInForce'
    BY <1>1, <1>3 DEF PadInv, TriggerInForce, aimVars
  <1>. QED
    BY <1>4, <1>5, <1>6, <1>7 DEF PadInv

\* A render of the D-pad reports nothing but directions.
LEMMA DPadRenderInv ==
  ASSUME PadInv, DPadRender, UNCHANGED <<shown, report>>
  PROVE  PadInv'
  <1>1. /\ activeMask' = Drawn
        /\ UNCHANGED <<finger, dpadBy, stickBy, triggerBy, lt, clickVars, aimVars>>
    BY DEF DPadRender
  <1>2. \E some \in SUBSET Directions : held' = held \/ held' = (held \ Directions) \cup some
    BY DEF DPadRender, Report
  <1>3. \A b \in held' : b \in held \/ b \in Directions
    BY <1>2
  <1>4. TypeOK' /\ Len(activeMask'.waiting) <= MaxWaiting
    <2>1. held' \subseteq Bits
      BY <1>3 DEF PadInv, TypeOK, Bits
    <2>2. /\ activeMask' \in [drawn : Masks, waiting : Seq([mask : Masks, late : BOOLEAN])]
          /\ Len(activeMask'.waiting) <= MaxWaiting
          /\ Len(activeMask'.waiting) <= MaxWaiting + 1
      BY <1>1, DrawnType, PadAssumption DEF PadInv
    <2>. QED
      BY <1>1, <2>1, <2>2 DEF PadInv, TypeOK, clickVars, aimVars
  <1>5. HeldHasFinger'
    BY <1>1, <1>3, Places DEF PadInv, HeldHasFinger, clickVars
  <1>6. shown
    <2>1. ~shown => activeMask.waiting = <<>>
      BY DEF PadInv, TriggerInForce, ControlsInit, IdleMask
    <2>. QED
      BY <2>1 DEF DPadRender
  <1>7. Captured'
    BY <1>1, <1>4 DEF PadInv, Captured
  <1>8. TriggerInForce'
    BY <1>1, <1>6 DEF PadInv, TriggerInForce, aimVars
  <1>. QED
    BY <1>4, <1>5, <1>7, <1>8 DEF PadInv

\* A click's L3 has its release under way from the start.
LEMMA StickInv ==
  ASSUME PadInv, NEW p \in Pointers, UNCHANGED <<shown, report>>,
         \/ \E out, soon \in BOOLEAN : StickDown(p, out, soon)
         \/ \E out \in BOOLEAN : StickMove(p, out)
         \/ StickUp(p)
  PROVE  PadInv'
  <1>1. UNCHANGED <<dpadBy, activeMask, triggerBy, lt, aimVars>>
    BY DEF StickDown, StickMove, StickUp, controlVars
  <1>2. clickUps \in 0 .. MaxClicks /\ clicked \in BOOLEAN
    BY DEF PadInv, TypeOK
  <1>3. /\ held' \subseteq held \cup {"stick", "L3"}
        /\ "stick" \in held' => stickBy' # None
        /\ "L3" \in held' => "L3" \in held \/ clickUps' > 0
        /\ clickUps' \in 0 .. MaxClicks /\ clickUps' >= clickUps /\ clicked' \in BOOLEAN
    <2>1. p # None
      BY PadAssumption
    <2>2. CASE \E out, soon \in BOOLEAN : StickDown(p, out, soon)
      <3>1. PICK out \in BOOLEAN, soon \in BOOLEAN : StickDown(p, out, soon)
        BY <2>2
      <3>2. clicked' \in BOOLEAN /\ stickBy' = p
        BY <3>1 DEF StickDown
      <3>3. CASE clicked /\ soon
        <4>1. /\ clickUps < MaxClicks /\ clickUps' = clickUps + 1
              /\ held' = Deflect(out) \cup {"L3"}
          BY <3>1, <3>3 DEF StickDown
        <4>2. clickUps' \in 0 .. MaxClicks /\ clickUps' >= clickUps /\ clickUps' > 0
          BY <1>2, <4>1, PadAssumption
        <4>. QED
          BY <2>1, <3>2, <4>1, <4>2 DEF Deflect
      <3>4. CASE ~(clicked /\ soon)
        <4>1. clickUps' = clickUps /\ held' = Deflect(out) \cup {}
          BY <3>1, <3>4 DEF StickDown
        <4>. QED
          BY <1>2, <2>1, <3>2, <4>1 DEF Deflect
      <3>. QED
        BY <3>3, <3>4
    <2>3. CASE \E out \in BOOLEAN : StickMove(p, out)
      <3>1. PICK out \in BOOLEAN : StickMove(p, out)
        BY <2>3
      <3>2. UNCHANGED <<stickBy, clicked, clickUps>> /\ held' = Deflect(out) /\ stickBy = p
        BY <3>1 DEF StickMove, controlVars, clickVars
      <3>. QED
        BY <1>2, <2>1, <3>2 DEF Deflect
    <2>4. CASE StickUp(p)
      <3>1. UNCHANGED <<clicked, clickUps>> /\ held' = held \ {"stick"}
        BY <2>4 DEF StickUp, clickVars
      <3>. QED
        BY <1>2, <3>1
    <2>. QED
      BY <2>2, <2>3, <2>4
  <1>4. /\ finger' \in [Pointers -> PlaceNames]
        /\ \A q \in Pointers : finger[q] \notin {"off", "stick"} => finger'[q] = finger[q]
        /\ stickBy' \in Pointers \cup {None} /\ (stickBy' # None => finger'[stickBy'] = "stick")
        /\ shown
    <2>1. CASE \E out, soon \in BOOLEAN : StickDown(p, out, soon)
      <3>1. Put(p, "stick") /\ finger[p] = "off" /\ stickBy' = p /\ shown
        BY <2>1 DEF StickDown, Reachable
      <3>. QED
        BY <3>1, PutType DEF PlaceNames, PadInv
    <2>2. CASE \E out \in BOOLEAN : StickMove(p, out)
      <3>1. stickBy = p /\ UNCHANGED <<finger, stickBy>> /\ p # None
        BY <2>2, PadAssumption DEF StickMove, controlVars
      <3>. QED
        BY <3>1, OffScreen DEF PadInv, TypeOK, Captured, PlaceNames
    <2>3. CASE StickUp(p)
      <3>1. Put(p, "off") /\ stickBy = p /\ stickBy' = None /\ p # None
        BY <2>3, PadAssumption DEF StickUp
      <3>2. finger[p] = "stick" /\ shown
        BY <3>1, OffScreen DEF PadInv, Captured
      <3>. QED
        BY <3>1, <3>2, PutType DEF PlaceNames, PadInv
    <2>. QED
      BY <2>1, <2>2, <2>3
  <1>5. TypeOK'
    <2>1. held' \subseteq Bits
      BY <1>3 DEF PadInv, TypeOK, Bits
    <2>. QED
      BY <1>1, <1>3, <1>4, <2>1 DEF PadInv, TypeOK, PlaceNames, aimVars
  <1>6. HeldHasFinger'
    <2>1. \A b \in {"LB", "L3"} \cup Face : \A q \in Pointers : finger[q] = b => finger'[q] = b
      BY <1>4, Places
    <2>2. \A b \in held' \cap Face : b \in held
      BY <1>3, Places
    <2>3. "LB" \in held' => "LB" \in held
      BY <1>3
    <2>4. clickUps > 0 => clickUps' > 0
      BY <1>2, <1>3
    <2>. QED
      BY <1>1, <1>3, <2>1, <2>2, <2>3, <2>4 DEF PadInv, HeldHasFinger
  <1>7. Captured'
    BY <1>1, <1>4, PointersType DEF PadInv, Captured
  <1>8. TriggerInForce'
    BY <1>1, <1>4 DEF PadInv, TriggerInForce, aimVars
  <1>. QED
    BY <1>5, <1>6, <1>7, <1>8 DEF PadInv

LEMMA ButtonInv ==
  ASSUME PadInv, NEW p \in Pointers, NEW b \in {"LB", "L3"}, UNCHANGED <<shown, report>>,
         ButtonDown(p, b) \/ ButtonUp(p, b)
  PROVE  PadInv'
  <1>1. UNCHANGED <<dpadBy, activeMask, stickBy, triggerBy, lt, clickVars, aimVars>>
    BY DEF ButtonDown, ButtonUp
  <1>2. /\ finger' \in [Pointers -> PlaceNames]
        /\ \A q \in Pointers : finger[q] \notin {"off", b} => finger'[q] = finger[q]
        /\ shown
        /\ \/ held' = held \cup {b} /\ finger'[p] = b
              /\ \A q \in Pointers : finger[q] = b => finger'[q] = b
           \/ held' = held \ {b}
    <2>1. CASE ButtonDown(p, b)
      <3>1. Put(p, b) /\ finger[p] = "off" /\ shown /\ held' = held \cup {b}
        BY <2>1 DEF ButtonDown, Reachable
      <3>2. b \in PlaceNames
        BY DEF PlaceNames
      <3>. QED
        BY <3>1, <3>2, PutType DEF PadInv
    <2>2. CASE ButtonUp(p, b)
      <3>1. Put(p, "off") /\ finger[p] = b /\ held' = held \ {b}
        BY <2>2 DEF ButtonUp
      <3>2. shown
        BY <3>1, OffScreen
      <3>. QED
        BY <3>1, <3>2, PutType DEF PadInv, PlaceNames
    <2>. QED
      BY <2>1, <2>2
  <1>3. TypeOK'
    <2>1. held' \subseteq Bits
      BY <1>2 DEF PadInv, TypeOK, Bits
    <2>. QED
      BY <1>1, <1>2, <2>1 DEF PadInv, TypeOK, PlaceNames, clickVars, aimVars
  <1>4. HeldHasFinger'
    <2>1. \A c \in held' : c \in held \/ c = b
      BY <1>2
    <2>2. \A c \in Face : c # b /\ c # "off"
      BY Places
    <2>3. ASSUME NEW c \in held' \cap Face PROVE \E q \in Pointers : finger'[q] = c
      BY <1>2, <2>1, <2>2, <2>3 DEF PadInv, HeldHasFinger
    <2>4. "stick" \in held' => "stick" \in held
      BY <2>1
    <2>5. "LB" \in held' => \E q \in Pointers : finger'[q] = "LB"
      BY <1>2, <2>1 DEF PadInv, HeldHasFinger
    <2>6. "L3" \in held' => clickUps > 0 \/ \E q \in Pointers : finger'[q] = "L3"
      BY <1>2, <2>1 DEF PadInv, HeldHasFinger
    <2>. QED
      BY <1>1, <2>3, <2>4, <2>5, <2>6 DEF PadInv, HeldHasFinger, clickVars
  <1>5. Captured'
    BY <1>1, <1>2, PointersType DEF PadInv, Captured
  <1>6. TriggerInForce'
    BY <1>1, <1>2 DEF PadInv, TriggerInForce, aimVars
  <1>. QED
    BY <1>3, <1>4, <1>5, <1>6 DEF PadInv

LEMMA TriggerTells ==
  ASSUME NEW v \in Nat, Trigger(v)
  PROVE  lt' = v /\ (v >= 25 => ltHeld' = TRUE) /\ (v < 25 => ltHeld' = FALSE)
  <1>1. lt' = v /\ ltHeld' = (v >= 25)
    BY DEF Trigger, LtThreshold
  <1>2. ASSUME v >= 25 PROVE (v >= 25) = TRUE
    BY <1>2
  <1>3. ASSUME v < 25 PROVE (v >= 25) = FALSE
    BY <1>3
  <1>4. v >= 25 => ltHeld' = TRUE
    BY <1>1, <1>2, Zenon
  <1>5. v < 25 => ltHeld' = FALSE
    BY <1>1, <1>3, Zenon
  <1>. QED
    BY <1>1, <1>4, <1>5

\* However far it is drawn the trigger stays above the threshold, and the pointer
\* that lets it go is the one it goes by.
LEMMA TriggerInv ==
  ASSUME PadInv, NEW p \in Pointers, UNCHANGED <<shown, report>>,
         TriggerDown(p) \/ TriggerUp(p) \/ \E px \in Travels : TriggerMove(p, px)
  PROVE  PadInv'
  <1>1. UNCHANGED <<held, dpadBy, activeMask, stickBy, clickVars, aimMode, toggled>>
    BY DEF TriggerDown, TriggerUp, TriggerMove, Trigger, aimVars
  <1>2. p # None
    BY PadAssumption
  <1>3. /\ finger' \in [Pointers -> PlaceNames]
        /\ \A q \in Pointers : finger[q] \notin {"off", "LT"} => finger'[q] = finger[q]
        /\ shown
    <2>1. CASE TriggerDown(p)
      <3>1. Put(p, "LT") /\ finger[p] = "off" /\ shown
        BY <2>1 DEF TriggerDown, Reachable
      <3>. QED
        BY <3>1, PutType DEF PlaceNames, PadInv
    <2>2. CASE TriggerUp(p)
      <3>1. Put(p, "off") /\ finger[p] = "LT"
        BY <2>2 DEF TriggerUp
      <3>. QED
        BY <3>1, PutType, OffScreen DEF PlaceNames, PadInv
    <2>3. CASE \E px \in Travels : TriggerMove(p, px)
      <3>1. triggerBy = p /\ UNCHANGED <<finger, triggerBy>>
        BY <2>3 DEF TriggerMove
      <3>. QED
        BY <1>2, <3>1, OffScreen DEF PadInv, TypeOK, PlaceNames
    <2>. QED
      BY <2>1, <2>2, <2>3
  <1>4. /\ triggerBy' \in Pointers \cup {None} /\ ltHeld' \in BOOLEAN
        /\ lt' \in {0, 255} \cup {TriggerValue(px) : px \in Travels}
        /\ triggerBy' # None => finger'[triggerBy'] = "LT"
        /\ lt' > 0 => triggerBy' # None
        /\ ltHeld' <=> triggerBy' # None
    <2>1. CASE TriggerDown(p)
      <3>1. /\ Put(p, "LT") /\ triggerBy' = p /\ lt' = 255
            /\ ltHeld' = TRUE
        <4>1. Put(p, "LT") /\ triggerBy' = p /\ Trigger(255)
          BY <2>1 DEF TriggerDown
        <4>2. 255 \in Nat /\ 255 >= 25
          OBVIOUS
        <4>. QED
          BY <4>1, <4>2, TriggerTells, Zenon
      <3>2. finger'[p] = "LT"
        BY <3>1, PutType DEF PlaceNames, PadInv
      <3>. QED
        BY <1>2, <3>1, <3>2
    <2>2. CASE TriggerUp(p) /\ triggerBy = p
      <3>1. triggerBy' = None /\ lt' = 0 /\ ltHeld' = FALSE
        <4>1. triggerBy' = None /\ Trigger(0)
          BY <2>2 DEF TriggerUp
        <4>2. 0 \in Nat /\ 0 < 25
          OBVIOUS
        <4>. QED
          BY <4>1, <4>2, TriggerTells, Zenon
      <3>2. ~(lt' > 0)
        BY <3>1
      <3>. QED
        BY <3>1, <3>2, Zenon
    <2>3. CASE TriggerUp(p) /\ triggerBy # p
      <3>1. UNCHANGED <<triggerBy, lt, ltHeld>> /\ Put(p, "off")
        BY <2>3 DEF TriggerUp, aimVars
      <3>2. triggerBy # None => finger'[triggerBy] = "LT"
        BY <2>3, <3>1, PutType, PointersType DEF PadInv, Captured, PlaceNames
      <3>. QED
        BY <1>3, <3>1, <3>2 DEF PadInv, TypeOK, HeldHasFinger, TriggerInForce
    <2>4. CASE \E px \in Travels : TriggerMove(p, px)
      <3>1. PICK px \in Travels : TriggerMove(p, px)
        BY <2>4
      <3>2. /\ triggerBy = p /\ UNCHANGED <<finger, triggerBy>>
            /\ Trigger(TriggerValue(px))
        BY <3>1 DEF TriggerMove
      <3>3. TriggerValue(px) \in Nat /\ TriggerValue(px) >= 25
        BY TravelValues DEF Travels
      <3>4. lt' = TriggerValue(px) /\ ltHeld' = TRUE
        BY <3>2, <3>3, TriggerTells
      <3>. QED
        BY <1>2, <3>2, <3>4 DEF PadInv, Captured
    <2>. QED
      BY <2>1, <2>2, <2>3, <2>4
  <1>5. TypeOK'
    BY <1>1, <1>3, <1>4 DEF PadInv, TypeOK, PlaceNames, clickVars
  <1>6. HeldHasFinger'
    <2>1. \A b \in {"LB", "L3"} \cup Face : \A q \in Pointers : finger[q] = b => finger'[q] = b
      BY <1>3, Places
    <2>. QED
      BY <1>1, <1>4, <2>1 DEF PadInv, HeldHasFinger, clickVars
  <1>7. Captured'
    BY <1>1, <1>3, <1>4, PointersType DEF PadInv, Captured
  <1>8. TriggerInForce'
    BY <1>3, <1>4 DEF PadInv, TriggerInForce
  <1>. QED
    BY <1>5, <1>6, <1>7, <1>8 DEF PadInv

LEMMA ClickUpInv ==
  ASSUME PadInv, ClickUp, UNCHANGED <<shown, report>>
  PROVE  PadInv'
  <1>1. clickUps' \in 0 .. MaxClicks
    BY PadAssumption DEF PadInv, TypeOK, ClickUp
  <1>2. TypeOK'
    BY <1>1 DEF PadInv, TypeOK, ClickUp, controlVars, aimVars
  <1>3. HeldHasFinger'
    BY DEF PadInv, HeldHasFinger, ClickUp, controlVars
  <1>. QED
    BY <1>2, <1>3 DEF PadInv, Captured, TriggerInForce, ControlsInit, ClickUp, controlVars, aimVars

LEMMA ControlsInv == ASSUME PadInv, Controls PROVE PadInv'
  <1>. UNCHANGED <<shown, report>>
    BY DEF Controls
  <1>1. CASE ClickUp \/ DPadRender
    BY <1>1, ClickUpInv, DPadRenderInv
  <1>2. CASE ~ClickUp /\ ~DPadRender
    <2>1. PICK p \in Pointers :
            \/ \E place \in Diamond : DiamondDown(p, place) \/ DiamondMove(p, place)
            \/ DiamondUp(p)
            \/ \E d \in Directions \cup {None} : DPadDown(p, d) \/ DPadMove(p, d)
            \/ DPadUp(p)
            \/ \E out, soon \in BOOLEAN : StickDown(p, out, soon)
            \/ \E out \in BOOLEAN : StickMove(p, out)
            \/ StickUp(p)
            \/ BumperDown(p) \/ BumperUp(p) \/ SystemDown(p) \/ SystemUp(p)
            \/ TriggerDown(p) \/ TriggerUp(p)
            \/ \E px \in Travels : TriggerMove(p, px)
      BY <1>2 DEF Controls, Touch
    <2>2. CASE \/ \E place \in Diamond : DiamondDown(p, place) \/ DiamondMove(p, place)
               \/ DiamondUp(p)
      BY <2>2, DiamondInv
    <2>3. CASE \/ \E d \in Directions \cup {None} : DPadDown(p, d) \/ DPadMove(p, d)
               \/ DPadUp(p)
      BY <2>3, DPadInv DEF DPad
    <2>4. CASE \/ \E out, soon \in BOOLEAN : StickDown(p, out, soon)
               \/ \E out \in BOOLEAN : StickMove(p, out)
               \/ StickUp(p)
      BY <2>4, StickInv
    <2>5. CASE BumperDown(p) \/ BumperUp(p) \/ SystemDown(p) \/ SystemUp(p)
      BY <2>5, ButtonInv DEF BumperDown, BumperUp, SystemDown, SystemUp
    <2>6. CASE TriggerDown(p) \/ TriggerUp(p) \/ \E px \in Travels : TriggerMove(p, px)
      BY <2>6, TriggerInv
    <2>. QED
      BY <2>1, <2>2, <2>3, <2>4, <2>5, <2>6
  <1>. QED
    BY <1>1, <1>2

LEMMA NothingHeld ==
  ASSUME TypeOK', held' = {}, lt' = 0
  PROVE  HeldHasFinger'
  <1>1. ~(lt' > 0)
    OBVIOUS
  <1>. QED
    BY <1>1 DEF HeldHasFinger

LEMMA ViewInv ==
  ASSUME PadInv, Mount \/ Unmount \/ Render \/ EmergencyReset \/ Sample
  PROVE  PadInv'
  <1>1. CASE Mount
    <2>1. TypeOK'
      BY <1>1 DEF PadInv, TypeOK, Mount, controlVars, holderVars, clickVars
    <2>2. TriggerInForce'
      BY <1>1, OffScreen DEF TriggerInForce, Mount, controlVars
    <2>. QED
      BY <1>1, <2>1, <2>2
      DEF PadInv, HeldHasFinger, Captured, Mount, controlVars, holderVars, clickVars
  <1>2. CASE Unmount
    <2>1. 0 \in 0 .. MaxClicks
      BY PadAssumption
    <2>2. TypeOK'
      BY <1>2, <2>1, IdleType DEF PadInv, TypeOK, Unmount
    <2>3. Captured' /\ TriggerInForce'
      BY <1>2 DEF Captured, TriggerInForce, ControlsInit, Unmount
    <2>4. HeldHasFinger'
      BY <1>2, <2>2, NothingHeld DEF Unmount
    <2>. QED
      BY <2>2, <2>3, <2>4 DEF PadInv
  <1>3. CASE Render \/ EmergencyReset
    <2>1. /\ activeMask' \in {activeMask, Drawn} /\ held' = {} /\ lt' = 0
          /\ UNCHANGED <<shown, finger, dpadBy, stickBy, triggerBy, clickVars, aimVars>>
          /\ report' \in {report, {}}
      BY <1>3 DEF Render, EmergencyReset, ResetAll, controlVars
    <2>2. TypeOK' /\ (dpadBy # None => Len(activeMask'.waiting) <= MaxWaiting)
      <3>1. /\ activeMask' \in [drawn : Masks, waiting : Seq([mask : Masks, late : BOOLEAN])]
            /\ Len(activeMask'.waiting) <= MaxWaiting + 1
            /\ dpadBy # None => Len(activeMask'.waiting) <= MaxWaiting
        BY <2>1, DrawnType, PadAssumption DEF PadInv, TypeOK, Captured
      <3>. QED
        BY <2>1, <3>1 DEF PadInv, TypeOK, clickVars, aimVars
    <2>3. HeldHasFinger'
      BY <2>1, <2>2, NothingHeld
    <2>4. TriggerInForce'
      BY <1>3, <2>1 DEF PadInv, TriggerInForce, Render, EmergencyReset, aimVars
    <2>. QED
      BY <2>1, <2>2, <2>3, <2>4 DEF PadInv, Captured
  <1>4. CASE Sample
    <2>1. report' \subseteq Bits \cup {"LT"}
      BY <1>4 DEF PadInv, TypeOK, Sample, Snapshot
    <2>2. TypeOK'
      BY <1>4, <2>1 DEF PadInv, TypeOK, Sample, controlVars, holderVars, clickVars, aimVars
    <2>. QED
      BY <1>4, <2>2
      DEF PadInv, HeldHasFinger, Captured, TriggerInForce, ControlsInit, Sample,
          controlVars, holderVars, clickVars, aimVars
  <1>. QED
    BY <1>1, <1>2, <1>3, <1>4

LEMMA AimInv ==
  ASSUME PadInv, ToggleAim \/ \E m \in AimModes : SelectAimMode(m)
  PROVE  PadInv'
  <1>1. UNCHANGED <<shown, controlVars, holderVars, clickVars, ltHeld, report>>
    BY DEF ToggleAim, SelectAimMode
  <1>2. aimMode' \in AimModes /\ toggled' \in BOOLEAN
    BY DEF PadInv, TypeOK, ToggleAim, SelectAimMode
  <1>3. TypeOK'
    BY <1>1, <1>2 DEF PadInv, TypeOK, controlVars, holderVars, clickVars
  <1>. QED
    BY <1>1, <1>3
    DEF PadInv, HeldHasFinger, Captured, TriggerInForce, ControlsInit,
        controlVars, holderVars, clickVars

LEMMA PadUntouched == ASSUME PadInv, UNCHANGED vars PROVE PadInv'
  <1>1. TypeOK'
    BY DEF PadInv, TypeOK, vars, controlVars, holderVars, clickVars, aimVars
  <1>. QED
    BY <1>1
    DEF PadInv, HeldHasFinger, Captured, TriggerInForce, ControlsInit,
        vars, controlVars, holderVars, clickVars, aimVars

LEMMA PadInitInv == Init => PadInv
  <1>. SUFFICES ASSUME Init PROVE PadInv
    OBVIOUS
  <1>1. TypeOK
    <2>1. 0 \in 0 .. MaxClicks
      BY PadAssumption
    <2>. QED
      BY <2>1, IdleType DEF Init, ControlsInit, TypeOK
  <1>2. HeldHasFinger
    <2>1. ~(lt > 0)
      BY DEF Init
    <2>. QED
      BY <2>1 DEF Init, HeldHasFinger
  <1>. QED
    BY <1>1, <1>2 DEF Init, ControlsInit, PadInv, Captured, TriggerInForce

LEMMA PadNextInv == ASSUME PadInv, [Next]_vars PROVE PadInv'
  BY PadUntouched, ControlsInv, ViewInv, AimInv DEF Next

LEMMA PadInductive == Spec => []PadInv
  BY PadInitInv, PadNextInv, PTL DEF Spec

\* The controls, the holder and the aim controller keep to their types; the number of
\* pending releases never falls below zero.
THEOREM GamepadTypeCorrect == Spec => []TypeOK
  <1>1. PadInv => TypeOK
    BY DEF PadInv
  <1>. QED
    BY <1>1, PadInductive, PTL

\* Whatever the holder says is pressed, a finger on the control or a click's pending
\* release will end it.
THEOREM NothingHeldAlone == Spec => []HeldHasFinger
  <1>1. PadInv => HeldHasFinger
    BY DEF PadInv
  <1>. QED
    BY <1>1, PadInductive, PTL

\* Hold-to-aim is in force exactly while the trigger has its pointer.
THEOREM AimIsTheTriggers == Spec => []AimFollowsTrigger
  <1>1. PadInv => AimFollowsTrigger
    <2>. SUFFICES ASSUME PadInv, aimMode = "hold_lt"
                  PROVE  AimActive <=> triggerBy # None
      BY DEF AimFollowsTrigger
    <2>1. CASE shown
      BY <2>1 DEF PadInv, TriggerInForce, AimActive
    <2>2. CASE ~shown
      BY <2>2, OffScreen DEF AimActive
    <2>. QED
      BY <2>1, <2>2
  <1>. QED
    BY <1>1, PadInductive, PTL

-----------------------------------------------------------------------------
(* The layout studio *)

\* A layout of the user's own is edited as such, is on the list, and what the list
\* has of the user's own is stored.
Listed ==
  open =>
    /\ edited.id \in Ids => ~edited.preset
    /\ known[edited.id] # Absent
    /\ \A id \in Ids : known[id] # Absent => saved[id] # Absent

\* An edit that waits is of the layout on the canvas until another one is set; of a
\* layout of the user's own, and of nothing while the studio is closed.
WaitsForShown ==
  \A edit \in waiting :
    /\ open
    /\ edit.layout.id \in Ids => ~edit.layout.preset
    /\ ~edit.over => edit.layout.id = edited.id

StudioInv == StudioTypeOK /\ SavedAsShown /\ ActiveIsEdited /\ Listed /\ WaitsForShown

Stores == [Layouts -> Contents \cup {Absent}]

LEMMA LayoutFacts ==
  /\ Absent \notin Contents /\ Builtin \in Contents /\ Default \in Presets
  /\ \A id \in Ids : id \notin Presets
  /\ Presets \subseteq Layouts /\ Ids \subseteq Layouts
  /\ \A id \in Layouts : id \in Presets \/ id \in Ids
  <1>1. Absent \notin Contents /\ Builtin \in Contents
    BY EditsAssumption DEF Absent, Contents, Builtin
  <1>. QED
    BY <1>1, PresetAssumption DEF Layouts

\* What is loaded is the layout asked for, if it is stored or a preset.
LEMMA LoadKeeps ==
  ASSUME NEW store \in Stores, NEW id \in Layouts
  PROVE  /\ Load(store, id) \in LayoutRecords
         /\ id \in Presets \/ store[id] # Absent => Load(store, id).id = id
         /\ Load(store, id).id \in Ids =>
              ~Load(store, id).preset /\ store[Load(store, id).id] = Load(store, id).content
         /\ LoadAll(store) \in Stores
         /\ LoadAll(store)[Load(store, id).id] # Absent
         /\ \A other \in Ids : LoadAll(store)[other] = store[other]
  <1>1. /\ LoadAll(store) \in Stores
        /\ \A other \in Ids : LoadAll(store)[other] = store[other]
        /\ \A other \in Presets : LoadAll(store)[other] = Builtin
    BY LayoutFacts DEF LoadAll, Stores
  <1>2. CASE id \in Ids /\ store[id] # Absent
    <2>1. Load(store, id) = [id |-> id, preset |-> FALSE, content |-> store[id]]
      BY <1>2 DEF Load
    <2>2. store[id] \in Contents /\ id \in Layouts
      BY <1>2 DEF Stores
    <2>3. Load(store, id) \in LayoutRecords
      BY <2>1, <2>2 DEF LayoutRecords
    <2>4. Load(store, id).id = id /\ ~Load(store, id).preset /\ Load(store, id).content = store[id]
      BY <2>1
    <2>5. LoadAll(store)[id] # Absent
      BY <1>1, <1>2
    <2>. QED
      BY <1>1, <2>3, <2>4, <2>5
  <1>3. CASE ~(id \in Ids /\ store[id] # Absent)
    <2>1. PICK preset \in Presets :
            /\ Load(store, id) = [id |-> preset, preset |-> TRUE, content |-> Builtin]
            /\ id \in Presets => preset = id
      BY <1>3, LayoutFacts DEF Load
    <2>2. preset \in Layouts /\ preset \notin Ids
      BY LayoutFacts
    <2>3. Load(store, id).id = preset
      BY <2>1
    <2>4. id \in Presets \/ store[id] # Absent => preset = id
      BY <1>3, <2>1, LayoutFacts
    <2>5. Load(store, id) \in LayoutRecords
      BY <2>1, <2>2, LayoutFacts DEF LayoutRecords
    <2>6. LoadAll(store)[preset] # Absent
      BY <1>1, LayoutFacts
    <2>. QED
      BY <1>1, <2>2, <2>3, <2>4, <2>5, <2>6
  <1>. QED
    BY <1>2, <1>3

\* The edit that waits stays one, of the same layout, and not of the one now shown.
LEMMA ShowKeeps ==
  ASSUME StudioInv, NEW layout \in LayoutRecords, Show(layout)
  PROVE  /\ waiting' \subseteq [layout : LayoutRecords, over : BOOLEAN]
         /\ edited' = layout
         /\ open' = open => WaitsForShown'
  <1>1. ASSUME NEW edit \in waiting'
        PROVE  /\ edit \in [layout : LayoutRecords, over : BOOLEAN] /\ edit.over /\ open
               /\ edit.layout.id \in Ids => ~edit.layout.preset
    <2>1. PICK before \in waiting : edit = [before EXCEPT !.over = TRUE]
      BY DEF Show
    <2>2. before \in [layout : LayoutRecords, over : BOOLEAN]
      BY DEF StudioInv, StudioTypeOK
    <2>. DEFINE OneLayout == LayoutRecords
    <2>. HIDE DEF OneLayout
    <2>3. before \in [layout : OneLayout, over : BOOLEAN]
      BY <2>2 DEF OneLayout
    <2>4. /\ edit \in [layout : OneLayout, over : BOOLEAN]
          /\ edit.over /\ edit.layout = before.layout
      BY <2>1, <2>3
    <2>5. open /\ (before.layout.id \in Ids => ~before.layout.preset)
      BY DEF StudioInv, WaitsForShown
    <2>. QED
      BY <2>4, <2>5 DEF OneLayout
  <1>2. edited' = layout
    BY DEF Show
  <1>. QED
    BY <1>1, <1>2 DEF WaitsForShown

\* The list read anew and a layout that is in the store, or a preset, shown.
LEMMA RefreshKeeps ==
  ASSUME StudioInv, NEW store \in Stores, NEW id \in Layouts, saved' = store,
         known' = LoadAll(store), Show(Load(store, id)),
         open' \in BOOLEAN, open' = open, dragged' \in BOOLEAN, edits' \in Contents,
         refused' \in BOOLEAN, outrun' \in BOOLEAN, activeId' \in Layouts,
         refused' \/ (activeId' = id /\ (id \in Presets \/ store[id] # Absent))
  PROVE  StudioInv'
  <1>1. /\ Load(store, id) \in LayoutRecords
        /\ known' \in Stores
        /\ edited' = Load(store, id)
        /\ id \in Presets \/ store[id] # Absent => edited'.id = id
        /\ edited'.id \in Ids => ~edited'.preset /\ saved'[edited'.id] = edited'.content
        /\ known'[edited'.id] # Absent
        /\ \A other \in Ids : known'[other] = saved'[other]
    BY LoadKeeps DEF Show
  <1>2. waiting' \subseteq [layout : LayoutRecords, over : BOOLEAN] /\ WaitsForShown'
    BY <1>1, ShowKeeps
  <1>3. StudioTypeOK'
    BY <1>1, <1>2 DEF StudioTypeOK, Stores
  <1>4. SavedAsShown' /\ ActiveIsEdited' /\ Listed'
    BY <1>1 DEF SavedAsShown, ActiveIsEdited, Listed
  <1>. QED
    BY <1>2, <1>3, <1>4 DEF StudioInv

LEMMA OpenCloseInv == ASSUME StudioInv, OpenStudio \/ CloseStudio PROVE StudioInv'
  <1>1. CASE OpenStudio
    <2>1. waiting = {} /\ saved \in Stores /\ activeId \in Layouts
      BY <1>1 DEF OpenStudio, StudioInv, StudioTypeOK, Stores, WaitsForShown
    <2>2. /\ Load(saved, activeId) \in LayoutRecords /\ LoadAll(saved) \in Stores
          /\ activeId \in Presets \/ saved[activeId] # Absent
               => Load(saved, activeId).id = activeId
          /\ Load(saved, activeId).id \in Ids =>
               ~Load(saved, activeId).preset
               /\ saved[Load(saved, activeId).id] = Load(saved, activeId).content
          /\ LoadAll(saved)[Load(saved, activeId).id] # Absent
          /\ \A other \in Ids : LoadAll(saved)[other] = saved[other]
      BY <2>1, LoadKeeps
    <2>3. /\ edited' = Load(saved, activeId) /\ known' = LoadAll(saved) /\ waiting' = {}
          /\ open' = TRUE
          /\ UNCHANGED <<saved, activeId, dragged, edits, refused, outrun>>
      BY <1>1, <2>1 DEF OpenStudio, Refresh, Show
    <2>4. StudioTypeOK' /\ WaitsForShown'
      BY <2>2, <2>3 DEF StudioInv, StudioTypeOK, WaitsForShown, Stores
    <2>5. SavedAsShown' /\ ActiveIsEdited' /\ Listed'
      BY <2>2, <2>3 DEF StudioInv, SavedAsShown, ActiveIsEdited, Listed
    <2>. QED
      BY <2>4, <2>5 DEF StudioInv
  <1>2. CASE CloseStudio
    BY <1>2
    DEF StudioInv, StudioTypeOK, SavedAsShown, ActiveIsEdited, Listed, WaitsForShown, CloseStudio
  <1>. QED
    BY <1>1, <1>2

\* A layout of the list is there to be selected: nothing on it has been deleted since.
LEMMA SelectInv == ASSUME StudioInv, NEW id \in Layouts, SelectLayout(id) PROVE StudioInv'
  <1>1. id \in Presets \/ saved[id] # Absent
    BY LayoutFacts DEF StudioInv, Listed, SelectLayout
  <1>2. UNCHANGED <<saved, open, known, dragged, edits, outrun>> /\ saved \in Stores
    BY DEF StudioInv, StudioTypeOK, Stores, SelectLayout
  <1>3. CASE UNCHANGED <<activeId, edited, waiting>> /\ refused' = TRUE
    BY <1>2, <1>3
    DEF StudioInv, StudioTypeOK, SavedAsShown, ActiveIsEdited, Listed, WaitsForShown
  <1>4. CASE activeId' = id /\ Show(Load(saved, id)) /\ UNCHANGED refused
    <2>1. /\ Load(saved, id) \in LayoutRecords
          /\ Load(saved, id).id = id
          /\ id \in Ids => ~Load(saved, id).preset /\ saved[id] = Load(saved, id).content
      BY <1>1, <1>2, LoadKeeps
    <2>2. /\ waiting' \subseteq [layout : LayoutRecords, over : BOOLEAN]
          /\ edited' = Load(saved, id) /\ WaitsForShown'
      BY <1>2, <1>4, <2>1, ShowKeeps
    <2>3. StudioTypeOK'
      BY <1>2, <1>4, <2>1, <2>2 DEF StudioInv, StudioTypeOK
    <2>4. SavedAsShown' /\ ActiveIsEdited'
      BY <1>1, <1>2, <1>4, <2>1, <2>2 DEF SavedAsShown, ActiveIsEdited
    <2>5. known[id] # Absent
      BY DEF SelectLayout
    <2>6. Listed'
      BY <1>2, <2>1, <2>2, <2>5 DEF StudioInv, Listed
    <2>. QED
      BY <2>2, <2>3, <2>4, <2>6 DEF StudioInv
  <1>. QED
    BY <1>1, <1>3, <1>4, LayoutFacts DEF SelectLayout

\* A layout is stored under a new id, never over another, if it is stored at all.
LEMMA SavedNew ==
  ASSUME StudioInv, NEW id \in Ids, NEW content \in Contents, saved[id] = Absent,
         NEW written \in BOOLEAN, Save([id |-> id, content |-> content], written)
  PROVE  /\ saved' \in Stores /\ id \in Layouts
         /\ written => saved'[id] # Absent
         /\ \A other \in Layouts \ {id} : saved'[other] = saved[other]
         /\ \A other \in Layouts : saved[other] # Absent => saved'[other] = saved[other]
  <1>1. CASE written
    <2>1. saved' = [saved EXCEPT ![id] = content]
      BY <1>1 DEF Save
    <2>. QED
      BY <1>1, <2>1, LayoutFacts DEF StudioInv, StudioTypeOK, Stores
  <1>2. CASE ~written
    BY <1>2, LayoutFacts DEF StudioInv, StudioTypeOK, Stores, Save
  <1>. QED
    BY <1>1, <1>2

LEMMA StoreInv ==
  ASSUME StudioInv, NEW id \in Ids, NEW content \in Contents, Store(id, content)
  PROVE  StudioInv'
  <1>1. PICK written \in BOOLEAN, activated \in BOOLEAN :
          /\ Save([id |-> id, content |-> content], written)
          /\ refused' = (refused \/ ~written \/ ~activated)
          /\ IF activated THEN activeId' = id /\ Refresh(saved', id)
                          ELSE UNCHANGED <<activeId, known, edited, waiting>>
    BY DEF Store
  <1>2. UNCHANGED <<open, dragged, edits, outrun>> /\ saved[id] = Absent /\ id # edited.id
    BY DEF Store, Fresh
  <1>3. /\ saved' \in Stores /\ id \in Layouts
        /\ written => saved'[id] # Absent
        /\ \A other \in Layouts \ {id} : saved'[other] = saved[other]
        /\ \A other \in Layouts : saved[other] # Absent => saved'[other] = saved[other]
    BY <1>1, <1>2, SavedNew
  <1>4. refused' \in BOOLEAN
    BY <1>1 DEF StudioInv, StudioTypeOK
  <1>5. CASE activated
    <2>1. activeId' = id /\ known' = LoadAll(saved') /\ Show(Load(saved', id))
      BY <1>1, <1>5 DEF Refresh
    <2>2. refused' \/ saved'[id] # Absent
      BY <1>1, <1>3
    <2>. QED
      BY <1>2, <1>3, <1>4, <2>1, <2>2, RefreshKeeps DEF StudioInv, StudioTypeOK
  <1>6. CASE ~activated
    <2>1. refused' /\ UNCHANGED <<activeId, known, edited, waiting>>
      BY <1>1, <1>6
    <2>2. StudioTypeOK'
      BY <1>2, <1>3, <1>4, <2>1 DEF StudioInv, StudioTypeOK, Stores
    <2>3. SavedAsShown' /\ ActiveIsEdited' /\ WaitsForShown'
      BY <1>2, <2>1 DEF StudioInv, SavedAsShown, ActiveIsEdited, WaitsForShown
    <2>4. Listed'
      BY <1>2, <1>3, <2>1, LayoutFacts DEF StudioInv, Listed
    <2>. QED
      BY <2>2, <2>3, <2>4 DEF StudioInv
  <1>. QED
    BY <1>5, <1>6

LEMMA ImportInv ==
  ASSUME StudioInv, NEW id \in Ids, NEW content \in Contents, Import(id, content)
  PROVE  StudioInv'
  <1>1. PICK written \in BOOLEAN, activated \in BOOLEAN :
          /\ Save([id |-> id, content |-> content], written)
          /\ refused' = (refused \/ ~written \/ ~activated)
          /\ activeId' = IF activated THEN id ELSE activeId
          /\ known' = LoadAll(saved')
          /\ Show(Load(saved', IF activated /\ written THEN id ELSE activeId))
    BY DEF Import
  <1>2. UNCHANGED <<open, dragged, edits, outrun>> /\ saved[id] = Absent
    BY DEF Import, Fresh
  <1>3. saved' \in Stores /\ id \in Layouts /\ (written => saved'[id] # Absent)
    BY <1>1, <1>2, SavedNew
  <1>4. refused' \in BOOLEAN /\ activeId \in Layouts /\ activeId' \in Layouts
    BY <1>1, <1>3 DEF StudioInv, StudioTypeOK
  <1>5. CASE activated /\ written
    BY <1>1, <1>2, <1>3, <1>4, <1>5, RefreshKeeps DEF StudioInv, StudioTypeOK
  <1>6. CASE ~(activated /\ written)
    <2>1. refused' /\ Show(Load(saved', activeId))
      BY <1>1, <1>6
    <2>. QED
      BY <1>1, <1>2, <1>3, <1>4, <2>1, RefreshKeeps DEF StudioInv, StudioTypeOK
  <1>. QED
    BY <1>5, <1>6

LEMMA DeleteInv == ASSUME StudioInv, DeleteLayout PROVE StudioInv'
  <1>1. PICK deleted \in BOOLEAN, activated \in BOOLEAN :
          /\ saved' = IF deleted THEN [saved EXCEPT ![edited.id] = Absent] ELSE saved
          /\ activeId' = IF deleted /\ activated /\ activeId = edited.id THEN Default
                         ELSE activeId
          /\ refused' = (refused \/ ~deleted \/ ~activated)
          /\ Refresh(saved', activeId')
    BY DEF DeleteLayout
  <1>2. UNCHANGED <<open, dragged, edits, outrun>> /\ open
    BY DEF DeleteLayout
  <1>3. saved' \in Stores
    BY <1>1 DEF StudioInv, StudioTypeOK, Stores
  <1>4. activeId' \in Layouts /\ refused' \in BOOLEAN
    BY <1>1, LayoutFacts DEF StudioInv, StudioTypeOK
  <1>5. refused' \/ activeId' \in Presets
    BY <1>1, <1>2, LayoutFacts DEF StudioInv, ActiveIsEdited
  <1>. QED
    BY <1>1, <1>2, <1>3, <1>4, <1>5, RefreshKeeps DEF StudioInv, StudioTypeOK, Refresh

\* What an edit is stored under is the layout's own id, or nothing is.
LEMMA KeepKeeps ==
  ASSUME StudioInv, NEW layout \in LayoutRecords, Keep(layout)
  PROVE  /\ saved' \in Stores /\ refused' \in BOOLEAN
         /\ \A id \in Layouts : saved[id] # Absent => saved'[id] # Absent
         /\ \A id \in Layouts \ {layout.id} : saved'[id] = saved[id]
         /\ refused => refused'
         /\ ~layout.preset => saved'[layout.id] = layout.content \/ refused'
  <1>1. CASE layout.preset
    BY <1>1 DEF Keep, StudioInv, StudioTypeOK, Stores
  <1>2. CASE ~layout.preset
    <2>1. PICK written \in BOOLEAN : Save(layout, written) /\ refused' = (refused \/ ~written)
      BY <1>2 DEF Keep
    <2>2. layout.id \in Layouts /\ layout.content \in Contents
      BY DEF LayoutRecords
    <2>3. CASE written
      <3>1. saved' = [saved EXCEPT ![layout.id] = layout.content]
        BY <2>1, <2>3 DEF Save
      <3>. QED
        BY <2>1, <2>2, <3>1, LayoutFacts DEF StudioInv, StudioTypeOK, Stores
    <2>4. CASE ~written
      BY <2>1, <2>4 DEF Save, StudioInv, StudioTypeOK, Stores
    <2>. QED
      BY <2>3, <2>4
  <1>. QED
    BY <1>1, <1>2

\* Every edit of the user's own is saved where it is shown, unless it waits.
LEMMA EditInv ==
  ASSUME StudioInv, NEW preset \in BOOLEAN, preset => edited.preset, Edit(preset)
  PROVE  StudioInv'
  <1>. DEFINE layout == [id |-> edited.id, preset |-> preset, content |-> edits']
  <1>1. open /\ waiting = {} /\ edits' \in Contents
    BY EditsAssumption DEF StudioInv, StudioTypeOK, Contents, Edit
  <1>2. UNCHANGED <<activeId, open, known, dragged, outrun>>
    BY DEF Edit
  <1>3. layout \in LayoutRecords /\ layout.id = edited.id
    BY <1>1 DEF StudioInv, StudioTypeOK, LayoutRecords
  <1>4. CASE edited' = layout /\ Keep(layout) /\ UNCHANGED waiting
    <2>1. /\ saved' \in Stores /\ refused' \in BOOLEAN
          /\ \A id \in Layouts : saved[id] # Absent => saved'[id] # Absent
          /\ refused => refused'
          /\ ~preset => saved'[edited.id] = edits' \/ refused'
      BY <1>3, <1>4, KeepKeeps
    <2>2. edited'.id = edited.id /\ edited'.preset = preset /\ edited'.content = edits'
      BY <1>4
    <2>3. edited'.id \in Ids => ~edited'.preset
      BY <1>1, <2>2 DEF StudioInv, Listed
    <2>4. StudioTypeOK'
      BY <1>1, <1>2, <1>3, <1>4, <2>1 DEF StudioInv, StudioTypeOK, Stores
    <2>5. SavedAsShown' /\ ActiveIsEdited'
      BY <1>1, <1>2, <2>1, <2>2, <2>3 DEF StudioInv, StudioTypeOK, SavedAsShown, ActiveIsEdited
    <2>6. Listed' /\ WaitsForShown'
      BY <1>1, <1>2, <1>4, <2>1, <2>2, <2>3, LayoutFacts DEF StudioInv, Listed, WaitsForShown
    <2>. QED
      BY <2>4, <2>5, <2>6 DEF StudioInv
  <1>5. CASE /\ waiting' = {[layout |-> layout, over |-> FALSE]}
             /\ UNCHANGED <<saved, refused, edited>>
    <2>1. StudioTypeOK'
      BY <1>1, <1>2, <1>3, <1>5 DEF StudioInv, StudioTypeOK
    <2>2. WaitsForShown'
      BY <1>1, <1>2, <1>3, <1>5 DEF StudioInv, Listed, WaitsForShown
    <2>. QED
      BY <1>2, <1>5, <2>1, <2>2 DEF StudioInv, SavedAsShown, ActiveIsEdited, Listed
  <1>. QED
    BY <1>4, <1>5 DEF Edit

\* An edit that waited is stored and shown, or it has been outrun.
LEMMA RenderEditInv == ASSUME StudioInv, RenderEdit PROVE StudioInv'
  <1>1. PICK edit \in waiting :
          /\ waiting' = {}
          /\ Keep(edit.layout)
          /\ edited' = IF edit.over THEN edited ELSE edit.layout
          /\ outrun' = (outrun \/ edit.over)
          /\ UNCHANGED <<activeId, open, known, dragged, edits>>
    BY DEF RenderEdit
  <1>2. /\ edit \in [layout : LayoutRecords, over : BOOLEAN]
        /\ edit.layout.id \in Ids => ~edit.layout.preset
        /\ ~edit.over => edit.layout.id = edited.id
    BY DEF StudioInv, StudioTypeOK, WaitsForShown
  <1>3. /\ saved' \in Stores /\ refused' \in BOOLEAN
        /\ \A id \in Layouts : saved[id] # Absent => saved'[id] # Absent
        /\ refused => refused'
        /\ ~edit.layout.preset => saved'[edit.layout.id] = edit.layout.content \/ refused'
    BY <1>1, <1>2, KeepKeeps
  <1>4. /\ edited'.id = edited.id /\ edited' \in LayoutRecords
        /\ edited'.id \in Ids /\ open => ~edited'.preset
    BY <1>1, <1>2 DEF StudioInv, StudioTypeOK, Listed
  <1>5. StudioTypeOK' /\ WaitsForShown'
    BY <1>1, <1>2, <1>3, <1>4 DEF StudioInv, StudioTypeOK, WaitsForShown, Stores
  <1>6. SavedAsShown'
    BY <1>1, <1>2, <1>3 DEF SavedAsShown
  <1>7. ActiveIsEdited' /\ Listed'
    BY <1>1, <1>3, <1>4, LayoutFacts DEF StudioInv, StudioTypeOK, ActiveIsEdited, Listed
  <1>. QED
    BY <1>5, <1>6, <1>7 DEF StudioInv

LEMMA StudioUntouched ==
  ASSUME StudioInv, dragged' \in BOOLEAN,
         UNCHANGED <<saved, activeId, open, known, edited, edits, waiting, refused, outrun>>
  PROVE  StudioInv'
  BY DEF StudioInv, StudioTypeOK, SavedAsShown, ActiveIsEdited, Listed, WaitsForShown

LEMMA StudioStepInv == ASSUME StudioInv, StudioStep PROVE StudioInv'
  <1>1. CASE OpenStudio \/ CloseStudio \/ DeleteLayout
    BY <1>1, OpenCloseInv, DeleteInv
  <1>2. CASE \/ UpdateElement \/ SetGridSnap \/ AddElement \/ RemoveElement \/ MoveDragged
             \/ RenderEdit
    <2>1. CASE RenderEdit
      BY <2>1, RenderEditInv
    <2>2. CASE ~RenderEdit
      <3>1. PICK preset \in BOOLEAN : (preset => edited.preset) /\ Edit(preset)
        BY <1>2, <2>2
        DEF StudioInv, StudioTypeOK, LayoutRecords, UpdateElement, SetGridSnap, AddElement,
            RemoveElement, MoveDragged
      <3>. QED
        BY <3>1, EditInv
    <2>. QED
      BY <2>1, <2>2
  <1>3. CASE DragElement \/ DropElement
    BY <1>3, StudioUntouched DEF DragElement, DropElement
  <1>4. CASE \E id \in Layouts : SelectLayout(id)
    BY <1>4, SelectInv
  <1>5. ASSUME NEW id \in Ids,
               \/ CreateNewLayout(id) \/ DuplicateLayout(id)
               \/ \E content \in Contents : Import(id, content)
        PROVE  StudioInv'
    <2>1. CASE CreateNewLayout(id)
      BY <2>1, LayoutFacts, StoreInv DEF CreateNewLayout
    <2>2. CASE DuplicateLayout(id)
      <3>. DEFINE source == IF known[edited.id] = Absent THEN edited.content ELSE known[edited.id]
      <3>1. source \in Contents
        BY DEF StudioInv, StudioTypeOK, LayoutRecords
      <3>. QED
        BY <2>2, <3>1, StoreInv DEF DuplicateLayout
    <2>3. CASE \E content \in Contents : Import(id, content)
      BY <2>3, ImportInv
    <2>. QED
      BY <1>5, <2>1, <2>2, <2>3
  <1>. QED
    BY <1>1, <1>2, <1>3, <1>4, <1>5 DEF StudioStep

-----------------------------------------------------------------------------
(* The calibration *)

\* A calibration that goes on has not had all its samples.
Counting == listening => samples < Full

CalibrationInv == CalibrationTypeOK /\ Counting /\ ProgressIsReal /\ BiasIsStored

LEMMA CalibrationBounds == 0 \in 0 .. MaxPrompts /\ 0 \in 0 .. Full /\ 0 < Full
  BY CalibrationAssumption

LEMMA TabInv == ASSUME CalibrationInv, OpenTab \/ CloseTab PROVE CalibrationInv'
  <1>1. CASE OpenTab
    <2>1. CalibrationTypeOK'
      BY <1>1, CalibrationBounds DEF CalibrationInv, CalibrationTypeOK, OpenTab, Rested, dialogVars
    <2>. QED
      BY <1>1, <2>1, CalibrationBounds
      DEF CalibrationInv, Counting, ProgressIsReal, BiasIsStored, OpenTab, dialogVars
  <1>2. CASE CloseTab
    <2>1. orphans' \in 0 .. MaxPrompts
      <3>1. CASE listening /\ ~modal
        BY <1>2, <3>1, CalibrationAssumption DEF CalibrationInv, CalibrationTypeOK, CloseTab
      <3>2. CASE ~(listening /\ ~modal)
        BY <1>2, <3>2, CalibrationAssumption DEF CalibrationInv, CalibrationTypeOK, CloseTab
      <3>. QED
        BY <3>1, <3>2
    <2>2. CalibrationTypeOK'
      BY <1>2, <2>1, CalibrationBounds DEF CalibrationInv, CalibrationTypeOK, CloseTab
    <2>. QED
      BY <1>2, <2>2 DEF CalibrationInv, Counting, ProgressIsReal, BiasIsStored, CloseTab
  <1>. QED
    BY <1>1, <1>2

LEMMA OrphanInv == ASSUME CalibrationInv, NEW b \in Biases, OrphanEnds(b) PROVE CalibrationInv'
  <1>1. orphans' \in 0 .. MaxPrompts
    BY CalibrationAssumption DEF CalibrationInv, CalibrationTypeOK, OrphanEnds
  <1>2. CalibrationTypeOK'
    BY <1>1 DEF CalibrationInv, CalibrationTypeOK, OrphanEnds, dialogVars, calibratorVars
  <1>. QED
    BY <1>2
    DEF CalibrationInv, Counting, ProgressIsReal, BiasIsStored, OrphanEnds,
        dialogVars, calibratorVars

\* The dialog opened, started, answered, aborted and closed.
LEMMA DialogInv ==
  ASSUME CalibrationInv,
         \/ OpenModal \/ CloseModal \/ StartCalibration \/ Abort
         \/ \E granted \in BOOLEAN : Answered(granted)
  PROVE  CalibrationInv'
  <1>1. CASE OpenModal
    <2>1. CalibrationTypeOK'
      BY <1>1 DEF CalibrationInv, CalibrationTypeOK, OpenModal, calibratorVars, orphanVars
    <2>. QED
      BY <1>1, <2>1
      DEF CalibrationInv, Counting, ProgressIsReal, BiasIsStored, OpenModal,
          calibratorVars, orphanVars
  <1>2. CASE CloseModal \/ Abort
    <2>1. step' \in {"intro", "error", step} /\ (Abort => step' \in {"intro", "error"})
      BY <1>2 DEF CloseModal, Abort, Rejected
    <2>2. status' \in {"idle", "calibrated", status}
      BY <1>2 DEF CloseModal, Abort, Cancel, Rested
    <2>3. CalibrationTypeOK'
      BY <1>2, <2>1, <2>2, CalibrationBounds
      DEF CalibrationInv, CalibrationTypeOK, CloseModal, Abort, Cancel, orphanVars
    <2>. QED
      BY <1>2, <2>1, <2>3
      DEF CalibrationInv, Counting, ProgressIsReal, BiasIsStored, CloseModal, Abort, Cancel,
          orphanVars
  <1>3. CASE StartCalibration
    <2>1. prompts' \in 0 .. MaxPrompts /\ prompts' > 0
      BY <1>3, CalibrationAssumption DEF CalibrationInv, CalibrationTypeOK, StartCalibration
    <2>2. CalibrationTypeOK'
      BY <1>3, <2>1
      DEF CalibrationInv, CalibrationTypeOK, StartCalibration, calibratorVars, orphanVars
    <2>. QED
      BY <1>3, <2>1, <2>2
      DEF CalibrationInv, Counting, ProgressIsReal, BiasIsStored, StartCalibration,
          calibratorVars, orphanVars
  <1>4. ASSUME NEW granted \in BOOLEAN, Answered(granted) PROVE CalibrationInv'
    <2>1. prompts' \in 0 .. MaxPrompts
      BY <1>4, CalibrationAssumption DEF CalibrationInv, CalibrationTypeOK, Answered
    <2>2. pipeline' \in BOOLEAN /\ step' \in {"intro", "calibrating", "success", "error"}
      BY <1>4 DEF CalibrationInv, CalibrationTypeOK, Answered, Rejected
    <2>3. CalibrationTypeOK'
      BY <1>4, <2>1, <2>2, CalibrationBounds
      DEF CalibrationInv, CalibrationTypeOK, Answered, orphanVars
    <2>. QED
      BY <1>4, <2>3, CalibrationBounds
      DEF CalibrationInv, Counting, ProgressIsReal, BiasIsStored, Answered, orphanVars
  <1>. QED
    BY <1>1, <1>2, <1>3, <1>4

\* The last sample ends the calibration, and either way the dialog is told.
LEMMA MotionInv ==
  ASSUME CalibrationInv, NEW still \in BOOLEAN, NEW b \in Biases, MotionEvent(still, b)
  PROVE  CalibrationInv'
  <1>1. samples' \in 0 .. Full /\ moved' \in BOOLEAN
    BY CalibrationAssumption
    DEF CalibrationInv, CalibrationTypeOK, Counting, MotionEvent
  <1>2. UNCHANGED <<tab, modal, prompts, pipeline, orphans>>
    BY DEF MotionEvent
  <1>3. CASE samples' = Full
    <2>1. listening' = FALSE /\ Finish(~moved', b)
      BY <1>3 DEF MotionEvent
    <2>2. \/ bias' = b /\ status' = "calibrated" /\ step' = "success" /\ Record(b)
          \/ status' = "failed" /\ step' = "error" /\ UNCHANGED <<bias, stored, overtaken, unsaved>>
      BY <2>1 DEF Finish
    <2>3. CalibrationTypeOK'
      BY <1>1, <1>2, <2>1, <2>2 DEF CalibrationInv, CalibrationTypeOK, Record
    <2>. QED
      BY <1>2, <2>1, <2>2, <2>3 DEF CalibrationInv, Counting, ProgressIsReal, BiasIsStored, Record
  <1>4. CASE samples' # Full
    <2>1. UNCHANGED <<listening, status, bias, stored, step, overtaken, unsaved>>
      BY <1>4 DEF MotionEvent
    <2>2. samples' < Full
      BY <1>1, <1>4, CalibrationAssumption
    <2>3. CalibrationTypeOK'
      BY <1>1, <1>2, <2>1 DEF CalibrationInv, CalibrationTypeOK
    <2>. QED
      BY <1>2, <2>1, <2>2, <2>3 DEF CalibrationInv, Counting, ProgressIsReal, BiasIsStored
  <1>. QED
    BY <1>3, <1>4

LEMMA ClearInv == ASSUME CalibrationInv, ClearBias PROVE CalibrationInv'
  <1>1. CalibrationTypeOK'
    BY DEF CalibrationInv, CalibrationTypeOK, ClearBias, Record, dialogVars
  <1>. QED
    BY <1>1
    DEF CalibrationInv, Counting, ProgressIsReal, BiasIsStored, ClearBias, Record, dialogVars

LEMMA CalibrationStepInv == ASSUME CalibrationInv, CalibrationStep PROVE CalibrationInv'
  BY TabInv, OrphanInv, DialogInv, MotionInv, ClearInv DEF CalibrationStep

LEMMA CalibrationUntouched ==
  ASSUME CalibrationInv, UNCHANGED calibrationVars
  PROVE  CalibrationInv'
  BY DEF CalibrationInv, CalibrationTypeOK, Counting, ProgressIsReal, BiasIsStored,
         calibrationVars, dialogVars, calibratorVars, orphanVars

-----------------------------------------------------------------------------

LEMMA StorageInitInv == StorageInit => StudioInv /\ CalibrationInv
  <1>. SUFFICES ASSUME StorageInit PROVE StudioInv /\ CalibrationInv
    OBVIOUS
  <1>1. saved \in Stores /\ Default \in Layouts /\ edits \in Contents
    BY LayoutFacts DEF StorageInit, StudioInit, Stores, Contents, Builtin
  <1>2. edited \in LayoutRecords /\ known \in Stores
    BY <1>1, LoadKeeps DEF StorageInit, StudioInit
  <1>3. StudioInv
    BY <1>1, <1>2, LayoutFacts
    DEF StorageInit, StudioInit, StudioInv, StudioTypeOK, SavedAsShown, ActiveIsEdited,
        Listed, WaitsForShown, Stores
  <1>4. CalibrationTypeOK
    BY CalibrationBounds DEF StorageInit, CalibrationInit, CalibrationTypeOK
  <1>5. CalibrationInv
    BY <1>4
    DEF StorageInit, CalibrationInit, CalibrationInv, Counting, ProgressIsReal, BiasIsStored
  <1>. QED
    BY <1>3, <1>5

LEMMA StorageStepInv ==
  ASSUME StudioInv, CalibrationInv, [Studio \/ Calibration]_storageVars
  PROVE  StudioInv' /\ CalibrationInv'
  <1>1. CASE Studio
    BY <1>1, StudioStepInv, CalibrationUntouched DEF Studio
  <1>2. CASE Calibration
    <2>1. StudioInv'
      BY <1>2, StudioUntouched DEF Calibration, studioVars, StudioInv, StudioTypeOK
    <2>. QED
      BY <1>2, <2>1, CalibrationStepInv DEF Calibration
  <1>3. CASE UNCHANGED storageVars
    <2>1. StudioInv'
      BY <1>3, StudioUntouched DEF storageVars, studioVars, StudioInv, StudioTypeOK
    <2>. QED
      BY <1>3, <2>1, CalibrationUntouched DEF storageVars
  <1>. QED
    BY <1>1, <1>2, <1>3

LEMMA StorageInductive == UnboundedStorageSpec => [](StudioInv /\ CalibrationInv)
  BY StorageInitInv, StorageStepInv, PTL DEF UnboundedStorageSpec

\* What is proved without Storage's bounds holds with them.
THEOREM StorageBoundsOnlyRestrict == StorageSpec => UnboundedStorageSpec
  <1>1. StorageNext => Studio \/ Calibration
    BY DEF StorageNext
  <1>. QED
    BY <1>1, PTL DEF StorageSpec, UnboundedStorageSpec

\* Layouts, their store, the samples and the biases keep their types.
THEOREM StorageTypeCorrect == UnboundedStorageSpec => []StorageTypeOK
  <1>1. StudioInv /\ CalibrationInv => StorageTypeOK
    BY DEF StudioInv, CalibrationInv, StorageTypeOK
  <1>. QED
    BY <1>1, StorageInductive, PTL

\* What the studio shows of a layout of the user's own is what is stored under its id,
\* after any edits, selections, copies, imports and deletions, as long as no write was
\* refused and no edit was overtaken by another layout before React made it.
THEOREM ShownIsSaved == UnboundedStorageSpec => []SavedAsShown
  <1>1. StudioInv => SavedAsShown
    BY DEF StudioInv
  <1>. QED
    BY <1>1, StorageInductive, PTL

\* The layout on the canvas is the active one, and the active one exists, as long as no
\* write was refused.
THEOREM EditedIsActive == UnboundedStorageSpec => []ActiveIsEdited
  <1>1. StudioInv => ActiveIsEdited
    BY DEF StudioInv
  <1>. QED
    BY <1>1, StorageInductive, PTL

\* A dialog that shows progress waits for a prompt or for samples.
THEOREM ProgressHasCause == UnboundedStorageSpec => []ProgressIsReal
  <1>1. CalibrationInv => ProgressIsReal
    BY DEF CalibrationInv
  <1>. QED
    BY <1>1, StorageInductive, PTL

\* The bias in use is the one the next start loads, unless storing it was refused or an
\* orphan has overtaken it.
THEOREM UsedBiasIsStored == UnboundedStorageSpec => []BiasIsStored
  <1>1. CalibrationInv => BiasIsStored
    BY DEF CalibrationInv
  <1>. QED
    BY <1>1, StorageInductive, PTL

=============================================================================
