----------------------------- MODULE WebAppProofs -----------------------------
(***************************************************************************)
(* For any keys, buttons, fingers and numbers of pending timers: what the  *)
(* pointer and keyboard views have told the host is pressed has something  *)
(* that will release it, whichever views come and go meanwhile.            *)
(***************************************************************************)
EXTENDS WebApp, TLAPS, FiniteSetTheorems

IInv == TypeOK /\ KeysComeUp /\ ButtonsAreOwned /\ RepeatIsHeld

LEMMA Bounds == 0 \in 0 .. MaxClicks /\ 0 \in 0 .. MaxBacks
  BY FingersAssumption, BacksAssumption

\* What a view that goes away leaves behind is in its initial state.
LEMMA UnmountResets ==
  /\ PadUnmount => PadTypeOK' /\ physical' = {}
  /\ AirUnmount => AirTypeOK'
  /\ MediaUnmount => MediaTypeOK' /\ RepeatIsHeld'
  <1>1. PadUnmount => PadTypeOK' /\ physical' = {}
    BY Bounds DEF PadUnmount, PadTypeOK
  <1>2. AirUnmount => AirTypeOK'
    BY Bounds DEF AirUnmount, AirTypeOK
  <1>3. MediaUnmount => MediaTypeOK' /\ RepeatIsHeld'
    BY DEF MediaUnmount, MediaTypeOK, RepeatIsHeld
  <1>. QED
    BY <1>1, <1>2, <1>3

LEMMA NoTimersType == NoTimers \in [Keys -> 0 .. MaxTaps]
  BY TapsAssumption DEF NoTimers

LEMMA StraysType ==
  ASSUME PadTypeOK
  PROVE  PadStrays \subseteq SUBSET Buttons /\ AirStrays \subseteq SUBSET Buttons
  BY DEF PadTypeOK, PadStrays, AirStrays

LEMMA InitIInv == Init => IInv
  <1>. SUFFICES ASSUME Init PROVE IInv
    OBVIOUS
  <1>1. ToldTypeOK
    BY DEF Init, ToldTypeOK
  <1>2. DeckTypeOK
    BY NoTimersType DEF Init, DeckInit, DeckTypeOK
  <1>3. PadTypeOK
    BY Bounds DEF Init, PadInit, PadTypeOK
  <1>4. AirTypeOK
    BY Bounds DEF Init, AirInit, AirTypeOK
  <1>5. MediaTypeOK /\ RepeatIsHeld
    BY DEF Init, MediaInit, MediaTypeOK, RepeatIsHeld
  <1>6. connected \in BOOLEAN /\ mode \in Modes /\ autoSwitch \in BOOLEAN
        /\ strays \subseteq SUBSET Buttons
    BY DEF Init, Modes
  <1>7. KeysComeUp /\ ButtonsAreOwned
    BY DEF Init, KeysComeUp, ButtonsAreOwned
  <1>. QED
    BY <1>1, <1>2, <1>3, <1>4, <1>5, <1>6, <1>7 DEF IInv, TypeOK

-----------------------------------------------------------------------------
(* The views *)

\* A tap's keys are told to be down together with the timers of their key-ups.
LEMMA TapsKeep ==
  ASSUME ToldTypeOK, DeckTypeOK, KeysComeUp,
         NEW taps \in [Keys -> 0 .. MaxTaps], Taps(taps)
  PROVE  ToldTypeOK' /\ DeckTypeOK' /\ KeysComeUp' /\ UNCHANGED <<mouseTold, mine>>
  <1>1. ToldTypeOK' /\ UNCHANGED <<mouseTold, mine, mods>>
    BY DEF ToldTypeOK, Taps, SendKeys
  <1>2. \A k \in Keys : ups[k] \in 0 .. MaxTaps /\ taps[k] \in 0 .. MaxTaps
    BY DEF DeckTypeOK
  <1>3. \A k \in Keys : ups[k] + taps[k] \in 0 .. MaxTaps
    BY <1>2, TapsAssumption DEF Taps
  <1>4. DeckTypeOK'
    BY <1>1, <1>3 DEF DeckTypeOK, Taps
  <1>5. KeysComeUp'
    <2>. SUFFICES ASSUME NEW k \in keysTold' \ Modifiers PROVE ups'[k] > 0 \/ k \in stranded'
      BY DEF KeysComeUp
    <2>1. k \in Keys
      BY <1>1 DEF ToldTypeOK
    <2>2. ups'[k] = ups[k] + taps[k]
      BY <2>1 DEF Taps
    <2>3. ups[k] > 0 \/ taps[k] > 0 \/ (taps[k] = 0 /\ k \in stranded)
      <3>1. taps[k] > 0 \/ k \in keysTold
        BY <2>1 DEF Taps, SendKeys
      <3>2. taps[k] > 0 \/ taps[k] = 0
        BY <1>2, <2>1, TapsAssumption
      <3>. QED
        BY <3>1, <3>2 DEF KeysComeUp
    <2>4. taps[k] = 0 /\ k \in stranded => k \in stranded'
      BY DEF Taps
    <2>. QED
      BY <1>2, <2>1, <2>2, <2>3, <2>4
  <1>. QED
    BY <1>1, <1>4, <1>5

LEMMA DeckKeeps ==
  ASSUME ToldTypeOK, DeckTypeOK, KeysComeUp, DeckStep
  PROVE  ToldTypeOK' /\ DeckTypeOK' /\ KeysComeUp' /\ UNCHANGED <<mouseTold, mine>>
  <1>1. CASE \E k \in Keys : Keycap(k) \/ Macro(k)
    <2>1. PICK k \in Keys : Taps(Once(k))
      BY <1>1 DEF Keycap, Macro
    <2>2. CASE MaxTaps = 0
      <3>1. ups[k] = 0 /\ Once(k)[k] = 1 /\ ups[k] + Once(k)[k] <= MaxTaps
        BY <2>1, <2>2 DEF DeckTypeOK, Once, NoTimers, Taps
      <3>. QED
        BY <2>2, <3>1
    <2>3. CASE MaxTaps # 0
      <3>1. Once(k) \in [Keys -> 0 .. MaxTaps]
        BY <2>3, TapsAssumption DEF Once, NoTimers
      <3>. QED
        BY <2>1, <3>1, TapsKeep
    <2>. QED
      BY <2>2, <2>3
  <1>2. CASE \E taps \in [Keys -> 0 .. MaxTaps] \ {NoTimers} : Type(taps)
    BY <1>2, TapsKeep DEF Type
  <1>3. CASE \E m \in Modifiers : ToggleModifier(m)
    BY <1>3, ModifiersAssumption
    DEF ToldTypeOK, DeckTypeOK, KeysComeUp, ToggleModifier, SendKeys, Flip
  <1>. QED
    BY <1>1, <1>2, <1>3 DEF DeckStep

LEMMA KeyUpKeeps ==
  ASSUME ToldTypeOK, DeckTypeOK, KeysComeUp,
         NEW k \in Keys, NEW open \in BOOLEAN, KeyUp(k, open)
  PROVE  ToldTypeOK' /\ DeckTypeOK' /\ KeysComeUp' /\ UNCHANGED <<mouseTold, mine>>
  <1>1. ToldTypeOK' /\ UNCHANGED <<mouseTold, mine, mods>>
    BY DEF ToldTypeOK, KeyUp, SendKeys, toldVars
  <1>2. ups[k] - 1 \in 0 .. MaxTaps
    <2>1. ups[k] \in 0 .. MaxTaps /\ ups[k] > 0
      BY DEF DeckTypeOK, KeyUp
    <2>. QED
      BY <2>1, TapsAssumption
  <1>3. DeckTypeOK'
    BY <1>1, <1>2 DEF DeckTypeOK, KeyUp
  <1>4. \A j \in keysTold' : j \in keysTold /\ (j # k \/ j \in stranded')
    BY DEF KeyUp, SendKeys, toldVars
  <1>5. stranded \subseteq stranded'
    BY DEF KeyUp
  <1>6. \A j \in Keys : j # k => ups'[j] = ups[j]
    BY DEF KeyUp, DeckTypeOK
  <1>. QED
    BY <1>1, <1>3, <1>4, <1>5, <1>6 DEF KeysComeUp, ToldTypeOK

\* The trackpad's masks and what stands for them.
LEMMA PadKeeps ==
  ASSUME ToldTypeOK, PadTypeOK, PadStep, mine => \A b \in mouseTold : PadOwns(b)
  PROVE  /\ ToldTypeOK' /\ PadTypeOK' /\ UNCHANGED keysTold
         /\ mine' => \A b \in mouseTold' : PadOwns(b)'
  <1>1. CASE TouchMove
    BY <1>1, ButtonsAssumption
    DEF ToldTypeOK, PadTypeOK, PadOwns, TouchMove, Output, SendMask, padVars
  <1>2. ASSUME NEW f \in Fingers, NEW nearTap \in BOOLEAN, TouchStart(f, nearTap)
        PROVE  /\ ToldTypeOK' /\ PadTypeOK' /\ UNCHANGED keysTold
               /\ mine' => \A b \in mouseTold' : PadOwns(b)'
    <2>1. PadTypeOK'
      <3>1. tracked' \subseteq Fingers /\ dragging' \in BOOLEAN
        BY <1>2 DEF PadTypeOK, TouchStart, OnScreen
      <3>2. where' \in [Fingers -> {"off", "pad"} \cup Buttons]
        BY <1>2 DEF PadTypeOK, TouchStart
      <3>. QED
        BY <1>2, <3>1, <3>2 DEF PadTypeOK, TouchStart
    <2>2. \/ dragging' /\ Output({"left"})
          \/ (dragging => dragging') /\ UNCHANGED toldVars
      BY <1>2 DEF TouchStart, PadTypeOK
    <2>3. UNCHANGED <<physical, tapUps, rightUps>>
      BY <1>2 DEF TouchStart
    <2>4. CASE dragging' /\ Output({"left"})
      BY <2>1, <2>3, <2>4, ButtonsAssumption
      DEF ToldTypeOK, PadTypeOK, PadOwns, Output, SendMask
    <2>5. CASE (dragging => dragging') /\ UNCHANGED toldVars
      BY <2>1, <2>3, <2>5 DEF ToldTypeOK, PadOwns, toldVars
    <2>. QED
      BY <2>2, <2>4, <2>5
  <1>3. ASSUME NEW f \in Fingers, NEW b \in Buttons, ClickerDown(f, b)
        PROVE  /\ ToldTypeOK' /\ PadTypeOK' /\ UNCHANGED keysTold
               /\ mine' => \A c \in mouseTold' : PadOwns(c)'
    BY <1>3 DEF ToldTypeOK, PadTypeOK, PadOwns, ClickerDown, SendMask, recognizerVars
  <1>4. ASSUME NEW f \in Fingers, ClickerUp(f)
        PROVE  /\ ToldTypeOK' /\ PadTypeOK' /\ UNCHANGED keysTold
               /\ mine' => \A c \in mouseTold' : PadOwns(c)'
    BY <1>4 DEF ToldTypeOK, PadTypeOK, PadOwns, ClickerUp, SendMask, recognizerVars
  <1>5. ASSUME NEW lifted \in SUBSET Fingers, NEW quick \in SUBSET lifted,
               TouchEnd(lifted, quick)
        PROVE  /\ ToldTypeOK' /\ PadTypeOK' /\ UNCHANGED keysTold
               /\ mine' => \A c \in mouseTold' : PadOwns(c)'
    <2>. DEFINE counted == quick \cap tracked
                taps == IF Cardinality(tracked) = 1 /\ ~dragging THEN Cardinality(counted) ELSE 0
                rights == IF Cardinality(tracked) = 2 THEN Cardinality(counted) ELSE 0
                ends == dragging /\ tracked' = {}
    <2>1. taps \in Nat /\ rights \in Nat
      <3>1. IsFiniteSet(counted)
        BY FingersAssumption, FS_Subset
      <3>. QED
        BY <3>1, FS_CardinalityType
    <2>. HIDE DEF taps, rights
    <2>2. /\ where' = [f \in Fingers |-> IF f \in lifted THEN "off" ELSE where[f]]
          /\ tracked' = tracked \ lifted
          /\ dragging' = (dragging /\ ~ends)
          /\ tapped' = (tapped \/ taps > 0)
          /\ tapUps + taps <= MaxClicks /\ tapUps' = tapUps + taps
          /\ rightUps + rights <= MaxClicks /\ rightUps' = rightUps + rights
          /\ UNCHANGED physical
      BY <1>5 DEF TouchEnd, taps, rights
    <2>3. \/ Output({})
          \/ rights > 0 /\ Output({"right"})
          \/ taps > 0 /\ Output({"left"})
          \/ ~ends /\ UNCHANGED toldVars
      BY <1>5, <2>1 DEF TouchEnd, taps, rights
    <2>4. tapUps \in Nat /\ rightUps \in Nat
      BY DEF PadTypeOK
    <2>5. PadTypeOK'
      <3>1. tapUps' \in 0 .. MaxClicks /\ rightUps' \in 0 .. MaxClicks
        BY <2>1, <2>2, <2>4, FingersAssumption
      <3>2. dragging' \in BOOLEAN /\ tapped' \in BOOLEAN
        BY <2>2
      <3>3. where' \in [Fingers -> {"off", "pad"} \cup Buttons]
        BY <2>2 DEF PadTypeOK
      <3>. QED
        BY <2>2, <3>1, <3>2, <3>3 DEF PadTypeOK
    <2>6. /\ taps > 0 => tapUps' > 0
          /\ rights > 0 => rightUps' > 0
          /\ tapUps > 0 => tapUps' > 0
          /\ rightUps > 0 => rightUps' > 0
      BY <2>1, <2>2, <2>4
    <2>7. CASE Output({})
      BY <2>2, <2>5, <2>7 DEF ToldTypeOK, PadTypeOK, PadOwns, Output, SendMask
    <2>8. CASE rights > 0 /\ Output({"right"})
      BY <2>2, <2>5, <2>6, <2>8, ButtonsAssumption
      DEF ToldTypeOK, PadTypeOK, PadOwns, Output, SendMask
    <2>9. CASE taps > 0 /\ Output({"left"})
      BY <2>2, <2>5, <2>6, <2>9, ButtonsAssumption
      DEF ToldTypeOK, PadTypeOK, PadOwns, Output, SendMask
    <2>10. CASE ~ends /\ UNCHANGED toldVars
      <3>1. dragging => dragging'
        BY <2>2, <2>10
      <3>. QED
        BY <2>2, <2>5, <2>6, <2>10, <3>1 DEF ToldTypeOK, PadOwns, toldVars
    <2>. QED
      BY <2>3, <2>7, <2>8, <2>9, <2>10
  <1>6. CASE TapUp
    <2>1. tapUps \in 0 .. MaxClicks /\ tapUps > 0 /\ tapUps' = tapUps - 1
      BY <1>6 DEF PadTypeOK, TapUp
    <2>2. tapUps' \in 0 .. MaxClicks
      BY <2>1, FingersAssumption
    <2>. QED
      BY <1>6, <2>2 DEF ToldTypeOK, PadTypeOK, PadOwns, TapUp, Output, SendMask, toldVars
  <1>7. CASE RightUp
    <2>1. rightUps \in 0 .. MaxClicks /\ rightUps > 0 /\ rightUps' = rightUps - 1
      BY <1>7 DEF PadTypeOK, RightUp
    <2>2. rightUps' \in 0 .. MaxClicks
      BY <2>1, FingersAssumption
    <2>. QED
      BY <1>7, <2>2 DEF ToldTypeOK, PadTypeOK, PadOwns, RightUp, Output, SendMask
  <1>. QED
    BY <1>1, <1>2, <1>3, <1>4, <1>5, <1>6, <1>7 DEF PadStep, PadTimer

LEMMA AirKeeps ==
  ASSUME ToldTypeOK, AirTypeOK, AirStep, mine => \A b \in mouseTold : AirOwns(b)
  PROVE  /\ ToldTypeOK' /\ AirTypeOK' /\ UNCHANGED keysTold
         /\ mine' => \A b \in mouseTold' : AirOwns(b)'
  <1>. backUps \in 0 .. MaxBacks
    BY DEF AirTypeOK
  <1>1. CASE TriggerDown \/ TriggerUp
    BY <1>1, ButtonsAssumption
    DEF ToldTypeOK, AirTypeOK, AirOwns, TriggerDown, TriggerUp, SendMask, toldVars
  <1>2. CASE ToggleDragLock
    <2>1. AirTypeOK'
      BY <1>2 DEF AirTypeOK, ToggleDragLock
    <2>2. SendMask({}) \/ (dragLocked' /\ SendMask({"left"}))
      BY <1>2 DEF ToggleDragLock
    <2>. QED
      BY <2>1, <2>2, ButtonsAssumption DEF ToldTypeOK, AirOwns, SendMask
  <1>5. CASE TogglePointer
    <2>1. AirTypeOK'
      BY <1>5 DEF AirTypeOK, TogglePointer
    <2>. QED
      BY <1>5, <2>1 DEF ToldTypeOK, AirOwns, TogglePointer, toldVars
  <1>3. CASE Back
    <2>1. backUps' \in 0 .. MaxBacks /\ backUps' > 0
      BY <1>3, BacksAssumption DEF Back
    <2>. QED
      BY <1>3, <2>1, ButtonsAssumption DEF ToldTypeOK, AirTypeOK, AirOwns, Back, SendMask
  <1>4. CASE BackUp
    <2>1. backUps' \in 0 .. MaxBacks
      BY <1>4, BacksAssumption DEF BackUp
    <2>. QED
      BY <1>4, <2>1 DEF ToldTypeOK, AirTypeOK, AirOwns, BackUp, SendMask
  <1>. QED
    BY <1>1, <1>2, <1>3, <1>4, <1>5 DEF AirStep

\* Whichever of the two buttons' fingers is lifted, the one timer stops.
LEMMA MediaKeeps ==
  ASSUME MediaTypeOK, RepeatIsHeld, MediaStep
  PROVE  MediaTypeOK' /\ RepeatIsHeld'
  BY DEF MediaTypeOK, RepeatIsHeld, MediaStep, MediaClick, HoldVolume, ReleaseVolume,
         RepeatVolume, VolumeActions

-----------------------------------------------------------------------------
(* The steps of the dashboard *)

\* The views gone, nothing that was told is the present view's.
LEMMA UnmountedIInv ==
  ASSUME IInv, ToldTypeOK', DeckTypeOK', KeysComeUp', ~mine',
         PadUnmount, AirUnmount, MediaUnmount,
         connected' \in BOOLEAN, mode' \in Modes, autoSwitch' \in BOOLEAN,
         strays' \subseteq SUBSET Buttons
  PROVE  IInv'
  BY UnmountResets DEF IInv, TypeOK, ButtonsAreOwned

LEMMA ShowIInv ==
  ASSUME IInv, NEW m \in Modes, Show(m), autoSwitch' \in BOOLEAN,
         UNCHANGED connected
  PROVE  IInv'
  <1>1. CASE m = mode \/ ~connected
    <2>1. UNCHANGED <<viewVars, toldVars, strays, connected>> /\ mode' = m
      BY <1>1 DEF Show
    <2>2. View' = View
      BY <1>1, <2>1 DEF View, IInv, TypeOK
    <2>3. TypeOK'
      BY <2>1
      DEF IInv, TypeOK, ToldTypeOK, DeckTypeOK, PadTypeOK, AirTypeOK, MediaTypeOK,
          viewVars, toldVars, deckVars, padVars, airVars, mediaVars
    <2>4. KeysComeUp' /\ RepeatIsHeld'
      BY <2>1 DEF IInv, KeysComeUp, RepeatIsHeld, viewVars, toldVars, deckVars, mediaVars
    <2>5. ButtonsAreOwned'
      BY <2>1, <2>2
      DEF IInv, ButtonsAreOwned, PadOwns, AirOwns, viewVars, toldVars, padVars, airVars
    <2>. QED
      BY <2>3, <2>4, <2>5 DEF IInv
  <1>2. CASE ~(m = mode \/ ~connected)
    <2>1. Unmount /\ mine' = FALSE /\ UNCHANGED <<keysTold, mouseTold>>
      BY <1>2 DEF Show, Forget
    <2>2. ToldTypeOK' /\ DeckTypeOK' /\ KeysComeUp'
      BY <2>1 DEF IInv, TypeOK, ToldTypeOK, DeckTypeOK, KeysComeUp, Unmount, DeckUnmount
    <2>3. strays' \subseteq SUBSET Buttons
      BY <2>1, StraysType DEF IInv, TypeOK, Unmount
    <2>4. mode' \in Modes /\ connected' \in BOOLEAN
      BY DEF Show, IInv, TypeOK
    <2>. QED
      BY <2>1, <2>2, <2>3, <2>4, UnmountedIInv DEF Unmount
  <1>. QED
    BY <1>1, <1>2

LEMMA LostIInv == ASSUME IInv, Lost PROVE IInv'
  <1>1. ToldTypeOK' /\ DeckTypeOK' /\ KeysComeUp' /\ ~mine'
    BY DEF IInv, TypeOK, ToldTypeOK, DeckTypeOK, KeysComeUp, Lost, Unmount, DeckUnmount, Forget
  <1>2. strays' \subseteq SUBSET Buttons
    BY StraysType DEF IInv, TypeOK, Lost, Unmount
  <1>. QED
    BY <1>1, <1>2, UnmountedIInv DEF IInv, TypeOK, Lost, Unmount

LEMMA DisconnectIInv == ASSUME IInv, Disconnect PROVE IInv'
  <1>1. ToldTypeOK' /\ DeckTypeOK' /\ KeysComeUp' /\ ~mine'
    BY NoTimersType DEF IInv, TypeOK, ToldTypeOK, DeckTypeOK, KeysComeUp, Disconnect, Forget
  <1>. QED
    BY <1>1, UnmountedIInv DEF IInv, TypeOK, Disconnect

\* Steps that concern no view's state and leave the view on the screen where it is,
\* or bring one that has sent nothing.
LEMMA ElsewhereIInv ==
  ASSUME IInv, UNCHANGED <<viewVars, toldVars, mode, strays>>,
         UNCHANGED connected \/ (~connected /\ connected' = TRUE),
         autoSwitch' \in BOOLEAN
  PROVE  IInv'
  <1>1. TypeOK'
    BY DEF IInv, TypeOK, ToldTypeOK, DeckTypeOK, PadTypeOK, AirTypeOK, MediaTypeOK,
           viewVars, toldVars, deckVars, padVars, airVars, mediaVars
  <1>2. KeysComeUp' /\ RepeatIsHeld'
    BY DEF IInv, KeysComeUp, RepeatIsHeld, viewVars, toldVars, deckVars, mediaVars
  <1>3. ButtonsAreOwned'
    <2>1. CASE connected
      BY <2>1 DEF IInv, ButtonsAreOwned, View, PadOwns, AirOwns, viewVars, toldVars, padVars, airVars
    <2>2. CASE ~connected
      BY <2>2 DEF IInv, ButtonsAreOwned, View, PadOwns, AirOwns, viewVars, toldVars, padVars, airVars
    <2>. QED
      BY <2>1, <2>2
  <1>. QED
    BY <1>1, <1>2, <1>3 DEF IInv

\* A keyboard step leaves the mask, and whose it is, alone.
LEMMA KeysIInv ==
  ASSUME IInv, ToldTypeOK', DeckTypeOK', KeysComeUp', UNCHANGED <<mouseTold, mine>>,
         UNCHANGED <<padVars, airVars, mediaVars, appVars>>
  PROVE  IInv'
  <1>1. TypeOK'
    BY DEF IInv, TypeOK, PadTypeOK, AirTypeOK, MediaTypeOK, padVars, airVars, mediaVars, appVars
  <1>2. RepeatIsHeld'
    BY DEF IInv, RepeatIsHeld, mediaVars
  <1>3. ButtonsAreOwned'
    BY DEF IInv, ButtonsAreOwned, View, PadOwns, AirOwns, padVars, airVars, appVars
  <1>. QED
    BY <1>1, <1>2, <1>3 DEF IInv

LEMMA PadIInv == ASSUME IInv, Pad PROVE IInv'
  <1>1. View = "trackpad" /\ View' = "trackpad"
    BY DEF Pad, View, appVars
  <1>2. mine => \A b \in mouseTold : PadOwns(b)
    BY <1>1 DEF IInv, ButtonsAreOwned
  <1>3. /\ ToldTypeOK' /\ PadTypeOK' /\ UNCHANGED keysTold
        /\ mine' => \A b \in mouseTold' : PadOwns(b)'
    BY <1>2, PadKeeps DEF IInv, TypeOK, Pad
  <1>4. TypeOK'
    BY <1>3
    DEF IInv, TypeOK, Pad, DeckTypeOK, AirTypeOK, MediaTypeOK, deckVars, airVars, mediaVars, appVars
  <1>5. KeysComeUp' /\ RepeatIsHeld'
    BY <1>3 DEF IInv, Pad, KeysComeUp, RepeatIsHeld, deckVars, mediaVars
  <1>6. ButtonsAreOwned'
    BY <1>1, <1>3 DEF ButtonsAreOwned
  <1>. QED
    BY <1>4, <1>5, <1>6 DEF IInv

LEMMA AirIInv == ASSUME IInv, Air PROVE IInv'
  <1>1. View = "airmouse" /\ View' = "airmouse"
    BY DEF Air, View, appVars
  <1>2. mine => \A b \in mouseTold : AirOwns(b)
    BY <1>1 DEF IInv, ButtonsAreOwned
  <1>3. /\ ToldTypeOK' /\ AirTypeOK' /\ UNCHANGED keysTold
        /\ mine' => \A b \in mouseTold' : AirOwns(b)'
    BY <1>2, AirKeeps DEF IInv, TypeOK, Air
  <1>4. TypeOK'
    BY <1>3
    DEF IInv, TypeOK, Air, DeckTypeOK, PadTypeOK, MediaTypeOK, deckVars, padVars, mediaVars, appVars
  <1>5. KeysComeUp' /\ RepeatIsHeld'
    BY <1>3 DEF IInv, Air, KeysComeUp, RepeatIsHeld, deckVars, mediaVars
  <1>6. ButtonsAreOwned'
    BY <1>1, <1>3 DEF ButtonsAreOwned
  <1>. QED
    BY <1>4, <1>5, <1>6 DEF IInv

LEMMA MediaIInv == ASSUME IInv, Media PROVE IInv'
  <1>1. MediaTypeOK' /\ RepeatIsHeld'
    BY MediaKeeps DEF IInv, TypeOK, Media
  <1>2. TypeOK'
    BY <1>1
    DEF IInv, TypeOK, Media, ToldTypeOK, DeckTypeOK, PadTypeOK, AirTypeOK,
        toldVars, deckVars, padVars, airVars, appVars
  <1>3. KeysComeUp'
    BY DEF IInv, Media, KeysComeUp, toldVars, deckVars
  <1>4. ButtonsAreOwned'
    BY DEF IInv, Media, ButtonsAreOwned, View, PadOwns, AirOwns, toldVars, padVars, airVars, appVars
  <1>. QED
    BY <1>1, <1>2, <1>3, <1>4 DEF IInv

LEMMA StrayIInv == ASSUME IInv, NEW mask \in strays, Stray(mask) PROVE IInv'
  <1>1. ToldTypeOK' /\ strays' \subseteq SUBSET Buttons
    BY DEF IInv, TypeOK, Stray, ToldTypeOK
  <1>2. TypeOK'
    BY <1>1
    DEF IInv, TypeOK, Stray, DeckTypeOK, PadTypeOK, AirTypeOK, MediaTypeOK,
        viewVars, deckVars, padVars, airVars, mediaVars
  <1>3. KeysComeUp' /\ RepeatIsHeld'
    BY DEF IInv, Stray, KeysComeUp, RepeatIsHeld, viewVars, deckVars, mediaVars
  <1>4. ButtonsAreOwned'
    BY DEF IInv, Stray, ButtonsAreOwned, View, PadOwns, AirOwns, viewVars, padVars, airVars
  <1>. QED
    BY <1>2, <1>3, <1>4 DEF IInv

LEMMA NextIInv == ASSUME IInv, [Next]_vars PROVE IInv'
  <1>1. CASE UNCHANGED vars
    BY <1>1, ElsewhereIInv DEF vars, appVars, IInv, TypeOK
  <1>2. CASE Connected \/ \E on \in BOOLEAN : Configure(on)
    BY <1>2, ElsewhereIInv DEF Connected, Configure, IInv, TypeOK
  <1>3. ASSUME NEW m \in Modes, SelectMode(m) PROVE IInv'
    BY <1>3, ShowIInv DEF SelectMode, IInv, TypeOK
  <1>4. ASSUME NEW m \in Modes, NEW enforced \in BOOLEAN, HostSwitch(m, enforced) PROVE IInv'
    BY <1>4, ShowIInv DEF HostSwitch, IInv, TypeOK
  <1>5. CASE Deck
    BY <1>5, DeckKeeps, KeysIInv DEF Deck, IInv, TypeOK
  <1>6. CASE DeckTimer
    BY <1>6, KeyUpKeeps, KeysIInv DEF DeckTimer, IInv, TypeOK
  <1>7. CASE Lost \/ Disconnect \/ Pad \/ Air \/ Media
    BY <1>7, LostIInv, DisconnectIInv, PadIInv, AirIInv, MediaIInv
  <1>. QED
    BY <1>1, <1>2, <1>3, <1>4, <1>5, <1>6, <1>7, StrayIInv DEF Next

LEMMA InductiveInvariant == Spec => []IInv
  BY InitIInv, NextIInv, PTL DEF Spec

-----------------------------------------------------------------------------

\* The views and their pending timers keep their types, each counter within its bound.
THEOREM WebAppTypeCorrect == Spec => []TypeOK
  BY InductiveInvariant, PTL DEF IInv

\* Every key the phone has said to be down, and that is no sticky modifier, has a
\* timer for its key-up: several characters of one event, repeated ones and a change
\* of view included.  The exception is a key whose key-up was due without a channel.
THEOREM KeysHaveTheirKeyUp == Spec => []KeysComeUp
  <1>1. IInv => KeysComeUp
    BY DEF IInv
  <1>. QED
    BY <1>1, InductiveInvariant, PTL

\* A mouse button that the view on the screen has last said to be pressed is held by
\* a drag, a clicker, a lock, a finger or a pending release of that view.
THEOREM ButtonsHaveAnOwner == Spec => []ButtonsAreOwned
  <1>1. IInv => ButtonsAreOwned
    BY DEF IInv
  <1>. QED
    BY <1>1, InductiveInvariant, PTL

\* The volume button whose action the media deck repeats is under a finger.
THEOREM VolumeStopsWithTheFinger == Spec => []RepeatIsHeld
  <1>1. IInv => RepeatIsHeld
    BY DEF IInv
  <1>. QED
    BY <1>1, InductiveInvariant, PTL

=============================================================================
