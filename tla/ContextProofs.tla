---------------------------- MODULE ContextProofs ----------------------------
(***************************************************************************)
(* For any windows, modes, profiles, channels and any debounce time: the   *)
(* types, the order of the priorities, and that a mode switch on its way   *)
(* announces the mode in force.                                            *)
(***************************************************************************)
EXTENDS Context, TLAPS

Arbitrators ==
  [emergency : BOOLEAN, manual : Modes \cup {None}, locked : BOOLEAN,
   mode : Modes, source : Sources]

Debounces ==
  [confirmed : Windows \cup {None}, candidate : Windows \cup {None}, since : 0 .. Debounce]

\* A lock without a mode would let the next evaluation fall through to the profile.
LockedHasMode(a) == a.locked => a.manual # None

\* PriorityHeld, said of any arbitrator.
Ordered(a) ==
  /\ a.locked /\ a.source # "emergency" => a.source = "manual" /\ a.mode = a.manual
  /\ a.source = "emergency" => a.emergency /\ a.mode = Default

\* While a change is being sent the poll has the lock, so nobody evaluates.
SendsUnderLock == (packet # None => poll = "sending") /\ (poll = "sending" => holder = "poll")

IInv ==
  /\ TypeOK
  /\ LockedHasMode(arbitrator)
  /\ Ordered(arbitrator)
  /\ SendsUnderLock
  /\ AnnouncedIsInForce

-----------------------------------------------------------------------------
(* The arbitrator *)

LEMMA MatchType == ASSUME NEW w PROVE MatchOf(w) \in Modes \cup {None}
  BY MatchAssumption DEF MatchOf

\* An evaluation chooses a mode and a source, and touches nothing else.
LEMMA EvaluateKeeps ==
  ASSUME NEW a \in Arbitrators, NEW m \in Modes \cup {None}
  PROVE  /\ Evaluate(a, m) \in Arbitrators
         /\ Evaluate(a, m).emergency = a.emergency
         /\ Evaluate(a, m).manual = a.manual
         /\ Evaluate(a, m).locked = a.locked
  BY ModesAssumption DEF Evaluate, Arbitrators, Sources

\* Whatever the mode was before, after an evaluation the priorities hold.
LEMMA EvaluateOrders ==
  ASSUME NEW a \in Arbitrators, NEW m \in Modes \cup {None}, LockedHasMode(a)
  PROVE  Ordered(Evaluate(a, m))
  BY DEF Evaluate, Arbitrators, Ordered, LockedHasMode

\* What every step that evaluates makes of the arbitrator.
Fit(a) == a \in Arbitrators /\ LockedHasMode(a) /\ Ordered(a)

LEMMA EvaluateFits ==
  ASSUME NEW a \in Arbitrators, LockedHasMode(a), NEW w
  PROVE  Fit(Evaluate(a, MatchOf(w)))
  <1>. DEFINE b == Evaluate(a, MatchOf(w))
  <1>1. MatchOf(w) \in Modes \cup {None}
    BY MatchType
  <1>2. b \in Arbitrators /\ b.manual = a.manual /\ b.locked = a.locked
    BY <1>1, EvaluateKeeps
  <1>3. Ordered(b)
    BY <1>1, EvaluateOrders
  <1>. QED
    BY <1>2, <1>3 DEF Fit, LockedHasMode

LEMMA OverrideFits ==
  ASSUME arbitrator \in Arbitrators, NEW mode \in Modes, NEW locked \in BOOLEAN, NEW seen
  PROVE  Fit(Override(mode, locked, seen))
  <1>. DEFINE a == [arbitrator EXCEPT !.manual = mode, !.locked = locked]
  <1>1. a \in Arbitrators /\ LockedHasMode(a)
    BY ModesAssumption DEF Arbitrators, LockedHasMode
  <1>. QED
    BY <1>1, EvaluateFits DEF Override

-----------------------------------------------------------------------------

LEMMA InitIInv == Init => IInv
  BY ModesAssumption, DebounceAssumption
  DEF Init, IInv, TypeOK, LockedHasMode, Ordered, SendsUnderLock, AnnouncedIsInForce, Sources

\* Steps that leave the arbitrator, its lock, the poll and its packet alone.
LEMMA ElsewhereIInv ==
  ASSUME IInv, TypeOK', UNCHANGED <<arbitrator, holder, poll, packet>>
  PROVE  IInv'
  BY DEF IInv, LockedHasMode, Ordered, SendsUnderLock, AnnouncedIsInForce

\* Steps of those who find the lock free: nothing is being sent.
LEMMA EvaluatedIInv ==
  ASSUME IInv, holder = "nobody", Fit(arbitrator'), TypeOK', UNCHANGED <<poll, packet>>
  PROVE  IInv'
  BY DEF IInv, Fit, SendsUnderLock, AnnouncedIsInForce

LEMMA WindowIInv == ASSUME IInv, NEW w \in Windows, WindowChanges(w) PROVE IInv'
  <1>1. TypeOK'
    BY DEF IInv, TypeOK, WindowChanges, channelVars
  <1>. QED
    BY <1>1, ElsewhereIInv DEF WindowChanges

LEMMA TickIInv == ASSUME IInv, Tick PROVE IInv'
  <1>1. TypeOK'
    BY DebounceAssumption DEF IInv, TypeOK, Tick, channelVars
  <1>. QED
    BY <1>1, ElsewhereIInv DEF Tick

LEMMA PollIInv == ASSUME IInv, Poll PROVE IInv'
  <1>1. CASE PollNewCandidate
    <2>1. debounce' \in Debounces
      <3>1. debounce \in Debounces /\ foreground \in Windows /\ 0 \in 0 .. Debounce
        BY DebounceAssumption DEF IInv, TypeOK, Debounces
      <3>. QED
        BY <1>1, <3>1 DEF Debounces, PollNewCandidate
    <2>2. TypeOK'
      BY <1>1, <2>1 DEF IInv, TypeOK, Debounces, PollNewCandidate, channelVars
    <2>. QED
      BY <1>1, <2>2, ElsewhereIInv DEF PollNewCandidate
  <1>2. CASE PollConfirms
    <2>1. debounce' \in Debounces
      <3>1. debounce \in Debounces /\ foreground \in Windows /\ 0 \in 0 .. Debounce
        BY DebounceAssumption DEF IInv, TypeOK, Debounces
      <3>. QED
        BY <1>2, <3>1 DEF Debounces, PollConfirms
    <2>2. TypeOK'
      BY <1>2, <2>1 DEF IInv, TypeOK, Debounces, PollConfirms, channelVars
    <2>3. packet = None
      BY <1>2 DEF IInv, SendsUnderLock, PollConfirms
    <2>. QED
      BY <1>2, <2>2, <2>3
      DEF IInv, PollConfirms, LockedHasMode, Ordered, SendsUnderLock, AnnouncedIsInForce
  <1>3. CASE PollEvaluates
    <2>1. Fit(arbitrator')
      BY <1>3, EvaluateFits DEF IInv, TypeOK, Arbitrators, PollEvaluates
    <2>2. packet = None
      BY <1>3 DEF IInv, SendsUnderLock, PollEvaluates
    <2>3. TypeOK'
      BY <1>3, <2>1 DEF IInv, TypeOK, Fit, Arbitrators, PollEvaluates, windowVars, channelVars
    <2>4. \/ packet' = arbitrator'.mode /\ poll' = "sending" /\ holder' = "poll"
          \/ packet' = None /\ poll' = "asleep"
      BY <1>3, <2>2 DEF PollEvaluates
    <2>. QED
      BY <2>1, <2>3, <2>4 DEF IInv, Fit, SendsUnderLock, AnnouncedIsInForce
  <1>4. CASE PollSends
    <2>1. TypeOK'
      BY <1>4, ModesAssumption DEF IInv, TypeOK, PollSends, windowVars, channelVars
    <2>. QED
      BY <1>4, <2>1
      DEF IInv, PollSends, LockedHasMode, Ordered, SendsUnderLock, AnnouncedIsInForce
  <1>. QED
    BY <1>1, <1>2, <1>3, <1>4 DEF Poll

LEMMA DispatchIInv == ASSUME IInv, Dispatch PROVE IInv'
  <1>1. CASE DispatchSwitch
    <2>1. PICK seen \in Seen :
            arbitrator' = IF asked \in Modes
                          THEN Override(asked, TRUE, seen)
                          ELSE Evaluate(arbitrator, MatchOf(seen))
      BY <1>1 DEF DispatchSwitch
    <2>2. Fit(arbitrator')
      BY <2>1, OverrideFits, EvaluateFits DEF IInv, TypeOK, Arbitrators
    <2>3. TypeOK'
      BY <1>1, <2>2
      DEF IInv, TypeOK, Fit, Arbitrators, DispatchSwitch, windowVars, channelVars
    <2>. QED
      BY <1>1, <2>2, <2>3, EvaluatedIInv DEF DispatchSwitch
  <1>2. CASE DispatchDone
    <2>1. TypeOK'
      BY <1>2 DEF IInv, TypeOK, DispatchDone, windowVars, channelVars
    <2>2. poll # "sending" /\ packet = None
      BY <1>2 DEF IInv, SendsUnderLock, DispatchDone
    <2>. QED
      BY <1>2, <2>1, <2>2
      DEF IInv, DispatchDone, LockedHasMode, Ordered, SendsUnderLock, AnnouncedIsInForce
  <1>. QED
    BY <1>1, <1>2 DEF Dispatch

LEMMA TrayIInv ==
  ASSUME IInv, NEW mode \in TrayModes, NEW locked \in BOOLEAN, TraySwitch(mode, locked)
  PROVE  IInv'
  <1>1. Fit(arbitrator')
    BY OverrideFits, ModesAssumption DEF IInv, TypeOK, Arbitrators, TraySwitch
  <1>2. TypeOK'
    BY <1>1 DEF IInv, TypeOK, Fit, Arbitrators, TraySwitch, windowVars, channelVars
  <1>. QED
    BY <1>1, <1>2, EvaluatedIInv DEF TraySwitch

\* The flag alone gives no source and takes no mode.
LEMMA EmergencyIInv == ASSUME IInv, RaiseEmergency PROVE IInv'
  <1>1. /\ arbitrator' \in Arbitrators
        /\ arbitrator'.manual = arbitrator.manual /\ arbitrator'.locked = arbitrator.locked
        /\ arbitrator'.mode = arbitrator.mode /\ arbitrator'.source = arbitrator.source
        /\ arbitrator.emergency => arbitrator'.emergency
    BY DEF IInv, TypeOK, Arbitrators, RaiseEmergency
  <1>2. TypeOK'
    BY <1>1 DEF IInv, TypeOK, Arbitrators, RaiseEmergency, windowVars, channelVars
  <1>. QED
    BY <1>1, <1>2
    DEF IInv, RaiseEmergency, LockedHasMode, Ordered, SendsUnderLock, AnnouncedIsInForce

LEMMA ChannelIInv ==
  ASSUME IInv, NEW c \in Channels,
         \/ \E mode \in PhoneModes : PhoneSelects(c, mode)
         \/ ChannelOpens(c)
         \/ ChannelCloses(c)
  PROVE  IInv'
  <1>1. CASE \E mode \in PhoneModes : PhoneSelects(c, mode)
    <2>1. TypeOK'
      BY <1>1 DEF IInv, TypeOK, PhoneSelects, windowVars, channelVars
    <2>. QED
      BY <1>1, <2>1, ElsewhereIInv DEF PhoneSelects
  <1>2. CASE ChannelOpens(c) \/ ChannelCloses(c)
    <2>1. spawned' \subseteq [channel : Channels, attach : BOOLEAN]
      <3>1. \A attach \in BOOLEAN :
              [channel |-> c, attach |-> attach] \in [channel : Channels, attach : BOOLEAN]
        OBVIOUS
      <3>2. \E attach \in BOOLEAN : spawned' = spawned \cup {[channel |-> c, attach |-> attach]}
        BY <1>2 DEF ChannelOpens, ChannelCloses
      <3>. QED
        BY <3>1, <3>2 DEF IInv, TypeOK
    <2>2. life' \in [Channels -> {"new", "open", "closed"}]
      BY <1>2 DEF IInv, TypeOK, ChannelOpens, ChannelCloses
    <2>3. TypeOK'
      BY <1>2, <2>1, <2>2 DEF IInv, TypeOK, ChannelOpens, ChannelCloses, windowVars
    <2>. QED
      BY <1>2, <2>3, ElsewhereIInv DEF ChannelOpens, ChannelCloses
  <1>. QED
    BY <1>1, <1>2

LEMMA SpawnedIInv == ASSUME IInv, NEW task \in spawned, SpawnedRuns(task) PROVE IInv'
  <1>1. TypeOK'
    BY DEF IInv, TypeOK, SpawnedRuns, windowVars
  <1>. QED
    BY <1>1, ElsewhereIInv DEF SpawnedRuns

LEMMA NextIInv == ASSUME IInv, [Next]_vars PROVE IInv'
  <1>1. CASE UNCHANGED vars
    <2>1. TypeOK'
      BY <1>1 DEF IInv, TypeOK, vars
    <2>. QED
      BY <1>1, <2>1, ElsewhereIInv DEF vars
  <1>2. CASE Next
    BY <1>2, WindowIInv, TickIInv, PollIInv, DispatchIInv, TrayIInv, EmergencyIInv,
       ChannelIInv, SpawnedIInv
    DEF Next
  <1>. QED
    BY <1>1, <1>2

LEMMA InductiveInvariant == Spec => []IInv
  BY InitIInv, NextIInv, PTL DEF Spec

-----------------------------------------------------------------------------

\* The variables keep to their types: the arbitrator only ever holds modes of the
\* host, whatever mode a phone asks for.
THEOREM ContextTypeCorrect == Spec => []TypeOK
  <1>1. IInv => TypeOK
    BY DEF IInv
  <1>. QED
    BY <1>1, InductiveInvariant, PTL

\* Emergency before override before profile: with any number of tray commands,
\* phones' switches and polls between two evaluations, the locked mode is the one in
\* force unless the emergency rules, and then it is the default one.
THEOREM PrioritiesHold == Spec => []PriorityHeld
  <1>1. IInv => PriorityHeld
    BY DEF IInv, Ordered, PriorityHeld
  <1>. QED
    BY <1>1, InductiveInvariant, PTL

\* A mode switch that is being sent names the mode in force until it has been sent:
\* the lock is kept across the send.
THEOREM AnnouncementsAreTrue == Spec => []AnnouncedIsInForce
  <1>1. IInv => AnnouncedIsInForce
    BY DEF IInv
  <1>. QED
    BY <1>1, InductiveInvariant, PTL

=============================================================================
