--------------------------- MODULE InputPathProofs ---------------------------
(***************************************************************************)
(* For any number of slots, threads, reports, keys and buttons: the types  *)
(* of the router's state, and that what it remembers of a slot is what the *)
(* slot's gamepad shows.  For any number of players and packets and any    *)
(* queue: the pipeline uses the router and the watchdog as their           *)
(* specifications say, so what is proved of the router holds in it; its    *)
(* types are right; and a pad shows something only for a channel of its    *)
(* own slot.                                                               *)
(***************************************************************************)
EXTENDS InputPath, TLAPS

-----------------------------------------------------------------------------
(* The router *)

\* What makes LatestIsShown inductive.  A sweep that has just neutralized a
\* driver still has the report of the same slot to forget ...
SweepShape ==
  \A t \in Threads : Sweeping(t) =>
    \/ sweep[t].last = TouchStep
    \/ \E s \in Slots : /\ sweep[t].at \in {DriverStep(s), ReportStep(s)}
                       /\ sweep[t].last = ReportStep(s)

\* ... and nobody but the dispatcher remembers a report: until it has written
\* the driver, a sweep can only have made it forgotten.
RouteShape ==
  Routing => /\ route.report \in Reports
             /\ latest[route.slot] \in {NoReport, route.report}

IInv == RouterTypeOK /\ SweepShape /\ RouteShape /\ LatestIsShown

-----------------------------------------------------------------------------

\* The initial state satisfies every part of the inductive invariant.
LEMMA InitIInv == RouterInit => IInv
  <1> SUFFICES ASSUME RouterInit PROVE IInv
    OBVIOUS
  <1> USE NAssumption, ReportsAssumption DEF RouterInit
  <1>1. RouterTypeOK
    BY DEF RouterTypeOK, Slots, NoSweep, NoRoute, SweepRecords, TouchStep
  <1>2. \A t \in Threads : ~Sweeping(t)
    BY DEF Sweeping, NoSweep
  <1>3. SweepShape
    BY <1>2 DEF SweepShape
  <1>4. RouteShape
    BY DEF RouteShape, Routing
  <1>5. LatestIsShown
    BY DEF LatestIsShown
  <1>. QED
    BY <1>1, <1>3, <1>4, <1>5 DEF IInv

-----------------------------------------------------------------------------
(* The dispatcher's steps *)

\* Recording a report keeps the invariant: the driver write is still owed.
LEMMA RouteGamepadIInv ==
  ASSUME IInv, NEW s \in Slots, NEW r \in Reports, RouteGamepad(s, r)
  PROVE  IInv'
  <1> USE DEF IInv, RouteGamepad
  <1>1. RouterTypeOK'
    BY DEF RouterTypeOK
  <1>2. SweepShape'
    BY DEF SweepShape, Sweeping
  <1>3. latest'[s] = r /\ route'.slot = s /\ route'.report = r
    BY DEF RouterTypeOK
  <1>4. RouteShape'
    BY <1>3 DEF RouteShape
  <1>5. route' # NoRoute
    BY <1>3, ReportsAssumption DEF NoRoute
  <1>6. ASSUME NEW u \in Slots, latest'[u] # NoReport, u # s
        PROVE  pad'[u] = latest'[u] \/ HalfSwept(u)'
    <2>1. latest[u] # NoReport /\ latest'[u] = latest[u]
      BY <1>6 DEF RouterTypeOK
    <2>2. pad[u] = latest[u] \/ HalfSwept(u)
      BY <2>1 DEF LatestIsShown
    <2>. QED
      BY <2>1, <2>2 DEF HalfSwept, Sweeping
  <1>7. LatestIsShown'
    BY <1>3, <1>5, <1>6 DEF LatestIsShown, Routing
  <1>. QED
    BY <1>1, <1>2, <1>4, <1>7

\* Writing the driver pays what was owed, unless the report was forgotten meanwhile.
LEMMA WriteGamepadIInv == ASSUME IInv, WriteGamepad PROVE IInv'
  <1> USE DEF IInv, WriteGamepad
  <1>1. route.slot \in Slots /\ route.report \in Reports
    BY DEF RouterTypeOK, RouteShape
  <1>2. NoRoute \in [slot : Slots, report : Reports \cup {NoReport}]
    BY NAssumption DEF NoRoute, Slots
  <1>3. RouterTypeOK'
    BY <1>1, <1>2 DEF RouterTypeOK
  <1>4. SweepShape'
    BY DEF SweepShape, Sweeping
  <1>5. RouteShape'
    BY DEF RouteShape, Routing
  <1>6. ASSUME NEW u \in Slots, latest'[u] # NoReport
        PROVE  pad'[u] = latest'[u] \/ HalfSwept(u)'
    <2>1. CASE u = route.slot
      BY <2>1, <1>1, <1>6 DEF RouterTypeOK, RouteShape
    <2>2. CASE u # route.slot
      <3>1. pad'[u] = pad[u] /\ latest'[u] = latest[u]
        BY <2>2 DEF RouterTypeOK
      <3>2. pad[u] = latest[u] \/ HalfSwept(u)
        BY <2>2, <3>1, <1>6 DEF LatestIsShown
      <3>. QED
        BY <3>1, <3>2 DEF HalfSwept, Sweeping
    <2>. QED
      BY <2>1, <2>2
  <1>7. LatestIsShown'
    BY <1>6 DEF LatestIsShown
  <1>. QED
    BY <1>3, <1>4, <1>5, <1>7

\* Steps that leave the gamepads and the sweeps alone keep the invariant.
LEMMA PadsAloneIInv ==
  ASSUME IInv, UNCHANGED <<latest, pad, route, sweep>>,
         mouse' \subseteq Buttons, lastTouch' \subseteq Buttons, keyboard' \subseteq Keys
  PROVE  IInv'
  <1> USE DEF IInv
  <1>1. RouterTypeOK'
    BY DEF RouterTypeOK
  <1>2. SweepShape' /\ RouteShape'
    BY DEF SweepShape, RouteShape, Sweeping, Routing
  <1>3. \A u \in Slots : HalfSwept(u)' = HalfSwept(u)
    BY DEF HalfSwept, Sweeping
  <1>4. LatestIsShown'
    BY <1>3 DEF LatestIsShown, Routing
  <1>. QED
    BY <1>1, <1>2, <1>4

\* Every step of the dispatcher keeps the invariant.
LEMMA RouteIInv == ASSUME IInv, Route PROVE IInv'
  <1>1. ASSUME NEW s \in Slots, NEW r \in Reports, RouteGamepad(s, r) PROVE IInv'
    BY <1>1, RouteGamepadIInv
  <1>2. CASE WriteGamepad
    BY <1>2, WriteGamepadIInv
  <1>3. ASSUME NEW mask \in SUBSET Buttons, NEW tap \in BOOLEAN, RouteTouchpad(mask, tap)
        PROVE  IInv'
    <2>1. mouse' \subseteq Buttons
      <3>1. mouse \subseteq Buttons
        BY DEF IInv, RouterTypeOK
      <3>. QED
        BY <1>3, <3>1 DEF RouteTouchpad
    <2>2. lastTouch' \subseteq Buttons /\ keyboard' \subseteq Keys
      BY <1>3 DEF RouteTouchpad, IInv, RouterTypeOK
    <2>. QED
      BY <1>3, <2>1, <2>2, PadsAloneIInv DEF RouteTouchpad
  <1>4. ASSUME NEW k \in Keys, NEW state \in {"down", "up", "repeat"}, RouteKeyboard(k, state)
        PROVE  IInv'
    <2>1. keyboard' \subseteq Keys /\ mouse' \subseteq Buttons /\ lastTouch' \subseteq Buttons
      BY <1>4 DEF RouteKeyboard, IInv, RouterTypeOK
    <2>. QED
      BY <1>4, <2>1, PadsAloneIInv DEF RouteKeyboard
  <1>5. CASE RouteMomentary
    BY <1>5, PadsAloneIInv DEF RouteMomentary, routerVars, IInv, RouterTypeOK
  <1>. QED
    BY <1>1, <1>2, <1>3, <1>4, <1>5 DEF Route

-----------------------------------------------------------------------------
(* The neutralizing threads' steps *)

\* Starting a neutralization keeps the invariant: the thread was not sweeping, so
\* it excused no slot.
LEMMA BeginIInv ==
  ASSUME IInv, NEW t \in Threads, ~Sweeping(t), NEW from, NEW upto,
         sweep' = [sweep EXCEPT ![t] = [at |-> from, last |-> upto]],
         \/ from = 1 /\ upto = TouchStep
         \/ \E s \in Slots : from = DriverStep(s) /\ upto = ReportStep(s),
         UNCHANGED <<latest, pad, mouse, lastTouch, keyboard, route>>
  PROVE  IInv'
  <1> USE DEF IInv
  <1>1. from \in 1 .. TouchStep + 1 /\ upto \in 0 .. TouchStep
    BY NAssumption DEF DriverStep, ReportStep, TouchStep, Slots
  <1>2. RouterTypeOK'
    BY <1>1 DEF RouterTypeOK, SweepRecords
  <1>3. \A u \in Threads \ {t} : sweep'[u] = sweep[u]
    BY DEF RouterTypeOK
  <1>4. sweep'[t].at = from /\ sweep'[t].last = upto
    BY DEF RouterTypeOK
  <1>5. SweepShape'
    BY <1>3, <1>4 DEF SweepShape, Sweeping
  <1>6. RouteShape'
    BY DEF RouteShape, Routing
  <1>7. \A s \in Slots : HalfSwept(s) => HalfSwept(s)'
    BY <1>3 DEF HalfSwept, Sweeping
  <1>8. LatestIsShown'
    BY <1>7 DEF LatestIsShown, Routing
  <1>. QED
    BY <1>2, <1>5, <1>6, <1>8

\* The steps of different slots and the later steps of neutralize are all distinct.
LEMMA StepNumbers ==
  ASSUME NEW s \in Slots, NEW u \in Slots
  PROVE  /\ DriverStep(s) # ReportStep(u)
         /\ DriverStep(s) = DriverStep(u) => s = u
         /\ ReportStep(s) = ReportStep(u) => s = u
         /\ ReportStep(s) = DriverStep(s) + 1
         /\ ReportStep(s) < TouchStep
  BY NAssumption DEF Slots, DriverStep, ReportStep, TouchStep

\* One lock of a neutralization keeps the invariant: after the driver of a slot
\* comes its report, and the thread that owes it is the excuse until then.
LEMMA SweepStepIInv == ASSUME IInv, NEW t \in Threads, SweepStep(t) PROVE IInv'
  <1> DEFINE k == sweep[t].at
  <1> USE DEF IInv
  <1>1. /\ Sweeping(t)
        /\ sweep' = [sweep EXCEPT ![t].at = k + 1]
        /\ pad' = [s \in Slots |-> IF k = DriverStep(s) THEN Neutral ELSE pad[s]]
        /\ latest' = [s \in Slots |-> IF k = ReportStep(s) THEN NoReport ELSE latest[s]]
        /\ UNCHANGED route
    BY DEF SweepStep
  <1>2. /\ k \in 1 .. TouchStep + 1
        /\ sweep[t].last \in 0 .. TouchStep
        /\ k <= sweep[t].last
        /\ TouchStep \in Nat
    BY <1>1, NAssumption DEF RouterTypeOK, SweepRecords, Sweeping, TouchStep
  <1>3. /\ sweep'[t].at = k + 1 /\ sweep'[t].last = sweep[t].last
        /\ \A u \in Threads \ {t} : sweep'[u] = sweep[u]
    BY <1>1 DEF RouterTypeOK, SweepRecords
  <1>4. RouterTypeOK'
    <2>1. sweep' \in [Threads -> SweepRecords]
      BY <1>1, <1>2 DEF RouterTypeOK, SweepRecords
    <2>2. pad' \in [Slots -> Reports] /\ latest' \in [Slots -> Reports \cup {NoReport}]
      BY <1>1, ReportsAssumption DEF RouterTypeOK
    <2>3. mouse' \subseteq Buttons /\ keyboard' \subseteq Keys /\ lastTouch' \subseteq Buttons
      BY DEF SweepStep, RouterTypeOK
    <2>. QED
      BY <1>1, <2>1, <2>2, <2>3 DEF RouterTypeOK
  <1>5. SweepShape'
    <2>1. ASSUME sweep'[t].at <= sweep'[t].last, sweep[t].last # TouchStep
          PROVE  \E s \in Slots : /\ sweep'[t].at \in {DriverStep(s), ReportStep(s)}
                                  /\ sweep'[t].last = ReportStep(s)
      <3>1. PICK s \in Slots : k \in {DriverStep(s), ReportStep(s)} /\ sweep[t].last = ReportStep(s)
        BY <1>1, <2>1 DEF SweepShape
      <3>. QED
        BY <1>3, <2>1, <3>1 DEF DriverStep, ReportStep, Slots
    <2>. QED
      BY <1>3, <2>1 DEF SweepShape, Sweeping
  <1>6. RouteShape'
    BY <1>1 DEF RouteShape, Routing, RouterTypeOK, NoRoute
  <1>7. ASSUME NEW s \in Slots, k = DriverStep(s) PROVE HalfSwept(s)'
    <2>1. ReportStep(s) <= sweep[t].last
      <3>1. CASE sweep[t].last = TouchStep
        BY <3>1, NAssumption DEF ReportStep, TouchStep, Slots
      <3>2. CASE sweep[t].last # TouchStep
        <4>1. PICK u \in Slots : k \in {DriverStep(u), ReportStep(u)} /\ sweep[t].last = ReportStep(u)
          BY <1>1, <3>2 DEF SweepShape
        <4>2. u = s
          BY <4>1, <1>7, StepNumbers
        <4>. QED
          BY <4>1, <4>2 DEF ReportStep, Slots
      <3>. QED
        BY <3>1, <3>2
    <2>2. sweep'[t].at = ReportStep(s)
      BY <1>3, <1>7 DEF DriverStep, ReportStep, Slots
    <2>. QED
      BY <1>3, <2>1, <2>2 DEF HalfSwept, Sweeping
  <1>8. ASSUME NEW s \in Slots, latest'[s] # NoReport
        PROVE  pad'[s] = latest'[s] \/ HalfSwept(s)' \/ (route'.slot = s /\ Routing')
    <2>1. k # ReportStep(s) /\ latest'[s] = latest[s]
      BY <1>1, <1>8
    <2>2. CASE k = DriverStep(s)
      BY <2>2, <1>7
    <2>3. CASE k # DriverStep(s)
      <3>1. pad'[s] = pad[s]
        BY <1>1, <2>3
      <3>2. HalfSwept(s) => HalfSwept(s)'
        BY <1>3, <2>1 DEF HalfSwept, Sweeping
      <3>. QED
        BY <1>1, <1>8, <2>1, <3>1, <3>2 DEF LatestIsShown, Routing
    <2>. QED
      BY <2>2, <2>3
  <1>9. LatestIsShown'
    BY <1>8 DEF LatestIsShown
  <1>. QED
    BY <1>4, <1>5, <1>6, <1>9

\* Every step of a neutralizing thread keeps the invariant.
LEMMA NeutralizeIInv == ASSUME IInv, NEW t \in Threads, Neutralize(t) PROVE IInv'
  <1>1. CASE BeginNeutralize(t)
    BY <1>1, BeginIInv DEF BeginNeutralize
  <1>2. ASSUME NEW s \in Slots, BeginNeutralizeSlot(t, s) PROVE IInv'
    BY <1>2, BeginIInv DEF BeginNeutralizeSlot
  <1>3. CASE SweepStep(t)
    BY <1>3, SweepStepIInv
  <1>. QED
    BY <1>1, <1>2, <1>3 DEF Neutralize

-----------------------------------------------------------------------------

\* IInv is an inductive invariant of the router.
LEMMA InductiveInvariant == RouterSpec => []IInv
  <1>1. RouterInit => IInv
    BY InitIInv
  <1>2. IInv /\ [RouterNext]_routerVars => IInv'
    <2>1. CASE RouterNext
      BY <2>1, RouteIInv, NeutralizeIInv DEF RouterNext
    <2>2. CASE UNCHANGED routerVars
      BY <2>2, PadsAloneIInv DEF routerVars, IInv, RouterTypeOK
    <2>. QED
      BY <2>1, <2>2
  <1>. QED
    BY <1>1, <1>2, PTL DEF RouterSpec

\* The router's state keeps its types: pads only ever show reports, sweeps never
\* run past the last lock.
THEOREM TypeCorrect == RouterSpec => []RouterTypeOK
  BY InductiveInvariant, PTL DEF IInv

\* Whatever the dispatcher and any number of neutralizing threads do between each
\* other's locks, a report the router remembers is the one the pad shows.
THEOREM RememberedIsShown == RouterSpec => []LatestIsShown
  BY InductiveInvariant, PTL DEF IInv

-----------------------------------------------------------------------------
(* An undisturbed emergency *)

FullSweep(t) == sweep[t].last = TouchStep /\ Sweeping(t)

\* What a sweep of everything has released so far.
SweptSoFar(t) ==
  /\ \A s \in Slots : DriverStep(s) < sweep[t].at => pad[s] = Neutral
  /\ MouseStep < sweep[t].at => mouse = {}
  /\ KeyboardStep < sweep[t].at => keyboard = {}

Releasing(t) == RouterTypeOK /\ ~Routing /\ (NothingHeld \/ (FullSweep(t) /\ SweptSoFar(t)))

\* Another thread's sweep presses nothing, and the last lock finds all released.
LEMMA NeutralizeReleases ==
  ASSUME NEW t \in Threads, NEW u \in Threads, Releasing(t), Neutralize(u), RouterTypeOK'
  PROVE  Releasing(t)'
  <1>1. ~Routing'
    BY DEF Releasing, Neutralize, BeginNeutralize, BeginNeutralizeSlot, SweepStep, Routing
  <1>2. /\ \A s \in Slots : pad[s] = Neutral => pad'[s] = Neutral
        /\ mouse = {} => mouse' = {}
        /\ keyboard = {} => keyboard' = {}
    BY DEF Neutralize, BeginNeutralize, BeginNeutralizeSlot, SweepStep
  <1>3. CASE NothingHeld
    BY <1>1, <1>2, <1>3 DEF Releasing, NothingHeld
  <1>4. CASE FullSweep(t) /\ SweptSoFar(t) /\ u # t
    <2>1. sweep'[t] = sweep[t]
      BY <1>4 DEF Neutralize, BeginNeutralize, BeginNeutralizeSlot, SweepStep, Releasing, RouterTypeOK
    <2>. QED
      BY <1>1, <1>2, <1>4, <2>1 DEF Releasing, FullSweep, Sweeping, SweptSoFar
  <1>5. CASE FullSweep(t) /\ SweptSoFar(t) /\ u = t
    <2> DEFINE k == sweep[t].at
    <2>1. SweepStep(t)
      BY <1>5 DEF Neutralize, BeginNeutralize, BeginNeutralizeSlot, FullSweep
    <2>2. k \in Nat /\ k <= TouchStep /\ TouchStep \in Nat
      BY <1>5, NAssumption
      DEF FullSweep, Sweeping, Releasing, RouterTypeOK, SweepRecords, TouchStep
    <2>3. sweep'[t].at = k + 1 /\ sweep'[t].last = TouchStep
      BY <1>5, <2>1 DEF SweepStep, FullSweep, Releasing, RouterTypeOK, SweepRecords
    <2>4. SweptSoFar(t)'
      <3>1. ASSUME NEW s \in Slots, DriverStep(s) < k + 1 PROVE pad'[s] = Neutral
        BY <1>2, <1>5, <2>1, <2>2, <3>1 DEF SweptSoFar, SweepStep, DriverStep, Slots
      <3>2. MouseStep < k + 1 => mouse' = {}
        BY <1>2, <1>5, <2>1, <2>2, NAssumption DEF SweptSoFar, SweepStep, MouseStep
      <3>3. KeyboardStep < k + 1 => keyboard' = {}
        BY <1>2, <1>5, <2>1, <2>2, NAssumption DEF SweptSoFar, SweepStep, KeyboardStep
      <3>. QED
        BY <2>3, <3>1, <3>2, <3>3 DEF SweptSoFar
    <2>5. CASE k < TouchStep
      BY <1>1, <2>2, <2>3, <2>4, <2>5 DEF Releasing, FullSweep, Sweeping
    <2>6. CASE k = TouchStep
      <3>1. \A s \in Slots : DriverStep(s) < TouchStep + 1
        BY NAssumption DEF Slots, DriverStep, TouchStep
      <3>2. MouseStep < TouchStep + 1 /\ KeyboardStep < TouchStep + 1
        BY NAssumption DEF MouseStep, KeyboardStep, TouchStep
      <3>. QED
        BY <1>1, <2>3, <2>4, <2>6, <3>1, <3>2 DEF Releasing, SweptSoFar, NothingHeld
    <2>. QED
      BY <2>2, <2>5, <2>6
  <1>. QED
    BY <1>3, <1>4, <1>5 DEF Releasing

\* The first state of a neutralization of everything.
Starts(t) == sweep[t] = [at |-> 1, last |-> TouchStep] /\ ~Routing

OnlyNeutralizing == [][\E u \in Threads : Neutralize(u)]_routerVars

LEMMA ReleasingBegins == ASSUME NEW t \in Threads, RouterTypeOK, Starts(t) PROVE Releasing(t)
  BY NAssumption
  DEF Starts, Releasing, FullSweep, SweptSoFar, Sweeping, TouchStep, MouseStep, KeyboardStep,
      DriverStep, Slots

LEMMA ReleasingGoesOn ==
  ASSUME NEW t \in Threads, Releasing(t), RouterTypeOK',
         [\E u \in Threads : Neutralize(u)]_routerVars
  PROVE  Releasing(t)'
  <1>1. CASE UNCHANGED routerVars
    BY <1>1
    DEF Releasing, RouterTypeOK, Routing, NothingHeld, FullSweep, Sweeping, SweptSoFar, routerVars
  <1>. QED
    BY <1>1, NeutralizeReleases

LEMMA ReleasingEnds == ASSUME NEW t, Releasing(t) PROVE Sweeping(t) \/ NothingHeld
  BY DEF Releasing, FullSweep

\* Once an emergency has begun, and as long as the dispatcher routes nothing, the end
\* of its sweep finds every pad neutral and no key and button down, however many other
\* sweeps run beside it, begin and end: neutralize() forgets nothing.
THEOREM UndisturbedSweepReleases ==
  ASSUME NEW t \in Threads
  PROVE  RouterSpec => [](Starts(t) /\ OnlyNeutralizing => [](Sweeping(t) \/ NothingHeld))
  <1>1. RouterTypeOK /\ Starts(t) => Releasing(t)
    BY ReleasingBegins
  <1>2. Releasing(t) /\ RouterTypeOK' /\ [\E u \in Threads : Neutralize(u)]_routerVars
          => Releasing(t)'
    BY ReleasingGoesOn
  <1>3. Releasing(t) => Sweeping(t) \/ NothingHeld
    BY ReleasingEnds
  <1>. QED
    BY <1>1, <1>2, <1>3, TypeCorrect, PTL DEF OnlyNeutralizing

-----------------------------------------------------------------------------
(* The pipeline *)

LifeStates == {"new", "open", "closing", "closed"}

\* The types of what the pipeline adds to the router and the watchdog.
PathTypes ==
  /\ life \in [Channels -> LifeStates]
  /\ peer \in [Peers -> {"up", "failed", "closed"}]
  /\ handling \in [Channels -> AllPackets \cup {NoPacket}]
  /\ queue \in Seq(AllPackets)
  /\ Len(queue) <= QueueCap
  /\ asleep \subseteq Channels
  /\ finger \in [Channels -> SUBSET Keys]

-----------------------------------------------------------------------------
(* Packets *)

LEMMA NoPacketIsNone == NoPacket \notin AllPackets
  BY DEF NoPacket, AllPackets

\* A packet is queued as a packet.
LEMMA EventType == ASSUME NEW c \in Channels, NEW p \in AllPackets PROVE Event(c, p) \in AllPackets
  BY ChannelsAssumption DEF Event, AllPackets

LEMMA FingersType ==
  ASSUME PathTypes, NEW c \in Channels, NEW p \in AllPackets
  PROVE  Fingers(c, p) \in SUBSET Keys
  BY DEF Fingers, PathTypes, AllPackets

\* Every way of routing a packet is a way the router knows.
LEMMA RoutedIsRoute == ASSUME NEW e \in AllPackets, Routed(e) PROVE Route
  <1>1. CASE e.kind = "pad"
    <2>1. e.slot \in Slots /\ e.report \in Reports
      BY <1>1 DEF AllPackets
    <2>. QED
      BY <1>1, <2>1 DEF Routed, Route
  <1>2. CASE e.kind = "key"
    <2>1. e.key \in Keys /\ e.state \in {"down", "up", "repeat"}
      BY <1>2 DEF AllPackets
    <2>. QED
      BY <1>2, <2>1 DEF Routed, Route
  <1>3. CASE e.kind = "touch"
    <2>1. e.mask \in SUBSET Buttons /\ e.tap \in BOOLEAN
      BY <1>3 DEF AllPackets
    <2>. QED
      BY <1>3, <2>1 DEF Routed, Route
  <1>4. CASE e.kind \in {"heartbeat", "reset"}
    BY <1>4 DEF Routed, Route
  <1>. QED
    BY <1>1, <1>2, <1>3, <1>4 DEF AllPackets

-----------------------------------------------------------------------------
(* The types of the pipeline *)

\* A peer connection's callback does nothing but continue or begin a call of its own.
LEMMA PeerLeavesAlone ==
  ASSUME NEW q \in Peers, PeerCallback(q)
  PROVE  /\ UNCHANGED <<routerVars, life, handling, queue, phoneVars>>
         /\ \/ UNCHANGED peer /\ Finish(q)
            \/ /\ Disarm(q)
               /\ \E state \in {"failed", "closed"} : peer' = [peer EXCEPT ![q] = state]
  BY DEF PeerCallback, ContinueCall, PeerEnds, channelVars

LEMMA InitPathTypes == Init => PathTypes
  BY QueueAssumption DEF Init, PathTypes, LifeStates

LEMMA EnqueuePathTypes ==
  ASSUME PathTypes, NEW c \in Channels, Enqueue(c)
  PROVE  PathTypes'
  <1>1. handling[c] \in AllPackets
    BY DEF Enqueue, PathTypes
  <1>2. Event(c, handling[c]) \in AllPackets
    BY <1>1, EventType
  <1>3. queue' \in Seq(AllPackets) /\ Len(queue') <= QueueCap
    BY <1>2, QueueAssumption DEF Enqueue, PathTypes
  <1>. QED
    BY <1>3 DEF Enqueue, PathTypes, phoneVars

LEMMA NextPathTypes == ASSUME PathTypes, [Next]_vars PROVE PathTypes'
  <1> USE DEF PathTypes, LifeStates, channelVars, phoneVars
  <1>1. CASE Tick \/ DispatchDriver
    BY <1>1 DEF Tick, DispatchDriver
  <1>2. CASE Monitor
    BY <1>2 DEF Monitor, MonitorSample, MonitorSwap, MonitorSweep, MonitorFired
  <1>3. CASE Dispatch
    <2>1. queue' \in Seq(AllPackets) /\ Len(queue') <= QueueCap
      BY <1>3, QueueAssumption DEF Dispatch
    <2>. QED
      BY <1>3, <2>1 DEF Dispatch
  <1>4. ASSUME NEW c \in Channels, PhoneSleeps(c) PROVE PathTypes'
    BY <1>4 DEF PhoneSleeps
  <1>5. ASSUME NEW c \in Channels, Open(c) \/ Close(c) \/ NeutralizeSlot(c)
        PROVE  PathTypes'
    BY <1>5 DEF Open, Close, NeutralizeSlot
  <1>6. ASSUME NEW c \in Channels, ContinueCall(c) \/ CloseSweep(c) PROVE PathTypes'
    BY <1>6 DEF ContinueCall, CloseSweep
  <1>7. ASSUME NEW c \in Channels, NEW p \in Packets, Packet(c, p) \/ PacketLost(c, p)
        PROVE  PathTypes'
    <2>1. p \in AllPackets /\ Fingers(c, p) \in SUBSET Keys
      BY PacketsAssumption, FingersType
    <2>. QED
      BY <1>7, <2>1 DEF Packet, PacketLost
  <1>8. ASSUME NEW q \in Peers, PeerCallback(q) PROVE PathTypes'
    BY <1>8, PeerLeavesAlone
  <1>9. CASE UNCHANGED vars
    BY <1>9 DEF vars
  <1>. QED
    BY <1>1, <1>2, <1>3, <1>4, <1>5, <1>6, <1>7, <1>8, <1>9, EnqueuePathTypes
    DEF Next, Dispatcher, Callback

LEMMA PathTypesInvariant == Spec => []PathTypes
  BY InitPathTypes, NextPathTypes, PTL DEF Spec

-----------------------------------------------------------------------------
(* Every step is a step of the router and a step of the watchdog, or leaves *)
(* them alone                                                               *)

LEMMA StepOfRouter == ASSUME PathTypes, [Next]_vars PROVE [RouterNext]_routerVars
  <1> USE ChannelsAssumption DEF RouterNext, Neutralize
  <1>1. CASE Dispatch
    <2>1. Head(queue) \in AllPackets
      BY <1>1 DEF Dispatch, PathTypes
    <2>. QED
      BY <1>1, <2>1, RoutedIsRoute DEF Dispatch
  <1>2. CASE DispatchDriver
    BY <1>2 DEF DispatchDriver, Route
  <1>3. CASE Monitor
    BY <1>3 DEF Monitor, MonitorSample, MonitorSwap, MonitorSweep, MonitorFired
  <1>4. ASSUME NEW c \in Channels, NeutralizeSlot(c) \/ CloseSweep(c) PROVE [RouterNext]_routerVars
    BY <1>4 DEF NeutralizeSlot, CloseSweep
  <1>5. ASSUME NEW c \in Channels,
               \/ PhoneSleeps(c) \/ Open(c) \/ Close(c)
               \/ ContinueCall(c) \/ Enqueue(c)
               \/ \E p \in Packets : Packet(c, p) \/ PacketLost(c, p)
        PROVE  UNCHANGED routerVars
    BY <1>5 DEF PhoneSleeps, Open, Close, ContinueCall, Enqueue, Packet, PacketLost
  <1>6. CASE Tick \/ UNCHANGED vars
    BY <1>6 DEF Tick, vars
  <1>7. ASSUME NEW q \in Peers, PeerCallback(q) PROVE UNCHANGED routerVars
    BY <1>7, PeerLeavesAlone
  <1>. QED
    BY <1>1, <1>2, <1>3, <1>4, <1>5, <1>6, <1>7 DEF Next, Dispatcher, Callback

LEMMA StepOfWatchdog == ASSUME [Next]_vars PROVE [WatchdogNext]_watchdogVars
  <1> USE ChannelsAssumption DEF WatchdogNext, MonitorStep, Begin
  <1>1. CASE Tick
    BY <1>1 DEF Tick
  <1>2. CASE Monitor
    BY <1>2 DEF Monitor, MonitorSample, MonitorSwap, MonitorSweep, MonitorFired
  <1>3. CASE Dispatcher
    BY <1>3 DEF Dispatcher, Dispatch, DispatchDriver
  <1>4. ASSUME NEW c \in Channels, Open(c) \/ Close(c) \/ ContinueCall(c)
        PROVE  [WatchdogNext]_watchdogVars
    BY <1>4 DEF Open, Close, ContinueCall
  <1>5. ASSUME NEW c \in Channels, NEW p \in Packets, Packet(c, p) \/ PacketLost(c, p)
        PROVE  [WatchdogNext]_watchdogVars
    BY <1>5 DEF Packet, PacketLost
  <1>6. ASSUME NEW c \in Channels, PhoneSleeps(c) \/ Enqueue(c) \/ NeutralizeSlot(c) \/ CloseSweep(c)
        PROVE  UNCHANGED watchdogVars
    BY <1>6 DEF PhoneSleeps, Enqueue, NeutralizeSlot, CloseSweep
  <1>7. ASSUME NEW q \in Peers, PeerCallback(q) PROVE [WatchdogNext]_watchdogVars
    BY <1>7, PeerLeavesAlone
  <1>8. CASE UNCHANGED vars
    BY <1>8 DEF vars
  <1>. QED
    BY <1>1, <1>2, <1>3, <1>4, <1>5, <1>6, <1>7, <1>8 DEF Next, Callback

\* The pipeline drives the router as its specification allows.
THEOREM PathImplementsRouter == Spec => RouterSpec
  <1>1. Init => RouterInit
    BY DEF Init
  <1>2. PathTypes /\ [Next]_vars => [RouterNext]_routerVars
    BY StepOfRouter
  <1>. QED
    BY <1>1, <1>2, PathTypesInvariant, PTL DEF Spec, RouterSpec

\* And the watchdog.
THEOREM PathImplementsWatchdog == Spec => WatchdogSpec
  <1>1. Init => WatchdogInit
    BY DEF Init
  <1>. QED
    BY <1>1, StepOfWatchdog, PTL DEF Spec, WatchdogSpec

\* What the router remembers of a slot is what the slot's pad shows, also when the
\* events come from a queue and the neutralizations from callbacks and the monitor.
THEOREM PathRemembersShown == Spec => []LatestIsShown
  BY PathImplementsRouter, RememberedIsShown, PTL

\* So what an emergency of the pipeline leaves pressed was dispatched during its sweep.
THEOREM UndisturbedEmergencyReleases ==
  Spec => [](Starts(MonitorTask) /\ OnlyNeutralizing => [](Sweeping(MonitorTask) \/ NothingHeld))
  <1>. MonitorTask \in Threads
    BY ChannelsAssumption
  <1>1. RouterTypeOK /\ Starts(MonitorTask) => Releasing(MonitorTask)
    BY ReleasingBegins
  <1>2. Releasing(MonitorTask) /\ RouterTypeOK' /\ [\E u \in Threads : Neutralize(u)]_routerVars
          => Releasing(MonitorTask)'
    BY ReleasingGoesOn
  <1>3. Releasing(MonitorTask) => Sweeping(MonitorTask) \/ NothingHeld
    BY ReleasingEnds
  <1>. QED
    BY <1>1, <1>2, <1>3, PathImplementsRouter, TypeCorrect, PTL DEF OnlyNeutralizing

-----------------------------------------------------------------------------
(* Types *)

LEMMA StoreWatchdogType ==
  ASSUME WatchdogTypeOK, NEW c \in Callers, NEW from \in Calls, NEW to \in Calls,
         NEW fed \in BOOLEAN, NEW arming \in BOOLEAN, NEW clearing \in BOOLEAN,
         Store(c, from, to, fed, arming, clearing)
  PROVE  WatchdogTypeOK'
  BY TimeoutAssumption DEF Store, WatchdogTypeOK

LEMMA WatchdogTypeKept == ASSUME WatchdogTypeOK, [WatchdogNext]_watchdogVars PROVE WatchdogTypeOK'
  <1>1. CASE WatchdogTick
    BY <1>1, TimeoutAssumption DEF WatchdogTick, WatchdogTypeOK
  <1>2. CASE MonitorStep
    BY <1>2 DEF MonitorStep, SampleArmed, SampleFeed, Swap, Fired, WatchdogTypeOK
  <1>3. ASSUME NEW c \in Callers, Begin(c) \/ Finish(c) PROVE WatchdogTypeOK'
    <2>1. armed \in BOOLEAN
      BY DEF WatchdogTypeOK
    <2>2. CASE Begin(c)
      BY <2>1, <2>2, StoreWatchdogType DEF Begin, Feed, Arm, Disarm, Calls
    <2>3. CASE Finish(c)
      BY <2>1, <2>3, StoreWatchdogType
      DEF Finish, FeedClear, ArmClear, ArmSet, ArmDone, DisarmClear, Calls
    <2>. QED
      BY <1>3, <2>2, <2>3
  <1>4. CASE UNCHANGED watchdogVars
    BY <1>4 DEF watchdogVars, WatchdogTypeOK
  <1>. QED
    BY <1>1, <1>2, <1>3, <1>4 DEF WatchdogNext

LEMMA WatchdogTypeInvariant == WatchdogSpec => []WatchdogTypeOK
  <1>1. WatchdogInit => WatchdogTypeOK
    <2>1. 0 \in 0 .. Timeout + 1
      BY TimeoutAssumption
    <2>. QED
      BY <2>1, Zenon DEF WatchdogInit, WatchdogTypeOK, Calls
  <1>. QED
    BY <1>1, WatchdogTypeKept, PTL DEF WatchdogSpec

\* The pipeline's state has its types, the router's and the watchdog's included: in
\* particular the queue never holds more than QueueCap events, and only packets.
THEOREM PathTypeCorrect == Spec => []TypeOK
  <1>1. RouterTypeOK /\ WatchdogTypeOK /\ PathTypes => TypeOK
    BY DEF PathTypes, LifeStates, TypeOK
  <1>. QED
    BY <1>1, PathTypesInvariant, PathImplementsRouter, TypeCorrect, PathImplementsWatchdog,
       WatchdogTypeInvariant, PTL

-----------------------------------------------------------------------------
(* Pads of opened slots *)

\* A channel of slot s was opened, for a given history of the channels.
Opened(s, lives) == \E c \in Channels : SlotOf[c] = s /\ lives[c] # "new"

\* A report can reach a pad from the driver call in progress, from the queue and
\* from a packet being handled: all of them come from opened channels.
ReportsOfOpenedSlots ==
  /\ Routing => Opened(route.slot, life)
  /\ \A i \in 1 .. Len(queue) : queue[i].kind = "pad" => Opened(queue[i].slot, life)
  /\ \A c \in Channels : handling[c] # NoPacket => life[c] # "new"

PadIInv == ReportsOfOpenedSlots /\ PadsOfOpenedSlots

\* No channel becomes new again.
LEMMA OpenedStays ==
  ASSUME PathTypes, [Next]_vars
  PROVE  /\ \A c \in Channels : life[c] # "new" => life'[c] # "new"
         /\ \A s : Opened(s, life) => Opened(s, life')
  <1>1. \A c \in Channels : life[c] # "new" => life'[c] # "new"
    <2> USE DEF PathTypes, channelVars
    <2>1. CASE Tick \/ Monitor \/ Dispatcher
      BY <2>1 DEF Tick, Monitor, MonitorSample, MonitorSwap, MonitorSweep, MonitorFired,
                  Dispatcher, Dispatch, DispatchDriver
    <2>2. ASSUME NEW c \in Channels, Open(c) \/ Close(c) \/ NeutralizeSlot(c)
          PROVE  \A d \in Channels : life[d] # "new" => life'[d] # "new"
      BY <2>2 DEF Open, Close, NeutralizeSlot
    <2>3. ASSUME NEW c \in Channels,
                 \/ PhoneSleeps(c) \/ ContinueCall(c) \/ Enqueue(c) \/ CloseSweep(c)
                 \/ \E p \in Packets : Packet(c, p) \/ PacketLost(c, p)
          PROVE  UNCHANGED life
      BY <2>3 DEF PhoneSleeps, ContinueCall, Enqueue, CloseSweep, Packet, PacketLost
    <2>4. ASSUME NEW q \in Peers, PeerCallback(q) PROVE UNCHANGED life
      BY <2>4, PeerLeavesAlone
    <2>5. CASE UNCHANGED vars
      BY <2>5 DEF vars
    <2>. QED
      BY <2>1, <2>2, <2>3, <2>4, <2>5 DEF Next, Callback
  <1>. QED
    BY <1>1 DEF Opened

\* Nothing but the dispatcher's driver call makes a pad show something.
LEMMA PadKept ==
  ASSUME PathTypes, RouterTypeOK, [Next]_vars, ~WriteGamepad, NEW s \in Slots
  PROVE  pad'[s] \in {pad[s], Neutral}
  <1>1. [RouterNext]_routerVars
    BY StepOfRouter
  <1>2. ASSUME NEW t \in Threads, SweepStep(t) PROVE pad'[s] \in {pad[s], Neutral}
    BY <1>2 DEF SweepStep
  <1>3. ASSUME UNCHANGED pad PROVE pad'[s] \in {pad[s], Neutral}
    BY <1>3
  <1>. QED
    BY <1>1, <1>2, <1>3
    DEF RouterNext, Route, RouteGamepad, RouteTouchpad, RouteKeyboard, RouteMomentary, Neutralize,
        BeginNeutralize, BeginNeutralizeSlot, routerVars

\* Nothing but dispatching a queued report begins a driver call.
LEMMA RouteKept ==
  ASSUME PathTypes, [Next]_vars, Routing', ~Dispatch
  PROVE  route' = route
  <1>1. ASSUME WriteGamepad PROVE FALSE
    BY <1>1 DEF WriteGamepad, Routing
  <1>2. CASE Monitor
    BY <1>2 DEF Monitor, MonitorSample, MonitorSwap, MonitorSweep, MonitorFired, routerVars,
                BeginNeutralize, SweepStep
  <1>3. ASSUME NEW c \in Channels, NeutralizeSlot(c) \/ CloseSweep(c) PROVE route' = route
    BY <1>3 DEF NeutralizeSlot, CloseSweep, BeginNeutralizeSlot, SweepStep
  <1>4. ASSUME NEW c \in Channels,
               \/ PhoneSleeps(c) \/ Open(c) \/ Close(c)
               \/ ContinueCall(c) \/ Enqueue(c)
               \/ \E p \in Packets : Packet(c, p) \/ PacketLost(c, p)
        PROVE  route' = route
    BY <1>4 DEF PhoneSleeps, Open, Close, ContinueCall, Enqueue, Packet, PacketLost,
                routerVars
  <1>5. CASE Tick \/ UNCHANGED vars
    BY <1>5 DEF Tick, vars, routerVars
  <1>6. ASSUME NEW q \in Peers, PeerCallback(q) PROVE route' = route
    BY <1>6, PeerLeavesAlone DEF routerVars
  <1>. QED
    BY <1>1, <1>2, <1>3, <1>4, <1>5, <1>6 DEF Next, Dispatcher, DispatchDriver, Callback

LEMMA InitPadIInv == Init => PadIInv
  BY DEF Init, RouterInit, PadIInv, ReportsOfOpenedSlots, PadsOfOpenedSlots, Routing

\* The dispatcher takes the head of the queue, whose sender was opened.
LEMMA NextRouting ==
  ASSUME PathTypes, PadIInv, [Next]_vars, Routing'
  PROVE  Opened(route'.slot, life')
  <1>1. CASE Dispatch
    <2> DEFINE e == Head(queue)
    <2>1. e \in AllPackets /\ e = queue[1] /\ 1 \in 1 .. Len(queue)
      BY <1>1 DEF Dispatch, PathTypes
    <2>2. CASE e.kind = "pad"
      <3>1. RouteGamepad(e.slot, e.report)
        BY <1>1, <2>1, <2>2 DEF Dispatch, Routed
      <3>2. route'.slot = e.slot
        BY <3>1 DEF RouteGamepad
      <3>3. Opened(e.slot, life)
        BY <2>1, <2>2 DEF PadIInv, ReportsOfOpenedSlots
      <3>. QED
        BY <3>2, <3>3, OpenedStays
    <2>3. CASE e.kind # "pad"
      <3>1. RouteTouchpad(e.mask, e.tap) \/ RouteKeyboard(e.key, e.state) \/ RouteMomentary
        BY <1>1, <2>1, <2>3 DEF Dispatch, Routed, AllPackets
      <3>2. ~Routing'
        BY <3>1 DEF RouteTouchpad, RouteKeyboard, RouteMomentary, routerVars, Routing
      <3>. QED
        BY <3>2
    <2>. QED
      BY <2>2, <2>3
  <1>2. CASE ~Dispatch
    <2>1. route' = route /\ Routing
      BY <1>2, RouteKept DEF Routing
    <2>. QED
      BY <2>1, OpenedStays DEF PadIInv, ReportsOfOpenedSlots
  <1>. QED
    BY <1>1, <1>2

\* What is appended to the queue is labelled with the slot of an opened channel.
LEMMA NextQueue ==
  ASSUME PathTypes, PadIInv, [Next]_vars
  PROVE  \A i \in 1 .. Len(queue') : queue'[i].kind = "pad" => Opened(queue'[i].slot, life')
  <1> DEFINE Good(event) == event.kind = "pad" => Opened(event.slot, life)
  <1>1. \A i \in 1 .. Len(queue) : Good(queue[i])
    BY DEF PadIInv, ReportsOfOpenedSlots
  <1>2. SUFFICES \A i \in 1 .. Len(queue') : Good(queue'[i])
    BY OpenedStays
  <1>3. CASE Dispatch
    BY <1>1, <1>3 DEF Dispatch, PathTypes
  <1>4. ASSUME NEW c \in Channels, Enqueue(c) PROVE \A i \in 1 .. Len(queue') : Good(queue'[i])
    <2> DEFINE e == Event(c, handling[c])
    <2>1. handling[c] \in AllPackets /\ e \in AllPackets
      BY <1>4, EventType DEF Enqueue, PathTypes
    <2>2. life[c] # "new"
      BY <1>4 DEF Enqueue, PadIInv, ReportsOfOpenedSlots
    <2>3. e.kind = "pad" => e.slot = SlotOf[c]
      BY <2>1 DEF Event, AllPackets
    <2>4. Good(e)
      BY <2>2, <2>3 DEF Opened
    <2>5. queue' = queue \/ queue' = Append(queue, e)
      BY <1>4 DEF Enqueue
    <2> HIDE DEF e, Good
    <2>. QED
      BY <1>1, <2>1, <2>4, <2>5 DEF PathTypes
  <1>5. ASSUME UNCHANGED queue PROVE \A i \in 1 .. Len(queue') : Good(queue'[i])
    BY <1>1, <1>5
  <1>6. CASE Tick \/ Monitor \/ DispatchDriver \/ UNCHANGED vars
    BY <1>5, <1>6 DEF Tick, Monitor, MonitorSample, MonitorSwap, MonitorSweep, MonitorFired,
                      DispatchDriver, channelVars, vars
  <1>7. ASSUME NEW c \in Channels,
               \/ PhoneSleeps(c) \/ Open(c) \/ Close(c)
               \/ ContinueCall(c) \/ NeutralizeSlot(c) \/ CloseSweep(c)
               \/ \E p \in Packets : Packet(c, p) \/ PacketLost(c, p)
        PROVE  UNCHANGED queue
    BY <1>7 DEF PhoneSleeps, Open, Close, ContinueCall, NeutralizeSlot, CloseSweep,
                Packet, PacketLost, channelVars
  <1>8. ASSUME NEW q \in Peers, PeerCallback(q) PROVE UNCHANGED queue
    BY <1>8, PeerLeavesAlone
  <1>. QED
    BY <1>3, <1>4, <1>5, <1>6, <1>7, <1>8 DEF Next, Dispatcher, Callback

\* A packet is taken from an open channel.
LEMMA NextHandling ==
  ASSUME PathTypes, PadIInv, [Next]_vars
  PROVE  \A d \in Channels : handling'[d] # NoPacket => life'[d] # "new"
  <1>1. \A d \in Channels : handling[d] # NoPacket => life[d] # "new"
    BY DEF PadIInv, ReportsOfOpenedSlots
  <1>2. SUFFICES \A d \in Channels : handling'[d] # NoPacket => life[d] # "new"
    BY OpenedStays
  <1>3. ASSUME NEW c \in Channels, Enqueue(c) \/ \E p \in Packets : Packet(c, p)
        PROVE  \A d \in Channels : handling'[d] # NoPacket => life[d] # "new"
    BY <1>1, <1>3 DEF Enqueue, Packet, PathTypes
  <1>4. CASE Tick \/ Monitor \/ Dispatcher \/ UNCHANGED vars
    BY <1>1, <1>4 DEF Tick, Monitor, MonitorSample, MonitorSwap, MonitorSweep, MonitorFired,
                      Dispatcher, Dispatch, DispatchDriver, channelVars, vars
  <1>5. ASSUME NEW c \in Channels,
               \/ PhoneSleeps(c) \/ Open(c) \/ Close(c)
               \/ ContinueCall(c) \/ NeutralizeSlot(c) \/ CloseSweep(c)
               \/ \E p \in Packets : PacketLost(c, p)
        PROVE  UNCHANGED handling
    BY <1>5 DEF PhoneSleeps, Open, Close, ContinueCall, NeutralizeSlot, CloseSweep,
                PacketLost, channelVars
  <1>6. ASSUME NEW q \in Peers, PeerCallback(q) PROVE UNCHANGED handling
    BY <1>6, PeerLeavesAlone
  <1>. QED
    BY <1>1, <1>3, <1>4, <1>5, <1>6 DEF Next, Callback

LEMMA NextPads ==
  ASSUME PathTypes, RouterTypeOK, PadIInv, [Next]_vars
  PROVE  PadsOfOpenedSlots'
  <1>1. SUFFICES ASSUME NEW s \in Slots, pad'[s] # Neutral
                 PROVE  Opened(s, life')
    BY DEF PadsOfOpenedSlots, Opened
  <1>2. CASE WriteGamepad /\ route.slot = s
    BY <1>2, OpenedStays DEF WriteGamepad, PadIInv, ReportsOfOpenedSlots
  <1>3. CASE ~(WriteGamepad /\ route.slot = s)
    <2>1. pad'[s] \in {pad[s], Neutral}
      BY <1>3, PadKept DEF WriteGamepad, RouterTypeOK
    <2>2. Opened(s, life)
      BY <1>1, <2>1 DEF PadIInv, PadsOfOpenedSlots, Opened
    <2>. QED
      BY <2>2, OpenedStays
  <1>. QED
    BY <1>2, <1>3

\* A virtual gamepad shows something only if a channel of its own slot was opened, for
\* any number of players and packets and whatever slots the packets claim: the label
\* of handle_raw_slot_packet reaches the pad through the queue and the driver call.
THEOREM PadsOnlyOfOpenedSlots == Spec => []PadsOfOpenedSlots
  <1>1. PathTypes /\ RouterTypeOK /\ PadIInv /\ [Next]_vars => PadIInv'
    BY NextRouting, NextQueue, NextHandling, NextPads DEF PadIInv, ReportsOfOpenedSlots
  <1>2. PadIInv => PadsOfOpenedSlots
    BY DEF PadIInv
  <1>. QED
    BY <1>1, <1>2, InitPadIInv, PathTypesInvariant, PathImplementsRouter, TypeCorrect, PTL DEF Spec

-----------------------------------------------------------------------------
(* The armed watchdog *)

DataChannels == Channels \ Fallback

\* A channel that is open has armed the watchdog or is about to.
Arms(c) == armed \/ call[c] \in {"armClear", "armSet"}
OpenArms == NoneEnded => \A c \in DataChannels : life[c] = "open" => Arms(c)

\* Another task's store leaves a channel's arming alone, unless it disarms.
LEMMA ArmsKept ==
  ASSUME WatchdogTypeOK, NEW c \in Channels, NEW d \in Callers,
         Feed(d) \/ Arm(d) \/ Finish(d), Arms(c)
  PROVE  Arms(c)'
  <1>1. call \in [Callers -> Calls] /\ c \in Callers
    BY ChannelsAssumption DEF WatchdogTypeOK
  <1>2. CASE Feed(d) \/ Arm(d)
    BY <1>1, <1>2 DEF Arms, Feed, Arm, Store
  <1>3. CASE Finish(d)
    BY <1>1, <1>3 DEF Arms, Finish, FeedClear, ArmClear, ArmSet, ArmDone, DisarmClear, Store
  <1>. QED
    BY <1>2, <1>3

LEMMA NextOpenArms ==
  ASSUME TypeOK, OpenArms, [Next]_vars
  PROVE  OpenArms'
  <1>. SUFFICES ASSUME NoneEnded', NEW c \in DataChannels, life'[c] = "open"
                PROVE  Arms(c)'
    BY DEF OpenArms
  <1>. c \in Channels /\ life \in [Channels -> {"new", "open", "closing", "closed"}]
       /\ WatchdogTypeOK
    BY DEF TypeOK, DataChannels
  <1>. Channels \subseteq Callers /\ Peers \subseteq Callers
    BY ChannelsAssumption
  <1>. USE DEF channelVars, DataChannels
  <1>1. ASSUME NoneEnded, life[c] = "open" PROVE Arms(c)
    BY <1>1 DEF OpenArms
  <1>2. CASE UNCHANGED <<life, peer, armed, call>>
    BY <1>1, <1>2 DEF NoneEnded, Arms
  <1>3. CASE Tick \/ Monitor \/ Dispatcher \/ UNCHANGED vars
    BY <1>2, <1>3
    DEF Tick, WatchdogTick, Monitor, MonitorSample, SampleArmed, SampleFeed, MonitorSwap, Swap, MonitorSweep,
        MonitorFired, Fired, Dispatcher, Dispatch, DispatchDriver, watchdogVars, vars
  <1>4. ASSUME NEW d \in Channels,
               PhoneSleeps(d) \/ Enqueue(d) \/ CloseSweep(d) \/ \E p \in Packets : PacketLost(d, p)
        PROVE  Arms(c)'
    BY <1>2, <1>4 DEF PhoneSleeps, Enqueue, CloseSweep, PacketLost, watchdogVars
  <1>5. ASSUME NEW d \in Channels, Open(d) PROVE Arms(c)'
    <2>1. life' = [life EXCEPT ![d] = "open"] /\ life[d] = "new" /\ UNCHANGED peer
      BY <1>5 DEF Open
    <2>2. NoneEnded
      BY <2>1 DEF NoneEnded, DataChannels
    <2>3. CASE c = d
      <3>1. Arm(c)
        BY <1>5, <2>3 DEF Open, DataChannels
      <3>. QED
        BY <3>1, ChannelsAssumption DEF Arms, Arm, Store, WatchdogTypeOK
    <2>4. CASE c # d
      <3>1. life[c] = "open"
        BY <2>1, <2>4
      <3>2. CASE d \in Fallback
        BY <1>1, <1>5, <2>2, <3>1, <3>2 DEF Open, Arms, watchdogVars
      <3>3. CASE d \notin Fallback
        BY <1>1, <1>5, <2>2, <3>1, <3>3, ArmsKept DEF Open
      <3>. QED
        BY <3>2, <3>3
    <2>. QED
      BY <2>3, <2>4
  <1>6. ASSUME NEW d \in Channels, ContinueCall(d) \/ \E p \in Packets : Packet(d, p)
        PROVE  Arms(c)'
    <2>1. UNCHANGED <<life, peer>> /\ (Finish(d) \/ Feed(d))
      BY <1>6 DEF ContinueCall, Packet
    <2>. QED
      BY <1>1, <2>1, ArmsKept DEF NoneEnded
  <1>7. ASSUME NEW d \in Channels, Close(d) \/ NeutralizeSlot(d) PROVE Arms(c)'
    <2>1. CASE d \in DataChannels
      <3>1. life'[d] \notin {"new", "open"}
        BY <1>7, <2>1 DEF Close, NeutralizeSlot
      <3>. QED
        BY <2>1, <3>1 DEF NoneEnded
    <2>2. CASE d \notin DataChannels
      <3>1. UNCHANGED <<watchdogVars, peer>> /\ \A e \in DataChannels : life'[e] = life[e]
        BY <1>7, <2>2 DEF Close, NeutralizeSlot, DataChannels
      <3>. QED
        BY <1>1, <3>1 DEF NoneEnded, Arms, watchdogVars
    <2>. QED
      BY <2>1, <2>2
  <1>8. ASSUME NEW q \in Peers, PeerCallback(q) PROVE Arms(c)'
    <2>1. CASE UNCHANGED peer /\ Finish(q)
      <3>1. UNCHANGED life
        BY <1>8, PeerLeavesAlone
      <3>. QED
        BY <1>1, <2>1, <3>1, ArmsKept DEF NoneEnded
    <2>2. ASSUME NEW state \in {"failed", "closed"}, peer' = [peer EXCEPT ![q] = state]
          PROVE  Arms(c)'
      <3>1. peer'[q] # "up"
        BY <2>2 DEF TypeOK
      <3>. QED
        BY <3>1 DEF NoneEnded
    <2>. QED
      BY <1>8, <2>1, <2>2, PeerLeavesAlone
  <1>. QED
    BY <1>3, <1>4, <1>5, <1>6, <1>7, <1>8 DEF Next, Callback

\* With any number of players and peer connections, the watchdog stays armed for every
\* data channel that is open until the first data channel or peer connection ends:
\* sockets, packets, emergencies and the interleaved stores of feed and arm disarm nobody.
THEOREM StaysArmed == Spec => []ArmedUntilOneEnds
  <1>1. Init => OpenArms
    BY DEF Init, OpenArms, DataChannels
  <1>2. OpenArms => ArmedUntilOneEnds
    BY DEF OpenArms, Arms, ArmedUntilOneEnds, ArmedWhileStreaming, DataChannels
  <1>. QED
    BY <1>1, <1>2, NextOpenArms, PathTypeCorrect, PTL DEF Spec

=============================================================================
