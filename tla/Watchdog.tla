------------------------------- MODULE Watchdog -------------------------------
(***************************************************************************)
(* The dead-man switch of the host daemon.  One instance serves every      *)
(* player: the data channel callbacks feed, arm and disarm it while its    *)
(* monitor task samples it periodically.  Its state is atomics without a   *)
(* lock, so every store and the monitor's loads and its swap are steps of  *)
(* their own and interleave.                                               *)
(***************************************************************************)
EXTENDS Naturals

CONSTANTS
  Callers,   \* tasks that run feed, arm or disarm
  Timeout    \* watchdog_timeout_ms, in ticks

ASSUME TimeoutAssumption == Timeout \in Nat \ {0}

VARIABLES
  elapsed,    \* time since last_feed_micros, saturating just past Timeout
  armed,
  triggered,
  call,       \* per caller, the next store of the call it is in
  monitor     \* the monitor task: "asleep", "armed" and "stale" (what it has
              \* loaded so far in this tick), "firing"

watchdogVars == <<elapsed, armed, triggered, call, monitor>>

Stale == elapsed > Timeout

Calls == {"idle", "feedClear", "armClear", "armSet", "armDone", "disarmClear"}

WatchdogTypeOK ==
  /\ elapsed \in 0 .. Timeout + 1
  /\ armed \in BOOLEAN
  /\ triggered \in BOOLEAN
  /\ call \in [Callers -> Calls]
  /\ monitor \in {"asleep", "armed", "stale", "firing"}

WatchdogInit ==
  /\ elapsed = 0
  /\ armed = FALSE
  /\ triggered = FALSE
  /\ call = [c \in Callers |-> "idle"]
  /\ monitor = "asleep"

\* Time passes.  Only elapsed > timeout is ever asked, so one tick past the
\* timeout stands for every longer silence.
WatchdogTick ==
  /\ elapsed <= Timeout
  /\ elapsed' = elapsed + 1
  /\ UNCHANGED <<armed, triggered, call, monitor>>

-----------------------------------------------------------------------------
(* feed, arm and disarm, one store at a time *)

\* c performs one store and moves on inside its call.
Store(c, from, to, fed, arming, clearing) ==
  /\ call[c] = from
  /\ call' = [call EXCEPT ![c] = to]
  /\ elapsed' = IF fed THEN 0 ELSE elapsed
  /\ armed' = arming
  /\ triggered' = (triggered /\ ~clearing)
  /\ UNCHANGED monitor

\* feed: last_feed_micros, then triggered.
Feed(c) == Store(c, "idle", "feedClear", TRUE, armed, FALSE)
FeedClear(c) == Store(c, "feedClear", "idle", FALSE, armed, TRUE)

\* arm: a whole feed, then armed, then triggered once more.
Arm(c) == Store(c, "idle", "armClear", TRUE, armed, FALSE)
ArmClear(c) == Store(c, "armClear", "armSet", FALSE, armed, TRUE)
ArmSet(c) == Store(c, "armSet", "armDone", FALSE, TRUE, FALSE)
\* Mutant: arm leaves the flag to the feed it began with.
ArmDoneUncleared(c) == Store(c, "armDone", "idle", FALSE, armed, FALSE)
ArmDone(c) == Store(c, "armDone", "idle", FALSE, armed, TRUE)

\* disarm: armed, then triggered.
Disarm(c) == Store(c, "idle", "disarmClear", FALSE, FALSE, FALSE)
DisarmClear(c) == Store(c, "disarmClear", "idle", FALSE, armed, TRUE)

\* The stores that complete a call already begun.
Finish(c) == FeedClear(c) \/ ArmClear(c) \/ ArmSet(c) \/ ArmDone(c) \/ DisarmClear(c)

-----------------------------------------------------------------------------
(* The monitor task *)

\* armed is loaded; a tick that finds the watchdog disarmed changes nothing.
SampleArmed ==
  /\ monitor = "asleep"
  /\ armed
  /\ monitor' = "armed"
  /\ UNCHANGED <<elapsed, armed, triggered, call>>

\* The clock, then last_feed_micros.  A feed between the two makes the difference
\* saturate at zero, as if both had been loaded after it.
SampleFeed ==
  /\ monitor = "armed"
  /\ monitor' = IF Stale THEN "stale" ELSE "asleep"
  /\ UNCHANGED <<elapsed, armed, triggered, call>>

\* triggered.swap(true): fire only if it was clear.
Swap ==
  /\ monitor = "stale"
  /\ triggered' = TRUE
  /\ monitor' = IF triggered THEN "asleep" ELSE "firing"
  /\ UNCHANGED <<elapsed, armed, call>>

\* on_emergency returns.
Fired ==
  /\ monitor = "firing"
  /\ monitor' = "asleep"
  /\ UNCHANGED <<elapsed, armed, triggered, call>>

MonitorStep == SampleArmed \/ SampleFeed \/ Swap \/ Fired

Begin(c) == Feed(c) \/ Arm(c) \/ Disarm(c)

WatchdogNext == WatchdogTick \/ MonitorStep \/ \E c \in Callers : Begin(c) \/ Finish(c)

WatchdogSpec == WatchdogInit /\ [][WatchdogNext]_watchdogVars

\* Time goes on, the monitor's interval keeps ticking and a call, once begun, is
\* straight-line code.  No caller has to call.
WatchdogFairness ==
  /\ WF_watchdogVars(WatchdogTick)
  /\ WF_watchdogVars(MonitorStep)
  /\ \A c \in Callers : WF_watchdogVars(Finish(c))

WatchdogFairSpec == WatchdogSpec /\ WatchdogFairness

-----------------------------------------------------------------------------
(* Properties *)

\* Every feed and every arm of an armed watchdog takes the flag down in time for
\* the monitor to fire again, whatever other callers and the monitor do between
\* its stores: after it the emergency fires, unless the watchdog is disarmed or
\* fed again and again.  The firing may still be the one of the silence before
\* the feed: see EverySilenceFires.
SilenceFires ==
  \A c \in Callers :
    []((armed /\ call[c] \in {"feedClear", "armDone"})
         => (<>(monitor = "firing" \/ ~armed) \/ []<>~Stale))

\* watchdog_tests.rs: the emergency is released exactly once per stale cycle.  So
\* an armed watchdog that has been fed, with no call and no firing in progress,
\* fires once the silence that follows is stale, unless somebody calls.  A feed
\* between the monitor's sample and its swap loses that firing.
EverySilenceFires ==
  (armed /\ ~Stale /\ monitor = "asleep" /\ \A c \in Callers : call[c] = "idle")
    ~> (monitor = "firing" \/ \E c \in Callers : call[c] # "idle")

\* FAILURE_RECOVERY section 2: a valid packet resumes normal control.  Between
\* calls, a fed and armed watchdog does not believe it is in an emergency.
FedIsNotTriggered ==
  armed /\ ~Stale /\ monitor = "asleep" /\ (\A c \in Callers : call[c] = "idle")
    => ~triggered

=============================================================================
