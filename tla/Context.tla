------------------------------- MODULE Context -------------------------------
(***************************************************************************)
(* Smart Context: the watcher polls the foreground window, debounces it    *)
(* and lets the arbitrator choose the control mode; phones and the tray    *)
(* override it, the watchdog raises the emergency, and a change found by   *)
(* the poll is sent over the one data channel the watcher knows.           *)
(***************************************************************************)
EXTENDS Naturals

CONSTANTS
  Windows,    \* foreground windows
  Modes,      \* TargetControlMode
  PhoneModes, \* TargetMode of the web client: the host's modes and some of its own
  Match,      \* ProfileMatcher: the mode of a window's profile, or None
  TrayModes,  \* the modes the tray can force, Gamepad and Trackpad
  Default,    \* default_mode of the configuration
  Debounce,   \* debounce_ms, in ticks
  Channels,   \* data channels, each opened once
  Lossy,      \* whether mode switches may get lost on the channels
  None

ASSUME ModesAssumption ==
  Default \in Modes /\ TrayModes \subseteq Modes /\ Modes \subseteq PhoneModes /\ None \notin PhoneModes \cup Windows
ASSUME LossyAssumption == Lossy \in BOOLEAN
ASSUME MatchAssumption == Match \in [Windows -> Modes \cup {None}]
ASSUME DebounceAssumption == Debounce \in Nat

VARIABLES
  arbitrator,  \* ContextArbitrator: emergency, manual override, mode, source
  holder,      \* who holds the arbitrator's lock between steps
  foreground,  \* the window the OS has in front
  debounce,    \* WatcherDebounceState: confirmed and candidate window, its age
  poll,        \* poll_step: "asleep", "confirmed" (to evaluate) or "sending"
  packet,      \* the mode of the MSG_MODE_SWITCH being sent, or None
  asked,       \* a phone's mode switch that waits for the dispatcher
  phone,       \* per channel, the mode its phone switched to last, None before
  life,        \* per channel: "new", "open", "closed"
  spawned,     \* set_data_channel tasks that have not run yet
  attached     \* active_data_channel

vars == <<arbitrator, holder, foreground, debounce, poll, packet, asked, phone, life, spawned, attached>>
windowVars == <<foreground, debounce>>
channelVars == <<life, spawned, attached>>

Sources == {"emergency", "manual", "profile", "default"}

TypeOK ==
  /\ arbitrator \in [emergency : BOOLEAN, manual : Modes \cup {None}, locked : BOOLEAN,
                     mode : Modes, source : Sources]
  /\ holder \in {"nobody", "poll", "dispatcher"}
  /\ foreground \in Windows
  /\ debounce \in [confirmed : Windows \cup {None}, candidate : Windows \cup {None},
                   since : 0 .. Debounce]
  /\ poll \in {"asleep", "confirmed", "sending"}
  /\ packet \in Modes \cup {None}
  /\ asked \in PhoneModes \cup {None}
  /\ phone \in [Channels -> PhoneModes \cup {None}]
  /\ life \in [Channels -> {"new", "open", "closed"}]
  /\ spawned \subseteq [channel : Channels, attach : BOOLEAN]
  /\ attached \in Channels \cup {None}

Init ==
  /\ arbitrator = [emergency |-> FALSE, manual |-> None, locked |-> FALSE,
                   mode |-> Default, source |-> "default"]
  /\ holder = "nobody"
  /\ foreground \in Windows
  /\ debounce = [confirmed |-> None, candidate |-> None, since |-> 0]
  /\ poll = "asleep"
  /\ packet = None
  /\ asked = None
  /\ phone = [c \in Channels |-> None]
  /\ life = [c \in Channels |-> "new"]
  /\ spawned = {}
  /\ attached = None

-----------------------------------------------------------------------------
(* ContextArbitrator *)

MatchOf(w) == IF w \in Windows THEN Match[w] ELSE None

\* evaluate: emergency, then a locked manual override, then the profile.
Evaluate(a, matched) ==
  CASE a.emergency -> [a EXCEPT !.mode = Default, !.source = "emergency"]
    [] ~a.emergency /\ a.locked /\ a.manual # None ->
         [a EXCEPT !.mode = a.manual, !.source = "manual"]
    [] ~a.emergency /\ ~(a.locked /\ a.manual # None) /\ matched # None ->
         [a EXCEPT !.mode = matched, !.source = "profile"]
    [] OTHER -> [a EXCEPT !.mode = Default, !.source = "default"]

\* mode_changed: also set when the emergency begins without changing the mode.
ModeChanged(a, b) ==
  \/ a.mode # b.mode
  \/ b.source = "emergency" /\ a.source # "emergency"

\* Mutant: the override waits for the next poll to be evaluated.
OverrideLater(mode, locked, seen) == [arbitrator EXCEPT !.manual = mode, !.locked = locked]

\* set_manual_override followed by evaluate on the window seen in front.
Override(mode, locked, seen) ==
  Evaluate([arbitrator EXCEPT !.manual = mode, !.locked = locked], MatchOf(seen))

\* What the window detector answers: the window in front, or nothing when it fails.
Seen == {foreground, None}

-----------------------------------------------------------------------------
(* The watcher's loop *)

WindowChanges(w) ==
  /\ w # foreground
  /\ foreground' = w
  /\ UNCHANGED <<arbitrator, holder, debounce, poll, packet, asked, phone, channelVars>>

Tick ==
  /\ debounce.candidate # None
  /\ debounce.since < Debounce
  /\ debounce' = [debounce EXCEPT !.since = @ + 1]
  /\ UNCHANGED <<arbitrator, holder, foreground, poll, packet, asked, phone, channelVars>>

\* Mutant: the debounce starts over on every poll that sees the candidate again.
PollRestarts ==
  /\ poll = "asleep"
  /\ foreground # debounce.confirmed
  /\ debounce' = [debounce EXCEPT !.candidate = foreground, !.since = 0]
  /\ UNCHANGED <<arbitrator, holder, foreground, poll, packet, asked, phone, channelVars>>

\* A new window becomes the candidate; the poll ends there.
PollNewCandidate ==
  /\ poll = "asleep"
  /\ foreground \notin {debounce.confirmed, debounce.candidate}
  /\ debounce' = [debounce EXCEPT !.candidate = foreground, !.since = 0]
  /\ UNCHANGED <<arbitrator, holder, foreground, poll, packet, asked, phone, channelVars>>

\* A poll whose detector fails or whose candidate is still too young does nothing.
\* The candidate has been in front for the debounce period, or the confirmed
\* window is: a candidate that did not last is forgotten.
PollConfirms ==
  /\ poll = "asleep"
  /\ \/ foreground = debounce.confirmed
     \/ foreground = debounce.candidate /\ debounce.since >= Debounce
  /\ debounce' = [debounce EXCEPT !.confirmed = foreground, !.candidate = None, !.since = 0]
  /\ poll' = "confirmed"
  /\ UNCHANGED <<arbitrator, holder, foreground, packet, asked, phone, channelVars>>

\* Mutant: the lock is released before the change is sent.
PollEvaluatesUnlocked ==
  LET after == Evaluate(arbitrator, MatchOf(debounce.confirmed))
  IN /\ poll = "confirmed"
     /\ holder = "nobody"
     /\ arbitrator' = after
     /\ IF ModeChanged(arbitrator, after)
        THEN poll' = "sending" /\ packet' = after.mode
        ELSE poll' = "asleep" /\ UNCHANGED packet
     /\ UNCHANGED <<holder, windowVars, asked, phone, channelVars>>

\* Under the arbitrator's lock, which is kept while a change is being sent.
PollEvaluates ==
  LET after == Evaluate(arbitrator, MatchOf(debounce.confirmed))
  IN /\ poll = "confirmed"
     /\ holder = "nobody"
     /\ arbitrator' = after
     /\ IF ModeChanged(arbitrator, after)
        THEN poll' = "sending" /\ holder' = "poll" /\ packet' = after.mode
        ELSE poll' = "asleep" /\ UNCHANGED <<holder, packet>>
     /\ UNCHANGED <<windowVars, asked, phone, channelVars>>

\* MSG_MODE_SWITCH goes to the attached channel, where it may get lost.
PollSends ==
  /\ poll = "sending"
  /\ \/ phone' = [c \in Channels |-> IF c = attached /\ life[c] = "open"
                                     THEN packet ELSE phone[c]]
     \/ Lossy /\ UNCHANGED phone
  /\ poll' = "asleep"
  /\ holder' = "nobody"
  /\ packet' = None
  /\ UNCHANGED <<arbitrator, windowVars, asked, channelVars>>

Poll == PollNewCandidate \/ PollConfirms \/ PollEvaluates \/ PollSends

-----------------------------------------------------------------------------
(* Phones, tray and watchdog *)

\* selectMode on a phone: every caller asks for a manual override, which locks.
PhoneSelects(c, mode) ==
  /\ life[c] = "open"
  /\ asked = None
  /\ phone' = [phone EXCEPT ![c] = mode]
  /\ \/ asked' = mode
     \/ Lossy /\ UNCHANGED asked
  /\ UNCHANGED <<arbitrator, holder, windowVars, poll, packet, channelVars>>

\* handle_client_mode_switch: the lock, the override (a mode the host does not know
\* is no override) and the evaluation; its result, mode_changed included, is dropped.
DispatchSwitch ==
  /\ asked # None
  /\ holder = "nobody"
  /\ \E seen \in Seen :
       arbitrator' = IF asked \in Modes
                     THEN Override(asked, TRUE, seen)
                     ELSE Evaluate(arbitrator, MatchOf(seen))
  /\ asked' = None
  /\ holder' = "dispatcher"
  /\ UNCHANGED <<windowVars, poll, packet, phone, channelVars>>

DispatchDone ==
  /\ holder = "dispatcher"
  /\ holder' = "nobody"
  /\ UNCHANGED <<arbitrator, windowVars, poll, packet, asked, phone, channelVars>>

\* The tray's "force" entries lock a mode; "auto" leaves an unlocked override, whose
\* mode nobody looks at.
TraySwitch(mode, locked) ==
  /\ holder = "nobody"
  /\ \E seen \in Seen : arbitrator' = Override(mode, locked, seen)
  /\ UNCHANGED <<holder, windowVars, poll, packet, asked, phone, channelVars>>

\* on_emergency: try_lock, so the flag is lost when the lock is taken.
RaiseEmergency ==
  /\ arbitrator' = [arbitrator EXCEPT !.emergency = @ \/ holder = "nobody"]
  /\ UNCHANGED <<holder, windowVars, poll, packet, asked, phone, channelVars>>

-----------------------------------------------------------------------------
(* set_data_channel spawns a task for each call: they run in any order *)

ChannelOpens(c) ==
  /\ life[c] = "new"
  /\ life' = [life EXCEPT ![c] = "open"]
  /\ spawned' = spawned \cup {[channel |-> c, attach |-> TRUE]}
  /\ UNCHANGED <<arbitrator, holder, windowVars, poll, packet, asked, phone, attached>>

ChannelCloses(c) ==
  /\ life[c] = "open"
  /\ life' = [life EXCEPT ![c] = "closed"]
  /\ spawned' = spawned \cup {[channel |-> c, attach |-> FALSE]}
  /\ UNCHANGED <<arbitrator, holder, windowVars, poll, packet, asked, phone, attached>>

SpawnedRuns(task) ==
  /\ task \in spawned
  /\ attached' = IF task.attach THEN task.channel ELSE None
  /\ spawned' = spawned \ {task}
  /\ UNCHANGED <<arbitrator, holder, windowVars, poll, packet, asked, phone, life>>

-----------------------------------------------------------------------------

Dispatch == DispatchSwitch \/ DispatchDone

Next ==
  \/ \E w \in Windows : WindowChanges(w)
  \/ Tick
  \/ Poll
  \/ \E c \in Channels :
       \/ \E mode \in PhoneModes : PhoneSelects(c, mode)
       \/ ChannelOpens(c)
       \/ ChannelCloses(c)
  \/ Dispatch
  \/ \E mode \in TrayModes, locked \in BOOLEAN : TraySwitch(mode, locked)
  \/ RaiseEmergency
  \/ \E task \in spawned : SpawnedRuns(task)

Spec == Init /\ [][Next]_vars

\* The watcher's loop, whose detector does not fail for ever, the dispatcher and the spawned tasks go on.  The poll's
\* sleep is bounded, the lock is always released, and it is fair: a poll that
\* keeps finding it free at times gets it.
FairSpec ==
  /\ Spec
  /\ WF_vars(Tick)
  /\ WF_vars(PollNewCandidate \/ PollConfirms)
  /\ SF_vars(PollEvaluates)
  /\ WF_vars(PollSends)
  /\ WF_vars(Dispatch)
  /\ \A c \in Channels, attach \in BOOLEAN :
       WF_vars(SpawnedRuns([channel |-> c, attach |-> attach]))

-----------------------------------------------------------------------------
(* Properties *)

Wanted(w) == IF Match[w] = None THEN Default ELSE Match[w]

\* A window that stays in front gets its mode, unless an emergency was raised or an
\* override is locked: no debounce, no override that has ended and no poll in progress
\* holds on to an older window's mode, and what a blind evaluation takes away comes back.
ForegroundWins ==
  \A w \in Windows :
    <>[](foreground = w /\ ~arbitrator.emergency /\ ~arbitrator.locked)
      => []<>(arbitrator.mode = Wanted(w))

\* ROADMAP: Emergency > Manual > Profile > Default.  Whatever tray, phones and poll
\* do in between, the mode in force is the locked one unless the emergency rules,
\* and the default one while it does: no override is set without being evaluated,
\* and no poll that started earlier overwrites it.
PriorityHeld ==
  /\ arbitrator.locked /\ arbitrator.source # "emergency"
       => arbitrator.source = "manual" /\ arbitrator.mode = arbitrator.manual
  /\ arbitrator.source = "emergency" => arbitrator.emergency /\ arbitrator.mode = Default

\* The mode switch on its way to a phone announces the mode in force: nobody changes
\* the mode between the poll's decision and the end of the send.
AnnouncedIsInForce == packet # None => packet = arbitrator.mode

\* FAILURE_RECOVERY section 1: after an emergency control returns to normal.
EmergencyEnds == arbitrator.emergency ~> ~arbitrator.emergency

\* ROADMAP: bidirectional MSG_MODE_SWITCH.  A phone that stays connected on the
\* attached channel ends up in the mode the host has settled on.
PhoneFollowsHost ==
  \A c \in Channels, mode \in Modes :
    <>[](life[c] = "open" /\ attached = c /\ arbitrator.mode = mode /\ ~arbitrator.emergency)
      => <>[](phone[c] = mode)

\* watcher.rs: the watcher broadcasts over an active data channel.  Once no task is
\* pending, a lone open channel is the attached one.
LoneChannelAttached ==
  \A c \in Channels :
    spawned = {} /\ life[c] = "open" /\ (\A d \in Channels \ {c} : life[d] # "open")
      => attached = c

=============================================================================
