----------------------------- MODULE MediaRemote -----------------------------
(***************************************************************************)
(* The media deck: buttons that send one action, and two volume buttons    *)
(* that repeat theirs while they are held (first after 300 ms, then every  *)
(* 100 ms) from one timer that both share.                                 *)
(***************************************************************************)
VARIABLES
  volume,   \* volume buttons under a finger
  repeat,   \* the action repeatTimerRef repeats, or "none"
  sent      \* the last action sent, for the properties

mediaVars == <<volume, repeat, sent>>

VolumeActions == {"VOL_UP", "VOL_DOWN"}
Clicks == {"PREV", "PLAY_PAUSE", "NEXT", "STOP", "MUTE"}

MediaTypeOK ==
  /\ volume \subseteq VolumeActions
  /\ repeat \in VolumeActions \cup {"none"}
  /\ sent \in VolumeActions \cup {"none", "click"}

MediaInit == volume = {} /\ repeat = "none" /\ sent = "none"

\* sendMediaAction from a button without repeat.
MediaClick(action) ==
  /\ action \in Clicks
  /\ sent' = "click"
  /\ UNCHANGED <<volume, repeat>>

\* startHoldRepeat replaces the timer of the other button.
HoldVolume(action) ==
  /\ action \notin volume
  /\ volume' = volume \cup {action}
  /\ repeat' = action
  /\ sent' = action

\* Mutant: releasing a button spares the timer of the other one.
ReleaseOther(action) ==
  /\ action \in volume
  /\ volume' = volume \ {action}
  /\ repeat' = IF repeat = action /\ volume' # {} THEN repeat ELSE "none"
  /\ UNCHANGED sent

\* stopHoldRepeat, on up and on cancel, whichever button's timer it is.
ReleaseVolume(action) ==
  /\ action \in volume
  /\ volume' = volume \ {action}
  /\ repeat' = "none"
  /\ UNCHANGED sent

RepeatVolume ==
  /\ repeat # "none"
  /\ sent' = repeat
  /\ UNCHANGED <<volume, repeat>>

MediaStep ==
  \/ \E action \in Clicks : MediaClick(action)
  \/ \E action \in VolumeActions : HoldVolume(action) \/ ReleaseVolume(action)
  \/ RepeatVolume

\* The cleanup stops the timer.
MediaUnmount == volume' = {} /\ repeat' = "none" /\ sent' = "none"

\* The volume goes on changing only while the finger that changes it is there, with
\* both buttons held in turn too.
RepeatIsHeld == repeat # "none" => repeat \in volume
=============================================================================
