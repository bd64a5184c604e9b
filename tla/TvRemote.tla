------------------------------- MODULE TvRemote -------------------------------
(***************************************************************************)
(* Which TV the commands go to.  The phone shows a TV and names a protocol *)
(* in each command; the host keeps a registry with a selected TV, and the  *)
(* dispatcher keeps the address it sends to.  Selecting goes by HTTP, the  *)
(* commands by the data channel.  A TV stands for its address here; the    *)
(* model leaves out a TV that changes it.                                  *)
(***************************************************************************)
CONSTANTS
  Tvs,       \* TVs that discovery may find
  Typed,     \* the TV whose address the user may type in
  Buttons    \* buttons of the remote in this instance

Unset == "unset"       \* nothing selected; the dispatcher's built-in address
Missing == "missing"   \* no TV shown

AllTvs == Tvs \cup {Typed}

\* What stands for no TV is none.
ASSUME TvAssumption == AllTvs \cap {Unset, Missing, "idle", "asked"} = {}

\* The buttons of the remote, by group.
Power == {"POWER"}
Sound == {"MUTE", "VOLUME_UP", "VOLUME_DOWN"}
Channel == {"CHANNEL_UP", "INFO", "CHANNEL_DOWN"}
Navigation == {"UP", "DOWN", "LEFT", "RIGHT", "OK_ENTER"}
System == {"BACK", "HOME"}
Apps == {"NETFLIX", "YOUTUBE", "PRIME_VIDEO"}
Digits == {"DIGIT"}

VARIABLES
  known,      \* the host's registry
  selected,   \* selected_device_id
  target,     \* the dispatcher's tv_ip
  joining,    \* select handlers that await connect_device
  remote,     \* the view is mounted
  posts,      \* selections on their way to the host
  typed,      \* the typed address is on its way to the host
  adding,     \* handleAddManualTv: the request whose answer it awaits
  fetch,      \* fetchCurrentTarget: "idle", "asked", or the TV the host answered
  list,       \* the selector's list
  shown,      \* the TV the phone shows
  reached     \* the TV the last command was sent to

tvHostVars == <<known, selected, target, joining>>
tvPhoneVars == <<remote, posts, typed, adding, fetch, list, shown>>
tvVars == <<tvHostVars, tvPhoneVars, reached>>

TvTypeOK ==
  /\ known \subseteq AllTvs /\ selected \in AllTvs \cup {Unset}
  /\ target \in AllTvs \cup {Unset} /\ joining \subseteq AllTvs
  /\ remote \in BOOLEAN /\ posts \subseteq AllTvs /\ typed \in BOOLEAN
  /\ adding \in {"no", "target", "select"}
  /\ fetch \in {"idle", "asked", Missing} \cup AllTvs
  /\ list \subseteq AllTvs /\ shown \in AllTvs \cup {Missing}
  /\ reached \in AllTvs \cup {Unset}

TvInit ==
  /\ known = {} /\ selected = Unset /\ target = Unset /\ joining = {}
  /\ remote = FALSE /\ posts = {} /\ typed = FALSE /\ adding = "no" /\ fetch = "idle"
  /\ list = {} /\ shown = Missing /\ reached = Unset

\* No request about TVs is under way.
Quiet == joining = {} /\ posts = {} /\ ~typed /\ adding = "no" /\ fetch = "idle"

-----------------------------------------------------------------------------
(* The host *)

\* upsert_device and prune_stale: discovery adds TVs and forgets the silent ones, the
\* typed one and the selected one included.
Discover(found, pruned) ==
  /\ known' = (known \cup found) \ pruned
  /\ UNCHANGED <<selected, target, joining, tvPhoneVars, reached>>

\* get_selected_device, and fetchCurrentTarget: without one that is known, any device.
Current ==
  CASE selected \in known -> {selected}
    [] selected \notin known /\ known # {} -> known
    [] OTHER -> {Missing}

\* api_v1_tv_select_handler, up to connect_device; an unknown device is refused.
Arrive(tv) ==
  /\ tv \in posts
  /\ posts' = posts \ {tv}
  /\ IF tv \in known THEN selected' = tv /\ joining' = joining \cup {tv}
                     ELSE UNCHANGED <<selected, joining>>
  /\ UNCHANGED <<known, target, remote, typed, adding, fetch, list, shown, reached>>

\* set_tv_target_handler, up to connect_device: the TV is registered and selected.
ArriveTyped ==
  /\ typed /\ typed' = FALSE
  /\ known' = known \cup {Typed} /\ selected' = Typed /\ joining' = joining \cup {Typed}
  /\ UNCHANGED <<target, remote, posts, adding, fetch, list, shown, reached>>

\* Either of them from connect_device on: the dispatcher gets the address, last come
\* last served.
Joined(tv) ==
  /\ tv \in joining
  /\ joining' = joining \ {tv}
  /\ target' = tv
  /\ UNCHANGED <<known, selected, tvPhoneVars, reached>>

\* A request that does not reach the host: the phone ignores the error.
Lost ==
  /\ \/ typed /\ typed' = FALSE /\ UNCHANGED posts
     \/ \E tv \in posts : posts' = posts \ {tv} /\ UNCHANGED typed
  /\ UNCHANGED <<tvHostVars, remote, adding, fetch, list, shown, reached>>

-----------------------------------------------------------------------------
(* The phone *)

\* The view is mounted, and asks which TV is the current one.
TvMount ==
  /\ remote' = TRUE /\ shown' = Missing /\ fetch' = "asked" /\ list' = {}
  /\ UNCHANGED <<posts, typed, adding, tvHostVars, reached>>

\* Requests that are under way stay so, and handleAddManualTv goes on.
TvUnmount ==
  /\ remote' = FALSE /\ shown' = Missing /\ fetch' = "idle" /\ list' = {}
  /\ UNCHANGED <<posts, typed, adding, tvHostVars, reached>>

\* api_v1_tv_devices_handler, for fetchCurrentTarget.
Answer ==
  /\ fetch = "asked"
  /\ fetch' \in Current
  /\ UNCHANGED <<tvHostVars, remote, posts, typed, adding, list, shown, reached>>

\* The answer is shown whatever the user has picked meanwhile; a failed request
\* shows no TV.
Shown(failed) ==
  /\ IF failed THEN fetch # "idle" /\ shown' = Missing
     ELSE fetch \notin {"idle", "asked"} /\ shown' = fetch
  /\ fetch' = "idle"
  /\ UNCHANGED <<remote, tvHostVars, posts, typed, adding, list, reached>>

\* fetchDevices when the selector opens, and triggerScan.
Refresh ==
  /\ remote
  /\ list' = known
  /\ UNCHANGED <<tvHostVars, remote, posts, typed, adding, fetch, shown, reached>>

\* handleDeviceSelected, for a device of the list: shown at once, and posted.
Pick(tv) ==
  /\ tv \in list
  /\ shown' = tv /\ posts' = posts \cup {tv}
  /\ UNCHANGED <<tvHostVars, remote, typed, adding, fetch, list, reached>>

\* handleAddManualTv posts the address ...
AddManual ==
  /\ remote /\ adding = "no"
  /\ adding' = "target" /\ typed' = TRUE
  /\ UNCHANGED <<tvHostVars, remote, posts, fetch, list, shown, reached>>

\* ... once that is answered, or has failed, a selection ...
Added ==
  /\ adding = "target" /\ adding' = "select"
  /\ posts' = posts \cup {Typed}
  /\ UNCHANGED <<tvHostVars, remote, typed, fetch, list, shown, reached>>

\* ... and then makes the choice itself, which is posted once more.
ManualChosen ==
  /\ adding = "select" /\ adding' = "no"
  /\ shown' = (IF remote THEN Typed ELSE shown)
  /\ posts' = posts \cup {Typed}
  /\ UNCHANGED <<tvHostVars, remote, typed, fetch, list, reached>>

\* sendTvCmd, handleSendText and the voice input: packets on the data channel, which
\* TvCommandService throttles in name only.  dispatch_command sends to tv_ip.
Command(button) ==
  /\ remote
  /\ \/ button \in Power \cup Sound \cup Channel \cup Navigation \cup System
     \/ button \in Apps \cup Digits \cup {"TEXT"}
  /\ reached' = target
  /\ UNCHANGED <<tvHostVars, tvPhoneVars>>

TvHostStep ==
  \/ \E found, pruned \in SUBSET AllTvs :
       found \subseteq Tvs /\ found \cap pruned = {} /\ Discover(found, pruned)
  \/ \E tv \in AllTvs : Arrive(tv) \/ Joined(tv)
  \/ ArriveTyped \/ Lost

TvPhoneStep ==
  \/ Answer \/ Refresh \/ AddManual \/ Added \/ ManualChosen
  \/ \E failed \in BOOLEAN : Shown(failed)
  \/ \E tv \in AllTvs : Pick(tv)
  \/ \E button \in Buttons : Command(button)

-----------------------------------------------------------------------------

\* A command given while no selection is being made reaches the TV that the host calls
\* the selected one.  The code violates this: of two selections that overlap, the
\* registry keeps the one that began last and the dispatcher the one that ended last.
CommandsReachSelected ==
  [][joining = {} /\ reached' # reached => reached' = selected]_tvVars
=============================================================================
