----------------------------- MODULE MCInputPath -----------------------------
(* Small instances of the input pipeline: one or two players and a peer
   connection. *)
EXTENDS InputPath, TLC

CONSTANTS c1, c2, Held, k1

MCReports == {Neutral, Held}
MCButtons == {Left}
TwoSlots == c1 :> 0 @@ c2 :> 1
OneSlot == c1 :> 0

\* Every player claims slot 0, as the client does.
PadPresses == [kind : {"pad"}, slot : {0}, report : {Held}]
KeyPackets == [kind : {"key"}, key : {k1}, state : {"down", "up"}]
Heartbeats == {[kind |-> "heartbeat"]}

\* What presses something, and nothing that releases it: that is left to the host.
Presses == PadPresses \cup [kind : {"key"}, key : {k1}, state : {"down"}]
PressesAndHeartbeats == PadPresses \cup Heartbeats
Resets == {[kind |-> "reset"]}
KeysAndResets == KeyPackets \cup Heartbeats \cup Resets
=============================================================================
