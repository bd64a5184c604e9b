-------------------------------- MODULE Network --------------------------------
(***************************************************************************)
(* The web client from its pairing screen to the TV remote, the view App   *)
(* shows first: the remote is there while the connection is, and its       *)
(* requests outlive both.                                                  *)
(***************************************************************************)
EXTENDS PairingClient, TvRemote

vars == <<clientVars, tvVars>>

TypeOK == ClientTypeOK /\ TvTypeOK

Init == ClientInit /\ TvInit

\* The connection takes the remote away, and brings a new one.
Client ==
  /\ ClientStep
  /\ CASE remote /\ conn' # "connected" -> TvUnmount
       [] ~remote /\ conn' = "connected" -> TvMount
       [] OTHER -> UNCHANGED tvVars

Leave == remote /\ TvUnmount /\ UNCHANGED clientVars
Enter == conn = "connected" /\ ~remote /\ TvMount /\ UNCHANGED clientVars

Tv == (TvHostStep \/ TvPhoneStep) /\ UNCHANGED clientVars

Step == Client \/ Leave \/ Enter \/ Tv

UnboundedSpec == Init /\ [][Step]_vars

\* Bound: the requests about TVs and those of the pairing screen are not under way
\* at once, the former begin over the first attempt, and once TVs are known only the
\* client's steps that change the connection are explored; the sides share no more.
Pending ==
  \/ prompts + gone > 0 \/ streams > 0 \/ awaited # "no"
  \/ \E a \in Attempts : phase[a] \in {"shaking", "opening"}
  \/ \A a \in Attempts : phase[a] # "unused"

Next ==
  \/ Quiet /\ Client /\ (known = {} \/ conn' # conn)
  \/ Leave \/ Enter
  \/ conn = "connected" /\ ~Pending /\ Tv

Spec == Init /\ [][Next]_vars
=============================================================================
