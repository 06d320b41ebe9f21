---------------------------- MODULE MCWebModule ----------------------------
EXTENDS WebModule, TLC

CONSTANTS A, B, c1, c2

TwoNames == {A, B}
TwoCalls == {c1, c2}
Slugs == (A :> "a") @@ (B :> "b")
Norms == [i \in {"pm", "PM", "q"} |-> IF i = "q" THEN "q" ELSE "pm"]
Hosts == [b \in {"pm", "q"} |-> IF b = "pm" THEN "em" ELSE "none"]
Records ==
  << [id |-> "em", address |-> 1, mac |-> FALSE, active |-> TRUE, generic |-> FALSE],
     [id |-> "host", address |-> 1, mac |-> TRUE, active |-> FALSE, generic |-> TRUE] >>
StripAndBulb ==
  << [id |-> "strip", net |-> "ip", ip |-> "ip", hue |-> FALSE, room |-> NoRoom],
     [id |-> "bulb", net |-> "noip", ip |-> "noip", hue |-> TRUE, room |-> A] >>
Both == [g \in {"g"} |-> {"strip", "bulb"}]

\* The parts share no state but the slots of requests: each is checked with
\* requests of its own, and restarts.
VARIABLE part
MCInit == Init /\ part \in {"rooms", "devices", "lights"}
MCNext ==
  /\ \/ part = "rooms" /\ RoomsNext
     \/ part = "devices" /\ DevicesNext
     \/ part = "lights" /\ LightsNext
     \/ Restart \/ Rest
  /\ UNCHANGED part
MCSpec == MCInit /\ [][MCNext]_<<vars, part>>
Symmetry == Permutations(Calls)
=============================================================================
