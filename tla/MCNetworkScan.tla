--------------------------- MODULE MCNetworkScan ---------------------------
EXTENDS NetworkScan

TwoStations == {"laptop", "phone"}
OneStation == {"phone"}
OneSwitch == {"switch"}
NoMac == {}
Texts == {"none", "Host", "Switch", "fritz.box", "laptop", "phone", "switch",
          "router", "homeassistant"}
TextMarks == [t \in Texts |->
  CASE t = "fritz.box" -> {"router"}
    [] t = "Switch" -> {"switch"}
    [] t = "switch" -> {"switch"}
    [] t = "phone" -> {"iphone"}
    [] OTHER -> {}]
Scripts == [t \in Texts |-> IF t = "phone" THEN "phone" ELSE "none"]
Products == [t \in Texts |-> IF t = "laptop" THEN "computer" ELSE "none"]
Vendors == [m \in {"none", "laptop", "phone", "switch", "router"} |-> "none"]
Names == [m \in {"laptop", "phone", "switch"} |-> m]
Nodes ==
  { [fabric |-> "F1", target |-> "plug.local", station |-> "phone", addressed |-> TRUE],
    [fabric |-> "F2", target |-> "plug.local", station |-> "phone", addressed |-> FALSE],
    [fabric |-> "F1", target |-> "thread.local", station |-> "none", addressed |-> FALSE] }
NoNodes == {}
NoKeys == {}
DocumentedDevices == {<<"mac", "phone">>, <<"net-ip", 2>>, <<"doc", "lamp">>}
=============================================================================
