----------------------------- MODULE StatusLife -----------------------------
(***************************************************************************)
(* What the history promises of a MAC address, whatever sweeps, restarts   *)
(* and commands do: "archive" is for devices that only the router's list   *)
(* knows; a device that was seen once is "active" or "inactive" from then  *)
(* on, until its record goes.  A record goes when it is forgotten, or to a *)
(* newcomer that has its address; in that step the MAC may start anew.     *)
(***************************************************************************)
CONSTANT Macs

VARIABLE status

Init == status \in [Macs -> {"none", "inactive"}]

Allowed(from, to) == from \in {"active", "inactive"} => to # "archive"

Newcomer(m) == \E n \in Macs \ {m} : status[n] = "none" /\ status'[n] # "none"

Step == /\ status' \in [Macs -> {"none", "archive", "inactive", "active"}]
        /\ \A m \in Macs : Allowed(status[m], status'[m]) \/ Newcomer(m)

Spec == Init /\ [][Step]_status
=============================================================================
