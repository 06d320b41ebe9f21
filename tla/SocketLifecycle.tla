--------------------------- MODULE SocketLifecycle ---------------------------
(***************************************************************************)
(* The socket file of the supervisor (crates/homenode-server/src/lib.rs):  *)
(* several instances are started, stopped and killed over one socket path. *)
(* Each looks for a living socket, removes what it finds, binds, and       *)
(* removes the file again when it has shut down.                           *)
(*                                                                         *)
(* A socket is named after the instance that has bound it.  The listener   *)
(* of an instance closes when its gRPC task ends: until then a connection  *)
(* is taken, although nobody serves it during the shutdown.                *)
(***************************************************************************)
EXTENDS FiniteSets

CONSTANTS
  Instances,  \* supervisors started with this socket path
  Absent      \* no file

ASSUME AbsentAssumption == Absent \notin Instances

VARIABLES
  pc,         \* where run_config_with_shutdown of each instance stands
  file,       \* whose socket is at the path
  listening,  \* the instances whose listener is open
  since,      \* of each instance: who has bound since it looked for a server
  overlapped  \* an instance was started or stopped while another one changed

vars == <<pc, file, listening, since, overlapped>>

Goto(i, l) == pc' = [pc EXCEPT ![i] = l]
Changing == {i \in Instances : pc[i] \notin {"off", "serving"}}
\* An operator acts on instance i.
Disturb(i) == overlapped' = (overlapped \/ ~(Changing \subseteq {i}))

Start(i) ==
  /\ pc[i] = "off"
  /\ Disturb(i)
  /\ Goto(i, "look")
  /\ UNCHANGED <<file, listening, since>>

\* socket_path.exists()
Look(i) ==
  /\ pc[i] = "look"
  /\ Goto(i, IF file = Absent THEN "remove" ELSE "connect")
  /\ since' = [since EXCEPT ![i] = {}]
  /\ UNCHANGED <<file, listening, overlapped>>

\* Mutant: the result of the connection is not looked at.
Connect_Ignore(i) ==
  /\ pc[i] = "connect"
  /\ Goto(i, "remove")
  /\ since' = [since EXCEPT ![i] = {}]
  /\ UNCHANGED <<file, listening, overlapped>>

\* A server that answers ends the start.
Connect(i) ==
  /\ pc[i] = "connect"
  /\ Goto(i, IF file \in listening THEN "off" ELSE "remove")
  /\ since' = [since EXCEPT ![i] = {}]
  /\ UNCHANGED <<file, listening, overlapped>>

\* Mutant: the old file is not removed.
RemoveStale_Skip(i) ==
  /\ pc[i] = "remove"
  /\ Goto(i, "bind")
  /\ UNCHANGED <<file, listening, since, overlapped>>

RemoveStale(i) ==
  /\ pc[i] = "remove"
  /\ file' = Absent
  /\ Goto(i, "bind")
  /\ UNCHANGED <<listening, since, overlapped>>

\* A path that exists again cannot be bound.
Bind(i) ==
  /\ pc[i] = "bind"
  /\ file = Absent
  /\ file' = i
  /\ listening' = listening \union {i}
  /\ since' = [j \in Instances |-> since[j] \union {i}]
  /\ Goto(i, "serving")
  /\ UNCHANGED overlapped

BindFails(i) ==
  /\ pc[i] = "bind"
  /\ file # Absent
  /\ Goto(i, "off")
  /\ UNCHANGED <<file, listening, since, overlapped>>

\* The signal to stop, up to the end of stop_children.
Shutdown(i) ==
  /\ pc[i] = "serving"
  /\ Disturb(i)
  /\ Goto(i, "stopping")
  /\ UNCHANGED <<file, listening, since>>

\* The gRPC task has no connection left.
Close(i) ==
  /\ pc[i] = "stopping"
  /\ listening' = listening \ {i}
  /\ Goto(i, "closed")
  /\ UNCHANGED <<file, since, overlapped>>

\* Whatever is at the path is removed.
RemoveOwn(i) ==
  /\ pc[i] = "closed"
  /\ file' = Absent
  /\ Goto(i, "off")
  /\ UNCHANGED <<listening, since, overlapped>>

\* A kill, or a launch that fails: the file stays.
Kill(i) ==
  /\ pc[i] # "off"
  /\ listening' = listening \ {i}
  /\ Goto(i, "off")
  /\ UNCHANGED <<file, since, overlapped>>

Init ==
  /\ pc = [i \in Instances |-> "off"]
  /\ file = Absent
  /\ listening = {}
  /\ since = [i \in Instances |-> {}]
  /\ overlapped = FALSE

Starting(i) == Look(i) \/ Connect(i) \/ RemoveStale(i) \/ Bind(i) \/ BindFails(i)
Stopping(i) == Close(i) \/ RemoveOwn(i)

Next == \E i \in Instances : Start(i) \/ Starting(i) \/ Shutdown(i) \/ Stopping(i) \/ Kill(i)

Spec == Init /\ [][Next]_vars

-----------------------------------------------------------------------------
Phases == {"off", "look", "connect", "remove", "bind", "serving", "stopping", "closed"}

\* Types; a listener is open from the bind to the end of the gRPC task.
TypeOK ==
  /\ pc \in [Instances -> Phases]
  /\ file \in Instances \union {Absent}
  /\ listening = {i \in Instances : pc[i] \in {"serving", "stopping"}}
  /\ since \in [Instances -> SUBSET Instances]
  /\ overlapped \in BOOLEAN

Serving == {i \in Instances : pc[i] = "serving"}

\* At most one instance serves, as long as instances are started and stopped one
\* after the other, whatever is killed at whatever point (lib.rs 60: "Prevent
\* multiple server instances from conflicting on ports").  Two that start
\* together do both serve: each finds no server before the other binds.
Exclusive == ~overlapped => \A i, j \in Serving : i = j

\* Then an instance that serves can also be reached: its socket is the one at
\* the path, whatever other instances tried (lib.rs 61-90).
Reachable == ~overlapped => \A i \in Serving : file = i

\* And no bind fails: what killed instances have left is gone by then (lib.rs
\* 76-85).
BindSucceeds == ~overlapped => \A i \in Instances : pc[i] = "bind" => file = Absent

\* Starts and stops one after the other hand the path over cleanly.
Handover == Exclusive /\ Reachable /\ BindSucceeds

\* Even when starts and stops overlap, a start only removes the socket of a
\* living instance that has bound it after the start looked for one (lib.rs 61-80).
ProbeHonoured ==
  [][\A i \in Instances : RemoveStale(i) /\ file \in listening => file \in since[i]]_vars
=============================================================================
