----------------------------- MODULE WebModule -----------------------------
(***************************************************************************)
(* The web module: its three parts with the requests they share, the       *)
(* routes that use two of them (light groups and scenes), and restarts.    *)
(***************************************************************************)
EXTENDS RoomBook, DeviceBook, GoveeLights

CONSTANT Members  \* the lights of each group

ASSUME MembersAssumption == DOMAIN Members = Groups

vars == <<requestVars, bookVars, deviceVars, lightVars>>

Init ==
  /\ \E furnished \in BOOLEAN :
       LET stored == [rooms |-> [i \in Ids |-> IF furnished /\ i = Slug[DefaultRoom]
                                                 THEN DefaultRoom ELSE NoRoom],
                      docs |-> [k \in Keys |-> [NoDoc EXCEPT !.room = DefaultRoom]],
                      groups |-> [g \in Groups |-> IF g = DefaultGroup THEN DefaultRoom
                                                                       ELSE NoRoom]]
       IN  BookInit(stored)
  /\ DeviceInit([mobile |-> {}, links |-> {}, ignored |-> {}])
  /\ LightInit
  /\ calls = [c \in Calls |-> Idle]
  /\ inputs = 0

\* light_group_*_handler
GroupOrder(c, g, o) ==
  /\ groups[g] # NoRoom
  /\ Control(c, Members[g], <<o>>, NoGoal)
  /\ UNCHANGED <<bookVars, deviceVars>>

\* room_scene_handler: the lights that the room's name is in the document of,
\* or, without one, in the record.
RoomOf(d) == IF d.id \in Keys /\ docs[d.id].room # NoRoom THEN docs[d.id].room ELSE d.room

\* Without the snapshot there are none, and the answer is as good.
RoomScene(c, n, scene, seen) ==
  /\ DocsFree
  /\ Scene(c, {Devices[i].id : i \in {i \in DOMAIN Devices : seen /\ RoomOf(Devices[i]) = n}},
           scene)
  /\ UNCHANGED <<bookVars, deviceVars>>

Orders == {Power(TRUE), Power(FALSE), Color("red")}
            \cup {Brightness(b) : b \in Levels} \cup {Temp(k) : k \in Kelvins}

RoomsNext ==
  /\ BookBrief \/ \E c \in Calls : BookRequest(c) \/ BookStep(c)
  /\ UNCHANGED <<deviceVars, lightVars>>

DevicesNext ==
  /\ DeviceBrief \/ \E c \in Calls : DeviceRequest(c) \/ DeviceStep(c)
  /\ UNCHANGED <<bookVars, lightVars>>

LightsNext ==
  \/ /\ LightWorld \/ \E c \in Calls : LightRequest(c) \/ LightStep(c)
     /\ UNCHANGED <<bookVars, deviceVars>>
  \/ \E c \in Calls, g \in Groups, o \in Orders : GroupOrder(c, g, o)
  \/ \E c \in Calls, n \in Names, scene \in Scenes, seen \in BOOLEAN : RoomScene(c, n, scene, seen)

Restart ==
  /\ Spend(1)
  /\ calls' = [c \in Calls |-> Idle]
  /\ Reload /\ ReloadDevices /\ RestartLights

Next == RoomsNext \/ DevicesNext \/ LightsNext \/ Restart

Spec == Init /\ [][Next]_vars

\* Between requests the module may wait for ever; a request may not.
Rest == Quiet /\ UNCHANGED vars

-----------------------------------------------------------------------------
(* Properties                                                              *)

\* With nobody saving, every file of the module has what its store has, unless
\* the store was changed while another request was saving it.
StoresSaved == FilesCurrent /\ IgnoredCurrent

\* The module's BLE devices and the records that the supervisor has of them go
\* together, through ingests, forgets and restarts.
BleAgrees == StoredIsListed /\ ForgottenIsGone
=============================================================================
