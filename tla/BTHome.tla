------------------------------- MODULE BTHome -------------------------------
(***************************************************************************)
(* The bthome module (modules/bthome/src/main.rs): sessions of gateways,   *)
(* HTTP requests and the gateway worker ingest advertisements at the same  *)
(* time, through one packet window, one telemetry map, one event log and   *)
(* one control client.                                                     *)
(*                                                                         *)
(* Each map is behind a Mutex of its own and a task takes one after the    *)
(* other, so each visit is an action.  Two locks are held while another is *)
(* awaited: the heartbeat keeps the metrics while it waits for the client, *)
(* and whoever calls the supervisor keeps the client.                      *)
(***************************************************************************)
EXTENDS BTHomePackets, FiniteSets

CONSTANTS
  Sockets,      \* WebSocket connections of gateways
  Requests,     \* HTTP requests in progress
  Worker,       \* the task shelly_gateway_worker
  Heartbeat,    \* the loop of main
  Nobody,       \* no holder of a lock
  Gateways,     \* addresses of gateways
  Configured,   \* devices of the configuration
  Ignored,      \* devices on the ignore list as it was at the start
  Messages,     \* what gateways send
  Window,       \* dedup_window_ms
  LogSize,      \* length of the event log, 100 in the code
  MaxTime, MaxFaults, MaxInputs   \* bounds; an input is a message, a
                                  \* connection, a round of the worker or a beat

Tasks == Sockets \cup Requests \cup {Worker}

ASSUME TaskAssumption ==
  /\ Worker \notin Sockets \cup Requests
  /\ Sockets \cap Requests = {}
  /\ {Nobody, Heartbeat} \cap Tasks = {}
  /\ Nobody # Heartbeat
  /\ IsFiniteSet(Sockets)
ASSUME BoundAssumption ==
  {Window, LogSize, MaxTime, MaxFaults, MaxInputs} \subseteq Nat

VARIABLES
  now,          \* the clock
  records,      \* the packet window: key -> time of the packet that was let in
  telemetry,    \* device_telemetry: device -> metadata
  events,       \* recent_events, newest first
  inventory,    \* what the supervisor lists for the module
  verified,     \* verified_gateways: none, or a gateway with ws_connected
  session,      \* of each socket, the step of handle_ws_socket
  peer,         \* of each socket, its address
  active,       \* ws_connections_active
  task,         \* of each task, its step, the items to ingest, the metadata in hand
  beat,         \* the step of the heartbeat
  client,       \* who holds the control client
  worker, todo, \* the step of the worker, and the gateways left in its round
  inputs, faults,
  admitted,     \* history: the packets let in, with their keys and times
  dropped,      \* history: the duplicates, with their keys and times
  battery,      \* history: device -> the last battery value stored
  raced,        \* history: devices of which two packets were handled at once
  unsent        \* history: devices whose last upsert failed, or whose request
                \* was dropped between the telemetry and the answer

ingestVars == <<now, records, telemetry, events, inventory, admitted, dropped, battery,
                raced, unsent>>
gatewayVars == <<verified, session, peer, active>>
workerVars == <<worker, todo>>
bounded == <<inputs, faults>>
vars == <<ingestVars, gatewayVars, workerVars, bounded, task, beat, client>>

-----------------------------------------------------------------------------
\* HashMap::insert; the entries of one map over those of another.
Inserted(map, key, value) ==
  [k \in DOMAIN map \cup {key} |-> IF k = key THEN value ELSE map[k]]

Overlaid(new, old) ==
  [k \in DOMAIN new \cup DOMAIN old |-> IF k \in DOMAIN new THEN new[k] ELSE old[k]]

NoMeta == [values |-> <<>>, stamp |-> 0]
NoItems == [at |-> "idle", items |-> <<>>, meta |-> NoMeta]

Item(t) == Head(task[t].items)
MetricsFree == beat = "idle"

Input == inputs < MaxInputs /\ inputs' = inputs + 1

\* Where a task goes when it is done with an item.
AfterItem(t) ==
  LET rest == Tail(task[t].items)
  IN [at |-> IF rest = <<>> THEN "idle" ELSE "admit", items |-> rest, meta |-> NoMeta]

\* main: devices of the configuration are upserted without telemetry.
Init ==
  /\ now = 0
  /\ records = <<>>
  /\ telemetry = <<>>
  /\ events = <<>>
  /\ inventory = [d \in Configured |-> NoMeta]
  /\ verified = [g \in Gateways |-> "none"]
  /\ session = [s \in Sockets |-> "closed"]
  /\ peer \in [Sockets -> Gateways]
  /\ active = 0
  /\ task = [t \in Tasks |-> NoItems]
  /\ beat = "idle"
  /\ client = Nobody
  /\ worker = "waiting"
  /\ todo = {}
  /\ inputs = 0 /\ faults = 0
  /\ admitted = <<>> /\ dropped = {} /\ battery = <<>> /\ raced = {} /\ unsent = {}

Tick ==
  /\ now < MaxTime
  /\ now' = now + 1
  /\ UNCHANGED <<records, telemetry, events, inventory, admitted, dropped, battery, raced,
                 unsent, gatewayVars, workerVars, bounded, task, beat, client>>

-----------------------------------------------------------------------------
(* process_ingest_items, item by item                                      *)

\* Too weak, on the ignore list, or no packet at all.
Skipped(item) == item.weak \/ item.mac \in Ignored \/ ~item.parsable

SkipItem(t) ==
  /\ task[t].at = "admit"
  /\ MetricsFree
  /\ Skipped(Item(t))
  /\ task' = [task EXCEPT ![t] = AfterItem(t)]
  /\ UNCHANGED <<ingestVars, gatewayVars, workerVars, bounded, beat, client>>

Pruned == [k \in {j \in DOMAIN records : now - records[j] < 2 * Window} |-> records[k]]

\* Mutant: a record that is still there makes a duplicate, however old it is.
InWindow_Kept(key) == key \in DOMAIN Pruned

InWindow(key) == key \in DOMAIN Pruned /\ now - records[key] < Window

DropDuplicate(t) ==
  LET key == Item(t).key
  IN /\ task[t].at = "admit"
     /\ MetricsFree
     /\ ~Skipped(Item(t))
     /\ InWindow(key)
     /\ records' = Pruned
     /\ dropped' = dropped \cup {[key |-> key, at |-> now]}
     /\ task' = [task EXCEPT ![t] = AfterItem(t)]
     /\ UNCHANGED <<now, telemetry, events, inventory, admitted, battery, raced, unsent,
                    gatewayVars, workerVars, bounded, beat, client>>

\* The number of the packet stands for its time stamp, signal and gateway.
Admit(t) ==
  LET key == Item(t).key
  IN /\ task[t].at = "admit"
     /\ MetricsFree
     /\ ~Skipped(Item(t))
     /\ ~InWindow(key)
     /\ records' = Inserted(Pruned, key, now)
     /\ admitted' = Append(admitted, [key |-> key, at |-> now])
     /\ task' = [task EXCEPT ![t].at = "read",
                             ![t].meta = [values |-> <<>>, stamp |-> Len(admitted) + 1]]
     /\ UNCHANGED <<now, telemetry, events, inventory, dropped, battery, raced, unsent,
                    gatewayVars, workerVars, bounded, beat, client>>

\* t has read the telemetry of device d and is not done with the packet.
Handling(t, d) == task[t].at \in {"store", "log", "upsert", "calling"} /\ Item(t).mac = d

Known(d) == IF d \in DOMAIN telemetry THEN telemetry[d].values ELSE <<>>

\* Mutant: the metadata starts from the packet alone.
ReadTelemetry_Afresh(t) ==
  /\ task[t].at = "read"
  /\ task' = [task EXCEPT ![t].at = "store", ![t].meta.values = Item(t).readings]
  /\ raced' = IF \E u \in Tasks \ {t} : Handling(u, Item(t).mac)
              THEN raced \cup {Item(t).mac} ELSE raced
  /\ UNCHANGED <<now, records, telemetry, events, inventory, admitted, dropped, battery, unsent,
                 gatewayVars, workerVars, bounded, beat, client>>

ReadTelemetry(t) ==
  /\ task[t].at = "read"
  /\ task' = [task EXCEPT ![t].at = "store",
                          ![t].meta.values = Overlaid(Item(t).readings, Known(Item(t).mac))]
  /\ raced' = IF \E u \in Tasks \ {t} : Handling(u, Item(t).mac)
              THEN raced \cup {Item(t).mac} ELSE raced
  /\ UNCHANGED <<now, records, telemetry, events, inventory, admitted, dropped, battery, unsent,
                 gatewayVars, workerVars, bounded, beat, client>>

StoreTelemetry(t) ==
  LET d == Item(t).mac
      readings == Item(t).readings
  IN /\ task[t].at = "store"
     /\ telemetry' = Inserted(telemetry, d, task[t].meta)
     /\ battery' = IF Battery \in DOMAIN readings THEN Inserted(battery, d, readings[Battery])
                   ELSE battery
     /\ task' = [task EXCEPT ![t].at = "log"]
     /\ UNCHANGED <<now, records, events, inventory, admitted, dropped, raced, unsent,
                    gatewayVars, workerVars, bounded, beat, client>>

\* An event of the packet, or a battery update if the metadata has a battery
\* and none of the five newest events is one of this device.
EventType(t) ==
  LET type == Item(t).live
      noted == \E i \in DOMAIN events : i <= 5 /\ events[i].mac = Item(t).mac
                                        /\ events[i].type = "battery_update"
  IN IF type # "none" THEN type
     ELSE IF Battery \in DOMAIN task[t].meta.values /\ ~noted THEN "battery_update" ELSE "none"

Logged(event) == SubSeq(<<event>> \o events, 1, IF Len(events) < LogSize THEN Len(events) + 1
                                                ELSE LogSize)

\* The log, then known_devices with devices_seen inside it.
LogEvent(t) ==
  /\ task[t].at = "log"
  /\ MetricsFree
  /\ events' = IF EventType(t) = "none" THEN events
               ELSE Logged([mac |-> Item(t).mac, type |-> EventType(t), stamp |-> task[t].meta.stamp])
  /\ task' = [task EXCEPT ![t].at = "upsert"]
  /\ UNCHANGED <<now, records, telemetry, inventory, admitted, dropped, battery, raced, unsent,
                 gatewayVars, workerVars, bounded, beat, client>>

TakeClient(t) ==
  /\ task[t].at = "upsert"
  /\ client = Nobody
  /\ client' = t
  /\ task' = [task EXCEPT ![t].at = "calling"]
  /\ UNCHANGED <<ingestVars, gatewayVars, workerVars, bounded, beat>>

\* Mutant: the record has what the packet says, without what was known.
Upsert_Packet(t) ==
  LET d == Item(t).mac
  IN /\ task[t].at = "calling"
     /\ inventory' = Inserted(inventory, d, [values |-> Item(t).readings,
                                                 stamp |-> task[t].meta.stamp])
     /\ unsent' = unsent \ {d}
     /\ client' = Nobody
     /\ task' = [task EXCEPT ![t] = AfterItem(t)]
     /\ UNCHANGED <<now, records, telemetry, events, admitted, dropped, battery, raced,
                    gatewayVars, workerVars, bounded, beat>>

\* Mutant: the call is counted under the metrics lock before the client is released.
Upsert_Counted(t) ==
  LET d == Item(t).mac
  IN /\ task[t].at = "calling"
     /\ MetricsFree
     /\ inventory' = Inserted(inventory, d, task[t].meta)
     /\ unsent' = unsent \ {d}
     /\ client' = Nobody
     /\ task' = [task EXCEPT ![t] = AfterItem(t)]
     /\ UNCHANGED <<now, records, telemetry, events, admitted, dropped, battery, raced,
                    gatewayVars, workerVars, bounded, beat>>

\* One device, and replace_all is false.
Upsert(t) ==
  LET d == Item(t).mac
  IN /\ task[t].at = "calling"
     /\ inventory' = Inserted(inventory, d, task[t].meta)
     /\ unsent' = unsent \ {d}
     /\ client' = Nobody
     /\ task' = [task EXCEPT ![t] = AfterItem(t)]
     /\ UNCHANGED <<now, records, telemetry, events, admitted, dropped, battery, raced,
                    gatewayVars, workerVars, bounded, beat>>

\* The call fails, or its answer is lost: the task goes on with the next item.
UpsertFails(t) ==
  LET d == Item(t).mac
  IN /\ task[t].at = "calling"
     /\ faults < MaxFaults
     /\ faults' = faults + 1
     /\ inventory' \in {inventory, Inserted(inventory, d, task[t].meta)}
     /\ unsent' = unsent \cup {d}
     /\ client' = Nobody
     /\ task' = [task EXCEPT ![t] = AfterItem(t)]
     /\ UNCHANGED <<now, records, telemetry, events, admitted, dropped, battery, raced,
                    gatewayVars, workerVars, inputs, beat>>

\* The telemetry has the packet in the hands of t, the supervisor has not.
Sending(t) == task[t].at \in {"log", "upsert", "calling"}

\* The client of the HTTP request goes away: axum drops the handler at the await
\* where it is, with its locks and its other items.  A call that is on its way
\* to the supervisor goes on without it.
GiveUp(r) ==
  /\ task[r].at \notin {"idle", "adrift"}
  /\ faults < MaxFaults
  /\ faults' = faults + 1
  /\ task' = [task EXCEPT ![r] = IF @.at = "calling" THEN [@ EXCEPT !.at = "adrift"] ELSE NoItems]
  /\ client' = IF task[r].at = "calling" THEN Nobody ELSE client
  /\ unsent' = IF Sending(r) THEN unsent \cup {Item(r).mac} ELSE unsent
  /\ UNCHANGED <<now, records, telemetry, events, inventory, admitted, dropped, battery, raced,
                 gatewayVars, workerVars, inputs, beat>>

\* The call of a dropped request arrives, perhaps after newer ones, or is lost.
Land(r) ==
  LET d == Item(r).mac
  IN /\ task[r].at = "adrift"
     /\ \/ /\ inventory' = Inserted(inventory, d, task[r].meta)
           /\ unsent' = unsent \cup {d}
        \/ UNCHANGED <<inventory, unsent>>
     /\ task' = [task EXCEPT ![r] = NoItems]
     /\ UNCHANGED <<now, records, telemetry, events, admitted, dropped, battery, raced,
                    gatewayVars, workerVars, bounded, beat, client>>

IngestStep(t) ==
  \/ SkipItem(t) \/ DropDuplicate(t) \/ Admit(t)
  \/ ReadTelemetry(t) \/ StoreTelemetry(t) \/ LogEvent(t)
  \/ TakeClient(t) \/ Upsert(t) \/ UpsertFails(t) \/ Land(t)

Items(message) == [i \in DOMAIN Extract(message) |-> Decoded(Extract(message)[i])]

\* The items of a message are handed to process_ingest_items.
Ingest(t, message) ==
  /\ task[t].at = "idle"
  /\ Input
  /\ Items(message) # <<>>
  /\ task' = [task EXCEPT ![t] = [at |-> "admit", items |-> Items(message), meta |-> NoMeta]]

\* bthome_ingest_handler; a message without items is answered with an error.
ReceiveRequest(r, message) ==
  /\ Ingest(r, message)
  /\ UNCHANGED <<ingestVars, gatewayVars, workerVars, faults, beat, client>>

-----------------------------------------------------------------------------
(* handle_ws_socket                                                        *)

\* The connection is counted, under the metrics lock.
Connect(s) ==
  /\ session[s] = "closed"
  /\ MetricsFree
  /\ Input
  /\ session' = [session EXCEPT ![s] = "counted"]
  /\ active' = active + 1
  /\ UNCHANGED <<ingestVars, verified, peer, workerVars, faults, task, beat, client>>

\* Sets ws_connected of a gateway that is verified.
Flagged(g) == IF verified[g] = "none" THEN verified ELSE [verified EXCEPT ![g] = "connected"]

FlagSession(s) ==
  /\ session[s] = "counted"
  /\ session' = [session EXCEPT ![s] = "open"]
  /\ verified' = Flagged(peer[s])
  /\ UNCHANGED <<ingestVars, peer, active, workerVars, bounded, task, beat, client>>

\* A message of a gateway, which names its source or not.
ReceiveMessage(s, message) ==
  /\ session[s] = "open"
  /\ Ingest(s, message)
  /\ verified' \in {verified, Flagged(peer[s])}
  /\ UNCHANGED <<ingestVars, session, peer, active, workerVars, faults, beat, client>>

\* A message without items, which may name its source.
ReceiveStatus(s) ==
  /\ session[s] = "open"
  /\ task[s].at = "idle"
  /\ verified' = Flagged(peer[s])
  /\ UNCHANGED <<ingestVars, session, peer, active, workerVars, bounded, task, beat, client>>

\* Close, or an error; it is seen when the message before it is ingested.
Disconnect(s) ==
  /\ session[s] = "open"
  /\ task[s].at = "idle"
  /\ session' = [session EXCEPT ![s] = "leaving"]
  /\ UNCHANGED <<ingestVars, verified, peer, active, workerVars, bounded, task, beat, client>>

Uncount(s) ==
  /\ session[s] = "leaving"
  /\ MetricsFree
  /\ session' = [session EXCEPT ![s] = "uncounted"]
  /\ active' = IF active > 0 THEN active - 1 ELSE active
  /\ UNCHANGED <<ingestVars, verified, peer, workerVars, bounded, task, beat, client>>

Unflag(s) ==
  /\ session[s] = "uncounted"
  /\ session' = [session EXCEPT ![s] = "closed"]
  /\ verified' = IF verified[peer[s]] = "connected"
                 THEN [verified EXCEPT ![peer[s]] = "verified"] ELSE verified
  /\ UNCHANGED <<ingestVars, peer, active, workerVars, bounded, task, beat, client>>

SessionStep(s) == FlagSession(s) \/ Uncount(s) \/ Unflag(s)

-----------------------------------------------------------------------------
(* shelly_gateway_worker                                                   *)

\* The interval fires; the snapshot is asked for with the client in hand.
StartRound ==
  /\ worker = "waiting"
  /\ client = Nobody
  /\ Input
  /\ client' = Worker
  /\ worker' = "snapshot"
  /\ UNCHANGED <<ingestVars, gatewayVars, todo, faults, task, beat>>

\* The gateways of the configuration and those the snapshot names.
Snapshot(found) ==
  /\ worker = "snapshot"
  /\ client' = Nobody
  /\ worker' = IF found = {} THEN "waiting" ELSE "probing"
  /\ todo' = found
  /\ UNCHANGED <<ingestVars, gatewayVars, bounded, task, beat>>

NextGateway(g) ==
  /\ todo' = todo \ {g}
  /\ worker' = IF todo = {g} THEN "waiting" ELSE "probing"

\* Not reachable, an error, an old generation, or no BLE.
ProbeFails(g) ==
  /\ worker = "probing"
  /\ g \in todo
  /\ verified' = [verified EXCEPT ![g] = "none"]
  /\ NextGateway(g)
  /\ UNCHANGED <<ingestVars, session, peer, active, bounded, task, beat, client>>

\* The list of the gateway's relay is ingested; the calls that configure the
\* gateway change nothing in the module.
SyncGateway(message) ==
  /\ worker = "probing"
  /\ Ingest(Worker, message)
  /\ worker' = "syncing"
  /\ UNCHANGED <<ingestVars, gatewayVars, todo, faults, beat, client>>

\* Mutant: the flag is taken from before the probe.
RecordGateway_Stale(g) ==
  /\ worker \in {"probing", "syncing"}
  /\ task[Worker].at = "idle"
  /\ g \in todo
  /\ verified' \in {[verified EXCEPT ![g] = f] : f \in {"verified", "connected"}}
  /\ NextGateway(g)
  /\ UNCHANGED <<ingestVars, session, peer, active, bounded, task, beat, client>>

\* ws_connected is kept if the gateway was known.
RecordGateway(g) ==
  /\ worker \in {"probing", "syncing"}
  /\ task[Worker].at = "idle"
  /\ g \in todo
  /\ verified' = [verified EXCEPT ![g] = IF @ = "none" THEN "verified" ELSE @]
  /\ NextGateway(g)
  /\ UNCHANGED <<ingestVars, session, peer, active, bounded, task, beat, client>>

-----------------------------------------------------------------------------
(* The loop of main: the metrics, then the client                          *)

BeginBeat ==
  /\ beat = "idle"
  /\ Input
  /\ beat' = "metrics"
  /\ UNCHANGED <<ingestVars, gatewayVars, workerVars, faults, task, client>>

BeatTakesClient ==
  /\ beat = "metrics"
  /\ client = Nobody
  /\ client' = Heartbeat
  /\ beat' = "reporting"
  /\ UNCHANGED <<ingestVars, gatewayVars, workerVars, bounded, task>>

EndBeat ==
  /\ beat = "reporting"
  /\ beat' = "idle"
  /\ client' = Nobody
  /\ UNCHANGED <<ingestVars, gatewayVars, workerVars, bounded, task>>

-----------------------------------------------------------------------------
WorkerStep ==
  \/ \E found \in SUBSET Gateways : Snapshot(found)
  \/ \E g \in Gateways : ProbeFails(g) \/ RecordGateway(g)

Next ==
  \/ Tick
  \/ \E t \in Tasks : IngestStep(t)
  \/ \E r \in Requests, m \in Messages : ReceiveRequest(r, m)
  \/ \E r \in Requests : GiveUp(r)
  \/ \E s \in Sockets : Connect(s) \/ SessionStep(s) \/ ReceiveStatus(s) \/ Disconnect(s)
  \/ \E s \in Sockets, m \in Messages : ReceiveMessage(s, m)
  \/ StartRound
  \/ WorkerStep
  \/ \E m \in Messages : SyncGateway(m)
  \/ BeginBeat \/ BeatTakesClient \/ EndBeat

Spec == Init /\ [][Next]_vars

\* Mutexes are granted in the order of the requests and calls end, so what a
\* task can do again and again it does.
Fairness ==
  /\ \A t \in Tasks : SF_vars(IngestStep(t))
  /\ SF_vars(BeatTakesClient \/ EndBeat)
  /\ WF_vars(WorkerStep)

FairSpec == Spec /\ Fairness

-----------------------------------------------------------------------------
(* Properties                                                              *)

\* Types: the client is held by exactly the task that calls, and the metrics
\* counter is the number of sessions that are counted.
TypeOK ==
  /\ now \in Nat
  /\ Len(events) <= LogSize
  /\ verified \in [Gateways -> {"none", "verified", "connected"}]
  /\ session \in [Sockets -> {"closed", "counted", "open", "leaving", "uncounted"}]
  /\ active = Cardinality({s \in Sockets : session[s] \in {"counted", "open", "leaving"}})
  /\ beat \in {"idle", "metrics", "reporting"}
  /\ worker \in {"waiting", "snapshot", "probing", "syncing"}
  /\ \A t \in Tasks : client = t <=> (task[t].at = "calling" \/ (t = Worker /\ worker = "snapshot"))
  /\ client = Heartbeat <=> beat = "reporting"

\* The packet window lets one packet of a key through per window, and drops
\* only what comes within the window after one that was let in, whoever relays
\* it, in whatever order tasks run and whatever was pruned (dedup.rs 58-82).
WindowExact ==
  /\ \A i, j \in DOMAIN admitted :
       i < j /\ admitted[i].key = admitted[j].key => admitted[j].at - admitted[i].at >= Window
  /\ \A drop \in dropped : \E i \in DOMAIN admitted :
       admitted[i].key = drop.key /\ drop.at - admitted[i].at \in 0..(Window - 1)

\* "preserving prior telemetry (battery etc.)" (main.rs 657): the battery that a
\* device last reported is in its telemetry, unless two of its packets were
\* handled at once: both read the telemetry before either stored it.
BatteryKept ==
  \A d \in DOMAIN battery \ raced :
    Battery \in DOMAIN telemetry[d].values /\ telemetry[d].values[Battery] = battery[d]

\* When no packet of a device is on its way the supervisor lists what the module
\* knows of it, unless the last upsert failed, the request was dropped after the
\* telemetry had the packet and before the answer, or two packets were handled
\* at once: the tasks store and upsert under different locks, in any order
\* (main.rs 746-749, 818-829, and the handler at 834).
SupervisorCurrent ==
  \A d \in DOMAIN telemetry :
    \/ \E t \in Tasks : Sending(t) /\ Item(t).mac = d
    \/ d \in raced \cup unsent
    \/ inventory[d] = telemetry[d]

\* A gateway that is shown as connected has a session that is not over: neither
\* a close nor a round of the worker leaves the flag up (main.rs 927-933, 1145-1162).
ConnectedIsOpen ==
  \A g \in Gateways : verified[g] = "connected" =>
    \E s \in Sockets : peer[s] = g /\ session[s] \in {"open", "leaving", "uncounted"}

\* The types, with the owner of the client and the count of the connections,
\* and the flags of the gateways (main.rs 861-933).
SessionsRight == TypeOK /\ ConnectedIsOpen

\* Every message is ingested to the end, or its client gives up: the heartbeat,
\* which waits for the client with the metrics in hand, and the tasks do not wait
\* for each other, and no dropped request keeps the client (main.rs 1357-1375,
\* 818-829).
Drained ==
  \A t \in Tasks : task[t].at # "idle" ~> task[t].at = "idle"
=============================================================================
