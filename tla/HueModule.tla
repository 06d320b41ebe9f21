------------------------------ MODULE HueModule ------------------------------
(***************************************************************************)
(* The philips-hue module (modules/philips-hue/src/main.rs): the polling   *)
(* loop, the command task and the HTTP handlers, which share the           *)
(* configuration, the credentials, the light cache and the pairing flag,   *)
(* each behind a tokio Mutex, with the bridge and the supervisor's list.   *)
(*                                                                         *)
(* Only the configuration and the credentials are ever held while a task   *)
(* waits for another lock that can be taken for long; the other critical   *)
(* sections are single actions.  health, lights and rooms handlers only    *)
(* read and are left out, as is the list of rooms.  The configuration      *)
(* names a bridge and no user.                                             *)
(***************************************************************************)
EXTENDS Integers, FiniteSets

CONSTANTS
  Lights,       \* light ids
  Sensors,      \* sensor ids
  Requests,     \* bound: HTTP requests in progress at the same time
  Nobody,       \* no task
  MaxOrders,    \* bound: HTTP requests and commands of a behaviour
  MaxMoves,     \* bound: changes of a device that the module did not order
  MaxFaults,    \* bound: failures of calls and saves
  MaxStarts,    \* bound: how often the module is started
  MaxInputs     \* bound: all of these together

ASSUME DeviceAssumption == Lights \cap Sensors = {}
ASSUME TaskAssumption == /\ Requests \cap {"poll", "command", "initial"} = {}
                         /\ Nobody \notin Requests \union {"poll", "command", "initial"}
ASSUME BoundAssumption == {MaxOrders, MaxMoves, MaxFaults, MaxStarts, MaxInputs} \subseteq Nat

VARIABLES
  bridge,       \* what the devices are in the bridge
  cache,        \* active_lights
  listed,       \* the devices of the module in the supervisor
  credentials,  \* credentials are present
  file,         \* hue_credentials.json
  pairing,      \* pairing_in_progress
  holder,       \* who holds the configuration, and the credentials
  task,         \* of each task: its next step, its order and its copy of the bridge
  orders, moves, faults, starts,
  cancelled,    \* a pairing request was given up in the middle
  unsaved       \* the last save of the credentials failed

shared == <<bridge, cache, listed, credentials, file, pairing>>
counters == <<orders, moves, faults, starts>>
vars == <<shared, holder, task, counters, cancelled, unsaved>>

Tasks   == Requests \union {"poll", "command", "initial"}
Ordered == Requests \union {"command"}
Locks   == {"config", "credentials"}
Devices == Lights \union Sensors
Status  == {"absent", "off", "on"}
Nothing == [d \in Devices |-> "absent"]
Order   == [light : Lights, on : {"on", "off"}]
NoOrder == [light |-> Nobody, on |-> "off"]
Idle    == [pc |-> "idle", order |-> NoOrder, copy |-> Nothing]
At(t, l)   == task[t].pc = l
Free(lock) == holder[lock] = Nobody
Flip(s)    == IF s = "on" THEN "off" ELSE "on"

Goto(t, l) == task' = [task EXCEPT ![t].pc = l]
Finish(t)  == task' = [task EXCEPT ![t] = Idle]

\* Another input, of any kind, is within the bounds.
Input == orders + moves + faults + starts < MaxInputs

\* A call that fails.
Fault == Input /\ faults < MaxFaults /\ faults' = faults + 1

-----------------------------------------------------------------------------
(* What starts a task                                                      *)

\* The loop looks for credentials.
PollTick ==
  /\ At("poll", "idle")
  /\ Free("credentials")
  /\ Goto("poll", IF credentials THEN "lock" ELSE "address")
  /\ UNCHANGED <<shared, holder, counters, cancelled, unsaved>>

NewOrder(t) == Input /\ At(t, "idle") /\ orders < MaxOrders /\ orders' = orders + 1

\* light_state_handler and the commands name the state; set_brightness turns on.
OrderLight(t) ==
  /\ NewOrder(t)
  /\ \E o \in Order : task' = [task EXCEPT ![t].pc = "lock", ![t].order = o]
  /\ UNCHANGED <<shared, holder, moves, faults, starts, cancelled, unsaved>>

\* light_toggle_handler and the toggle command decide on the cache.
ToggleLight(t) ==
  /\ NewOrder(t)
  /\ \E l \in Lights :
       task' = [task EXCEPT ![t].pc = "lock",
                            ![t].order = [light |-> l, on |-> Flip(cache[l])]]
  /\ UNCHANGED <<shared, holder, moves, faults, starts, cancelled, unsaved>>

\* pair_handler and the pair command.
OrderPairing(t) ==
  /\ NewOrder(t)
  /\ Goto(t, "address")
  /\ UNCHANGED <<shared, holder, moves, faults, starts, cancelled, unsaved>>

\* The sync command.
OrderSync ==
  /\ NewOrder("command")
  /\ Goto("command", "lock")
  /\ UNCHANGED <<shared, holder, moves, faults, starts, cancelled, unsaved>>

\* status_handler takes the credentials first.
AskStatus(r) ==
  /\ NewOrder(r)
  /\ Free("credentials")
  /\ holder' = [holder EXCEPT !["credentials"] = r]
  /\ Goto(r, "status")
  /\ UNCHANGED <<shared, moves, faults, starts, cancelled, unsaved>>

AnswerStatus(r) ==
  /\ At(r, "status")
  /\ Free("config")
  /\ holder' = [holder EXCEPT !["credentials"] = Nobody]
  /\ Finish(r)
  /\ UNCHANGED <<shared, counters, cancelled, unsaved>>

-----------------------------------------------------------------------------
(* fetch_and_sync_devices and set_light_state: the configuration, and the  *)
(* credentials under it.                                                   *)

LockConfig(t) ==
  /\ At(t, "lock")
  /\ Free("config")
  /\ holder' = [holder EXCEPT !["config"] = t]
  /\ Goto(t, "locked")
  /\ UNCHANGED <<shared, counters, cancelled, unsaved>>

\* Without credentials both return.
LockCredentials(t) ==
  /\ At(t, "locked")
  /\ Free("credentials")
  /\ holder' = [holder EXCEPT !["config"] = Nobody]
  /\ IF credentials THEN Goto(t, IF task[t].order = NoOrder THEN "fetch" ELSE "put")
                    ELSE Finish(t)
  /\ UNCHANGED <<shared, counters, cancelled, unsaved>>

-----------------------------------------------------------------------------
(* fetch_and_sync_devices                                                  *)

\* What the bridge says of the devices in S, beside what was read before.
Read(t, S) == [d \in Devices |-> IF d \in S THEN bridge[d] ELSE task[t].copy[d]]

FetchLights(t) ==
  /\ At(t, "fetch")
  /\ \/ task' = [task EXCEPT ![t].pc = "sensors", ![t].copy = Read(t, Lights)]
        /\ UNCHANGED faults
     \/ Fault /\ Finish(t)
  /\ UNCHANGED <<shared, holder, orders, moves, starts, cancelled, unsaved>>

\* When the sensors cannot be had the list is made without them.
FetchSensors(t) ==
  /\ At(t, "sensors")
  /\ \/ task' = [task EXCEPT ![t].pc = "store", ![t].copy = Read(t, Sensors)]
        /\ UNCHANGED faults
     \/ Fault /\ Goto(t, "store")
  /\ UNCHANGED <<shared, holder, orders, moves, starts, cancelled, unsaved>>

\* Mutant: lights that the bridge does not report stay in the cache.
StoreLights_Merge(t) ==
  /\ At(t, "store")
  /\ cache' = [l \in Lights |-> IF task[t].copy[l] = "absent" THEN cache[l]
                                                              ELSE task[t].copy[l]]
  /\ Goto(t, "publish")
  /\ UNCHANGED <<bridge, listed, credentials, file, pairing, holder, counters,
                 cancelled, unsaved>>

StoreLights(t) ==
  /\ At(t, "store")
  /\ cache' = [l \in Lights |-> task[t].copy[l]]
  /\ Goto(t, "publish")
  /\ UNCHANGED <<bridge, listed, credentials, file, pairing, holder, counters,
                 cancelled, unsaved>>

\* An empty list is not sent.  A call that fails may have been applied.
PublishDevices(t) ==
  /\ At(t, "publish")
  /\ IF task[t].copy = Nothing THEN UNCHANGED <<listed, faults>>
     ELSE \/ listed' = task[t].copy /\ UNCHANGED faults
          \/ Fault /\ listed' \in {listed, task[t].copy}
  /\ Finish(t)
  /\ UNCHANGED <<bridge, cache, credentials, file, pairing, holder, orders, moves,
                 starts, cancelled, unsaved>>

-----------------------------------------------------------------------------
(* set_light_state                                                         *)

Applied(o) == [bridge EXCEPT ![o.light] = IF @ = "absent" THEN @ ELSE o.on]

\* Any answer of the bridge counts as success, a refusal too.  A command ends
\* with it; a handler updates the cache afterwards.
PutState(t) ==
  /\ At(t, "put")
  /\ bridge' \in {bridge, Applied(task[t].order)}
  /\ \/ t \in Requests /\ Goto(t, "note") /\ UNCHANGED faults
     \/ t \notin Requests /\ Finish(t) /\ UNCHANGED faults
     \/ Fault /\ Finish(t)
  /\ UNCHANGED <<cache, listed, credentials, file, pairing, holder, orders, moves,
                 starts, cancelled, unsaved>>

NoteState(r) ==
  /\ At(r, "note")
  /\ cache' = [cache EXCEPT ![task[r].order.light] =
                  IF @ = "absent" THEN @ ELSE task[r].order.on]
  /\ Finish(r)
  /\ UNCHANGED <<bridge, listed, credentials, file, pairing, holder, counters,
                 cancelled, unsaved>>

-----------------------------------------------------------------------------
(* Pairing: pair_handler, the pair command and the loop without credentials *)

\* The address is read under the lock.  Only the handler sets the flag.
ReadAddress(t) ==
  /\ At(t, "address")
  /\ Free("config")
  /\ pairing' = (pairing \/ t \in Requests)
  /\ Goto(t, "ask")
  /\ UNCHANGED <<bridge, cache, listed, credentials, file, holder, counters,
                 cancelled, unsaved>>

\* Mutant: the flag is only reset after a success.
PairBridge_KeepFlag(t) ==
  /\ At(t, "ask")
  /\ \/ Goto(t, "save") /\ pairing' = (pairing /\ t \notin Requests)
     \/ Finish(t) /\ UNCHANGED pairing
  /\ UNCHANGED <<bridge, cache, listed, credentials, file, holder, counters,
                 cancelled, unsaved>>

\* pair_hue_bridge: somebody has pressed the button of the bridge, or not.
PairBridge(t) ==
  /\ At(t, "ask")
  /\ Goto(t, "save") \/ Finish(t)
  /\ pairing' = (pairing /\ t \notin Requests)
  /\ UNCHANGED <<bridge, cache, listed, credentials, file, holder, counters,
                 cancelled, unsaved>>

\* A save that fails is ignored.
SaveCredentials(t) ==
  /\ At(t, "save")
  /\ \/ file' = "user" /\ unsaved' = FALSE /\ UNCHANGED faults
     \/ Fault /\ file' \in {file, "broken"} /\ unsaved' = TRUE
  /\ Goto(t, "set")
  /\ UNCHANGED <<bridge, cache, listed, credentials, pairing, holder, orders, moves,
                 starts, cancelled>>

SetCredentials(t) ==
  /\ At(t, "set")
  /\ Free("credentials")
  /\ credentials' = TRUE
  /\ Goto(t, "lock")
  /\ UNCHANGED <<bridge, cache, listed, file, pairing, holder, counters, cancelled,
                 unsaved>>

-----------------------------------------------------------------------------
(* Around the module                                                       *)

Released(r) == [lock \in Locks |-> IF holder[lock] = r THEN Nobody ELSE holder[lock]]

\* Mutant: the locks of a dropped handler are not released.
GiveUp_KeepLocks(r) ==
  /\ task[r].pc \notin {"idle", "save"}
  /\ bridge' \in IF At(r, "put") THEN {bridge, Applied(task[r].order)} ELSE {bridge}
  /\ cancelled' = (cancelled \/ At(r, "ask"))
  /\ Finish(r)
  /\ UNCHANGED <<cache, listed, credentials, file, pairing, holder, counters, unsaved>>

\* The client closes its connection and the handler is dropped where it waits.
GiveUp(r) ==
  /\ task[r].pc \notin {"idle", "save"}
  /\ holder' = Released(r)
  /\ bridge' \in IF At(r, "put") THEN {bridge, Applied(task[r].order)} ELSE {bridge}
  /\ cancelled' = (cancelled \/ At(r, "ask"))
  /\ Finish(r)
  /\ UNCHANGED <<cache, listed, credentials, file, pairing, counters, unsaved>>

\* Somebody uses a switch, or adds or removes a device.
Move ==
  /\ Input
  /\ moves < MaxMoves
  /\ moves' = moves + 1
  /\ \E d \in Devices, s \in Status : bridge' = [bridge EXCEPT ![d] = s]
  /\ UNCHANGED <<cache, listed, credentials, file, pairing, holder, task, orders,
                 faults, starts, cancelled, unsaved>>

\* The first synchronisation is a task of its own, beside the loop.
Started == [t \in Tasks |-> IF t = "initial" THEN [Idle EXCEPT !.pc = "lock"] ELSE Idle]

\* The module dies, perhaps while it saves, and is started under a new
\* supervisor, with what it finds in the file.
Restart ==
  /\ Input
  /\ starts < MaxStarts
  /\ starts' = starts + 1
  /\ file' \in {file} \union {f \in {"broken"} : \E t \in Tasks : At(t, "save")}
  /\ credentials' = (file' = "user")
  /\ cache' = [l \in Lights |-> "absent"]
  /\ listed' = Nothing
  /\ pairing' = FALSE
  /\ holder' = [lock \in Locks |-> Nobody]
  /\ task' = Started
  /\ cancelled' = FALSE
  /\ unsaved' = FALSE
  /\ UNCHANGED <<bridge, orders, moves, faults>>

-----------------------------------------------------------------------------
Init ==
  /\ bridge = [d \in Devices |-> "off"]
  /\ cache = [l \in Lights |-> "absent"]
  /\ listed = Nothing
  /\ credentials = FALSE
  /\ file = "none"
  /\ pairing = FALSE
  /\ holder = [lock \in Locks |-> Nobody]
  /\ task = Started
  /\ orders = 0 /\ moves = 0 /\ faults = 0 /\ starts = 1
  /\ cancelled = FALSE
  /\ unsaved = FALSE

Sync(t) == FetchLights(t) \/ FetchSensors(t) \/ StoreLights(t) \/ PublishDevices(t)
Set(t)  == PutState(t) \/ NoteState(t)
Pair(t) == PairBridge(t) \/ SaveCredentials(t)
Locking(t) == LockConfig(t) \/ LockCredentials(t) \/ ReadAddress(t) \/ SetCredentials(t)

Next ==
  \/ PollTick \/ OrderSync
  \/ \E t \in Tasks : Locking(t) \/ Sync(t) \/ Set(t) \/ Pair(t)
  \/ \E t \in Ordered : OrderLight(t) \/ ToggleLight(t) \/ OrderPairing(t)
  \/ \E r \in Requests : AskStatus(r) \/ AnswerStatus(r) \/ GiveUp(r)
  \/ Move \/ Restart

\* What a task does next, once it has been started.
Run(t) == Locking(t) \/ Sync(t) \/ Set(t) \/ Pair(t) \/ (t \in Requests /\ AnswerStatus(t))

\* Calls to the bridge end by their timeouts of three seconds, the ticker fires
\* every few seconds and a tokio Mutex is granted in the order of the requests,
\* so a wait for a lock that is released again and again ends.
Scheduling ==
  /\ SF_vars(PollTick \/ Run("poll"))
  /\ \A t \in Tasks \ {"poll"} : SF_vars(Run(t))

\* The web module gives up its requests after 0.5 to 6 seconds.
Impatience == \A r \in Requests : WF_vars(GiveUp(r))

Spec        == Init /\ [][Next]_vars
PatientSpec == Spec /\ Scheduling
FairSpec    == PatientSpec /\ Impatience

-----------------------------------------------------------------------------
Labels == {"idle", "lock", "locked", "fetch", "sensors", "store", "publish", "put",
           "note", "address", "ask", "save", "set", "status"}

\* Types, and who holds the locks: a task waits under the configuration in
\* fetch and set, and under the credentials in status_handler.
TypeOK ==
  /\ bridge \in [Devices -> Status]
  /\ cache \in [Lights -> Status]
  /\ listed \in [Devices -> Status]
  /\ credentials \in BOOLEAN
  /\ file \in {"none", "user", "broken"}
  /\ pairing \in BOOLEAN
  /\ task \in [Tasks -> [pc : Labels, order : Order \union {NoOrder},
                         copy : [Devices -> Status]]]
  /\ holder \in [Locks -> Tasks \union {Nobody}]
  /\ \A t \in Tasks : /\ holder["config"] = t <=> At(t, "locked")
                      /\ holder["credentials"] = t <=> At(t, "status")

\* The flag is up only while a pairing request waits for the bridge, or after
\* one was given up in the middle (main.rs 567-575): another outcome of the
\* pairing, another task's pairing or a restart never leaves it up.
FlagExplained ==
  pairing => cancelled \/ \E r \in Requests : At(r, "ask")

\* Credentials that the module works with are in the file, where the next start
\* finds them, unless the last save failed: three paths pair, concurrently,
\* and each saves before it publishes (main.rs 579-583, 797-801, 897-901).
PairingSaved == credentials => file = "user" \/ unsaved

\* What the module says of its pairing can be explained, and outlives it.
PairingTold == FlagExplained /\ PairingSaved

\* Once nothing changes any more, cache and list become what the bridge says,
\* whatever stale copies, refused orders and failed calls have left there.  An
\* empty list is the exception: it is never sent (main.rs 475).
Converges ==
  <>[](credentials =>
         /\ \A l \in Lights : cache[l] = bridge[l]
         /\ listed = bridge \/ bridge = Nothing)

\* A round of the polling loop ends, although status requests take the two
\* locks in the other order (main.rs 672-673 and 207-208).
PollReturns == ~At("poll", "idle") ~> At("poll", "idle")
=============================================================================
