# HomeNode Server: specification, model checking and proofs

This directory holds TLA+ modules translated from the sources of HomeNode
Server, the TLC configurations that check them on small instances, and proofs
of the main theorems for every value of the constants.

    tlc -workers 2 -config MCSupervisor.cfg MCSupervisor
    tlapm SupervisorProofs.tla

## The system

HomeNode Server is a home-automation hub. One supervisor process
(`crates/homenode-server`) listens on a Unix domain socket with a gRPC service
(`HomeNodeControl`) and starts one child process per enabled module
(`modules/*`). A module connects, registers, upserts device records, reports
its health and may hold open a stream of commands. The web module shows the
inventory of the supervisor and sends commands to the other modules through
it. Every process runs tokio tasks; nothing but files, the socket and the HTTP
APIs of the devices is shared between processes.

| Component | State | Operations | Interacts with | Modules |
| --- | --- | --- | --- | --- |
| inventory (`service.rs` `RuntimeState`) | `modules`, `devices` behind one RwLock | register_module, update_health, replace_devices, mark_disconnected, snapshot | every module by RPC; the monitor | `RuntimeState` |
| command fan-out (`service.rs`) | list of subscribers with bounded channels, behind one Mutex | subscribe_commands, send_command | web sends; discovery, hue and bthome read | `CommandBus` |
| life cycle (`lib.rs`) | socket, listener, children list with `exited` flags, monitor task, stop signals | launch_modules, monitor_children, stop_children, run_config_with_shutdown | child processes, inventory | `Supervisor`, `SocketLifecycle` |
| configuration (`config.rs`) | none | load, normalize_paths, validate, enabled_modules | life cycle | none |
| SDK (`homenode-sdk`) | none | connect_control_client, record helpers | every module | the calls in `Supervisor` |
| network discovery: loop (`network-discovery/main.rs`) | ticker, trigger channel, shared history | sweep, publish, command task (scan, forget) | inventory, command stream, history file | `DiscoverySweep` |
| network discovery: scanner (`scanner.rs`) | observations of one scan | collect, probe, aggregate, classify, enrich | sockets, then history | `Scanner`, `NetworkScan` |
| network discovery: history (`history.rs`) | records by MAC or id, JSON file | load, seed, reconcile_sweep, cleanup_duplicates, forget, save | loop; the web module edits the file | `DeviceHistory`, `NetworkScan` |
| bthome (`bthome/*`) | gateways, telemetry, packet window, event log, metrics, control client, each behind a Mutex | WebSocket sessions, HTTP ingest, gateway worker, heartbeat | BLE gateways, inventory | `BTHome`, `BTHomePackets` |
| philips-hue | credentials, config, lights, pairing flag, each behind a Mutex | pair, poll, set state, status | bridge by HTTP, command stream | `HueModule` |
| definition stores (`homenode-definitions`) | rooms, light groups, ignore list, each with a JSON file | insert, delete, persist | web, bthome | `RoomBook`, `DeviceBook` |
| web (`web/main.rs`) | documents, links, mobile BLE devices | HTTP handlers | everything above | `RoomBook`, `DeviceBook`, `WebModule` |
| web: Govee lamps (`web/govee.rs`) | cache of lamps, two UDP sockets | scan, order, status query, listener | lamps, light handlers | `GoveeLights` |
| web: energy, pages | one cached reading; none | poll; render | inverter; browser | none |
| matter-controller, matter-bridge | none | register, report, wait | inventory | as a process of `Supervisor` |

### What is hard about it

* **Late calls.** A handler waits for the state lock. Between the moment a
  request is accepted and the moment its handler runs, the module may die, be
  found dead by the monitor and be marked disconnected.
* **Two walkers over one list.** The monitor and `stop_children` change the
  same `exited` flags; the monitor also takes the state lock inside.
* **Failure in the middle.** `replace_devices` returns in the middle of a
  list, a launch fails with half of the modules running, a poll fails for a
  child that still runs, `fs::write` truncates before it writes.
* **Unclean ends.** Only ctrl-c is handled; after a kill the modules live on
  and meet the next supervisor.
* **Ids that are shared.** The supervisor keys a device by `device_id`, the
  discovery module by MAC; an id stays with a record that moves, so two records
  can have one.
* **Streams that break.** A client subscribes again while the supervisor still
  lists its old subscription; channels are bounded and overflow silently.
* **Dropped handlers.** axum drops the handler of a request at the await where
  it is when the client closes its connection. What it has done stays, what it
  had still to do never happens, its locks are free, and a call that is on its
  way may arrive later than those of others.
* **Requests during a sweep.** A scan or a forget that arrives while a sweep
  runs or its result is on the way must not be lost with it.
* **Addresses that move.** A scan asks its sources one after the other while
  stations come, go and exchange addresses; its result is matched to records
  by MAC, address and id.
* **One packet, many relays.** Several gateways relay one advertisement, each
  in a session of its own; telemetry is read under one visit of its lock and
  written under another.
* **Two writers of a file.** The web module edits the history file of the
  discovery module from another process.
* **Locks in two orders** (philips-hue), **locks held over a call** (bthome
  heartbeat), **decisions on stale copies** (hue toggle, web links), **saves
  outside of the lock** (definition stores), **one change spread over three
  stores** (renaming a room), **datagrams that nobody acknowledges** (Govee).

`PROJECT.json` lists these hazards with their lines and the properties that
stand for them.

### What makes each component correct

* inventory: consistent records under any requests; one module's request never
  touches another module's devices.
* life cycle: no lock is held past its phase, a module is shown as
  disconnected only when its child was given up, a dead child is noticed, a
  dead module stays down, of the processes of one id only one is served, no
  child outlives an orderly end, a shutdown ends.
* command fan-out: order, at most once, addressing, greeting first, and no
  loss other than by a full channel or a broken stream.
* discovery loop: no request is swallowed, the supervisor ends up with the ids
  of the history as it is, a forgotten device goes and stays away, and the file
  is repaired.
* scanner and history: every address that was seen is a device, one record per
  MAC, a record goes only when it is handed over, active means seen, names and
  kinds only get better, and the status of a MAC follows the life that
  `StatusLife` promises.
* socket: one instance serves, it is reachable, a start recovers from whatever
  a killed instance has left.
* bthome: exactly the copies within the window are dropped, what a device said
  last stays known, the supervisor follows, a gateway shown as connected has a
  session, and every message is worked off.
* philips-hue: cache and list follow the bridge, the loop comes back, the
  pairing flag is taken down, credentials in use were saved.
* web: a room that is named exists, files follow stores, what was deleted or
  forgotten stays away, links made by hand stay, the supervisor lists the BLE
  devices that are stored, and no device is missing from the page.
* lamps: once all packets have arrived the cache agrees with the lamp, and a
  scene reaches every light of its room.

## Modules

Operators marked "Mutant" in a comment are variants of the operator after
them: each is a plausible bug of the code under which the property named in
`PROJECT.json` is violated.

### RuntimeState

`modules` and `devices` are the two maps of `RuntimeState` (`service.rs`
16-20). Every RPC that writes takes the write lock for its whole body, so each
is one action; a rejected request is an action that changes nothing. Requests
are arbitrary: missing messages, ids that do not agree, unknown ids, lists with
foreign records. A list is stored up to the first foreign record, as the loop
with its early return does. Message texts, time stamps and capabilities are
abstracted to `Bodies`. `Supervisor` extends this module and uses its actions.

### Supervisor

Extends `RuntimeState` with the life cycle.

| TLA+ | code |
| --- | --- |
| `phase` | where `run_config_with_shutdown` stands: launching (103), serving (112), stopping (113-115, waiting for the lock), killing (258-275), joining (117-118), returned, crashed |
| `launched`, `exited` | the `Vec<ManagedChild>` and its flags |
| `polling`, `marking` | the rest of the current tick of the monitor, and the child for which it waits for the state lock |
| `killing` | the rest of the loop of `stop_children` |
| `proc` | the processes: the child of each managed module, and an outsider of the same id (started by hand, or left by a killed supervisor) |
| `call` | requests that the server has accepted and whose handler has not run |

The children lock is not a variable: it is taken exactly while `polling` or
`killing` is not empty, and `LockDiscipline`, which is proved, says that this
is so. `PollGiveUp` does not look at the process: `try_wait` may fail for a
child that runs. A handler may run after its client died (`Handle`) or be
dropped with the connection (`LoseCall`). `Leave` is every way out of the
function, with the drop of the children list (`kill_on_drop`); `Crash` is a
kill of the supervisor, after which children become outsiders.

### SocketLifecycle

The part of `run_config_with_shutdown` that deals with the socket path
(`lib.rs` 58-90 and 112-126), for any number of instances over one path. `file`
is the instance whose socket is at the path, `listening` the instances whose
listener is open: tonic keeps it open until its last connection has ended, so
an instance that is shutting down still takes the connection of a probe.
Look, connection, removal and bind are separate actions, because each is a
system call of its own, and a kill may come between any two. `since` and
`overlapped` are history variables: who has bound since an instance looked for
a server, and whether an instance was ever started or stopped while another one
started or stopped.

### CommandBus

`stage` says what the supervisor knows of a subscription: the handler waits for
the list lock with its channel, the entry is listed, its receiver is gone, or
the entry has been removed. `session` says which stream a client reads; the two
part when a connection breaks unnoticed. A command is the number of its
dispatch, so that order, loss and duplication can be read off what a client
got. `send_command` holds the list lock for the whole fan-out and is one
action; `subscribe_commands` is two, around the wait for the lock. `since` and
`refused` are history variables. Buffers of the HTTP/2 connection only add
room and are left out.

### DiscoverySweep

`pc` is where main or the sweep loop stands. The loop and the command task hold
the history Mutex from the change to the end of the save, so reconcile-and-save
and forget-and-save are single actions. `store` has a record, with an id and a
state, for each key (the MAC where it is known). The supervisor lists by id
(`scanner.rs` 706-713): ids stay with their records when these get other keys
(`history.rs` 448-515), so two records can have one, and the supervisor keeps
the state of the record that the list has last (`Lists`). Which record a
reported device is matched with, and so which id it gets, is a choice here
(`Matched`) and an algorithm in `DeviceHistory`. `Sweeps` is what a sweep can
report; a scan that fails is one that saw nothing. A forget names a key or an id
and removes every record that has it (`Meant`). A save may fail and leave the file as it
was or truncated. The web module's edit of the file is a read and a later
write. `owed`, `forgotten` and `stale` are history variables.

### Scanner, DeviceHistory, NetworkScan, StatusLife

`Scanner` has `scanner.rs` from raw observations to a list of devices as
operators: aggregation by address, what of each observation wins, the rules of
classification in their order, devices that only the router knows, VPN peers,
Matter fabrics, Home Assistant and web addresses. `DeviceHistory` has
`history.rs`: keys, matching, merging, the anti-downgrade rules, cleanup of
duplicates, seeding, forget, and the status that is reported. The code takes
the first match in the order of a HashMap, which is not determined; there an
operator yields the set of the possible stores. The seed of a documented device
of another module has the id `net-<key>` and not the key (`history.rs` 367): the
next cleanup puts it under its id, and the next start seeds the key again.

`NetworkScan` puts them into a network: `net` is where the stations are,
`lease` what the router has noted, `cache` the neighbour cache of the kernel.
A scan is several steps (`BeginScan`, `Probe`, `Enrich`, `Reconcile`), stations
move in between, and a source may be silent. The router may call its entries
active or inactive wrongly, report one without its MAC, or not answer for one;
the probe for Home Assistant may find nothing. Texts are model values with the
words that the rules look for (`Marks`).

`StatusLife` is the abstract specification of a MAC's status: none, archive,
inactive, active, and which changes may happen. `NetworkScan` implements it
(`LifeSpec`), with the status read off the record of the MAC.

### BTHomePackets, BTHome

`BTHomePackets` is what is read out of an advertisement: the walk over the
objects of a payload with their widths, an object that is cut off, the flag of
encrypted payloads, the accessors that take the first measurement of a kind,
the items of a message and the key of the packet window. A payload is the
sequence of its bytes.

| TLA+ (`BTHome`) | code (`bthome/src/main.rs`, `dedup.rs`) |
| --- | --- |
| `records`, `now` | the packet window, and the clock it is pruned by |
| `telemetry`, `events` | `device_telemetry`, `recent_events` |
| `verified`, `session`, `active` | `verified_gateways`, the WebSocket handlers, `ws_connections_active` |
| `task` | sessions, HTTP requests and the gateway worker: the items in hand, and the metadata of the first |
| `beat`, `client` | the loop of main with the metrics lock, and who holds the control client |
| `worker`, `todo` | the round of `shelly_gateway_worker` |
| `inventory` | what the supervisor lists for the module |

Each map has a Mutex of its own and a task visits one after the other, so each
visit is an action. A call of the supervisor may fail. An HTTP request
(`bthome_ingest_handler`) is dropped at any of its awaits when its client goes
away (`GiveUp`); the call of the supervisor that it waited for is then `adrift`
and arrives later or never (`Land`). Sessions and the worker are tasks of their
own and are not dropped. `admitted`, `dropped`,
`battery`, `raced` and `unsent` are history variables.

### HueModule

| TLA+ | code (`philips-hue/main.rs`) |
| --- | --- |
| `bridge` | the devices as the Hue bridge reports them (external) |
| `cache`, `credentials`, `pairing` | the fields of `AppState` (125-137) |
| `file` | `hue_credentials.json` |
| `listed` | the module's devices in the supervisor |
| `holder` | who holds the configuration Mutex, and the credentials Mutex |
| `task` | of each task, the next step, the light it orders and its copy of the bridge |

The tasks are the polling loop, the command task, the initial synchronisation
(868-873) and the HTTP requests in progress. Only two locks are held while
another lock is awaited that somebody may hold for long; they are acquired in
steps of their own, in the order of the code. Between two awaits a task is one
action. A request's handler is dropped where it waits when its client gives up
(`GiveUp`). A call to the bridge may fail before or after it took effect, and
the bridge may refuse a state with an answer that counts as success.
`cancelled` and `unsaved` are history variables.

### WebRequests, RoomBook, DeviceBook, GoveeLights, WebModule

axum runs every HTTP request as a task. `WebRequests` has the slots: a request
that waits somewhere is a record with its `op`, the `pc` where it stands and
its locals; a request that never gives up control is one step. A request whose
client goes away ends where it waits: `GiveUpRename`, `GiveUpDevices`,
`GiveUpLights`. A drop counts as one of the failures that `MaxInputs` bounds.
The three parts share nothing but the slots.

* `RoomBook`: documents (`docs_store`, a lock that a request keeps while it
  changes rooms or groups as well; it awaits nothing while it has it), rooms and
  light groups (stores that lock only their map, list it again to save it, and
  write the file with no lock held). Saving a document, creating, renaming and
  deleting a room, the two imports, and creating and deleting a group are
  modelled in the steps between which another thread can take one of these
  locks. A rename waits for `docs_store` (1454) with the room already renamed,
  and is dropped there when its client leaves. A room's id is made from the
  name it was created with (`Slug`); documents and groups hold names. `loose`
  collects the names that the code itself lets go; the comment at `Loosen`
  lists the ways.
* `DeviceBook`: the mobile BLE devices, whose lock is held over the file write
  and, by a forget, over the call of the supervisor; requests that are dropped
  before their call, or in it, when it is `adrift` and sinks or lands late;
  links, which requests copy and later overwrite; the ignore list; and which
  rows the page has (`build_unified_devices`).
* `GoveeLights`: packets to and from the lamps, which may be lost, the listener
  that feeds the cache, orders with their optimistic update and the query after
  it, toggles that decide by the cache, sends that fail, Hue lights, which take
  a call that may fail, and requests that are dropped in the midst of a scene or
  between an order and its query.
* `WebModule`: the initial states, the routes that need two parts (orders to a
  group, scenes of a room, which have no targets when the snapshot fails), and
  restarts, which load the files.

History variables are `loose`, `deleted`, `mixed`, `kept`, `forgotten`,
`missed`, `crossed`, `astray`, `guessed` and `goal`. What a `goal` is, `Wanted`
says: what a light does in the end that obeys every order of the scene.

### MC modules and proof modules

`MC*.tla` define the model values that the configurations substitute;
`*Proofs.tla` hold the theorems. `MCWebModule` checks each of the three parts
of the web module with requests of its own (`part`), because requests of two
parts touch no common state.

## Runs

| Run | Module, configuration | Shows |
| --- | --- | --- |
| runtime_state | `MCRuntimeState` | `InventoryConsistent`, `OneOwnerChanges` under arbitrary requests |
| supervisor | `MCSupervisor` | `NoFalseAlarm`, `NoChildSurvives`, `CrashNoticed`, `ShutdownEnds` for two modules |
| supervisor_outsiders | `MCSupervisor`, `MCSupervisorOutsiders.cfg` | `DeadStaysDead` and `OneServes` with an outsider, two calls and two supervisor lives |
| command_bus | `MCCommandBus` | `ReadsRight` (order, addressing, greeting first) and `Complete` (nothing is lost but by a full channel) |
| sweep | `MCDiscoverySweep` | `RequestKept`, `Settled`, `ForgottenStaysAway`, `CommandsServed`, `FileRepaired` with records that share an id, a fault, a restart and an edit |
| hue | `MCHueModule` | `PairingTold`, `Converges`, `PollReturns` with a request, orders, a change at the bridge, a fault, a restart and clients that give up |
| hue_blocked | `MCHueModule`, `MCHueModuleBlocked.cfg` | violated: the loop never comes back when no client gives up |
| socket | `MCSocketLifecycle` | `Handover` while starts and stops do not overlap, `ProbeHonoured` always |
| bthome | `MCBTHome` | with requests that are dropped: `WindowExact`, `BatteryKept`, `SupervisorCurrent`, `SessionsRight`, `Drained` |
| history | `MCNetworkScan` | `ScanComplete`, `MatterPlaced`, `NoDuplicates`, `ActiveIsSeen`, `RecordsKept`, `NeverDowngraded`, and that the history implements `StatusLife` (`LifeSpec`) |
| history_takeover | `MCNetworkScan`, `MCNetworkScanTakeover.cfg` | violated: a device disappears from the history because another one got its address |
| web | `MCWebModule` | with requests that are dropped, and restarts: `RoomsNamed`, `StoresSaved`, `DeletedStays`, `LinksKept`, `BleAgrees`, `NothingHidden`, `CacheAgrees`, `SceneApplied` |

### Findings

1. `philips-hue/main.rs` 672-673 takes the credentials and then the
   configuration, 207-208 and 510-511 the other way round. A status request
   and the polling loop can wait for each other; nothing in the module ends
   this, only a client that closes its connection does.
2. `network-discovery/history.rs` 431-449: a device whose MAC has no record is
   matched by IP address without a look at the MAC of the record that has the
   address, and takes it over. The device that had the address before is gone
   from the history, although devices that left are to become inactive (403,
   and the test at 705).

### What the code does not promise

The properties hold with the exceptions they name; each exception is a
behaviour of the code that a reader should know.

Supervisor and socket

* Two supervisors that start together both find no server, and the second
  removes the socket of the first (`lib.rs` 61-87); an instance that ends
  removes whatever is at the path, the socket of a successor included (120):
  `Handover` says `~overlapped`.
* A call that was accepted before its module died may run after the monitor has
  marked it, and shows the dead module as connected for good: `DeadStaysDead`
  asks that no call of the module is in flight (`Silent`).
* What is left of a killed supervisor may register with the next one beside the
  child that one starts: `OneServes` speaks of a first supervisor.
* `service.rs` 187-190 counts a subscriber whose channel is full as delivered
  although the command was dropped: `refused` in `Complete`.

Network discovery

* `main.rs` 300 skips the upsert of an empty list, so the last device of the
  history can be forgotten and stay listed: `Settled` and `CommandsServed`
  leave the empty list out.
* `seed_known_devices` (`history.rs` 343-395) brings a documented device back
  at every start: `ForgottenStaysAway` leaves these out.
* Devices of a sweep that share a MAC end in one record, and two records can
  end with the same device id, of which the supervisor lists one: `NoDuplicates`
  is about MACs, `Settled` about ids.
* A torn history file is an empty history at the next start; the edit of the web
  module and a save of the loop can undo each other: `FileRepaired` only says
  that a good file is written again.
* `matched_node_targets` passes over the second instance of a target, and its
  fabric with it: `MatterPlaced` asks for one instance.
* After a seeding a record without MAC may have the address of one with a MAC,
  until the next sweep: that clause of `NoDuplicates` is about sweeps.
* An entry of the kernel's neighbour cache counts as presence although it may
  be stale: `ActiveIsSeen` says what the sweep reports, not what is there.
* A newcomer that gets the address of a known device takes its record
  (`history.rs` 433-446, match by address). The displaced MAC then takes the record of
  its own new address, and so on, so in one sweep a record may go to a key that
  had one before, and what is left under the first key is new: `HandedOver` in
  `RecordsKept` and `NeverDowngraded`, `Newcomer` in `StatusLife`, which lets a
  status fall back in such a sweep. That two MACs merely exchange
  their addresses hands nothing over, as each is matched by its own key first.

bthome

* A second press with the same payload within the window, and copies that one
  gateway sends again, count as duplicates; when an upsert failed, the copies
  that come after it are duplicates too (`unsent`).
* Two packets of a device that are handled at once both read the telemetry
  before either stores it (`raced`).
* A request that is dropped after the telemetry has its packet leaves the
  supervisor behind until the next packet (`unsent`).
* The ignore list is read once at the start, while the web module edits its
  file.

philips-hue

* A pairing request that is given up while the bridge is asked leaves the flag
  up (`main.rs` 567-575): `cancelled` in `PairingTold`.

Web

* A rename leaves the room under the id of its old name; a document, a room or
  an import with the old name then overwrites it. Two renames that overlap
  leave documents with a name that no room has, as does one that is dropped while
  it waits for the documents, and a restart in the midst of a rename or of a
  save: all are in `Loosen` and `Interrupted`.
* A rename that listed the groups before one was deleted puts it back
  (`DeletedStays`). The default group is made again at a restart when the last
  one was deleted, and so are the documents of Govee devices.
* Rooms, groups and the ignore list are listed and written with no lock: of two
  saves the older one may be the last (`mixed`, `crossed`).
* A request that links devices on its own writes back a copy of all links, and
  links made meanwhile are lost (`LinksKept`); unlinking a pair that is linked
  automatically lasts until the next page. A link may lead to a device that is
  itself linked, which has no row then (`Flat`).
* A forget while an ingest is between its store and its upsert leaves a record
  in the supervisor that the module no longer has; a call that fails, or whose
  request is dropped, leaves the two apart (`missed`). The replacement of a
  dropped forget may arrive after the lock was let go and undo what was listed
  since.
* A request that is dropped between an order and its query leaves the cache to
  chance (`astray`), one that is dropped in a scene leaves the scene half done.
* A scan makes an entry that says the lamp is off (`guessed`); two toggles may
  decide by one entry.
* The edit of `device_history.json` by the web module races with its owner
  (`DiscoverySweep`).

One hazard has no property: an entry whose receiver is gone stays in the list
of subscribers until a command that matches it is sent (`service.rs` 187). That
is memory, not an answer, and the number of entries is bounded only by the
number of connections that break.

### Bounds, and why they are enough

* RuntimeState: two known ids and a stranger, two devices, lists of up to two
  records: a list with a stored and a foreign record, two records of one key
  and devices of two owners occur.
* Supervisor: with two modules a tick visits one child while the other dies;
  one call in flight is enough for a call that overtakes a mark, and the
  outsider run has two calls of one id and two lives of the supervisor. The
  list of one device record stands for any list: `RuntimeState` has the rest.
* CommandBus: capacity 2 instead of 32, so that the greeting and one command
  fill a channel; two subscriptions allow one client to be listed twice, or
  two clients; three commands allow a loss between two deliveries.
* DiscoverySweep: two keys and two ids, so that the records share one or have
  each their own (one device forgotten, one that stays, reported at two
  addresses); one fault, one edit, two starts: enough for each recovery and for
  a forget between any two steps of the loop.
* SocketLifecycle: three instances and no bound at all: one serves, one starts
  and one is killed.
* HueModule: one lamp, and one sensor, for lights are independent and
  sensors are only read; one request beside the loop, the command task and the
  initial synchronisation (several at once are in the proofs alone); two orders, one change and one fault, which need no
  more to make a stale copy the last one written.
* BTHome: two sockets of one gateway, one request, the worker and the
  heartbeat; three inputs, one fault. Messages are a battery packet with an
  object that is cut off, the same packet in the list of a relay after an
  ignored device, and a press that the gateway has decoded. `Window` 2 and
  `MaxTime` 2 give copies inside the window and at its end; what is pruned at
  twice the window needs more time and is in the proof alone. `LogSize` 2
  instead of 100 lets the event log overflow. The one fault is a call that
  fails or a request that is dropped.
* NetworkScan: two stations and two addresses, so that they exchange
  addresses or one gets that of the other; a VPN peer with the MAC of the
  gateway, a switch that the router lists without an address, two instances of
  one Matter target and a Thread node, Home Assistant on the laptop; documented
  are a phone by its MAC, an address, and a lamp of another module. Three
  moves, silent sources, wrong flags of the router, commands or restarts; a lost
  probe and an entry of the router that is missing or without MAC count twice.
  The takeover run has four on a network without Matter and switches.
* Web: two names, two requests under way and three inputs (requests, failed
  calls, drops, restarts), which is a request that overtakes another one and a third
  or a restart between their steps. Two keys, one light group, two BLE devices
  of which one is reported under two spellings, two network records of one
  address, a Govee strip and a Hue bulb, at most two packets on a wire.

`MaxBatch`, `Calls`, `MaxStarts`, `Slots`, `MaxSends`, `MaxFaults`, `MaxEdits`,
`MaxOrders`, `MaxMoves`, `MaxInputs`, `MaxTime` and `MaxWire` are bounds of the
models and not of the code; `Cap`, `Window` and `LogSize` are small values of
numbers that the code has. Deadlock is not checked where the bounds, or the end
of the supervisor, let the system stop. In the web run it is: `Rest` says that
the module may only wait for ever when no request is under way.

### Assumptions about the environment

* Web: a file write succeeds and is whole (`DiscoverySweep` and `HueModule`
  have the ones that do not); the supervisor answers at a restart; the
  substring match of `is_ignored` is an equality; a call of a dropped
  request keeps the slot of the request until it has arrived or is lost (the
  theorems hold for any number of slots); a room scene reads the
  documents and the snapshot together, and in the checked instance the
  documents are those of the start; a start makes one Govee scan; packets
  between two ends stay in order, without which the cache could keep the answer
  to an older query.
* History: the sweep loop saves the store whenever it changes, so a restart
  finds it as it is; MAC addresses are compared as they are.

### Fairness

* Supervisor: weak fairness of the handlers, of the monitor, of the launch and
  of the shutdown: tokio runs every task that can run. Strong fairness of
  `StopChildren` and of `MonitorExit`: the children lock is a tokio Mutex,
  which is granted in the order of the requests, and a tick is due only every
  500 ms, so neither can be passed over forever. Modules, signals and crashes
  have none.
* DiscoverySweep: weak fairness of the loop (`LoopMoves`): calls and scans end by their
  timeouts and the ticker fires. Commands, edits and restarts have none, and
  faults are finitely many.
* BTHome: strong fairness of the next step of each task and of the heartbeat:
  calls end, and a tokio Mutex is granted in the order of the requests. Weak
  fairness of the worker. Gateways and requests have none.
* HueModule: strong fairness of what each task does next: calls end by their
  timeouts, a tokio Mutex is granted in the order of the requests and the
  ticker fires. `FairSpec` adds that clients give up: the
  web module, which is the client, sets timeouts of 0.5 to 6 seconds
  (`web/main.rs` 979, 998, 1020). hue_blocked is without it.

The other modules are checked for safety only.

## Proofs

The theorems hold for all values of the constants under the named assumptions
of the modules (known ids are ids, bounds are naturals, `Cap` at least 1,
`Missing`, `Nobody` and `Broken` are none of the values beside which they are
used, a document's key or a name is what its set says, "none" is no MAC, files,
stations and nodes are finite).

* **SupervisorProofs**: first the inventory: `StateTypeOK` with
  `InventoryConsistent` is inductive, and lemmas about `StoreDevices` say what a
  half-applied list leaves behind; `OneOwner` follows step by step. Then the
  supervisor: the invariant conjoins types, the lock discipline and
  the truth of the disconnected marks. The lock discipline is needed because
  `NoFalseAlarm` rests on a child being marked only after it was given up in
  the same tick; the listing of every running child (in `TypeOK`) is needed
  for `NoChildSurvives`, as the drop of the list reaches nothing else.
  `OneServer` adds to the invariant that every process that is served is
  registered (`Served`): ids stay registered (`RegisteredGrows`), so a second
  registration is refused and no second process begins to be served
  (`BeginsToServe`), whatever calls are on their way; after a
  crash what is left of an id is one outsider (`CrashServes`).
  `StaysDead` needs `NothingGivenUp` besides: while children are launched none
  has been given up, so none that is dead is launched again.
* **CommandBusProofs**: `InOrder` is not inductive. The invariant adds
  `Channels` (numbers in a channel increase and the greeting is only first),
  `Sessions` (who owns a stream that is read, and what it got through it) and
  `Unread` (what a stream may still deliver is later than everything its
  client got).
* **DiscoverySweepProofs**: `Settled` needs `UpdateFresh`: a list on its way
  has the ids of the history, each with the state of a record that has it,
  unless a forget has put a token into the
  trigger channel. `ForgottenStaysAway` needs `Away`: the device is not in the
  file either, where the next start would find it.
* **SocketLifecycleProofs**: `ProbeHonoured` for any instances, from `Probed`;
  the rest of `Handover` from `Solo`: until something overlaps, an instance
  that removes, binds or ends is alone with a path that nobody serves.
  `Exclusive` alone is not inductive: a start past its probe would break it.
* **BTHomeProofs**: for any number of connections, requests and gateways.
  `WindowExact` speaks of the history of admitted packets; `WindowInv` ties it
  to what the code has: a record is the latest packet of its key, and a packet
  whose record was pruned is older than a window. `BatteryKept` and
  `SupervisorCurrent` rest on `TelemetryInv`: a device that is not raced is in
  the hands of one task, whose copy is what the telemetry has plus its own
  packet, up to the store, and equals the telemetry after it; so what it sends
  last is what the module knows; a task that is dropped before that leaves its
  device among the `unsent` ones. `SessionsRight` needs that the counter is the
  number of sessions between their two updates (`CountInv`), and that exactly
  the task that is calling holds the client (`ClientInv`). How a payload is
  parsed does not matter to any of them: the walk over the bytes, which folds,
  stays an unknown value in these proofs and is checked by TLC.
* **HueModuleProofs**: types with the ownership of the locks; `FlagExplained`
  over one lemma for all steps that do not touch the flag; `PairingSaved` with
  `Saved`, the same fact for a task that is about to publish.
* **WebModuleProofs**: rooms, documents and groups for any number of requests
  under way. `RoomsInv` conjoins the shape of the slots (`Shaped`), the types
  of the stores, and one part for each kind of request: `RoomSaves` and
  `GroupSaves` say that while a store is not `mixed` one request saves it and
  its copy is the store; `DocsHeld` that one request holds the documents'
  lock, and that the file differs only while it does; `DeletedGone` that no
  request which could put a group back has listed it; `Named` restates
  `RoomsNamed` slot by slot, dropped renames and restarts included (their names
  are `loose`). Each of them has one lemma for the steps that
  leave it alone, one for a step that moves a request between two places that
  it treats alike, and one step per action.

  Links, BLE devices and the ignore list: `LinksInv` adds to `LinksKept` that
  each copy of the links in use has the kept ones. `BleInv` adds that one forget at a time
  holds the lock and replaces by what is stored, that no ingest is about to
  send a forgotten device, and that no replacement of a dropped forget lists
  one (`Straying`). `IgnoreInv` is the like of `RoomSaves`.

  `PageIsComplete` adds that links are pairs, in the store, the file and every
  copy (`PairsInv`). The table of the preferred records is a recursive
  function; that it has the values which its definition asks for is shown by
  the least number for which it would not (`LeastNat`), and so is that it
  names, for each address, a record with that address.

  The lights are `LightInv`. `CacheInv` is why `CacheAgrees` holds however
  orders, packets and listener overlap: each lamp that counts is *owed* (a
  request has it among the errands still to finish, and will end with a
  query), or *asked* (a query is on its wire with no order behind it), or
  *told* (no order is on its wire, and the last answer on the way says what it
  does), or the cache has it. `SceneInv` follows the three things a scene asks
  of a light (on, level, tone) one by one: each is in a pass to come, in an
  errand to be sent, in the last packet on the wire that touches it, or done.
  Every order of the scene that touches an aspect must ask what the scene
  wants of it (`Right`): brightness and tone switch a lamp on as well, which
  agrees with the power of every scene that has them, as `all_off` has no
  other pass. Both proofs need that packets between two ends stay in order. A
  request that is dropped takes its lamp out of the first (`astray`) where a
  query is missing, and ends the `goal` of the second.

* **NetworkScanProofs**: for any stations, addresses, files, names and silent
  sources. The invariant `ScanInv` joins three parts. `WorldOK` types the
  network, the leases and the neighbour cache. `ResultOK` says that every
  observation is well formed (an address of the network or none; only one
  with a MAC reports that a host is gone) and that the result of a scan
  answers them: `Listed`, `Distinct` (ids), `Apart` (of devices with an address
  only those without MAC share it), `Covers` (the observations) and `AllShown`
  (the Matter nodes). `Stored` says of the store that every record is under its
  own key, but for the seeds of devices of other modules (`Canonical`), and
  which records without MAC may have the address of one with a MAC (`OldGhosts`:
  seeds, until the next sweep).

  The scan is followed stage by stage: an aggregation makes one device of each
  key (`AggregatedIs`), VPN marks, fabrics and web pages change no id, address
  or MAC (`VpnMarkedIs`, `WithFabricsIs`, `PagesAre`), and what Matter and Home
  Assistant add has ids and addresses of its own (`MatterIs`, `HubIs`). So
  `ScanComplete` and `MatterPlaced` are the last stage.

  The history is followed device by device. In the middle of a sweep the store
  is not canonical: a record that was taken over by its address stands under a
  new key, and a device without MAC may leave a record under a key that is not
  its own. `MidSweep` is what holds then: what was not seen is as it was, what
  was seen has the address and state of a device with its key, a stray record's
  own key was seen as well, and a record of the old store is there, or it was
  handed over and a newcomer took one; two records without MAC have one id
  only when a device with it was seen (`SharedSeen`), and one that a device took
  by an address had this address under its own id before (`Displaced`), which is
  what `ActiveIsSeen` needs for records that the cleanup moves back to their
  ids. `cleanup_duplicates` then puts every record under its own key (`Keyed`),
  for every order in which the map may be walked and every record a ghost may be
  merged into (`CleanedIs`), and loses no record with a MAC. `ReconciledIs` puts
  the two together. From it follow `NoDuplicates`, `ActiveIsSeen`, `RecordsKept`
  and `NeverDowngraded`, and, with `LoadedIs` and `SeededIs` for
  the restart, that each step is one of `StatusLife` or a stutter (`LifeSpec`):
  a status falls back only in a sweep in which a MAC that had no record got one.

  The lists are folds. Each fold has a lemma that gives the sequence of its
  intermediate values (`AbsorbFold` to `HubFold`), so that a property of the
  result is an induction along that sequence, for a *set* of good positions
  (`Induct`); an order chosen by the code is a sequence with each element once
  (`Enumerates`). That needs the stations, files and nodes to be finite, which
  `StationAssumption` and `HistoryAssumption` say.

Only model-checked:

* All liveness properties (`CrashNoticed`, `ShutdownEnds`, `CommandsServed`,
  `FileRepaired`, `Converges`, `PollReturns`, `Drained`): the provers do not
  treat fairness and ENABLED.

## Not modelled

* Pages, styles and scripts of the web module, the sockets and answer parsers
  of the scanner, the script engine, the catalog and the identifiers: layout,
  I/O and lookup tables. What a script says of a device is an arbitrary value
  (`Scripts`).
* Of the web module: categories (902-923), Matter fabrics (2171-2201), adding a
  vendor or a product (2212-2244), saving a category definition, which replace
  one value under one lock; merge candidates (3011-3132), the analysis and ping
  routes, which only read or probe; the room names that a rename sends to the
  Hue bridge (1478-1526) and events that bthome forwards to the web module
  (1283-1289 there), which are single calls whose failure is ignored.
* `energy.rs`: one task that replaces one cached reading.
* `config.rs`: a pure function that is run once before anything starts. What the
  other modules need of it, that the ids of the modules are known and
  distinct, is there in that `Managed` is a subset of `KnownIds`.
* matter-controller and matter-bridge are stubs; `archive/` is not built.
* Texts, time stamps, versions and capabilities: no property is about them.

## Plan

1. What is left of the web module's routes that change state (categories,
   vendors and products) once they do more than replace a value.
2. Classification: that a specific kind found for a device is not lost in the
   scan itself; `NeverDowngraded` has it for the history.
3. Matter controller and bridge when they are more than stubs.
