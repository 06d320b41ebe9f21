---------------------------- MODULE RuntimeState ----------------------------
(***************************************************************************)
(* The central inventory of the supervisor: RuntimeState in                *)
(* crates/homenode-server/src/service.rs.  It lives behind one RwLock, so  *)
(* every RPC handler that writes it is one atomic action here.  Clients    *)
(* are arbitrary: any request a peer of the control socket can encode may  *)
(* arrive at any time.  Supervisor.tla restricts the requests to the ones  *)
(* the module processes send and adds their life cycle.                    *)
(***************************************************************************)
EXTENDS Integers, Sequences, FiniteSets

CONSTANTS
  Ids,           \* the module ids a request can carry
  KnownIds,      \* RESERVED_MODULE_IDS of the SDK
  DeviceIds,     \* device ids
  Bodies,        \* what else a device record carries (name, kind, metadata)
  HealthStates,  \* the HealthState enumeration of the proto file
  Missing,       \* an optional proto message that is not set
  MaxBatch       \* bound: the longest device list of one upsert request

ASSUME IdAssumption == KnownIds \subseteq Ids /\ Missing \notin Ids
ASSUME BatchAssumption == MaxBatch \in Nat

VARIABLES
  modules,       \* id |-> ModuleRuntime, for the registered ids
  devices        \* <<module_id, device_id>> |-> DeviceRecord

state == <<modules, devices>>

ModuleHealth  == [module_id : Ids, state : HealthStates]
ModuleRuntime == [manifest : KnownIds, health : HealthStates,
                  connected : BOOLEAN]
DeviceRecord  == [module_id : Ids, device_id : DeviceIds, body : Bodies]
Keys          == KnownIds \X DeviceIds
NoModules     == [id \in {} |-> Missing]
NoDevices     == [key \in {} |-> Missing]

\* Requests
ModuleRegistration ==
  [manifest : Ids \union {Missing}, initial_health : ModuleHealth \union {Missing}]
Batches == UNION { [1..n -> DeviceRecord] : n \in 0..MaxBatch }
UpsertDevicesRequest ==
  [module_id : Ids, devices : Batches, replace_all : BOOLEAN]

Registered == DOMAIN modules
Key(record) == <<record.module_id, record.device_id>>

-----------------------------------------------------------------------------
\* Mutant: an id that is registered already may be registered again.
RegistrationValid_Again(reg) ==
  /\ reg.manifest # Missing
  /\ reg.initial_health # Missing
  /\ reg.manifest = reg.initial_health.module_id
  /\ reg.manifest \in KnownIds

\* register_module: the early returns, in one predicate.
RegistrationValid(reg) ==
  /\ reg.manifest # Missing
  /\ reg.initial_health # Missing
  /\ reg.manifest = reg.initial_health.module_id
  /\ reg.manifest \in KnownIds
  /\ reg.manifest \notin Registered

RegisterModule(reg) ==
  /\ RegistrationValid(reg)
  /\ modules' = [id \in Registered \union {reg.manifest} |->
                   IF id = reg.manifest
                   THEN [manifest |-> reg.manifest,
                         health |-> reg.initial_health.state,
                         connected |-> TRUE]
                   ELSE modules[id]]
  /\ UNCHANGED devices

RejectRegistration(reg) == ~RegistrationValid(reg) /\ UNCHANGED state

\* update_health: a report also marks the module connected again.
UpdateHealth(report) ==
  /\ report.module_id \in Registered
  /\ modules' = [modules EXCEPT ![report.module_id].health = report.state,
                                ![report.module_id].connected = TRUE]
  /\ UNCHANGED devices

RejectHealth(report) == report.module_id \notin Registered /\ UNCHANGED state

\* replace_devices stores the records in order and returns at the first one
\* that names another module: the records before it stay stored.
Foreign(req) ==
  {i \in 1..Len(req.devices) : req.devices[i].module_id # req.module_id}

\* Mutant: the module id of each record is not compared with the request's.
Stored_AnyOwner(req) == 1..Len(req.devices)

Stored(req) ==
  {i \in 1..Len(req.devices) : \A j \in Foreign(req) : i < j}

Written(req) == {Key(req.devices[i]) : i \in Stored(req)}

\* The record that a key holds after the loop is the last one stored for it.
IsLastFor(i, key, req) ==
  /\ Key(req.devices[i]) = key
  /\ \A j \in Stored(req) : Key(req.devices[j]) = key => j <= i

Retained(req) ==
  {key \in DOMAIN devices : ~(req.replace_all /\ key[1] = req.module_id)}

StoreDevices(req) ==
  \E last \in [Written(req) -> Stored(req)] :
    /\ \A key \in Written(req) : IsLastFor(last[key], key, req)
    /\ devices' = [key \in Retained(req) \union Written(req) |->
                     IF key \in Written(req) THEN req.devices[last[key]]
                     ELSE devices[key]]

\* Mutant: the list is stored without asking whether the module is registered.
ReplaceDevices_Unregistered(req) == StoreDevices(req) /\ UNCHANGED modules

ReplaceDevices(req) ==
  /\ req.module_id \in Registered
  /\ StoreDevices(req)
  /\ UNCHANGED modules

RejectUpsert(req) == req.module_id \notin Registered /\ UNCHANGED state

\* mark_disconnected: only the monitor of the supervisor calls it.
MarkDisconnected(id) ==
  /\ modules' = IF id \in Registered
                THEN [modules EXCEPT ![id].connected = FALSE]
                ELSE modules
  /\ UNCHANGED devices

\* The state is memory of the supervisor process: a new one starts empty.
Reset == modules' = NoModules /\ devices' = NoDevices

-----------------------------------------------------------------------------
StateInit == modules = NoModules /\ devices = NoDevices

StateNext ==
  \/ \E reg \in ModuleRegistration :
       RegisterModule(reg) \/ RejectRegistration(reg)
  \/ \E report \in ModuleHealth : UpdateHealth(report) \/ RejectHealth(report)
  \/ \E req \in UpsertDevicesRequest : ReplaceDevices(req) \/ RejectUpsert(req)
  \/ \E id \in KnownIds : MarkDisconnected(id)
  \/ Reset

StateSpec == StateInit /\ [][StateNext]_state

-----------------------------------------------------------------------------
\* Types of the two maps.
StateTypeOK ==
  /\ Registered \subseteq KnownIds
  /\ modules \in [Registered -> ModuleRuntime]
  /\ DOMAIN devices \subseteq Keys
  /\ devices \in [DOMAIN devices -> DeviceRecord]

\* The two maps and the records in them agree: a runtime and a device record
\* sit under the ids they carry, and every device of the inventory belongs to
\* a module that has registered, whatever mixture of rejected, partly applied
\* and repeated requests produced the inventory (service.rs 75-97).
InventoryConsistent ==
  /\ \A id \in Registered : modules[id].manifest = id
  /\ \A key \in DOMAIN devices :
       /\ Key(devices[key]) = key
       /\ key[1] \in Registered

Slice(id) == [key \in {k \in DOMAIN devices : k[1] = id} |-> devices[key]]

\* A step of the service never touches the devices of two modules, even when
\* it fails half way through a list that names a foreign module; only a new
\* supervisor process drops everything.
OneOwnerPerStep ==
  \A a, b \in KnownIds :
    (Slice(a)' # Slice(a) /\ Slice(b)' # Slice(b)) => (a = b \/ Reset)
OneOwnerChanges == [][OneOwnerPerStep]_state
=============================================================================
