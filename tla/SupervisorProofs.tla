--------------------------- MODULE SupervisorProofs ---------------------------
(***************************************************************************)
(* Theorems about the inventory of RuntimeState and about the supervisor,  *)
(* for every set of ids, modules, outsiders, devices, bodies and call      *)
(* slots and every batch bound.  The inductive invariant IInv of the       *)
(* supervisor couples the inventory (Inv) with the life cycle: without the *)
(* lock discipline a child could be marked disconnected that nobody gave   *)
(* up, and without the types of the calls in flight a late handler could   *)
(* put anything into the inventory.                                        *)
(***************************************************************************)
EXTENDS Supervisor, TLAPS

-----------------------------------------------------------------------------
(* The inventory                                                           *)

\* What the loop of one upsert leaves behind: every key of the new inventory
\* keeps its retained record or holds a stored record that carries it, and
\* the stored records are the request's own.
LEMMA UpsertEffect ==
  ASSUME NEW req \in UpsertDevicesRequest, StoreDevices(req)
  PROVE  /\ devices' = [key \in DOMAIN devices' |-> devices'[key]]
         /\ Retained(req) \subseteq DOMAIN devices'
         /\ \A key \in DOMAIN devices' :
              \/ key \in Retained(req) /\ devices'[key] = devices[key]
              \/ /\ devices'[key] \in DeviceRecord
                 /\ devices'[key].module_id = req.module_id
                 /\ Key(devices'[key]) = key
<1>1. PICK last \in [Written(req) -> Stored(req)] :
        /\ \A key \in Written(req) : IsLastFor(last[key], key, req)
        /\ devices' = [key \in Retained(req) \union Written(req) |->
                         IF key \in Written(req) THEN req.devices[last[key]]
                         ELSE devices[key]]
  BY DEF StoreDevices
<1>2. ASSUME NEW i \in Stored(req)
      PROVE  /\ req.devices[i] \in DeviceRecord
             /\ req.devices[i].module_id = req.module_id
  <2>1. PICK k \in 0..MaxBatch : req.devices \in [1..k -> DeviceRecord]
    BY DEF UpsertDevicesRequest, Batches
  <2>2. k \in Nat /\ Len(req.devices) = k
    BY <2>1, BatchAssumption
  <2>3. i \in 1..k /\ i \notin Foreign(req)
    BY <2>2 DEF Stored, Foreign
  <2>. QED BY <2>1, <2>2, <2>3 DEF Foreign
<1>3. ASSUME NEW key \in Written(req)
      PROVE  /\ devices'[key] \in DeviceRecord
             /\ devices'[key].module_id = req.module_id
             /\ Key(devices'[key]) = key
  <2>1. devices'[key] = req.devices[last[key]] /\ last[key] \in Stored(req)
    BY <1>1
  <2>. QED BY <1>1, <1>2, <2>1 DEF IsLastFor
<1>4. ASSUME NEW key \in Retained(req) \ Written(req)
      PROVE  devices'[key] = devices[key]
  BY <1>1
<1>. QED BY <1>1, <1>3, <1>4

-----------------------------------------------------------------------------
\* Types and consistency are inductive together: the owner of a stored record
\* is the request's module id, which the guard found registered.
Inv == StateTypeOK /\ InventoryConsistent

LEMMA InitInv == StateInit => Inv
BY DEF StateInit, Inv, StateTypeOK, InventoryConsistent, Registered,
       NoModules, NoDevices

LEMMA ResetInv == ASSUME Reset PROVE Inv'
BY DEF Reset, Inv, StateTypeOK, InventoryConsistent, Registered,
       NoModules, NoDevices

LEMMA RegisterInv ==
  ASSUME Inv, NEW reg \in ModuleRegistration, RegisterModule(reg)
  PROVE  Inv'
<1>1. /\ reg.manifest \in KnownIds
      /\ reg.initial_health \in ModuleHealth
  BY DEF RegisterModule, RegistrationValid, ModuleRegistration
<1>2. reg.initial_health.state \in HealthStates
  BY <1>1 DEF ModuleHealth
<1>3. /\ Registered' = Registered \union {reg.manifest}
      /\ modules' \in [Registered' -> ModuleRuntime]
      /\ \A id \in Registered' : modules'[id].manifest = id
  BY <1>1, <1>2 DEF RegisterModule, Registered, Inv, StateTypeOK, ModuleRuntime,
                    InventoryConsistent
<1>. QED BY <1>1, <1>3 DEF RegisterModule, Inv, StateTypeOK, InventoryConsistent

LEMMA HealthInv ==
  ASSUME Inv, NEW report \in ModuleHealth, UpdateHealth(report)
  PROVE  Inv'
<1>1. /\ Registered' = Registered
      /\ modules' \in [Registered' -> ModuleRuntime]
      /\ \A id \in Registered' : modules'[id].manifest = id
  BY DEF UpdateHealth, Registered, Inv, StateTypeOK, ModuleRuntime,
         InventoryConsistent, ModuleHealth
<1>. QED BY <1>1 DEF UpdateHealth, Inv, StateTypeOK, InventoryConsistent

LEMMA DisconnectInv ==
  ASSUME Inv, NEW id \in KnownIds, MarkDisconnected(id)
  PROVE  Inv'
<1>1. /\ Registered' = Registered
      /\ modules' \in [Registered' -> ModuleRuntime]
      /\ \A m \in Registered' : modules'[m].manifest = m
  BY DEF MarkDisconnected, Registered, Inv, StateTypeOK, ModuleRuntime,
         InventoryConsistent
<1>. QED BY <1>1 DEF MarkDisconnected, Inv, StateTypeOK, InventoryConsistent

LEMMA UpsertInv ==
  ASSUME Inv, NEW req \in UpsertDevicesRequest, ReplaceDevices(req)
  PROVE  Inv'
<1>1. /\ req.module_id \in Registered
      /\ StoreDevices(req)
      /\ UNCHANGED modules
  BY DEF ReplaceDevices
<1>2. ASSUME NEW key \in DOMAIN devices'
      PROVE  /\ key \in Keys
             /\ devices'[key] \in DeviceRecord
             /\ Key(devices'[key]) = key
             /\ key[1] \in Registered
  <2>1. CASE key \in Retained(req) /\ devices'[key] = devices[key]
    BY <2>1 DEF Retained, Inv, StateTypeOK, InventoryConsistent
  <2>2. CASE /\ devices'[key] \in DeviceRecord
             /\ devices'[key].module_id = req.module_id
             /\ Key(devices'[key]) = key
    BY <1>1, <2>2 DEF Key, Keys, DeviceRecord, Inv, StateTypeOK
  <2>. QED BY <1>1, <2>1, <2>2, UpsertEffect
<1>3. devices' \in [DOMAIN devices' -> DeviceRecord]
  BY <1>1, <1>2, UpsertEffect
<1>4. Registered' = Registered
  BY <1>1 DEF Registered
<1>. QED BY <1>1, <1>2, <1>3, <1>4 DEF Inv, StateTypeOK, InventoryConsistent

LEMMA NextInv == Inv /\ [StateNext]_state => Inv'
<1> SUFFICES ASSUME Inv, [StateNext]_state PROVE Inv'
  OBVIOUS
<1>1. CASE UNCHANGED state
  BY <1>1 DEF state, Inv, StateTypeOK, InventoryConsistent, Registered
<1>2. ASSUME NEW reg \in ModuleRegistration,
             RegisterModule(reg) \/ RejectRegistration(reg)
      PROVE  Inv'
  BY <1>1, <1>2, RegisterInv DEF RejectRegistration
<1>3. ASSUME NEW report \in ModuleHealth,
             UpdateHealth(report) \/ RejectHealth(report)
      PROVE  Inv'
  BY <1>1, <1>3, HealthInv DEF RejectHealth
<1>4. ASSUME NEW req \in UpsertDevicesRequest,
             ReplaceDevices(req) \/ RejectUpsert(req)
      PROVE  Inv'
  BY <1>1, <1>4, UpsertInv DEF RejectUpsert
<1>. QED BY <1>1, <1>2, <1>3, <1>4, DisconnectInv, ResetInv DEF StateNext

\* The maps of the runtime state are always well typed.
THEOREM TypeCorrect == StateSpec => []StateTypeOK
<1>1. Inv => StateTypeOK
  BY DEF Inv
<1>. QED BY <1>1, InitInv, NextInv, PTL DEF StateSpec

\* Every device of the inventory belongs to a registered module and sits
\* under its own key (service.rs 75-97), whatever requests have arrived.
THEOREM Consistent == StateSpec => []InventoryConsistent
<1>1. Inv => InventoryConsistent
  BY DEF Inv
<1>. QED BY <1>1, InitInv, NextInv, PTL DEF StateSpec

-----------------------------------------------------------------------------
\* One upsert leaves the slice of every other module as it was.
LEMMA UpsertIsolation ==
  ASSUME Inv, NEW req \in UpsertDevicesRequest, ReplaceDevices(req),
         NEW id \in KnownIds, id # req.module_id
  PROVE  Slice(id)' = Slice(id)
<1> DEFINE Own == {k \in DOMAIN devices : k[1] = id}
           OwnNext == {k \in DOMAIN devices' : k[1] = id}
<1>1. StoreDevices(req)
  BY DEF ReplaceDevices
<1>2. ASSUME NEW key \in Own
      PROVE  key \in Retained(req) /\ key \in DOMAIN devices'
  BY <1>1, UpsertEffect DEF Retained
<1>3. ASSUME NEW key \in OwnNext
      PROVE  key \in Own /\ devices'[key] = devices[key]
  <2>1. CASE key \in Retained(req) /\ devices'[key] = devices[key]
    BY <2>1 DEF Retained
  <2>2. CASE devices'[key].module_id = req.module_id /\ Key(devices'[key]) = key
    BY <2>2 DEF Key
  <2>. QED BY <1>1, <2>1, <2>2, UpsertEffect
<1>4. Own = OwnNext
  BY <1>2, <1>3
<1>5. \A key \in Own : devices'[key] = devices[key]
  BY <1>3, <1>4
<1> HIDE DEF Own, OwnNext
<1>6. [key \in OwnNext |-> devices'[key]] = [key \in Own |-> devices[key]]
  BY <1>4, <1>5
<1>. QED BY <1>6 DEF Slice, Own, OwnNext

\* No step changes the devices of two modules, a step that fails half way
\* included (service.rs 80-94); only a new supervisor drops everything.
THEOREM OneOwner == StateSpec => OneOwnerChanges
<1>1. ASSUME Inv, [StateNext]_state PROVE [OneOwnerPerStep]_state
  <2>1. CASE UNCHANGED devices
    BY <2>1 DEF OneOwnerPerStep, Slice
  <2>2. ASSUME NEW req \in UpsertDevicesRequest, ReplaceDevices(req)
        PROVE  OneOwnerPerStep
    <3> SUFFICES ASSUME NEW a \in KnownIds, NEW b \in KnownIds,
                        Slice(a)' # Slice(a), Slice(b)' # Slice(b)
                 PROVE  a = b
      BY DEF OneOwnerPerStep
    <3>. QED BY <1>1, <2>2, UpsertIsolation
  <2>3. CASE Reset
    BY <2>3 DEF OneOwnerPerStep
  <2>. QED BY <1>1, <2>1, <2>2, <2>3
           DEF StateNext, state, RegisterModule, RejectRegistration,
               UpdateHealth, RejectHealth, RejectUpsert, MarkDisconnected
<1>. QED BY <1>1, InitInv, NextInv, PTL DEF StateSpec, OneOwnerChanges

-----------------------------------------------------------------------------
(* The supervisor                                                          *)


IInv ==
  /\ TypeOK
  /\ InventoryConsistent
  /\ LockDiscipline
  /\ NoFalseAlarm
  /\ NoChildSurvives

LEMMA MissingIsNoId == Missing \notin Managed
BY IdAssumption, ManagedAssumption

LEMMA ProcsFacts ==
  /\ \A m \in Managed : Child(m) \in Procs /\ Child(m)[1] = m /\ Child(m)[2] = "child"
  /\ \A p \in Procs : /\ p[1] \in KnownIds
                      /\ p[2] \in {"child", "outsider"}
                      /\ p[2] = "child" => p[1] \in Managed /\ p = Child(p[1])
                      /\ Ended(p) \in {"gone", "none"}
BY ManagedAssumption DEF Procs, Child, Outsider, Ended

\* Every call in flight carries a request of the type its handler expects.
LEMMA CallTypes ==
  ASSUME TypeOK, NEW c \in Calls, call[c] # Missing
  PROVE  /\ call[c].from \in Procs
         /\ call[c].op = "register" => call[c].req \in ModuleRegistration
         /\ call[c].op = "health" => call[c].req \in ModuleHealth
         /\ call[c].op = "upsert" => call[c].req \in UpsertDevicesRequest
<1>1. PICK p \in Procs : call[c] \in CallsOf(p)
  BY DEF TypeOK, ControlTypeOK, AllCalls
<1>2. p[1] \in Ids
  BY ProcsFacts, IdAssumption
<1>3. /\ Registration(p[1]) \in ModuleRegistration
      /\ Report(p[1]) \in ModuleHealth
  BY <1>2, HealthAssumption DEF Registration, Report, ModuleRegistration, ModuleHealth
<1>4. Upserts(p[1]) \subseteq UpsertDevicesRequest
  BY <1>2 DEF Upserts, UpsertDevicesRequest, OwnBatches
<1>. QED BY <1>1, <1>3, <1>4 DEF CallsOf

-----------------------------------------------------------------------------
(* A step of the supervisor is a step of the inventory service of          *)
(* RuntimeState or leaves the inventory alone.                             *)

LEMMA HandleStep ==
  ASSUME TypeOK, NEW c \in Calls, Handle(c)
  PROVE  StateNext
<1>1. call[c] # Missing
  BY DEF Handle
<1>2. CASE HandleRegister(c)
  BY <1>1, <1>2, CallTypes DEF HandleRegister, StateNext
<1>3. CASE HandleHealth(c)
  BY <1>1, <1>3, CallTypes DEF HandleHealth, StateNext
<1>4. CASE HandleUpsert(c)
  BY <1>1, <1>4, CallTypes DEF HandleUpsert, StateNext
<1>. QED BY <1>2, <1>3, <1>4 DEF Handle

LEMMA InventoryStep == TypeOK /\ [Next]_vars => [StateNext]_state
<1> SUFFICES ASSUME TypeOK, [Next]_vars PROVE [StateNext]_state
  OBVIOUS
<1>1. CASE UNCHANGED vars
  BY <1>1 DEF vars, state
<1>2. CASE ModuleNext
  BY <1>2 DEF ModuleNext, Exit, Join, Issue, StartOutsider
<1>3. CASE ServerNext
  BY <1>3, HandleStep DEF ServerNext, LoseCall
<1>4. CASE MonitorNext
  BY <1>4, ManagedAssumption
     DEF MonitorNext, MonitorTick, PollSkip, PollGiveUp, PollMark, MonitorExit, StateNext
<1>5. CASE LaunchNext
  BY <1>5 DEF LaunchNext, LaunchDone, SpawnFails, SpawnModule, Leave
<1>6. CASE StopNext
  BY <1>6 DEF StopNext, StopChildren, Return, StopChild, Leave
<1>7. CASE ShutdownSignal \/ Crash \/ Start
  BY <1>7 DEF ShutdownSignal, Crash, Start, StateNext
<1>. QED BY <1>1, <1>2, <1>3, <1>4, <1>5, <1>6, <1>7 DEF Next

-----------------------------------------------------------------------------
LEMMA InitIInv == Init => IInv
<1> SUFFICES ASSUME Init PROVE IInv
  OBVIOUS
<1>1. Inv
  BY InitInv DEF Init
<1>2. /\ proc \in [Procs -> Live \union {"none", "gone"}]
      /\ ChildrenListed
  BY ProcsFacts DEF Init, Alive, Live, ChildrenListed
<1>3. Registered = {}
  BY DEF Init, StateInit, NoModules, Registered
<1>4. /\ call \in [Calls -> AllCalls \union {Missing}]
      /\ starts \in 1..MaxStarts
      /\ phase \in Phases
  BY StartAssumption DEF Init, NoCalls, Phases
<1>5. ControlTypeOK
  BY <1>2, <1>4 DEF Init, ControlTypeOK
<1>6. LockDiscipline
  BY DEF Init, LockDiscipline
<1>7. NoFalseAlarm /\ NoChildSurvives
  BY <1>3 DEF Init, NoFalseAlarm, NoChildSurvives
<1>. QED BY <1>1, <1>2, <1>5, <1>6, <1>7 DEF IInv, Inv, TypeOK

-----------------------------------------------------------------------------
(* The control part of TypeOK, one group of actions at a time.             *)

LEMMA CallInType ==
  ASSUME NEW p \in Procs, NEW new \in CallsOf(p)
  PROVE  new \in AllCalls
BY DEF AllCalls

LEMMA ModuleTypes ==
  ASSUME ControlTypeOK, ChildrenListed, ModuleNext
  PROVE  ControlTypeOK' /\ ChildrenListed'
<1>1. ASSUME NEW p \in Procs, Exit(p)
      PROVE  ControlTypeOK' /\ ChildrenListed'
  BY <1>1, ProcsFacts DEF Exit, ControlTypeOK, ChildrenListed, Alive, Live, Ended,
                          supervisorVars, state
<1>2. ASSUME NEW p \in Procs, NEW c \in Calls, Join(p, c)
      PROVE  ControlTypeOK' /\ ChildrenListed'
  <2>1. [from |-> p, op |-> "register", req |-> Registration(p[1])] \in AllCalls
    BY CallInType DEF CallsOf
  <2>. QED BY <1>2, <2>1, ProcsFacts
           DEF Join, ControlTypeOK, ChildrenListed, Alive, Live, supervisorVars
<1>3. ASSUME NEW p \in Procs, NEW c \in Calls, Issue(p, c)
      PROVE  ControlTypeOK' /\ ChildrenListed'
  BY <1>3, CallInType
     DEF Issue, ControlTypeOK, ChildrenListed, Alive, Live, supervisorVars
<1>4. ASSUME NEW m \in Outsiders, StartOutsider(m)
      PROVE  ControlTypeOK' /\ ChildrenListed'
  <2>1. /\ \A k \in Managed : Child(k) # Outsider(m)
        /\ proc' = [proc EXCEPT ![Outsider(m)] = "boot"]
        /\ UNCHANGED <<supervisorVars, call>>
    BY <1>4 DEF StartOutsider, Child, Outsider
  <2>2. proc' \in [Procs -> Live \union {"none", "gone"}]
    BY <2>1 DEF ControlTypeOK, Live
  <2>3. \A k \in Managed : Alive(Child(k))' => Alive(Child(k))
    BY <2>1, ProcsFacts DEF ControlTypeOK, Alive
  <2>. QED BY <2>1, <2>2, <2>3 DEF ControlTypeOK, ChildrenListed, supervisorVars
<1>. QED BY <1>1, <1>2, <1>3, <1>4 DEF ModuleNext

LEMMA ServerTypes ==
  ASSUME TypeOK, ServerNext
  PROVE  ControlTypeOK' /\ ChildrenListed'
<1> USE DEF TypeOK
<1>1. ASSUME NEW c \in Calls, Handle(c)
      PROVE  ControlTypeOK' /\ ChildrenListed'
  <2>1. call[c].from \in Procs /\ Ended(call[c].from) \in {"gone", "none"}
    BY <1>1, CallTypes, ProcsFacts DEF Handle
  <2>2. /\ proc' \in [Procs -> Live \union {"none", "gone"}]
        /\ \A p \in Procs : Alive(p)' => Alive(p)
    BY <1>1, <2>1 DEF Handle, HandleRegister, HandleHealth, HandleUpsert, Answer,
                      ControlTypeOK, Alive, Live
  <2>3. call' \in [Calls -> AllCalls \union {Missing}]
    BY <1>1 DEF Handle, ControlTypeOK
  <2>. QED BY <1>1, <2>2, <2>3, ProcsFacts
           DEF Handle, ControlTypeOK, ChildrenListed, supervisorVars
<1>2. ASSUME NEW c \in Calls, LoseCall(c)
      PROVE  ControlTypeOK' /\ ChildrenListed'
  BY <1>2 DEF LoseCall, ControlTypeOK, ChildrenListed, Alive, supervisorVars
<1>. QED BY <1>1, <1>2 DEF ServerNext

LEMMA MonitorTypes ==
  ASSUME ControlTypeOK, ChildrenListed, MonitorNext
  PROVE  ControlTypeOK' /\ ChildrenListed'
BY DEF MonitorNext, MonitorTick, PollSkip, PollGiveUp, PollMark, MonitorExit,
       ControlTypeOK, ChildrenListed, Alive

LEMMA LeaveTypes ==
  ASSUME ControlTypeOK, ChildrenListed, Leave
  PROVE  ControlTypeOK' /\ ChildrenListed' /\ NoChildSurvives'
<1>1. /\ proc' \in [Procs -> Live \union {"none", "gone"}]
      /\ \A m \in Managed : ~Alive(Child(m))'
  BY ProcsFacts DEF Leave, Unanswered, ControlTypeOK, ChildrenListed, Alive, Live
<1>2. call' \in [Calls -> AllCalls \union {Missing}]
  BY DEF Leave, NoCalls
<1>. QED BY <1>1, <1>2
         DEF Leave, ControlTypeOK, ChildrenListed, NoChildSurvives, Phases

LEMMA LaunchTypes ==
  ASSUME ControlTypeOK, ChildrenListed, LaunchNext
  PROVE  ControlTypeOK' /\ ChildrenListed'
<1>1. CASE LaunchDone
  BY <1>1 DEF LaunchDone, ControlTypeOK, ChildrenListed, Alive, Phases
<1>2. CASE SpawnFails
  BY <1>2, LeaveTypes DEF SpawnFails
<1>3. ASSUME NEW m \in Managed, SpawnModule(m)
      PROVE  ControlTypeOK' /\ ChildrenListed'
  BY <1>3, ProcsFacts DEF SpawnModule, ControlTypeOK, ChildrenListed, Alive, Live
<1>. QED BY <1>1, <1>2, <1>3 DEF LaunchNext

LEMMA StopTypes ==
  ASSUME ControlTypeOK, ChildrenListed, StopNext
  PROVE  ControlTypeOK' /\ ChildrenListed'
<1>1. CASE StopChildren
  BY <1>1 DEF StopChildren, ControlTypeOK, ChildrenListed, Alive, Phases
<1>2. CASE Return
  BY <1>2, LeaveTypes DEF Return
<1>3. ASSUME NEW m \in Managed, StopChild(m)
      PROVE  ControlTypeOK' /\ ChildrenListed'
  <2>1. /\ proc' \in [Procs -> Live \union {"none", "gone"}]
        /\ \A k \in Managed : Alive(Child(k))' => Alive(Child(k))
    BY <1>3, ProcsFacts DEF StopChild, ControlTypeOK, Alive, Live
  <2>2. exited' \in [Managed -> BOOLEAN]
    BY <1>3 DEF StopChild, ControlTypeOK
  <2>3. phase' \in Phases
    BY <1>3 DEF StopChild, ControlTypeOK, Phases
  <2>. QED BY <1>3, <2>1, <2>2, <2>3 DEF StopChild, ControlTypeOK, ChildrenListed
<1>. QED BY <1>1, <1>2, <1>3 DEF StopNext

LEMMA CrashTypes ==
  ASSUME ControlTypeOK, ChildrenListed, Crash
  PROVE  ControlTypeOK' /\ ChildrenListed'
<1>1. /\ proc' \in [Procs -> Live \union {"none", "gone"}]
      /\ \A m \in Managed : ~Alive(Child(m))'
  BY ProcsFacts DEF Crash, Unanswered, Ended, ControlTypeOK, Alive, Live
<1>2. call' \in [Calls -> AllCalls \union {Missing}]
  BY DEF Crash, NoCalls
<1>. QED BY <1>1, <1>2 DEF Crash, ControlTypeOK, ChildrenListed, Phases

LEMMA StartTypes ==
  ASSUME ControlTypeOK, LockDiscipline, Start
  PROVE  ControlTypeOK' /\ ChildrenListed'
<1>1. /\ proc' \in [Procs -> Live \union {"none", "gone"}]
      /\ \A m \in Managed : ~Alive(Child(m))'
  BY ProcsFacts DEF Start, ControlTypeOK, Alive, Live
<1>2. polling = {} /\ killing = {}
  BY DEF Start, Running, LockDiscipline
<1>3. starts' \in 1..MaxStarts
  BY StartAssumption DEF Start, ControlTypeOK
<1>. QED BY <1>1, <1>2, <1>3 DEF Start, ControlTypeOK, ChildrenListed, Phases

LEMMA NextTypes ==
  ASSUME TypeOK, LockDiscipline, [Next]_vars
  PROVE  ControlTypeOK' /\ ChildrenListed'
<1>1. ControlTypeOK /\ ChildrenListed
  BY DEF TypeOK
<1>2. CASE UNCHANGED vars
  BY <1>1, <1>2 DEF vars, supervisorVars, ControlTypeOK, ChildrenListed, Alive
<1>3. CASE ShutdownSignal
  BY <1>1, <1>3 DEF ShutdownSignal, ControlTypeOK, ChildrenListed, Alive, Phases
<1>. QED BY <1>1, <1>2, <1>3, ModuleTypes, ServerTypes, MonitorTypes, LaunchTypes,
            StopTypes, CrashTypes, StartTypes DEF Next

-----------------------------------------------------------------------------
(* The lock discipline.                                                    *)

LEMMA MonitorLock ==
  ASSUME TypeOK, LockDiscipline, MonitorNext
  PROVE  LockDiscipline'
<1>1. CASE MonitorTick
  BY <1>1 DEF MonitorTick, LockDiscipline
<1>2. ASSUME NEW m \in Managed, PollSkip(m)
      PROVE  LockDiscipline'
  BY <1>2 DEF PollSkip, LockDiscipline
<1>3. ASSUME NEW m \in Managed, PollGiveUp(m)
      PROVE  LockDiscipline'
  BY <1>3 DEF PollGiveUp, LockDiscipline, TypeOK, ControlTypeOK
<1>4. ASSUME NEW m \in Managed, PollMark(m)
      PROVE  LockDiscipline'
  BY <1>4, MissingIsNoId DEF PollMark, LockDiscipline
<1>5. CASE MonitorExit
  BY <1>5 DEF MonitorExit, LockDiscipline
<1>. QED BY <1>1, <1>2, <1>3, <1>4, <1>5 DEF MonitorNext

LEMMA StopLock ==
  ASSUME TypeOK, LockDiscipline, StopNext
  PROVE  LockDiscipline'
<1>1. CASE StopChildren
  BY <1>1 DEF StopChildren, LockDiscipline
<1>2. CASE Return
  BY <1>2 DEF Return, Leave, LockDiscipline
<1>3. ASSUME NEW m \in Managed, StopChild(m)
      PROVE  LockDiscipline'
  <2>1. /\ phase = "killing"
        /\ polling = {} /\ marking = Missing
    BY <1>3 DEF StopChild, LockDiscipline
  <2>. QED BY <1>3, <2>1 DEF StopChild, LockDiscipline
<1>. QED BY <1>1, <1>2, <1>3 DEF StopNext

LEMMA NextLock ==
  ASSUME TypeOK, LockDiscipline, [Next]_vars
  PROVE  LockDiscipline'
<1>1. CASE UNCHANGED vars \/ ModuleNext \/ ServerNext
  <2>1. UNCHANGED supervisorVars
    BY <1>1 DEF vars, ModuleNext, Exit, Join, Issue, StartOutsider, ServerNext,
                Handle, LoseCall
  <2>. QED BY <2>1 DEF supervisorVars, LockDiscipline
<1>2. CASE LaunchNext
  BY <1>2 DEF LaunchNext, LaunchDone, SpawnFails, SpawnModule, Leave, LockDiscipline
<1>3. CASE ShutdownSignal
  BY <1>3 DEF ShutdownSignal, LockDiscipline
<1>4. CASE Crash \/ Start
  BY <1>4 DEF Crash, Start, Running, LockDiscipline
<1>. QED BY <1>1, <1>2, <1>3, <1>4, MonitorLock, StopLock DEF Next

-----------------------------------------------------------------------------
(* No false alarm: handlers only connect, the monitor only disconnects a   *)
(* child it has given up, and nothing forgets that a child was given up.   *)

LEMMA HandlerConnects ==
  ASSUME TypeOK, NEW c \in Calls, Handle(c)
  PROVE  \A id \in Registered' : Disconnected(id)' => Disconnected(id)
<1>1. /\ call[c] # Missing
      /\ modules \in [Registered -> ModuleRuntime]
  BY DEF Handle, TypeOK, StateTypeOK
<1>2. CASE HandleRegister(c)
  BY <1>1, <1>2 DEF HandleRegister, RegisterModule, RejectRegistration, state,
                    Registered, Disconnected
<1>3. CASE HandleHealth(c)
  <2>1. CASE UpdateHealth(call[c].req)
    BY <1>1, <2>1 DEF UpdateHealth, Registered, Disconnected, ModuleRuntime
  <2>2. CASE RejectHealth(call[c].req)
    BY <2>2 DEF RejectHealth, state, Registered, Disconnected
  <2>. QED BY <1>3, <2>1, <2>2 DEF HandleHealth
<1>4. CASE HandleUpsert(c)
  BY <1>4 DEF HandleUpsert, ReplaceDevices, RejectUpsert, state, Registered, Disconnected
<1>. QED BY <1>2, <1>3, <1>4 DEF Handle

\* exited only grows, except where a new supervisor starts.
LEMMA ExitedGrows ==
  ASSUME TypeOK, [Next]_vars, ~Start
  PROVE  \A m \in Managed : exited[m] => exited'[m]
<1>1. exited \in [Managed -> BOOLEAN]
  BY DEF TypeOK, ControlTypeOK
<1>2. CASE UNCHANGED vars \/ ModuleNext \/ ServerNext \/ LaunchNext \/ ShutdownSignal \/ Crash
  BY <1>2 DEF vars, supervisorVars, ModuleNext, Exit, Join, Issue, StartOutsider, ServerNext,
              Handle, LoseCall, LaunchNext, LaunchDone, SpawnFails, SpawnModule, Leave,
              ShutdownSignal, Crash
<1>3. CASE MonitorNext
  BY <1>1, <1>3 DEF MonitorNext, MonitorTick, PollSkip, PollGiveUp, PollMark, MonitorExit
<1>4. CASE StopNext
  BY <1>1, <1>4 DEF StopNext, StopChildren, StopChild, Return, Leave
<1>. QED BY <1>2, <1>3, <1>4 DEF Next

LEMMA NextAlarm ==
  ASSUME TypeOK, LockDiscipline, NoFalseAlarm, [Next]_vars
  PROVE  NoFalseAlarm'
<1>1. CASE Start
  BY <1>1 DEF Start, Reset, NoModules, NoFalseAlarm, Registered
<1>2. SUFFICES ASSUME ~Start, NEW m \in Registered', Disconnected(m)'
               PROVE  m \in Managed /\ exited'[m]
  BY <1>1 DEF NoFalseAlarm
<1>3. CASE Disconnected(m)
  BY <1>2, <1>3, ExitedGrows DEF NoFalseAlarm, Disconnected
<1>4. CASE ~Disconnected(m)
  <2>1. ~ServerNext
    BY <1>2, <1>4, HandlerConnects
       DEF ServerNext, LoseCall, state, Disconnected, Registered
  <2>2. ~UNCHANGED modules
    BY <1>2, <1>4 DEF Disconnected, Registered
  <2>3. PICK k \in Managed : PollMark(k)
    BY <1>2, <2>1, <2>2
       DEF Next, vars, state, ModuleNext, Exit, Join, Issue, StartOutsider, MonitorNext,
           MonitorTick, PollSkip, PollGiveUp, MonitorExit, LaunchNext, LaunchDone,
           SpawnFails, SpawnModule, StopNext, StopChildren, StopChild, Return, Leave,
           ShutdownSignal, Crash
  <2>4. exited'[k]
    BY <2>3, MissingIsNoId DEF PollMark, LockDiscipline
  <2>5. m = k
    BY <1>2, <1>4, <2>3
       DEF PollMark, MarkDisconnected, Disconnected, Registered, TypeOK, StateTypeOK
  <2>. QED BY <2>4, <2>5
<1>. QED BY <1>3, <1>4

-----------------------------------------------------------------------------
LEMMA NextReturned ==
  ASSUME TypeOK, LockDiscipline, NoChildSurvives, [Next]_vars
  PROVE  NoChildSurvives'
<1>. SUFFICES ASSUME phase' = "returned" PROVE NoChildSurvives'
  BY DEF NoChildSurvives
<1>1. ControlTypeOK /\ ChildrenListed
  BY DEF TypeOK
<1>2. CASE Leave
  BY <1>1, <1>2, LeaveTypes
<1>3. CASE ~Leave
  <2>1. phase = "returned" /\ ~Running /\ ~Accepting
    BY <1>3 DEF Next, vars, supervisorVars, ModuleNext, Exit, Join, Issue, StartOutsider,
                ServerNext, Handle, LoseCall, MonitorNext, MonitorTick, PollSkip, PollGiveUp,
                PollMark, MonitorExit, LaunchNext, LaunchDone, SpawnFails, SpawnModule,
                StopNext, StopChildren, StopChild, Return, ShutdownSignal, Crash, Start,
                Running, Accepting
  <2>2. \A m \in Managed : ~Alive(Child(m))
    BY <2>1 DEF NoChildSurvives
  <2>3. CASE UNCHANGED proc
    BY <2>2, <2>3 DEF NoChildSurvives, Alive
  <2>4. ASSUME NEW p \in Procs, Exit(p)
        PROVE  NoChildSurvives'
    BY <1>1, <2>2, <2>4, ProcsFacts DEF Exit, NoChildSurvives, Alive, ControlTypeOK, Live, Ended
  <2>5. ASSUME NEW m \in Outsiders, StartOutsider(m)
        PROVE  NoChildSurvives'
    <3>1. \A k \in Managed : Child(k) # Outsider(m)
      BY DEF Child, Outsider
    <3>2. \A k \in Managed : proc'[Child(k)] = proc[Child(k)]
      BY <1>1, <2>5, <3>1, ProcsFacts DEF StartOutsider, ControlTypeOK
    <3>. QED BY <2>2, <3>2 DEF NoChildSurvives, Alive
  <2>6. UNCHANGED proc \/ (\E p \in Procs : Exit(p)) \/ (\E m \in Outsiders : StartOutsider(m))
    BY <1>3, <2>1
       DEF Next, vars, ModuleNext, Join, Issue, ServerNext, Handle, LoseCall, MonitorNext,
           MonitorTick, PollSkip, PollGiveUp, PollMark, MonitorExit, LaunchNext, LaunchDone,
           SpawnFails, SpawnModule, StopNext, StopChildren, StopChild, Return,
           ShutdownSignal, Crash, Start, LockDiscipline
  <2>. QED BY <2>3, <2>4, <2>5, <2>6
<1>. QED BY <1>2, <1>3

-----------------------------------------------------------------------------
LEMMA NextIInv == IInv /\ [Next]_vars => IInv'
<1> SUFFICES ASSUME IInv, [Next]_vars PROVE IInv'
  OBVIOUS
<1>1. ControlTypeOK' /\ ChildrenListed'
  BY NextTypes DEF IInv
<1>2. Inv'
  BY InventoryStep, NextInv DEF IInv, TypeOK, Inv
<1>3. LockDiscipline' /\ NoFalseAlarm' /\ NoChildSurvives'
  BY NextLock, NextAlarm, NextReturned DEF IInv
<1>. QED BY <1>1, <1>2, <1>3 DEF IInv, TypeOK, Inv

LEMMA Invariance == Spec => []IInv
BY InitIInv, NextIInv, PTL DEF Spec

\* The inventory, the life cycle and the calls in flight keep their types for
\* every set of modules, outsiders, devices and call slots.
THEOREM SupervisorTypes == Spec => []TypeOK
<1>1. IInv => TypeOK
  BY DEF IInv
<1>. QED BY Invariance, <1>1, PTL

\* The monitor and stop_children never hold the children lock together, and
\* a child is marked only in a tick that gave it up (lib.rs 216, 257).
THEOREM LockHeld == Spec => []LockDiscipline
<1>1. IInv => LockDiscipline
  BY DEF IInv
<1>. QED BY Invariance, <1>1, PTL

\* The inventory never shows a module as disconnected whose child the monitor
\* has not given up (lib.rs 203-254).
THEOREM Truthful == Spec => []NoFalseAlarm
<1>1. IInv => NoFalseAlarm
  BY DEF IInv
<1>. QED BY Invariance, <1>1, PTL

\* No child outlives run_config_with_shutdown (lib.rs 117-127 and 192).
THEOREM Contained == Spec => []NoChildSurvives
<1>1. IInv => NoChildSurvives
  BY DEF IInv
<1>. QED BY Invariance, <1>1, PTL

-----------------------------------------------------------------------------
(* At most one process of a module serves: one that serves has registered  *)
(* its id, and an id that is registered is refused.                        *)

Served == starts = 1 => \A p \in Procs : Serves(p) => p[1] \in Registered

\* Only a new supervisor forgets a registration.
LEMMA RegisteredGrows ==
  ASSUME TypeOK, [Next]_vars, ~Start
  PROVE  Registered \subseteq Registered'
<1>1. UNCHANGED modules => Registered \subseteq Registered'
  BY DEF Registered
<1>2. ASSUME NEW c \in Calls, Handle(c) PROVE Registered \subseteq Registered'
  BY <1>1, <1>2
     DEF Handle, HandleRegister, HandleHealth, HandleUpsert, RegisterModule, RejectRegistration,
         UpdateHealth, RejectHealth, ReplaceDevices, RejectUpsert, state, Registered
<1>3. ASSUME NEW m \in Managed, PollMark(m) PROVE Registered \subseteq Registered'
  BY <1>3 DEF PollMark, MarkDisconnected, Registered
<1>4. UNCHANGED modules \/ (\E c \in Calls : Handle(c)) \/ (\E m \in Managed : PollMark(m))
  BY DEF Next, vars, state, ModuleNext, Exit, Join, Issue, StartOutsider, ServerNext, LoseCall,
         MonitorNext, MonitorTick, PollSkip, PollGiveUp, MonitorExit, LaunchNext, LaunchDone,
         SpawnFails, SpawnModule, StopNext, StopChildren, StopChild, Return, Leave,
         ShutdownSignal, Crash
<1>. QED BY <1>1, <1>2, <1>3, <1>4

\* A process begins to serve with the registration of its id, or was a child that
\* a crash leaves to itself.
LEMMA BeginsToServe ==
  ASSUME TypeOK, [Next]_vars, NEW p \in Procs, Serves(p)', ~Serves(p)
  PROVE  \/ p[1] \notin Registered /\ p[1] \in Registered'
            /\ \A q \in Procs : Serves(q)' => Serves(q) \/ q = p
         \/ Crash
<1>1. proc \in [Procs -> Live \union {"none", "gone"}]
  BY DEF TypeOK, ControlTypeOK
<1>2. Ended(p) # "up"
  BY DEF Ended
<1>3. ASSUME NEW c \in Calls, Handle(c)
      PROVE  p[1] \notin Registered /\ p[1] \in Registered'
             /\ \A q \in Procs : Serves(q)' => Serves(q) \/ q = p
  <2>1. call[c].op = "register" /\ RegisterModule(call[c].req) /\ Answer(call[c].from, "up")
    <3>1. Answer(call[c].from, Ended(call[c].from)) => ~Serves(p)'
      BY <1>1, <1>2 DEF Answer, Serves, Ended
    <3>. QED BY <1>3, <3>1 DEF Handle, HandleRegister, HandleHealth, HandleUpsert, Serves
  <2>2. p = call[c].from
    BY <1>1, <2>1 DEF Answer, Serves
  <2>3. call[c].req.manifest = p[1]
    BY <1>3, <2>1, <2>2 DEF Handle, TypeOK, ControlTypeOK, AllCalls, CallsOf, Registration
  <2>4. \A q \in Procs : Serves(q)' => Serves(q) \/ q = p
    BY <1>1, <2>1, <2>2 DEF Answer, Serves
  <2>. QED BY <2>1, <2>3, <2>4 DEF RegisterModule, RegistrationValid, Registered
<1>4. ~(\E c \in Calls : Handle(c)) => Crash
  BY <1>1, <1>2
     DEF Next, vars, ModuleNext, Exit, Join, Issue, StartOutsider, ServerNext, LoseCall,
         MonitorNext, MonitorTick, PollSkip, PollGiveUp, PollMark, MonitorExit, LaunchNext,
         LaunchDone, SpawnFails, SpawnModule, StopNext, StopChildren, StopChild, Return, Leave,
         Unanswered, ShutdownSignal, Start, Serves, Ended
<1>. QED BY <1>3, <1>4

\* What a crash leaves is what there was, at most one process of a module.
LEMMA CrashServes ==
  ASSUME TypeOK, Crash, NEW p \in Procs, Serves(p)'
  PROVE  /\ p[2] = "outsider"
         /\ \E q \in Procs : q[1] = p[1] /\ Serves(q)
<1>1. p[2] = "outsider"
  BY ProcsFacts DEF Crash, Serves
<1>2. CASE Serves(p)
  BY <1>1, <1>2
<1>3. CASE ~Serves(p)
  <2>1. p[1] \in Managed /\ proc[Child(p[1])] = "up"
    BY <1>1, <1>3 DEF Crash, Serves, Unanswered, Ended
  <2>. QED BY <1>1, <2>1, ProcsFacts DEF Serves
<1>. QED BY <1>2, <1>3

LEMMA ServedNext ==
  ASSUME IInv, Served, OneServes, [Next]_vars
  PROVE  Served' /\ OneServes'
<1>. SUFFICES ASSUME starts' = 1 PROVE Served' /\ OneServes'
  BY DEF Served, OneServes
<1>1. TypeOK /\ starts \in Nat \ {0}
  BY StartAssumption DEF IInv, TypeOK, ControlTypeOK
<1>2. ~Start /\ starts = 1
  <2>1. ~Start
    BY <1>1 DEF Start
  <2>2. starts' = starts
    BY <2>1 DEF Next, vars, supervisorVars, ModuleNext, Exit, Join, Issue, StartOutsider,
                ServerNext, Handle, LoseCall, MonitorNext, MonitorTick, PollSkip, PollGiveUp,
                PollMark, MonitorExit, LaunchNext, LaunchDone, SpawnFails, SpawnModule,
                StopNext, StopChildren, StopChild, Return, Leave, ShutdownSignal, Crash
  <2>. QED BY <2>1, <2>2
<1>3. /\ \A p \in Procs : Serves(p) => p[1] \in Registered
      /\ \A p, q \in Procs : p[1] = q[1] /\ Serves(p) /\ Serves(q) => p = q
  BY <1>2 DEF Served, OneServes
<1>4. Registered \subseteq Registered'
  BY <1>1, <1>2, RegisteredGrows
<1>5. ASSUME NEW p \in Procs, Serves(p)' PROVE p[1] \in Registered'
  BY <1>1, <1>3, <1>4, <1>5, BeginsToServe, CrashServes
<1>6. ASSUME NEW p \in Procs, NEW q \in Procs, p[1] = q[1], Serves(p)', Serves(q)'
      PROVE  p = q
  <2>1. CASE Crash
    <3>1. p[2] = "outsider" /\ q[2] = "outsider"
      BY <1>1, <1>6, <2>1, CrashServes
    <3>. QED BY <1>6, <3>1 DEF Procs, Child, Outsider
  <2>2. CASE ~Crash
    <3>1. CASE Serves(p) /\ Serves(q)
      BY <1>3, <1>6, <3>1
    <3>2. CASE ~Serves(p)
      <4>1. p[1] \notin Registered /\ (Serves(q) \/ q = p)
        BY <1>1, <1>6, <2>2, <3>2, BeginsToServe
      <4>. QED BY <1>3, <1>6, <4>1
    <3>3. CASE ~Serves(q)
      <4>1. q[1] \notin Registered /\ (Serves(p) \/ p = q)
        BY <1>1, <1>6, <2>2, <3>3, BeginsToServe
      <4>. QED BY <1>3, <1>6, <4>1
    <3>. QED BY <3>1, <3>2, <3>3
  <2>. QED BY <2>1, <2>2
<1>. QED BY <1>5, <1>6 DEF Served, OneServes

\* At most one process of a module serves in the life of a first supervisor, in
\* whatever order the registrations get the state lock (service.rs 49-56).
THEOREM OneServer == Spec => []OneServes
<1>1. Init => Served /\ OneServes
  BY DEF Init, Served, OneServes, Serves
<1>2. IInv /\ Served /\ OneServes /\ [Next]_vars => (Served /\ OneServes)'
  BY ServedNext
<1>. QED BY Invariance, <1>1, <1>2, PTL DEF Spec

-----------------------------------------------------------------------------
(* A dead module stays dead.  What is left to know is that nothing has been *)
(* given up while children are still launched, so that no dead module can   *)
(* be spawned a second time.                                                *)

NothingGivenUp == phase = "launching" => \A m \in Managed : ~exited[m]

LEMMA GivenUpStep == IInv /\ NothingGivenUp /\ [Next]_vars => NothingGivenUp'
<1> SUFFICES ASSUME IInv, NothingGivenUp, [Next]_vars, phase' = "launching"
             PROVE  \A m \in Managed : ~exited'[m]
  BY DEF NothingGivenUp
<1>1. CASE Start
  BY <1>1 DEF Start
<1>2. CASE ~Start
  BY <1>2 DEF IInv, LockDiscipline, NothingGivenUp, Next, vars, supervisorVars, ModuleNext,
              Exit, Join, Issue, StartOutsider, ServerNext, Handle, LoseCall, MonitorNext,
              MonitorTick, PollSkip, PollGiveUp, PollMark, MonitorExit, LaunchNext,
              LaunchDone, SpawnFails, SpawnModule, StopNext, StopChildren, StopChild,
              Return, Leave, ShutdownSignal, Crash
<1>. QED BY <1>1, <1>2

\* What a call asks for is about the module that sent it.
LEMMA CallOwner ==
  ASSUME TypeOK, NEW c \in Calls, call[c] # Missing
  PROVE  /\ call[c].op = "register" => call[c].req.manifest = call[c].from[1]
         /\ call[c].op = "health" => call[c].req.module_id = call[c].from[1]
<1>1. PICK p \in Procs : call[c] \in CallsOf(p)
  BY DEF TypeOK, ControlTypeOK, AllCalls
<1>. QED BY <1>1 DEF CallsOf, Registration, Report

\* Only a module's own call connects it.
LEMMA MarkStays ==
  ASSUME TypeOK, [Next]_vars, ~Start, NEW m \in Managed, Dead(m)
  PROVE  Disconnected(m)'
<1>1. /\ m \in Registered
      /\ ~modules[m].connected
      /\ modules \in [Registered -> ModuleRuntime]
  BY DEF Dead, Disconnected, TypeOK, StateTypeOK
<1>2. CASE UNCHANGED modules
  BY <1>1, <1>2 DEF Disconnected, Registered
<1>3. ASSUME NEW k \in Managed, PollMark(k)
      PROVE  Disconnected(m)'
  BY <1>1, <1>3 DEF PollMark, MarkDisconnected, Disconnected, Registered, ModuleRuntime
<1>4. ASSUME NEW c \in Calls, Handle(c)
      PROVE  Disconnected(m)'
  <2>1. call[c] # Missing /\ call[c].from[1] # m
    BY <1>4 DEF Handle, Dead, Silent, InFlight
  <2>2. CASE HandleRegister(c)
    BY <1>1, <2>2 DEF HandleRegister, RegisterModule, RejectRegistration, RegistrationValid,
                      state, Registered, Disconnected
  <2>3. CASE HandleHealth(c)
    <3>1. call[c].req.module_id # m
      BY <2>1, <2>3, CallOwner DEF HandleHealth
    <3>2. CASE UpdateHealth(call[c].req)
      BY <1>1, <3>1, <3>2 DEF UpdateHealth, Registered, Disconnected
    <3>3. CASE RejectHealth(call[c].req)
      BY <1>1, <3>3 DEF RejectHealth, state, Registered, Disconnected
    <3>. QED BY <2>3, <3>2, <3>3 DEF HandleHealth
  <2>4. CASE HandleUpsert(c)
    BY <1>1, <2>4 DEF HandleUpsert, ReplaceDevices, RejectUpsert, state, Registered,
                      Disconnected
  <2>. QED BY <1>4, <2>2, <2>3, <2>4 DEF Handle
<1>. QED BY <1>2, <1>3, <1>4
         DEF Next, vars, state, ModuleNext, Exit, Join, Issue, StartOutsider, ServerNext,
             LoseCall, MonitorNext, MonitorTick, PollSkip, PollGiveUp, MonitorExit,
             LaunchNext, LaunchDone, SpawnFails, SpawnModule, StopNext, StopChildren,
             StopChild, Return, Leave, ShutdownSignal, Crash

\* Of a module without a process, none comes to live but one that is started
\* by hand.
LEMMA ProcessStays ==
  ASSUME TypeOK, NothingGivenUp, [Next]_vars, ~Start, NEW m \in Managed, exited[m],
         NEW p \in Procs, p[1] = m, Silent(m), ~(m \in Outsiders /\ StartOutsider(m))
  PROVE  ~Alive(p)'
<1>1. /\ ~Alive(p)
      /\ proc \in [Procs -> Live \union {"none", "gone"}]
      /\ Child(m) \in Procs /\ ~Alive(Child(m))
      /\ Ended(p) \in {"gone", "none"}
  BY ProcsFacts DEF Silent, TypeOK, ControlTypeOK
<1>2. CASE UNCHANGED proc
  BY <1>1, <1>2 DEF Alive
<1>3. ASSUME NEW q \in Procs, Exit(q)
      PROVE  ~Alive(p)'
  BY <1>1, <1>3, ProcsFacts DEF Exit, Alive, Live
<1>4. ASSUME NEW q \in Procs, NEW c \in Calls, Join(q, c)
      PROVE  ~Alive(p)'
  BY <1>1, <1>4 DEF Join, Alive, Live
<1>5. ASSUME NEW k \in Outsiders, StartOutsider(k)
      PROVE  ~Alive(p)'
  <2>1. k # m
    BY <1>5
  <2>2. p # Outsider(k)
    BY <2>1 DEF Outsider
  <2>. QED BY <1>1, <1>5, <2>2 DEF StartOutsider, Alive
<1>6. ASSUME NEW c \in Calls, Handle(c)
      PROVE  ~Alive(p)'
  <2>1. call[c].from \in Procs /\ Ended(call[c].from) \in {"gone", "none"}
    BY <1>6, CallTypes, ProcsFacts DEF Handle
  <2>. QED BY <1>1, <1>6, <2>1
           DEF Handle, HandleRegister, HandleHealth, HandleUpsert, Answer, Alive, Live
<1>7. ASSUME NEW k \in Managed, SpawnModule(k)
      PROVE  ~Alive(p)'
  <2>1. k # m
    BY <1>7 DEF SpawnModule, NothingGivenUp
  <2>2. p # Child(k)
    BY <2>1 DEF Child
  <2>. QED BY <1>1, <1>7, <2>2 DEF SpawnModule, Alive
<1>8. ASSUME NEW k \in Managed, StopChild(k)
      PROVE  ~Alive(p)'
  BY <1>1, <1>8 DEF StopChild, Alive, Live
<1>9. CASE Leave
  BY <1>1, <1>9 DEF Leave, Unanswered, Alive, Live
<1>10. CASE Crash
  <2>1. proc[Child(m)] \notin {"boot", "up"}
    BY <1>1 DEF Alive, Live
  <2>2. Unanswered(p) = proc[p]
    BY <1>1 DEF Unanswered, Alive, Live
  <2>3. proc'[p] \in {"none", proc[p]}
    BY <1>10, <2>1, <2>2 DEF Crash
  <2>. QED BY <1>1, <2>3 DEF Alive, Live
<1>. QED BY <1>2, <1>3, <1>4, <1>5, <1>6, <1>7, <1>8, <1>9, <1>10
         DEF Next, vars, ModuleNext, Issue, ServerNext, LoseCall, MonitorNext,
             MonitorTick, PollSkip, PollGiveUp, PollMark, MonitorExit, LaunchNext,
             LaunchDone, SpawnFails, StopNext, StopChildren, Return, ShutdownSignal

\* A module without a process issues no call.
LEMMA CallsStay ==
  ASSUME TypeOK, [Next]_vars, ~Start, NEW m \in Managed, Silent(m)
  PROVE  \A c \in InFlight' : call'[c].from[1] # m
<1> SUFFICES ASSUME NEW c \in Calls, call'[c] # Missing, call'[c].from[1] = m
             PROVE  FALSE
  BY DEF InFlight
<1>1. call[c] # Missing => call[c].from[1] # m
  BY DEF Silent, InFlight
<1>2. /\ call \in [Calls -> AllCalls \union {Missing}]
      /\ \A q \in Procs : q[1] = m => proc[q] \notin Live
  BY DEF Silent, Alive, TypeOK, ControlTypeOK
<1>3. call'[c] # call[c]
  BY <1>1
<1>4. ASSUME NEW q \in Procs, NEW d \in Calls, Join(q, d)
      PROVE  FALSE
  BY <1>2, <1>3, <1>4 DEF Join, Live
<1>5. ASSUME NEW q \in Procs, NEW d \in Calls, Issue(q, d)
      PROVE  FALSE
  <2>1. q[1] # m
    BY <1>2, <1>5 DEF Issue, Live
  <2>2. \A new \in CallsOf(q) : new.from = q
    BY DEF CallsOf
  <2>. QED BY <1>2, <1>3, <1>5, <2>1, <2>2 DEF Issue
<1>6. ASSUME NEW d \in Calls, Handle(d) \/ LoseCall(d)
      PROVE  FALSE
  BY <1>2, <1>3, <1>6 DEF Handle, LoseCall
<1>7. CASE Leave \/ Crash
  BY <1>7 DEF Leave, Crash, NoCalls
<1>. QED BY <1>3, <1>4, <1>5, <1>6, <1>7
         DEF Next, vars, ModuleNext, Exit, StartOutsider, ServerNext, MonitorNext,
             MonitorTick, PollSkip, PollGiveUp, PollMark, MonitorExit, LaunchNext,
             LaunchDone, SpawnFails, SpawnModule, StopNext, StopChildren, StopChild,
             Return, ShutdownSignal

\* A module that is down stays down for the rest of the supervisor's life,
\* unless somebody starts it by hand (lib.rs 216-219, service.rs 49-58).
THEOREM StaysDead == Spec => DeadStaysDead
<1>1. Init => IInv /\ NothingGivenUp
  BY InitIInv DEF Init, NothingGivenUp
<1>2. (IInv /\ NothingGivenUp) /\ [Next]_vars => (IInv /\ NothingGivenUp)'
  BY NextIInv, GivenUpStep
<1>3. ASSUME IInv, NothingGivenUp, [Next]_vars
      PROVE  [\A m \in Managed :
                Dead(m) => \/ Dead(m)'
                           \/ m \in Outsiders /\ StartOutsider(m)
                           \/ Start]_vars
  <2> SUFFICES ASSUME ~Start, NEW m \in Managed, Dead(m),
                      ~(m \in Outsiders /\ StartOutsider(m))
               PROVE  Dead(m)'
    OBVIOUS
  <2>1. TypeOK /\ exited[m] /\ Silent(m)
    BY <1>3 DEF IInv, NoFalseAlarm, Dead, Disconnected
  <2>2. Disconnected(m)'
    BY <1>3, <2>1, MarkStays
  <2>3. \A p \in Procs : p[1] = m => ~Alive(p)'
    BY <1>3, <2>1, ProcessStays
  <2>4. \A c \in InFlight' : call'[c].from[1] # m
    BY <1>3, <2>1, CallsStay
  <2>. QED BY <2>2, <2>3, <2>4 DEF Dead, Silent
<1>. QED BY <1>1, <1>2, <1>3, PTL DEF Spec, DeadStaysDead
=============================================================================
