--------------------------- MODULE HueModuleProofs ---------------------------
(***************************************************************************)
(* Proofs about the philips-hue module, for any lights, sensors, requests  *)
(* and bounds: types and lock ownership, the pairing flag, and that        *)
(* credentials in use were saved.                                          *)
(***************************************************************************)
EXTENDS HueModule, TLAPS

\* The state of one task.
TaskState == [pc : Labels, order : Order \union {NoOrder}, copy : [Devices -> Status]]

\* The conjuncts of TypeOK: the types of the variables and the owners of the locks.
Typed ==
  /\ bridge \in [Devices -> Status]
  /\ cache \in [Lights -> Status]
  /\ listed \in [Devices -> Status]
  /\ credentials \in BOOLEAN
  /\ file \in {"none", "user", "broken"}
  /\ pairing \in BOOLEAN
  /\ task \in [Tasks -> TaskState]
  /\ holder \in [Locks -> Tasks \union {Nobody}]

Owned ==
  \A t \in Tasks : /\ holder["config"] = t <=> At(t, "locked")
                   /\ holder["credentials"] = t <=> At(t, "status")

-----------------------------------------------------------------------------
(* One task changes at a time                                              *)

\* A task moves on or ends: the result is a state of a task, and the other
\* tasks stay where they are.
LEMMA GotoTyped ==
  ASSUME task \in [Tasks -> TaskState], NEW t \in Tasks, NEW l \in Labels, Goto(t, l)
  PROVE  /\ task' \in [Tasks -> TaskState]
         /\ \A u \in Tasks \ {t} : task'[u] = task[u]
         /\ task'[t].pc = l
BY DEF Goto, TaskState

LEMMA IdleTyped == Idle \in TaskState
BY DEF Idle, TaskState, Labels, Nothing, Status

LEMMA FinishTyped ==
  ASSUME task \in [Tasks -> TaskState], NEW t \in Tasks, Finish(t)
  PROVE  /\ task' \in [Tasks -> TaskState]
         /\ \A u \in Tasks \ {t} : task'[u] = task[u]
         /\ task'[t].pc = "idle"
<1>1. task' = [task EXCEPT ![t] = Idle]
  BY DEF Finish
<1>2. Idle.pc = "idle"
  BY DEF Idle
<1> QED BY <1>1, <1>2, IdleTyped

LEMMA StartedTyped ==
  /\ Started \in [Tasks -> TaskState]
  /\ \A t \in Tasks : Started[t].pc \in {"idle", "lock"}
<1>1. /\ [Idle EXCEPT !.pc = "lock"] \in TaskState
      /\ [Idle EXCEPT !.pc = "lock"].pc = "lock"
  BY DEF Idle, TaskState, Labels, Nothing, Status
<1>2. Idle.pc = "idle"
  BY DEF Idle
<1> QED BY <1>1, <1>2, IdleTyped DEF Started

\* A task that neither takes nor frees a lock leaves the ownership as it is.
LEMMA OwnedKept ==
  ASSUME Owned, holder' = holder, NEW t \in Tasks,
         \A u \in Tasks \ {t} : task'[u] = task[u],
         task[t].pc \notin {"locked", "status"}, task'[t].pc \notin {"locked", "status"}
  PROVE  Owned'
BY DEF Owned, At

-----------------------------------------------------------------------------
(* Types and ownership                                                     *)

LEMMA TypedInit == Init => Typed /\ Owned
<1> SUFFICES ASSUME Init PROVE Typed /\ Owned
  OBVIOUS
<1>1. task \in [Tasks -> TaskState] /\ \A t \in Tasks : task[t].pc \in {"idle", "lock"}
  BY StartedTyped DEF Init
<1>2. Nobody \notin Tasks
  BY TaskAssumption DEF Tasks
<1>3. Typed
  BY <1>1 DEF Init, Typed, Status, Nothing, Devices, Locks
<1>4. Owned
  BY <1>1, <1>2 DEF Init, Owned, At, Locks
<1> QED BY <1>3, <1>4

\* What starts a task, and takes at most the credentials.
LEMMA OrdersTyped ==
  ASSUME Typed, Owned,
         \/ PollTick \/ OrderSync
         \/ \E t \in Ordered : OrderLight(t) \/ ToggleLight(t) \/ OrderPairing(t)
         \/ \E r \in Requests : AskStatus(r)
  PROVE  Typed' /\ Owned'
<1> {"poll", "command"} \subseteq Tasks /\ Ordered \subseteq Tasks /\ Requests \subseteq Tasks
  BY DEF Tasks, Ordered
<1>0. task \in [Tasks -> TaskState]
  BY DEF Typed
<1>1. CASE PollTick
  <2>1. PICK l \in {"lock", "address"} : Goto("poll", l)
    BY <1>1 DEF PollTick
  <2>2. l \in Labels /\ task["poll"].pc = "idle"
    BY <1>1 DEF PollTick, At, Labels
  <2>3. Typed'
    BY <1>0, <1>1, <2>1, <2>2, GotoTyped DEF PollTick, Typed, shared
  <2>4. Owned'
    BY <1>0, <1>1, <2>1, <2>2, GotoTyped, OwnedKept DEF PollTick
  <2> QED BY <2>3, <2>4
<1>2. CASE OrderSync
  <2>1. "lock" \in Labels /\ task["command"].pc = "idle" /\ Goto("command", "lock")
    BY <1>2 DEF OrderSync, NewOrder, At, Labels
  <2>2. Typed'
    BY <1>0, <1>2, <2>1, GotoTyped DEF OrderSync, Typed, shared
  <2>3. Owned'
    BY <1>0, <1>2, <2>1, GotoTyped, OwnedKept DEF OrderSync
  <2> QED BY <2>2, <2>3
<1>3. ASSUME NEW t \in Ordered, OrderLight(t) \/ ToggleLight(t)
      PROVE  Typed' /\ Owned'
  <2>1. PICK o \in Order : task' = [task EXCEPT ![t].pc = "lock", ![t].order = o]
    <3>1. ASSUME NEW s PROVE Flip(s) \in {"on", "off"}
      BY DEF Flip
    <3> QED BY <1>3, <3>1 DEF OrderLight, ToggleLight, Order
  <2>2. /\ task' \in [Tasks -> TaskState]
        /\ \A u \in Tasks \ {t} : task'[u] = task[u]
        /\ task'[t].pc = "lock"
    BY <1>0, <2>1 DEF TaskState, Labels
  <2>3. task[t].pc = "idle" /\ UNCHANGED <<shared, holder>>
    BY <1>3 DEF OrderLight, ToggleLight, NewOrder, At
  <2>4. Typed'
    BY <2>2, <2>3 DEF Typed, shared
  <2>5. Owned'
    BY <2>2, <2>3, OwnedKept
  <2> QED BY <2>4, <2>5
<1>4. ASSUME NEW t \in Ordered, OrderPairing(t)
      PROVE  Typed' /\ Owned'
  <2>1. "address" \in Labels /\ task[t].pc = "idle" /\ Goto(t, "address")
    BY <1>4 DEF OrderPairing, NewOrder, At, Labels
  <2>2. Typed'
    BY <1>0, <1>4, <2>1, GotoTyped DEF OrderPairing, Typed, shared
  <2>3. Owned'
    BY <1>0, <1>4, <2>1, GotoTyped, OwnedKept DEF OrderPairing
  <2> QED BY <2>2, <2>3
<1>5. ASSUME NEW r \in Requests, AskStatus(r)
      PROVE  Typed' /\ Owned'
  <2>1. /\ "status" \in Labels /\ task[r].pc = "idle" /\ Goto(r, "status")
        /\ holder["credentials"] = Nobody
        /\ holder' = [holder EXCEPT !["credentials"] = r]
    BY <1>5 DEF AskStatus, NewOrder, At, Labels, Free
  <2>2. /\ task' \in [Tasks -> TaskState]
        /\ \A u \in Tasks \ {r} : task'[u] = task[u]
        /\ task'[r].pc = "status"
    BY <1>0, <2>1, GotoTyped
  <2>3. Typed'
    BY <1>5, <2>1, <2>2 DEF AskStatus, Typed, shared
  <2>4. Owned'
    <3>1. Nobody \notin Tasks
      BY TaskAssumption DEF Tasks
    <3>2. holder'["config"] = holder["config"] /\ holder'["credentials"] = r
      BY <2>1 DEF Typed, Locks
    <3> QED BY <2>1, <2>2, <3>1, <3>2 DEF Owned, At
  <2> QED BY <2>3, <2>4
<1> QED BY <1>1, <1>2, <1>3, <1>4, <1>5

\* The steps that take or free a lock.
LEMMA LockingTyped ==
  ASSUME Typed, Owned,
         \/ \E t \in Tasks : LockConfig(t) \/ LockCredentials(t)
         \/ \E r \in Requests : AnswerStatus(r) \/ GiveUp(r)
         \/ Restart
  PROVE  Typed' /\ Owned'
<1> Requests \subseteq Tasks
  BY DEF Tasks
<1>0. task \in [Tasks -> TaskState] /\ Nobody \notin Tasks
  BY TaskAssumption DEF Typed, Tasks
<1>1. ASSUME NEW t \in Tasks, LockConfig(t)
      PROVE  Typed' /\ Owned'
  <2>1. /\ "locked" \in Labels /\ task[t].pc = "lock" /\ Goto(t, "locked")
        /\ holder["config"] = Nobody
        /\ holder' = [holder EXCEPT !["config"] = t]
    BY <1>1 DEF LockConfig, At, Labels, Free
  <2>2. /\ task' \in [Tasks -> TaskState]
        /\ \A u \in Tasks \ {t} : task'[u] = task[u]
        /\ task'[t].pc = "locked"
    BY <1>0, <2>1, GotoTyped
  <2>3. Typed'
    BY <1>1, <2>1, <2>2 DEF LockConfig, Typed, shared
  <2>4. holder'["config"] = t /\ holder'["credentials"] = holder["credentials"]
    BY <2>1 DEF Typed, Locks
  <2>5. Owned'
    BY <1>0, <2>1, <2>2, <2>4 DEF Owned, At
  <2> QED BY <2>3, <2>5
<1>2. ASSUME NEW t \in Tasks, LockCredentials(t)
      PROVE  Typed' /\ Owned'
  <2>1. /\ task[t].pc = "locked"
        /\ holder' = [holder EXCEPT !["config"] = Nobody]
        /\ Goto(t, "fetch") \/ Goto(t, "put") \/ Finish(t)
    BY <1>2 DEF LockCredentials, At
  <2>2. /\ task' \in [Tasks -> TaskState]
        /\ \A u \in Tasks \ {t} : task'[u] = task[u]
        /\ task'[t].pc \in {"fetch", "put", "idle"}
    <3>1. "fetch" \in Labels /\ "put" \in Labels
      BY DEF Labels
    <3> QED BY <1>0, <2>1, <3>1, GotoTyped, FinishTyped
  <2>3. Typed'
    BY <1>2, <2>1, <2>2 DEF LockCredentials, Typed, shared
  <2>4. holder'["config"] = Nobody /\ holder'["credentials"] = holder["credentials"]
    BY <2>1 DEF Typed, Locks
  <2>5. holder["config"] = t
    BY <2>1 DEF Owned, At
  <2>6. Owned'
    BY <1>0, <2>1, <2>2, <2>4, <2>5 DEF Owned, At
  <2> QED BY <2>3, <2>6
<1>3. ASSUME NEW r \in Requests, AnswerStatus(r)
      PROVE  Typed' /\ Owned'
  <2>1. /\ task[r].pc = "status" /\ Finish(r)
        /\ holder' = [holder EXCEPT !["credentials"] = Nobody]
    BY <1>3 DEF AnswerStatus, At
  <2>2. /\ task' \in [Tasks -> TaskState]
        /\ \A u \in Tasks \ {r} : task'[u] = task[u]
        /\ task'[r].pc = "idle"
    BY <1>0, <2>1, FinishTyped
  <2>3. Typed'
    BY <1>3, <2>1, <2>2 DEF AnswerStatus, Typed, shared
  <2>4. holder'["credentials"] = Nobody /\ holder'["config"] = holder["config"]
    BY <2>1 DEF Typed, Locks
  <2>5. holder["credentials"] = r
    BY <2>1 DEF Owned, At
  <2>6. Owned'
    BY <1>0, <2>1, <2>2, <2>4, <2>5 DEF Owned, At
  <2> QED BY <2>3, <2>6
<1>4. ASSUME NEW r \in Requests, GiveUp(r)
      PROVE  Typed' /\ Owned'
  <2>1. Finish(r) /\ holder' = Released(r)
    BY <1>4 DEF GiveUp
  <2>2. /\ task' \in [Tasks -> TaskState]
        /\ \A u \in Tasks \ {r} : task'[u] = task[u]
        /\ task'[r].pc = "idle"
    BY <1>0, <2>1, FinishTyped
  <2>3. bridge' \in [Devices -> Status]
    <3>1. CASE task[r].pc = "put"
      <4>1. bridge' \in {bridge, Applied(task[r].order)}
        BY <1>4, <3>1 DEF GiveUp, At
      <4>2. task[r].order.on \in Status
        <5>1. task[r].order \in Order \union {NoOrder}
          BY <1>0 DEF TaskState
        <5> QED BY <5>1 DEF Order, NoOrder, Status
      <4>3. Applied(task[r].order) \in [Devices -> Status]
        BY <4>2 DEF Applied, Typed, Status
      <4> QED BY <4>1, <4>3 DEF Typed
    <3>2. CASE task[r].pc # "put"
      BY <1>4, <3>2 DEF GiveUp, At, Typed
    <3> QED BY <3>1, <3>2
  <2>4. holder' \in [Locks -> Tasks \union {Nobody}]
    BY <2>1 DEF Released, Typed
  <2>5. Typed'
    BY <1>4, <2>2, <2>3, <2>4 DEF GiveUp, Typed
  <2>6. \A lock \in Locks : holder'[lock] = IF holder[lock] = r THEN Nobody ELSE holder[lock]
    BY <2>1 DEF Released
  <2>7. Owned'
    BY <1>0, <2>2, <2>6 DEF Owned, At, Locks
  <2> QED BY <2>5, <2>7
<1>5. CASE Restart
  <2>1. /\ task' \in [Tasks -> TaskState]
        /\ \A t \in Tasks : task'[t].pc \in {"idle", "lock"}
    BY <1>5, StartedTyped DEF Restart
  <2>2. holder' = [lock \in Locks |-> Nobody]
    BY <1>5 DEF Restart
  <2>3. /\ file' \in {"none", "user", "broken"}
        /\ credentials' \in BOOLEAN /\ pairing' \in BOOLEAN
    BY <1>5 DEF Restart, Typed
  <2>4. /\ bridge' \in [Devices -> Status] /\ cache' \in [Lights -> Status]
        /\ listed' \in [Devices -> Status]
    BY <1>5 DEF Restart, Typed, Status, Nothing
  <2>5. Typed'
    BY <2>1, <2>2, <2>3, <2>4 DEF Typed
  <2>6. Owned'
    BY <1>0, <2>1, <2>2 DEF Owned, At, Locks
  <2> QED BY <2>5, <2>6
<1> QED BY <1>1, <1>2, <1>3, <1>4, <1>5

\* What a task does without holding a lock while it waits, and the devices.
LEMMA WorkTyped ==
  ASSUME Typed, Owned,
         \/ \E t \in Tasks : \/ ReadAddress(t) \/ SetCredentials(t)
                              \/ Sync(t) \/ Set(t) \/ Pair(t)
         \/ Move
  PROVE  Typed' /\ Owned'
<1>0. task \in [Tasks -> TaskState]
  BY DEF Typed
<1>1. ASSUME NEW t \in Tasks,
             ReadAddress(t) \/ SetCredentials(t) \/ Sync(t) \/ Set(t) \/ Pair(t)
      PROVE  Typed' /\ Owned'
  <2>1. task[t].pc \notin {"locked", "status"} /\ holder' = holder
    BY <1>1 DEF ReadAddress, SetCredentials, Sync, FetchLights, FetchSensors, StoreLights,
                PublishDevices, Set, PutState, NoteState, Pair, PairBridge,
                SaveCredentials, At, shared
  <2>2. task[t] \in TaskState
    BY <1>0
  <2>3. /\ task' \in [Tasks -> TaskState]
        /\ \A u \in Tasks \ {t} : task'[u] = task[u]
        /\ task'[t].pc \notin {"locked", "status"}
    <3>1. CASE Finish(t)
      BY <1>0, <3>1, FinishTyped
    <3>2. CASE \E l \in {"ask", "lock", "store", "publish", "note", "save", "set"} : Goto(t, l)
      <4>1. {"ask", "lock", "store", "publish", "note", "save", "set"} \subseteq Labels
        BY DEF Labels
      <4> QED BY <1>0, <3>2, <4>1, GotoTyped
    <3>3. CASE \E l \in {"sensors", "store"}, S \in {Lights, Sensors} :
                 task' = [task EXCEPT ![t].pc = l, ![t].copy = Read(t, S)]
      <4>1. PICK l \in {"sensors", "store"}, S \in {Lights, Sensors} :
                   task' = [task EXCEPT ![t].pc = l, ![t].copy = Read(t, S)]
        BY <3>3
      <4>2. Read(t, S) \in [Devices -> Status]
        BY <2>2 DEF Read, Typed, TaskState
      <4>3. task' = [task EXCEPT ![t] = [task[t] EXCEPT !.pc = l, !.copy = Read(t, S)]]
        BY <4>1
      <4>4. /\ [task[t] EXCEPT !.pc = l, !.copy = Read(t, S)] \in TaskState
            /\ [task[t] EXCEPT !.pc = l, !.copy = Read(t, S)].pc = l
        BY <2>2, <4>2 DEF TaskState, Labels
      <4> QED BY <1>0, <4>3, <4>4
    <3>4. FetchLights(t) \/ FetchSensors(t) =>
            \/ Finish(t) \/ Goto(t, "store")
            \/ \E l \in {"sensors", "store"}, S \in {Lights, Sensors} :
                 task' = [task EXCEPT ![t].pc = l, ![t].copy = Read(t, S)]
      BY DEF FetchLights, FetchSensors
    <3>5. StoreLights(t) \/ PublishDevices(t) => Goto(t, "publish") \/ Finish(t)
      BY DEF StoreLights, PublishDevices
    <3>6. Set(t) => Goto(t, "note") \/ Finish(t)
      BY DEF Set, PutState, NoteState
    <3>7. Pair(t) => Goto(t, "save") \/ Finish(t) \/ Goto(t, "set")
      BY DEF Pair, PairBridge, SaveCredentials
    <3>8. ReadAddress(t) \/ SetCredentials(t) => Goto(t, "ask") \/ Goto(t, "lock")
      BY DEF ReadAddress, SetCredentials
    <3> QED BY <1>1, <3>1, <3>2, <3>3, <3>4, <3>5, <3>6, <3>7, <3>8 DEF Sync
  <2>4. Owned'
    BY <2>1, <2>3, OwnedKept
  <2>5. bridge' \in [Devices -> Status]
    <3>1. CASE PutState(t)
      <4>1. task[t].order.on \in Status
        BY <2>2 DEF TaskState, Order, NoOrder, Status
      <4>2. Applied(task[t].order) \in [Devices -> Status]
        BY <4>1 DEF Applied, Typed, Status
      <4> QED BY <3>1, <4>2 DEF PutState, Typed
    <3>2. CASE ~PutState(t)
      BY <1>1, <3>2 DEF ReadAddress, SetCredentials, Sync, FetchLights, FetchSensors,
                        StoreLights, PublishDevices, Set, NoteState, Pair, PairBridge,
                        SaveCredentials, Typed, shared
    <3> QED BY <3>1, <3>2
  <2>6. cache' \in [Lights -> Status]
    <3>1. CASE StoreLights(t)
      BY <2>2, <3>1 DEF StoreLights, TaskState, Devices
    <3>2. CASE NoteState(t)
      <4>1. task[t].order.on \in Status
        BY <2>2 DEF TaskState, Order, NoOrder, Status
      <4> QED BY <3>2, <4>1 DEF NoteState, Typed, Status
    <3>3. CASE ~StoreLights(t) /\ ~NoteState(t)
      BY <1>1, <3>3 DEF ReadAddress, SetCredentials, Sync, FetchLights, FetchSensors,
                        PublishDevices, Set, PutState, Pair, PairBridge,
                        SaveCredentials, Typed, shared
    <3> QED BY <3>1, <3>2, <3>3
  <2>7. listed' \in [Devices -> Status]
    <3>1. CASE PublishDevices(t)
      BY <2>2, <3>1 DEF PublishDevices, TaskState, Typed
    <3>2. CASE ~PublishDevices(t)
      BY <1>1, <3>2 DEF ReadAddress, SetCredentials, Sync, FetchLights, FetchSensors,
                        StoreLights, Set, PutState, NoteState, Pair, PairBridge,
                        SaveCredentials, Typed, shared
    <3> QED BY <3>1, <3>2
  <2>8. /\ credentials' \in BOOLEAN /\ pairing' \in BOOLEAN
        /\ file' \in {"none", "user", "broken"}
    BY <1>1 DEF ReadAddress, SetCredentials, Sync, FetchLights, FetchSensors, StoreLights,
                PublishDevices, Set, PutState, NoteState, Pair, PairBridge,
                SaveCredentials, Typed, shared
  <2>9. Typed'
    BY <2>1, <2>3, <2>5, <2>6, <2>7, <2>8 DEF Typed
  <2> QED BY <2>4, <2>9
<1>2. CASE Move
  <2>1. bridge' \in [Devices -> Status]
    BY <1>2 DEF Move, Typed
  <2>2. Typed'
    BY <1>2, <2>1 DEF Move, Typed
  <2>3. Owned'
    BY <1>2 DEF Move, Owned, At
  <2> QED BY <2>2, <2>3
<1> QED BY <1>1, <1>2

LEMMA TypedStep == Typed /\ Owned /\ [Next]_vars => Typed' /\ Owned'
<1> SUFFICES ASSUME Typed, Owned, [Next]_vars PROVE Typed' /\ Owned'
  OBVIOUS
<1>1. CASE PollTick \/ OrderSync \/ \E r \in Requests : AskStatus(r)
  BY <1>1, OrdersTyped
<1>2. CASE \E t \in Ordered : OrderLight(t) \/ ToggleLight(t) \/ OrderPairing(t)
  BY <1>2, OrdersTyped
<1>3. CASE \E t \in Tasks : Locking(t) \/ Sync(t) \/ Set(t) \/ Pair(t)
  <2>1. PICK t \in Tasks : Locking(t) \/ Sync(t) \/ Set(t) \/ Pair(t)
    BY <1>3
  <2>2. CASE LockConfig(t) \/ LockCredentials(t)
    BY <2>2, LockingTyped
  <2>3. CASE ReadAddress(t) \/ SetCredentials(t) \/ Sync(t) \/ Set(t) \/ Pair(t)
    BY <2>3, WorkTyped
  <2> QED BY <2>1, <2>2, <2>3 DEF Locking
<1>4. CASE Restart \/ \E r \in Requests : AnswerStatus(r) \/ GiveUp(r)
  BY <1>4, LockingTyped
<1>5. CASE Move
  BY <1>5, WorkTyped
<1>6. CASE UNCHANGED vars
  BY <1>6 DEF vars, shared, Typed, Owned, At
<1> QED BY <1>1, <1>2, <1>3, <1>4, <1>5, <1>6 DEF Next

\* Type correctness, and that exactly the task in the locked or the status step
\* holds the configuration or the credentials (main.rs 207-208, 510-511, 672-673).
THEOREM HueTypes == Spec => []TypeOK
<1>1. Typed /\ Owned => TypeOK
  BY DEF Typed, Owned, TypeOK, TaskState
<1> QED BY <1>1, TypedInit, TypedStep, PTL DEF Spec

-----------------------------------------------------------------------------
(* The pairing flag and the saved credentials                              *)

\* The steps of task t, those apart that the two invariants are about.
Other(t) ==
  \/ t = "poll" /\ PollTick
  \/ t = "command" /\ OrderSync
  \/ LockConfig(t) \/ LockCredentials(t) \/ Sync(t) \/ Set(t)
  \/ OrderLight(t) \/ ToggleLight(t) \/ OrderPairing(t)
  \/ AskStatus(t) \/ AnswerStatus(t)

\* They touch no other task, neither the flag nor the credentials, and lead from
\* and to steps other than ask, save and set.
LEMMA OtherSteps ==
  ASSUME Typed, NEW t \in Tasks, Other(t)
  PROVE  /\ \A u \in Tasks \ {t} : task'[u] = task[u]
         /\ task[t].pc \notin {"ask", "save", "set"}
         /\ task'[t].pc \notin {"ask", "save", "set"}
         /\ UNCHANGED <<pairing, cancelled, credentials, file, unsaved>>
<1>0. task \in [Tasks -> TaskState]
  BY DEF Typed
<1>1. /\ task[t].pc \notin {"ask", "save", "set"}
      /\ UNCHANGED <<pairing, cancelled, credentials, file, unsaved>>
  BY DEF Other, PollTick, OrderSync, LockConfig, LockCredentials, Sync, FetchLights,
         FetchSensors, StoreLights, PublishDevices, Set, PutState, NoteState, OrderLight,
         ToggleLight, OrderPairing, AskStatus, AnswerStatus, NewOrder, At, shared
<1>2. /\ \A u \in Tasks \ {t} : task'[u] = task[u]
      /\ task'[t].pc \notin {"ask", "save", "set"}
  <2>1. ASSUME NEW l \in Labels \ {"ask", "save", "set"}, Goto(t, l)
        PROVE  (\A u \in Tasks \ {t} : task'[u] = task[u]) /\ task'[t].pc \notin {"ask", "save", "set"}
    BY <1>0, <2>1, GotoTyped
  <2>2. ASSUME Finish(t)
        PROVE  (\A u \in Tasks \ {t} : task'[u] = task[u]) /\ task'[t].pc \notin {"ask", "save", "set"}
    BY <1>0, <2>2, FinishTyped
  <2>3. CASE t = "poll" /\ PollTick
    <3>1. Goto(t, "lock") \/ Goto(t, "address")
      BY <2>3 DEF PollTick
    <3> QED BY <2>1, <3>1 DEF Labels
  <2>4. CASE t = "command" /\ OrderSync
    <3>1. Goto(t, "lock")
      BY <2>4 DEF OrderSync
    <3> QED BY <2>1, <3>1 DEF Labels
  <2>5. CASE LockConfig(t) \/ LockCredentials(t)
    <3>1. Goto(t, "locked") \/ Goto(t, "fetch") \/ Goto(t, "put") \/ Finish(t)
      BY <2>5 DEF LockConfig, LockCredentials
    <3> QED BY <2>1, <2>2, <3>1 DEF Labels
  <2>6. CASE StoreLights(t) \/ PublishDevices(t) \/ Set(t)
    <3>1. Goto(t, "publish") \/ Goto(t, "note") \/ Finish(t)
      BY <2>6 DEF StoreLights, PublishDevices, Set, PutState, NoteState
    <3> QED BY <2>1, <2>2, <3>1 DEF Labels
  <2>7. CASE OrderPairing(t) \/ AskStatus(t) \/ AnswerStatus(t)
    <3>1. Goto(t, "address") \/ Goto(t, "status") \/ Finish(t)
      BY <2>7 DEF OrderPairing, AskStatus, AnswerStatus
    <3> QED BY <2>1, <2>2, <3>1 DEF Labels
  <2>8. CASE FetchLights(t) \/ FetchSensors(t)
    <3>1. \/ Goto(t, "store") \/ Finish(t)
          \/ \E S : task' = [task EXCEPT ![t].pc = "sensors", ![t].copy = Read(t, S)]
          \/ \E S : task' = [task EXCEPT ![t].pc = "store", ![t].copy = Read(t, S)]
      BY <2>8 DEF FetchLights, FetchSensors
    <3>2. task[t] \in TaskState
      BY <1>0
    <3> QED BY <1>0, <2>1, <2>2, <3>1, <3>2 DEF Labels, TaskState
  <2>9. CASE OrderLight(t) \/ ToggleLight(t)
    <3>1. \E o : task' = [task EXCEPT ![t].pc = "lock", ![t].order = o]
      BY <2>9 DEF OrderLight, ToggleLight
    <3>2. task[t] \in TaskState
      BY <1>0
    <3> QED BY <1>0, <3>1, <3>2 DEF TaskState
  <2> QED BY <2>3, <2>4, <2>5, <2>6, <2>7, <2>8, <2>9 DEF Other, Sync
<1> QED BY <1>1, <1>2

LEMMA FlagStep == Typed /\ FlagExplained /\ [Next]_vars => FlagExplained'
<1> SUFFICES ASSUME Typed, FlagExplained, [Next]_vars, pairing'
             PROVE  cancelled' \/ \E r \in Requests : At(r, "ask")'
  BY DEF FlagExplained
<1> Requests \subseteq Tasks /\ Ordered \subseteq Tasks /\ {"poll", "command"} \subseteq Tasks
  BY DEF Tasks, Ordered
<1>0. task \in [Tasks -> TaskState]
  BY DEF Typed
<1>1. ASSUME NEW t \in Tasks, Other(t)
      PROVE  cancelled' \/ \E r \in Requests : At(r, "ask")'
  <2>1. pairing' = pairing /\ cancelled' = cancelled
    BY <1>1, OtherSteps
  <2>2. cancelled \/ \E r \in Requests : At(r, "ask")
    BY <2>1 DEF FlagExplained
  <2>3. ASSUME NEW r \in Requests, At(r, "ask") PROVE At(r, "ask")'
    BY <1>1, <2>3, OtherSteps DEF At
  <2> QED BY <2>1, <2>2, <2>3
<1>2. ASSUME NEW t \in Tasks, ReadAddress(t)
      PROVE  cancelled' \/ \E r \in Requests : At(r, "ask")'
  <2>1. "ask" \in Labels /\ Goto(t, "ask") /\ cancelled' = cancelled
    BY <1>2 DEF ReadAddress, Labels
  <2>2. (\A u \in Tasks \ {t} : task'[u] = task[u]) /\ task'[t].pc = "ask"
    BY <1>0, <2>1, GotoTyped
  <2>3. pairing \/ t \in Requests
    BY <1>2 DEF ReadAddress
  <2> QED BY <2>1, <2>2, <2>3 DEF FlagExplained, At
<1>3. ASSUME NEW t \in Tasks, PairBridge(t)
      PROVE  cancelled' \/ \E r \in Requests : At(r, "ask")'
  <2>1. pairing /\ t \notin Requests /\ cancelled' = cancelled
    BY <1>3 DEF PairBridge
  <2>2. "save" \in Labels
    BY DEF Labels
  <2>3. \A u \in Tasks \ {t} : task'[u] = task[u]
    BY <1>0, <1>3, <2>2, GotoTyped, FinishTyped DEF PairBridge
  <2> QED BY <2>1, <2>3 DEF FlagExplained, At
<1>4. ASSUME NEW t \in Tasks, SaveCredentials(t) \/ SetCredentials(t)
      PROVE  cancelled' \/ \E r \in Requests : At(r, "ask")'
  <2>1. UNCHANGED <<pairing, cancelled>> /\ ~At(t, "ask")
    BY <1>4 DEF SaveCredentials, SetCredentials, At, shared
  <2>2. "set" \in Labels /\ "lock" \in Labels
    BY DEF Labels
  <2>3. \A u \in Tasks \ {t} : task'[u] = task[u]
    BY <1>0, <1>4, <2>2, GotoTyped DEF SaveCredentials, SetCredentials
  <2> QED BY <2>1, <2>3 DEF FlagExplained, At
<1>5. ASSUME NEW r \in Requests, GiveUp(r)
      PROVE  cancelled' \/ \E q \in Requests : At(q, "ask")'
  <2>1. pairing' = pairing /\ cancelled' = (cancelled \/ At(r, "ask")) /\ Finish(r)
    BY <1>5 DEF GiveUp
  <2>2. \A u \in Tasks \ {r} : task'[u] = task[u]
    BY <1>0, <2>1, FinishTyped
  <2> QED BY <2>1, <2>2 DEF FlagExplained, At
<1>6. CASE Restart
  BY <1>6 DEF Restart
<1>7. CASE Move \/ UNCHANGED vars
  BY <1>7 DEF Move, vars, shared, FlagExplained, At
<1> QED BY <1>1, <1>2, <1>3, <1>4, <1>5, <1>6, <1>7 DEF Next, Locking, Pair, Other

\* The flag of a pairing request that ends is taken down (main.rs 567-575): only
\* a request that is given up while the bridge is asked leaves it up.
THEOREM FlagTold == Spec => []FlagExplained
<1>1. Init => FlagExplained
  BY DEF Init, FlagExplained
<1> QED BY <1>1, TypedInit, TypedStep, FlagStep, PTL DEF Spec

\* A task that is about to publish credentials has saved them or failed to.
Saved == \A t \in Tasks : At(t, "set") => file = "user" \/ unsaved

LEMMA SavedStep ==
  Typed /\ Saved /\ PairingSaved /\ [Next]_vars => Saved' /\ PairingSaved'
<1> SUFFICES ASSUME Typed, Saved, PairingSaved, [Next]_vars PROVE Saved' /\ PairingSaved'
  OBVIOUS
<1> Requests \subseteq Tasks /\ Ordered \subseteq Tasks /\ {"poll", "command"} \subseteq Tasks
  BY DEF Tasks, Ordered
<1>0. task \in [Tasks -> TaskState]
  BY DEF Typed
<1>1. ASSUME NEW t \in Tasks, Other(t)
      PROVE  Saved' /\ PairingSaved'
  BY <1>1, OtherSteps DEF Saved, PairingSaved, At
<1>2. ASSUME NEW t \in Tasks, ReadAddress(t) \/ PairBridge(t)
      PROVE  Saved' /\ PairingSaved'
  <2>1. /\ Finish(t) \/ \E l \in Labels \ {"set"} : Goto(t, l)
        /\ UNCHANGED <<credentials, file, unsaved>>
    BY <1>2 DEF ReadAddress, PairBridge, Labels
  <2>2. (\A u \in Tasks \ {t} : task'[u] = task[u]) /\ task'[t].pc # "set"
    BY <1>0, <2>1, GotoTyped, FinishTyped
  <2> QED BY <2>1, <2>2 DEF Saved, PairingSaved, At
<1>3. ASSUME NEW t \in Tasks, SaveCredentials(t)
      PROVE  Saved' /\ PairingSaved'
  BY <1>3 DEF SaveCredentials, Saved, PairingSaved
<1>4. ASSUME NEW t \in Tasks, SetCredentials(t)
      PROVE  Saved' /\ PairingSaved'
  <2>1. /\ file = "user" \/ unsaved
        /\ UNCHANGED <<file, unsaved>>
    BY <1>4 DEF SetCredentials, Saved
  <2> QED BY <2>1 DEF Saved, PairingSaved
<1>5. ASSUME NEW r \in Requests, GiveUp(r)
      PROVE  Saved' /\ PairingSaved'
  <2>1. Finish(r) /\ UNCHANGED <<credentials, file, unsaved>>
    BY <1>5 DEF GiveUp
  <2>2. (\A u \in Tasks \ {r} : task'[u] = task[u]) /\ task'[r].pc = "idle"
    BY <1>0, <2>1, FinishTyped
  <2> QED BY <2>1, <2>2 DEF Saved, PairingSaved, At
<1>6. CASE Restart
  <2>1. \A t \in Tasks : ~At(t, "set")'
    BY <1>6, StartedTyped DEF Restart, At
  <2>2. credentials' = (file' = "user")
    BY <1>6 DEF Restart
  <2> QED BY <2>1, <2>2 DEF Saved, PairingSaved
<1>7. CASE Move \/ UNCHANGED vars
  BY <1>7 DEF Move, vars, shared, Saved, PairingSaved, At
<1> QED BY <1>1, <1>2, <1>3, <1>4, <1>5, <1>6, <1>7 DEF Next, Locking, Pair, Other

\* Whichever of the three paths pairs first, and whoever else pairs meanwhile, the
\* credentials in use are those of the file, or their save was the one that failed.
THEOREM CredentialsSaved == Spec => []PairingSaved
<1>1. Init => Saved /\ PairingSaved
  <2>1. Init => \A t \in Tasks : ~At(t, "set")
    BY StartedTyped DEF Init, At
  <2> QED BY <2>1 DEF Init, Saved, PairingSaved
<1> QED BY <1>1, TypedInit, TypedStep, SavedStep, PTL DEF Spec

\* Both together: the pairing flag and the credentials.
THEOREM PairingRight == Spec => []PairingTold
<1>1. FlagExplained /\ PairingSaved => PairingTold
  BY DEF PairingTold
<1> QED BY <1>1, FlagTold, CredentialsSaved, PTL
=============================================================================
